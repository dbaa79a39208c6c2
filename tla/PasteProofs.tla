---------------------------- MODULE PasteProofs ----------------------------
(***************************************************************************)
(* The proof that the paste database reads back what was pasted, as long   *)
(* as every id has a bucket of its own and no pwrite is cut short, for any *)
(* number of workers, any pastes, any number of buckets, and any failures  *)
(* of malloc, pread and pwrite and kills.                                  *)
(***************************************************************************)
EXTENDS DbProofs

USE DEF HEADER_SIZE, REC_HDR_SIZE, NEXT_FIELD, OFFSET_FIELD, NUM_BUCKETS_FIELD, procVars, lockVars,
        history

(* Where a bucket is in the file. *)
LEMMA BucketCells ==
  ASSUME NEW f \in Seq(Nat), NEW n \in Nat, Len(f) >= MapSize(n), NEW b \in 0..(n - 1)
  PROVE  /\ BucketOffset(b) + 1 \in 5..MapSize(n) /\ BucketOffset(b) + 2 \in 5..MapSize(n)
         /\ BucketOffset(b) + 1 \in 1..Len(f) /\ BucketOffset(b) + 2 \in 1..Len(f)
         /\ Bucket(f, b) = <<f[BucketOffset(b) + 1], f[BucketOffset(b) + 2]>>
         /\ Bucket(f, b) \in Nat \X Nat
<1>1. Len(f) \in Nat
  OBVIOUS
<1>2. /\ BucketOffset(b) + 1 \in 5..MapSize(n) /\ BucketOffset(b) + 2 \in 5..MapSize(n)
      /\ BucketOffset(b) + 1 \in 1..Len(f) /\ BucketOffset(b) + 2 \in 1..Len(f)
  BY <1>1 DEF BucketOffset, MapSize
<1>3. Bucket(f, b) = <<f[BucketOffset(b) + 1], f[BucketOffset(b) + 2]>>
  BY DEF Bucket, Load
<1> QED
  BY <1>2, <1>3, SMTT(30)

(* A record stays where it is if no cell behind the buckets is overwritten. *)
LEMMA HoldsKept ==
  ASSUME file \in Seq(Nat), file' \in Seq(Nat), Len(file') >= Len(file),
         NEW m \in Nat, \A k \in (m + 1)..Len(file) : file'[k] = file[k],
         NEW p \in Nat, p >= m, NEW id, Holds(p, id), pasted[id] \in Seq(Nat),
         id \in DOMAIN pasted', pasted'[id] = pasted[id]
  PROVE  Holds(p, id)'
<1> DEFINE v == Len(pasted[id])
<1>1. Len(file) \in Nat /\ Len(file') \in Nat /\ v \in Nat
  OBVIOUS
<1>2. /\ p + 5 + v <= Len(file) /\ RecVlen(file, p) = v /\ RecId(file, p) = dbid_t(id)
      /\ RecNext(file, p) = DBID_FREE /\ \A k \in 1..v : file[p + 5 + k] = pasted[id][k]
  BY DEF Holds
<1> HIDE DEF v
<1>3. \A k \in 1..(5 + v) : p + k \in (m + 1)..Len(file) /\ file'[p + k] = file[p + k]
  <2> SUFFICES ASSUME NEW k \in 1..(5 + v)
               PROVE  p + k \in (m + 1)..Len(file) /\ file'[p + k] = file[p + k]
    OBVIOUS
  <2>1. p + k \in (m + 1)..Len(file)
    BY <1>1, <1>2
  <2> QED
    BY <2>1
<1>4. /\ file'[p + 1] = file[p + 1] /\ file'[p + 2] = file[p + 2] /\ file'[p + 3] = file[p + 3]
      /\ file'[p + 4] = file[p + 4] /\ file'[p + 5] = file[p + 5]
  BY <1>1, <1>3, SMTT(30)
<1>5. /\ RecVlen(file', p) = RecVlen(file, p) /\ RecId(file', p) = RecId(file, p)
      /\ RecNext(file', p) = RecNext(file, p)
  <2>1. p + 1 + 1 = p + 2 /\ p + 1 + 2 = p + 3 /\ p + 3 + 1 = p + 4 /\ p + 3 + 2 = p + 5
    OBVIOUS
  <2> QED
    BY <1>4, <2>1 DEF RecVlen, RecId, RecNext, Load
<1>6. \A k \in 1..v : file'[p + 5 + k] = pasted[id][k]
  <2> SUFFICES ASSUME NEW k \in 1..v PROVE file'[p + 5 + k] = pasted[id][k]
    OBVIOUS
  <2>1. 5 + k \in 1..(5 + v) /\ p + (5 + k) = p + 5 + k
    BY <1>1
  <2> QED
    BY <1>2, <1>3, <2>1
<1>7. p + 5 + v <= Len(file')
  BY <1>1, <1>2
<1>8. Len(pasted'[id]) = v
  BY DEF v
<1> QED
  BY <1>2, <1>5, <1>6, <1>7, <1>8 DEF Holds

(* The bucket of an id still leads to its paste if neither it nor the record changed. *)
LEMMA OwnKept ==
  ASSUME file \in Seq(Nat), file' \in Seq(Nat), Len(file') >= Len(file),
         NumBuckets(file) \in Nat, NumBuckets(file') = NumBuckets(file),
         \A k \in (MapSize(NumBuckets(file)) + 1)..Len(file) : file'[k] = file[k],
         NEW id \in Nat, Bucket(file', id) = Bucket(file, id), Own(id), pasted[id] \in Seq(Nat),
         id \in DOMAIN pasted', pasted'[id] = pasted[id]
  PROVE  Own(id)'
<1>1. PICK m \in Nat : m = MapSize(NumBuckets(file))
  BY DEF MapSize
<1>2. PICK p \in m..Len(file) : Bucket(file, id) = dbid_t(p) /\ Holds(p, id)
  BY <1>1 DEF Own
<1>3. Holds(p, id)'
  <2>1. p \in Nat /\ p >= m /\ \A k \in (m + 1)..Len(file) : file'[k] = file[k]
    BY <1>1, <1>2
  <2> QED
    BY <1>2, <2>1, HoldsKept
<1>4. p \in MapSize(NumBuckets(file'))..Len(file')
  BY <1>1, <1>2
<1> QED
  BY <1>2, <1>3, <1>4 DEF Own

(* An id whose bucket leads to its paste has been issued, and its bucket is set. *)
LEMMA OwnFacts ==
  ASSUME file \in Seq(Nat), NumBuckets(file) \in Nat, NEW id \in Nat, Own(id)
  PROVE  /\ id \in DOMAIN pasted /\ id < NumBuckets(file)
         /\ Bucket(file, id)[1] # 0 /\ Bucket(file, id)[2] = 0
         /\ Bucket(file, id) # DBID_FREE /\ Bucket(file, id) # dbid_t(0)
         /\ Holds(Bucket(file, id)[1], id)
<1>1. PICK p \in MapSize(NumBuckets(file))..Len(file) : Bucket(file, id) = dbid_t(p) /\ Holds(p, id)
  BY DEF Own
<1>2. p \in Nat \ {0}
  BY <1>1 DEF MapSize
<1>3. dbid_t(p)[1] = p /\ dbid_t(p)[2] = 0 /\ dbid_t(p) # DBID_FREE /\ dbid_t(p) # dbid_t(0)
  BY <1>2, DbAssumption DEF dbid_t, DBID_FREE
<1> QED
  BY <1>1, <1>2, <1>3 DEF Own, Holds

----------------------------------------------------------------------------
(* A worker outside its calls has established nothing. *)
LEMMA IdleStep == ASSUME NEW w \in Workers, pc[w] = "idle" PROVE StepInv(w)
BY DEF StepInv, InsertPcs

(* While one worker writes no other is in a call. *)
LEMMA WriterAlone ==
  ASSUME TypeOK, LockInv, NEW w \in Workers, writer = w
  PROVE  \A v \in Workers : v # w => pc[v] = "idle"
<1>1. w # None /\ readers = {}
  BY DbAssumption DEF LockInv
<1> QED
  BY <1>1 DEF TypeOK, LockInv

(* These depend on nothing but the file and the pastes. *)
LEMMA HoldsSame ==
  ASSUME UNCHANGED <<file, pasted>>, NEW p, NEW id PROVE Holds(p, id)' <=> Holds(p, id)
BY DEF Holds

LEMMA UnsetSame == ASSUME UNCHANGED file, NEW b PROVE Unset(b)' <=> Unset(b)
BY DEF Unset

LEMMA OwnSame ==
  ASSUME UNCHANGED <<file, pasted>>, NEW id PROVE Own(id)' <=> Own(id)
BY HoldsSame DEF Own

(* What a worker has established stays if neither it nor the file moves. *)
LEMMA SameStep ==
  ASSUME NEW w \in Workers, StepInv(w), UNCHANGED <<file, pasted, acked>>,
         pc'[w] = pc[w], loc'[w] = loc[w]
  PROVE  StepInv(w)'
<1>1. Unset(loc[w].id)' <=> Unset(loc[w].id)
  BY DEF Unset
<1>2. Own(loc[w].id)' <=> Own(loc[w].id)
  BY DEF Own, Holds
<1>3. Holds(loc[w].off[1], loc[w].id)' <=> Holds(loc[w].off[1], loc[w].id)
  BY DEF Holds
<1>4. RightAnswer(w)' <=> RightAnswer(w)
  BY DEF RightAnswer
<1> QED
  BY <1>1, <1>2, <1>3, <1>4 DEF StepInv

(* The heap is as it was if the file is, and nothing was issued or returned. *)
LEMMA SameHeap ==
  ASSUME HeapInv, UNCHANGED <<file, pasted, acked>>
  PROVE  HeapInv'
<1>1. (\A id \in acked : Own(id))'
  BY OwnSame DEF HeapInv
<1>2. ASSUME NEW b PROVE Unset(b)' <=> Unset(b)
  BY UnsetSame
<1>3. ASSUME NEW p, NEW id PROVE Holds(p, id)' <=> Holds(p, id)
  BY HoldsSame
<1> QED
  BY <1>1, <1>2, <1>3 DEF HeapInv

(* The process ends, and the file stays. *)
LEMMA PasteDie ==
  ASSUME PasteInv, Die, UNCHANGED file
  PROVE  PasteInv'
<1> SUFFICES ASSUME ~Collided', "short" \notin Faults PROVE HeapInv' /\ \A w \in Workers : StepInv(w)'
  BY DEF PasteInv, CreateInv, Die
<1>1. HeapInv
  BY DEF PasteInv, Collided
<1>2. HeapInv'
  BY <1>1, SameHeap DEF Die
<1>3. \A w \in Workers : pc'[w] = "idle"
  BY DEF Die
<1> QED
  BY <1>2, <1>3 DEF StepInv, InsertPcs

(* The first state has no file. *)
LEMMA PasteInit == Init => PasteInv
<1> SUFFICES ASSUME Init PROVE HeapInv /\ \A w \in Workers : StepInv(w)
  BY DEF PasteInv, CreateInv, Init
<1>1. \A w \in Workers : pc[w] = "idle"
  BY DEF Init
<1> QED
  BY <1>1, IdleStep DEF Init, HeapInv

(* open_db on no file, and on one that is there. *)
LEMMA PasteOpen ==
  ASSUME BasicInv, PasteInv, NEW n \in BucketParams, CreateFile(n) \/ OpenFile(n)
  PROVE  PasteInv'
<1> SUFFICES ASSUME ~Collided', "short" \notin Faults PROVE HeapInv' /\ \A w \in Workers : StepInv(w)'
  BY DEF PasteInv, CreateInv, CreateFile, OpenFile
<1>1. UNCHANGED <<file, pasted, acked, pc, loc>>
  BY DEF CreateFile, OpenFile
<1>2. HeapInv /\ \A w \in Workers : StepInv(w)
  BY <1>1 DEF PasteInv, Collided
<1> QED
  BY <1>1, <1>2, SameHeap, SameStep

(* Until open_db has made the file no worker is in a call and no id was returned. *)
LEMMA BeforeUp ==
  ASSUME BasicInv, phase \in {"created", "sized", "meta"}
  PROVE  /\ acked = {} /\ \A w \in Workers : pc[w] = "idle"
         /\ params \in Nat \ {0} /\ file \in Seq(Nat)
BY DbAssumption DEF BasicInv, TypeOK, LockInv, FileInv

(* ftruncate: a header of zeros, and no bucket. *)
LEMMA PasteTruncate == ASSUME BasicInv, Truncate PROVE PasteInv'
<1>1. acked = {} /\ (\A w \in Workers : pc[w] = "idle") /\ params \in Nat \ {0}
  BY BeforeUp DEF Truncate
<1>2. file' = [k \in 1..MapSize(params) |-> 0] /\ phase' = "sized" /\ UNCHANGED <<pc, acked>>
  BY DEF Truncate
<1>3. MapSize(params) \in Nat /\ MapSize(params) >= 6
  BY <1>1 DEF MapSize
<1>4. file' \in [1..MapSize(params) -> Nat]
  BY <1>2
<1>5. Len(file') = MapSize(params)
  BY <1>3, <1>4, FunIsSeq
<1>6. \A k \in 1..Len(file') : file'[k] = 0
  BY <1>2, <1>5
<1>7. file'[2] = 0 /\ file'[4] = 0 /\ NumBuckets(file') = 0
  BY <1>3, <1>5, <1>6 DEF NumBuckets
<1>8. CreateInv'
  BY <1>2, <1>6 DEF CreateInv
<1>10. HeapInv'
  <2>1. 0..(NumBuckets(file') - 1) = {}
    BY <1>7
  <2>2. acked' = {}
    BY <1>1, <1>2
  <2> QED
    BY <1>7, <2>1, <2>2 DEF HeapInv
<1>9. \A w \in Workers : StepInv(w)'
  BY <1>1, <1>2 DEF StepInv, InsertPcs
<1> QED
  BY <1>8, <1>9, <1>10 DEF PasteInv

(* The header is written, and the buckets are zeros. *)
LEMMA PasteInitMeta == ASSUME BasicInv, PasteInv, InitMeta PROVE PasteInv'
<1>1. /\ acked = {} /\ (\A w \in Workers : pc[w] = "idle") /\ params \in Nat \ {0}
      /\ file \in Seq(Nat) /\ Len(file) = MapSize(params)
  BY BeforeUp DEF InitMeta, BasicInv, FileInv
<1>2. phase' = "meta" /\ UNCHANGED <<pc, acked, params>> /\ file' = Pwrite(file, 0, Header(0, params))
  BY DEF InitMeta
<1>3. \A k \in 1..Len(file) : file[k] = 0
  BY DEF PasteInv, CreateInv, InitMeta
<1>4. Len(file) \in Nat /\ Len(file) >= 6
  BY <1>1 DEF MapSize
<1>5. /\ Header(0, params) \in Seq(Nat) /\ Len(Header(0, params)) = 4
      /\ Header(0, params)[1] = 0 /\ Header(0, params)[2] = 0
      /\ Header(0, params)[3] = params /\ Header(0, params)[4] = 0
  BY <1>1, SmallSeqs
<1>6. /\ file' \in Seq(Nat) /\ Len(file') = Len(file)
      /\ \A k \in 1..Len(file) : file'[k] = IF k <= 4 THEN Header(0, params)[k] ELSE file[k]
  <2>1. PICK s : s = Header(0, params)
    OBVIOUS
  <2>4. s \in Seq(Nat) /\ Len(s) = 4
    BY <1>5, <2>1, Zenon
  <2>2. s \in Seq(Nat) /\ Len(s) = 4 /\ Len(s) <= Len(file)
    BY <1>4, <2>4
  <2>3. /\ Pwrite(file, 0, s) \in Seq(Nat) /\ Len(Pwrite(file, 0, s)) = Len(file)
        /\ \A k \in 1..Len(file) : Pwrite(file, 0, s)[k] = IF k <= Len(s) THEN s[k] ELSE file[k]
    BY <1>1, <2>2, PwriteFront
  <2> QED
    BY <1>2, <2>1, <2>2, <2>3
<1>7. /\ MetaId(file') = 0 /\ file'[2] = 0 /\ NumBuckets(file') = params /\ file'[4] = 0
      /\ \A k \in 5..Len(file') : file'[k] = 0
  <2>1. file'[1] = 0 /\ file'[2] = 0 /\ file'[3] = params /\ file'[4] = 0
    <3>1. PICK h : h = Header(0, params) /\ h[1] = 0 /\ h[2] = 0 /\ h[3] = params /\ h[4] = 0
      BY <1>5, Zenon
    <3>2. \A k \in 1..Len(file) : file'[k] = IF k <= 4 THEN h[k] ELSE file[k]
      BY <1>6, <3>1, Zenon
    <3> QED
      BY <1>4, <3>1, <3>2
  <2>2. \A k \in 5..Len(file') : file'[k] = 0
    BY <1>3, <1>4, <1>6
  <2> QED
    BY <2>1, <2>2 DEF MetaId, NumBuckets
<1>8. CreateInv'
  BY <1>2, <1>7 DEF CreateInv
<1>9. ASSUME NEW b \in 0..(NumBuckets(file') - 1) PROVE Unset(b)'
  <2>1. Bucket(file', b) = <<file'[BucketOffset(b) + 1], file'[BucketOffset(b) + 2]>>
        /\ BucketOffset(b) + 1 \in 5..MapSize(params) /\ BucketOffset(b) + 2 \in 5..MapSize(params)
    <3>1. PICK f \in Seq(Nat) : f = file' /\ Len(f) >= MapSize(params) /\ b \in 0..(params - 1)
      BY <1>1, <1>4, <1>6, <1>7
    <3> QED
      BY <1>1, <3>1, BucketCells
  <2> QED
    BY <1>1, <1>6, <1>7, <2>1 DEF Unset, dbid_t
<1>10. HeapInv'
  BY <1>1, <1>2, <1>7, <1>9 DEF HeapInv
<1>11. \A w \in Workers : StepInv(w)'
  BY <1>1, <1>2 DEF StepInv, InsertPcs
<1> QED
  BY <1>8, <1>10, <1>11 DEF PasteInv

(* The memset, however far it has come: the buckets are free or zeros. *)
LEMMA PasteMemset ==
  ASSUME BasicInv, PasteInv, phase = "meta", NEW n \in 0..params, file' = FreeBuckets(file, n),
         UNCHANGED <<pasted, acked>>, phase' \in {"up", "down"}, \A w \in Workers : pc'[w] = "idle"
  PROVE  PasteInv'
<1>1. /\ acked = {} /\ params \in Nat \ {0} /\ file \in Seq(Nat) /\ Len(file) = MapSize(params)
      /\ NumBuckets(file) = params
  BY BeforeUp DEF BasicInv, FileInv
<1>2. /\ MetaId(file) = 0 /\ file[2] = 0 /\ file[4] = 0
      /\ \A k \in 5..Len(file) : file[k] = 0
  BY DEF PasteInv, CreateInv
<1>3. Ones \in Nat \ {0} /\ n \in Nat /\ n <= params /\ 2 * n \in Nat
  BY <1>1, DbAssumption
<1>4. PICK s : s = [k \in 1..2 * n |-> Ones]
  OBVIOUS
<1>5. s \in Seq(Nat) /\ Len(s) = 2 * n /\ \A k \in 1..2 * n : s[k] = Ones
  <2>1. s \in [1..2 * n -> Nat]
    BY <1>3, <1>4
  <2> QED
    BY <1>3, <1>4, <2>1, FunIsSeq
<1>6. file' = Pwrite(file, 4, s)
  BY <1>4 DEF FreeBuckets
<1>7. Len(file) \in Nat /\ 4 + 2 * n <= Len(file) /\ Len(file) >= 6
  BY <1>1, <1>3 DEF MapSize
<1>8. /\ file' \in Seq(Nat) /\ Len(file') = Len(file)
      /\ \A k \in 1..Len(file) : file'[k] = IF 4 < k /\ k <= 4 + 2 * n THEN Ones ELSE file[k]
  <2>1. /\ file' \in Seq(Nat)
        /\ Len(file') = IF 4 + Len(s) > Len(file) THEN 4 + Len(s) ELSE Len(file)
        /\ \A k \in 1..Len(file') :
             file'[k] = IF 4 < k /\ k <= 4 + Len(s) THEN s[k - 4]
                        ELSE IF k <= Len(file) THEN file[k] ELSE 0
    <3>1. /\ Pwrite(file, 4, s) \in Seq(Nat)
          /\ Len(Pwrite(file, 4, s)) = IF 4 + Len(s) > Len(file) THEN 4 + Len(s) ELSE Len(file)
          /\ \A k \in 1..Len(Pwrite(file, 4, s)) :
               Pwrite(file, 4, s)[k] = IF 4 < k /\ k <= 4 + Len(s) THEN s[k - 4]
                                       ELSE IF k <= Len(file) THEN file[k] ELSE 0
      <4>1. 4 \in Nat
        OBVIOUS
      <4> QED
        BY <1>1, <1>5, <4>1, PwriteFacts, ZenonT(30)
    <3> QED
      BY <1>6, <3>1, ZenonT(30)
  <2>2. Len(file') = Len(file)
    BY <1>5, <1>7, <2>1
  <2>3. ASSUME NEW k \in 1..Len(file)
        PROVE  file'[k] = IF 4 < k /\ k <= 4 + 2 * n THEN Ones ELSE file[k]
    <3>1. 4 < k /\ k <= 4 + 2 * n => k - 4 \in 1..2 * n
      BY <1>3, <1>7
    <3> QED
      BY <1>5, <1>7, <2>1, <2>2, <3>1, SMTT(30)
  <2> QED
    BY <2>1, <2>2, <2>3
<1>9. MetaId(file') = 0 /\ file'[2] = 0 /\ NumBuckets(file') = params /\ file'[4] = 0
  <2>1. file'[1] = file[1] /\ file'[2] = file[2] /\ file'[3] = file[3] /\ file'[4] = file[4]
    BY <1>3, <1>7, <1>8
  <2> QED
    BY <1>1, <1>2, <2>1 DEF MetaId, NumBuckets
<1>10. ASSUME NEW b \in 0..(NumBuckets(file') - 1) PROVE Unset(b)'
  <2>1. /\ Bucket(file', b) = <<file'[BucketOffset(b) + 1], file'[BucketOffset(b) + 2]>>
        /\ BucketOffset(b) + 1 \in 5..Len(file) /\ BucketOffset(b) + 2 \in 5..Len(file)
    <3>1. PICK f \in Seq(Nat) : f = file' /\ Len(f) >= MapSize(params) /\ b \in 0..(params - 1)
      BY <1>1, <1>7, <1>8, <1>9
    <3> QED
      BY <1>1, <3>1, BucketCells
  <2>2. CASE b < n
    <3>1. BucketOffset(b) + 1 <= 4 + 2 * n /\ BucketOffset(b) + 2 <= 4 + 2 * n
      BY <1>3, <1>9, <2>2 DEF BucketOffset
    <3>2. file'[BucketOffset(b) + 1] = Ones /\ file'[BucketOffset(b) + 2] = Ones
      BY <1>7, <1>8, <2>1, <3>1
    <3> QED
      BY <2>1, <3>2 DEF Unset, DBID_FREE
  <2>3. CASE ~(b < n)
    <3>1. ~(BucketOffset(b) + 1 <= 4 + 2 * n) /\ ~(BucketOffset(b) + 2 <= 4 + 2 * n)
      BY <1>1, <1>3, <1>9, <2>3 DEF BucketOffset
    <3>2. file'[BucketOffset(b) + 1] = 0 /\ file'[BucketOffset(b) + 2] = 0
      BY <1>2, <1>7, <1>8, <2>1, <3>1
    <3> QED
      BY <2>1, <3>2 DEF Unset, dbid_t
  <2> QED
    BY <2>2, <2>3
<1>11. HeapInv'
  BY <1>1, <1>9, <1>10 DEF HeapInv
<1>12. \A w \in Workers : StepInv(w)'
  BY DEF StepInv, InsertPcs
<1>13. CreateInv'
  BY DEF CreateInv
<1> QED
  BY <1>11, <1>12, <1>13 DEF PasteInv

----------------------------------------------------------------------------
(* What the heap is after a step of the writer: it may set a bucket to the end of the      *)
(* file, append a record there, or count an id, and it writes to no record.                *)
LEMMA HeapStep ==
  ASSUME BasicInv, HeapInv, Len(file) # 0, NEW e \in Nat, e = Len(file),
         file' \in Seq(Nat), Len(file') >= e,
         NumBuckets(file') = NumBuckets(file), MetaId(file') \in Nat, MetaId(file') >= MetaId(file),
         file'[2] = 0, file'[4] = 0,
         \A k \in (MapSize(NumBuckets(file)) + 1)..e : file'[k] = file[k],
         Len(file') = e \/ \E id \in DOMAIN pasted' : Holds(e, id)',
         \A b \in 0..(NumBuckets(file) - 1) :
           \/ Bucket(file', b) = Bucket(file, b)
           \/ b < MetaId(file') /\ b \notin acked /\ Bucket(file', b) = dbid_t(e),
         \A id \in DOMAIN pasted : id \in DOMAIN pasted' /\ pasted'[id] = pasted[id],
         acked' = acked
  PROVE  HeapInv'
<1>1. /\ file \in Seq(Nat) /\ Len(file) \in Nat /\ Len(file) >= 4
      /\ MetaId(file) \in Nat /\ NumBuckets(file) \in Nat
      /\ Len(file) >= MapSize(NumBuckets(file))
  BY FileCells DEF BasicInv
<1>2. PICK m \in Nat : m = MapSize(NumBuckets(file)) /\ m <= e
  BY <1>1 DEF MapSize
<1>3. \A id \in DOMAIN pasted : pasted[id] \in Seq(Nat) /\ id \in Nat
  BY DbAssumption DEF BasicInv, TypeOK
<1>4. ASSUME NEW b \in 0..(NumBuckets(file) - 1)
      PROVE  \/ Unset(b)'
             \/ /\ b < MetaId(file')
                /\ \E p \in m..Len(file') :
                     /\ Bucket(file', b) = dbid_t(p)
                     /\ p = Len(file') \/ \E id \in DOMAIN pasted' : Holds(p, id)'
  <2>1. CASE b < MetaId(file') /\ Bucket(file', b) = dbid_t(e)
    <3>1. e \in m..Len(file')
      BY <1>1, <1>2
    <3> QED
      BY <2>1, <3>1
  <2>2. CASE Bucket(file', b) = Bucket(file, b) /\ Unset(b)
    BY <2>2 DEF Unset
  <2>3. CASE Bucket(file', b) = Bucket(file, b) /\ ~Unset(b)
    <3>1. b < MetaId(file)
      BY <2>3 DEF HeapInv
    <3>2. PICK p \in m..e : /\ Bucket(file, b) = dbid_t(p)
                            /\ p = e \/ \E id \in DOMAIN pasted : Holds(p, id)
      BY <1>2, <2>3 DEF HeapInv
    <3>3. b < MetaId(file') /\ p \in m..Len(file') /\ p \in Nat /\ p >= m
      BY <1>1, <1>2, <3>1, <3>2, SMTT(30)
    <3>4. CASE p = e
      BY <2>3, <3>2, <3>3, <3>4
    <3>5. ASSUME NEW id \in DOMAIN pasted, Holds(p, id) PROVE Holds(p, id)'
      <4>1. \A k \in (m + 1)..Len(file) : file'[k] = file[k]
        BY <1>2
      <4> QED
        BY <1>1, <1>3, <3>3, <3>5, <4>1, HoldsKept
    <3>6. CASE \E id \in DOMAIN pasted : Holds(p, id)
      BY <2>3, <3>2, <3>3, <3>5, <3>6
    <3> QED
      BY <3>2, <3>4, <3>6
  <2> QED
    BY <2>1, <2>2, <2>3
<1>5. ASSUME NEW id \in acked PROVE Own(id)'
  <2>1. id \in DOMAIN pasted /\ id \in Nat /\ Own(id)
    BY <1>3 DEF BasicInv, TypeOK, HeapInv
  <2>2. id \in 0..(NumBuckets(file) - 1)
    BY <1>1, <2>1 DEF Own
  <2>3. Bucket(file', id) = Bucket(file, id)
    BY <2>2
  <2> QED
    BY <1>1, <1>3, <2>1, <2>3, OwnKept
<1> QED
  BY <1>2, <1>4, <1>5 DEF HeapInv

(* Nobody is in a call when the writer takes the lock. *)
LEMMA AllIdle ==
  ASSUME TypeOK, LockInv, writer = None, readers = {}
  PROVE  \A v \in Workers : pc[v] = "idle"
BY DbAssumption DEF TypeOK, LockInv

(* A step of the writer: what it has to keep, as no other worker is in a call. *)
LEMMA WriterStep ==
  ASSUME BasicInv, NEW w \in Workers, NEW to \in Pcs, NEW l \in Locals, Goto(w, to, l), phase' = "up",
         \A v \in Workers : v # w => pc[v] = "idle",
         ~Collided' /\ "short" \notin Faults => HeapInv' /\ StepInv(w)'
  PROVE  PasteInv'
<1>1. \A v \in Workers : v # w => pc'[v] = "idle"
  BY GotoFacts DEF BasicInv
<1>2. \A v \in Workers : v # w => StepInv(v)'
  BY <1>1 DEF StepInv, InsertPcs
<1>3. CreateInv'
  BY DEF CreateInv
<1> QED
  BY <1>2, <1>3 DEF PasteInv

(* db_insert begins: the bucket of the next id is not set. *)
LEMMA PasteInsertBegin ==
  ASSUME BasicInv, PasteInv, NEW w \in Workers, NEW val \in Values, InsertBegin(w, val)
  PROVE  PasteInv'
<1>1. PICK id : id = MetaId(file)
  OBVIOUS
<1>2. PICK e : e = Len(file)
  OBVIOUS
<1>3. /\ phase = "up" /\ phase' = "up" /\ writer = None /\ readers = {} /\ file' = BumpId(file)
      /\ Goto(w, "ins_bucket", [NoCall EXCEPT !.id = id, !.val = val, !.pos = e])
      /\ pasted' = [i \in DOMAIN pasted \cup {id} |-> IF i = id THEN val ELSE pasted[i]]
      /\ acked' = acked
  BY <1>1, <1>2 DEF InsertBegin, CanWrlock
<1>4. Len(file) # 0
  BY <1>3 DEF BasicInv, FileInv
<1>5. /\ file \in Seq(Nat) /\ Len(file) \in Nat /\ Len(file) >= 4
      /\ MetaId(file) \in Nat /\ NumBuckets(file) \in Nat
      /\ Len(file) >= MapSize(NumBuckets(file))
  BY <1>4, FileCells DEF BasicInv
<1>6. /\ file' \in Seq(Nat) /\ Len(file') = Len(file) /\ MetaId(file') = MetaId(file) + 1
      /\ file'[2] = 0 /\ \A k \in 3..Len(file) : file'[k] = file[k]
  BY <1>3, <1>5, BumpIdFacts
<1>7. NumBuckets(file') = NumBuckets(file) /\ file'[4] = file[4]
  BY <1>5, <1>6 DEF NumBuckets
<1>8. \A b \in 0..(NumBuckets(file) - 1) : Bucket(file', b) = Bucket(file, b)
  <2> SUFFICES ASSUME NEW b \in 0..(NumBuckets(file) - 1) PROVE Bucket(file', b) = Bucket(file, b)
    OBVIOUS
  <2>1. BucketOffset(b) + 1 \in 3..Len(file) /\ BucketOffset(b) + 2 \in 3..Len(file)
    BY <1>5 DEF BucketOffset, MapSize
  <2> QED
    BY <1>6, <2>1 DEF Bucket, Load
<1>9. PICK l \in Locals : /\ l = [NoCall EXCEPT !.id = id, !.val = val, !.pos = e]
                          /\ l.id = id /\ l.pos = e /\ l.ret = "OK"
  <2>1. val \in Seq(Nat) /\ id \in Nat /\ e \in Nat
    BY <1>1, <1>2, <1>5, DbAssumption
  <2>2. /\ [NoCall EXCEPT !.id = id, !.val = val, !.pos = e] \in Locals
        /\ [NoCall EXCEPT !.id = id, !.val = val, !.pos = e].id = id
        /\ [NoCall EXCEPT !.id = id, !.val = val, !.pos = e].pos = e
        /\ [NoCall EXCEPT !.id = id, !.val = val, !.pos = e].ret = "OK"
    BY <2>1, NoCallType DEF NoCall, Locals
  <2> QED
    BY <2>2, Zenon
<1>10. \A v \in Workers : pc[v] = "idle"
  BY <1>3, AllIdle DEF BasicInv
<1>11. ASSUME ~Collided', "short" \notin Faults PROVE HeapInv' /\ StepInv(w)'
  <2>1. id + 1 <= NumBuckets(file)
    BY <1>1, <1>5, <1>6, <1>7, <1>11 DEF Collided
  <2>2. HeapInv
    BY <1>1, <1>5, <1>11, <2>1 DEF PasteInv, Collided
  <2>3. \A i \in DOMAIN pasted : i \in DOMAIN pasted' /\ pasted'[i] = pasted[i]
    BY <1>1, <1>3, <1>5 DEF BasicInv, FileInv
  <2>4. \A k \in (MapSize(NumBuckets(file)) + 1)..Len(file) : file'[k] = file[k]
    BY <1>5, <1>6, SMTT(30) DEF MapSize
  <2>5. MetaId(file') \in Nat /\ MetaId(file') >= MetaId(file) /\ file'[4] = 0
    BY <1>4, <1>5, <1>6, <1>7, <2>2 DEF HeapInv
  <2>6. HeapInv'
    <3>1. /\ e \in Nat /\ Len(file') >= e /\ Len(file') = e
          /\ \A k \in (MapSize(NumBuckets(file)) + 1)..e : file'[k] = file[k]
      BY <1>2, <1>5, <1>6, <2>4
    <3>2. file'[2] = 0 /\ acked' = acked
      BY <1>3, <1>6
    <3> QED
      BY <1>2, <1>4, <1>6, <1>7, <1>8, <2>2, <2>3, <2>5, <3>1, <3>2, HeapStep
  <2>7. id \in 0..(NumBuckets(file) - 1) /\ ~(id < MetaId(file))
    BY <1>1, <1>5, <2>1
  <2>8. Unset(id)'
    BY <1>4, <1>8, <2>2, <2>7 DEF HeapInv, Unset
  <2>9. pc'[w] = "ins_bucket" /\ loc'[w] = l
    BY <1>3, <1>9, GotoFacts DEF BasicInv, Pcs, InsertPcs
  <2>10. l.pos = Len(file') /\ l.id < NumBuckets(file') /\ Unset(l.id)'
    BY <1>2, <1>5, <1>6, <1>7, <1>9, <2>7, <2>8
  <2>11. StepInv(w)'
    BY <1>9, <2>9, <2>10 DEF StepInv, InsertPcs, Unset
  <2> QED
    BY <2>6, <2>11
<1> QED
  BY <1>3, <1>9, <1>10, <1>11, WriterStep DEF Pcs, InsertPcs

(* What is known inside db_insert. *)
LEMMA WriterFacts ==
  ASSUME BasicInv, NEW w \in Workers, pc[w] \in InsertPcs
  PROVE  /\ phase = "up" /\ (\A v \in Workers : v # w => pc[v] = "idle")
         /\ file \in Seq(Nat) /\ Len(file) # 0 /\ Len(file) \in Nat /\ Len(file) >= 4
         /\ MetaId(file) \in Nat /\ NumBuckets(file) \in Nat \ {0}
         /\ Len(file) >= MapSize(NumBuckets(file))
         /\ loc[w] \in Locals /\ loc[w].id \in DOMAIN pasted /\ loc[w].id \in Nat
         /\ loc[w].id < MetaId(file) /\ loc[w].val = pasted[loc[w].id]
         /\ loc[w].val \in Seq(Nat) /\ loc[w].pos \in Nat
<1>1. writer = w /\ phase = "up"
  BY DEF BasicInv, LockInv, InsertPcs
<1>2. \A v \in Workers : v # w => pc[v] = "idle"
  BY <1>1, WriterAlone DEF BasicInv
<1>3. Len(file) # 0
  BY <1>1 DEF BasicInv, FileInv
<1>4. /\ file \in Seq(Nat) /\ Len(file) \in Nat /\ Len(file) >= 4
      /\ MetaId(file) \in Nat /\ NumBuckets(file) \in Nat
      /\ Len(file) >= MapSize(NumBuckets(file))
  BY <1>3, FileCells DEF BasicInv
<1>5. /\ loc[w].id \in DOMAIN pasted /\ loc[w].val = pasted[loc[w].id] /\ NumBuckets(file) # 0
  BY DEF BasicInv, CallInv
<1>6. loc[w] \in Locals
  BY DEF BasicInv, TypeOK
<1>7. loc[w].id < MetaId(file)
  BY <1>5 DEF BasicInv, FileInv
<1> QED
  BY <1>1, <1>2, <1>3, <1>4, <1>5, <1>6, <1>7 DEF Locals

(* A step of db_insert that leaves the file alone: only what the writer established is left *)
(* to show.                                                                                *)
LEMMA WriterReads ==
  ASSUME BasicInv, PasteInv, NEW w \in Workers, NEW to \in Pcs, NEW l \in Locals, Goto(w, to, l),
         UNCHANGED <<procVars, file, history>>, pc[w] \in InsertPcs,
         HeapInv /\ StepInv(w) => StepInv(w)'
  PROVE  PasteInv'
<1>1. phase' = "up" /\ \A v \in Workers : v # w => pc[v] = "idle"
  BY WriterFacts
<1>2. ASSUME ~Collided', "short" \notin Faults PROVE HeapInv' /\ StepInv(w)'
  <2>1. HeapInv /\ StepInv(w)
    BY <1>2 DEF PasteInv, Collided
  <2> QED
    BY <2>1, SameHeap
<1> QED
  BY <1>1, <1>2, WriterStep

(* A store into the bucket of an id, and what it leaves alone. *)
LEMMA BucketSet ==
  ASSUME file \in Seq(Nat), NEW n \in Nat, Len(file) >= MapSize(n), NEW b \in 0..(n - 1), NEW e \in Nat,
         file' = Pwrite(file, BucketOffset(b), dbid_t(e))
  PROVE  /\ file' \in Seq(Nat) /\ Len(file') = Len(file)
         /\ \A k \in 1..4 : file'[k] = file[k]
         /\ \A k \in (MapSize(n) + 1)..Len(file) : file'[k] = file[k]
         /\ \A i \in 0..(n - 1) : i # b => Bucket(file', i) = Bucket(file, i)
         /\ Bucket(file', b) = dbid_t(e)
<1>0. PICK f, g : /\ f \in Seq(Nat) /\ f = file /\ g = file' /\ Len(f) >= MapSize(n)
                  /\ g = Pwrite(f, BucketOffset(b), dbid_t(e))
  OBVIOUS
<1>1. PICK s : s = dbid_t(e) /\ s \in Seq(Nat) /\ Len(s) = 2 /\ s[1] = e /\ s[2] = 0
  BY SmallSeqs
<1>2. PICK o \in Nat : o = BucketOffset(b) /\ o = 4 + 2 * b
  BY DEF BucketOffset
<1>3. /\ Len(f) \in Nat /\ Len(f) >= MapSize(n) /\ Len(f) >= o + 2 /\ o >= 4
      /\ o + 2 <= MapSize(n) /\ MapSize(n) \in Nat /\ MapSize(n) >= 4
  BY <1>0, <1>2 DEF MapSize
<1>4. g = Pwrite(f, o, s)
  BY <1>0, <1>1, <1>2
<1>5. /\ g \in Seq(Nat)
      /\ Len(g) = IF o + Len(s) > Len(f) THEN o + Len(s) ELSE Len(f)
      /\ \A k \in 1..Len(g) :
           g[k] = IF o < k /\ k <= o + Len(s) THEN s[k - o] ELSE IF k <= Len(f) THEN f[k] ELSE 0
  <2>1. /\ Pwrite(f, o, s) \in Seq(Nat)
        /\ Len(Pwrite(f, o, s)) = IF o + Len(s) > Len(f) THEN o + Len(s) ELSE Len(f)
        /\ \A k \in 1..Len(Pwrite(f, o, s)) :
             Pwrite(f, o, s)[k] = IF o < k /\ k <= o + Len(s) THEN s[k - o]
                                  ELSE IF k <= Len(f) THEN f[k] ELSE 0
    BY <1>0, <1>1, PwriteFacts, ZenonT(30)
  <2> QED
    BY <1>4, <2>1, Zenon
<1>6. Len(g) = Len(f)
  BY <1>1, <1>3, <1>5
<1>7. \A k \in 1..Len(f) : g[k] = IF o < k /\ k <= o + 2 THEN s[k - o] ELSE f[k]
  BY <1>1, <1>5, <1>6
<1>8. (\A k \in 1..4 : g[k] = f[k]) /\ \A k \in (MapSize(n) + 1)..Len(f) : g[k] = f[k]
  <2>1. ASSUME NEW k \in 1..4 PROVE g[k] = f[k]
    <3>1. k \in 1..Len(f) /\ ~(o < k)
      BY <1>3
    <3> QED
      BY <1>7, <3>1
  <2>2. ASSUME NEW k \in (MapSize(n) + 1)..Len(f) PROVE g[k] = f[k]
    <3>1. k \in 1..Len(f) /\ ~(k <= o + 2)
      BY <1>2, <1>3
    <3> QED
      BY <1>7, <3>1
  <2> QED
    BY <2>1, <2>2
<1>9. ASSUME NEW i \in 0..(n - 1), i # b PROVE Bucket(g, i) = Bucket(f, i)
  <2>1. /\ BucketOffset(i) + 1 \in 1..Len(f) /\ BucketOffset(i) + 2 \in 1..Len(f)
        /\ ~(o < BucketOffset(i) + 1 /\ BucketOffset(i) + 1 <= o + 2)
        /\ ~(o < BucketOffset(i) + 2 /\ BucketOffset(i) + 2 <= o + 2)
    BY <1>2, <1>3, <1>9 DEF BucketOffset, MapSize
  <2> QED
    BY <1>7, <2>1 DEF Bucket, Load
<1>10. Bucket(g, b) = dbid_t(e)
  <2>1. g[o + 1] = e /\ g[o + 2] = 0
    <3>1. /\ o + 1 \in 1..Len(f) /\ o + 2 \in 1..Len(f) /\ o < o + 1 /\ o + 1 <= o + 2 /\ o < o + 2
          /\ o + 2 <= o + 2 /\ (o + 1) - o = 1 /\ (o + 2) - o = 2
      BY <1>3
    <3> QED
      BY <1>1, <1>7, <3>1
  <2> QED
    BY <1>2, <2>1 DEF Bucket, Load, dbid_t
<1> QED
  BY <1>0, <1>5, <1>6, <1>8, <1>9, <1>10

(* The bucket of the writer's own id is not set yet, so it is pointed at the end of the    *)
(* file, or, if open_db was killed before its memset, walked as if it led to offset 0.     *)
LEMMA PasteInsertBucket ==
  ASSUME BasicInv, PasteInv, NEW w \in Workers, InsertBucket(w)
  PROVE  PasteInv'
<1>1. PICK l : l = loc[w]
  OBVIOUS
<1>2. PICK index : index = BucketIndex(file, l.id)
  OBVIOUS
<1>3. PICK head : head = Bucket(file, index)
  OBVIOUS
<1>4. /\ pc[w] = "ins_bucket" /\ UNCHANGED <<procVars, lockVars, history>>
      /\ \/ /\ head = DBID_FREE
            /\ file' = Pwrite(file, BucketOffset(index), dbid_t(l.pos))
            /\ Goto(w, "ins_record", l)
         \/ /\ head # DBID_FREE
            /\ Goto(w, "ins_walk", [l EXCEPT !.off = head])
            /\ UNCHANGED file
  BY <1>1, <1>2, <1>3 DEF InsertBucket
<1>5. pc[w] \in InsertPcs /\ "ins_record" \in Pcs /\ "ins_walk" \in Pcs
  BY <1>4 DEF InsertPcs, Pcs
<1>6. /\ phase = "up" /\ (\A v \in Workers : v # w => pc[v] = "idle")
      /\ file \in Seq(Nat) /\ Len(file) # 0 /\ Len(file) \in Nat /\ Len(file) >= 4
      /\ MetaId(file) \in Nat /\ NumBuckets(file) \in Nat \ {0}
      /\ Len(file) >= MapSize(NumBuckets(file))
      /\ l \in Locals /\ l.id \in DOMAIN pasted /\ l.id \in Nat /\ l.id < MetaId(file) /\ l.pos \in Nat
  BY <1>1, <1>5, WriterFacts
<1>7. index \in 0..(NumBuckets(file) - 1)
  BY <1>2, <1>6, IndexInRange
<1>8. CASE head = DBID_FREE /\ file' = Pwrite(file, BucketOffset(index), dbid_t(l.pos)) /\ Goto(w, "ins_record", l)
  <2>1. /\ file' \in Seq(Nat) /\ Len(file') = Len(file)
        /\ \A k \in 1..4 : file'[k] = file[k]
        /\ \A k \in (MapSize(NumBuckets(file)) + 1)..Len(file) : file'[k] = file[k]
        /\ \A i \in 0..(NumBuckets(file) - 1) : i # index => Bucket(file', i) = Bucket(file, i)
        /\ Bucket(file', index) = dbid_t(l.pos)
    <3>1. PICK e \in Nat : e = l.pos /\ file' = Pwrite(file, BucketOffset(index), dbid_t(e))
      BY <1>6, <1>8
    <3>2. PICK n \in Nat : n = NumBuckets(file) /\ Len(file) >= MapSize(n) /\ index \in 0..(n - 1)
      BY <1>6, <1>7
    <3>3. /\ file' \in Seq(Nat) /\ Len(file') = Len(file)
          /\ \A k \in 1..4 : file'[k] = file[k]
          /\ \A k \in (MapSize(n) + 1)..Len(file) : file'[k] = file[k]
          /\ \A i \in 0..(n - 1) : i # index => Bucket(file', i) = Bucket(file, i)
          /\ Bucket(file', index) = dbid_t(e)
      BY <1>6, <3>1, <3>2, BucketSet
    <3> QED
      BY <3>1, <3>2, <3>3
  <2>2. NumBuckets(file') = NumBuckets(file) /\ MetaId(file') = MetaId(file)
    BY <2>1 DEF NumBuckets, MetaId
  <2>3. ASSUME ~Collided', "short" \notin Faults PROVE HeapInv' /\ StepInv(w)'
    <3>1. HeapInv /\ StepInv(w)
      BY <1>6, <2>1, <2>2, <2>3 DEF PasteInv, Collided
    <3>2. l.pos = Len(file) /\ l.id < NumBuckets(file) /\ l.ret = "OK"
      BY <1>1, <1>4, <1>5, <3>1 DEF StepInv
    <3>3. index = l.id
      BY <1>2, <1>6, <3>2, IndexOwn
    <3>4. l.id \notin acked
      BY <1>3, <1>6, <1>8, <3>1, <3>3, OwnFacts DEF HeapInv
    <3>5. HeapInv'
      <4>1. \A b \in 0..(NumBuckets(file) - 1) :
              \/ Bucket(file', b) = Bucket(file, b)
              \/ b < MetaId(file') /\ b \notin acked /\ Bucket(file', b) = dbid_t(l.pos)
        BY <1>6, <2>1, <2>2, <3>3, <3>4
      <4>2. /\ l.pos \in Nat /\ Len(file') >= l.pos /\ Len(file') = l.pos /\ l.pos = Len(file)
            /\ \A k \in (MapSize(NumBuckets(file)) + 1)..l.pos : file'[k] = file[k]
        BY <1>6, <2>1, <3>2
      <4>3. /\ file'[2] = 0 /\ file'[4] = 0 /\ MetaId(file') \in Nat /\ MetaId(file') >= MetaId(file)
        BY <1>6, <2>1, <2>2, <3>1, SMTT(30) DEF HeapInv
      <4>4. acked' = acked /\ \A id \in DOMAIN pasted : id \in DOMAIN pasted' /\ pasted'[id] = pasted[id]
        BY <1>4
      <4> QED
        BY <1>6, <2>1, <2>2, <3>1, <4>1, <4>2, <4>3, <4>4, HeapStep
    <3>6. pc'[w] = "ins_record" /\ loc'[w] = l
      BY <1>5, <1>6, <1>8, GotoFacts DEF BasicInv
    <3>7. StepInv(w)'
      <4>1. l.pos = Len(file') /\ l.id < NumBuckets(file') /\ Bucket(file', l.id) = dbid_t(l.pos)
        BY <2>1, <2>2, <3>2, <3>3
      <4> QED
        BY <3>2, <3>6, <4>1 DEF StepInv
    <3> QED
      BY <3>5, <3>7
  <2> QED
    BY <1>4, <1>5, <1>6, <1>8, <2>3, WriterStep
<1>9. CASE head # DBID_FREE /\ Goto(w, "ins_walk", [l EXCEPT !.off = head]) /\ UNCHANGED file
  <2>1. head \in Nat \X Nat
    BY <1>3, <1>6, <1>7, BucketCells
  <2>2. PICK m \in Locals : m = [l EXCEPT !.off = head] /\ m.off = head /\ m.ret = l.ret
    <3>1. /\ [l EXCEPT !.off = head] \in Locals /\ [l EXCEPT !.off = head].off = head
          /\ [l EXCEPT !.off = head].ret = l.ret
      BY <1>6, <2>1, EditOff, ZenonT(30)
    <3> QED
      BY <3>1, ZenonT(30)
  <2>3. ASSUME HeapInv, StepInv(w) PROVE StepInv(w)'
    <3>1. Unset(l.id) /\ l.id < NumBuckets(file) /\ l.ret = "OK"
      BY <1>1, <1>4, <1>5, <2>3 DEF StepInv
    <3>2. index = l.id
      BY <1>2, <1>6, <3>1, IndexOwn
    <3>3. head = dbid_t(0)
      BY <1>3, <1>9, <3>1, <3>2 DEF Unset
    <3>4. m.off[1] = 0 /\ m.ret = "OK"
      BY <2>2, <3>1, <3>3 DEF dbid_t
    <3>5. pc'[w] = "ins_walk" /\ loc'[w] = m
      BY <1>5, <1>9, <2>2, GotoFacts DEF BasicInv
    <3> QED
      BY <3>4, <3>5 DEF StepInv
  <2> QED
    BY <1>4, <1>5, <1>9, <2>2, <2>3, WriterReads
<1> QED
  BY <1>4, <1>8, <1>9

(* The walk of a bucket of zeros reads the header as a record: next, its cells 4 and 5,    *)
(* starts with the high half of num_buckets, so the walk stays at offset 0 or fails.       *)
LEMMA PasteInsertWalk ==
  ASSUME BasicInv, PasteInv, NEW w \in Workers, InsertWalk(w)
  PROVE  PasteInv'
<1>1. PICK l : l = loc[w]
  OBVIOUS
<1>2. PICK next : next = RecNext(file, l.off[1])
  OBVIOUS
<1>3. /\ pc[w] = "ins_walk" /\ UNCHANGED <<procVars, file, history>>
      /\ \/ Goto(w, "ins_out", [l EXCEPT !.ret = "ERR"])
         \/ /\ Readable(file, l.off, 5) /\ next # DBID_FREE
            /\ Goto(w, "ins_walk", [l EXCEPT !.off = next])
         \/ /\ Readable(file, l.off, 5) /\ next = DBID_FREE
            /\ Goto(w, "ins_link", l)
  BY <1>1, <1>2 DEF InsertWalk
<1>4. /\ pc[w] \in InsertPcs /\ "ins_out" \in Pcs /\ "ins_walk" \in Pcs /\ "ins_link" \in Pcs
  BY <1>3 DEF InsertPcs, Pcs
<1>5. /\ file \in Seq(Nat) /\ Len(file) # 0 /\ l \in Locals /\ l.off \in Nat \X Nat
  BY <1>1, <1>4, WriterFacts DEF Locals
<1>6. ASSUME HeapInv, StepInv(w) PROVE l.off[1] = 0 /\ l.ret = "OK" /\ next = <<0, file[5]>>
  <2>1. l.off[1] = 0 /\ l.ret = "OK"
    BY <1>1, <1>3, <1>6 DEF StepInv, InsertPcs
  <2>2. file[4] = 0
    BY <1>5, <1>6 DEF HeapInv
  <2>3. next = <<file[4], file[5]>>
    BY <1>2, <2>1 DEF RecNext, Load
  <2> QED
    BY <2>1, <2>2, <2>3
<1>7. CASE Goto(w, "ins_out", [l EXCEPT !.ret = "ERR"])
  <2>1. PICK m \in Locals : m = [l EXCEPT !.ret = "ERR"] /\ m.ret = "ERR"
    BY <1>5, EditRet
  <2>2. pc'[w] = "ins_out" /\ loc'[w] = m
    BY <1>4, <1>7, <2>1, GotoFacts DEF BasicInv
  <2>3. StepInv(w)'
    BY <2>1, <2>2 DEF StepInv, InsertPcs
  <2> QED
    BY <1>3, <1>4, <1>7, <2>1, <2>3, WriterReads
<1>8. CASE Readable(file, l.off, 5) /\ Goto(w, "ins_walk", [l EXCEPT !.off = next])
  <2>1. next \in Nat \X Nat
    BY <1>2, <1>5, <1>8, RecordHeaderRead
  <2>2. PICK m \in Locals : m = [l EXCEPT !.off = next] /\ m.off = next /\ m.ret = l.ret
    <3>1. /\ [l EXCEPT !.off = next] \in Locals /\ [l EXCEPT !.off = next].off = next
          /\ [l EXCEPT !.off = next].ret = l.ret
      BY <1>5, <2>1, EditOff, ZenonT(30)
    <3> QED
      BY <3>1, ZenonT(30)
  <2>3. pc'[w] = "ins_walk" /\ loc'[w] = m
    BY <1>4, <1>8, <2>2, GotoFacts DEF BasicInv
  <2>4. ASSUME HeapInv, StepInv(w) PROVE StepInv(w)'
    <3>1. m.off[1] = 0 /\ m.ret = "OK"
      BY <1>6, <2>2, <2>4
    <3> QED
      BY <2>3, <3>1 DEF StepInv
  <2> QED
    BY <1>3, <1>4, <1>8, <2>2, <2>4, WriterReads
<1>9. CASE next = DBID_FREE /\ Goto(w, "ins_link", l)
  <2>1. ASSUME HeapInv, StepInv(w) PROVE FALSE
    BY <1>6, <1>9, <2>1, DbAssumption DEF DBID_FREE
  <2> QED
    BY <1>3, <1>4, <1>5, <1>9, <2>1, WriterReads
<1> QED
  BY <1>3, <1>7, <1>8, <1>9

(* The pwrite of the last link: a database that comes here has shared a bucket. *)
LEMMA PasteInsertLink ==
  ASSUME BasicInv, PasteInv, NEW w \in Workers, InsertLink(w)
  PROVE  PasteInv'
<1>1. pc[w] = "ins_link" /\ phase' = phase
  BY DEF InsertLink
<1>2. pc[w] \in InsertPcs
  BY <1>1 DEF InsertPcs
<1>3. /\ phase = "up" /\ file \in Seq(Nat) /\ Len(file) \in Nat /\ Len(file) >= 4
      /\ MetaId(file) \in Nat /\ NumBuckets(file) \in Nat
      /\ loc[w] \in Locals /\ loc[w].pos \in Nat /\ loc[w].off \in Nat \X Nat
  BY <1>2, WriterFacts DEF Locals
<1>4. PICK o \in Nat : o = loc[w].off[1] + 5 /\ o >= 4
  <2>1. loc[w].off[1] \in Nat
    BY <1>3
  <2> QED
    BY <2>1
<1>5. PICK s \in Seq(Nat) : UNCHANGED file \/ file' = Pwrite(file, o, s)
  <2>1. dbid_t(loc[w].pos) \in Seq(Nat) /\ <<loc[w].pos>> \in Seq(Nat)
    <3>1. PICK x \in Nat : x = loc[w].pos
      BY <1>3
    <3>2. dbid_t(x) \in Seq(Nat) /\ <<x>> \in Seq(Nat)
      BY SmallSeqs
    <3> QED
      BY <3>1, <3>2
  <2> QED
    BY <1>4, <2>1 DEF InsertLink
<1>6. /\ Len(file') >= 4 /\ MetaId(file') = MetaId(file) /\ NumBuckets(file') = NumBuckets(file)
  <2>1. /\ Len(Pwrite(file, o, s)) \in Nat /\ Len(Pwrite(file, o, s)) >= Len(file)
        /\ MetaId(Pwrite(file, o, s)) = MetaId(file) /\ NumBuckets(Pwrite(file, o, s)) = NumBuckets(file)
    BY <1>3, <1>4, HeaderKept
  <2> QED
    BY <1>3, <1>5, <2>1
<1>7. "short" \notin Faults => Collided
  BY <1>1, <1>3 DEF PasteInv, StepInv
<1>8. "short" \notin Faults => Collided'
  BY <1>3, <1>6, <1>7 DEF Collided
<1> QED
  BY <1>1, <1>3, <1>8 DEF PasteInv, CreateInv

(* db_insert returns: the id it returns, if it does, leads to its paste. *)
LEMMA PasteInsertOut ==
  ASSUME BasicInv, PasteInv, NEW w \in Workers, InsertOut(w)
  PROVE  PasteInv'
<1>1. /\ pc[w] = "ins_out" /\ Goto(w, "idle", NoCall) /\ UNCHANGED <<file, pasted, phase>>
      /\ acked' = IF loc[w].ret = "OK" THEN acked \cup {loc[w].id} ELSE acked
  BY DEF InsertOut
<1>2. pc[w] \in InsertPcs /\ "idle" \in Pcs
  BY <1>1 DEF InsertPcs, Pcs
<1>3. phase = "up" /\ \A v \in Workers : v # w => pc[v] = "idle"
  BY <1>2, WriterFacts
<1>4. ASSUME ~Collided', "short" \notin Faults PROVE HeapInv' /\ StepInv(w)'
  <2>1. HeapInv /\ StepInv(w)
    BY <1>1, <1>4 DEF PasteInv, Collided
  <2>2. \A id \in acked' : Own(id)
    BY <1>1, <2>1 DEF HeapInv, StepInv
  <2>3. \A id \in acked' : Own(id)'
    BY <1>1, <2>2, OwnSame
  <2>4. ASSUME NEW b PROVE Unset(b)' <=> Unset(b)
    BY <1>1, UnsetSame
  <2>5. ASSUME NEW p, NEW id PROVE Holds(p, id)' <=> Holds(p, id)
    BY <1>1, HoldsSame
  <2>6. HeapInv'
    BY <1>1, <2>1, <2>3, <2>4, <2>5 DEF HeapInv
  <2>7. pc'[w] = "idle"
    BY <1>1, <1>2, NoCallType, GotoFacts DEF BasicInv
  <2> QED
    BY <2>6, <2>7 DEF StepInv, InsertPcs
<1> QED
  BY <1>1, <1>2, <1>3, <1>4, NoCallType, WriterStep

(* A record appended at the end e of the file: the rest of the file stays, and the record  *)
(* is there.                                                                               *)
LEMMA Appended ==
  ASSUME file \in Seq(Nat), NEW e \in Nat, e = Len(file), NEW id \in Nat, NEW val \in Seq(Nat),
         file' = Pwrite(file, e, Record(id, val)), id \in DOMAIN pasted', pasted'[id] = val
  PROVE  /\ file' \in Seq(Nat) /\ Len(file') = e + 5 + Len(val)
         /\ \A k \in 1..e : file'[k] = file[k]
         /\ Holds(e, id)'
<1>1. PICK v \in Nat : v = Len(val)
  OBVIOUS
<1>2. PICK rec : rec = Record(id, val)
  OBVIOUS
<1>3. /\ rec \in Seq(Nat) /\ Len(rec) = 5 + v /\ rec[1] = v /\ rec[2] = id /\ rec[3] = 0
      /\ rec[4] = Ones /\ rec[5] = Ones /\ \A k \in 1..v : rec[5 + k] = val[k]
  <2>1. /\ Record(id, val) \in Seq(Nat) /\ Len(Record(id, val)) = 5 + Len(val)
        /\ Record(id, val)[1] = Len(val) /\ Record(id, val)[2] = id /\ Record(id, val)[3] = 0
        /\ Record(id, val)[4] = Ones /\ Record(id, val)[5] = Ones
        /\ \A k \in 1..Len(val) : Record(id, val)[5 + k] = val[k]
    BY RecordCells
  <2> QED
    BY <1>1, <1>2, <2>1, Zenon
<1>4. /\ file' \in Seq(Nat)
      /\ Len(file') = IF e + Len(rec) > Len(file) THEN e + Len(rec) ELSE Len(file)
      /\ \A k \in 1..Len(file') :
           file'[k] = IF e < k /\ k <= e + Len(rec) THEN rec[k - e]
                      ELSE IF k <= Len(file) THEN file[k] ELSE 0
  <2>1. /\ Pwrite(file, e, rec) \in Seq(Nat)
        /\ Len(Pwrite(file, e, rec)) = IF e + Len(rec) > Len(file) THEN e + Len(rec) ELSE Len(file)
        /\ \A k \in 1..Len(Pwrite(file, e, rec)) :
             Pwrite(file, e, rec)[k] = IF e < k /\ k <= e + Len(rec) THEN rec[k - e]
                                       ELSE IF k <= Len(file) THEN file[k] ELSE 0
    BY <1>3, PwriteFacts, ZenonT(30)
  <2>2. file' = Pwrite(file, e, rec)
    BY <1>2
  <2> QED
    BY <2>1, <2>2, Zenon
<1>5. PICK g : g = file' /\ g \in Seq(Nat) /\ Len(g) = e + 5 + v
  BY <1>3, <1>4
<1>6. \A k \in 1..(e + 5 + v) : g[k] = IF e < k THEN rec[k - e] ELSE file[k]
  <2> SUFFICES ASSUME NEW k \in 1..(e + 5 + v) PROVE g[k] = IF e < k THEN rec[k - e] ELSE file[k]
    OBVIOUS
  <2>1. g[k] = IF e < k /\ k <= e + (5 + v) THEN rec[k - e] ELSE IF k <= e THEN file[k] ELSE 0
    BY <1>3, <1>4, <1>5
  <2>2. k <= e + (5 + v) /\ (~(e < k) => k <= e)
    OBVIOUS
  <2> QED
    BY <2>1, <2>2
<1>7. \A k \in 1..e : g[k] = file[k]
  BY <1>6
<1>8. \A k \in 1..(5 + v) : g[e + k] = rec[k]
  <2> SUFFICES ASSUME NEW k \in 1..(5 + v) PROVE g[e + k] = rec[k]
    OBVIOUS
  <2>1. e + k \in 1..(e + 5 + v) /\ e < e + k /\ (e + k) - e = k
    OBVIOUS
  <2> QED
    BY <1>6, <2>1
<1>9. g[e + 1] = v /\ g[e + 2] = id /\ g[e + 3] = 0 /\ g[e + 4] = Ones /\ g[e + 5] = Ones
  <2>1. /\ 1 \in 1..(5 + v) /\ 2 \in 1..(5 + v) /\ 3 \in 1..(5 + v) /\ 4 \in 1..(5 + v)
        /\ 5 \in 1..(5 + v)
    OBVIOUS
  <2> QED
    BY <1>3, <1>8, <2>1
<1>10. RecVlen(g, e) = v /\ RecId(g, e) = dbid_t(id) /\ RecNext(g, e) = DBID_FREE
  <2>1. e + 1 + 1 = e + 2 /\ e + 1 + 2 = e + 3 /\ e + 3 + 1 = e + 4 /\ e + 3 + 2 = e + 5
    OBVIOUS
  <2> QED
    BY <1>9, <2>1 DEF RecVlen, RecId, RecNext, Load, dbid_t, DBID_FREE
<1>11. \A k \in 1..v : g[e + 5 + k] = val[k]
  <2> SUFFICES ASSUME NEW k \in 1..v PROVE g[e + 5 + k] = val[k]
    OBVIOUS
  <2>1. 5 + k \in 1..(5 + v) /\ e + (5 + k) = e + 5 + k
    OBVIOUS
  <2> QED
    BY <1>3, <1>8, <2>1
<1>12. Holds(e, id)'
  BY <1>1, <1>5, <1>10, <1>11 DEF Holds
<1> QED
  BY <1>1, <1>5, <1>7, <1>12

(* write_record: the record is appended where the bucket of its id points. *)
LEMMA PasteInsertRecord ==
  ASSUME BasicInv, PasteInv, NEW w \in Workers, InsertRecord(w)
  PROVE  PasteInv'
<1>1. PICK l : l = loc[w]
  OBVIOUS
<1>2. /\ pc[w] = "ins_record" /\ UNCHANGED <<procVars, history>>
      /\ \/ file' = Pwrite(file, l.pos, Record(l.id, l.val)) /\ Goto(w, "ins_out", l)
         \/ "short" \in Faults /\ Goto(w, "ins_out", l)
         \/ Goto(w, "ins_out", [l EXCEPT !.ret = "ERR"]) /\ UNCHANGED file
  BY <1>1 DEF InsertRecord, WriteRecord
<1>3. pc[w] \in InsertPcs /\ "ins_out" \in Pcs
  BY <1>2 DEF InsertPcs, Pcs
<1>4. /\ phase = "up" /\ (\A v \in Workers : v # w => pc[v] = "idle")
      /\ file \in Seq(Nat) /\ Len(file) # 0 /\ Len(file) \in Nat /\ Len(file) >= 4
      /\ MetaId(file) \in Nat /\ NumBuckets(file) \in Nat \ {0}
      /\ Len(file) >= MapSize(NumBuckets(file))
      /\ l \in Locals /\ l.id \in DOMAIN pasted /\ l.id \in Nat /\ l.id < MetaId(file)
      /\ l.val = pasted[l.id] /\ l.val \in Seq(Nat) /\ l.pos \in Nat
  BY <1>1, <1>3, WriterFacts
<1>5. l.pos >= 4
  BY <1>1, <1>3 DEF BasicInv, CallInv
<1>6. CASE file' = Pwrite(file, l.pos, Record(l.id, l.val)) /\ Goto(w, "ins_out", l)
  <2>1. PICK e \in Nat, id \in Nat, val \in Seq(Nat) : e = l.pos /\ id = l.id /\ val = l.val
    BY <1>4
  <2>2. file' = Pwrite(file, e, Record(id, val))
    BY <1>6, <2>1
  <2>3. MetaId(file') = MetaId(file) /\ NumBuckets(file') = NumBuckets(file) /\ Len(file') >= 4
    <3>1. PICK s \in Seq(Nat) : s = Record(id, val)
      BY RecordCells
    <3>2. e >= 4 /\ file' = Pwrite(file, e, s)
      BY <1>5, <2>1, <2>2, <3>1
    <3>3. /\ Len(Pwrite(file, e, s)) \in Nat /\ Len(Pwrite(file, e, s)) >= Len(file)
          /\ MetaId(Pwrite(file, e, s)) = MetaId(file) /\ NumBuckets(Pwrite(file, e, s)) = NumBuckets(file)
      BY <1>4, <3>2, HeaderKept
    <3> QED
      BY <1>4, <3>2, <3>3
  <2>4. ASSUME ~Collided', "short" \notin Faults PROVE HeapInv' /\ StepInv(w)'
    <3>1. HeapInv /\ StepInv(w)
      BY <1>4, <2>3, <2>4 DEF PasteInv, Collided
    <3>2. /\ e = Len(file) /\ id < NumBuckets(file) /\ Bucket(file, id) = dbid_t(e)
      BY <1>1, <1>2, <2>1, <3>1 DEF StepInv
    <3>3. id \in DOMAIN pasted' /\ pasted'[id] = val /\ acked' = acked
      BY <1>2, <1>4, <2>1
    <3>4. /\ file' \in Seq(Nat) /\ Len(file') = e + 5 + Len(val)
          /\ \A k \in 1..e : file'[k] = file[k]
          /\ Holds(e, id)'
      BY <1>4, <2>2, <3>2, <3>3, Appended, SMTT(30)
    <3> PICK n \in Nat : n = NumBuckets(file) /\ e >= MapSize(n) /\ e >= 4 /\ id \in 0..(n - 1)
      BY <1>4, <3>2
    <3>5. \A b \in 0..(NumBuckets(file) - 1) : Bucket(file', b) = Bucket(file, b)
      <4> SUFFICES ASSUME NEW b \in 0..(NumBuckets(file) - 1) PROVE Bucket(file', b) = Bucket(file, b)
        OBVIOUS
      <4>1. BucketOffset(b) + 1 \in 1..e /\ BucketOffset(b) + 2 \in 1..e
        BY DEF BucketOffset, MapSize
      <4> QED
        BY <3>4, <4>1 DEF Bucket, Load
    <3>6. HeapInv'
      <4>1. /\ Len(file') >= e /\ MetaId(file') \in Nat /\ MetaId(file') >= MetaId(file)
        BY <1>4, <2>3, <3>4
      <4>2. \A k \in (MapSize(NumBuckets(file)) + 1)..e : file'[k] = file[k]
        <5> SUFFICES ASSUME NEW k \in (MapSize(n) + 1)..e PROVE file'[k] = file[k]
          OBVIOUS
        <5>1. k \in 1..e
          BY DEF MapSize
        <5> QED
          BY <3>4, <5>1
      <4>3. file'[2] = 0 /\ file'[4] = 0
        <5>1. file[2] = 0 /\ file[4] = 0
          BY <1>4, <3>1 DEF HeapInv
        <5>2. 2 \in 1..e /\ 4 \in 1..e
          OBVIOUS
        <5> QED
          BY <3>4, <5>1, <5>2
      <4>4. \A i \in DOMAIN pasted : i \in DOMAIN pasted' /\ pasted'[i] = pasted[i]
        BY <1>2
      <4> QED
        BY <1>4, <2>3, <3>1, <3>2, <3>3, <3>4, <3>5, <4>1, <4>2, <4>3, <4>4, HeapStep
    <3>7. Own(id)'
      <4>1. e \in MapSize(NumBuckets(file'))..Len(file')
        BY <1>4, <2>3, <3>2, <3>4 DEF MapSize
      <4>2. Bucket(file', id) = dbid_t(e) /\ id < NumBuckets(file')
        BY <2>3, <3>2, <3>5
      <4> QED
        BY <3>4, <4>1, <4>2 DEF Own
    <3>8. pc'[w] = "ins_out" /\ loc'[w] = l
      BY <1>3, <1>4, <1>6, GotoFacts DEF BasicInv
    <3>9. StepInv(w)'
      <4>1. Own(l.id)'
        BY <2>1, <3>7
      <4> QED
        BY <3>8, <4>1 DEF StepInv, InsertPcs, Own, Holds
    <3> QED
      BY <3>6, <3>9
  <2> QED
    BY <1>2, <1>3, <1>4, <1>6, <2>4, WriterStep
<1>7. CASE "short" \in Faults /\ Goto(w, "ins_out", l)
  BY <1>2, <1>3, <1>4, <1>7, WriterStep
<1>8. CASE Goto(w, "ins_out", [l EXCEPT !.ret = "ERR"]) /\ UNCHANGED file
  <2>1. PICK m \in Locals : m = [l EXCEPT !.ret = "ERR"] /\ m.ret = "ERR"
    BY <1>4, EditRet
  <2>2. pc'[w] = "ins_out" /\ loc'[w] = m
    BY <1>3, <1>8, <2>1, GotoFacts DEF BasicInv
  <2>3. StepInv(w)'
    BY <2>1, <2>2 DEF StepInv, InsertPcs
  <2> QED
    BY <1>2, <1>3, <1>8, <2>1, <2>3, WriterReads
<1> QED
  BY <1>2, <1>6, <1>7, <1>8

----------------------------------------------------------------------------
(* What is known inside db_get. *)
LEMMA ReaderFacts ==
  ASSUME BasicInv, NEW w \in Workers, pc[w] \in GetPcs
  PROVE  /\ phase = "up" /\ file \in Seq(Nat) /\ Len(file) # 0 /\ Len(file) \in Nat /\ Len(file) >= 4
         /\ MetaId(file) \in Nat /\ NumBuckets(file) \in Nat
         /\ Len(file) >= MapSize(NumBuckets(file))
         /\ loc[w] \in Locals /\ loc[w].id \in Nat /\ loc[w].off \in Nat \X Nat
<1>1. phase = "up"
  BY DEF BasicInv, LockInv, GetPcs
<1>2. Len(file) # 0
  BY <1>1 DEF BasicInv, FileInv
<1>3. loc[w] \in Locals
  BY DEF BasicInv, TypeOK
<1> QED
  BY <1>1, <1>2, <1>3, FileCells DEF BasicInv, Locals

(* A step of db_get: only what this reader established is left to show. *)
LEMMA ReaderStep ==
  ASSUME BasicInv, PasteInv, NEW w \in Workers, NEW to \in Pcs, NEW l \in Locals, Goto(w, to, l),
         UNCHANGED <<phase, file, pasted, acked>>,
         HeapInv /\ StepInv(w) => StepInv(w)'
  PROVE  PasteInv'
<1>1. \A v \in Workers : v # w => pc'[v] = pc[v] /\ loc'[v] = loc[v]
  BY GotoFacts DEF BasicInv
<1>2. CreateInv'
  BY DEF PasteInv, CreateInv
<1>3. ASSUME ~Collided', "short" \notin Faults PROVE HeapInv' /\ \A v \in Workers : StepInv(v)'
  <2>1. HeapInv /\ \A v \in Workers : StepInv(v)
    BY <1>3 DEF PasteInv, Collided
  <2>2. \A v \in Workers : v # w => StepInv(v)'
    BY <1>1, <2>1, SameStep
  <2>3. HeapInv'
    BY <2>1, SameHeap
  <2> QED
    BY <2>1, <2>2, <2>3
<1> QED
  BY <1>2, <1>3 DEF PasteInv

(* rdlock of db_get. *)
LEMMA PasteGetBegin ==
  ASSUME BasicInv, PasteInv, NEW w \in Workers, NEW id \in 0..MaxId, GetBegin(w, id)
  PROVE  PasteInv'
<1>1. id \in Nat /\ "get_bucket" \in Pcs
  BY DbAssumption DEF Pcs, GetPcs
<1>2. PICK l \in Locals : l = [NoCall EXCEPT !.id = id, !.ret = "NULL"] /\ l.ret = "NULL"
  <2>1. /\ [NoCall EXCEPT !.id = id, !.ret = "NULL"] \in Locals
        /\ [NoCall EXCEPT !.id = id, !.ret = "NULL"].ret = "NULL"
    BY <1>1, NoCallType DEF NoCall, Locals
  <2> QED
    BY <2>1, Zenon
<1>3. Goto(w, "get_bucket", l) /\ UNCHANGED <<phase, file, pasted, acked>>
  BY <1>2 DEF GetBegin
<1>4. pc'[w] = "get_bucket" /\ loc'[w] = l
  BY <1>1, <1>3, GotoFacts DEF BasicInv
<1>5. StepInv(w)'
  BY <1>2, <1>4 DEF StepInv, InsertPcs
<1> QED
  BY <1>1, <1>3, <1>5, ReaderStep

(* An id that was returned has its own bucket, which leads to its paste. *)
LEMMA AckedFacts ==
  ASSUME BasicInv, HeapInv, Len(file) # 0, NEW id \in acked
  PROVE  /\ id \in Nat /\ BucketIndex(file, id) = id
         /\ Bucket(file, id)[1] # 0 /\ Bucket(file, id)[2] = 0
         /\ Bucket(file, id) # DBID_FREE /\ Bucket(file, id) # dbid_t(0)
         /\ Holds(Bucket(file, id)[1], id)
<1>1. file \in Seq(Nat) /\ NumBuckets(file) \in Nat
  BY FileCells DEF BasicInv
<1>2. id \in Nat /\ Own(id)
  BY DEF BasicInv, TypeOK, HeapInv
<1> QED
  BY <1>1, <1>2, OwnFacts, IndexOwn

(* db_get of an id whose bucket is free finds nothing, and no insert returned that id. *)
LEMMA PasteGetBucket ==
  ASSUME BasicInv, PasteInv, NEW w \in Workers, GetBucket(w)
  PROVE  PasteInv'
<1>1. PICK l : l = loc[w]
  OBVIOUS
<1>2. PICK head : head = Bucket(file, BucketIndex(file, l.id))
  OBVIOUS
<1>3. /\ pc[w] = "get_bucket" /\ NumBuckets(file) # 0 /\ UNCHANGED <<phase, file, pasted, acked>>
      /\ \/ head = DBID_FREE /\ Goto(w, "get_out", l)
         \/ head # DBID_FREE /\ Goto(w, "get_walk", [l EXCEPT !.off = head])
  BY <1>1, <1>2 DEF GetBucket
<1>4. pc[w] \in GetPcs /\ "get_out" \in Pcs /\ "get_walk" \in Pcs
  BY <1>3 DEF Pcs, GetPcs
<1>5. /\ file \in Seq(Nat) /\ Len(file) # 0 /\ NumBuckets(file) \in Nat \ {0}
      /\ Len(file) >= MapSize(NumBuckets(file)) /\ l \in Locals /\ l.id \in Nat
  BY <1>1, <1>3, <1>4, ReaderFacts
<1>6. CASE head = DBID_FREE /\ Goto(w, "get_out", l)
  <2>1. pc'[w] = "get_out" /\ loc'[w] = l
    BY <1>4, <1>5, <1>6, GotoFacts DEF BasicInv
  <2>2. ASSUME HeapInv, StepInv(w) PROVE StepInv(w)'
    <3>1. l.ret = "NULL"
      BY <1>1, <1>3, <2>2 DEF StepInv
    <3>2. l.id \notin acked
      BY <1>2, <1>5, <1>6, <2>2, AckedFacts
    <3>3. RightAnswer(w)'
      BY <1>3, <2>1, <3>1, <3>2 DEF RightAnswer
    <3> QED
      BY <2>1, <3>3 DEF StepInv, InsertPcs
  <2> QED
    BY <1>3, <1>4, <1>5, <1>6, <2>2, ReaderStep
<1>7. CASE head # DBID_FREE /\ Goto(w, "get_walk", [l EXCEPT !.off = head])
  <2>1. head \in Nat \X Nat
    BY <1>2, <1>5, IndexInRange, BucketCells
  <2>2. PICK m \in Locals : /\ m = [l EXCEPT !.off = head] /\ m.off = head
                            /\ m.ret = l.ret /\ m.id = l.id
    BY <1>5, <2>1, EditOff
  <2>3. pc'[w] = "get_walk" /\ loc'[w] = m
    BY <1>4, <1>7, <2>2, GotoFacts DEF BasicInv
  <2>4. ASSUME HeapInv, StepInv(w) PROVE StepInv(w)'
    <3>1. m.ret = "NULL"
      BY <1>1, <1>3, <2>2, <2>4 DEF StepInv
    <3>2. m.off = Bucket(file', BucketIndex(file', m.id)) /\ m.off # DBID_FREE
      BY <1>2, <1>3, <1>7, <2>2
    <3> QED
      BY <1>3, <2>3, <3>1, <3>2 DEF StepInv, InsertPcs
  <2> QED
    BY <1>3, <1>4, <1>7, <2>2, <2>4, ReaderStep
<1> QED
  BY <1>3, <1>6, <1>7

(* Where a reader is on its list: at offset 0 below a bucket of zeros, or at a complete    *)
(* record, the only one of its bucket.                                                     *)
LEMMA WalkAt ==
  ASSUME BasicInv, HeapInv, NEW w \in Workers, StepInv(w), pc[w] = "get_walk",
         Readable(file, loc[w].off, 5)
  PROVE  \/ loc[w].off[1] = 0 /\ Bucket(file, BucketIndex(file, loc[w].id)) = dbid_t(0)
         \/ \E id \in DOMAIN pasted : Holds(loc[w].off[1], id)
<1>1. PICK l : l = loc[w]
  OBVIOUS
<1>2. pc[w] \in GetPcs
  BY DEF GetPcs
<1>3. /\ file \in Seq(Nat) /\ Len(file) # 0 /\ Len(file) \in Nat /\ NumBuckets(file) \in Nat \ {0}
      /\ l.id \in Nat
  BY <1>1, <1>2, ReaderFacts DEF StepInv
<1>4. PICK b \in 0..(NumBuckets(file) - 1) : b = BucketIndex(file, l.id)
  BY <1>3, IndexInRange
<1>5. PICK head : head = Bucket(file, b)
  OBVIOUS
<1>6. head # DBID_FREE /\ (l.off = head \/ (head = dbid_t(0) /\ l.off[1] = 0))
  BY <1>1, <1>4, <1>5 DEF StepInv
<1>7. CASE head = dbid_t(0)
  <2>1. l.off[1] = 0
    BY <1>6, <1>7 DEF dbid_t
  <2> QED
    BY <1>1, <1>4, <1>5, <1>7, <2>1
<1>8. CASE head # dbid_t(0)
  <2>1. ~Unset(b) /\ l.off = head
    BY <1>5, <1>6, <1>8 DEF Unset
  <2>2. PICK p \in MapSize(NumBuckets(file))..Len(file) :
          head = dbid_t(p) /\ (p = Len(file) \/ \E id \in DOMAIN pasted : Holds(p, id))
    BY <1>3, <1>4, <1>5, <2>1 DEF HeapInv
  <2>3. l.off[1] = p
    BY <2>1, <2>2 DEF dbid_t
  <2>4. p # Len(file)
    BY <1>1, <1>3, <2>3 DEF Readable
  <2> QED
    BY <1>1, <2>2, <2>3, <2>4
<1> QED
  BY <1>7, <1>8

(* A reader whose id was returned is at the record of its id. *)
LEMMA WalkAcked ==
  ASSUME BasicInv, HeapInv, NEW w \in Workers, StepInv(w), pc[w] = "get_walk", loc[w].id \in acked
  PROVE  Readable(file, loc[w].off, 5) /\ RecId(file, loc[w].off[1]) = dbid_t(loc[w].id)
<1>1. PICK l : l = loc[w]
  OBVIOUS
<1>2. Len(file) # 0 /\ Len(file) \in Nat
  BY ReaderFacts DEF GetPcs
<1>3. PICK head : head = Bucket(file, l.id)
  OBVIOUS
<1>4. /\ BucketIndex(file, l.id) = l.id /\ head[2] = 0 /\ head # dbid_t(0) /\ Holds(head[1], l.id)
  BY <1>1, <1>2, <1>3, AckedFacts
<1>5. l.off = head
  BY <1>1, <1>3, <1>4 DEF StepInv
<1>6. l.off \in Nat \X Nat
  BY <1>1, ReaderFacts DEF GetPcs
<1>7. PICK p \in Nat, v \in Nat : p = head[1] /\ v = Len(pasted[l.id]) /\ p + 5 + v <= Len(file)
  <2>1. l.id \in DOMAIN pasted /\ pasted[l.id] \in Seq(Nat)
    BY <1>4, DbAssumption DEF Holds, BasicInv, TypeOK
  <2> QED
    BY <1>4, <1>5, <1>6, <2>1 DEF Holds
<1>8. Readable(file, l.off, 5)
  BY <1>2, <1>4, <1>5, <1>7 DEF Readable
<1> QED
  BY <1>1, <1>4, <1>5, <1>8 DEF Holds

(* One pread of the search: it ends at the paste, or without one if the id was not returned. *)
LEMMA PasteGetWalk ==
  ASSUME BasicInv, PasteInv, NEW w \in Workers, GetWalk(w)
  PROVE  PasteInv'
<1>1. PICK l : l = loc[w]
  OBVIOUS
<1>2. PICK p : p = l.off[1]
  OBVIOUS
<1>3. PICK next : next = RecNext(file, p)
  OBVIOUS
<1>4. /\ pc[w] = "get_walk" /\ UNCHANGED <<phase, file, pasted, acked>>
      /\ \/ (~Readable(file, l.off, 5) \/ "pread" \in Faults) /\ Goto(w, "get_out", l)
         \/ /\ Readable(file, l.off, 5) /\ RecId(file, p) = dbid_t(l.id) /\ Goto(w, "get_value", l)
         \/ /\ Readable(file, l.off, 5) /\ next # DBID_FREE
            /\ Goto(w, "get_walk", [l EXCEPT !.off = next])
         \/ /\ Readable(file, l.off, 5) /\ RecId(file, p) # dbid_t(l.id) /\ Goto(w, "get_out", l)
  BY <1>1, <1>2, <1>3 DEF GetWalk
<1>5. pc[w] \in GetPcs /\ "get_out" \in Pcs /\ "get_walk" \in Pcs /\ "get_value" \in Pcs
  BY <1>4 DEF Pcs, GetPcs
<1>6. /\ file \in Seq(Nat) /\ Len(file) # 0 /\ NumBuckets(file) \in Nat
      /\ l \in Locals /\ l.id \in Nat /\ l.off \in Nat \X Nat
  BY <1>1, <1>5, ReaderFacts
<1>7. ASSUME HeapInv, StepInv(w) PROVE l.ret = "NULL" /\ NumBuckets(file) # 0
  BY <1>1, <1>4, <1>7 DEF StepInv
<1>8. CASE /\ Goto(w, "get_out", l)
           /\ ~Readable(file, l.off, 5) \/ "pread" \in Faults \/ RecId(file, p) # dbid_t(l.id)
  <2>1. pc'[w] = "get_out" /\ loc'[w] = l
    BY <1>5, <1>6, <1>8, GotoFacts DEF BasicInv
  <2>2. ASSUME HeapInv, StepInv(w) PROVE StepInv(w)'
    <3>1. "pread" \notin Faults => l.id \notin acked
      BY <1>1, <1>2, <1>4, <1>8, <2>2, WalkAcked
    <3>2. RightAnswer(w)'
      BY <1>4, <1>7, <2>1, <2>2, <3>1 DEF RightAnswer
    <3> QED
      BY <2>1, <3>2 DEF StepInv, InsertPcs
  <2> QED
    BY <1>4, <1>5, <1>6, <1>8, <2>2, ReaderStep
<1>9. CASE Readable(file, l.off, 5) /\ RecId(file, p) = dbid_t(l.id) /\ Goto(w, "get_value", l)
  <2>1. pc'[w] = "get_value" /\ loc'[w] = l
    BY <1>5, <1>6, <1>9, GotoFacts DEF BasicInv
  <2>2. ASSUME HeapInv, StepInv(w) PROVE StepInv(w)'
    <3>1. p # 0
      <4>1. NumBuckets(file) # 0
        BY <1>7, <2>2
      <4>2. p = 0 => RecId(file, p) = <<file[2], file[3]>>
        BY DEF RecId, Load
      <4> QED
        BY <1>9, <4>1, <4>2 DEF NumBuckets, dbid_t
    <3>2. PICK id \in DOMAIN pasted : Holds(p, id)
      BY <1>1, <1>2, <1>4, <1>9, <2>2, <3>1, WalkAt
    <3>3. id = l.id
      BY <1>9, <3>2 DEF Holds, dbid_t
    <3>4. Holds(p, l.id)'
      BY <1>4, <3>2, <3>3, HoldsSame
    <3>5. Holds(l.off[1], l.id)'
      BY <1>2, <3>4 DEF Holds
    <3> QED
      BY <1>4, <1>7, <2>1, <2>2, <3>5 DEF StepInv, InsertPcs, Holds
  <2> QED
    BY <1>4, <1>5, <1>6, <1>9, <2>2, ReaderStep
<1>10. CASE Readable(file, l.off, 5) /\ next # DBID_FREE /\ Goto(w, "get_walk", [l EXCEPT !.off = next])
  <2>1. next \in Nat \X Nat
    BY <1>2, <1>3, <1>6, <1>10, RecordHeaderRead
  <2>2. PICK m \in Locals : /\ m = [l EXCEPT !.off = next] /\ m.off = next
                            /\ m.ret = l.ret /\ m.id = l.id
    BY <1>6, <2>1, EditOff
  <2>3. pc'[w] = "get_walk" /\ loc'[w] = m
    BY <1>5, <1>10, <2>2, GotoFacts DEF BasicInv
  <2>4. ASSUME HeapInv, StepInv(w) PROVE StepInv(w)'
    <3>1. ~\E id \in DOMAIN pasted : Holds(p, id)
      BY <1>3, <1>10 DEF Holds
    <3>2. p = 0 /\ Bucket(file, BucketIndex(file, l.id)) = dbid_t(0)
      BY <1>1, <1>2, <1>4, <1>10, <2>4, <3>1, WalkAt
    <3>3. next[1] = 0
      <4>1. file[4] = 0
        BY <1>6, <2>4 DEF HeapInv
      <4>2. next = <<file[4], file[5]>>
        BY <1>3, <3>2 DEF RecNext, Load
      <4> QED
        BY <4>1, <4>2
    <3>4. dbid_t(0) # DBID_FREE
      BY DbAssumption DEF dbid_t, DBID_FREE
    <3>5. Bucket(file', BucketIndex(file', m.id)) = dbid_t(0) /\ m.off[1] = 0 /\ m.ret = "NULL"
      BY <1>4, <1>7, <2>2, <2>4, <3>2, <3>3
    <3> QED
      BY <1>4, <1>7, <2>3, <2>4, <3>4, <3>5 DEF StepInv, InsertPcs
  <2> QED
    BY <1>4, <1>5, <1>10, <2>2, <2>4, ReaderStep
<1> QED
  BY <1>4, <1>8, <1>9, <1>10

(* The value that is read is the paste. *)
LEMMA PasteGetValue ==
  ASSUME BasicInv, PasteInv, NEW w \in Workers, GetValue(w)
  PROVE  PasteInv'
<1>1. PICK l : l = loc[w]
  OBVIOUS
<1>2. PICK p : p = l.off[1]
  OBVIOUS
<1>3. PICK vlen : vlen = RecVlen(file, p)
  OBVIOUS
<1>4. PICK val : val = SubSeq(file, p + 5 + 1, p + 5 + vlen)
  OBVIOUS
<1>5. /\ pc[w] = "get_value" /\ UNCHANGED <<phase, file, pasted, acked>>
      /\ \/ p + 5 + vlen <= Len(file) /\ Goto(w, "get_out", [l EXCEPT !.ret = "OK", !.val = val])
         \/ /\ ~(p + 5 + vlen <= Len(file)) \/ Faults \cap {"malloc", "pread"} # {}
            /\ Goto(w, "get_out", l)
  BY <1>1, <1>2, <1>3, <1>4 DEF GetValue
<1>6. pc[w] \in GetPcs /\ "get_out" \in Pcs
  BY <1>5 DEF Pcs, GetPcs
<1>7. /\ file \in Seq(Nat) /\ Len(file) \in Nat /\ l \in Locals /\ l.id \in Nat /\ p \in Nat
  BY <1>1, <1>2, <1>6, ReaderFacts
<1>8. vlen \in Nat
  <2>1. Readable(file, l.off, 5) /\ l.off \in Nat \X Nat
    BY <1>1, <1>5, <1>6, ReaderFacts DEF BasicInv, CallInv
  <2> QED
    BY <1>2, <1>3, <1>7, <2>1, RecordHeaderRead
<1>9. ASSUME StepInv(w)
      PROVE  /\ l.ret = "NULL" /\ l.id \in DOMAIN pasted /\ vlen = Len(pasted[l.id])
             /\ pasted[l.id] \in Seq(Nat)
             /\ p + 5 + vlen <= Len(file) /\ \A k \in 1..vlen : file[p + 5 + k] = pasted[l.id][k]
  <2>1. Holds(p, l.id) /\ l.ret = "NULL"
    BY <1>1, <1>2, <1>5, <1>9 DEF StepInv
  <2>2. l.id \in DOMAIN pasted /\ pasted[l.id] \in Seq(Nat)
    BY <2>1, DbAssumption DEF Holds, BasicInv, TypeOK
  <2> QED
    BY <1>3, <2>1, <2>2 DEF Holds
<1>10. CASE p + 5 + vlen <= Len(file) /\ Goto(w, "get_out", [l EXCEPT !.ret = "OK", !.val = val])
  <2>1. /\ val \in Seq(Nat) /\ Len(val) = vlen
        /\ \A k \in 1..vlen : val[k] = file[p + 5 + k]
    <3>1. PICK q \in Nat : q = p + 5
      BY <1>7
    <3>2. q + vlen <= Len(file) /\ val = SubSeq(file, q + 1, q + vlen)
      BY <1>4, <1>10, <3>1
    <3>3. /\ SubSeq(file, q + 1, q + vlen) \in Seq(Nat) /\ Len(SubSeq(file, q + 1, q + vlen)) = vlen
          /\ \A k \in 1..vlen : SubSeq(file, q + 1, q + vlen)[k] = file[q + k]
      BY <1>7, <1>8, <3>2
    <3> QED
      BY <3>1, <3>2, <3>3, Zenon
  <2>2. PICK m \in Locals : /\ m = [l EXCEPT !.ret = "OK", !.val = val] /\ m.id = l.id
                            /\ m.val = val /\ m.ret = "OK"
    BY <1>7, <2>1, EditVal
  <2>3. pc'[w] = "get_out" /\ loc'[w] = m
    BY <1>6, <1>10, <2>2, GotoFacts DEF BasicInv
  <2>4. ASSUME StepInv(w) PROVE StepInv(w)'
    <3>1. val = pasted[l.id]
      <4>1. PICK t \in Seq(Nat) : t = pasted[l.id] /\ Len(t) = vlen /\ \A k \in 1..vlen : file[p + 5 + k] = t[k]
        BY <1>9, <2>4
      <4>2. Len(val) = Len(t) /\ \A k \in 1..Len(val) : val[k] = t[k]
        BY <2>1, <4>1
      <4>3. val = t
        BY <2>1, <4>2, SeqEqual
      <4> QED
        BY <4>1, <4>3
    <3>2. RightAnswer(w)'
      BY <1>5, <1>9, <2>2, <2>3, <2>4, <3>1 DEF RightAnswer
    <3> QED
      BY <2>3, <3>2 DEF StepInv, InsertPcs
  <2> QED
    BY <1>5, <1>6, <1>10, <2>2, <2>4, ReaderStep
<1>11. CASE /\ ~(p + 5 + vlen <= Len(file)) \/ Faults \cap {"malloc", "pread"} # {}
            /\ Goto(w, "get_out", l)
  <2>1. pc'[w] = "get_out" /\ loc'[w] = l
    BY <1>6, <1>7, <1>11, GotoFacts DEF BasicInv
  <2>2. ASSUME StepInv(w) PROVE StepInv(w)'
    <3>1. RightAnswer(w)'
      BY <1>9, <1>11, <2>1, <2>2 DEF RightAnswer
    <3> QED
      BY <2>1, <3>1 DEF StepInv, InsertPcs
  <2> QED
    BY <1>5, <1>6, <1>7, <1>11, <2>2, ReaderStep
<1> QED
  BY <1>5, <1>10, <1>11

(* db_get returns. *)
LEMMA PasteGetOut ==
  ASSUME BasicInv, PasteInv, NEW w \in Workers, GetOut(w)
  PROVE  PasteInv'
<1>1. Goto(w, "idle", NoCall) /\ UNCHANGED <<phase, file, pasted, acked>> /\ "idle" \in Pcs
  BY DEF GetOut, Pcs
<1>2. pc'[w] = "idle"
  BY <1>1, NoCallType, GotoFacts DEF BasicInv
<1>3. StepInv(w)'
  BY <1>2 DEF StepInv, InsertPcs
<1> QED
  BY <1>1, <1>3, NoCallType, ReaderStep

----------------------------------------------------------------------------
(* SIGFPE: db_insert has counted an id of a database without buckets. *)
LEMMA PasteDivideByZero ==
  ASSUME BasicInv, PasteInv, NEW w \in Workers, DivideByZero(w)
  PROVE  PasteInv'
<1>1. CASE UNCHANGED file
  BY <1>1, PasteDie DEF DivideByZero
<1>2. CASE file' = BumpId(file)
  <2>1. phase = "up" /\ NumBuckets(file) = 0 /\ phase' = "down"
    BY DEF DivideByZero, Die
  <2>2. Len(file) # 0
    BY <2>1 DEF BasicInv, FileInv
  <2>3. file \in Seq(Nat) /\ Len(file) \in Nat /\ Len(file) >= 4 /\ MetaId(file) \in Nat
    BY <2>2, FileCells DEF BasicInv
  <2>4. /\ Len(file') = Len(file) /\ MetaId(file') = MetaId(file) + 1
        /\ \A k \in 3..Len(file) : file'[k] = file[k]
    BY <1>2, <2>3, BumpIdFacts
  <2>5. NumBuckets(file') = 0
    BY <2>1, <2>3, <2>4 DEF NumBuckets
  <2>6. Collided'
    BY <2>3, <2>4, <2>5 DEF Collided
  <2> QED
    BY <2>1, <2>6 DEF PasteInv, CreateInv
<1> QED
  BY <1>1, <1>2 DEF DivideByZero

(* open_db comes to the end of its memset, or is killed inside it. *)
LEMMA PasteInitBuckets == ASSUME BasicInv, PasteInv, InitBuckets PROVE PasteInv'
<1>1. /\ phase = "meta" /\ file' = FreeBuckets(file, params) /\ UNCHANGED <<pasted, acked>>
      /\ phase' \in {"up", "down"} /\ pc' = pc
  BY DEF InitBuckets
<1>2. params \in 0..params /\ \A w \in Workers : pc[w] = "idle"
  BY <1>1, BeforeUp
<1> QED
  BY <1>1, <1>2, PasteMemset

LEMMA PasteKillInMemset ==
  ASSUME BasicInv, PasteInv, NEW n \in 1..params, KillInMemset(n) PROVE PasteInv'
<1>1. /\ phase = "meta" /\ file' = FreeBuckets(file, n) /\ UNCHANGED <<pasted, acked>>
      /\ phase' \in {"up", "down"} /\ \A w \in Workers : pc'[w] = "idle"
  BY DEF KillInMemset, Die
<1>2. n \in 0..params
  BY <1>1, BeforeUp
<1> QED
  BY <1>1, <1>2, PasteMemset

(* No step changes anything. *)
LEMMA PasteStutter == ASSUME PasteInv, UNCHANGED vars PROVE PasteInv'
<1>1. UNCHANGED <<phase, file, pasted, acked, pc, loc>>
  BY DEF vars
<1>2. CreateInv'
  BY <1>1 DEF PasteInv, CreateInv
<1>3. ASSUME ~Collided', "short" \notin Faults PROVE HeapInv' /\ \A v \in Workers : StepInv(v)'
  <2>1. HeapInv /\ \A v \in Workers : StepInv(v)
    BY <1>1, <1>3 DEF PasteInv, Collided
  <2> QED
    BY <1>1, <2>1, SameHeap, SameStep
<1> QED
  BY <1>2, <1>3 DEF PasteInv

LEMMA PasteStep == BasicInv /\ PasteInv /\ [Next]_vars => PasteInv'
<1> SUFFICES ASSUME BasicInv, PasteInv, [Next]_vars PROVE PasteInv'
  OBVIOUS
<1>1. CASE UNCHANGED vars
  BY <1>1, PasteStutter
<1>2. ASSUME NEW n \in BucketParams, CreateFile(n) \/ OpenFile(n) PROVE PasteInv'
  BY <1>2, PasteOpen
<1>3. CASE Truncate
  BY <1>3, PasteTruncate
<1>4. CASE InitMeta
  BY <1>4, PasteInitMeta
<1>5. CASE InitBuckets
  BY <1>5, PasteInitBuckets
<1>6. CASE Kill
  BY <1>6, PasteDie DEF Kill
<1>7. ASSUME NEW n \in 1..params, KillInMemset(n) PROVE PasteInv'
  BY <1>7, PasteKillInMemset
<1>8. ASSUME NEW w \in Workers, NEW val \in Values, InsertBegin(w, val) PROVE PasteInv'
  BY <1>8, PasteInsertBegin
<1>9. ASSUME NEW w \in Workers, NEW id \in 0..MaxId, GetBegin(w, id) PROVE PasteInv'
  BY <1>9, PasteGetBegin
<1>10. ASSUME NEW w \in Workers, DivideByZero(w) PROVE PasteInv'
  BY <1>10, PasteDivideByZero
<1>11. ASSUME NEW w \in Workers, Insert(w) PROVE PasteInv'
  BY <1>11, PasteInsertBucket, PasteInsertWalk, PasteInsertLink, PasteInsertRecord, PasteInsertOut
     DEF Insert
<1>12. ASSUME NEW w \in Workers, Get(w) PROVE PasteInv'
  BY <1>12, PasteGetBucket, PasteGetWalk, PasteGetValue, PasteGetOut DEF Get
<1> QED
  BY <1>1, <1>2, <1>3, <1>4, <1>5, <1>6, <1>7, <1>8, <1>9, <1>10, <1>11, <1>12 DEF Next

(* The heap stays in order as long as every id has a bucket of its own. *)
THEOREM PasteInvariance == Spec => []PasteInv
BY PasteInit, PasteStep, BasicInvariance, PTL DEF Spec

(* db_get never answers wrong as long as every id has a bucket of its own: a buffer holds  *)
(* the paste the id was issued for, and NULL, unless a malloc or pread failed, means that  *)
(* no insert returned the id; after any failed inserts, kills and restarts.                *)
THEOREM PastesAlwaysReadBack == Spec => []PastesReadBack
<1>1. PasteInv => PastesReadBack
  BY DEF PasteInv, StepInv, PastesReadBack
<1> QED
  BY <1>1, PasteInvariance, PTL
=============================================================================
