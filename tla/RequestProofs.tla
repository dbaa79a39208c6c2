--------------------------- MODULE RequestProofs ---------------------------
(***************************************************************************)
(* Proofs about Request: the inductive invariant RequestInv, and from it   *)
(* that the parser and the callbacks stay inside the buffer, for any       *)
(* messages, any limits, and any failures.                                 *)
(*                                                                         *)
(* The facts about all inputs that this needs (the least position of a     *)
(* set, the k-th delimiter of a line, the value of a row of digits, the    *)
(* buffer after a row of pushes) are shown by way of a least number for    *)
(* which they fail.                                                        *)
(***************************************************************************)
EXTENDS Request, NumberLemmas, FiniteSetTheorems, TLAPS

(* What Min is of a set of numbers. *)
LEMMA MinFacts ==
  ASSUME NEW S \in SUBSET Nat, S # {}
  PROVE  Min(S) \in S /\ Min(S) \in Nat /\ \A y \in S : Min(S) <= y
<1>1. PICK x \in S : \A y \in S : x <= y
  BY LeastNumber
<1> QED
  BY <1>1 DEF Min

(* What Max is of a set of numbers with a bound. *)
LEMMA MaxFacts ==
  ASSUME NEW S \in SUBSET Nat, S # {}, NEW n \in Nat, \A y \in S : y <= n
  PROVE  Max(S) \in S /\ Max(S) \in Nat /\ \A y \in S : y <= Max(S)
<1> DEFINE T == {k \in Nat : n - k \in S}
<1>1. T # {}
  <2>1. PICK y \in S : TRUE
    OBVIOUS
  <2>2. n - y \in Nat /\ n - (n - y) = y
    OBVIOUS
  <2> QED
    BY <2>2
<1>2. PICK t \in T : \A u \in T : t <= u
  BY <1>1, LeastNumber
<1>3. PICK x \in S : t = n - x /\ x = n - t
  OBVIOUS
<1>4. \A y \in S : x >= y
  <2> SUFFICES ASSUME NEW y \in S PROVE x >= y
    OBVIOUS
  <2>1. n - x <= n - y
    <3>1. n - y \in Nat /\ n - (n - y) = y
      OBVIOUS
    <3> QED
      BY <1>2, <1>3, <3>1
  <2>2. x \in Nat /\ y \in Nat
    OBVIOUS
  <2> QED
    BY <2>1, <2>2
<1>5. Max(S) \in S /\ \A y \in S : Max(S) >= y
  BY <1>4 DEF Max
<1>6. Max(S) \in Nat
  BY <1>5
<1> QED
  BY <1>5, <1>6

(* A row of cells of the buffer, read as a decimal number. *)
LEMMA MagnitudeFacts ==
  ASSUME IsSeq(data), NEW start \in Nat, start <= Len(data) + 1
  PROVE  Magnitude(start) \in Nat
<1> DEFINE stops == {i \in start..(Len(data) + 1) : i > Len(data) \/ ~IsDigit(data[i])}
           stop == Min(stops)
           value[n \in Nat] == IF n = 0 THEN 0 ELSE 10 * value[n - 1] + Value(data[start + n - 1])
<1>1. Magnitude(start) = value[stop - start]
  BY DEF Magnitude
<1>2. Len(data) \in Nat
  BY DEF IsSeq
<1>4. stop - start \in Nat
  <2>1. Len(data) + 1 \in stops
    BY <1>2
  <2>2. stops \in SUBSET Nat
    BY <1>2
  <2>3. stop \in stops
    <3> HIDE DEF stops
    <3> QED
      BY <2>1, <2>2, MinFacts
  <2> QED
    BY <1>2, <2>3
<1> HIDE DEF stop
<1>5. ASSUME NEW c PROVE Value(c) \in Nat
  <2>1. \E v \in 0..9 : IsDigit(c) => c = Digit[v + 1]
    BY DEF IsDigit
  <2>2. Value(c) \in 0..9
    BY <2>1, Zenon DEF Value
  <2> QED
    BY <2>2
<1>6. value = [n \in Nat |-> IF n = 0 THEN 0 ELSE 10 * value[n - 1] + Value(data[start + n - 1])]
  <2> DEFINE step == [x \in Nat \X Nat |-> 10 * x[2] + Value(data[start + x[1] - 1])]
             Good(v) == v = [n \in Nat |->
                               IF n = 0 THEN 0 ELSE 10 * v[n - 1] + Value(data[start + n - 1])]
  <2>1. step \in [Nat \X Nat -> Nat]
    BY <1>5
  <2>2. PICK f : Iterates(f, Nat, 0, step)
    <3> HIDE DEF step
    <3>1. 0 \in Nat
      OBVIOUS
    <3> QED
      BY <2>1, <3>1, Recursion, Zenon
  <2>3. ASSUME NEW n \in Nat \ {0} PROVE f[n] = 10 * f[n - 1] + Value(data[start + n - 1])
    <3>1. n \in Nat /\ n - 1 \in Nat
      OBVIOUS
    <3>2. f[n - 1] \in Nat /\ f[n] = step[<<n, f[n - 1]>>]
      <4> HIDE DEF step
      <4> QED
        BY <2>2, <3>1 DEF Iterates
    <3> QED
      BY <3>1, <3>2
  <2>4. Good(f)
    BY <2>2, <2>3 DEF Iterates
  <2>5. value = CHOOSE v : Good(v)
    OBVIOUS
  <2> HIDE DEF value
  <2> QED
    BY <2>4, <2>5, Zenon
<1> HIDE DEF value
<1>7. \A n \in Nat : value[n] \in Nat
  <2>1. value[0] \in Nat
    BY <1>6
  <2>2. ASSUME NEW n \in Nat, value[n] \in Nat PROVE value[n + 1] \in Nat
    <3>1. n + 1 \in Nat /\ n + 1 # 0 /\ (n + 1) - 1 = n
      OBVIOUS
    <3>2. value[n + 1] = 10 * value[n] + Value(data[start + (n + 1) - 1])
      BY <1>6, <3>1
    <3> QED
      BY <1>5, <2>2, <3>2
  <2> QED
    BY <2>1, <2>2, Everywhere
<1> QED
  BY <1>1, <1>4, <1>7

(* A number begins inside the buffer or right behind it. *)
LEMMA BeginFacts ==
  ASSUME IsSeq(data), NEW off \in Nat, off <= Len(data)
  PROVE  Begin(off) \in Nat /\ Begin(off) <= Len(data) + 1
<1> DEFINE starts == {i \in (off + 1)..(Len(data) + 1) : i > Len(data) \/ data[i] \notin White}
<1>1. Len(data) \in Nat
  BY DEF IsSeq
<1>2. Len(data) + 1 \in starts /\ starts \in SUBSET Nat
  BY <1>1
<1>3. Begin(off) = Min(starts)
  BY DEF Begin
<1>4. \A i \in starts : i <= Len(data) + 1
  BY <1>1
<1> HIDE DEF starts
<1> QED
  BY <1>2, <1>3, <1>4, MinFacts

(* strtoull gives a number of 64 bits, and strtol one with a sign. *)
LEMMA StrtoullFacts ==
  ASSUME IsSeq(data), NEW off \in Nat, off <= Len(data) PROVE strtoull(off) \in Nat
<1>1. Magnitude(Begin(off)) \in Nat
  BY BeginFacts, MagnitudeFacts
<1> QED
  BY <1>1, RequestAssumption DEF strtoull

LEMMA StrtolFacts ==
  ASSUME IsSeq(data), NEW off \in Nat, off <= Len(data) PROVE strtol(off) \in Int
<1> DEFINE i == Begin(off)
           sign == IF i <= Len(data) THEN data[i] ELSE "NUL"
           start == IF sign \in {"-", "+"} THEN i + 1 ELSE i
           v == Magnitude(start)
<1>1. i \in Nat /\ i <= Len(data) + 1 /\ Len(data) \in Nat
  BY BeginFacts DEF IsSeq
<1>2. start \in Nat /\ start <= Len(data) + 1
  BY <1>1
<1> HIDE DEF start
<1>3. v \in Nat
  BY <1>2, MagnitudeFacts
<1> HIDE DEF v
<1>4. strtol(off) \in {-LONG_MAX - 1, -v, LONG_MAX, v}
  BY DEF strtol, v, start
<1> QED
  BY <1>3, <1>4, RequestAssumption

(* The cut to an int gives an int, which as a uint32_t is itself if it is not negative. *)
LEMMA CutFacts ==
  /\ \A v \in Int : ToInt(v) \in Int /\ -(INT_MAX + 1) <= ToInt(v)
  /\ \A v \in Int : ToUint32(v) \in Nat
  /\ \A v \in 0..INT_MAX : ToUint32(v) = v
<1>1. INT_MAX \in Nat /\ UINT32_RANGE \in Nat \ {0} /\ INT_MAX < UINT32_RANGE
  BY RequestAssumption DEF UINT32_RANGE
<1>2. ASSUME NEW v \in Int, NEW m \in Nat \ {0} PROVE v % m \in 0..(m - 1)
  OBVIOUS
<1>3. ASSUME NEW m \in Nat \ {0}, NEW v \in 0..(m - 1) PROVE v % m = v
  OBVIOUS
<1>4. ASSUME NEW v \in Int PROVE /\ ToInt(v) \in Int /\ -(INT_MAX + 1) <= ToInt(v)
                                 /\ ToUint32(v) \in Nat
  <2>1. PICK k : k = (v + INT_MAX + 1) % UINT32_RANGE
    OBVIOUS
  <2>2. v + INT_MAX + 1 \in Int
    BY <1>1
  <2>3. k \in Nat /\ v % UINT32_RANGE \in Nat
    BY <1>1, <1>2, <2>1, <2>2
  <2>4. ToInt(v) = k - (INT_MAX + 1)
    BY <2>1 DEF ToInt
  <2> QED
    BY <1>1, <2>3, <2>4 DEF ToUint32
<1>5. ASSUME NEW v \in 0..INT_MAX PROVE ToUint32(v) = v
  BY <1>1, <1>3 DEF ToUint32
<1> QED
  BY <1>4, <1>5

----------------------------------------------------------------------------
(* Sequences and the buffer *)

(* A sequence over some set is a sequence. *)
LEMMA SeqIsSeq ==
  ASSUME NEW S, NEW s \in Seq(S)
  PROVE  IsSeq(s) /\ Len(s) \in Nat
<1>1. \A i \in 1..Len(s) : s[i] \in ToSet(s)
  BY DEF ToSet
<1> QED
  BY <1>1 DEF IsSeq

(* What it is to be a sequence. *)
LEMMA IsSeqFacts ==
  ASSUME NEW s, IsSeq(s)
  PROVE  /\ s \in Seq(ToSet(s)) /\ Len(s) \in Nat /\ DOMAIN s = 1..Len(s)
         /\ \A i \in 1..Len(s) : s[i] \in ToSet(s)
BY DEF IsSeq

(* A sequence is one over every set that has its cells. *)
LEMMA IsSeqOver ==
  ASSUME NEW s, IsSeq(s), NEW S, ToSet(s) \subseteq S
  PROVE  s \in Seq(S)
<1>1. s \in Seq(ToSet(s)) /\ Len(s) \in Nat
  BY DEF IsSeq
<1>2. s = [i \in 1..Len(s) |-> s[i]] /\ \A i \in 1..Len(s) : s[i] \in S
  BY <1>1
<1> QED
  BY <1>1, <1>2

(* Two sequences, one behind the other. *)
LEMMA ConcatIsSeq ==
  ASSUME NEW s, NEW t, IsSeq(s), IsSeq(t)
  PROVE  IsSeq(s \o t) /\ Len(s \o t) = Len(s) + Len(t)
<1> DEFINE S == ToSet(s) \cup ToSet(t)
<1>1. s \in Seq(S) /\ t \in Seq(S)
  BY IsSeqOver
<1> HIDE DEF S
<1>2. s \o t \in Seq(S) /\ Len(s \o t) = Len(s) + Len(t)
  BY <1>1
<1> QED
  BY <1>2, SeqIsSeq

(* A part of a sequence. *)
LEMMA SubSeqIsSeq ==
  ASSUME NEW s, IsSeq(s), NEW m \in Nat, NEW n \in Nat, m >= 1, n <= Len(s)
  PROVE  IsSeq(SubSeq(s, m, n)) /\ Len(SubSeq(s, m, n)) = IF m <= n THEN n - m + 1 ELSE 0
<1>1. s \in Seq(ToSet(s)) /\ Len(s) \in Nat
  BY DEF IsSeq
<1>2. PICK S : S = ToSet(s)
  OBVIOUS
<1>3. SubSeq(s, m, n) \in Seq(S) /\ Len(SubSeq(s, m, n)) = IF m <= n THEN n - m + 1 ELSE 0
  BY <1>1, <1>2
<1> QED
  BY <1>3, SeqIsSeq

(* What malloc leaves in new memory. *)
Junk == {"x", "CR", "LF"}

(* The cells that realloc adds. *)
LEMMA FreshFacts ==
  ASSUME NEW first \in Nat, NEW last \in Nat, first <= last + 1
  PROVE  Fresh(first, last) \in Seq(Junk) /\ Len(Fresh(first, last)) = last - first + 1
<1> DEFINE n == last - first + 1
<1>1. n \in Nat
  OBVIOUS
<1>2. Fresh(first, last) \in [1..n -> Junk]
  BY DEF Fresh, Junk
<1> HIDE DEF n
<1>3. Fresh(first, last) \in Seq(Junk) /\ Len(Fresh(first, last)) = n
  BY <1>1, <1>2
<1> QED
  BY <1>3 DEF n

(* resize_buffer keeps a buffer of cells and gives it the capacity asked for. *)
LEMMA ResizeFacts ==
  ASSUME NEW S, Junk \subseteq S, NEW buf \in Seq(S), NEW cap \in Nat, cap >= Len(buf)
  PROVE  resize_buffer(buf, cap) \in Seq(S) /\ Len(resize_buffer(buf, cap)) = cap
<1>1. Len(buf) \in Nat
  OBVIOUS
<1>2. PICK f : f = Fresh(Len(buf) + 1, cap)
  OBVIOUS
<1>3. f \in Seq(Junk) /\ Len(f) = cap - Len(buf)
  <2>1. Len(buf) + 1 \in Nat /\ Len(buf) + 1 <= cap + 1
    BY <1>1
  <2>2. f \in Seq(Junk) /\ Len(f) = cap - (Len(buf) + 1) + 1
    BY <1>2, <2>1, FreshFacts
  <2> QED
    BY <1>1, <2>2
<1>4. f \in Seq(S)
  <2>1. f = [i \in 1..Len(f) |-> f[i]] /\ \A i \in 1..Len(f) : f[i] \in S
    BY <1>3
  <2> QED
    BY <1>3, <2>1
<1>5. buf \o f \in Seq(S) /\ Len(buf \o f) = cap
  BY <1>1, <1>3, <1>4
<1> QED
  BY <1>2, <1>5 DEF resize_buffer

(* memcpy and recv write cells and leave the capacity. *)
LEMMA PutFacts ==
  ASSUME NEW S, NEW buf \in Seq(S), NEW n \in Nat, NEW cells \in Seq(S)
  PROVE  Put(buf, n, cells) \in Seq(S) /\ Len(Put(buf, n, cells)) = Len(buf)
<1>1. Len(buf) \in Nat /\ Len(cells) \in Nat
  OBVIOUS
<1>2. Put(buf, n, cells) \in [1..Len(buf) -> S]
  <2> SUFFICES ASSUME NEW i \in 1..Len(buf)
               PROVE  (IF i \in (n + 1)..(n + Len(cells)) THEN cells[i - n] ELSE buf[i]) \in S
    BY DEF Put
  <2>1. CASE i \in (n + 1)..(n + Len(cells))
    <3>1. i - n \in 1..Len(cells)
      BY <1>1, <2>1
    <3> QED
      BY <2>1, <3>1
  <2>2. CASE i \notin (n + 1)..(n + Len(cells))
    BY <2>2
  <2> QED
    BY <2>1, <2>2
<1> QED
  BY <1>1, <1>2

(* A buffer: size cells of data are in use. *)
Buffers(S) == {b \in [data : Seq(S), size : Nat] : b.size <= Len(b.data)}

(* push_buffer makes room for what it writes. *)
LEMMA PushFacts ==
  ASSUME NEW S, Junk \subseteq S, NEW b \in Buffers(S), NEW cells \in Seq(S)
  PROVE  push_buffer(b, cells) \in Buffers(S)
<1>1. /\ b.data \in Seq(S) /\ b.size \in Nat /\ b.size <= Len(b.data)
      /\ Len(b.data) \in Nat /\ Len(cells) \in Nat
  BY DEF Buffers
<1> DEFINE needed == b.size + Len(cells)
           room == IF needed > Len(b.data) THEN resize_buffer(b.data, needed) ELSE b.data
<1>2. needed \in Nat
  BY <1>1
<1>3. room \in Seq(S) /\ Len(room) \in Nat /\ Len(room) >= needed
  <2>1. CASE needed > Len(b.data)
    <3>1. resize_buffer(b.data, needed) \in Seq(S) /\ Len(resize_buffer(b.data, needed)) = needed
      <4> HIDE DEF needed
      <4> QED
        BY <1>1, <1>2, <2>1, ResizeFacts
    <3> QED
      BY <1>2, <2>1, <3>1
  <2>2. CASE ~(needed > Len(b.data))
    BY <1>1, <1>2, <2>2
  <2> QED
    BY <2>1, <2>2
<1>4. push_buffer(b, cells) = [data |-> Put(room, b.size, cells), size |-> needed]
  BY DEF push_buffer
<1> HIDE DEF needed, room
<1>5. Put(room, b.size, cells) \in Seq(S) /\ Len(Put(room, b.size, cells)) = Len(room)
  BY <1>1, <1>3, PutFacts
<1> QED
  BY <1>2, <1>3, <1>4, <1>5 DEF Buffers

(* The buffer after send_response's pushes, whichever of them are lost. *)
LEMMA PushedFacts ==
  ASSUME IsSeq(data), NEW pieces, IsSeq(pieces), \A i \in 1..Len(pieces) : IsSeq(pieces[i]),
         NEW n \in Nat, NEW lost
  PROVE  /\ IsSeq(Pushed(pieces, n, lost).data)
         /\ Pushed(pieces, n, lost).size \in 0..Len(Pushed(pieces, n, lost).data)
<1> DEFINE S == Junk \cup ToSet(data) \cup UNION {ToSet(pieces[i]) : i \in 1..Len(pieces)}
           B == Buffers(S)
           a == [data |-> data, size |-> 0]
           pushed[i \in Nat] ==
             IF i = 0 THEN a
             ELSE IF i \in DOMAIN pieces \ lost THEN push_buffer(pushed[i - 1], pieces[i])
             ELSE pushed[i - 1]
           step == [x \in Nat \X B |->
                      IF x[1] \in DOMAIN pieces \ lost THEN push_buffer(x[2], pieces[x[1]]) ELSE x[2]]
<1>1. Pushed(pieces, n, lost) = pushed[n]
  BY DEF Pushed
<1>2. a \in B
  <2>1. data \in Seq(S) /\ Len(data) \in Nat
    BY IsSeqOver, IsSeqFacts
  <2> HIDE DEF S
  <2> QED
    BY <2>1 DEF Buffers
<1>3. \A i \in DOMAIN pieces : pieces[i] \in Seq(S)
  <2> SUFFICES ASSUME NEW i \in DOMAIN pieces PROVE pieces[i] \in Seq(S)
    OBVIOUS
  <2>1. i \in 1..Len(pieces)
    BY IsSeqFacts
  <2>2. ToSet(pieces[i]) \subseteq S
    BY <2>1
  <2> HIDE DEF S
  <2> QED
    BY <2>1, <2>2, IsSeqOver
<1>4. Junk \subseteq S
  OBVIOUS
<1> HIDE DEF S
<1>5. ASSUME NEW b \in B, NEW i \in DOMAIN pieces PROVE push_buffer(b, pieces[i]) \in B
  BY <1>3, <1>4, PushFacts
<1> HIDE DEF B
<1>6. step \in [Nat \X B -> B]
  BY <1>5
<1>7. pushed = [i \in Nat |->
                  IF i = 0 THEN a
                  ELSE IF i \in DOMAIN pieces \ lost THEN push_buffer(pushed[i - 1], pieces[i])
                  ELSE pushed[i - 1]]
  <2> DEFINE Good(v) == v = [i \in Nat |->
                               IF i = 0 THEN a
                               ELSE IF i \in DOMAIN pieces \ lost THEN push_buffer(v[i - 1], pieces[i])
                               ELSE v[i - 1]]
  <2>1. PICK f : Iterates(f, B, a, step)
    <3> HIDE DEF step, a
    <3> QED
      BY <1>2, <1>6, Recursion, Zenon
  <2>2. ASSUME NEW i \in Nat \ {0}
        PROVE  f[i] = IF i \in DOMAIN pieces \ lost THEN push_buffer(f[i - 1], pieces[i]) ELSE f[i - 1]
    <3>1. i \in Nat /\ i - 1 \in Nat
      OBVIOUS
    <3>2. f[i - 1] \in B /\ f[i] = step[<<i, f[i - 1]>>]
      <4> HIDE DEF step, a
      <4> QED
        BY <2>1, <3>1 DEF Iterates
    <3> QED
      BY <3>1, <3>2
  <2>3. Good(f)
    <3> HIDE DEF a
    <3> QED
      BY <2>1, <2>2 DEF Iterates
  <2>4. pushed = CHOOSE v : Good(v)
    OBVIOUS
  <2> HIDE DEF pushed
  <2> QED
    BY <2>3, <2>4, Zenon
<1> HIDE DEF pushed, a
<1>8. \A i \in Nat : pushed[i] \in B
  <2>1. pushed[0] \in B
    BY <1>2, <1>7
  <2>2. ASSUME NEW i \in Nat, pushed[i] \in B PROVE pushed[i + 1] \in B
    <3>1. i + 1 \in Nat /\ i + 1 # 0 /\ (i + 1) - 1 = i
      OBVIOUS
    <3>2. pushed[i + 1] = IF i + 1 \in DOMAIN pieces \ lost THEN push_buffer(pushed[i], pieces[i + 1])
                          ELSE pushed[i]
      BY <1>7, <3>1
    <3> QED
      BY <1>5, <2>2, <3>2
  <2> QED
    BY <2>1, <2>2, Everywhere
<1>9. PICK b \in Buffers(S) : b = Pushed(pieces, n, lost)
  BY <1>1, <1>8 DEF B
<1>10. b.data \in Seq(S) /\ b.size \in Nat /\ b.size <= Len(b.data)
  BY DEF Buffers
<1>11. IsSeq(b.data) /\ Len(b.data) \in Nat
  BY <1>10, SeqIsSeq
<1> QED
  BY <1>9, <1>10, <1>11

(* read_data's buffer has room for READ_CHUNK cells more. *)
LEMMA GrowFacts ==
  ASSUME IsSeq(data), size \in 0..Len(data)
  PROVE  IsSeq(Grow) /\ Len(Grow) \in Nat /\ Len(Grow) >= size + READ_CHUNK
<1>1. Len(data) \in Nat /\ READ_CHUNK \in Nat /\ size \in Nat /\ size + READ_CHUNK \in Nat
  BY IsSeqFacts, RequestAssumption
<1>2. CASE size + READ_CHUNK > Len(data)
  <2> DEFINE S == Junk \cup ToSet(data)
  <2>1. Junk \subseteq S /\ data \in Seq(S)
    BY IsSeqOver
  <2> HIDE DEF S
  <2>2. /\ resize_buffer(data, size + READ_CHUNK) \in Seq(S)
        /\ Len(resize_buffer(data, size + READ_CHUNK)) = size + READ_CHUNK
    BY <1>1, <1>2, <2>1, ResizeFacts
  <2>3. IsSeq(resize_buffer(data, size + READ_CHUNK))
    BY <2>2, SeqIsSeq
  <2> QED
    BY <1>1, <1>2, <2>2, <2>3 DEF Grow
<1>3. CASE ~(size + READ_CHUNK > Len(data))
  BY <1>1, <1>3 DEF Grow
<1> QED
  BY <1>2, <1>3

----------------------------------------------------------------------------
(* The parser's helpers *)

(* The line that span finds ends in what was received. *)
LEMMA SpanFacts ==
  ASSUME size \in Nat, NEW off \in Nat, NEW c
  PROVE  span(c, off) = -1 \/ (span(c, off) \in Nat \ {0} /\ off + span(c, off) <= size)
<1> DEFINE ends == {i \in (off + 1)..size : data[i] = c}
<1>1. CASE ends = {}
  BY <1>1 DEF span
<1>2. CASE ends # {}
  <2>1. ends \in SUBSET Nat
    OBVIOUS
  <2>2. Min(ends) \in ends
    <3> HIDE DEF ends
    <3> QED
      BY <1>2, <2>1, MinFacts
  <2>3. span(c, off) = Min(ends) - off
    BY <1>2 DEF span
  <2> QED
    BY <2>2, <2>3
<1> QED
  BY <1>1, <1>2

(* The part of the buffer s is inside that of t. *)
Within(s, t) == t.off <= s.off /\ s.off + s.len <= t.off + t.len

(* trim stays in its argument. *)
LEMMA TrimFacts ==
  ASSUME NEW s \in Spans
  PROVE  trim(s) \in Spans /\ Within(trim(s), s)
<1> DEFINE text == {i \in (s.off + 1)..(s.off + s.len) : data[i] \notin White}
<1>1. s.off \in Nat /\ s.len \in Nat
  BY DEF Spans
<1>2. CASE text = {}
  BY <1>1, <1>2 DEF trim, Str, Spans, Within
<1>3. CASE text # {}
  <2>1. text \in SUBSET Nat /\ \A i \in text : i <= s.off + s.len
    BY <1>1
  <2>2. Min(text) \in text /\ Max(text) \in text /\ Min(text) <= Max(text)
    <3> HIDE DEF text
    <3>1. s.off + s.len \in Nat
      BY <1>1
    <3>2. Min(text) \in text /\ \A y \in text : Min(text) <= y
      BY <1>3, <2>1, MinFacts
    <3>3. Max(text) \in text
      BY <1>3, <2>1, <3>1, MaxFacts
    <3> QED
      BY <3>2, <3>3
  <2>3. trim(s) = Str(Min(text) - 1, Max(text) - Min(text) + 1)
    BY <1>3 DEF trim
  <2>4. PICK a \in (s.off + 1)..(s.off + s.len), b \in (s.off + 1)..(s.off + s.len) :
          a = Min(text) /\ b = Max(text) /\ a <= b
    BY <2>2
  <2>5. trim(s) = [off |-> a - 1, len |-> b - a + 1]
    BY <2>3, <2>4 DEF Str
  <2> QED
    BY <1>1, <2>4, <2>5 DEF Spans, Within
<1> QED
  BY <1>2, <1>3

(* The positions of S up to i. *)
UpTo(S, i) == {j \in S : j <= i}

(* A finite set of positions has a k-th one for every k up to its size. *)
LEMMA NthFacts ==
  ASSUME NEW S \in SUBSET Nat, IsFiniteSet(S), NEW k \in 1..Cardinality(S)
  PROVE  Nth(S, k) \in S /\ Cardinality(UpTo(S, Nth(S, k))) = k
<1> DEFINE Has(l) == \E i \in S : Cardinality(UpTo(S, i)) = l
           T == {l \in 1..Cardinality(S) : ~Has(l)}
<1>1. Cardinality(S) \in Nat
  BY FS_CardinalityType
<1>2. ASSUME NEW i \in S PROVE IsFiniteSet(UpTo(S, i))
  BY FS_Subset DEF UpTo
<1>3. Has(k)
  <2> SUFFICES ASSUME T # {} PROVE FALSE
    OBVIOUS
  <2>1. PICK l \in T : \A h \in T : l <= h
    <3>1. T \in SUBSET Nat
      BY <1>1
    <3> HIDE DEF T
    <3> QED
      BY <3>1, LeastNumber
  <2>2. l \in Nat /\ l >= 1 /\ l <= Cardinality(S) /\ ~Has(l)
    BY <1>1
  <2>3. CASE l = 1
    <3>1. S # {}
      BY <1>1, <2>2, FS_EmptySet
    <3>2. PICK m \in S : \A y \in S : m <= y
      BY <3>1, LeastNumber
    <3>3. UpTo(S, m) = {m}
      <4>1. m <= m /\ \A j \in S : j <= m => j = m
        BY <3>2
      <4> QED
        BY <4>1 DEF UpTo
    <3>4. Cardinality(UpTo(S, m)) = 1
      BY <3>3, FS_Singleton
    <3> QED
      BY <2>2, <2>3, <3>4
  <2>4. CASE l # 1
    <3>1. l - 1 \in 1..Cardinality(S) /\ l - 1 \notin T
      <4>1. \A h \in T : l <= h
        BY <2>1
      <4> HIDE DEF T
      <4> QED
        BY <1>1, <2>2, <2>4, <4>1
    <3>2. PICK i \in S : Cardinality(UpTo(S, i)) = l - 1
      BY <3>1
    <3> DEFINE R == S \ UpTo(S, i)
    <3>3. R # {}
      <4> SUFFICES ASSUME R = {} PROVE FALSE
        OBVIOUS
      <4>1. UpTo(S, i) = S
        BY DEF UpTo
      <4> QED
        BY <1>1, <2>2, <3>2, <4>1
    <3>4. PICK m \in R : \A y \in R : m <= y
      BY <3>3, LeastNumber
    <3>5. UpTo(S, m) = UpTo(S, i) \cup {m}
      <4>1. m \in S /\ m \notin UpTo(S, i) /\ \A y \in S : y \notin UpTo(S, i) => m <= y
        BY <3>4
      <4>2. m \in Nat /\ i \in Nat /\ i < m
        BY <4>1 DEF UpTo
      <4>3. ASSUME NEW j \in S PROVE j <= m <=> (j \in UpTo(S, i) \/ j = m)
        <5>1. j \in UpTo(S, i) <=> j <= i
          BY DEF UpTo
        <5>2. j \in Nat /\ (~(j <= i) => m <= j)
          BY <4>1, <5>1
        <5> QED
          BY <4>2, <5>1, <5>2
      <4> QED
        BY <4>1, <4>3 DEF UpTo
    <3>6. Cardinality(UpTo(S, m)) = l
      <4>1. m \notin UpTo(S, i) /\ IsFiniteSet(UpTo(S, i))
        BY <1>2
      <4>2. Cardinality(UpTo(S, i) \cup {m}) = Cardinality(UpTo(S, i)) + 1
        BY <4>1, FS_AddElement
      <4> QED
        BY <2>2, <3>2, <3>5, <4>2
    <3> QED
      BY <2>2, <3>4, <3>6
  <2> QED
    BY <2>3, <2>4
<1>4. Nth(S, k) = CHOOSE i \in S : Cardinality(UpTo(S, i)) = k
  BY DEF Nth, UpTo
<1> QED
  BY <1>3, <1>4, Zenon

(* The positions of a set in their order. *)
LEMMA NthOrder ==
  ASSUME NEW S \in SUBSET Nat, IsFiniteSet(S), NEW k \in 1..Cardinality(S),
         NEW l \in 1..Cardinality(S), k < l
  PROVE  Nth(S, k) < Nth(S, l)
<1> SUFFICES ASSUME ~(Nth(S, k) < Nth(S, l)) PROVE FALSE
  OBVIOUS
<1>1. PICK a \in S, b \in S : /\ a = Nth(S, k) /\ Cardinality(UpTo(S, a)) = k
                              /\ b = Nth(S, l) /\ Cardinality(UpTo(S, b)) = l
  BY NthFacts
<1>2. a \in Nat /\ b \in Nat /\ ~(a < b)
  BY <1>1
<1>3. UpTo(S, b) \subseteq UpTo(S, a) /\ IsFiniteSet(UpTo(S, a))
  <2>1. \A j \in S : j <= b => j <= a
    BY <1>2
  <2>2. UpTo(S, a) \in SUBSET S
    BY DEF UpTo
  <2> QED
    BY <2>1, <2>2, FS_Subset DEF UpTo
<1>4. Cardinality(UpTo(S, b)) <= Cardinality(UpTo(S, a))
  BY <1>3, FS_Subset
<1>5. k \in Nat /\ l \in Nat
  BY FS_CardinalityType
<1> QED
  BY <1>1, <1>4, <1>5

(* The tokens that split finds are in its argument. *)
LEMMA SplitFacts ==
  ASSUME NEW s \in Spans, NEW delim, NEW n \in Nat \ {0}
  PROVE  LET tokens == split(s, delim, n) IN
         Len(tokens) \in Nat /\ \A i \in 1..Len(tokens) : tokens[i] \in Spans /\ Within(tokens[i], s)
<1> DEFINE delims == {i \in (s.off + 1)..(s.off + s.len) : data[i] = delim}
           cuts == Min({n - 1, Cardinality(delims)})
           Start(i) == IF i = 1 THEN s.off ELSE Nth(delims, i - 1)
           Stop(i) == IF i > cuts THEN s.off + s.len + 1 ELSE Nth(delims, i)
           tokens == [i \in 1..(cuts + 1) |-> Str(Start(i), Stop(i) - Start(i) - 1)]
<1>1. s.off \in Nat /\ s.len \in Nat
  BY DEF Spans
<1>2. split(s, delim, n) = tokens
  BY DEF split
<1>3. delims \in SUBSET Nat /\ \A i \in delims : i \in Nat /\ s.off + 1 <= i /\ i <= s.off + s.len
  BY <1>1
<1>4. IsFiniteSet(delims)
  <2>1. s.off + s.len \in Nat
    BY <1>1
  <2> HIDE DEF delims
  <2> QED
    BY <1>3, <2>1, FS_BoundedSetOfNaturals
<1> HIDE DEF delims
<1>5. Cardinality(delims) \in Nat
  BY <1>4, FS_CardinalityType
<1>6. cuts \in Nat /\ cuts <= Cardinality(delims)
  <2>1. {n - 1, Cardinality(delims)} \in SUBSET Nat
    BY <1>5
  <2> QED
    BY <2>1, MinFacts
<1> HIDE DEF cuts
<1>7. \A i \in 1..cuts : /\ Nth(delims, i) \in Nat
                         /\ s.off + 1 <= Nth(delims, i) /\ Nth(delims, i) <= s.off + s.len
  <2> SUFFICES ASSUME NEW i \in 1..cuts
               PROVE  /\ Nth(delims, i) \in Nat
                      /\ s.off + 1 <= Nth(delims, i) /\ Nth(delims, i) <= s.off + s.len
    OBVIOUS
  <2>1. i \in 1..Cardinality(delims)
    BY <1>5, <1>6
  <2>2. Nth(delims, i) \in delims
    BY <1>3, <1>4, <2>1, NthFacts
  <2> QED
    BY <1>3, <2>2
<1>8. \A i \in 2..cuts : Nth(delims, i - 1) < Nth(delims, i)
  <2> SUFFICES ASSUME NEW i \in 2..cuts PROVE Nth(delims, i - 1) < Nth(delims, i)
    OBVIOUS
  <2>1. i \in 1..Cardinality(delims) /\ i - 1 \in 1..Cardinality(delims) /\ i - 1 < i
    BY <1>5, <1>6
  <2> QED
    BY <1>3, <1>4, <2>1, NthOrder
<1>9. ASSUME NEW i \in 1..(cuts + 1)
      PROVE  /\ Start(i) \in Nat /\ s.off <= Start(i) /\ Stop(i) \in Nat
             /\ Start(i) < Stop(i) /\ Stop(i) <= s.off + s.len + 1
  <2>1. i \in Nat /\ i >= 1 /\ i <= cuts + 1
    BY <1>6
  <2>2. Start(i) \in Nat /\ s.off <= Start(i) /\ Start(i) <= s.off + s.len
    <3>1. CASE i = 1
      BY <1>1, <3>1
    <3>2. CASE i # 1
      <4>1. i - 1 \in 1..cuts
        BY <1>6, <2>1, <3>2
      <4>2. PICK a \in Nat : a = Nth(delims, i - 1) /\ s.off + 1 <= a /\ a <= s.off + s.len
        BY <1>7, <4>1
      <4> QED
        BY <1>1, <3>2, <4>2
    <3> QED
      BY <3>1, <3>2
  <2>3. CASE i > cuts
    BY <1>1, <2>2, <2>3
  <2>4. CASE ~(i > cuts)
    <3>1. i \in 1..cuts
      BY <1>6, <2>1, <2>4
    <3>2. PICK b \in Nat : b = Nth(delims, i) /\ s.off + 1 <= b /\ b <= s.off + s.len
      BY <1>7, <3>1
    <3>3. Stop(i) = b
      BY <2>4, <3>2
    <3>4. Start(i) < b
      <4>1. CASE i = 1
        BY <1>1, <3>2, <4>1
      <4>2. CASE i # 1
        <5>1. i \in 2..cuts
          BY <1>6, <2>1, <3>1, <4>2
        <5> QED
          BY <1>8, <3>2, <4>2, <5>1
      <4> QED
        BY <4>1, <4>2
    <3> HIDE DEF Start, Stop
    <3> QED
      BY <1>1, <2>2, <3>2, <3>3, <3>4
  <2> QED
    BY <2>3, <2>4
<1> HIDE DEF Start, Stop
<1>10. ASSUME NEW i \in 1..(cuts + 1) PROVE tokens[i] \in Spans /\ Within(tokens[i], s)
  <2>1. PICK a \in Nat, b \in Nat :
          a = Start(i) /\ b = Stop(i) /\ s.off <= a /\ a < b /\ b <= s.off + s.len + 1
    BY <1>9
  <2>2. tokens[i] = [off |-> a, len |-> b - a - 1]
    BY <2>1 DEF Str
  <2> QED
    BY <1>1, <2>1, <2>2 DEF Spans, Within
<1>11. Len(tokens) = cuts + 1
  BY <1>6
<1> HIDE DEF tokens
<1> QED
  BY <1>2, <1>6, <1>10, <1>11

----------------------------------------------------------------------------
(* The inductive invariant *)

USE DEF bufVars, peerVars

(* Constants and the facts that most steps need. *)
LEMMA BufferFacts ==
  ASSUME TypeOK
  PROVE  /\ IsSeq(data) /\ Len(data) \in Nat /\ size \in Nat /\ size <= Len(data)
         /\ READ_CHUNK \in Nat /\ READ_CHUNK >= 2 /\ req \in Requests
         /\ req.read_bytes \in Nat /\ req.uri \in Spans /\ req.body \in Bodies
         /\ req.headers \in Seq([key : Spans, val : Spans]) /\ Len(req.headers) \in Nat
         /\ \A i \in 1..Len(req.headers) : req.headers[i].key \in Spans /\ req.headers[i].val \in Spans
         /\ \A s \in Spans : s.off \in Nat /\ s.len \in Nat
         /\ \A b \in Bodies : b.off \in Nat /\ b.len \in Int /\ b.len <= INT_MAX
<1>1. IsSeq(data) /\ size \in 0..Len(data) /\ req \in Requests
  BY DEF TypeOK
<1>2. Len(data) \in Nat
  BY <1>1, IsSeqFacts
<1>3. READ_CHUNK \in Nat /\ READ_CHUNK >= 2
  BY RequestAssumption
<1>4. /\ req.read_bytes \in Nat /\ req.uri \in Spans /\ req.body \in Bodies
      /\ req.headers \in Seq([key : Spans, val : Spans])
  BY <1>1 DEF Requests
<1>5. /\ \A s \in Spans : s.off \in Nat /\ s.len \in Nat
      /\ \A b \in Bodies : b.off \in Nat /\ b.len \in Int /\ b.len <= INT_MAX
  BY RequestAssumption DEF Spans, Bodies
<1>6. /\ Len(req.headers) \in Nat
      /\ \A i \in 1..Len(req.headers) : req.headers[i].key \in Spans /\ req.headers[i].val \in Spans
  <2>1. PICK H : H = [key : Spans, val : Spans]
    OBVIOUS
  <2>2. PICK h \in Seq(H) : h = req.headers
    BY <1>4, <2>1
  <2>3. Len(h) \in Nat /\ \A i \in 1..Len(h) : h[i] \in H
    OBVIOUS
  <2>4. \A x \in H : x.key \in Spans /\ x.val \in Spans
    BY <2>1
  <2> QED
    BY <2>2, <2>3, <2>4
<1> QED
  BY <1>1, <1>2, <1>3, <1>4, <1>5, <1>6

(* A zeroed request has no offsets. *)
LEMMA NoRequestFacts ==
  /\ NoRequest \in Requests /\ NoRequest.headers = <<>> /\ Len(NoRequest.headers) = 0
  /\ NoRequest.state = "INIT" /\ NoRequest.uri = Str(0, 0) /\ NoRequest.body = Str(0, 0)
  /\ Str(0, 0) \in Spans /\ Str(0, 0).off = 0 /\ Str(0, 0).len = 0
<1>4. Str(0, 0) \in Bodies
  BY RequestAssumption DEF Str, Bodies
<1>1. Str(0, 0) \in Spans /\ Str(0, 0).off = 0 /\ Str(0, 0).len = 0
  BY DEF Str, Spans
<1>2. <<>> \in Seq([key : Spans, val : Spans])
  OBVIOUS
<1>3. "GET" \in Methods /\ "HTTP/1.0" \in Versions
  BY DEF Methods, Versions
<1> QED
  BY <1>1, <1>2, <1>3, <1>4 DEF NoRequest, Requests

(* accept_connection: an empty buffer and a zeroed request *)
LEMMA RequestInit == Init => RequestInv
<1> SUFFICES ASSUME Init PROVE RequestInv
  OBVIOUS
<1> USE DEF Init
<1>1. IsSeq(<<>>) /\ Len(<<>>) = 0
  <2>1. <<>> \in Seq({})
    OBVIOUS
  <2> QED
    BY <2>1, SeqIsSeq
<1>2. IsSeq(input)
  BY MessagesAssumption
<1>3. MaxRequests \in Nat \ {0} /\ MAX_HEADERS \in Nat
  BY RequestAssumption
<1>4. TypeOK
  <2>1. store = <<>> /\ IsSeq(store) /\ \A i \in 1..Len(store) : IsSeq(store[i])
    BY <1>1
  <2>2. req \in Requests /\ Len(req.headers) <= MAX_HEADERS
    BY <1>3, NoRequestFacts
  <2>3. IsSeq(data) /\ size \in 0..Len(data) /\ count \in 1..MaxRequests
    BY <1>1, <1>3
  <2> QED
    BY <1>2, <2>1, <2>2, <2>3 DEF TypeOK
<1> QED
  BY <1>1, <1>4, NoRequestFacts DEF RequestInv, Received

(* recv writes behind what was received, and what was parsed stays where it was. *)
LEMMA InvRecv ==
  ASSUME RequestInv, NEW k \in 1..READ_CHUNK, Recv(k)
  PROVE  RequestInv'
<1> USE DEF Recv
<1>1. TypeOK /\ IsSeq(input) /\ Len(input) \in Nat /\ k <= Len(input)
  BY IsSeqFacts DEF RequestInv, TypeOK
<1>2. /\ IsSeq(data) /\ Len(data) \in Nat /\ size \in Nat /\ size <= Len(data)
      /\ READ_CHUNK \in Nat /\ k \in Nat /\ k >= 1 /\ k <= READ_CHUNK
  BY <1>1, BufferFacts
<1>3. IsSeq(Grow) /\ Len(Grow) \in Nat /\ Len(Grow) >= size + READ_CHUNK
  BY <1>2, GrowFacts
<1>4. PICK cells : cells = SubSeq(input, 1, k) /\ IsSeq(cells)
  <2>1. 1 \in Nat /\ 1 >= 1
    OBVIOUS
  <2> QED
    BY <1>1, <1>2, <2>1, SubSeqIsSeq
<1>5. IsSeq(data)' /\ Len(data') = Len(Grow)
  <2> DEFINE S == ToSet(Grow) \cup ToSet(cells)
  <2>1. Grow \in Seq(S) /\ cells \in Seq(S)
    BY <1>3, <1>4, IsSeqOver
  <2> HIDE DEF S
  <2>2. Put(Grow, size, cells) \in Seq(S) /\ Len(Put(Grow, size, cells)) = Len(Grow)
    BY <1>2, <2>1, PutFacts
  <2>3. IsSeq(Put(Grow, size, cells))
    BY <2>2, SeqIsSeq
  <2>4. data' = Put(Grow, size, cells)
    BY <1>4
  <2> QED
    BY <2>2, <2>3, <2>4
<1>6. size' \in Nat /\ size <= size' /\ size' <= Len(data')
  BY <1>2, <1>3, <1>5
<1>7. IsSeq(input)'
  <2>1. k + 1 \in Nat /\ k + 1 >= 1
    BY <1>2
  <2>2. IsSeq(SubSeq(input, k + 1, Len(input)))
    BY <1>1, <2>1, SubSeqIsSeq
  <2> QED
    BY <2>2
<1>8. TypeOK'
  BY <1>1, <1>5, <1>6, <1>7 DEF TypeOK
<1>9. /\ Received(req.uri)'
      /\ \A i \in 1..Len(req'.headers) : Received(req.headers[i].key)' /\ Received(req.headers[i].val)'
  <2>1. /\ req.uri \in Spans
        /\ \A i \in 1..Len(req.headers) : req.headers[i].key \in Spans /\ req.headers[i].val \in Spans
    BY <1>1, BufferFacts
  <2>2. /\ Received(req.uri)
        /\ \A i \in 1..Len(req.headers) : Received(req.headers[i].key) /\ Received(req.headers[i].val)
    BY DEF RequestInv
  <2>3. req' = req
    OBVIOUS
  <2>4. \A s \in Spans : Received(s) => s.off + s.len <= size'
    BY <1>2, <1>6, BufferFacts, <1>1 DEF Received
  <2> QED
    BY <2>1, <2>2, <2>3, <2>4 DEF Received
<1>10. req'.state = "HEADERS" => req'.read_bytes <= size'
  <2>1. req.read_bytes \in Nat
    BY <1>1, BufferFacts
  <2> QED
    BY <1>2, <1>6, <2>1 DEF RequestInv
<1> QED
  BY <1>8, <1>9, <1>10 DEF RequestInv

(* Before the parser runs, read_data has made room for one more recv. *)
LEMMA InvRecvBlocks == ASSUME RequestInv, RecvBlocks PROVE RequestInv'
<1> USE DEF RecvBlocks
<1>1. TypeOK
  BY DEF RequestInv
<1>2. IsSeq(data) /\ size \in 0..Len(data) /\ size \in Nat /\ READ_CHUNK \in Nat
  BY <1>1, BufferFacts DEF TypeOK
<1>3. IsSeq(data)' /\ Len(data') \in Nat /\ size' = size /\ size + READ_CHUNK <= Len(data')
  BY <1>2, GrowFacts
<1>4. TypeOK'
  BY <1>1, <1>2, <1>3 DEF TypeOK
<1> QED
  BY <1>3, <1>4 DEF RequestInv, Received

(* resize_buffer fails, and the connection is closed. *)
LEMMA InvRecvFails == ASSUME RequestInv, RecvFails PROVE RequestInv'
BY DEF RequestInv, RecvFails, TypeOK, Received

(* A step of the parser that finds no more than was received. *)
LEMMA InvParsing ==
  ASSUME RequestInv, pc = "parse", UNCHANGED <<bufVars, peerVars, store>>,
         pc' \in {"read", "parse", "closed"}, keep' \in BOOLEAN,
         mishaps' \subseteq {"headers", "stray", "length", "push"},
         req' \in Requests, Len(req'.headers) <= MAX_HEADERS,
         req'.state = "HEADERS" => req'.read_bytes <= size, Received(req'.uri),
         \A i \in 1..Len(req'.headers) : Received(req'.headers[i].key) /\ Received(req'.headers[i].val)
  PROVE  RequestInv'
<1>1. TypeOK'
  BY DEF RequestInv, TypeOK
<1> QED
  BY <1>1 DEF RequestInv, Received

(* REQ_UF and REQ_ERR *)
LEMMA InvUnparsed ==
  ASSUME RequestInv, NEW state, Parsing(state), Underflow \/ BadRequest
  PROVE  RequestInv'
<1>1. /\ pc = "parse" /\ UNCHANGED <<bufVars, peerVars, store, req, keep, mishaps>>
      /\ pc' \in {"read", "parse", "closed"}
  BY DEF Parsing, Underflow, BadRequest
<1> QED
  BY <1>1, InvParsing DEF RequestInv, TypeOK

(* A span of one cell. *)
LEMMA OneCell ==
  ASSUME TypeOK, NEW s \in Spans, s.off + s.len <= size, NEW c, Text(s) = <<c>>
  PROVE  data[s.off + 1] = c
<1>1. /\ IsSeq(data) /\ Len(data) \in Nat /\ size \in Nat /\ size <= Len(data)
      /\ s.off \in Nat /\ s.len \in Nat
  BY BufferFacts
<1>2. PICK S : data \in Seq(S)
  BY <1>1, IsSeqFacts
<1>3. PICK m \in Nat, n \in Nat : m = s.off + 1 /\ n = s.off + s.len /\ n <= Len(data) /\ m >= 1
  BY <1>1
<1>4. PICK t : t = SubSeq(data, m, n) /\ t = <<c>> /\ Len(t) = 1 /\ t[1] = c
  <2>1. SubSeq(data, m, n) = <<c>>
    BY <1>3 DEF Text
  <2>2. Len(<<c>>) = 1 /\ <<c>>[1] = c
    OBVIOUS
  <2> QED
    BY <2>1, <2>2
<1>5. Len(SubSeq(data, m, n)) = IF m <= n THEN n - m + 1 ELSE 0
  BY <1>2, <1>3
<1>6. m <= n
  BY <1>3, <1>4, <1>5
<1>7. SubSeq(data, m, n)[1] = data[m]
  BY <1>2, <1>3, <1>6
<1> QED
  BY <1>3, <1>4, <1>7

(* The tokens of the request line are in the line, and the line in what was received. *)
LEMMA InvParseStatusLine == ASSUME RequestInv, ParseStatusLine PROVE RequestInv'
<1> DEFINE line == span("LF", 0)
           tokens == split(Str(0, line), " ", 3)
           good == /\ Len(tokens) = 3
                   /\ tokens[1].len = 1 /\ data[1] \in Methods
                   /\ \E v \in Versions : Text(trim(tokens[3])) = <<v>>
<1>1. /\ Parsing("INIT")
      /\ \/ line < 0 /\ Underflow
         \/ line > 0 /\ ~good /\ BadRequest
         \/ /\ line > 0 /\ good
            /\ Parsed([req EXCEPT !.state = "HEADERS", !.read_bytes = line, !.method = data[1],
                                  !.version = data[trim(tokens[3]).off + 1], !.uri = tokens[2]])
  BY DEF ParseStatusLine
<1>2. CASE Underflow \/ BadRequest
  BY <1>1, <1>2, InvUnparsed
<1>3. CASE /\ line > 0 /\ good
           /\ Parsed([req EXCEPT !.state = "HEADERS", !.read_bytes = line, !.method = data[1],
                                 !.version = data[trim(tokens[3]).off + 1], !.uri = tokens[2]])
  <2>1. /\ TypeOK /\ size \in Nat /\ req \in Requests
        /\ \A s \in Spans : s.off \in Nat /\ s.len \in Nat
    BY BufferFacts DEF RequestInv
  <2>2. line \in Nat \ {0} /\ line <= size
    <3>1. 0 \in Nat
      OBVIOUS
    <3>2. line = -1 \/ (line \in Nat \ {0} /\ 0 + line <= size)
      BY <2>1, <3>1, SpanFacts
    <3>3. line > 0
      BY <1>3
    <3> HIDE DEF line
    <3> QED
      BY <2>1, <3>2, <3>3
  <2> HIDE DEF line
  <2>3. Str(0, line) \in Spans /\ Str(0, line).off = 0 /\ Str(0, line).len = line
    BY <2>2 DEF Str, Spans
  <2>4. \A i \in 1..3 : tokens[i] \in Spans /\ tokens[i].off + tokens[i].len <= line
    <3>1. 3 \in Nat \ {0}
      OBVIOUS
    <3>2. \A i \in 1..Len(tokens) : tokens[i] \in Spans /\ Within(tokens[i], Str(0, line))
      BY <2>3, <3>1, SplitFacts
    <3> HIDE DEF tokens
    <3> QED
      BY <1>3, <2>2, <2>3, <3>2 DEF Within
  <2> HIDE DEF tokens
  <2>5. PICK t \in Spans : t = trim(tokens[3]) /\ t.off + t.len <= size
    <3>1. trim(tokens[3]) \in Spans /\ Within(trim(tokens[3]), tokens[3])
      BY <2>4, TrimFacts
    <3>2. PICK t \in Spans, u \in Spans :
            t = trim(tokens[3]) /\ u = tokens[3] /\ Within(t, u) /\ u.off + u.len <= line
      BY <2>4, <3>1
    <3>3. t.off + t.len <= size
      <4>1. t.off \in Nat /\ t.len \in Nat /\ u.off \in Nat /\ u.len \in Nat
        BY <2>1
      <4> QED
        BY <2>1, <2>2, <3>2, <4>1 DEF Within
    <3> QED
      BY <3>2, <3>3
  <2>6. data[t.off + 1] \in Versions
    BY <1>3, <2>1, <2>5, OneCell
  <2>7. PICK u \in Spans : u = tokens[2] /\ u.off + u.len <= size
    <3>1. PICK u \in Spans : u = tokens[2] /\ u.off + u.len <= line
      BY <2>4
    <3>2. u.off \in Nat /\ u.len \in Nat
      BY <2>1
    <3> QED
      BY <2>1, <2>2, <3>1, <3>2
  <2>8. PICK m \in Methods, v \in Versions : m = data[1] /\ v = data[t.off + 1]
    BY <1>3, <2>6
  <2>9. /\ req' = [req EXCEPT !.state = "HEADERS", !.read_bytes = line,
                              !.method = m, !.version = v, !.uri = u]
        /\ UNCHANGED <<pc, keep, mishaps>>
    BY <1>3, <2>5, <2>7, <2>8 DEF Parsed
  <2>10. /\ req' \in Requests /\ req'.headers = req.headers /\ req'.read_bytes = line /\ req'.uri = u
    BY <2>1, <2>2, <2>9 DEF Requests
  <2>11. pc = "parse" /\ UNCHANGED <<bufVars, peerVars, store>>
    BY <1>1 DEF Parsing
  <2>12. /\ pc' \in {"read", "parse", "closed"} /\ keep' \in BOOLEAN
         /\ mishaps' \subseteq {"headers", "stray", "length", "push"}
    BY <2>9, <2>11 DEF RequestInv, TypeOK
  <2>13. Len(req'.headers) <= MAX_HEADERS /\ Received(req'.uri) /\ req'.read_bytes <= size
    BY <2>2, <2>7, <2>10 DEF RequestInv, TypeOK, Received
  <2>14. \A i \in 1..Len(req'.headers) : Received(req'.headers[i].key) /\ Received(req'.headers[i].val)
    BY <2>10 DEF RequestInv
  <2> QED
    BY <2>10, <2>11, <2>12, <2>13, <2>14, InvParsing
<1> QED
  BY <1>1, <1>2, <1>3

(* parse_headers stores a header only while there is room for one, and finds its name and  *)
(* its value in the line.                                                                  *)
LEMMA InvParseHeader == ASSUME RequestInv, ParseHeader PROVE RequestInv'
<1> DEFINE r == req.read_bytes
           line == span("LF", r)
           tokens == split(Str(r, line), ":", 2)
           header == [key |-> trim(tokens[1]), val |-> trim(tokens[2])]
<1>1. /\ Parsing("HEADERS") /\ HeaderRoom
      /\ \/ line < 0 /\ Underflow
         \/ line > 0 /\ Len(tokens) < 2 /\ BadRequest
         \/ /\ line > 0 /\ Len(tokens) = 2
            /\ Parsed([req EXCEPT !.read_bytes = r + line, !.headers = Append(@, header)])
  BY DEF ParseHeader
<1>2. CASE Underflow \/ BadRequest
  BY <1>1, <1>2, InvUnparsed
<1>3. CASE /\ line > 0 /\ Len(tokens) = 2
           /\ Parsed([req EXCEPT !.read_bytes = r + line, !.headers = Append(@, header)])
  <2>1. /\ TypeOK /\ size \in Nat /\ req \in Requests /\ r \in Nat
        /\ req.headers \in Seq([key : Spans, val : Spans]) /\ Len(req.headers) \in Nat
        /\ \A s \in Spans : s.off \in Nat /\ s.len \in Nat
    BY BufferFacts DEF RequestInv
  <2> HIDE DEF r
  <2>2. line \in Nat \ {0} /\ r + line <= size
    <3>1. line = -1 \/ (line \in Nat \ {0} /\ r + line <= size)
      BY <2>1, SpanFacts
    <3>2. line > 0
      BY <1>3
    <3> HIDE DEF line
    <3> QED
      BY <2>1, <3>1, <3>2
  <2> HIDE DEF line
  <2>3. Str(r, line) \in Spans /\ Str(r, line).off = r /\ Str(r, line).len = line
    BY <2>1, <2>2 DEF Str, Spans
  <2>4. \A i \in 1..2 : tokens[i] \in Spans /\ tokens[i].off + tokens[i].len <= size
    <3>1. 2 \in Nat \ {0}
      OBVIOUS
    <3>2. \A i \in 1..Len(tokens) : tokens[i] \in Spans /\ Within(tokens[i], Str(r, line))
      BY <2>3, <3>1, SplitFacts
    <3> HIDE DEF tokens
    <3> SUFFICES ASSUME NEW i \in 1..2
                 PROVE  tokens[i] \in Spans /\ tokens[i].off + tokens[i].len <= size
      OBVIOUS
    <3>3. PICK t \in Spans : t = tokens[i] /\ t.off + t.len <= r + line
      BY <1>3, <2>3, <3>2 DEF Within
    <3>4. t.off \in Nat /\ t.len \in Nat
      BY <2>1
    <3> QED
      BY <2>1, <2>2, <3>3, <3>4
  <2> HIDE DEF tokens
  <2>5. ASSUME NEW i \in 1..2 PROVE trim(tokens[i]) \in Spans /\ Received(trim(tokens[i]))
    <3>1. PICK t \in Spans, u \in Spans :
            t = trim(tokens[i]) /\ u = tokens[i] /\ Within(t, u) /\ u.off + u.len <= size
      BY <2>4, TrimFacts
    <3>2. t.off \in Nat /\ t.len \in Nat /\ u.off \in Nat /\ u.len \in Nat
      BY <2>1
    <3>3. size \in Nat /\ t.off + t.len <= u.off + u.len /\ u.off + u.len <= size
      BY <2>1, <3>1 DEF Within
    <3>4. t.off + t.len <= size
      BY <3>2, <3>3
    <3> QED
      BY <3>1, <3>4 DEF Received
  <2>6. PICK h \in [key : Spans, val : Spans] : h = header /\ Received(h.key) /\ Received(h.val)
    <3>1. PICK k \in Spans, v \in Spans :
            k = trim(tokens[1]) /\ v = trim(tokens[2]) /\ Received(k) /\ Received(v)
      BY <2>5
    <3>2. header = [key |-> k, val |-> v]
      BY <3>1
    <3> HIDE DEF header
    <3>3. header \in [key : Spans, val : Spans] /\ header.key = k /\ header.val = v
      BY <3>2
    <3> QED
      BY <3>1, <3>3
  <2> HIDE DEF header
  <2>7. PICK hs \in Seq([key : Spans, val : Spans]) :
          /\ hs = Append(req.headers, h) /\ Len(hs) = Len(req.headers) + 1
          /\ \A i \in 1..Len(hs) : (i <= Len(req.headers) /\ hs[i] = req.headers[i]) \/ hs[i] = h
    <3>1. PICK H : H = [key : Spans, val : Spans]
      OBVIOUS
    <3>2. PICK old \in Seq(H) : old = req.headers
      BY <2>1, <3>1
    <3>3. h \in H
      BY <3>1
    <3>4. /\ Append(old, h) \in Seq(H) /\ Len(Append(old, h)) = Len(old) + 1
          /\ \A i \in 1..(Len(old) + 1) :
               (i <= Len(old) /\ Append(old, h)[i] = old[i]) \/ Append(old, h)[i] = h
      BY <3>3
    <3> QED
      BY <3>1, <3>2, <3>4
  <2>8. req' = [req EXCEPT !.read_bytes = r + line, !.headers = hs] /\ UNCHANGED <<pc, keep, mishaps>>
    BY <1>3, <2>6, <2>7 DEF Parsed
  <2>9. /\ req' \in Requests /\ req'.headers = hs /\ req'.read_bytes = r + line /\ req'.uri = req.uri
    <3>1. PICK n \in Nat : n = r + line
      BY <2>1, <2>2
    <3>2. PICK H : H = Seq([key : Spans, val : Spans])
      OBVIOUS
    <3>3. hs \in H /\ req' = [req EXCEPT !.read_bytes = n, !.headers = hs]
      BY <2>8, <3>1, <3>2
    <3>4. req \in [state : {"INIT", "HEADERS", "BODY"}, read_bytes : Nat, method : Methods,
                  version : Versions, uri : Spans, headers : H, body : Bodies]
      BY <2>1, <3>2 DEF Requests
    <3>5. /\ req' \in [state : {"INIT", "HEADERS", "BODY"}, read_bytes : Nat, method : Methods,
                      version : Versions, uri : Spans, headers : H, body : Bodies]
          /\ req'.headers = hs /\ req'.read_bytes = n /\ req'.uri = req.uri
      BY <3>3, <3>4
    <3> QED
      BY <3>1, <3>2, <3>5 DEF Requests
  <2>10. pc = "parse" /\ UNCHANGED <<bufVars, peerVars, store>>
    BY <1>1 DEF Parsing
  <2>11. /\ pc' \in {"read", "parse", "closed"} /\ keep' \in BOOLEAN
         /\ mishaps' \subseteq {"headers", "stray", "length", "push"}
    BY <2>8, <2>10 DEF RequestInv, TypeOK
  <2>12. Len(req'.headers) <= MAX_HEADERS
    <3>1. Len(req.headers) < MAX_HEADERS /\ MAX_HEADERS \in Nat
      BY <1>1, RequestAssumption DEF HeaderRoom
    <3> QED
      BY <2>1, <2>7, <2>9, <3>1
  <2>13. Received(req'.uri) /\ req'.read_bytes <= size
    BY <2>2, <2>9 DEF RequestInv
  <2>14. \A i \in 1..Len(req'.headers) : Received(req'.headers[i].key) /\ Received(req'.headers[i].val)
    <3> SUFFICES ASSUME NEW i \in 1..Len(hs) PROVE Received(hs[i].key) /\ Received(hs[i].val)
      BY <2>9
    <3>1. CASE i <= Len(req.headers) /\ hs[i] = req.headers[i]
      <4>1. i \in 1..Len(req.headers)
        BY <2>1, <2>7, <3>1
      <4> QED
        BY <3>1, <4>1 DEF RequestInv
    <3>2. CASE hs[i] = h
      BY <2>6, <3>2
    <3> QED
      BY <2>7, <3>1, <3>2
  <2> QED
    BY <2>9, <2>10, <2>11, <2>12, <2>13, <2>14, InvParsing
<1> QED
  BY <1>1, <1>2, <1>3

(* The end of the headers: the body may begin two cells behind what was received, and its  *)
(* length is a number.                                                                     *)
LEMMA InvHeadersDone == ASSUME RequestInv, HeadersDone PROVE RequestInv'
<1> DEFINE full == ~HeaderRoom
           r == IF full THEN req.read_bytes ELSE req.read_bytes + 2
           found == ContentLengths # {}
           announced == IF found THEN strtol(req.headers[Min(ContentLengths)].val.off) ELSE 0
           len == ToInt(announced)
<1>1. /\ Parsing("HEADERS")
      /\ \/ len > MAX_BODY /\ BadRequest
         \/ /\ len <= MAX_BODY
            /\ req' = [req EXCEPT !.state = "BODY", !.read_bytes = r,
                                  !.body = IF found THEN Str(r, len) ELSE @]
            /\ mishaps' = mishaps \cup (IF full THEN {"headers"} ELSE {})
                                  \cup (IF r > size THEN {"stray"} ELSE {})
                                  \cup (IF announced \in 0..MAX_BODY THEN {} ELSE {"length"})
            /\ UNCHANGED <<pc, keep>>
  BY DEF HeadersDone
<1>2. CASE BadRequest
  BY <1>1, <1>2, InvUnparsed
<1>3. CASE /\ len <= MAX_BODY
           /\ req' = [req EXCEPT !.state = "BODY", !.read_bytes = r,
                                 !.body = IF found THEN Str(r, len) ELSE @]
           /\ mishaps' = mishaps \cup (IF full THEN {"headers"} ELSE {})
                                 \cup (IF r > size THEN {"stray"} ELSE {})
                                 \cup (IF announced \in 0..MAX_BODY THEN {} ELSE {"length"})
           /\ UNCHANGED <<pc, keep>>
  <2>1. /\ TypeOK /\ IsSeq(data) /\ Len(data) \in Nat /\ size \in Nat /\ size <= Len(data)
        /\ req \in Requests /\ req.read_bytes \in Nat /\ Len(req.headers) \in Nat
        /\ req.body \in Bodies
        /\ \A i \in 1..Len(req.headers) : req.headers[i].val \in Spans
        /\ \A s \in Spans : s.off \in Nat /\ s.len \in Nat
    BY BufferFacts DEF RequestInv
  <2>2. r \in Nat
    BY <2>1
  <2>3. announced \in Int
    <3>1. CASE found
      <4>1. ContentLengths \in SUBSET Nat /\ ContentLengths \subseteq 1..Len(req.headers)
        BY <2>1 DEF ContentLengths
      <4>2. PICK i \in 1..Len(req.headers) : i = Min(ContentLengths)
        BY <3>1, <4>1, MinFacts
      <4>3. PICK v \in Spans : v = req.headers[i].val /\ v.off + v.len <= size
        BY <2>1 DEF RequestInv, Received
      <4>4. v.off \in Nat /\ v.off <= Len(data)
        <5>1. v.off \in Nat /\ v.len \in Nat
          BY <2>1
        <5> QED
          BY <2>1, <4>3, <5>1
      <4>5. strtol(v.off) \in Int
        BY <2>1, <4>4, StrtolFacts
      <4> QED
        BY <3>1, <4>2, <4>3, <4>5
    <3>2. CASE ~found
      BY <3>2
    <3> QED
      BY <3>1, <3>2
  <2> HIDE DEF announced
  <2>13. len \in -(INT_MAX + 1)..MAX_BODY
    BY <1>3, <2>3, CutFacts, RequestAssumption
  <2> HIDE DEF r, len
  <2>4. PICK b \in Bodies :
          b = IF found THEN Str(r, len) ELSE req.body
    BY <2>1, <2>2, <2>13 DEF Str, Bodies
  <2>5. req' = [req EXCEPT !.state = "BODY", !.read_bytes = r, !.body = b]
    BY <1>3, <2>4
  <2>6. /\ req' \in Requests /\ req'.headers = req.headers /\ req'.uri = req.uri /\ req'.state = "BODY"
    BY <2>1, <2>2, <2>5 DEF Requests
  <2>7. pc = "parse" /\ UNCHANGED <<bufVars, peerVars, store>>
    BY <1>1 DEF Parsing
  <2>8. pc' \in {"read", "parse", "closed"} /\ keep' \in BOOLEAN
    BY <1>3, <2>7 DEF RequestInv, TypeOK
  <2>9. mishaps' \subseteq {"headers", "stray", "length", "push"}
    BY <1>3 DEF RequestInv, TypeOK
  <2>10. Len(req'.headers) <= MAX_HEADERS /\ Received(req'.uri)
    BY <2>6 DEF RequestInv, TypeOK
  <2>11. \A i \in 1..Len(req'.headers) : Received(req'.headers[i].key) /\ Received(req'.headers[i].val)
    BY <2>6 DEF RequestInv
  <2>12. ~(req'.state = "HEADERS")
    BY <2>6
  <2> QED
    BY <2>6, <2>7, <2>8, <2>9, <2>10, <2>11, <2>12, InvParsing
<1> QED
  BY <1>1, <1>2, <1>3

(* parse_request hands the request on only when all of the body has been received. *)
LEMMA InvParseBody == ASSUME RequestInv, ParseBody PROVE RequestInv'
<1>1. /\ TypeOK /\ size \in Nat /\ req \in Requests /\ req.read_bytes \in Nat
      /\ req.body.off \in Nat /\ req.body.len \in Int
  BY BufferFacts DEF RequestInv
<1>2. /\ pc = "parse" /\ req.state = "BODY" /\ UNCHANGED <<bufVars, peerVars, store, mishaps>>
  BY DEF ParseBody, Parsing
<1>3. PICK n \in Nat : req' = [req EXCEPT !.read_bytes = n]
  BY <1>1 DEF ParseBody
<1>4. /\ req' \in Requests /\ req'.headers = req.headers /\ req'.uri = req.uri /\ req'.body = req.body
      /\ req'.state = "BODY"
  BY <1>1, <1>2, <1>3 DEF Requests
<1>5. pc' = IF BodyReceived(req.body) THEN "route" ELSE "read"
  BY DEF ParseBody
<1>6. keep' \in BOOLEAN
  BY DEF ParseBody, RequestInv, TypeOK
<1>7. pc' = "route" /\ req'.body.len > 0 => Received(req.body)'
  BY <1>1, <1>2, <1>4, <1>5 DEF BodyReceived, Received
<1>8. TypeOK'
  BY <1>1, <1>2, <1>4, <1>5, <1>6 DEF TypeOK
<1>9. /\ Received(req.uri)'
      /\ \A i \in 1..Len(req'.headers) : Received(req.headers[i].key)' /\ Received(req.headers[i].val)'
  BY <1>2, <1>4 DEF RequestInv, Received
<1>10. size + READ_CHUNK <= Len(data) /\ size' + READ_CHUNK <= Len(data')
  BY <1>2 DEF RequestInv
<1> QED
  BY <1>4, <1>5, <1>7, <1>8, <1>9, <1>10 DEF RequestInv

(* Short sequences *)
LEMMA ShortSeqs ==
  /\ IsSeq(<<>>)
  /\ \A x : IsSeq(<<x>>)
  /\ \A x, y : IsSeq(<<x, y>>)
  /\ \A x, y, z : IsSeq(<<x, y, z>>)
  /\ \A w, x, y, z : IsSeq(<<w, x, y, z>>)
<1>1. IsSeq(<<>>)
  <2>1. <<>> \in Seq({})
    OBVIOUS
  <2> QED
    BY <2>1, SeqIsSeq
<1>2. ASSUME NEW x PROVE IsSeq(<<x>>)
  <2>1. <<x>> \in Seq({x})
    OBVIOUS
  <2> QED
    BY <2>1, SeqIsSeq
<1>3. ASSUME NEW x, NEW y PROVE IsSeq(<<x, y>>)
  <2>1. <<x, y>> \in Seq({x, y})
    OBVIOUS
  <2> QED
    BY <2>1, SeqIsSeq
<1>4. ASSUME NEW x, NEW y, NEW z PROVE IsSeq(<<x, y, z>>)
  <2>1. <<x, y, z>> \in Seq({x, y, z})
    OBVIOUS
  <2> QED
    BY <2>1, SeqIsSeq
<1>5. ASSUME NEW w, NEW x, NEW y, NEW z PROVE IsSeq(<<w, x, y, z>>)
  <2>1. <<w, x, y, z>> \in Seq({w, x, y, z})
    OBVIOUS
  <2> QED
    BY <2>1, SeqIsSeq
<1> QED
  BY <1>1, <1>2, <1>3, <1>4, <1>5

(* The database as the callbacks see it: a sequence of pastes, which are sequences. *)
Pastes(pastes) == IsSeq(pastes) /\ \A i \in 1..Len(pastes) : IsSeq(pastes[i])

(* db_insert of one more paste. *)
LEMMA AppendPaste ==
  ASSUME NEW pastes, Pastes(pastes), NEW paste, IsSeq(paste)
  PROVE  Pastes(Append(pastes, paste))
<1>1. PICK S : S = ToSet(pastes) \cup {paste}
  OBVIOUS
<1>2. pastes \in Seq(S) /\ paste \in S
  BY <1>1, IsSeqOver DEF Pastes
<1>3. /\ Append(pastes, paste) \in Seq(S) /\ Len(pastes) \in Nat
      /\ Len(Append(pastes, paste)) = Len(pastes) + 1
      /\ \A i \in 1..Len(pastes) : Append(pastes, paste)[i] = pastes[i]
      /\ Append(pastes, paste)[Len(pastes) + 1] = paste
  BY <1>2
<1>4. IsSeq(Append(pastes, paste))
  BY <1>3, SeqIsSeq
<1>5. ASSUME NEW i \in 1..Len(Append(pastes, paste)) PROVE IsSeq(Append(pastes, paste)[i])
  <2>1. CASE i \in 1..Len(pastes)
    BY <1>3, <2>1 DEF Pastes
  <2>2. CASE i = Len(pastes) + 1
    BY <1>3, <2>2
  <2> QED
    BY <1>3, <2>1, <2>2
<1> QED
  BY <1>4, <1>5 DEF Pastes

(* What a callback answers, and the pastes it leaves, are read from inside the buffer and  *)
(* from the database.                                                                      *)
LEMMA AnswerFacts ==
  ASSUME RequestInv, pc = "route", NEW a \in Answers
  PROVE  IsSeq(a.body) /\ Pastes(a.store)
<1>1. /\ TypeOK /\ IsSeq(data) /\ Len(data) \in Nat /\ size \in Nat /\ size <= Len(data)
      /\ READ_CHUNK \in Nat /\ READ_CHUNK >= 2
      /\ req.uri.off \in Nat /\ req.uri.len \in Nat /\ req.body.off \in Nat /\ req.body.len \in Int
  BY BufferFacts DEF RequestInv
<1>2. Pastes(store) /\ Len(store) \in Nat
  BY <1>1, IsSeqFacts DEF TypeOK, Pastes
<1>3. ASSUME NEW status, NEW body, NEW pastes, a = Answer(status, body, pastes), IsSeq(body), Pastes(pastes)
      PROVE  IsSeq(a.body) /\ Pastes(a.store)
  BY <1>3 DEF Answer
<1>4. CASE a \in index_callback
  <2>1. a = Answer("200", <<"index">>, store)
    BY <1>4 DEF index_callback
  <2> QED
    BY <1>2, <1>3, <2>1, ShortSeqs
<1>5. CASE a \in get_callback
  <2>1. PICK id : id = strtoull(req.uri.off + 1)
    OBVIOUS
  <2>2. id \in Nat
    <3>1. req.uri.off + 1 \in Nat /\ req.uri.off + 1 <= Len(data)
      BY <1>1 DEF RequestInv, Received
    <3> QED
      BY <1>1, <2>1, <3>1, StrtoullFacts
  <2>3. \/ a = Answer("404", <<>>, store)
        \/ a = Answer("404", <<"missing">>, store)
        \/ id < Len(store) /\ a = Answer("200", store[id + 1], store)
    <3>1. get_callback \subseteq {Answer("404", <<>>, store), Answer("404", <<"missing">>, store)}
            \cup (IF id < Len(store) THEN {Answer("200", store[id + 1], store)} ELSE {})
      BY <2>1, Zenon DEF get_callback
    <3> QED
      BY <1>5, <3>1
  <2>4. id < Len(store) => IsSeq(store[id + 1])
    <3>1. id < Len(store) => id + 1 \in 1..Len(store)
      BY <1>2, <2>2
    <3> QED
      BY <1>2, <3>1 DEF Pastes
  <2> QED
    BY <1>2, <1>3, <2>3, <2>4, ShortSeqs
<1>6. CASE a \in post_callback
  <2>1. CASE req.body.len = 0
    <3>1. a = Answer("400", <<"empty">>, store)
      BY <1>6, <2>1 DEF post_callback
    <3> QED
      BY <1>2, <1>3, <3>1, ShortSeqs
  <2>2. CASE req.body.len # 0
    <3>1. CASE InBuffer(Paste) /\ a = Answer("200", ToDigits(Len(store)), Append(store, Text(Paste)))
      <4>1. Paste.off \in Nat /\ Paste.len \in Nat
        BY <1>1, CutFacts DEF Paste, Str
      <4>2. /\ Paste.off + 1 \in Nat /\ Paste.off + 1 >= 1
            /\ Paste.off + Paste.len \in Nat /\ Paste.off + Paste.len <= Len(data)
        BY <1>1, <3>1, <4>1 DEF InBuffer
      <4>3. IsSeq(SubSeq(data, Paste.off + 1, Paste.off + Paste.len))
        BY <1>1, <4>2, SubSeqIsSeq
      <4>4. IsSeq(Text(Paste))
        BY <4>3 DEF Text
      <4>5. IsSeq(ToDigits(Len(store))) /\ Pastes(Append(store, Text(Paste)))
        BY <1>2, <4>4, ShortSeqs, AppendPaste DEF ToDigits
      <4> QED
        BY <1>3, <3>1, <4>5
    <3>2. CASE a = Answer("500", <<>>, store)
      BY <1>2, <1>3, <3>2, ShortSeqs
    <3> QED
      BY <1>6, <2>2, <3>1, <3>2 DEF post_callback
  <2> QED
    BY <2>1, <2>2
<1>7. CASE a = Answer("404", <<>>, store)
  BY <1>2, <1>3, <1>7, ShortSeqs
<1>8. \/ a \in index_callback \/ a \in get_callback \/ a \in post_callback \/ a = Answer("404", <<>>, store)
  BY DEF Answers
<1> QED
  BY <1>4, <1>5, <1>6, <1>7, <1>8

(* send_response pushes sequences of cells. *)
LEMMA PiecesFacts ==
  ASSUME NEW a, IsSeq(a.body)
  PROVE  IsSeq(Pieces(a)) /\ \A i \in 1..Len(Pieces(a)) : IsSeq(Pieces(a)[i])
<1>1. PICK s1 : s1 = <<req.version, " ", a.status>> \o CRLF /\ IsSeq(s1)
  BY ShortSeqs, ConcatIsSeq DEF CRLF
<1>2. PICK s2 : s2 = <<"Connection", ":", " ", "x">> \o CRLF /\ IsSeq(s2)
  BY ShortSeqs, ConcatIsSeq DEF CRLF
<1>3. PICK s3 : s3 = <<"Keep-Alive", ":", " ", "x">> \o CRLF /\ IsSeq(s3)
  BY ShortSeqs, ConcatIsSeq DEF CRLF
<1>4. PICK s4 : s4 = <<"Content-Length", ":", " ">> \o ToDigits(Len(a.body)) \o CRLF \o CRLF /\ IsSeq(s4)
  <2>1. IsSeq(<<"Content-Length", ":", " ">>) /\ IsSeq(ToDigits(Len(a.body))) /\ IsSeq(CRLF)
    BY ShortSeqs DEF CRLF, ToDigits
  <2>2. IsSeq(<<"Content-Length", ":", " ">> \o ToDigits(Len(a.body)))
    BY <2>1, ConcatIsSeq
  <2>3. IsSeq(<<"Content-Length", ":", " ">> \o ToDigits(Len(a.body)) \o CRLF)
    BY <2>1, <2>2, ConcatIsSeq
  <2>4. IsSeq(<<"Content-Length", ":", " ">> \o ToDigits(Len(a.body)) \o CRLF \o CRLF)
    BY <2>1, <2>3, ConcatIsSeq
  <2> QED
    BY <2>4
<1>5. PICK Q : Q = {s1, s2, s3, s4, a.body}
  OBVIOUS
<1>6. \A s \in Q : IsSeq(s)
  BY <1>1, <1>2, <1>3, <1>4, <1>5
<1>7. PICK p \in Seq(Q) : p = Pieces(a)
  <2>1. <<s1>> \in Seq(Q) /\ <<s2, s3>> \in Seq(Q) /\ <<>> \in Seq(Q) /\ <<s4, a.body>> \in Seq(Q)
    BY <1>5
  <2>2. PICK k \in Seq(Q) : k = IF keep THEN <<s2, s3>> ELSE <<>>
    BY <2>1
  <2>3. <<s1>> \o k \o <<s4, a.body>> \in Seq(Q)
    BY <2>1, <2>2
  <2>4. Pieces(a) = <<s1>> \o k \o <<s4, a.body>>
    BY <1>1, <1>2, <1>3, <1>4, <2>2, Zenon DEF Pieces
  <2> QED
    BY <2>3, <2>4
<1>8. IsSeq(p) /\ \A i \in 1..Len(p) : p[i] \in Q
  BY SeqIsSeq
<1> QED
  BY <1>6, <1>7, <1>8

(* The response replaces the request in the buffer, and no offset outlives it. *)
LEMMA InvRespond == ASSUME RequestInv, Respond PROVE RequestInv'
<1>1. TypeOK /\ IsSeq(data) /\ pc = "route"
  BY DEF Respond, RequestInv, TypeOK
<1>2. PICK a \in Answers : \E lost :
        LET b == Pushed(Pieces(a), Len(Pieces(a)), lost) IN
        /\ store' = a.store /\ data' = b.data /\ size' = b.size
        /\ mishaps' = mishaps \cup (IF lost = {} THEN {} ELSE {"push"})
  BY DEF Respond
<1>3. PICK p : p = Pieces(a) /\ IsSeq(p) /\ Len(p) \in Nat /\ \A i \in 1..Len(p) : IsSeq(p[i])
  BY <1>1, AnswerFacts, PiecesFacts, IsSeqFacts
<1>4. PICK lost : /\ store' = a.store /\ data' = Pushed(p, Len(p), lost).data
                  /\ size' = Pushed(p, Len(p), lost).size
                  /\ mishaps' = mishaps \cup (IF lost = {} THEN {} ELSE {"push"})
  BY <1>2, <1>3
<1>5. IsSeq(data)' /\ size' \in 0..Len(data') /\ size' \in Nat
  BY <1>1, <1>3, <1>4, PushedFacts
<1>6. IsSeq(store)' /\ \A i \in 1..Len(store') : IsSeq(store[i])'
  BY <1>1, <1>4, AnswerFacts DEF Pastes
<1>7. req' = NoRequest /\ pc' = "answered" /\ UNCHANGED <<junk, keep, peerVars>>
  BY DEF Respond
<1>8. req' \in Requests /\ Len(req'.headers) = 0 /\ Len(req'.headers) <= MAX_HEADERS
  BY <1>7, NoRequestFacts, RequestAssumption
<1>9. mishaps' \subseteq {"headers", "stray", "length", "push"}
  BY <1>1, <1>4 DEF TypeOK
<1>10. TypeOK'
  BY <1>1, <1>5, <1>6, <1>7, <1>8, <1>9 DEF TypeOK
<1>11. Received(req.uri)' /\ ~(req'.state = "HEADERS")
  BY <1>5, <1>7, NoRequestFacts DEF Received
<1> QED
  BY <1>7, <1>8, <1>10, <1>11 DEF RequestInv

(* A body of a positive length is as long as a uint32_t, and was received. *)
LEMMA InvReadBehind == ASSUME RequestInv, ReadBehind PROVE RequestInv'
<1>1. /\ TypeOK /\ Len(data) \in Nat /\ size \in Nat /\ size <= Len(data)
      /\ req.body.off \in Nat /\ req.body.len \in Int /\ req.body.len <= INT_MAX
  <2>1. PICK b \in Bodies : b = req.body
    BY BufferFacts DEF RequestInv
  <2> QED
    BY <2>1, BufferFacts DEF RequestInv
<1>2. /\ pc = "route" /\ pc' = "crashed" /\ req.body.len # 0 /\ ~InBuffer(Paste)
      /\ UNCHANGED <<bufVars, req, keep, peerVars, store, mishaps>>
  BY DEF ReadBehind
<1>3. req.body.len < 0
  <2> SUFFICES ASSUME req.body.len > 0 PROVE FALSE
    BY <1>1, <1>2
  <2>1. ToUint32(req.body.len) = req.body.len
    <3>1. PICK l \in 0..INT_MAX : l = req.body.len
      BY <1>1, RequestAssumption
    <3> QED
      BY <3>1, CutFacts
  <2>2. req.body.off + req.body.len <= size
    BY <1>2 DEF RequestInv, Received
  <2> QED
    BY <1>1, <1>2, <2>1, <2>2 DEF InBuffer, Paste, Str
<1>4. TypeOK'
  BY <1>1, <1>2 DEF TypeOK, bufVars, peerVars
<1> QED
  BY <1>2, <1>3, <1>4 DEF RequestInv, Received, bufVars, peerVars

(* A connection that is kept begins its next request with an empty buffer and no offsets. *)
LEMMA InvSent == ASSUME RequestInv, Sent PROVE RequestInv'
<1>1. /\ TypeOK /\ pc = "answered" /\ req = NoRequest /\ UNCHANGED <<data, junk, req, keep, store, mishaps>>
  BY DEF Sent, RequestInv
<1>2. Len(data) \in Nat
  BY <1>1, BufferFacts
<1>3. CASE /\ keep /\ count < MaxRequests
           /\ size' = 0 /\ pc' = "read" /\ count' = count + 1
           /\ \E m \in Messages : msg' = m /\ input' = input \o Encode(m)
  <2>1. IsSeq(input)' /\ msg' \in Messages
    <3>1. PICK m \in Messages : msg' = m /\ input' = input \o Encode(m)
      BY <1>3
    <3>2. IsSeq(input) /\ IsSeq(Encode(m))
      BY <1>1, MessagesAssumption DEF TypeOK
    <3>3. IsSeq(input \o Encode(m))
      BY <3>2, ConcatIsSeq
    <3> QED
      BY <3>1, <3>3
  <2>2. count' \in 1..MaxRequests
    BY <1>1, <1>3, RequestAssumption DEF TypeOK
  <2>3. TypeOK'
    BY <1>1, <1>2, <1>3, <2>1, <2>2 DEF TypeOK
  <2>4. Received(req.uri)' /\ ~(req'.state = "HEADERS") /\ Len(req'.headers) = 0
    BY <1>1, <1>3, NoRequestFacts DEF Received
  <2> QED
    BY <1>3, <2>3, <2>4 DEF RequestInv
<1>4. CASE pc' = "closed" /\ UNCHANGED <<size, peerVars>>
  <2>1. TypeOK'
    BY <1>1, <1>4 DEF TypeOK
  <2> QED
    BY <1>1, <1>4, <2>1 DEF RequestInv, Received
<1> QED
  BY <1>3, <1>4 DEF Sent

(* One case per action. *)
LEMMA RequestStep == RequestInv /\ [Next]_vars => RequestInv'
<1> SUFFICES ASSUME RequestInv, [Next]_vars PROVE RequestInv'
  OBVIOUS
<1>1. ASSUME NEW k \in 1..READ_CHUNK, Recv(k) PROVE RequestInv'
  BY <1>1, InvRecv
<1>2. CASE RecvBlocks
  BY <1>2, InvRecvBlocks
<1>3. CASE RecvFails
  BY <1>3, InvRecvFails
<1>4. CASE ParseStatusLine
  BY <1>4, InvParseStatusLine
<1>5. CASE ParseHeader
  BY <1>5, InvParseHeader
<1>6. CASE HeadersDone
  BY <1>6, InvHeadersDone
<1>7. CASE ParseBody
  BY <1>7, InvParseBody
<1>8. CASE Respond
  BY <1>8, InvRespond
<1>9. CASE Sent
  BY <1>9, InvSent
<1>11. CASE ReadBehind
  BY <1>11, InvReadBehind
<1>10. CASE UNCHANGED vars
  BY <1>10 DEF vars, RequestInv, TypeOK, Received
<1> QED
  BY <1>1, <1>2, <1>3, <1>4, <1>5, <1>6, <1>7, <1>8, <1>9, <1>10, <1>11 DEF Next

----------------------------------------------------------------------------
(* The theorems *)

(* RequestInv holds in every state of the connection: whatever clients send and however it *)
(* is cut into segments, read_data has made room behind what was received before           *)
(* parse_request runs, and the offsets that the parser keeps in c->req point into what was *)
(* received until send_response overwrites it.                                             *)
THEOREM RequestInvariance == Spec => []RequestInv
<1>1. Init => RequestInv
  BY RequestInit
<1>2. RequestInv /\ [Next]_vars => RequestInv'
  BY RequestStep
<1> QED
  BY <1>1, <1>2, PTL DEF Spec

(* The buffer never has more cells in use than it has, the request never more headers than *)
(* req->headers has room for, and the parser keeps no negative offset.  Of the body's      *)
(* length no more is known than that it is an int and at most MAX_BODY.                    *)
THEOREM RequestTypes == Spec => []TypeOK
<1>1. RequestInv => TypeOK
  BY DEF RequestInv
<1> QED
  BY <1>1, RequestInvariance, PTL

(* The two cells that parse_headers compares with CR and LF and the URI that match_route   *)
(* and get_callback read are inside the buffer, and so is a body of a positive length,     *)
(* which was received.  post_callback leaves the buffer only if the length that            *)
(* Content-Length announced is negative as an int.                                         *)
THEOREM AlwaysInsideBuffer == Spec => []InsideBuffer
<1>1. RequestInv => InsideBuffer
  <2> SUFFICES ASSUME RequestInv PROVE InsideBuffer
    OBVIOUS
  <2>1. /\ Len(data) \in Nat /\ size \in Nat /\ READ_CHUNK \in Nat /\ READ_CHUNK >= 2
        /\ req.read_bytes \in Nat
    BY BufferFacts DEF RequestInv
  <2>2. pc = "parse" /\ req.state = "HEADERS" => req.read_bytes + 2 <= Len(data)
    BY <2>1 DEF RequestInv
  <2> QED
    BY <2>2 DEF InsideBuffer, RequestInv, Received
<1> QED
  BY <1>1, RequestInvariance, PTL
=============================================================================
