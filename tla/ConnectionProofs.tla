-------------------------- MODULE ConnectionProofs --------------------------
(***************************************************************************)
(* Proofs about Connection: the inductive invariant ConnInv and the        *)
(* properties it implies, for any finite set of connections, any length of *)
(* responses and socket buffers, and any of the faults.  They hold up to   *)
(* the first rbtree_delete of a timer's node with two children (pc =       *)
(* "torn"), which takes three timers; with two connections, always.        *)
(*                                                                         *)
(* ConnectionsWatched needs the listen queue: a socket that is accepted    *)
(* must not be a connection already, or it would be counted once and       *)
(* closed twice, hence BacklogInv.  CallbacksLive needs the two together:  *)
(* only what was ready is in a batch, only connections are ready, and the  *)
(* running callback never frees another connection.  NoLostWakeup speaks   *)
(* of one point of the loop and EdgesKept of every step: it says who has   *)
(* the obligation to look at a connection that is ready.                   *)
(***************************************************************************)
EXTENDS Connection, FiniteSetTheorems, SequenceTheorems, TLAPS

(* The groups of variables in UNCHANGED, and the states of a peer that reset. *)
USE DEF kernelVars, epollVars, connVars, loopVars, Reset

(* The count of the connections when one comes and when one goes. *)
LEMMA CountFacts ==
  ASSUME NEW S \in SUBSET Conns, NEW c \in Conns
  PROVE  /\ Cardinality(S) \in 0..Cardinality(Conns)
         /\ c \notin S => Cardinality(S \cup {c}) = Cardinality(S) + 1
         /\ c \in S => Cardinality(S \ {c}) = Cardinality(S) - 1
<1>1. IsFiniteSet(Conns) /\ IsFiniteSet(S)
  BY ConnectionAssumption, FS_Subset
<1>2. Cardinality(S) \in Nat /\ Cardinality(Conns) \in Nat
  BY <1>1, FS_CardinalityType
<1>3. Cardinality(S) <= Cardinality(Conns)
  BY <1>1, FS_Subset
<1>4. c \notin S => Cardinality(S \cup {c}) = Cardinality(S) + 1
  BY <1>1, FS_AddElement
<1>5. c \in S => Cardinality(S \ {c}) = Cardinality(S) - 1
  BY <1>1, FS_RemoveElement
<1> QED
  BY <1>2, <1>3, <1>4, <1>5

(* Counting a connection off and on again, as a size_t: only below zero does it wrap. *)
LEMMA SizeFacts ==
  ASSUME NEW n \in 0..SIZE_MAX
  PROVE  /\ (n - 1) % (SIZE_MAX + 1) \in 0..SIZE_MAX
         /\ n > 0 => (n - 1) % (SIZE_MAX + 1) = n - 1
         /\ (((n - 1) % (SIZE_MAX + 1)) + 1) % (SIZE_MAX + 1) = n
<1>1. SIZE_MAX \in Nat
  BY ConnectionAssumption
<1>2. CASE n > 0
  <2>1. n - 1 \in 0..SIZE_MAX /\ (n - 1) % (SIZE_MAX + 1) = n - 1
    BY <1>1, <1>2
  <2>2. n % (SIZE_MAX + 1) = n
    BY <1>1
  <2> QED
    BY <1>1, <1>2, <2>1, <2>2
<1>3. CASE n = 0
  <2>1. (-1) % (SIZE_MAX + 1) = SIZE_MAX
    BY <1>1
  <2>2. (SIZE_MAX + 1) % (SIZE_MAX + 1) = 0
    BY <1>1
  <2> QED
    BY <1>1, <1>3, <2>1, <2>2
<1> QED
  BY <1>2, <1>3

(* A queue to which something was appended is not empty. *)
LEMMA AppendNonempty ==
  ASSUME NEW S, NEW s \in Seq(S), NEW e \in S
  PROVE  Append(s, e) # <<>>
BY AppendProperties

(* A connection as begin_read leaves it. *)
LEMMA ReadingConnection ==
  ASSUME NEW keep \in BOOLEAN
  PROVE  [NoConn EXCEPT !.keep = keep] \in Connections /\ [NoConn EXCEPT !.keep = keep].state = "IN"
BY ConnectionAssumption DEF NoConn, Connections

(* A connection as send_response and begin_send leave it. *)
LEMMA SendingConnection ==
  ASSUME NEW keep \in BOOLEAN
  PROVE  /\ [send_response(keep) EXCEPT !.state = "OUT"] \in Connections
         /\ [send_response(keep) EXCEPT !.state = "OUT"].state = "OUT"
<1>1. NoConn \in [state : {"IN", "OUT"}, keep : BOOLEAN,
                  buf : {"empty", "head", "done", "bad"}, left : 0..RespLen]
  BY ConnectionAssumption DEF NoConn
<1>2. RespLen \in 0..RespLen
  BY ConnectionAssumption
<1>3. send_response(keep) \in Connections
  BY <1>1, <1>2 DEF Connections, send_response
<1> QED
  BY <1>3 DEF Connections

(* What reset_connection and the add_event after it do to the connection they are for,     *)
(* and that they leave the others alone.                                                   *)
Armed(c, watch) ==
  /\ reg' \in [Conns -> {"none", "IN", "OUT"}] /\ ready' \subseteq Conns \cup {LISTEN}
  /\ timer' \in [Conns -> {"off", "armed", "due"}] /\ conn' \in [Conns -> Connections]
  /\ reg'[c] = watch /\ timer'[c] = "armed" /\ conn'[c].state = watch
  /\ c \in ready' <=> Level(c, watch)
  /\ \A d \in Conns \ {c} :
       /\ reg'[d] = reg[d] /\ timer'[d] = timer[d] /\ conn'[d] = conn[d]
       /\ d \in ready' <=> d \in ready

(* What Armed says holds after any registration. *)
LEMMA ArmFacts ==
  ASSUME TypeOK, NEW c \in Conns, NEW watch \in {"IN", "OUT"}, NEW r \in Connections,
         r.state = watch,
         timer' = Rearmed(c), conn' = [conn EXCEPT ![c] = r], Rearm(c, watch)
  PROVE  Armed(c, watch)
<1>1. timer' \in [Conns -> {"off", "armed", "due"}] /\ conn' \in [Conns -> Connections]
  BY DEF TypeOK, Rearmed
<1>2. reg' \in [Conns -> {"none", "IN", "OUT"}] /\ ready' \subseteq Conns \cup {LISTEN}
  BY DEF TypeOK, Rearm
<1> QED
  BY <1>1, <1>2 DEF Armed, TypeOK, Rearm, Rearmed

(* begin_read *)
LEMMA BeginReadFacts ==
  ASSUME TypeOK, NEW c \in Conns, NEW keep \in BOOLEAN, begin_read(c, keep)
  PROVE  Armed(c, "IN")
BY ArmFacts, ReadingConnection DEF begin_read

(* send_response and begin_send *)
LEMMA BeginSendFacts ==
  ASSUME TypeOK, NEW c \in Conns, NEW keep \in BOOLEAN, begin_send(c, send_response(keep))
  PROVE  Armed(c, "OUT")
BY ArmFacts, SendingConnection DEF begin_send

(* The invariant holds before the first connection. *)
LEMMA ConnInit == Init => ConnInv
<1> SUFFICES ASSUME Init PROVE ConnInv
  OBVIOUS
<1>1. TypeOK
  <2>1. num_conns \in 0..SIZE_MAX
    BY ConnectionAssumption DEF Init
  <2>2. NoConn \in Connections
    BY ConnectionAssumption DEF NoConn, Connections
  <2> QED
    BY <2>1, <2>2, ConnectionAssumption DEF TypeOK, Init
<1>2. ConnectionsWatched
  BY FS_EmptySet DEF Init, ConnectionsWatched
<1>3. CallbacksLive /\ BacklogInv /\ EdgesKept
  BY DEF Init, CallbacksLive, BacklogInv, EdgesKept
<1> QED
  BY <1>1, <1>2, <1>3 DEF ConnInv

(* A peer connects: its socket joins the listen queue, where it was not before. *)
LEMMA KeepConnect ==
  ASSUME ConnInv, NEW c \in Conns, Connect(c)
  PROVE  ConnInv'
<1> USE ConnectionAssumption DEF ConnInv, Connect
<1>1. TypeOK'
  BY DEF TypeOK
<1>2. ConnectionsWatched'
  BY DEF TypeOK, ConnectionsWatched
<1>3. CallbacksLive'
  BY DEF TypeOK, CallbacksLive, BacklogInv, Level
<1>4. BacklogInv'
  <2>1. /\ backlog \in Seq(Conns) /\ Len(backlog) \in Nat /\ Len(backlog') = Len(backlog) + 1
        /\ \A i \in 1..Len(backlog) : backlog'[i] = backlog[i]
        /\ backlog'[Len(backlog) + 1] = c
    BY AppendProperties DEF TypeOK
  <2>2. c \notin conns /\ \A i \in 1..Len(backlog) : backlog[i] # c
    BY DEF BacklogInv
  <2>3. ASSUME NEW i \in 1..Len(backlog')
        PROVE  i \in 1..Len(backlog) \/ i = Len(backlog) + 1
    BY <2>1
  <2>4. \A d \in Conns : peer[d] # "none" => peer'[d] # "none"
    BY DEF TypeOK
  <2>5. \A i \in 1..Len(backlog) : backlog[i] \in Conns
    BY DEF TypeOK
  <2>6. \A i, j \in 1..Len(backlog') : backlog'[i] = backlog'[j] => i = j
    BY <2>1, <2>2, <2>3 DEF BacklogInv
  <2>7. \A i \in 1..Len(backlog') : peer'[backlog'[i]] # "none" /\ backlog'[i] \notin conns'
    <3> SUFFICES ASSUME NEW i \in 1..Len(backlog')
                 PROVE  peer'[backlog'[i]] # "none" /\ backlog'[i] \notin conns'
      OBVIOUS
    <3>1. CASE i \in 1..Len(backlog)
      BY <2>1, <2>4, <2>5, <3>1 DEF BacklogInv
    <3>2. CASE i = Len(backlog) + 1
      BY <2>1, <2>2, <3>2 DEF TypeOK
    <3> QED
      BY <2>3, <3>1, <3>2
  <2>8. backlog' # <<>> /\ \A d \in conns' : peer'[d] # "none"
    <3>1. backlog' # <<>>
      BY AppendNonempty DEF TypeOK
    <3> QED
      BY <2>4, <3>1 DEF BacklogInv, TypeOK
  <2> QED
    BY <2>6, <2>7, <2>8 DEF BacklogInv
<1>5. EdgesKept'
  BY DEF TypeOK, BacklogInv, EdgesKept, Level
<1> QED
  BY <1>1, <1>2, <1>3, <1>4, <1>5

(* A segment arrives: an edge for a connection that is being read. *)
LEMMA KeepPeerSend ==
  ASSUME ConnInv, NEW c \in Conns, PeerSend(c)
  PROVE  ConnInv'
<1> USE ConnectionAssumption DEF ConnInv, PeerSend, Edge
<1>1. TypeOK'
  BY DEF TypeOK
<1>2. ConnectionsWatched'
  BY DEF TypeOK, ConnectionsWatched
<1>3. CallbacksLive'
  <2>1. rcv'[c] # <<>> /\ \A d \in Conns : d # c => rcv'[d] = rcv[d]
    BY AppendNonempty, SMTT(30) DEF TypeOK
  <2>2. \A d \in Conns : Level(d, reg[d]) => Level(d, reg[d])'
    BY <2>1 DEF Level
  <2> QED
    BY <2>2 DEF TypeOK, CallbacksLive
<1>4. BacklogInv'
  BY DEF TypeOK, BacklogInv
<1>5. EdgesKept'
  BY DEF TypeOK, BacklogInv, EdgesKept, Level
<1> QED
  BY <1>1, <1>2, <1>3, <1>4, <1>5

(* A peer closes its side. *)
LEMMA KeepPeerFin ==
  ASSUME ConnInv, NEW c \in Conns, PeerFin(c)
  PROVE  ConnInv'
<1> USE ConnectionAssumption DEF ConnInv, PeerFin, Edge
<1>1. TypeOK'
  BY DEF TypeOK
<1>2. ConnectionsWatched'
  BY DEF TypeOK, ConnectionsWatched
<1>3. CallbacksLive'
  BY DEF TypeOK, CallbacksLive, BacklogInv, Level
<1>4. BacklogInv'
  BY DEF TypeOK, BacklogInv
<1>5. EdgesKept'
  BY DEF TypeOK, BacklogInv, EdgesKept, Level
<1> QED
  BY <1>1, <1>2, <1>3, <1>4, <1>5
(* A peer resets its connection. *)
LEMMA KeepPeerReset ==
  ASSUME ConnInv, NEW c \in Conns, PeerReset(c)
  PROVE  ConnInv'
<1> USE ConnectionAssumption DEF ConnInv, PeerReset, Edge
<1>1. TypeOK'
  BY DEF TypeOK
<1>2. ConnectionsWatched'
  BY DEF TypeOK, ConnectionsWatched
<1>3. CallbacksLive'
  <2>1. \A d \in Conns : Level(d, reg[d]) => Level(d, reg[d])'
    BY DEF TypeOK, Level
  <2> QED
    BY <2>1 DEF CallbacksLive
<1>4. BacklogInv'
  BY DEF TypeOK, CallbacksLive, BacklogInv
<1>5. EdgesKept'
  BY DEF TypeOK, ConnectionsWatched, CallbacksLive, BacklogInv, EdgesKept, Level
<1> QED
  BY <1>1, <1>2, <1>3, <1>4, <1>5

(* A peer takes a chunk: an edge for a connection that is being sent to. *)
LEMMA KeepPeerTake ==
  ASSUME ConnInv, NEW c \in Conns, PeerTake(c)
  PROVE  ConnInv'
<1> USE ConnectionAssumption DEF ConnInv, PeerTake, Edge
<1>1. TypeOK'
  BY DEF TypeOK
<1>2. ConnectionsWatched'
  BY DEF TypeOK, ConnectionsWatched
<1>3. CallbacksLive'
  BY DEF TypeOK, CallbacksLive, ConnectionsWatched, BacklogInv, Level
<1>4. BacklogInv'
  BY DEF TypeOK, CallbacksLive, BacklogInv
<1>5. EdgesKept'
  BY DEF TypeOK, ConnectionsWatched, CallbacksLive, BacklogInv, EdgesKept, Level
<1> QED
  BY <1>1, <1>2, <1>3, <1>4, <1>5

(* A timer comes due. *)
LEMMA KeepTick ==
  ASSUME ConnInv, NEW c \in Conns, Tick(c)
  PROVE  ConnInv'
<1> USE ConnectionAssumption DEF ConnInv, Tick
<1>1. TypeOK'
  BY DEF TypeOK
<1>2. ConnectionsWatched'
  BY DEF TypeOK, ConnectionsWatched
<1>3. CallbacksLive'
  BY DEF TypeOK, CallbacksLive, ConnectionsWatched, BacklogInv, Level
<1>4. BacklogInv'
  BY DEF TypeOK, CallbacksLive, BacklogInv
<1>5. EdgesKept'
  BY DEF TypeOK, ConnectionsWatched, CallbacksLive, BacklogInv, EdgesKept, Level
<1> QED
  BY <1>1, <1>2, <1>3, <1>4, <1>5

(* epoll_wait hands over to the batch what is still ready, as much as it has room for, and *)
(* leaves the rest on the ready list.                                                      *)
LEMMA KeepEpollWait ==
  ASSUME ConnInv, EpollWait
  PROVE  ConnInv'
<1>0. PICK taken \in SUBSET ready :
        todo' = {e \in taken : StillReady(e)} /\ ready' = ready \ taken
  BY DEF EpollWait
<1> USE <1>0, ConnectionAssumption DEF ConnInv, EpollWait
<1>1. TypeOK'
  BY DEF TypeOK
<1>2. ConnectionsWatched'
  BY DEF TypeOK, ConnectionsWatched
<1>3. CallbacksLive'
  BY DEF TypeOK, CallbacksLive, ConnectionsWatched, StillReady, Level
<1>4. BacklogInv'
  BY DEF TypeOK, BacklogInv, StillReady
<1>5. EdgesKept'
  <2>1. \A c \in conns : Level(c, reg[c])' => Level(c, reg[c]) /\ c \in ready
    BY DEF TypeOK, EdgesKept, Level
  <2>2. \A c \in conns : Level(c, reg[c]) /\ c \in ready => c \in ready' \/ c \in todo'
    BY DEF TypeOK, StillReady
  <2> QED
    BY <2>1, <2>2 DEF EdgesKept
<1> QED
  BY <1>1, <1>2, <1>3, <1>4, <1>5

(* The batch is done and run_timers begins. *)
LEMMA KeepNextIteration ==
  ASSUME ConnInv, NextIteration
  PROVE  ConnInv'
<1> USE ConnectionAssumption DEF ConnInv, NextIteration
<1>1. TypeOK'
  BY DEF TypeOK
<1>2. ConnectionsWatched'
  BY DEF TypeOK, ConnectionsWatched
<1>3. CallbacksLive'
  BY DEF TypeOK, CallbacksLive, ConnectionsWatched, BacklogInv, Level
<1>4. BacklogInv'
  BY DEF TypeOK, CallbacksLive, BacklogInv
<1>5. EdgesKept'
  BY DEF TypeOK, ConnectionsWatched, CallbacksLive, BacklogInv, EdgesKept, Level
<1> QED
  BY <1>1, <1>2, <1>3, <1>4, <1>5

(* io_callback is called. *)
LEMMA KeepOnEvent ==
  ASSUME ConnInv, NEW c \in Conns, OnEvent(c)
  PROVE  ConnInv'
<1> USE ConnectionAssumption DEF ConnInv, OnEvent
<1>1. TypeOK'
  BY DEF TypeOK
<1>2. ConnectionsWatched'
  BY DEF TypeOK, ConnectionsWatched
<1>3. CallbacksLive'
  BY DEF TypeOK, CallbacksLive, ConnectionsWatched, BacklogInv, Level
<1>4. BacklogInv'
  BY DEF TypeOK, CallbacksLive, BacklogInv
<1>5. EdgesKept'
  BY DEF TypeOK, ConnectionsWatched, CallbacksLive, BacklogInv, EdgesKept, Level
<1> QED
  BY <1>1, <1>2, <1>3, <1>4, <1>5

(* read_data has received a segment. *)
LEMMA KeepReadChunk ==
  ASSUME ConnInv, ReadChunk
  PROVE  ConnInv'
<1> USE ConnectionAssumption DEF ConnInv, ReadChunk, Absorb
<1>1. TypeOK'
  <2>1. cur \in Conns /\ rcv[cur] \in Seq({"head", "tail"}) /\ rcv[cur] # <<>>
    BY DEF TypeOK, CallbacksLive
  <2>2. Tail(rcv[cur]) \in Seq({"head", "tail"})
    BY <2>1, HeadTailProperties
  <2>3. rcv' \in [Conns -> Seq({"head", "tail"})]
    BY <2>2 DEF TypeOK
  <2>4. conn' \in [Conns -> Connections]
    <3>1. conn[cur] \in Connections
      BY <2>1 DEF TypeOK
    <3>2. [conn[cur] EXCEPT !.buf = Absorb(@, Head(rcv[cur]))] \in Connections
      BY <3>1 DEF Connections
    <3> QED
      BY <2>1, <3>2 DEF TypeOK
  <2> QED
    BY <2>3, <2>4 DEF TypeOK
<1>2. ConnectionsWatched'
  BY DEF TypeOK, ConnectionsWatched
<1>3. CallbacksLive'
  BY DEF TypeOK, CallbacksLive, ConnectionsWatched, BacklogInv, Level
<1>4. BacklogInv'
  BY DEF TypeOK, CallbacksLive, BacklogInv
<1>5. EdgesKept'
  BY DEF TypeOK, ConnectionsWatched, CallbacksLive, BacklogInv, EdgesKept, Level
<1> QED
  BY <1>1, <1>2, <1>3, <1>4, <1>5

(* send_data stops at EAGAIN: there is no room, so the next edge is yet to come. *)
LEMMA KeepSendBlocked ==
  ASSUME ConnInv, SendBlocked
  PROVE  ConnInv'
<1> USE ConnectionAssumption DEF ConnInv, SendBlocked, Return
<1>1. TypeOK'
  BY DEF TypeOK
<1>2. ConnectionsWatched'
  BY DEF TypeOK, ConnectionsWatched
<1>3. CallbacksLive'
  BY DEF TypeOK, CallbacksLive, ConnectionsWatched, BacklogInv, Level
<1>4. BacklogInv'
  BY DEF TypeOK, CallbacksLive, BacklogInv
<1>5. EdgesKept'
  BY DEF TypeOK, ConnectionsWatched, CallbacksLive, BacklogInv, EdgesKept, Level
<1> QED
  BY <1>1, <1>2, <1>3, <1>4, <1>5

(* close_connection of a connection whose timer fired, or which the running callback     *)
(* serves.                                                                                *)
LEMMA KeepClose ==
  ASSUME ConnInv, NEW c \in conns, Close(c),
         \/ pc = "timers" /\ pc' = pc /\ cur' = cur /\ todo' = todo \ {c}
         \/ pc \in {"read", "send"} /\ c = cur /\ Return
  PROVE  ConnInv'
<1> USE ConnectionAssumption DEF ConnInv, Close, CloseFd, Disarmed, Return
<1>0. c \in Conns /\ pc # "accepted" /\ pc' # "accepted"
  BY DEF TypeOK
<1>1. TypeOK' /\ num_conns' = Cardinality(conns')
  <2>1. NoConn \in Connections
    BY DEF NoConn, Connections
  <2>2. num_conns' = Cardinality(conns') /\ num_conns' \in 0..SIZE_MAX
    <3>1. conns \in SUBSET Conns
      BY DEF TypeOK
    <3>2. Cardinality(conns') = num_conns - 1 /\ num_conns \in 0..SIZE_MAX
      BY <1>0, <3>1, CountFacts DEF ConnectionsWatched, TypeOK
    <3>3. num_conns > 0
      <4>1. conns' \in SUBSET Conns
        BY <3>1
      <4>2. Cardinality(conns') \in 0..Cardinality(Conns) /\ Cardinality(Conns) \in Nat
        BY <1>0, <4>1, CountFacts, FS_CardinalityType
      <4> QED
        BY <3>2, <4>2
    <3>4. (num_conns - 1) % (SIZE_MAX + 1) = num_conns - 1
      BY <3>2, <3>3, SizeFacts
    <3> QED
      BY <3>2, <3>3, <3>4 DEF CountedOff
  <2>3. rcv' \in [Conns -> Seq({"head", "tail"})] /\ snd' \in [Conns -> 0..SndCap]
    BY DEF TypeOK
  <2> QED
    BY <1>0, <2>1, <2>2, <2>3 DEF TypeOK
<1>2. ConnectionsWatched'
  BY <1>0, <1>1 DEF TypeOK, ConnectionsWatched
<1>3. CallbacksLive'
  BY <1>0 DEF TypeOK, CallbacksLive, Level
<1>4. BacklogInv'
  BY <1>0 DEF TypeOK, BacklogInv
<1>5. EdgesKept'
  BY <1>0 DEF TypeOK, EdgesKept, Level
<1> QED
  BY <1>1, <1>2, <1>3, <1>4, <1>5

(* The tree of timers is torn, and nothing else has changed. *)
LEMMA KeepTorn ==
  ASSUME ConnInv, NEW c, Torn(c), pc # "accepted", cur' = cur,
         \/ todo' = todo /\ pc # "timers"
         \/ todo' = todo \ {LISTEN} /\ pc = "io"
  PROVE  ConnInv'
<1> USE ConnectionAssumption DEF ConnInv, Torn
<1>1. TypeOK'
  BY DEF TypeOK
<1>2. ConnectionsWatched'
  BY DEF ConnectionsWatched
<1>3. BacklogInv'
  BY DEF BacklogInv
<1>4. CallbacksLive'
  BY DEF CallbacksLive, Level
<1>5. EdgesKept'
  BY DEF EdgesKept, Level
<1> QED
  BY <1>1, <1>2, <1>3, <1>4, <1>5

(* close_connection at the end of a callback. *)
LEMMA KeepCloseAndReturn ==
  ASSUME ConnInv, cur \in conns, pc \in {"read", "send"}, CloseAndReturn(cur)
  PROVE  ConnInv'
BY KeepClose, KeepTorn DEF CloseAndReturn

(* on_accept counts the connection that accept_connection made, or had to close. *)
LEMMA KeepCountAccepted ==
  ASSUME ConnInv, CountAccepted
  PROVE  ConnInv'
<1> USE ConnectionAssumption DEF ConnInv, CountAccepted
<1>1. num_conns' = Cardinality(conns') /\ num_conns' \in 0..SIZE_MAX
  <2>1. Cardinality(conns) \in 0..SIZE_MAX
    <3>1. IsFiniteSet(Conns) /\ conns \subseteq Conns
      BY DEF TypeOK
    <3>2. IsFiniteSet(conns) /\ Cardinality(conns) <= Cardinality(Conns)
      BY <3>1, FS_Subset
    <3>3. Cardinality(conns) \in Nat /\ Cardinality(Conns) \in Nat
      BY <3>1, <3>2, FS_CardinalityType
    <3> QED
      BY <3>2, <3>3
  <2> QED
    BY <2>1, SizeFacts DEF ConnectionsWatched, Counted
<1>2. TypeOK'
  BY <1>1 DEF TypeOK
<1>3. ConnectionsWatched'
  BY <1>1 DEF ConnectionsWatched
<1>4. BacklogInv'
  BY DEF BacklogInv
<1>5. CallbacksLive'
  BY DEF CallbacksLive, Level
<1>6. EdgesKept'
  BY DEF EdgesKept, Level
<1> QED
  BY <1>2, <1>3, <1>4, <1>5, <1>6

(* timeout_callback *)
LEMMA KeepExpire ==
  ASSUME ConnInv, NEW c \in Conns, Expire(c)
  PROVE  ConnInv'
<1>1. c \in conns
  BY DEF ConnInv, CallbacksLive, Expire
<1> QED
  BY <1>1, KeepClose DEF Expire

(* read_data gives up and closes the connection. *)
LEMMA KeepReadFails ==
  ASSUME ConnInv, ReadFails
  PROVE  ConnInv'
<1>1. cur \in conns
  BY DEF ConnInv, CallbacksLive, ReadFails
<1> QED
  BY <1>1, KeepCloseAndReturn DEF ReadFails

(* send_data closes the connection, or SIGPIPE ends the process. *)
LEMMA KeepSendFails ==
  ASSUME ConnInv, SendFails
  PROVE  ConnInv'
<1>1. cur \in conns
  BY DEF ConnInv, CallbacksLive, SendFails
<1>2. CASE CloseAndReturn(cur)
  BY <1>1, <1>2, KeepCloseAndReturn DEF SendFails
<1>3. CASE pc' = "dead" /\ UNCHANGED <<cur, todo, kernelVars, epollVars, connVars>>
  <2>1. TypeOK' /\ ConnectionsWatched'
    BY <1>3 DEF ConnInv, TypeOK, ConnectionsWatched, SendFails
  <2>3. BacklogInv'
    BY <1>3 DEF ConnInv, BacklogInv
  <2>2. CallbacksLive' /\ EdgesKept'
    BY <1>3 DEF ConnInv, CallbacksLive, EdgesKept, Level, SendFails
  <2> QED
    BY <2>1, <2>2, <2>3 DEF ConnInv
<1> QED
  BY <1>2, <1>3 DEF SendFails

(* read_data at EAGAIN: the callback's send_response begins to send, or the connection is  *)
(* closed.                                                                                 *)
LEMMA KeepReadParsed ==
  ASSUME ConnInv, ReadParsed
  PROVE  ConnInv'
<1>1. cur \in conns /\ cur \in Conns
  BY DEF ConnInv, TypeOK, CallbacksLive, ReadParsed
<1>2. CASE CloseAndReturn(cur)
  BY <1>1, <1>2, KeepCloseAndReturn DEF ReadParsed
<1>4. CASE Torn(cur) /\ UNCHANGED <<cur, todo>>
  BY <1>4, KeepTorn DEF ReadParsed
<1>3. ASSUME NEW keep \in BOOLEAN, begin_send(cur, send_response(keep)),
             pc' = "send", UNCHANGED <<kernelVars, conns, num_conns, cur, todo>>
      PROVE  ConnInv'
  <2>2. Armed(cur, "OUT")
    BY <1>1, <1>3, BeginSendFacts DEF ConnInv
  <2> USE <1>1, <1>3, <2>2 DEF ConnInv, Armed
  <2>3. TypeOK'
    BY DEF TypeOK
  <2>4. ConnectionsWatched'
    <3>1. \A d \in Conns \ {cur} : IF d \in conns
            THEN reg'[d] = conn'[d].state /\ timer'[d] \in {"armed", "due"}
            ELSE reg'[d] = "none" /\ timer'[d] = "off" /\ d \notin ready'
      BY DEF ConnectionsWatched
    <3> QED
      BY <3>1 DEF ConnectionsWatched, ReadParsed
  <2>5. CallbacksLive'
    BY DEF TypeOK, CallbacksLive, Level, ReadParsed
  <2>6. BacklogInv'
    BY DEF TypeOK, BacklogInv
  <2>7. EdgesKept'
    <3>1. \A d \in conns \ {cur} : Level(d, reg[d])' => Level(d, reg[d])
      BY DEF TypeOK, Level
    <3>2. \A d \in conns \ {cur} : Level(d, reg[d]) => d \in ready \/ d \in todo
      BY DEF EdgesKept, ReadParsed
    <3> QED
      BY <3>1, <3>2 DEF TypeOK, EdgesKept
  <2> QED
    BY <2>3, <2>4, <2>5, <2>6, <2>7
<1>5. conn[cur].keep \in BOOLEAN
  BY <1>1 DEF ConnInv, TypeOK, Connections
<1> QED
  BY <1>2, <1>3, <1>4, <1>5 DEF ReadParsed

(* send_data has sent a chunk. *)
LEMMA KeepSendChunk ==
  ASSUME ConnInv, SendChunk
  PROVE  ConnInv'
<1>1. cur \in conns /\ cur \in Conns
  BY DEF ConnInv, CallbacksLive, SendChunk, TypeOK
<1>2. CASE Close(cur) /\ Return
  BY <1>1, <1>2, KeepClose DEF SendChunk
<1>5. CASE Torn(cur) /\ UNCHANGED <<cur, todo>>
  BY <1>5, KeepTorn DEF SendChunk
<1>3. CASE /\ conn[cur].left > 1
           /\ snd' = [snd EXCEPT ![cur] = @ + 1]
           /\ conn' = [conn EXCEPT ![cur].left = @ - 1]
           /\ UNCHANGED <<peer, asks, rcv, backlog, epollVars, conns, num_conns, timer, loopVars>>
  <2> USE <1>1, <1>3, ConnectionAssumption DEF ConnInv, SendChunk
  <2>1. TypeOK'
    <3>0. conn[cur] \in Connections /\ conn[cur].left - 1 \in 0..RespLen
      BY DEF TypeOK, Connections
    <3>1. [conn[cur] EXCEPT !.left = @ - 1] \in Connections
      BY <3>0 DEF Connections
    <3>2. conn' \in [Conns -> Connections] /\ snd' \in [Conns -> 0..SndCap]
      BY <3>1 DEF TypeOK
    <3> QED
      BY <3>2 DEF TypeOK
  <2>2. ConnectionsWatched'
    BY DEF TypeOK, ConnectionsWatched, Connections
  <2>3. CallbacksLive'
    BY SMTT(30) DEF TypeOK, CallbacksLive, Level
  <2>4. BacklogInv'
    BY DEF TypeOK, BacklogInv
  <2>5. EdgesKept'
    BY DEF TypeOK, EdgesKept, Level, Connections
  <2> QED
    BY <2>1, <2>2, <2>3, <2>4, <2>5
<1>4. CASE /\ snd' = [snd EXCEPT ![cur] = @ + 1]
           /\ asks' = [asks EXCEPT ![cur] = IF @ = "sent" THEN "none" ELSE @]
           /\ begin_read(cur, TRUE) /\ Return
           /\ UNCHANGED <<peer, rcv, backlog, conns, num_conns>>
  <2>0. Armed(cur, "IN")
    BY <1>1, <1>4, BeginReadFacts DEF ConnInv
  <2> USE <1>1, <1>4, <2>0 DEF ConnInv, SendChunk, Return, Armed
  <2>1. TypeOK'
    <3>1. snd[cur] + 1 \in 0..SndCap
      BY ConnectionAssumption DEF TypeOK
    <3>2. snd' \in [Conns -> 0..SndCap] /\ asks' \in [Conns -> {"none", "half", "sent"}]
      BY <3>1 DEF TypeOK
    <3> QED
      BY <3>2 DEF TypeOK
  <2>2. ConnectionsWatched'
    <3>1. \A d \in Conns \ {cur} : IF d \in conns
            THEN reg'[d] = conn'[d].state /\ timer'[d] \in {"armed", "due"}
            ELSE reg'[d] = "none" /\ timer'[d] = "off" /\ d \notin ready'
      BY DEF ConnectionsWatched
    <3> QED
      BY <3>1 DEF ConnectionsWatched
  <2>3. CallbacksLive'
    BY DEF TypeOK, CallbacksLive, Level
  <2>4. BacklogInv'
    BY DEF TypeOK, BacklogInv
  <2>5. EdgesKept'
    BY DEF TypeOK, EdgesKept, Level
  <2> QED
    BY <2>1, <2>2, <2>3, <2>4, <2>5
<1> QED
  BY <1>2, <1>3, <1>4, <1>5 DEF SendChunk

(* on_accept: the head of the listen queue becomes a connection, or is closed, or stays. *)
LEMMA KeepOnAccept ==
  ASSUME ConnInv, OnAccept
  PROVE  ConnInv'
<1>1. PICK c \in Conns :
      /\ c = Head(backlog) /\ c = backlog[1] /\ 1 \in 1..Len(backlog)
      /\ c \notin conns /\ c \notin todo
      /\ Tail(backlog) \in Seq(Conns) /\ Len(Tail(backlog)) = Len(backlog) - 1
      /\ \A i \in 1..Len(Tail(backlog)) : Tail(backlog)[i] = backlog[i + 1]
      /\ \A i \in 1..Len(Tail(backlog)) : Tail(backlog)[i] # c
  <2>1. backlog \in Seq(Conns) /\ backlog # <<>>
    BY DEF ConnInv, TypeOK, BacklogInv, OnAccept
  <2>2. /\ Tail(backlog) \in Seq(Conns) /\ Len(Tail(backlog)) = Len(backlog) - 1
        /\ \A i \in 1..Len(Tail(backlog)) : Tail(backlog)[i] = backlog[i + 1]
    BY <2>1, HeadTailProperties
  <2>3. PICK c \in Conns : c = Head(backlog) /\ c = backlog[1]
    BY <2>1
  <2>4. Len(backlog) \in Nat \ {0} /\ c \notin conns
    BY <2>1, <2>3 DEF ConnInv, BacklogInv
  <2>5. c \notin todo
    BY <2>4 DEF ConnInv, CallbacksLive
  <2>6. \A i \in 1..Len(Tail(backlog)) : Tail(backlog)[i] # c
    BY <2>2, <2>3, <2>4 DEF ConnInv, BacklogInv
  <2> QED
    BY <2>2, <2>3, <2>4, <2>5, <2>6
<1>2. CASE /\ backlog' = Tail(backlog)
           /\ conns' = conns \cup {c} /\ begin_read(c, FALSE)
           /\ pc' = "accepted" /\ UNCHANGED <<peer, asks, rcv, snd, num_conns>>
  <2>0. Armed(c, "IN")
    BY <1>1, <1>2, BeginReadFacts DEF ConnInv
  <2> USE <1>1, <1>2, <2>0 DEF ConnInv, OnAccept, Armed
  <2>1. TypeOK' /\ num_conns' = (Cardinality(conns') - 1) % (SIZE_MAX + 1)
    <3>1. conns \in SUBSET Conns /\ num_conns \in 0..SIZE_MAX
      BY DEF TypeOK
    <3>2. Cardinality(conns') = num_conns + 1
      BY <3>1, CountFacts DEF ConnectionsWatched
    <3>3. num_conns % (SIZE_MAX + 1) = num_conns
      BY <3>1, ConnectionAssumption
    <3>4. (num_conns + 1) - 1 = num_conns
      BY <3>1
    <3>5. num_conns' = (Cardinality(conns') - 1) % (SIZE_MAX + 1)
      BY <3>2, <3>3, <3>4
    <3> QED
      BY <3>5 DEF TypeOK
  <2>2. ConnectionsWatched'
    BY <2>1 DEF TypeOK, ConnectionsWatched
  <2>3. CallbacksLive'
    BY SMTT(30) DEF TypeOK, CallbacksLive, Level
  <2>4. BacklogInv'
    <3>1. \A i \in 1..Len(backlog') : i + 1 \in 1..Len(backlog) /\ backlog'[i] = backlog[i + 1]
      OBVIOUS
    <3>2. /\ \A i, j \in 1..Len(backlog') : backlog'[i] = backlog'[j] => i = j
          /\ \A i \in 1..Len(backlog') : peer'[backlog'[i]] # "none" /\ backlog'[i] \notin conns'
      BY <3>1 DEF BacklogInv
    <3> QED
      BY <3>2 DEF TypeOK, BacklogInv
  <2>5. EdgesKept'
    <3>1. \A d \in conns : Level(d, reg[d])' => Level(d, reg[d])
      BY DEF TypeOK, Level
    <3>2. \A d \in conns : Level(d, reg[d]) => d \in ready \/ d \in todo
      BY DEF EdgesKept
    <3>3. Level(c, reg[c])' => c \in ready'
      BY DEF TypeOK, Level
    <3>4. \A d \in conns : Level(d, reg[d])' => d \in ready' \/ d \in todo'
      BY <3>1, <3>2, ConnectionAssumption DEF TypeOK
    <3>5. \A d \in conns' : Level(d, reg[d])' => d \in ready' \/ d \in todo'
      BY <3>3, <3>4
    <3> QED
      BY <3>5 DEF EdgesKept
  <2> QED
    BY <2>1, <2>2, <2>3, <2>4, <2>5
<1>3. CASE UNCHANGED <<pc, kernelVars, epollVars, connVars>>
  <2> USE <1>3 DEF ConnInv, OnAccept
  <2>1. TypeOK'
    BY DEF TypeOK
  <2>2. ConnectionsWatched' /\ BacklogInv'
    BY DEF ConnectionsWatched, BacklogInv
  <2>3. CallbacksLive' /\ EdgesKept'
    BY ConnectionAssumption DEF TypeOK, CallbacksLive, EdgesKept, Level
  <2> QED
    BY <2>1, <2>2, <2>3
<1>4. ASSUME backlog' = Tail(backlog), CloseFd(c), UNCHANGED <<epollVars, conns, conn, timer>>,
             \/ pc' = pc /\ num_conns' = num_conns
             \/ pc' = "accepted" /\ num_conns' = CountedOff
      PROVE  ConnInv'
  <2> USE <1>1, <1>4, ConnectionAssumption DEF ConnInv, OnAccept, CloseFd
  <2>1. TypeOK'
    <3>1. CountedOff \in 0..SIZE_MAX
      BY SizeFacts DEF TypeOK, CountedOff
    <3>2. rcv' \in [Conns -> Seq({"head", "tail"})] /\ snd' \in [Conns -> 0..SndCap]
      BY DEF TypeOK
    <3> QED
      BY <3>1, <3>2 DEF TypeOK
  <2>2. ConnectionsWatched'
    BY DEF TypeOK, ConnectionsWatched, CountedOff
  <2>3. CallbacksLive'
    BY DEF TypeOK, CallbacksLive, Level
  <2>4. BacklogInv'
    BY DEF TypeOK, BacklogInv
  <2>5. EdgesKept'
    <3>1. \A d \in conns : Level(d, reg[d])' => Level(d, reg[d])
      BY DEF TypeOK, Level
    <3>2. \A d \in conns : Level(d, reg[d]) => d \in ready \/ d \in todo
      BY DEF EdgesKept
    <3> QED
      BY <3>1, <3>2 DEF TypeOK, EdgesKept
  <2> QED
    BY <2>1, <2>2, <2>3, <2>4, <2>5
<1>5. CASE Torn(c)
  BY <1>5, KeepTorn DEF OnAccept
<1> QED
  BY <1>1, <1>2, <1>3, <1>4, <1>5 DEF OnAccept, accept_connection

(* Every step of the worker, of a peer and of the clock keeps the invariant. *)
LEMMA ConnStep == ConnInv /\ [Next]_vars => ConnInv'
<1> SUFFICES ASSUME ConnInv, [Next]_vars PROVE ConnInv'
  OBVIOUS
<1>1. CASE UNCHANGED vars
  BY <1>1 DEF vars, ConnInv, TypeOK, ConnectionsWatched, CallbacksLive, BacklogInv, EdgesKept, Level
<1>2. CASE Worker
  BY <1>2, KeepEpollWait, KeepNextIteration, KeepOnAccept, KeepCountAccepted, KeepExpire, KeepOnEvent,
     KeepReadChunk, KeepReadFails, KeepReadParsed, KeepSendChunk, KeepSendBlocked, KeepSendFails
     DEF Worker
<1>3. ASSUME NEW c \in Conns, Peer(c) \/ Tick(c) PROVE ConnInv'
  BY <1>3, KeepConnect, KeepPeerSend, KeepPeerFin, KeepPeerReset, KeepPeerTake, KeepTick
     DEF Peer
<1> QED
  BY <1>1, <1>2, <1>3 DEF Next

(* The bookkeeping of one worker stays right, with any number of connections, any way in   *)
(* which peers send, close and reset between two of its steps, and any of its calls        *)
(* failing: up to the first rbtree_delete of a timer's node with two children              *)
(* (rbtree.c:74), which takes three timers and where the behaviours of Connection end.     *)
THEOREM ConnInvariance == Spec => []ConnInv
BY ConnInit, ConnStep, PTL DEF Spec

(* Every variable keeps its type: no response has more left to send than its length, no    *)
(* socket buffer holds more than its capacity, and num_conns stays a size_t.               *)
THEOREM ConnTypes == Spec => []TypeOK
<1>1. ConnInv => TypeOK
  BY DEF ConnInv
<1> QED
  BY <1>1, ConnInvariance, PTL

(* Every connection is watched for what its state needs, has its timer and is counted      *)
(* once, and nothing of a closed one is left in epoll or among the timers, as long as no   *)
(* timer at a node with two children was deleted.  The count is one less, and may have     *)
(* wrapped below zero, between accept_connection and the increment in on_accept only.      *)
THEOREM WatchedAlways == Spec => []ConnectionsWatched
<1>1. ConnInv => ConnectionsWatched
  BY DEF ConnInv
<1> QED
  BY <1>1, ConnInvariance, PTL

(* As long as no timer at a node with two children was deleted, neither run_timers nor     *)
(* run_io calls back into a connection that was freed, and run_io not for an event that is *)
(* over.                                                                                   *)
THEOREM CallbacksAlwaysLive == Spec => []CallbacksLive
<1>1. ConnInv => CallbacksLive
  BY DEF ConnInv
<1> QED
  BY <1>1, ConnInvariance, PTL

(* No edge is lost: a connection that is ready when the worker enters epoll_wait is on the *)
(* ready list.                                                                             *)
THEOREM WakeupsKept == Spec => []NoLostWakeup
<1>1. ConnInv => NoLostWakeup
  BY DEF ConnInv, EdgesKept, NoLostWakeup
<1> QED
  BY <1>1, ConnInvariance, PTL
=============================================================================
