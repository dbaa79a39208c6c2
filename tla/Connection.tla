----------------------------- MODULE Connection -----------------------------
(***************************************************************************)
(* One worker thread: its event loop (src/event.c, src/worker.c), the life *)
(* of its connections (src/connection.c), and the parts of the kernel they *)
(* rely on: the listen queue, the socket buffers, and epoll in             *)
(* edge-triggered mode.  The peers are the environment.                    *)
(*                                                                         *)
(* A request is two segments, a head and a tail, which parse_request needs *)
(* both; a response is RespLen chunks.  Timers are kept as armed, due or   *)
(* off.  That is what event.c's tree gives until rbtree_delete is handed a *)
(* node with two children, which needs three timers; a behaviour that gets *)
(* there ends in "torn", and module Timers shows what comes of it.         *)
(***************************************************************************)
EXTENDS Integers, Sequences, FiniteSets

CONSTANTS
  Conns,     \* the connections, each with its peer
  LISTEN,    \* the event of the listening socket
  RespLen,   \* chunks of a response
  RcvCap,    \* bound: segments a peer has under way
  Pipelining,\* a peer may send a request before the last one was answered
  SndCap,    \* chunks the kernel takes before send returns EAGAIN
  MAX_IO_EVENTS, \* events that one epoll_wait reports
  SIZE_MAX,  \* the largest size_t
  Faults     \* what may fail: "accept", "malloc", "epoll_ctl"; "sigpipe" if the process
             \* did not inherit SIGPIPE ignored

ASSUME ConnectionAssumption ==
  /\ LISTEN \notin Conns /\ IsFiniteSet(Conns)
  /\ RespLen \in Nat \ {0} /\ RcvCap \in Nat \ {0} /\ SndCap \in Nat \ {0}
  /\ Pipelining \in BOOLEAN /\ MAX_IO_EVENTS \in Nat \ {0}
  /\ SIZE_MAX \in Nat /\ Cardinality(Conns) <= SIZE_MAX
  /\ Faults \subseteq {"accept", "malloc", "epoll_ctl", "sigpipe"}

VARIABLES
  peer,       \* none, open, fin (it closed its side), reset, or broken (fin, then reset)
  asks,       \* the peer's request: none, half sent, or sent and not yet answered
  rcv,        \* received segments that the worker has not read
  snd,        \* sent chunks that the peer has not taken
  backlog,    \* the listen queue
  reg,        \* what epoll watches the socket for: none, IN or OUT
  ready,      \* epoll's ready list
  conns,      \* worker->conns
  num_conns,  \* worker->num_conns
  conn,       \* each struct connection: state, KEEPALIVE, buffer, chunks left to send
  timer,      \* each connection's timer: off, armed or due
  pc,         \* where the worker is
  cur,        \* the connection it is serving, or LISTEN for none
  todo        \* the due timers or the epoll events it has yet to handle

Reset == {"reset", "broken"}

kernelVars == <<peer, asks, rcv, snd, backlog>>
epollVars == <<reg, ready>>
connVars == <<conns, num_conns, conn, timer>>
loopVars == <<pc, cur, todo>>
vars == <<kernelVars, epollVars, connVars, loopVars>>

NoConn == [state |-> "IN", keep |-> FALSE, buf |-> "empty", left |-> 0]

Init ==
  /\ peer = [c \in Conns |-> "none"] /\ asks = [c \in Conns |-> "none"]
  /\ rcv = [c \in Conns |-> <<>>] /\ snd = [c \in Conns |-> 0]
  /\ backlog = <<>>
  /\ reg = [c \in Conns |-> "none"] /\ ready = {}
  /\ conns = {} /\ num_conns = 0
  /\ conn = [c \in Conns |-> NoConn] /\ timer = [c \in Conns |-> "off"]
  /\ pc = "timers" /\ cur = LISTEN /\ todo = {}

----------------------------------------------------------------------------
(* epoll *)

(* What a poll of the socket finds, given what it is watched for. *)
Level(c, watch) ==
  \/ watch = "IN" /\ (rcv[c] # <<>> \/ peer[c] \in {"fin"} \cup Reset)
  \/ watch = "OUT" /\ (snd[c] < SndCap \/ peer[c] \in Reset)

(* Something happened to the socket: an edge for those who watch for it. *)
Edge(c, watches) ==
  /\ ready' = IF reg[c] \in watches THEN ready \cup {c} ELSE ready
  /\ UNCHANGED reg

(* EPOLL_CTL_DEL of the old event, if any, then EPOLL_CTL_ADD, which puts the socket on    *)
(* the ready list if it is ready already.                                                  *)
Rearm(c, watch) ==
  /\ reg' = [reg EXCEPT ![c] = watch]
  /\ ready' = IF Level(c, watch) THEN ready \cup {c} ELSE ready \ {c}

----------------------------------------------------------------------------
(* The peers *)

Connect(c) ==
  /\ peer[c] = "none"
  /\ peer' = [peer EXCEPT ![c] = "open"]
  /\ backlog' = Append(backlog, c)
  /\ ready' = ready \cup {LISTEN}
  /\ UNCHANGED <<asks, rcv, snd, reg, connVars, loopVars>>

PeerSend(c) ==
  /\ peer[c] = "open" /\ Len(rcv[c]) < RcvCap
  /\ asks[c] # "sent" \/ Pipelining
  /\ rcv' = [rcv EXCEPT ![c] = Append(@, IF asks[c] = "half" THEN "tail" ELSE "head")]
  /\ asks' = [asks EXCEPT ![c] = IF @ = "half" THEN "sent" ELSE "half"]
  /\ Edge(c, {"IN"})
  /\ UNCHANGED <<peer, snd, backlog, connVars, loopVars>>

PeerFin(c) ==
  /\ peer[c] = "open"
  /\ peer' = [peer EXCEPT ![c] = "fin"]
  /\ Edge(c, {"IN"})
  /\ UNCHANGED <<asks, rcv, snd, backlog, connVars, loopVars>>

PeerReset(c) ==
  /\ peer[c] \in {"open", "fin"}
  /\ peer' = [peer EXCEPT ![c] = IF @ = "open" THEN "reset" ELSE "broken"]
  /\ Edge(c, {"IN", "OUT"})
  /\ UNCHANGED <<asks, rcv, snd, backlog, connVars, loopVars>>

PeerTake(c) ==
  /\ peer[c] \in {"open", "fin"} /\ snd[c] > 0
  /\ snd' = [snd EXCEPT ![c] = @ - 1]
  /\ Edge(c, {"OUT"})
  /\ UNCHANGED <<peer, asks, rcv, backlog, connVars, loopVars>>

(* TIMEOUT passes. *)
Tick(c) ==
  /\ timer[c] = "armed"
  /\ timer' = [timer EXCEPT ![c] = "due"]
  /\ UNCHANGED <<kernelVars, epollVars, conns, num_conns, conn, loopVars>>

----------------------------------------------------------------------------
(* Connections *)

(* The socket is closed: the kernel forgets it, and c may connect anew. *)
CloseFd(c) ==
  /\ peer' = [peer EXCEPT ![c] = "none"] /\ asks' = [asks EXCEPT ![c] = "none"]
  /\ rcv' = [rcv EXCEPT ![c] = <<>>] /\ snd' = [snd EXCEPT ![c] = 0]

(* worker->num_conns-- and worker->num_conns++ of a size_t *)
CountedOff == (num_conns - 1) % (SIZE_MAX + 1)
Counted == (num_conns + 1) % (SIZE_MAX + 1)

LeftArmed(c) == timer

(* del_timer *)
Disarmed(c) == [timer EXCEPT ![c] = "off"]

(* The timer's part of reset_connection: del_timer, make_timer, add_timer. *)
Rearmed(c) == [timer EXCEPT ![c] = "armed"]

(* close_connection, from a callback. *)
Close(c) ==
  /\ num_conns' = CountedOff
  /\ reg' = [reg EXCEPT ![c] = "none"] /\ ready' = ready \ {c}
  /\ timer' = Disarmed(c)
  /\ CloseFd(c) /\ UNCHANGED backlog
  /\ conns' = conns \ {c} /\ conn' = [conn EXCEPT ![c] = NoConn]

Return == pc' = "io" /\ cur' = LISTEN /\ UNCHANGED todo

(* The timer of c that is to be deleted may be at a node with two children, if there are   *)
(* two more: rbtree_delete then leaves c's node in the tree with the payload of another    *)
(* connection's timer.  This is where the behaviour ends, before that delete.              *)
Torn(c) ==
  /\ Cardinality({d \in Conns : timer[d] # "off"} \cup {c}) > 2
  /\ pc' = "torn"
  /\ UNCHANGED <<kernelVars, epollVars, connVars>>

(* close_connection as the last thing a callback does. *)
CloseAndReturn(c) ==
  \/ Close(c) /\ Return
  \/ Torn(c) /\ UNCHANGED <<cur, todo>>

(* begin_read: reset_connection, clear_buffer, add_event. *)
begin_read(c, keep) ==
  /\ timer' = Rearmed(c)
  /\ conn' = [conn EXCEPT ![c] = [NoConn EXCEPT !.keep = keep]]
  /\ Rearm(c, "IN")

send_response_uncleared(keep) == [NoConn EXCEPT !.keep = keep, !.left = RespLen + 1]

(* send_response up to its begin_send: the buffer is cleared and holds the response now. *)
send_response(keep) == [NoConn EXCEPT !.keep = keep, !.left = RespLen]

(* begin_send of the connection as send_response leaves it, up to its send_data. *)
begin_send(c, full) ==
  /\ timer' = Rearmed(c)
  /\ conn' = [conn EXCEPT ![c] = [full EXCEPT !.state = "OUT"]]
  /\ Rearm(c, "OUT")

----------------------------------------------------------------------------
(* The event loop *)

(* A poll still finds what is on the ready list ready. *)
StillReady(e) == IF e = LISTEN THEN backlog # <<>> ELSE Level(e, reg[e])

(* run_timers is through; run_io calls epoll_wait.  It goes through the ready list, drops  *)
(* what a poll no longer finds ready, and takes the rest until it has MAX_IO_EVENTS.       *)
EpollWait ==
  /\ pc = "timers" /\ todo = {}
  /\ pc' = "io"
  /\ \E taken \in SUBSET ready :
       /\ todo' = {e \in taken : StillReady(e)} /\ ready' = ready \ taken
       /\ Cardinality(todo') <= MAX_IO_EVENTS
       /\ taken = ready \/ Cardinality(todo') = MAX_IO_EVENTS
  /\ UNCHANGED <<kernelVars, reg, connVars, cur>>

(* The batch is done; run_timers of the next iteration takes the time. *)
NextIteration ==
  /\ pc = "io" /\ todo = {}
  /\ pc' = "timers" /\ todo' = {c \in Conns : timer[c] = "due"}
  /\ UNCHANGED <<kernelVars, epollVars, connVars, cur>>

(* timeout_callback *)
Expire(c) ==
  /\ pc = "timers" /\ c \in todo
  /\ Close(c)
  /\ todo' = todo \ {c} /\ UNCHANGED <<pc, cur>>

(* accept_connection of c.  When add_event fails in its begin_read, close_connection takes *)
(* c off num_conns before it was counted, and accept_connection returns OK.                *)
accept_connection(c) ==
  \/ /\ backlog' = Tail(backlog)
     /\ conns' = conns \cup {c} /\ begin_read(c, FALSE)
     /\ pc' = "accepted" /\ UNCHANGED <<peer, asks, rcv, snd, num_conns>>
  \/ /\ "accept" \in Faults
     /\ UNCHANGED <<pc, kernelVars, epollVars, connVars>>
  \/ /\ "malloc" \in Faults \* or fcntl
     /\ backlog' = Tail(backlog) /\ CloseFd(c)
     /\ UNCHANGED <<pc, epollVars, connVars>>
  \/ /\ "epoll_ctl" \in Faults
     /\ \/ /\ backlog' = Tail(backlog) /\ CloseFd(c) /\ num_conns' = CountedOff
           /\ pc' = "accepted" /\ UNCHANGED <<epollVars, conns, conn, timer>>
        \/ Torn(c)

(* on_accept: one accept per event, however many connections are waiting. *)
OnAccept ==
  /\ pc = "io" /\ LISTEN \in todo
  /\ todo' = todo \ {LISTEN} /\ UNCHANGED cur
  /\ accept_connection(Head(backlog))

(* on_accept, after accept_connection has returned OK. *)
CountAccepted ==
  /\ pc = "accepted"
  /\ num_conns' = Counted /\ pc' = "io"
  /\ UNCHANGED <<kernelVars, epollVars, conns, conn, timer, cur, todo>>

(* io_callback *)
OnEvent(c) ==
  /\ pc = "io" /\ c \in todo
  /\ todo' = todo \ {c} /\ cur' = c
  /\ pc' = IF conn[c].state = "IN" THEN "read" ELSE "send"
  /\ UNCHANGED <<kernelVars, epollVars, connVars>>

(* What the buffer amounts to once a segment is appended.  What comes after a complete     *)
(* request is in the buffer when send_response clears it.                                  *)
Absorb(buf, segment) ==
  CASE buf = "empty" -> IF segment = "head" THEN "head" ELSE "bad"
    [] buf = "head" -> "done"
    [] OTHER -> buf

ReadChunkOnce ==
  /\ pc = "read" /\ rcv[cur] # <<>>
  /\ conn' = [conn EXCEPT ![cur].buf = Absorb(@, Head(rcv[cur]))]
  /\ rcv' = [rcv EXCEPT ![cur] = Tail(@)]
  /\ Return
  /\ UNCHANGED <<peer, asks, snd, backlog, epollVars, conns, num_conns, timer>>

(* read_data: recv returns data. *)
ReadChunk ==
  /\ pc = "read" /\ rcv[cur] # <<>>
  /\ conn' = [conn EXCEPT ![cur].buf = Absorb(@, Head(rcv[cur]))]
  /\ rcv' = [rcv EXCEPT ![cur] = Tail(@)]
  /\ UNCHANGED <<peer, asks, snd, backlog, epollVars, conns, num_conns, timer, loopVars>>

(* read_data: resize_buffer fails, or recv returns 0 or an error. *)
ReadFails ==
  /\ pc = "read"
  /\ "malloc" \in Faults \/ (rcv[cur] = <<>> /\ peer[cur] \in {"fin"} \cup Reset)
  /\ CloseAndReturn(cur)

(* parse_request returns REQ_OK. *)
Complete(buf) == buf = "done"

(* read_data: EAGAIN.  A complete request is routed and its callback sends a response, a   *)
(* bad one ends the connection.  With an incomplete one the loop calls recv again at once, *)
(* a step that changes nothing.                                                            *)
ReadParsed ==
  /\ pc = "read" /\ rcv[cur] = <<>> /\ peer[cur] = "open"
  /\ \/ /\ Complete(conn[cur].buf)
        /\ \E http11 \in BOOLEAN : begin_send(cur, send_response(conn[cur].keep \/ http11))
        /\ pc' = "send" /\ UNCHANGED <<kernelVars, conns, num_conns, cur, todo>>
     \/ Complete(conn[cur].buf) /\ Torn(cur) /\ UNCHANGED <<cur, todo>>
     \/ /\ \/ conn[cur].buf = "bad"
           \/ Complete(conn[cur].buf) /\ "epoll_ctl" \in Faults
        /\ CloseAndReturn(cur)

(* send_data: send takes a chunk.  After the last one the connection goes back to reading  *)
(* or is closed.                                                                           *)
SendChunk ==
  LET c == cur IN
  /\ pc = "send" /\ peer[c] \in {"open", "fin"} /\ snd[c] < SndCap
  /\ \/ /\ conn[c].left > 1
        /\ snd' = [snd EXCEPT ![c] = @ + 1]
        /\ conn' = [conn EXCEPT ![c].left = @ - 1]
        /\ UNCHANGED <<peer, asks, rcv, backlog, epollVars, conns, num_conns, timer, loopVars>>
     \/ /\ conn[c].left = 1 /\ conn[c].keep
        /\ snd' = [snd EXCEPT ![c] = @ + 1]
        /\ asks' = [asks EXCEPT ![c] = IF @ = "sent" THEN "none" ELSE @]
        /\ begin_read(c, TRUE) /\ Return
        /\ UNCHANGED <<peer, rcv, backlog, conns, num_conns>>
     \/ conn[c].left = 1 /\ Torn(c) /\ UNCHANGED <<cur, todo>>
     \/ /\ conn[c].left = 1
        /\ ~conn[c].keep \/ "epoll_ctl" \in Faults
        /\ Close(c) /\ Return

(* send_data: EAGAIN. *)
SendBlocked ==
  /\ pc = "send" /\ peer[cur] \in {"open", "fin"} /\ snd[cur] = SndCap
  /\ Return
  /\ UNCHANGED <<kernelVars, epollVars, connVars>>

(* send_data: send to a peer that reset the connection.  It returns ECONNRESET, or, if the *)
(* peer had closed its side before, EPIPE with a SIGPIPE, which nobody handles.            *)
SendFails ==
  /\ pc = "send"
  /\ \/ /\ peer[cur] = "reset" \/ (peer[cur] = "broken" /\ "sigpipe" \notin Faults)
        /\ CloseAndReturn(cur)
     \/ /\ peer[cur] = "broken" /\ "sigpipe" \in Faults
        /\ pc' = "dead" /\ UNCHANGED <<cur, todo, kernelVars, epollVars, connVars>>

----------------------------------------------------------------------------
Worker ==
  \/ EpollWait \/ NextIteration \/ OnAccept \/ CountAccepted
  \/ \E c \in Conns : Expire(c) \/ OnEvent(c)
  \/ ReadChunk \/ ReadFails \/ ReadParsed \/ SendChunk \/ SendBlocked \/ SendFails

Peer(c) == Connect(c) \/ PeerSend(c) \/ PeerFin(c) \/ PeerReset(c) \/ PeerTake(c)

Next == Worker \/ \E c \in Conns : Peer(c) \/ Tick(c)

Spec == Init /\ [][Next]_vars

(* The worker's thread runs; the peers and the clock do as they like. *)
FairSpec == Spec /\ WF_vars(Worker)

(* A peer that began a request sends the rest of it or leaves. *)
PeerFinishes(c) == asks[c] = "half" /\ (PeerSend(c) \/ PeerFin(c))
FinishingSpec == FairSpec /\ \A c \in Conns : WF_vars(PeerFinishes(c))

----------------------------------------------------------------------------
(* Properties *)

(* The values of a struct connection. *)
Connections == [state : {"IN", "OUT"}, keep : BOOLEAN,
                buf : {"empty", "head", "done", "bad"}, left : 0..RespLen]

TypeOK ==
  /\ peer \in [Conns -> {"none", "open", "fin"} \cup Reset] /\ asks \in [Conns -> {"none", "half", "sent"}]
  /\ rcv \in [Conns -> Seq({"head", "tail"})] /\ snd \in [Conns -> 0..SndCap]
  /\ backlog \in Seq(Conns)
  /\ reg \in [Conns -> {"none", "IN", "OUT"}] /\ ready \subseteq Conns \cup {LISTEN}
  /\ conns \subseteq Conns /\ num_conns \in 0..SIZE_MAX
  /\ conn \in [Conns -> Connections]
  /\ timer \in [Conns -> {"off", "armed", "due"}]
  /\ pc \in {"timers", "io", "accepted", "read", "send", "dead", "torn"}
  /\ cur \in Conns \cup {LISTEN} /\ todo \subseteq Conns \cup {LISTEN}

(* At every step every connection of the worker is watched for what its state needs, has   *)
(* its timer running and is counted once, and a closed one has none of that left.  Only    *)
(* between accept_connection and the increment in on_accept the count is one less, which   *)
(* is SIZE_MAX if the only connection could not be registered; main may read it then.      *)
ConnectionsWatched ==
  /\ num_conns = IF pc = "accepted" THEN (Cardinality(conns) - 1) % (SIZE_MAX + 1)
                                    ELSE Cardinality(conns)
  /\ \A c \in Conns : IF c \in conns
                      THEN reg[c] = conn[c].state /\ timer[c] \in {"armed", "due"}
                      ELSE reg[c] = "none" /\ timer[c] = "off" /\ c \notin ready

(* No callback is called with a connection that an earlier callback of the batch freed,    *)
(* nor with one whose event was replaced and is no longer due.                             *)
CallbacksLive ==
  /\ todo \cap Conns \subseteq conns
  /\ pc \in {"read", "send"} => cur \in conns /\ cur \notin todo
  /\ pc # "timers" => \A c \in todo \cap Conns : Level(c, reg[c])

(* Edge-triggered events are not lost: whenever the worker goes into epoll_wait, every     *)
(* connection with something to read, or with room for what it has to send, is on the      *)
(* ready list.  The worker may stop in the middle of a response and rely on the next edge. *)
NoLostWakeup ==
  pc = "timers" /\ todo = {} => \A c \in conns : Level(c, reg[c]) => c \in ready

(* The listen queue holds sockets that are connected, each once and none of them the       *)
(* worker's, and is not empty while an event for it is pending.                            *)
BacklogInv ==
  /\ \A i, j \in 1..Len(backlog) : backlog[i] = backlog[j] => i = j
  /\ \A i \in 1..Len(backlog) : peer[backlog[i]] # "none" /\ backlog[i] \notin conns
  /\ \A c \in conns : peer[c] # "none"
  /\ LISTEN \in todo => backlog # <<>>

(* Who is to deal with a connection that is ready: epoll, the rest of the batch, or the    *)
(* callback that is running.                                                               *)
EdgesKept ==
  /\ pc = "read" => conn[cur].state = "IN"
  /\ pc = "send" => conn[cur].state = "OUT"
  /\ pc \notin {"dead", "torn"} =>
       \A c \in conns : Level(c, reg[c]) =>
         \/ c \in ready
         \/ pc # "timers" /\ c \in todo
         \/ pc \in {"read", "send"} /\ c = cur

(* The inductive invariant behind the properties above: whatever peers do between two      *)
(* steps of the worker, and whichever calls fail, the bookkeeping of sockets, events,      *)
(* timers and connections agrees, and no edge is dropped between epoll and the callbacks.  *)
ConnInv ==
  TypeOK /\ ConnectionsWatched /\ CallbacksLive /\ BacklogInv /\ EdgesKept

(* The clock does not stop while c's timer is armed. *)
TimePasses(c) == []<>(timer[c] # "armed")

(* A connection that its peer leaves alone is closed: the peer is told                     *)
(* "Keep-Alive: timeout=5".                                                                *)
IdleConnectionsClosed ==
  \A c \in Conns : TimePasses(c) => []<>(c \notin conns) \/ []<><<Peer(c)>>_vars

(* A request that a peer has sent in full is answered in full, over all the edges and      *)
(* batches that takes: for a peer that takes what it is sent and does not close its side,  *)
(* before the timer of its connection runs out.                                            *)
RequestsAnswered ==
  \A c \in Conns :
    [](timer[c] # "due") /\ []<>(snd[c] < SndCap) =>
      (c \in conns /\ asks[c] = "sent" ~> asks[c] # "sent" \/ peer[c] # "open")

(* An error on one connection, its peer going away included, ends that connection and not  *)
(* the server.                                                                             *)
ServerSurvives == pc # "dead"
============================================================================
