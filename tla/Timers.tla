------------------------------- MODULE Timers -------------------------------
(***************************************************************************)
(* The timers of one worker: src/event.c's add_timer, del_timer and        *)
(* run_timers over the red-black tree of src/rbtree.c, driven the way      *)
(* src/connection.c drives them.  Every connection embeds one one-shot     *)
(* timer; begin_read and begin_send re-arm it, close_connection cancels it *)
(* and frees the memory it is in, and its callback closes the connection.  *)
(*                                                                         *)
(* The node of a connection's timer is named by the connection.  The       *)
(* worker's thread is alone on its tree here; RBTree has the sharing.      *)
(***************************************************************************)
EXTENDS RBTreeOps

CONSTANTS
  Base,     \* the worker's event_base, the only tree
  TIMEOUT,  \* connection.c's timeout in ticks of the clock
  MaxTime   \* bound: the last tick

ASSUME TimersAssumption ==
  Trees = {Base} /\ TIMEOUT \in Nat \ {0} /\ MaxTime \in Nat

VARIABLES
  h,       \* the memory of the tree and the timers
  alive,   \* the connections that are allocated
  clock,   \* what get_time returns
  pc,      \* event_base_iter is in run_timers or in run_io, or the program crashed
  now,     \* run_timers' local: the time it started at
  armed    \* history: when each connection was last reset

vars == <<h, alive, clock, pc, now, armed>>

Conns == Nodes

(* What follows the node in a struct timer; interval, mode and cb are always the same. *)
Payload(trigger, active, c) == [trigger |-> trigger, active |-> active, data |-> c]

----------------------------------------------------------------------------
RECURSIVE insert_fixup(_, _)
insert_fixup(m, x) ==
  IF InsertFixupNeeded(m, Base, x)
  THEN LET r == InsertFixupStep(m, Base, x) IN insert_fixup(r.h, r.x)
  ELSE BlackenRoot(m, Base)

RECURSIVE delete_fixup(_, _)
delete_fixup(m, x) ==
  IF DeleteFixupNeeded(m, Base, x)
  THEN LET r == DeleteFixupStep(m, Base, x) IN delete_fixup(r.h, r.x)
  ELSE Blacken(m, x)

rbtree_insert(m, x) == insert_fixup(Link(m, Base, x), x)

rbtree_delete(m, z) ==
  LET r == Unlink(m, Base, z) IN
  IF r.fix THEN delete_fixup(r.h, r.x) ELSE r.h

ClearFlagOnly(m, c) == [m EXCEPT !.pay[c].active = FALSE]

del_timer(m, c) ==
  IF m.pay[c].active
  THEN [rbtree_delete(m, c) EXCEPT !.pay[c].active = FALSE]
  ELSE m

(* The search of rbtree_insert for c's place ends at a leaf.  It meets NULL instead when   *)
(* the tree holds a node that make_timer has zeroed, and the program ends there.           *)
Searchable(m, c) ==
  LET child(n) == IF timer_cmp_le(m.pay[c], m.pay[n]) THEN m.left[n] ELSE m.right[n]
      walk[n \in Ptrs \cup {NULL}] == n = RBNIL \/ (n # NULL /\ walk[child(n)]) IN
  walk[m.root[Base]]

(* The timer's part of reset_connection, and add_timer in it: cancel, make_timer over the  *)
(* whole struct, update_trigger, insert.  make_timer has cleared TIMER_FLAG_ACTIVE, so     *)
(* add_timer does not fail.                                                                *)
reset_timer(m, c) ==
  LET fresh == make_timer(del_timer(m, c), c, Payload(clock + TIMEOUT, TRUE, c)) IN
  IF Searchable(fresh, c)
  THEN h' = rbtree_insert(fresh, c) /\ UNCHANGED pc
  ELSE pc' = "crashed" /\ UNCHANGED h

----------------------------------------------------------------------------
Init ==
  /\ h = rbtree_init(Payload(0, FALSE, NULL))
  /\ alive = {} /\ clock = 0 /\ pc = "timers" /\ now = 0
  /\ armed = [c \in Conns |-> 0]

Tick ==
  /\ clock < MaxTime /\ clock' = clock + 1
  /\ UNCHANGED <<h, alive, pc, now, armed>>

(* accept_connection: calloc, begin_read. *)
Accept(c) ==
  /\ pc = "io" /\ c \notin alive
  /\ alive' = alive \cup {c}
  /\ reset_timer(make_timer(h, c, Payload(0, FALSE, NULL)), c)
  /\ armed' = [armed EXCEPT ![c] = clock]
  /\ UNCHANGED <<clock, now>>

(* begin_read or begin_send from an I/O callback. *)
Reset(c) ==
  /\ pc = "io" /\ c \in alive
  /\ reset_timer(h, c)
  /\ armed' = [armed EXCEPT ![c] = clock]
  /\ UNCHANGED <<alive, clock, now>>

(* close_connection of c in memory m: del_timer, free. *)
close_connection(m, c) == h' = del_timer(m, c) /\ alive' = alive \ {c}

Close(c) ==
  /\ pc = "io" /\ c \in alive
  /\ close_connection(h, c)
  /\ UNCHANGED <<clock, pc, now, armed>>

(* epoll_wait and its callbacks are done; the next event_base_iter starts with run_timers. *)
EndIo ==
  /\ pc = "io"
  /\ pc' = "timers" /\ now' = clock
  /\ UNCHANGED <<h, alive, clock, armed>>

due_early(t) == t # NULL /\ now + 1 >= h.pay[t].trigger
due_late(t) == t # NULL /\ now > h.pay[t].trigger

(* The timer run_timers looks at has come due. *)
due(t) == t # NULL /\ now >= h.pay[t].trigger

(* One iteration of run_timers: the earliest timer is cancelled before its callback runs.  *)
(* An inactive one is only handed to del_timer, which leaves it where it is.               *)
RunTimer ==
  LET t == rbtree_leftmost(h, h.root[Base]) IN
  /\ pc = "timers"
  /\ due(t) /\ h.pay[t].active
  /\ LET m == del_timer(h, t) IN close_connection(m, m.pay[t].data)
  /\ UNCHANGED <<clock, pc, now, armed>>

EndTimers ==
  LET t == rbtree_leftmost(h, h.root[Base]) IN
  /\ pc = "timers"
  /\ ~due(t)
  /\ pc' = "io"
  /\ UNCHANGED <<h, alive, clock, now, armed>>

Next ==
  \/ Tick \/ EndIo \/ RunTimer \/ EndTimers
  \/ \E c \in Conns : Accept(c) \/ Reset(c) \/ Close(c)

Spec == Init /\ [][Next]_vars

----------------------------------------------------------------------------
(* Properties *)

(* The timers in the tree are those of the connections that exist, each once, active, with *)
(* the trigger of its last reset and its own connection as data.  In particular no timer   *)
(* whose connection was freed is left in the tree.                                         *)
TimersOfConnections ==
  /\ Reachable(h, Base) = alive
  /\ \A c \in alive : h.pay[c] = Payload(armed[c] + TIMEOUT, TRUE, c)

(* run_timers closes a connection only when a whole TIMEOUT has passed since its last      *)
(* reset, whatever was re-armed or closed in between.                                      *)
NeverEarly ==
  [][\A c \in Conns : pc = "timers" /\ c \in alive /\ c \notin alive' =>
       clock >= armed[c] + TIMEOUT]_vars

(* run_timers leaves nobody behind: when it goes over to run_io, every connection that is  *)
(* left has been reset less than TIMEOUT before run_timers began, though it looks only at  *)
(* the leftmost node and changes the tree under way.  How long run_io keeps the worker     *)
(* from coming back is not known: a callback may never return (connection.c:60).           *)
NoneLeftDue ==
  [][pc = "timers" /\ pc' = "io" => \A c \in alive : now < armed[c] + TIMEOUT]_vars
============================================================================
