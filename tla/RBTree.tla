------------------------------- MODULE RBTree -------------------------------
(***************************************************************************)
(* The red-black trees of src/rbtree.c in use: every tree belongs to one   *)
(* worker thread, which inserts and deletes nodes in it.  Nothing is       *)
(* shared between the workers except the sentinel, so with one tree this   *)
(* is the algorithm itself, and with several the workers' races on it.     *)
(*                                                                         *)
(* A step is what a thread does up to the next iteration of a fixup loop.  *)
(* The real threads interleave more finely than that; whatever the model   *)
(* does, they can do.                                                      *)
(***************************************************************************)
EXTENDS RBTreeOps

CONSTANT Triggers   \* the keys

ASSUME TriggersAssumption == Triggers \subseteq Nat

VARIABLES
  h,      \* the memory of the trees and nodes
  pc,     \* what each tree's worker is doing
  x,      \* its local x
  held,   \* history: how often each key was inserted and not deleted
  iter    \* history: the iterations of the fixup loop it is in

vars == <<h, pc, x, held, iter>>

Pay(k) == [trigger |-> k]

Init ==
  /\ h = rbtree_init(Pay(0))
  /\ pc = [t \in Trees |-> "idle"] /\ x = [t \in Trees |-> NULL]
  /\ held = [t \in Trees |-> [k \in Triggers |-> 0]] /\ iter = [t \in Trees |-> 0]

Linked == UNION {Reachable(h, t) : t \in Trees}

At(t, to, n) ==
  /\ pc' = [pc EXCEPT ![t] = to] /\ x' = [x EXCEPT ![t] = n]
  /\ iter' = [iter EXCEPT ![t] = IF to = pc[t] /\ to # "idle" THEN @ + 1 ELSE 0]

(* rbtree_insert of a node that is in no tree. *)
Insert(t, n, k) ==
  /\ pc[t] = "idle" /\ n \notin Linked
  /\ \A s \in Trees : x[s] # n
  /\ h' = Link(make_timer(h, n, Pay(k)), t, n)
  /\ At(t, "insert_fixup", n)
  /\ held' = [held EXCEPT ![t][k] = @ + 1]

InsertFixup(t) ==
  /\ pc[t] = "insert_fixup"
  /\ \/ /\ InsertFixupNeeded(h, t, x[t])
        /\ LET r == InsertFixupStep(h, t, x[t]) IN h' = r.h /\ At(t, "insert_fixup", r.x)
     \/ /\ ~InsertFixupNeeded(h, t, x[t])
        /\ h' = BlackenRoot(h, t) /\ At(t, "idle", NULL)
  /\ UNCHANGED held

(* rbtree_delete of a node in the tree.  The memory of the node that leaves the tree is    *)
(* dead: rbtree_insert writes all of it before anything reads it, so it is zeroed here.    *)
Delete(t, z) ==
  /\ pc[t] = "idle" /\ z \in Reachable(h, t)
  /\ LET r == Unlink(h, t, z) IN
     /\ h' = make_timer(r.h, r.y, Pay(0))
     /\ IF r.fix THEN At(t, "delete_fixup", r.x) ELSE At(t, "idle", NULL)
  /\ held' = [held EXCEPT ![t][h.pay[z].trigger] = @ - 1]

DeleteFixup(t) ==
  /\ pc[t] = "delete_fixup"
  /\ \/ /\ DeleteFixupNeeded(h, t, x[t])
        /\ LET r == DeleteFixupStep(h, t, x[t]) IN h' = r.h /\ At(t, "delete_fixup", r.x)
     \/ /\ ~DeleteFixupNeeded(h, t, x[t])
        /\ h' = Blacken(h, x[t]) /\ At(t, "idle", NULL)
  /\ UNCHANGED held

Next ==
  \E t \in Trees :
    \/ \E n \in Nodes, k \in Triggers : Insert(t, n, k)
    \/ \E z \in Nodes : Delete(t, z)
    \/ InsertFixup(t) \/ DeleteFixup(t)

Spec == Init /\ [][Next]_vars

----------------------------------------------------------------------------
(* Properties *)

Heaps ==
  [color : [Ptrs -> {"RBRED", "RBBLK"}],
   left : [Ptrs -> Ptrs \cup {NULL}], right : [Ptrs -> Ptrs \cup {NULL}],
   parent : [Ptrs -> Nodes \cup {NULL}],
   pay : [Nodes -> [trigger : Nat]], root : [Trees -> Ptrs]]

TypeOK ==
  /\ h \in Heaps
  /\ pc \in [Trees -> {"idle", "insert_fixup", "delete_fixup"}]
  /\ x \in [Trees -> Ptrs \cup {NULL}]
  /\ held \in [Trees -> [Triggers -> 0..Cardinality(Nodes)]]
  /\ iter \in [Trees -> Nat]

LeftOf(t, n) == IF h.left[n] = RBNIL THEN {} ELSE Reachable([h EXCEPT !.root[t] = h.left[n]], t)
RightOf(t, n) == IF h.right[n] = RBNIL THEN {} ELSE Reachable([h EXCEPT !.root[t] = h.right[n]], t)

(* At every moment, inside a fixup too, the tree holds exactly the keys inserted and not   *)
(* deleted, in search order, each node once, and the parent pointers that the rotations    *)
(* follow are right.                                                                       *)
HoldsInOrder ==
  \A t \in Trees :
    LET R == Reachable(h, t) IN
    /\ \A k \in Triggers : Cardinality({n \in R : h.pay[n].trigger = k}) = held[t][k]
    /\ \A n \in R :
         /\ \A m \in LeftOf(t, n) : h.pay[m].trigger <= h.pay[n].trigger
         /\ \A m \in RightOf(t, n) : h.pay[n].trigger <= h.pay[m].trigger
         /\ LeftOf(t, n) \cap RightOf(t, n) = {} /\ n \notin LeftOf(t, n) \cup RightOf(t, n)
         /\ h.parent[n] = NULL <=> n = h.root[t]
         /\ \A c \in {h.left[n], h.right[n]} \ {RBNIL} : h.parent[c] = n

(* The black nodes on the way from n up to the root. *)
BlackDepth(n) ==
  LET up[m \in Nodes \cup {NULL}] ==
        IF m = NULL THEN 0
        ELSE up[h.parent[m]] + (IF h.color[m] = "RBBLK" THEN 1 ELSE 0) IN up[n]

(* Between calls the tree is a red-black tree: a black root and sentinel, no red node with *)
(* a red child, and the same number of black nodes above every leaf.                       *)
Balanced ==
  /\ h.color[RBNIL] = "RBBLK"
  /\ \A t \in Trees : pc[t] = "idle" =>
       LET R == Reachable(h, t)
           leaves == {n \in R : RBNIL \in {h.left[n], h.right[n]}} IN
       /\ h.color[h.root[t]] = "RBBLK"
       /\ \A n \in R : h.color[n] = "RBRED" =>
            h.color[h.left[n]] = "RBBLK" /\ h.color[h.right[n]] = "RBBLK"
       /\ \A m, n \in leaves : BlackDepth(m) = BlackDepth(n)

(* rbtree_leftmost finds the earliest timer and rbtree_upper_bound the first one that is   *)
(* later than a given time, as a scan of all nodes would.                                  *)
SearchesFind ==
  \A t \in Trees : pc[t] = "idle" =>
    LET R == Reachable(h, t)
        first == rbtree_leftmost(h, h.root[t]) IN
    /\ first = NULL <=> R = {}
    /\ first # NULL => \A n \in R : h.pay[first].trigger <= h.pay[n].trigger
    /\ \A k \in Triggers :
         LET later == {n \in R : h.pay[n].trigger > k}
             ub == rbtree_upper_bound(h, t, Pay(k)) IN
         /\ ub = NULL <=> later = {}
         /\ ub # NULL => ub \in later /\ \A n \in later : h.pay[ub].trigger <= h.pay[n].trigger

Pow2[k \in Nat] == IF k = 0 THEN 1 ELSE 2 * Pow2[k - 1]

(* Every insert and delete comes to an end, and soon: a fixup loop climbs the tree by one  *)
(* black node an iteration, and makes at most log2(n + 1) of them with n nodes.            *)
FixupsEnd ==
  \A t \in Trees : Pow2[iter[t]] <= Cardinality(Reachable(h, t)) + 1

(* A delete_fixup works on its own worker's tree: the parent it climbs to through x, which *)
(* is the sentinel when a leaf was deleted, is a node of that tree.  It is false as soon   *)
(* as there are two workers, see MCRBTree_shared.cfg.                                      *)
FixupStaysHome ==
  \A t \in Trees : pc[t] = "delete_fixup" /\ DeleteFixupNeeded(h, t, x[t]) =>
    h.parent[x[t]] \in Reachable(h, t)
============================================================================
