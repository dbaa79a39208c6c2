------------------------------ MODULE RBTreeOps ------------------------------
(***************************************************************************)
(* The pointer algorithms of src/rbtree.c.  The memory of the nodes is one *)
(* record h: the fields color, left, right, parent of every struct rbnode, *)
(* the sentinel's included, pay for what follows struct rbnode in a node   *)
(* (the rest of a struct timer), and root for the root of every tree.      *)
(*                                                                         *)
(* The left and right versions of a C function are one operator with the   *)
(* side as a parameter: a field is selected by its name, h[side][x].  A    *)
(* loop of the C code that changes memory is one iteration here; the       *)
(* modules that use it iterate.                                            *)
(***************************************************************************)
EXTENDS Integers, FiniteSets

CONSTANTS
  Trees,   \* the trees, one per worker's event_base
  Nodes,   \* the nodes, each inside a struct timer
  RBNIL,   \* the one static sentinel, which every tree uses for its leaves
  NULL

ASSUME RBTreeAssumption ==
  /\ IsFiniteSet(Nodes)
  /\ RBNIL \notin Nodes /\ NULL \notin Nodes /\ RBNIL # NULL

Ptrs == Nodes \cup {RBNIL}

(* The nodes that succ, a set of nodes for every node, leads to from start. *)
Closure(succ, start) ==
  LET reach[d \in Nat] ==
        IF d = 0 THEN start ELSE reach[d - 1] \cup UNION {succ[n] : n \in reach[d - 1]}
  IN  reach[Cardinality(Nodes)]

(* A search that goes from a node n to next[n]: the nodes it visits from n on, and where   *)
(* it finds a leaf.                                                                        *)
Path(next, n) == Closure([m \in Nodes |-> {next[m]} \cap Nodes], {n})
PathEnd(next, n) == CHOOSE m \in Path(next, n) : next[m] = RBNIL

Other(side) == IF side = "left" THEN "right" ELSE "left"

timer_cmp_lt(a, b) == a.trigger < b.trigger

(* timer_cmp(a, b) <= 0 for the payloads a and b. *)
timer_cmp_le(a, b) == a.trigger <= b.trigger

(* The node of a struct timer as calloc and make_timer leave it, with the payload pay. *)
make_timer(h, n, pay) ==
  [h EXCEPT !.color[n] = "RBBLK", !.left[n] = NULL, !.right[n] = NULL, !.parent[n] = NULL,
            !.pay[n] = pay]

(* Empty trees, the static sentinel, and nodes whose memory is zero. *)
rbtree_init(zero) ==
  [color |-> [n \in Ptrs |-> "RBBLK"],
   left |-> [n \in Ptrs |-> IF n = RBNIL THEN RBNIL ELSE NULL],
   right |-> [n \in Ptrs |-> IF n = RBNIL THEN RBNIL ELSE NULL],
   parent |-> [n \in Ptrs |-> NULL],
   pay |-> [n \in Nodes |-> zero],
   root |-> [t \in Trees |-> RBNIL]]

(* p's child x becomes y, or the root does when p is NULL; side is the one tested first. *)
Replace(h, t, p, x, y, side) ==
  IF p = NULL THEN [h EXCEPT !.root[t] = y]
  ELSE IF h[side][p] = x THEN [h EXCEPT ![side][p] = y]
  ELSE [h EXCEPT ![Other(side)][p] = y]

----------------------------------------------------------------------------
(* n->parent = p, unless n is the sentinel *)
SetParent(h, n, p) == IF n = RBNIL THEN h ELSE [h EXCEPT !.parent[n] = p]

(* rotate_left for side = "left", rotate_right for side = "right" *)
Rotate(h, t, x, side) ==
  LET o == Other(side)
      y == h[o][x]
      inner == h[side][y]
      p == h.parent[x]
      moved == SetParent(SetParent([h EXCEPT ![o][x] = inner], inner, x), y, p)
      raised == Replace(moved, t, p, x, y, side) IN
  SetParent([raised EXCEPT ![side][y] = x], x, y)

----------------------------------------------------------------------------
(* rbtree_insert up to the call of insert_fixup: the search for the parent, the link. *)
Link(h, t, x) ==
  LET side(n) == IF timer_cmp_le(h.pay[x], h.pay[n]) THEN "left" ELSE "right"
      parent == IF h.root[t] = RBNIL THEN NULL
                ELSE PathEnd([n \in Nodes |-> h[side(n)][n]], h.root[t])
      fresh == [h EXCEPT !.color[x] = "RBRED", !.left[x] = RBNIL, !.right[x] = RBNIL,
                         !.parent[x] = parent] IN
  IF parent = NULL THEN [fresh EXCEPT !.root[t] = x]
  ELSE [fresh EXCEPT ![side(parent)][parent] = x]

InsertFixupNeeded(h, t, x) == x # h.root[t] /\ h.color[h.parent[x]] = "RBRED"

(* The end of the case of a black uncle: x's parent takes its grandparent's place. *)
RaiseParent(h, t, x, o) ==
  LET p == h.parent[x]
      g == h.parent[p] IN
  Rotate([h EXCEPT !.color[p] = "RBBLK", !.color[g] = "RBRED"], t, g, o)

(* One iteration of insert_fixup at x: the memory and the x it leaves. *)
InsertFixupStep(h, t, x) ==
  LET p == h.parent[x]
      g == h.parent[p]
      s == IF p = h.left[g] THEN "left" ELSE "right"
      o == Other(s)
      uncle == h[o][g] IN
  IF h.color[uncle] = "RBRED"
  THEN [h |-> [h EXCEPT !.color[p] = "RBBLK", !.color[uncle] = "RBBLK", !.color[g] = "RBRED"],
        x |-> g]
  ELSE IF x = h[o][p]
  THEN [h |-> RaiseParent(Rotate(h, t, p, s), t, p, o), x |-> p]
  ELSE [h |-> RaiseParent(h, t, x, o), x |-> x]

BlackenRoot(h, t) == [h EXCEPT !.color[h.root[t]] = "RBBLK"]

----------------------------------------------------------------------------
(* rbtree_leftmost of a node, the inner loop of rbtree_delete too. *)
Leftmost(h, n) == PathEnd(h.left, n)

rbtree_leftmost(h, n) == IF n = RBNIL THEN NULL ELSE Leftmost(h, n)

(* rbtree_upper_bound: the last node on the way down whose trigger is greater than v's. *)
rbtree_upper_bound(h, t, v) ==
  LET greater(n) == ~timer_cmp_le(h.pay[n], v)
      next == [n \in Nodes |-> IF greater(n) THEN h.left[n] ELSE h.right[n]]
      best == {n \in Path(next, h.root[t]) : greater(n)} IN
  IF h.root[t] = RBNIL \/ best = {} THEN NULL
  ELSE CHOOSE n \in best : best \cap Path(next, n) = {n}

SuccessorIsChild(h, z) ==
  IF h.left[z] = RBNIL \/ h.right[z] = RBNIL THEN z ELSE h.right[z]

(* The node rbtree_delete takes out of the tree. *)
Successor(h, z) ==
  IF h.left[z] = RBNIL \/ h.right[z] = RBNIL THEN z ELSE Leftmost(h, h.right[z])

(* x->parent = y->parent, also when x is the sentinel. *)
InheritParent(h, x, y) == [h EXCEPT !.parent[x] = h.parent[y]]

KeepPayload(h, z, y) == h

(* The memcpy from behind y's node to behind z's, nothing when y is z. *)
MovePayload(h, z, y) == [h EXCEPT !.pay[z] = h.pay[y]]

(* rbtree_delete up to the call of delete_fixup. *)
Unlink(h, t, z) ==
  LET y == Successor(h, z)
      x == IF h.left[y] # RBNIL THEN h.left[y] ELSE h.right[y]
      h1 == InheritParent(h, x, y)
      h2 == Replace(h1, t, h1.parent[y], y, x, "left") IN
  [h |-> MovePayload(h2, z, y), x |-> x, y |-> y, fix |-> h2.color[y] = "RBBLK"]

DeleteFixupNeeded(h, t, x) == x # h.root[t] /\ h.color[x] = "RBBLK"

(* The sibling of x, the child of its parent on side o. *)
Sibling(h, x, o) == h[o][h.parent[x]]

(* The first case of delete_fixup: a red sibling is rotated away. *)
BlackSibling(h, t, x, s) ==
  LET w == Sibling(h, x, Other(s)) IN
  IF h.color[w] = "RBRED"
  THEN Rotate([h EXCEPT !.color[w] = "RBBLK", !.color[h.parent[x]] = "RBRED"], t, h.parent[x], s)
  ELSE h

(* The third: the sibling's child away from x is made red. *)
RedOuterNephew(h, t, x, s) ==
  LET o == Other(s)
      w == Sibling(h, x, o) IN
  IF h.color[h[o][w]] = "RBBLK"
  THEN Rotate([h EXCEPT !.color[h[s][w]] = "RBBLK", !.color[w] = "RBRED"], t, w, o)
  ELSE h

(* The fourth: the sibling takes the parent's place, which ends the loop. *)
RaiseSibling(h, t, x, s) ==
  LET o == Other(s)
      w == Sibling(h, x, o)
      p == h.parent[x] IN
  Rotate([h EXCEPT !.color[w] = h.color[p], !.color[p] = "RBBLK", !.color[h[o][w]] = "RBBLK"],
         t, p, s)

KeepGoing(h, t, x) == x

(* x = t->root *)
Finish(h, t, x) == h.root[t]

(* What an iteration of delete_fixup does once the sibling is black. *)
DeleteFixupRest(h, t, x, s) ==
  LET w == Sibling(h, x, Other(s)) IN
  IF h.color[h.left[w]] = "RBBLK" /\ h.color[h.right[w]] = "RBBLK"
  THEN [h |-> [h EXCEPT !.color[w] = "RBRED"], x |-> h.parent[x]]
  ELSE LET raised == RaiseSibling(RedOuterNephew(h, t, x, s), t, x, s) IN
       [h |-> raised, x |-> Finish(raised, t, x)]

(* One iteration of delete_fixup at x. *)
DeleteFixupStep(h, t, x) ==
  LET s == IF x = h.left[h.parent[x]] THEN "left" ELSE "right" IN
  DeleteFixupRest(BlackSibling(h, t, x, s), t, x, s)

LeaveColor(h, x) == h

Blacken(h, x) == [h EXCEPT !.color[x] = "RBBLK"]

----------------------------------------------------------------------------
(* What a tree holds: the nodes that left and right lead to from the root. *)
Reachable(h, t) ==
  Closure([n \in Nodes |-> {h.left[n], h.right[n]} \cap Nodes], {h.root[t]} \cap Nodes)
============================================================================
