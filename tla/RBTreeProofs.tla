---------------------------- MODULE RBTreeProofs ----------------------------
(*******************************************************************************************)
(* The red-black tree of src/rbtree.c, proved for every number of nodes and every set of   *)
(* keys: a tree that is the only one, as with one worker thread.  Several trees share one  *)
(* sentinel, whose parent field rbtree_delete and delete_fixup use, and there the theorems *)
(* do not hold; MCRBTree_shared.cfg shows how that goes wrong.                             *)
(*                                                                                         *)
(* The provers have no induction over trees.  A tree is described instead by a place, an   *)
(* integer, for every node, and an interval for every subtree: a node's place is inside    *)
(* its interval and divides it between its children.  Shape says that.  It is a property   *)
(* of each node and its neighbours, which a rotation, a new leaf and a removed node change *)
(* in two or three nodes; and it gives what an induction would: a search goes to ever      *)
(* shorter intervals, the nodes below a node are those placed in its interval, and keys in *)
(* the order of the places are in search order.  The black nodes below a node are counted  *)
(* the same way, by a number for every node.  The invariant TreeInv says that there are    *)
(* such places and numbers, with the one exception at x that the running fixup is there to *)
(* repair.                                                                                 *)
(*******************************************************************************************)
EXTENDS RBTree, NumberLemmas, FiniteSetTheorems, TLAPS

(* The nodes S are linked as one binary tree with the root r: A and B are the child        *)
(* fields, P the parent field. Every node n has a place pos[n], and its subtree owns the   *)
(* open interval from lo[n] to hi[n], which a child divides at its parent's place. A leaf  *)
(* on a side means that the interval is empty there, and the intervals of two leaves do    *)
(* not overlap.                                                                            *)
Shape(A, B, P, r, S, pos, lo, hi, top) ==
  /\ S \subseteq Nodes /\ top \in Nat
  /\ pos \in [S -> Int] /\ lo \in [S -> Int] /\ hi \in [S -> Int]
  /\ \A n \in S : -top <= lo[n] /\ lo[n] < pos[n] /\ pos[n] < hi[n] /\ hi[n] <= top
  /\ \A m, n \in S : pos[m] = pos[n] => m = n
  /\ S = {} => r = RBNIL
  /\ S # {} => r \in S /\ lo[r] = -top /\ hi[r] = top
  /\ \A n \in S : A[n] \in S \cup {RBNIL} /\ B[n] \in S \cup {RBNIL}
  /\ \A n \in S : A[n] \in S => P[A[n]] = n /\ lo[A[n]] = lo[n] /\ hi[A[n]] = pos[n]
  /\ \A n \in S : B[n] \in S => P[B[n]] = n /\ lo[B[n]] = pos[n] /\ hi[B[n]] = hi[n]
  /\ \A n \in S : P[n] = NULL <=> n = r
  /\ \A n \in S : n # r => P[n] \in S /\ (A[P[n]] = n \/ B[P[n]] = n)
  /\ \A n, q \in S : A[n] = RBNIL => ~(lo[n] < pos[q] /\ pos[q] < pos[n])
  /\ \A n, q \in S : B[n] = RBNIL => ~(pos[n] < pos[q] /\ pos[q] < hi[n])
  /\ \A m, n \in S : A[m] = RBNIL /\ B[n] = RBNIL /\ pos[n] < pos[m] => hi[n] <= lo[m]

(* The places of a tree seen in a mirror. *)
Neg(f) == [n \in DOMAIN f |-> -f[n]]

(* A tree in a mirror: with the child fields exchanged and the places negated. What is     *)
(* proved for side A holds for side B by it, as one operator stands for the left and the   *)
(* right version of a C function.                                                          *)
LEMMA Mirror ==
  ASSUME NEW A, NEW B, NEW P, NEW r, NEW S, NEW pos, NEW lo, NEW hi, NEW top,
         Shape(A, B, P, r, S, pos, lo, hi, top)
  PROVE  /\ Shape(B, A, P, r, S, Neg(pos), Neg(hi), Neg(lo), top)
         /\ \A n \in S : Neg(pos)[n] = -pos[n] /\ Neg(lo)[n] = -lo[n] /\ Neg(hi)[n] = -hi[n]
<1> DEFINE p2 == Neg(pos)
           l2 == Neg(hi)
           h2 == Neg(lo)
<1>1. p2 \in [S -> Int] /\ l2 \in [S -> Int] /\ h2 \in [S -> Int]
  BY DEF Shape, Neg
<1>2. \A n \in S : /\ p2[n] = -pos[n] /\ l2[n] = -hi[n] /\ h2[n] = -lo[n]
                   /\ pos[n] \in Int /\ lo[n] \in Int /\ hi[n] \in Int
  BY DEF Shape, Neg
<1> HIDE DEF p2, l2, h2
<1>3. S \subseteq Nodes /\ top \in Nat
  BY DEF Shape
<1>4. \A n \in S : -top <= l2[n] /\ l2[n] < p2[n] /\ p2[n] < h2[n] /\ h2[n] <= top
  BY <1>2, <1>3 DEF Shape
<1>5. ASSUME NEW m \in S, NEW n \in S, p2[m] = p2[n] PROVE m = n
  <2>1. pos[m] = pos[n]
    BY <1>2, <1>5
  <2> QED
    BY <2>1 DEF Shape
<1>6. /\ S = {} => r = RBNIL
      /\ S # {} => r \in S /\ l2[r] = -top /\ h2[r] = top
  BY <1>2, <1>3 DEF Shape
<1>7. \A n \in S : B[n] \in S => P[B[n]] = n /\ l2[B[n]] = l2[n] /\ h2[B[n]] = p2[n]
  BY <1>2 DEF Shape
<1>8. \A n \in S : A[n] \in S => P[A[n]] = n /\ l2[A[n]] = p2[n] /\ h2[A[n]] = h2[n]
  BY <1>2 DEF Shape
<1>9. \A n, q \in S : B[n] = RBNIL => ~(l2[n] < p2[q] /\ p2[q] < p2[n])
  BY <1>2 DEF Shape
<1>10. \A n, q \in S : A[n] = RBNIL => ~(p2[n] < p2[q] /\ p2[q] < h2[n])
  BY <1>2 DEF Shape
<1>11. /\ \A n \in S : A[n] \in S \cup {RBNIL} /\ B[n] \in S \cup {RBNIL}
       /\ \A n \in S : P[n] = NULL <=> n = r
       /\ \A n \in S : n # r => P[n] \in S /\ (A[P[n]] = n \/ B[P[n]] = n)
  BY DEF Shape
<1>12. \A m, n \in S : B[m] = RBNIL /\ A[n] = RBNIL /\ p2[n] < p2[m] => h2[n] <= l2[m]
  BY <1>2 DEF Shape
<1>13. Shape(B, A, P, r, S, p2, l2, h2, top)
  BY <1>1, <1>3, <1>4, <1>5, <1>6, <1>7, <1>8, <1>9, <1>10, <1>11, <1>12 DEF Shape
<1> QED
  BY <1>2, <1>13 DEF p2, l2, h2

(* What a rotation at v does, towards A *)
Rotated(A, B, P, r, v, A2, B2, P2, r2) ==
  LET w == B[v] IN
  /\ \A n \in Nodes : A2[n] = IF n = w THEN v ELSE IF n = P[v] /\ A[n] = v THEN w ELSE A[n]
  /\ \A n \in Nodes : B2[n] = IF n = v THEN A[w] ELSE IF n = P[v] /\ A[n] # v THEN w ELSE B[n]
  /\ \A n \in Ptrs : P2[n] = IF n = v THEN w ELSE IF n = w THEN P[v]
                             ELSE IF n = A[w] /\ n # RBNIL THEN v ELSE P[n]
  /\ r2 = IF P[v] = NULL THEN w ELSE r

(* A rotation keeps every place: only the intervals of the two nodes it turns change. *)
LEMMA RotateShape ==
  ASSUME NEW A, NEW B, NEW P, NEW r, NEW S, NEW pos, NEW lo, NEW hi, NEW top,
         Shape(A, B, P, r, S, pos, lo, hi, top), NEW v \in S, B[v] \in S,
         NEW A2, NEW B2, NEW P2, NEW r2, Rotated(A, B, P, r, v, A2, B2, P2, r2)
  PROVE  Shape(A2, B2, P2, r2, S, pos, [lo EXCEPT ![B[v]] = lo[v]], [hi EXCEPT ![v] = pos[B[v]]], top)
<1>1. PICK w \in S : w = B[v]
  OBVIOUS
<1> DEFINE lo2 == [lo EXCEPT ![w] = lo[v]]
           hi2 == [hi EXCEPT ![v] = pos[w]]
<1>2. /\ S \subseteq Nodes /\ top \in Nat
      /\ pos \in [S -> Int] /\ lo \in [S -> Int] /\ hi \in [S -> Int]
      /\ lo2 \in [S -> Int] /\ hi2 \in [S -> Int]
  BY <1>1 DEF Shape
<1>3. \A n \in S : lo2[n] = (IF n = w THEN lo[v] ELSE lo[n]) /\ hi2[n] = IF n = v THEN pos[w] ELSE hi[n]
  BY <1>2
<1> HIDE DEF lo2, hi2
<1>4. /\ \A n \in S : A2[n] = IF n = w THEN v ELSE IF n = P[v] /\ A[n] = v THEN w ELSE A[n]
      /\ \A n \in S : B2[n] = IF n = v THEN A[w] ELSE IF n = P[v] /\ A[n] # v THEN w ELSE B[n]
      /\ \A n \in S : P2[n] = IF n = v THEN w ELSE IF n = w THEN P[v]
                              ELSE IF n = A[w] THEN v ELSE P[n]
      /\ r2 = IF P[v] = NULL THEN w ELSE r
  BY <1>1, <1>2, RBTreeAssumption DEF Rotated, Ptrs
<1>5. /\ lo[w] = pos[v] /\ hi[w] = hi[v] /\ P[w] = v /\ w # v
      /\ lo[v] < pos[v] /\ pos[v] < pos[w] /\ pos[w] < hi[v]
  BY <1>1, <1>2 DEF Shape
<1>6. \A n \in S : -top <= lo2[n] /\ lo2[n] < pos[n] /\ pos[n] < hi2[n] /\ hi2[n] <= top
  BY <1>1, <1>2, <1>3, <1>5 DEF Shape
<1>7. \A m, n \in S : pos[m] = pos[n] => m = n
  BY DEF Shape
<1>8. S # {} /\ r2 \in S /\ lo2[r2] = -top /\ hi2[r2] = top
  BY <1>1, <1>2, <1>3, <1>4, <1>5 DEF Shape
<1>9. \A n \in S : A2[n] \in S \cup {RBNIL} /\ B2[n] \in S \cup {RBNIL}
  BY <1>1, <1>4 DEF Shape
<1>10. \A n \in S : A2[n] \in S => P2[A2[n]] = n /\ lo2[A2[n]] = lo2[n] /\ hi2[A2[n]] = pos[n]
  BY <1>1, <1>2, <1>3, <1>4, <1>5 DEF Shape
<1>11. ASSUME NEW n \in S, B2[n] \in S
       PROVE  P2[B2[n]] = n /\ lo2[B2[n]] = pos[n] /\ hi2[B2[n]] = hi2[n]
  <2>1. CASE n = v
    BY <1>1, <1>2, <1>3, <1>4, <1>5, <1>11, <2>1 DEF Shape
  <2>2. CASE n # v /\ n = P[v] /\ A[n] # v
    <3>1. B2[n] = w /\ P2[w] = n
      BY <1>4, <1>5, <2>2
    <3>2. v # r /\ B[n] = v
      BY <1>2, <2>2, RBTreeAssumption DEF Shape
    <3>3. lo[v] = pos[n] /\ hi[v] = hi[n]
      BY <2>2, <3>2 DEF Shape
    <3> QED
      BY <1>3, <1>5, <2>2, <3>1, <3>3
  <2>3. CASE n # v /\ ~(n = P[v] /\ A[n] # v)
    <3>1. B2[n] = B[n] /\ B[n] \in S /\ P[B[n]] = n /\ lo[B[n]] = pos[n] /\ hi[B[n]] = hi[n]
      BY <1>4, <1>11, <2>3 DEF Shape
    <3>2. B[n] # v /\ B[n] # w
      BY <1>1, <1>2, <1>5, <2>3, <3>1 DEF Shape
    <3>3. B[n] # A[w]
      BY <1>1, <1>2, <1>5, <3>1 DEF Shape
    <3> QED
      BY <1>3, <1>4, <2>3, <3>1, <3>2, <3>3
  <2> QED
    BY <2>1, <2>2, <2>3
<1>12. \A n \in S : P2[n] = NULL <=> n = r2
  BY <1>1, <1>2, <1>4, <1>5, RBTreeAssumption DEF Shape
<1>13. \A n \in S : n # r2 => P2[n] \in S /\ (A2[P2[n]] = n \/ B2[P2[n]] = n)
  BY <1>1, <1>2, <1>4, <1>5, RBTreeAssumption DEF Shape
<1>14. \A n, q \in S : A2[n] = RBNIL => ~(lo2[n] < pos[q] /\ pos[q] < pos[n])
  BY <1>1, <1>2, <1>3, <1>4, <1>5, RBTreeAssumption DEF Shape
<1>15. \A n, q \in S : B2[n] = RBNIL => ~(pos[n] < pos[q] /\ pos[q] < hi2[n])
  BY <1>1, <1>2, <1>3, <1>4, <1>5, RBTreeAssumption DEF Shape
<1>16. ASSUME NEW m \in S, NEW n \in S, A2[m] = RBNIL, B2[n] = RBNIL, pos[n] < pos[m]
       PROVE  hi2[n] <= lo2[m]
  <2>1. A[m] = RBNIL /\ m # w /\ lo2[m] = lo[m]
    BY <1>1, <1>2, <1>3, <1>4, <1>16, RBTreeAssumption
  <2>2. CASE n = v
    <3>1. A[w] = RBNIL /\ hi2[n] = pos[w]
      BY <1>3, <1>4, <1>16, <2>2
    <3>2. /\ ~(lo[w] < pos[m] /\ pos[m] < pos[w]) /\ ~(lo[m] < pos[w] /\ pos[w] < pos[m])
          /\ pos[m] # pos[w]
      BY <2>1, <3>1 DEF Shape
    <3>3. pos[m] \in Int /\ lo[m] \in Int /\ pos[w] \in Int /\ pos[v] \in Int /\ lo[w] = pos[v] /\ pos[v] < pos[m]
      BY <1>2, <1>5, <1>16, <2>2
    <3> QED
      BY <2>1, <3>1, <3>2, <3>3
  <2>3. CASE n # v
    <3>1. B[n] = RBNIL /\ hi2[n] = hi[n]
      BY <1>1, <1>2, <1>3, <1>4, <1>16, <2>3, RBTreeAssumption
    <3> QED
      BY <1>16, <2>1, <3>1 DEF Shape
  <2> QED
    BY <2>2, <2>3
<1>17. Shape(A2, B2, P2, r2, S, pos, lo2, hi2, top)
  BY <1>2, <1>6, <1>7, <1>8, <1>9, <1>10, <1>11, <1>12, <1>13, <1>14, <1>15, <1>16 DEF Shape
<1> QED
  BY <1>1, <1>17 DEF lo2, hi2

(* A new leaf v on side A of p *)
LeafAdded(A, B, P, p, v, S, A2, B2, P2) ==
  \A n \in S \cup {v} :
    /\ A2[n] = IF n = p THEN v ELSE IF n = v THEN RBNIL ELSE A[n]
    /\ B2[n] = IF n = v THEN RBNIL ELSE B[n]
    /\ P2[n] = IF n = v THEN p ELSE P[n]

(* The tree over S and v that has v next to p, before p on side A *)
Grown(A, B, P, r, S, pos, p, v, top) ==
  \E pos2, lo2, hi2 :
    /\ Shape(A, B, P, r, S \cup {v}, pos2, lo2, hi2, 2 * top)
    /\ \A n \in S : pos2[n] = 2 * pos[n]
    /\ pos2[v] = 2 * pos[p] - 1

(* Linking a leaf: the places are doubled, which makes room for one next to p. *)
LEMMA LeafShape ==
  ASSUME NEW A, NEW B, NEW P, NEW r, NEW S, NEW pos, NEW lo, NEW hi, NEW top,
         Shape(A, B, P, r, S, pos, lo, hi, top), NEW p \in S, A[p] = RBNIL, NEW v \in Nodes, v \notin S,
         NEW A2, NEW B2, NEW P2, LeafAdded(A, B, P, p, v, S, A2, B2, P2)
  PROVE  Grown(A2, B2, P2, r, S, pos, p, v, top)
<1> DEFINE S2 == S \cup {v}
           pos2 == [n \in S2 |-> IF n = v THEN 2 * pos[p] - 1 ELSE 2 * pos[n]]
           lo2 == [n \in S2 |-> IF n = v THEN 2 * lo[p] ELSE 2 * lo[n]]
           hi2 == [n \in S2 |-> IF n = v THEN 2 * pos[p] ELSE 2 * hi[n]]
<1>1. S \subseteq Nodes /\ top \in Nat /\ \A n \in S : pos[n] \in Int /\ lo[n] \in Int /\ hi[n] \in Int
  BY DEF Shape
<1>2. pos2 \in [S2 -> Int] /\ lo2 \in [S2 -> Int] /\ hi2 \in [S2 -> Int]
  BY <1>1
<1>3. /\ \A n \in S : pos2[n] = 2 * pos[n] /\ lo2[n] = 2 * lo[n] /\ hi2[n] = 2 * hi[n]
      /\ pos2[v] = 2 * pos[p] - 1 /\ lo2[v] = 2 * lo[p] /\ hi2[v] = 2 * pos[p]
  OBVIOUS
<1> HIDE DEF pos2, lo2, hi2
<1>4. S2 \subseteq Nodes /\ 2 * top \in Nat /\ S2 # {} /\ S # {} /\ p # v /\ r # v
  BY <1>1 DEF Shape
<1>5. \A n \in S2 : /\ A2[n] = IF n = p THEN v ELSE IF n = v THEN RBNIL ELSE A[n]
                    /\ B2[n] = IF n = v THEN RBNIL ELSE B[n]
                    /\ P2[n] = IF n = v THEN p ELSE P[n]
  BY DEF LeafAdded
<1>6. /\ -top <= lo[p] /\ lo[p] < pos[p] /\ pos[p] < hi[p] /\ hi[p] <= top
  BY DEF Shape
<1>7. \A n \in S2 : -(2 * top) <= lo2[n] /\ lo2[n] < pos2[n] /\ pos2[n] < hi2[n] /\ hi2[n] <= 2 * top
  <2>1. \A n \in S : -(2 * top) <= lo2[n] /\ lo2[n] < pos2[n] /\ pos2[n] < hi2[n] /\ hi2[n] <= 2 * top
    BY <1>1, <1>3 DEF Shape
  <2>2. -(2 * top) <= lo2[v] /\ lo2[v] < pos2[v] /\ pos2[v] < hi2[v] /\ hi2[v] <= 2 * top
    BY <1>1, <1>3, <1>6
  <2> QED
    BY <2>1, <2>2
<1>8. \A m, n \in S2 : pos2[m] = pos2[n] => m = n
  <2>1. ASSUME NEW m \in S, NEW n \in S, pos2[m] = pos2[n] PROVE m = n
    <3>1. pos[m] = pos[n]
      BY <1>1, <1>3, <2>1
    <3> QED
      BY <3>1 DEF Shape
  <2>2. \A n \in S : pos2[n] # pos2[v]
    BY <1>1, <1>3
  <2> QED
    BY <2>1, <2>2
<1>9. r \in S2 /\ lo2[r] = -(2 * top) /\ hi2[r] = 2 * top
  BY <1>1, <1>3, <1>4 DEF Shape
<1>10. \A n \in S2 : A2[n] \in S2 \cup {RBNIL} /\ B2[n] \in S2 \cup {RBNIL}
  BY <1>5 DEF Shape
<1>11. \A n \in S2 : A2[n] \in S2 => P2[A2[n]] = n /\ lo2[A2[n]] = lo2[n] /\ hi2[A2[n]] = pos2[n]
  <2> SUFFICES ASSUME NEW n \in S2, A2[n] \in S2
               PROVE  P2[A2[n]] = n /\ lo2[A2[n]] = lo2[n] /\ hi2[A2[n]] = pos2[n]
    OBVIOUS
  <2>1. CASE n = p
    BY <1>3, <1>4, <1>5, <2>1
  <2>2. CASE n # p
    <3>1. n \in S /\ A2[n] = A[n] /\ A[n] \in S
      BY <1>1, <1>5, <2>2, RBTreeAssumption DEF Shape
    <3> QED
      BY <1>1, <1>3, <1>5, <3>1 DEF Shape
  <2> QED
    BY <2>1, <2>2
<1>12. \A n \in S2 : B2[n] \in S2 => P2[B2[n]] = n /\ lo2[B2[n]] = pos2[n] /\ hi2[B2[n]] = hi2[n]
  <2> SUFFICES ASSUME NEW n \in S2, B2[n] \in S2
               PROVE  P2[B2[n]] = n /\ lo2[B2[n]] = pos2[n] /\ hi2[B2[n]] = hi2[n]
    OBVIOUS
  <2>1. n \in S /\ B2[n] = B[n] /\ B[n] \in S
    BY <1>1, <1>5, RBTreeAssumption DEF Shape
  <2> QED
    BY <1>1, <1>3, <1>5, <2>1 DEF Shape
<1>13. \A n \in S2 : P2[n] = NULL <=> n = r
  BY <1>1, <1>4, <1>5, RBTreeAssumption DEF Shape
<1>14. ASSUME NEW n \in S2, n # r PROVE P2[n] \in S2 /\ (A2[P2[n]] = n \/ B2[P2[n]] = n)
  <2>1. CASE n = v
    BY <1>4, <1>5, <2>1
  <2>2. CASE n # v
    <3>1. n \in S /\ P2[n] = P[n] /\ P[n] \in S /\ (A[P[n]] = n \/ B[P[n]] = n) /\ n # RBNIL
      BY <1>1, <1>5, <1>14, <2>2, RBTreeAssumption DEF Shape
    <3> QED
      BY <1>4, <1>5, <3>1
  <2> QED
    BY <2>1, <2>2
<1>15. \A n, q \in S2 : A2[n] = RBNIL => ~(lo2[n] < pos2[q] /\ pos2[q] < pos2[n])
  <2> SUFFICES ASSUME NEW n \in S2, NEW q \in S2, A2[n] = RBNIL, lo2[n] < pos2[q], pos2[q] < pos2[n]
               PROVE  FALSE
    OBVIOUS
  <2>1. PICK m \in S : IF n = v THEN m = p ELSE m = n
    OBVIOUS
  <2>2. PICK u \in S : IF q = v THEN u = p ELSE u = q
    OBVIOUS
  <2>3. A[m] = RBNIL /\ (n # v => m # p)
    BY <1>4, <1>5, <2>1, RBTreeAssumption
  <2>4. lo[m] < pos[u] /\ pos[u] < pos[m]
    BY <1>1, <1>3, <2>1, <2>2, <2>3 DEF Shape
  <2> QED
    BY <2>3, <2>4 DEF Shape
<1>16. \A n, q \in S2 : B2[n] = RBNIL => ~(pos2[n] < pos2[q] /\ pos2[q] < hi2[n])
  <2> SUFFICES ASSUME NEW n \in S2, NEW q \in S2, B2[n] = RBNIL, pos2[n] < pos2[q], pos2[q] < hi2[n]
               PROVE  FALSE
    OBVIOUS
  <2>1. n # v
    BY <1>1, <1>3
  <2>2. PICK u \in S : IF q = v THEN u = p ELSE u = q
    OBVIOUS
  <2>3. pos[n] < pos[u] /\ pos[u] < hi[n]
    <3>1. /\ 2 * pos[n] < pos2[q] /\ pos2[q] < 2 * hi[n]
          /\ pos[n] \in Int /\ hi[n] \in Int /\ pos[u] \in Int
      BY <1>1, <1>3, <2>1
    <3>2. CASE q # v
      BY <1>3, <2>2, <3>1, <3>2
    <3>3. CASE q = v
      <4>1. u = p /\ 2 * pos[n] < 2 * pos[u] - 1 /\ 2 * pos[u] - 1 < 2 * hi[n]
        BY <1>3, <2>2, <3>1, <3>3
      <4>2. pos[n] < pos[u] /\ pos[u] <= hi[n]
        BY <3>1, <4>1
      <4>3. pos[u] # hi[n]
        <5>1. B[n] = RBNIL /\ n \in S
          BY <1>5, <2>1
        <5>2. hi[n] <= lo[p]
          BY <4>1, <4>2, <5>1 DEF Shape
        <5> QED
          BY <1>1, <1>6, <3>1, <4>1, <5>2
      <4> QED
        BY <3>1, <4>2, <4>3
    <3> QED
      BY <3>2, <3>3
  <2> QED
    BY <1>5, <2>1, <2>3 DEF Shape
<1>17. ASSUME NEW m \in S2, NEW n \in S2, A2[m] = RBNIL, B2[n] = RBNIL, pos2[n] < pos2[m]
       PROVE  hi2[n] <= lo2[m]
  <2>1. CASE m = v /\ n = v
    BY <1>1, <1>3, <1>17, <2>1
  <2>2. CASE m = v /\ n # v
    <3>1. B[n] = RBNIL /\ n \in S /\ 2 * pos[n] < 2 * pos[p] - 1 /\ pos[n] \in Int /\ pos[p] \in Int
      BY <1>1, <1>3, <1>5, <1>17, <2>2
    <3>2. hi[n] <= lo[p]
      <4>1. pos[n] < pos[p]
        BY <3>1
      <4> QED
        BY <3>1, <4>1 DEF Shape
    <3> QED
      BY <1>1, <1>3, <2>2, <3>1, <3>2
  <2>3. CASE m # v /\ n = v
    <3>1. m # p /\ A[m] = RBNIL /\ m \in S /\ 2 * pos[p] - 1 < 2 * pos[m]
      BY <1>1, <1>3, <1>4, <1>5, <1>17, <2>3, RBTreeAssumption
    <3>2. pos[m] # pos[p] /\ ~(lo[m] < pos[p] /\ pos[p] < pos[m])
      BY <3>1 DEF Shape
    <3>3. pos[m] \in Int /\ pos[p] \in Int /\ lo[m] \in Int
      BY <1>1, <3>1
    <3>4. pos[p] <= lo[m]
      BY <3>1, <3>2, <3>3
    <3> QED
      BY <1>3, <2>3, <3>1, <3>3, <3>4
  <2>4. CASE m # v /\ n # v
    <3>1. m \in S /\ n \in S /\ A[m] = RBNIL /\ B[n] = RBNIL
      BY <1>1, <1>4, <1>5, <1>17, <2>4, RBTreeAssumption
    <3>2. pos[n] < pos[m]
      BY <1>1, <1>3, <1>17, <3>1
    <3>3. hi[n] <= lo[m]
      BY <3>1, <3>2 DEF Shape
    <3> QED
      BY <1>1, <1>3, <3>1, <3>3
  <2> QED
    BY <2>1, <2>2, <2>3, <2>4
<1>18. Shape(A2, B2, P2, r, S2, pos2, lo2, hi2, 2 * top)
  BY <1>2, <1>4, <1>7, <1>8, <1>9, <1>10, <1>11, <1>12, <1>13, <1>14, <1>15, <1>16, <1>17 DEF Shape
<1> QED
  BY <1>3, <1>18 DEF Grown

(* v, which has no child on side A, is taken out of the tree *)
Removed(A, B, P, r, v, S2, A2, B2, P2, r2) ==
  /\ \A n \in S2 : /\ A2[n] = IF n = P[v] /\ A[n] = v THEN B[v] ELSE A[n]
                   /\ B2[n] = IF n = P[v] /\ B[n] = v THEN B[v] ELSE B[n]
                   /\ P2[n] = IF n = B[v] THEN P[v] ELSE P[n]
  /\ r2 = IF P[v] = NULL THEN B[v] ELSE r

(* The tree over S with the places it had *)
Cut(A, B, P, r, S, pos, top) ==
  \E pos2, lo2, hi2 : /\ Shape(A, B, P, r, S, pos2, lo2, hi2, top)
                     /\ \A n \in S : pos2[n] = pos[n]

(* Taking out a node that lacks a child: the others keep their places, and the subtree     *)
(* that moves up takes over the interval.                                                  *)
LEMMA RemoveShape ==
  ASSUME NEW A, NEW B, NEW P, NEW r, NEW S, NEW pos, NEW lo, NEW hi, NEW top,
         Shape(A, B, P, r, S, pos, lo, hi, top), NEW v \in S, A[v] = RBNIL, NEW S2, S2 = S \ {v},
         NEW A2, NEW B2, NEW P2, NEW r2, Removed(A, B, P, r, v, S2, A2, B2, P2, r2)
  PROVE  Cut(A2, B2, P2, r2, S2, pos, top)
<1> DEFINE pos2 == [n \in S2 |-> pos[n]]
           lo2 == [n \in S2 |-> IF lo[n] = pos[v] THEN lo[v] ELSE lo[n]]
           hi2 == [n \in S2 |-> hi[n]]
<1>1. /\ S \subseteq Nodes /\ top \in Nat
      /\ \A n \in S : pos[n] \in Int /\ lo[n] \in Int /\ hi[n] \in Int
  BY DEF Shape
<1>2. pos2 \in [S2 -> Int] /\ lo2 \in [S2 -> Int] /\ hi2 \in [S2 -> Int]
  BY <1>1
<1>3. \A n \in S2 : pos2[n] = pos[n] /\ hi2[n] = hi[n] /\ lo2[n] = IF lo[n] = pos[v] THEN lo[v] ELSE lo[n]
  OBVIOUS
<1> HIDE DEF pos2, lo2, hi2
<1>4. /\ -top <= lo[v] /\ lo[v] < pos[v] /\ pos[v] < hi[v] /\ hi[v] <= top
      /\ \A n \in S2 : pos[n] # pos[v]
      /\ B[v] \in S \cup {RBNIL}
      /\ B[v] \in S => P[B[v]] = v /\ lo[B[v]] = pos[v] /\ hi[B[v]] = hi[v] /\ B[v] # v
      /\ P[v] = NULL <=> v = r
      /\ P[v] # NULL => P[v] \in S2 /\ (A[P[v]] = v \/ B[P[v]] = v)
      /\ \A n \in S : (A[n] = v \/ B[n] = v) => n = P[v]
      /\ \A n \in S : (A[n] = B[v] \/ B[n] = B[v]) /\ B[v] # RBNIL => n = v
  BY <1>1 DEF Shape
<1>5. \A n \in S2 : -top <= lo2[n] /\ lo2[n] < pos2[n] /\ pos2[n] < hi2[n] /\ hi2[n] <= top
  BY <1>1, <1>3, <1>4 DEF Shape
<1>6. \A m, n \in S2 : pos2[m] = pos2[n] => m = n
  BY <1>3 DEF Shape
<1>7. /\ \A n \in S2 : /\ A2[n] = IF n = P[v] /\ A[n] = v THEN B[v] ELSE A[n]
                       /\ B2[n] = IF n = P[v] /\ B[n] = v THEN B[v] ELSE B[n]
                       /\ P2[n] = IF n = B[v] THEN P[v] ELSE P[n]
      /\ r2 = IF P[v] = NULL THEN B[v] ELSE r
  BY DEF Removed
<1>8. /\ S2 = {} => r2 = RBNIL
      /\ S2 # {} => r2 \in S2 /\ lo2[r2] = -top /\ hi2[r2] = top
  <2>1. CASE P[v] = NULL
    <3>1. v = r /\ r2 = B[v] /\ lo[v] = -top /\ hi[v] = top
      BY <1>4, <1>7, <2>1 DEF Shape
    <3>2. CASE B[v] = RBNIL
      <4>1. \A q \in S : q = v
        BY <1>1, <1>4, <3>1, <3>2 DEF Shape
      <4> QED
        BY <3>1, <3>2, <4>1
    <3>3. CASE B[v] # RBNIL
      BY <1>3, <1>4, <3>1, <3>3
    <3> QED
      BY <3>2, <3>3
  <2>2. CASE P[v] # NULL
    <3>1. r2 = r /\ r \in S2 /\ lo[r] = -top /\ hi[r] = top
      BY <1>4, <1>7, <2>2 DEF Shape
    <3>2. lo[r] # pos[v]
      BY <1>1, <1>4, <3>1
    <3> QED
      BY <1>3, <3>1, <3>2
  <2> QED
    BY <2>1, <2>2
<1>9. \A n \in S2 : A2[n] \in S2 \cup {RBNIL} /\ B2[n] \in S2 \cup {RBNIL}
  BY <1>4, <1>7 DEF Shape
<1>10. \A n \in S2 : A2[n] \in S2 => P2[A2[n]] = n /\ lo2[A2[n]] = lo2[n] /\ hi2[A2[n]] = pos2[n]
  <2> SUFFICES ASSUME NEW n \in S2, A2[n] \in S2
               PROVE  P2[A2[n]] = n /\ lo2[A2[n]] = lo2[n] /\ hi2[A2[n]] = pos2[n]
    OBVIOUS
  <2>1. CASE n = P[v] /\ A[n] = v
    <3>1. A2[n] = B[v] /\ B[v] \in S2 /\ lo[v] = lo[n] /\ hi[v] = pos[n]
      BY <1>7, <2>1 DEF Shape
    <3>2. lo[n] # pos[v]
      BY <1>1, <1>4, <3>1
    <3> QED
      BY <1>3, <1>4, <1>7, <2>1, <3>1, <3>2
  <2>2. CASE ~(n = P[v] /\ A[n] = v)
    <3>1. A2[n] = A[n] /\ A[n] \in S2 /\ A[n] # B[v]
      BY <1>1, <1>4, <1>7, <2>2, RBTreeAssumption
    <3> QED
      BY <1>3, <1>7, <3>1 DEF Shape
  <2> QED
    BY <2>1, <2>2
<1>11. \A n \in S2 : B2[n] \in S2 => P2[B2[n]] = n /\ lo2[B2[n]] = pos2[n] /\ hi2[B2[n]] = hi2[n]
  <2> SUFFICES ASSUME NEW n \in S2, B2[n] \in S2
               PROVE  P2[B2[n]] = n /\ lo2[B2[n]] = pos2[n] /\ hi2[B2[n]] = hi2[n]
    OBVIOUS
  <2>1. CASE n = P[v] /\ B[n] = v
    <3>1. B2[n] = B[v] /\ B[v] \in S2 /\ lo[v] = pos[n] /\ hi[v] = hi[n]
      BY <1>7, <2>1 DEF Shape
    <3> QED
      BY <1>3, <1>4, <1>7, <2>1, <3>1
  <2>2. CASE ~(n = P[v] /\ B[n] = v)
    <3>1. B2[n] = B[n] /\ B[n] \in S2 /\ B[n] # B[v]
      BY <1>1, <1>4, <1>7, <2>2, RBTreeAssumption
    <3> QED
      BY <1>3, <1>4, <1>7, <3>1 DEF Shape
  <2> QED
    BY <2>1, <2>2
<1>12. \A n \in S2 : P2[n] = NULL <=> n = r2
  BY <1>1, <1>4, <1>7, RBTreeAssumption DEF Shape
<1>13. \A n \in S2 : n # r2 => P2[n] \in S2 /\ (A2[P2[n]] = n \/ B2[P2[n]] = n)
  BY <1>1, <1>4, <1>7, RBTreeAssumption DEF Shape
<1>14. \A q \in S2 : ~(lo[v] < pos[q] /\ pos[q] < pos[v]) /\ (B[v] = RBNIL => ~(pos[v] < pos[q] /\ pos[q] < hi[v]))
  BY DEF Shape
<1>15. \A n, q \in S2 : A2[n] = RBNIL => ~(lo2[n] < pos2[q] /\ pos2[q] < pos2[n])
  <2> SUFFICES ASSUME NEW n \in S2, NEW q \in S2, A2[n] = RBNIL, lo2[n] < pos2[q], pos2[q] < pos2[n]
               PROVE  FALSE
    OBVIOUS
  <2>1. CASE n = P[v] /\ A[n] = v
    <3>1. B[v] = RBNIL /\ lo[v] = lo[n] /\ hi[v] = pos[n]
      BY <1>7, <2>1 DEF Shape
    <3> QED
      BY <1>1, <1>3, <1>4, <1>14, <3>1
  <2>2. CASE ~(n = P[v] /\ A[n] = v)
    <3>1. A[n] = RBNIL
      BY <1>7, <2>2
    <3>2. ~(lo[n] < pos[q] /\ pos[q] < pos[n])
      BY <3>1 DEF Shape
    <3> QED
      BY <1>1, <1>3, <1>4, <1>14, <3>2
  <2> QED
    BY <2>1, <2>2
<1>16. \A n, q \in S2 : B2[n] = RBNIL => ~(pos2[n] < pos2[q] /\ pos2[q] < hi2[n])
  <2> SUFFICES ASSUME NEW n \in S2, NEW q \in S2, B2[n] = RBNIL, pos2[n] < pos2[q], pos2[q] < hi2[n]
               PROVE  FALSE
    OBVIOUS
  <2>1. CASE n = P[v] /\ B[n] = v
    <3>1. B[v] = RBNIL /\ lo[v] = pos[n] /\ hi[v] = hi[n]
      BY <1>7, <2>1 DEF Shape
    <3> QED
      BY <1>1, <1>3, <1>4, <1>14, <3>1
  <2>2. CASE ~(n = P[v] /\ B[n] = v)
    BY <1>3, <1>7, <2>2 DEF Shape
  <2> QED
    BY <2>1, <2>2
<1>17. ASSUME NEW m \in S2, NEW n \in S2, A2[m] = RBNIL, B2[n] = RBNIL, pos2[n] < pos2[m]
       PROVE  hi2[n] <= lo2[m]
  <2>1. /\ pos[n] < pos[m] /\ hi2[n] = hi[n] /\ lo2[m] = (IF lo[m] = pos[v] THEN lo[v] ELSE lo[m])
        /\ \A q \in S : lo[q] < pos[q] /\ pos[q] < hi[q]
    BY <1>3, <1>17 DEF Shape
  <2>2. CASE A[m] = RBNIL /\ B[n] = RBNIL
    <3>1. hi[n] <= lo[m]
      BY <2>1, <2>2 DEF Shape
    <3>2. pos[n] < pos[v] => hi[n] <= lo[v]
      BY <2>2 DEF Shape
    <3> QED
      BY <1>1, <2>1, <3>1, <3>2
  <2>3. CASE A[m] # RBNIL
    <3>1. m = P[v] /\ A[m] = v /\ B[v] = RBNIL /\ lo[v] = lo[m] /\ hi[v] = pos[m]
      BY <1>7, <1>17, <2>3 DEF Shape
    <3>2. ~(n = P[v] /\ B[n] = v)
      BY <1>1, <1>17, <2>1, <3>1
    <3>3. B[n] = RBNIL
      BY <1>7, <1>17, <3>2
    <3>4. pos[n] < pos[v] => hi[n] <= lo[v]
      BY <3>3 DEF Shape
    <3> QED
      BY <1>1, <1>4, <1>14, <2>1, <3>1, <3>4
  <2>4. CASE B[n] # RBNIL
    <3>1. n = P[v] /\ B[n] = v /\ B[v] = RBNIL /\ lo[v] = pos[n] /\ hi[v] = hi[n]
      BY <1>7, <1>17, <2>4 DEF Shape
    <3>2. ~(m = P[v] /\ A[m] = v)
      BY <1>1, <1>17, <2>1, <3>1
    <3>3. A[m] = RBNIL
      BY <1>7, <1>17, <3>2
    <3>4. pos[v] < pos[m] => hi[v] <= lo[m]
      BY <3>1, <3>3 DEF Shape
    <3> QED
      BY <1>1, <1>4, <1>14, <2>1, <3>1, <3>4
  <2> QED
    BY <2>2, <2>3, <2>4
<1>18. Shape(A2, B2, P2, r2, S2, pos2, lo2, hi2, top)
  BY <1>1, <1>2, <1>5, <1>6, <1>8, <1>9, <1>10, <1>11, <1>12, <1>13, <1>15, <1>16, <1>17 DEF Shape
<1> QED
  BY <1>3, <1>18 DEF Cut
----------------------------------------------------------------------------
(* The child fields of a node. *)
Sides == {"left", "right"}

(* The tree t of mem is a binary tree over S, with the nodes in the order pos. *)
Tree(mem, t, S, pos, top) ==
  \E lo, hi : Shape(mem.left, mem.right, mem.parent, mem.root[t], S, pos, lo, hi, top)

(* What a tree's pointers satisfy without places: children and parents agree, and no node  *)
(* is its own ancestor within three steps, as far as one iteration of a fixup looks.       *)
Links(A, B, P, r, S) ==
  /\ S \subseteq Nodes
  /\ S = {} => r = RBNIL
  /\ S # {} => r \in S
  /\ \A n \in S : A[n] \in S \cup {RBNIL} /\ B[n] \in S \cup {RBNIL}
  /\ \A n \in S : A[n] \in S => P[A[n]] = n
  /\ \A n \in S : B[n] \in S => P[B[n]] = n
  /\ \A n \in S : A[n] = B[n] => A[n] = RBNIL
  /\ \A n \in S : P[n] = NULL <=> n = r
  /\ \A n \in S : n # r => P[n] \in S /\ (A[P[n]] = n \/ B[P[n]] = n)
  /\ \A n \in S : P[n] # n
  /\ \A n \in S : P[n] \in S => P[P[n]] # n
  /\ \A n \in S : P[n] \in S /\ P[P[n]] \in S => P[P[P[n]]] # n

(* A tree has these pointers, in the mirror too. *)
LEMMA ShapeLinks ==
  ASSUME NEW A, NEW B, NEW P, NEW r, NEW S, NEW pos, NEW lo, NEW hi, NEW top,
         Shape(A, B, P, r, S, pos, lo, hi, top)
  PROVE  Links(A, B, P, r, S) /\ Links(B, A, P, r, S)
<1>1. /\ S \subseteq Nodes
      /\ S = {} => r = RBNIL
      /\ S # {} => r \in S
      /\ \A n \in S : A[n] \in S \cup {RBNIL} /\ B[n] \in S \cup {RBNIL}
      /\ \A n \in S : A[n] \in S => P[A[n]] = n
      /\ \A n \in S : B[n] \in S => P[B[n]] = n
      /\ \A n \in S : P[n] = NULL <=> n = r
      /\ \A n \in S : n # r => P[n] \in S /\ (A[P[n]] = n \/ B[P[n]] = n)
  BY DEF Shape
<1> DEFINE size(n) == hi[n] - lo[n]
<1>2. ASSUME NEW n \in S, P[n] \in S PROVE size(n) \in Int /\ size(P[n]) \in Int /\ size(n) < size(P[n])
  <2>1. /\ lo[n] \in Int /\ hi[n] \in Int /\ pos[n] \in Int
        /\ lo[P[n]] \in Int /\ hi[P[n]] \in Int /\ pos[P[n]] \in Int
        /\ lo[P[n]] < pos[P[n]] /\ pos[P[n]] < hi[P[n]]
    BY <1>2 DEF Shape
  <2>2. n # r /\ (A[P[n]] = n \/ B[P[n]] = n)
    BY <1>1, <1>2, RBTreeAssumption
  <2>3. (lo[n] = lo[P[n]] /\ hi[n] = pos[P[n]]) \/ (lo[n] = pos[P[n]] /\ hi[n] = hi[P[n]])
    BY <1>2, <2>2 DEF Shape
  <2> QED
    BY <2>1, <2>3
<1> HIDE DEF size
<1>3. /\ \A n \in S : P[n] # n
      /\ \A n \in S : P[n] \in S => P[P[n]] # n
      /\ \A n \in S : P[n] \in S /\ P[P[n]] \in S => P[P[P[n]]] # n
  BY <1>2
<1>4. ASSUME NEW n \in S, A[n] = B[n] PROVE A[n] = RBNIL
  <2>1. A[n] \in S => pos[n] = lo[A[n]] /\ lo[A[n]] = lo[n] /\ lo[n] \in Int /\ pos[n] \in Int /\ lo[n] < pos[n]
    BY <1>4 DEF Shape
  <2> QED
    BY <1>1, <2>1
<1> QED
  BY <1>1, <1>3, <1>4 DEF Links

(* The same for a tree in memory, on either side. *)
LEMMA TreeLinks ==
  ASSUME NEW mem, NEW t, NEW S, NEW pos, NEW top, NEW s \in Sides, Tree(mem, t, S, pos, top)
  PROVE  Links(mem[s], mem[Other(s)], mem.parent, mem.root[t], S)
BY ShapeLinks DEF Tree, Sides, Other

(* a->s = b for a side s. *)
SetChild(mem, s, a, b) == [mem EXCEPT ![s][a] = b]

(* What that assignment changes and leaves alone. *)
LEMMA SetChildFacts ==
  ASSUME NEW mem \in Heaps, NEW s \in Sides, NEW a \in Ptrs, NEW b \in Ptrs
  PROVE  LET m2 == SetChild(mem, s, a, b) IN
         /\ m2 \in Heaps /\ m2.color = mem.color /\ m2.pay = mem.pay /\ m2.root = mem.root
         /\ m2.parent = mem.parent /\ m2[Other(s)] = mem[Other(s)]
         /\ m2[s] = [mem[s] EXCEPT ![a] = b]
<1>1. CASE s = "left"
  BY <1>1 DEF Heaps, Other, SetChild
<1>2. CASE s = "right"
  BY <1>2 DEF Heaps, Other, SetChild
<1> QED
  BY <1>1, <1>2 DEF Sides

(* What SetParent changes and leaves alone. *)
LEMMA SetParentFacts ==
  ASSUME NEW mem \in Heaps, NEW a \in Ptrs, NEW b \in Nodes \cup {NULL}, NEW s \in Sides
  PROVE  LET m2 == SetParent(mem, a, b) IN
         /\ m2 \in Heaps /\ m2.color = mem.color /\ m2.pay = mem.pay /\ m2.root = mem.root
         /\ m2[s] = mem[s]
         /\ m2.parent = IF a = RBNIL THEN mem.parent ELSE [mem.parent EXCEPT ![a] = b]
BY DEF Heaps, SetParent, Sides

(* What Replace changes and leaves alone. *)
LEMMA ReplaceFacts ==
  ASSUME NEW mem \in Heaps, NEW t \in Trees, NEW s \in Sides, NEW p \in Nodes \cup {NULL},
         NEW u, NEW y \in Ptrs, NEW m2, m2 = Replace(mem, t, p, u, y, s)
  PROVE  /\ m2 \in Heaps /\ m2.color = mem.color /\ m2.pay = mem.pay /\ m2.parent = mem.parent
         /\ m2.root[t] = IF p = NULL THEN y ELSE mem.root[t]
         /\ m2[s] = IF p # NULL /\ mem[s][p] = u THEN [mem[s] EXCEPT ![p] = y] ELSE mem[s]
         /\ m2[Other(s)] = IF p # NULL /\ mem[s][p] # u THEN [mem[Other(s)] EXCEPT ![p] = y]
                           ELSE mem[Other(s)]
<1>1. CASE p = NULL
  <2>1. m2 = [mem EXCEPT !.root[t] = y]
    BY <1>1 DEF Replace
  <2> QED
    BY <1>1, <2>1 DEF Heaps, Sides, Other
<1>2. CASE p # NULL /\ mem[s][p] = u
  <2>1. m2 = SetChild(mem, s, p, y) /\ p \in Ptrs
    BY <1>2 DEF Replace, Ptrs, SetChild
  <2> QED
    BY <1>2, <2>1, SetChildFacts
<1>3. CASE p # NULL /\ mem[s][p] # u
  <2>1. m2 = SetChild(mem, Other(s), p, y) /\ p \in Ptrs
    BY <1>3 DEF Replace, Ptrs, SetChild
  <2>2. Other(s) \in Sides /\ Other(Other(s)) = s
    BY DEF Other, Sides
  <2> QED
    BY <1>3, <2>1, <2>2, SetChildFacts
<1> QED
  BY <1>1, <1>2, <1>3

(* Where rotate_left and rotate_right leave every pointer, when the node, its child, its   *)
(* grandchild and its parent are as they are in a tree.                                    *)
LEMMA RotateFacts ==
  ASSUME NEW mem \in Heaps, NEW t \in Trees, NEW s \in Sides, NEW v \in Nodes, mem[Other(s)][v] \in Nodes,
         mem[s][mem[Other(s)][v]] \in Ptrs, mem.parent[v] # v, mem[s][mem[Other(s)][v]] # v,
         mem[Other(s)][v] # v, mem[s][mem[Other(s)][v]] # mem[Other(s)][v],
         mem.parent[v] # mem[Other(s)][v],
         mem.parent[v] \in Nodes => mem[s][mem.parent[v]] = v \/ mem[Other(s)][mem.parent[v]] = v,
         NEW m2, m2 = Rotate(mem, t, v, s)
  PROVE  /\ m2 \in Heaps /\ m2.color = mem.color /\ m2.pay = mem.pay
         /\ Rotated(mem[s], mem[Other(s)], mem.parent, mem.root[t], v,
                    m2[s], m2[Other(s)], m2.parent, m2.root[t])
<1> DEFINE o == Other(s)
           w == mem[o][v]
           c == mem[s][w]
           p == mem.parent[v]
           k1 == SetChild(mem, o, v, c)
           k2 == SetParent(k1, c, v)
           k3 == SetParent(k2, w, p)
           k4 == Replace(k3, t, p, v, w, s)
           k5 == SetChild(k4, s, w, v)
           k6 == SetParent(k5, v, w)
<1>1. /\ w # RBNIL /\ v # RBNIL /\ o \in Sides /\ Other(o) = s /\ v \in Ptrs
      /\ w \in Nodes /\ w \in Ptrs /\ c \in Ptrs /\ p \in Nodes \cup {NULL}
  BY RBTreeAssumption DEF Sides, Other, Ptrs, Heaps
<1>2. /\ k1 \in Heaps /\ k1.color = mem.color /\ k1.pay = mem.pay /\ k1.root = mem.root
      /\ k1.parent = mem.parent /\ k1[s] = mem[s] /\ k1[o] = [mem[o] EXCEPT ![v] = c]
  <2> HIDE DEF o, w, c, p
  <2> QED
    BY <1>1, SetChildFacts
<1>3. m2 = k6
  BY DEF Rotate, SetChild
<1> HIDE DEF k1
<1>4. /\ k2 \in Heaps /\ k2.color = mem.color /\ k2.pay = mem.pay /\ k2.root = mem.root
      /\ k2[s] = k1[s] /\ k2[o] = k1[o]
      /\ k2.parent = IF c = RBNIL THEN mem.parent ELSE [mem.parent EXCEPT ![c] = v]
  <2> HIDE DEF o, w, c, p
  <2> QED
    BY <1>1, <1>2, SetParentFacts
<1> HIDE DEF k2
<1>5. /\ k3 \in Heaps /\ k3.color = mem.color /\ k3.pay = mem.pay /\ k3.root = mem.root
      /\ k3[s] = k1[s] /\ k3[o] = k1[o]
      /\ k3.parent = [k2.parent EXCEPT ![w] = p]
  <2> HIDE DEF o, w, c, p
  <2>1. ASSUME NEW q \in Sides
        PROVE  /\ k3 \in Heaps /\ k3.color = k2.color /\ k3.pay = k2.pay /\ k3.root = k2.root
               /\ k3[q] = k2[q] /\ k3.parent = IF w = RBNIL THEN k2.parent ELSE [k2.parent EXCEPT ![w] = p]
    <3>1. w \in Ptrs /\ p \in Nodes \cup {NULL} /\ k2 \in Heaps
      BY <1>1, <1>4
    <3> QED
      BY <3>1, SetParentFacts, ZenonT(40)
  <2> HIDE DEF k3
  <2> QED
    BY <1>1, <1>4, <2>1
<1> HIDE DEF k3
<1>6. /\ k4 \in Heaps /\ k4.color = mem.color /\ k4.pay = mem.pay /\ k4.parent = k3.parent
      /\ k4.root[t] = IF p = NULL THEN w ELSE mem.root[t]
      /\ k4[s] = IF p # NULL /\ k3[s][p] = v THEN [k3[s] EXCEPT ![p] = w] ELSE k3[s]
      /\ k4[o] = IF p # NULL /\ k3[s][p] # v THEN [k3[o] EXCEPT ![p] = w] ELSE k3[o]
  BY <1>1, <1>5, ReplaceFacts
<1> HIDE DEF k4
<1>7. /\ k5 \in Heaps /\ k5.color = mem.color /\ k5.pay = mem.pay /\ k5.root = k4.root
      /\ k5.parent = k3.parent /\ k5[s] = [k4[s] EXCEPT ![w] = v] /\ k5[o] = k4[o]
  <2> HIDE DEF w, c, p
  <2> QED
    BY <1>1, <1>6, SetChildFacts
<1> HIDE DEF k5
<1>8. /\ k6 \in Heaps /\ k6.color = mem.color /\ k6.pay = mem.pay /\ k6.root = k4.root
      /\ k6.parent = [k3.parent EXCEPT ![v] = w] /\ k6[s] = k5[s] /\ k6[o] = k5[o]
  <2> HIDE DEF o, w, c, p
  <2> QED
    BY <1>1, <1>7, SetParentFacts
<1> HIDE DEF k6
<1>9. mem[s] \in [Ptrs -> Ptrs \cup {NULL}] /\ mem[o] \in [Ptrs -> Ptrs \cup {NULL}]
       /\ mem.parent \in [Ptrs -> Nodes \cup {NULL}]
  BY <1>1 DEF Heaps, Sides
<1>10. v # w /\ c # v /\ c # w /\ p # v /\ p # w /\ (p # NULL => mem[s][p] = v \/ mem[o][p] = v) /\ Nodes \subseteq Ptrs
  BY <1>1 DEF Ptrs
<1> HIDE DEF o, p, c, w
<1>11. k6.parent = [[k2.parent EXCEPT ![w] = p] EXCEPT ![v] = w]
  BY <1>5, <1>8
<1>12. \A n \in Ptrs : k6.parent[n] = IF n = v THEN w ELSE IF n = w THEN p ELSE IF n = c /\ n # RBNIL THEN v ELSE mem.parent[n]
  BY <1>1, <1>4, <1>9, <1>10, <1>11
<1>13. \A n \in Nodes : k6[s][n] = IF n = w THEN v ELSE IF n = p /\ mem[s][n] = v THEN w ELSE mem[s][n]
  BY <1>1, <1>2, <1>5, <1>6, <1>7, <1>8, <1>9, <1>10, RBTreeAssumption
<1>14. \A n \in Nodes : k6[o][n] = IF n = v THEN c ELSE IF n = p /\ mem[s][n] # v THEN w ELSE mem[o][n]
  BY <1>1, <1>2, <1>5, <1>6, <1>7, <1>8, <1>9, <1>10, RBTreeAssumption
<1>15. k6.root[t] = IF p = NULL THEN w ELSE mem.root[t]
  BY <1>6, <1>8
<1> QED
  BY <1>3, <1>8, <1>12, <1>13, <1>14, <1>15 DEF Rotated, o, p, c, w

(* The two sides. *)
LEMMA OtherSide == ASSUME NEW s \in Sides PROVE Other(s) \in Sides /\ Other(Other(s)) = s /\ Other(s) # s
BY DEF Sides, Other

(* Negating the places twice. *)
LEMMA NegNeg ==
  ASSUME NEW S, NEW f \in [S -> Int] PROVE Neg(Neg(f)) = f /\ Neg(f) \in [S -> Int]
BY DEF Neg

(* A tree in memory seen from a side. *)
LEMMA TreeSides ==
  ASSUME NEW mem, NEW t, NEW S, NEW pos, NEW top, NEW s \in Sides, Tree(mem, t, S, pos, top)
  PROVE  \E p2, lo, hi :
           /\ Shape(mem[s], mem[Other(s)], mem.parent, mem.root[t], S, p2, lo, hi, top)
           /\ p2 = IF s = "left" THEN pos ELSE Neg(pos)
<1>1. PICK lo, hi : Shape(mem.left, mem.right, mem.parent, mem.root[t], S, pos, lo, hi, top)
  BY DEF Tree
<1>2. CASE s = "left"
  BY <1>1, <1>2 DEF Other
<1>3. CASE s = "right"
  <2>1. Shape(mem.right, mem.left, mem.parent, mem.root[t], S, Neg(pos), Neg(hi), Neg(lo), top)
    BY <1>1, Mirror
  <2> QED
    BY <1>3, <2>1 DEF Other
<1> QED
  BY <1>2, <1>3 DEF Sides

(* And back. *)
LEMMA SidesTree ==
  ASSUME NEW mem, NEW t, NEW S, NEW pos \in [S -> Int], NEW top, NEW s \in Sides, NEW p2, NEW lo, NEW hi,
         Shape(mem[s], mem[Other(s)], mem.parent, mem.root[t], S, p2, lo, hi, top),
         p2 = IF s = "left" THEN pos ELSE Neg(pos)
  PROVE  Tree(mem, t, S, pos, top)
<1>1. CASE s = "left"
  BY <1>1 DEF Other, Tree
<1>2. CASE s = "right"
  <2>1. Shape(mem.right, mem.left, mem.parent, mem.root[t], S, Neg(pos), lo, hi, top)
    BY <1>2 DEF Other
  <2>2. Shape(mem.left, mem.right, mem.parent, mem.root[t], S, Neg(Neg(pos)), Neg(hi), Neg(lo), top)
    BY <2>1, Mirror
  <2> QED
    BY <2>2, NegNeg DEF Tree
<1> QED
  BY <1>1, <1>2 DEF Sides

(* A rotation of a tree in memory, at a node that has the child it needs, leaves a tree    *)
(* with the same nodes at the same places and no color or payload changed.                 *)
LEMMA RotateTree ==
  ASSUME NEW mem \in Heaps, NEW t \in Trees, NEW s \in Sides, NEW S, NEW pos, NEW top,
         Tree(mem, t, S, pos, top), NEW v \in S, mem[Other(s)][v] \in S,
         NEW m2, m2 = Rotate(mem, t, v, s)
  PROVE  /\ m2 \in Heaps /\ m2.color = mem.color /\ m2.pay = mem.pay
         /\ Tree(m2, t, S, pos, top)
         /\ Rotated(mem[s], mem[Other(s)], mem.parent, mem.root[t], v,
                    m2[s], m2[Other(s)], m2.parent, m2.root[t])
         /\ \A n \in Nodes \ S : m2.parent[n] = mem.parent[n]
<1> DEFINE A == mem[s]
           B == mem[Other(s)]
           P == mem.parent
           w == B[v]
<1>1. Links(A, B, P, mem.root[t], S)
  BY TreeLinks
<1>2. v \in Nodes /\ w \in Nodes /\ S \subseteq Nodes /\ RBNIL \notin S /\ NULL \notin S
  BY <1>1, RBTreeAssumption DEF Links
<1>3. /\ A[w] \in Ptrs /\ P[v] # v /\ A[w] # v /\ w # v /\ A[w] # w /\ P[v] # w
      /\ P[v] \in Nodes => A[P[v]] = v \/ B[P[v]] = v
  <2>1. P[w] = v /\ A[w] \in S \cup {RBNIL} /\ P[v] # v
    BY <1>1, <1>2, RBTreeAssumption DEF Links
  <2>2. A[w] \in S => P[A[w]] = w
    BY <1>1 DEF Links
  <2>3. P[P[w]] # w
    BY <1>1, <2>1 DEF Links
  <2>4. P[v] \in Nodes => A[P[v]] = v \/ B[P[v]] = v
    BY <1>1, RBTreeAssumption DEF Links
  <2> QED
    BY <1>2, <2>1, <2>2, <2>3, <2>4 DEF Ptrs
<1>4. /\ m2 \in Heaps /\ m2.color = mem.color /\ m2.pay = mem.pay
      /\ Rotated(A, B, P, mem.root[t], v, m2[s], m2[Other(s)], m2.parent, m2.root[t])
  BY <1>2, <1>3, RotateFacts
<1>5. PICK p2, lo, hi : /\ Shape(A, B, P, mem.root[t], S, p2, lo, hi, top)
                        /\ p2 = IF s = "left" THEN pos ELSE Neg(pos)
  BY TreeSides
<1>6. PICK lo2, hi2 : Shape(m2[s], m2[Other(s)], m2.parent, m2.root[t], S, p2, lo2, hi2, top)
  <2>1. Shape(m2[s], m2[Other(s)], m2.parent, m2.root[t], S, p2,
              [lo EXCEPT ![w] = lo[v]], [hi EXCEPT ![v] = p2[w]], top)
    <3> HIDE DEF A, B, P
    <3>1. B[v] \in S
      BY DEF B
    <3> QED
      BY <1>4, <1>5, <3>1, RotateShape, Zenon
  <2> QED
    BY <2>1
<1>7. pos \in [S -> Int]
  BY DEF Tree, Shape
<1>8. Tree(m2, t, S, pos, top)
  BY <1>5, <1>6, <1>7, SidesTree
<1>9. \A n \in Nodes \ S : m2.parent[n] = P[n]
  BY <1>1, <1>2, <1>4, RBTreeAssumption DEF Rotated, Links, Ptrs
<1> QED
  BY <1>4, <1>8, <1>9

----------------------------------------------------------------------------
(* The black nodes among one. *)
Blk(c) == IF c = "RBBLK" THEN 1 ELSE 0
(* The black node that is missing below n when n is d. *)
Missing(n, d) == IF n = d THEN 1 ELSE 0

(* The black heights: bh[n] counts the black nodes on every way from n down to a leaf. One *)
(* is missing on side A of a and on side B of b, where delete_fixup is at work.            *)
Heights(A, B, C, S, bh, a, b) ==
  /\ bh \in [Ptrs -> Nat] /\ bh[RBNIL] = 0 /\ C[RBNIL] = "RBBLK"
  /\ \A n \in S : bh[n] = bh[A[n]] + Missing(n, a) + Blk(C[n])
  /\ \A n \in S : bh[n] = bh[B[n]] + Missing(n, b) + Blk(C[n])

(* No red node has a red child, with the exception of v as a child and of w as a parent. *)
RedRule(A, B, C, S, v, w) ==
  \A n \in S : n # w /\ C[n] = "RBRED" =>
    (A[n] = v \/ C[A[n]] = "RBBLK") /\ (B[n] = v \/ C[B[n]] = "RBBLK")

(* The colors C with those of a and b changed. *)
Paint(C, a, ca, b, cb) == [[C EXCEPT ![a] = ca] EXCEPT ![b] = cb]

(* The color fields. *)
Colors == [Ptrs -> {"RBRED", "RBBLK"}]

(* What a rotation does within the tree, without the sentinel and nodes elsewhere. *)
LEMMA RotatedLinks ==
  ASSUME NEW A, NEW B, NEW P, NEW r, NEW S, Links(A, B, P, r, S), NEW v \in S, NEW w \in S, w = B[v],
         NEW A2, NEW B2, NEW P2, NEW r2, Rotated(A, B, P, r, v, A2, B2, P2, r2)
  PROVE  /\ A2[w] = v /\ B2[v] = A[w] /\ A2[v] = A[v] /\ B2[w] = B[w]
         /\ \A n \in S \ {v, w} : /\ A2[n] = (IF A[n] = v THEN w ELSE A[n]) /\ A[n] # w
                                  /\ B2[n] = (IF B[n] = v THEN w ELSE B[n]) /\ B[n] # w
         /\ A[w] \notin {v, w} /\ B[w] \notin {v, w} /\ A[v] \notin {v, w} /\ v # w
         /\ A[v] \in S \cup {RBNIL} /\ A[w] \in S \cup {RBNIL} /\ B[w] \in S \cup {RBNIL}
         /\ P2[w] = P[v] /\ P2[v] = w /\ r2 = IF v = r THEN w ELSE r
         /\ \A n \in S \ {v, w} : P2[n] = IF n = A[w] THEN v ELSE P[n]
         /\ P2[RBNIL] = P[RBNIL]
<1>1. /\ RBNIL \notin S /\ NULL \notin S /\ S \subseteq Nodes /\ S \subseteq Ptrs /\ RBNIL \in Ptrs
      /\ w # RBNIL /\ v # RBNIL
  BY RBTreeAssumption DEF Links, Ptrs
<1>2. P[w] = v /\ v # w /\ P[v] # v /\ P[v] # w
  BY <1>1 DEF Links
<1>3. \A n \in S : (A[n] = w \/ B[n] = w => n = v) /\ (A[n] = v \/ B[n] = v => n = P[v])
  BY <1>1, <1>2 DEF Links
<1>4. /\ A[v] \in S \cup {RBNIL} /\ A[w] \in S \cup {RBNIL} /\ B[w] \in S \cup {RBNIL}
      /\ P[v] = NULL <=> v = r
      /\ P[v] # NULL => P[v] \in S /\ (A[P[v]] = v \/ B[P[v]] = v)
      /\ \A n \in S : A[n] = B[n] => A[n] = RBNIL
  BY DEF Links
<1>5. /\ \A n \in S : A2[n] = IF n = w THEN v ELSE IF n = P[v] /\ A[n] = v THEN w ELSE A[n]
      /\ \A n \in S : B2[n] = IF n = v THEN A[w] ELSE IF n = P[v] /\ A[n] # v THEN w ELSE B[n]
      /\ \A n \in S \cup {RBNIL} : P2[n] = IF n = v THEN w ELSE IF n = w THEN P[v]
                              ELSE IF n = A[w] /\ n # RBNIL THEN v ELSE P[n]
      /\ r2 = IF P[v] = NULL THEN w ELSE r
  BY <1>1 DEF Rotated
<1>6. A[w] \notin {v, w} /\ B[w] \notin {v, w} /\ A[v] \notin {v, w}
  BY <1>1, <1>2, <1>3, <1>4
<1>7. A2[w] = v /\ B2[v] = A[w] /\ A2[v] = A[v] /\ B2[w] = B[w]
  BY <1>2, <1>3, <1>4, <1>5
<1>8. ASSUME NEW n \in S \ {v, w}
      PROVE  /\ A2[n] = (IF A[n] = v THEN w ELSE A[n]) /\ A[n] # w
             /\ B2[n] = (IF B[n] = v THEN w ELSE B[n]) /\ B[n] # w
  BY <1>1, <1>3, <1>4, <1>5
<1> QED
  BY <1>1, <1>2, <1>4, <1>5, <1>6, <1>7, <1>8

(* The colors C2 and black heights bh2 that v, and w = B[v], have after the rotation. *)
Recolored(A, B, v, C, bh, a, b, C2, bh2) ==
  LET w == B[v] IN
  /\ a # w /\ b # v /\ bh2 \in [Ptrs -> Nat]
  /\ \A n \in Ptrs \ {v, w} : C2[n] = C[n] /\ bh2[n] = bh[n]
  /\ bh2[w] = bh[v]
  /\ bh2[v] = bh[A[v]] + Missing(v, a) + Blk(C2[v]) /\ bh2[v] = bh[A[w]] + Blk(C2[v])
  /\ bh[v] = bh2[v] + Blk(C2[w]) /\ bh[v] = bh[B[w]] + Missing(w, b) + Blk(C2[w])

(* A rotation with its recoloring keeps the black heights, if they are right at the two    *)
(* nodes it turns.                                                                         *)
LEMMA RotateHeights ==
  ASSUME NEW A, NEW B, NEW P, NEW r, NEW S, Links(A, B, P, r, S), NEW v \in S, NEW w \in S, w = B[v],
         NEW A2, NEW B2, NEW P2, NEW r2, Rotated(A, B, P, r, v, A2, B2, P2, r2),
         NEW C, NEW bh, NEW a, NEW b, Heights(A, B, C, S, bh, a, b),
         NEW C2, NEW bh2, Recolored(A, B, v, C, bh, a, b, C2, bh2)
  PROVE  Heights(A2, B2, C2, S, bh2, a, b)
<1>1. /\ a # w /\ b # v /\ bh2 \in [Ptrs -> Nat]
      /\ \A n \in Ptrs \ {v, w} : C2[n] = C[n] /\ bh2[n] = bh[n]
      /\ bh2[w] = bh[v]
      /\ bh2[v] = bh[A[v]] + Missing(v, a) + Blk(C2[v]) /\ bh2[v] = bh[A[w]] + Blk(C2[v])
      /\ bh[v] = bh2[v] + Blk(C2[w]) /\ bh[v] = bh[B[w]] + Missing(w, b) + Blk(C2[w])
  BY DEF Recolored
<1>2. S \subseteq Ptrs /\ RBNIL \in Ptrs \ {v, w} /\ \A n \in S : A[n] \in Ptrs /\ B[n] \in Ptrs
  BY RBTreeAssumption DEF Links, Ptrs
<1>3. /\ A2[w] = v /\ B2[v] = A[w] /\ A2[v] = A[v] /\ B2[w] = B[w]
      /\ \A n \in S \ {v, w} : /\ A2[n] = (IF A[n] = v THEN w ELSE A[n]) /\ A[n] # w
                               /\ B2[n] = (IF B[n] = v THEN w ELSE B[n]) /\ B[n] # w
      /\ A[w] \notin {v, w} /\ B[w] \notin {v, w} /\ A[v] \notin {v, w} /\ v # w
  BY RotatedLinks
<1>4. bh2[RBNIL] = 0 /\ C2[RBNIL] = "RBBLK"
  BY <1>1, <1>2 DEF Heights
<1>5. /\ bh2[A[v]] = bh[A[v]] /\ bh2[A[w]] = bh[A[w]] /\ bh2[B[w]] = bh[B[w]]
      /\ Missing(w, a) = 0 /\ Missing(v, b) = 0
      /\ \A n \in Ptrs : bh[n] \in Nat /\ bh2[n] \in Nat
  BY <1>1, <1>2, <1>3 DEF Missing, Heights
<1>6. ASSUME NEW n \in S PROVE bh2[n] = bh2[A2[n]] + Missing(n, a) + Blk(C2[n])
  <2>1. CASE n = v
    BY <1>1, <1>3, <1>5, <2>1
  <2>2. CASE n = w
    <3>1. bh2[w] = bh2[v] + 0 + Blk(C2[w])
      BY <1>1, <1>2, <1>5 DEF Blk
    <3> QED
      BY <1>1, <1>3, <1>5, <2>2, <3>1
  <2>3. CASE n \notin {v, w}
    <3>1. bh2[A2[n]] = bh[A[n]] /\ C2[n] = C[n] /\ bh2[n] = bh[n]
      BY <1>1, <1>2, <1>3, <2>3
    <3> QED
      BY <1>1, <3>1 DEF Heights
  <2> QED
    BY <2>1, <2>2, <2>3
<1>7. ASSUME NEW n \in S PROVE bh2[n] = bh2[B2[n]] + Missing(n, b) + Blk(C2[n])
  <2>1. CASE n = v
    <3>1. bh2[v] = bh[A[w]] + 0 + Blk(C2[v])
      BY <1>1, <1>2, <1>5 DEF Blk
    <3> QED
      BY <1>1, <1>3, <1>5, <2>1, <3>1
  <2>2. CASE n = w
    BY <1>1, <1>3, <1>5, <2>2
  <2>3. CASE n \notin {v, w}
    <3>1. bh2[B2[n]] = bh[B[n]] /\ C2[n] = C[n] /\ bh2[n] = bh[n]
      BY <1>1, <1>2, <1>3, <2>3
    <3> QED
      BY <1>1, <3>1 DEF Heights
  <2> QED
    BY <2>1, <2>2, <2>3
<1> QED
  BY <1>1, <1>4, <1>6, <1>7 DEF Heights

----------------------------------------------------------------------------
(* The tree as insert_fixup finds it at v: v is red, and only at v may a red node have a   *)
(* red parent, or the root be red.                                                         *)
InsertState(A, B, P, C, r, S, bh, v) ==
  /\ Links(A, B, P, r, S) /\ Heights(A, B, C, S, bh, NULL, NULL) /\ RedRule(A, B, C, S, v, NULL)
  /\ C \in Colors /\ v \in S /\ C[v] = "RBRED" /\ (C[r] = "RBBLK" \/ r = v)

(* That says the same in the mirror. *)
LEMMA InsertMirror ==
  ASSUME NEW A, NEW B, NEW P, NEW C, NEW r, NEW S, NEW bh, NEW v, InsertState(A, B, P, C, r, S, bh, v)
  PROVE  InsertState(B, A, P, C, r, S, bh, v)
<1>1. Links(B, A, P, r, S)
  BY DEF InsertState, Links
<1>2. Heights(B, A, C, S, bh, NULL, NULL) /\ RedRule(B, A, C, S, v, NULL)
  BY DEF InsertState, Heights, RedRule
<1> QED
  BY <1>1, <1>2 DEF InsertState

(* While insert_fixup goes on, x has a grandparent: its red parent is not the root. The    *)
(* code follows parent->parent without a test.                                             *)
LEMMA Grandparent ==
  ASSUME NEW A, NEW B, NEW P, NEW C, NEW r, NEW S, NEW bh, NEW v, InsertState(A, B, P, C, r, S, bh, v),
         v # r, C[P[v]] = "RBRED"
  PROVE  /\ P[v] \in S /\ P[v] # r /\ P[P[v]] \in S /\ C[P[P[v]]] = "RBBLK"
         /\ A[P[P[v]]] = P[v] \/ B[P[P[v]]] = P[v]
         /\ A[P[v]] = v \/ B[P[v]] = v
         /\ v # P[v] /\ P[v] # P[P[v]] /\ v # P[P[v]]
         /\ C[r] = "RBBLK"
<1>1. /\ P[v] \in S /\ P[v] # v /\ (A[P[v]] = v \/ B[P[v]] = v)
      /\ C[r] = "RBBLK" /\ P[v] # r
  BY DEF InsertState, Links
<1>2. P[P[v]] \in S /\ P[P[v]] # P[v] /\ P[P[v]] # v /\ (A[P[P[v]]] = P[v] \/ B[P[P[v]]] = P[v])
  BY <1>1 DEF InsertState, Links
<1>3. NULL \notin S /\ C \in Colors /\ S \subseteq Ptrs
  BY RBTreeAssumption DEF InsertState, Links, Ptrs
<1>4. C[P[P[v]]] \in {"RBRED", "RBBLK"}
  BY <1>2, <1>3 DEF Colors
<1>5. C[P[P[v]]] # "RBRED"
  BY <1>1, <1>2, <1>3 DEF InsertState, RedRule
<1> QED
  BY <1>1, <1>2, <1>4, <1>5

(* The case of a red uncle: the grandparent takes over x's part. *)
LEMMA RedUncle ==
  ASSUME NEW A, NEW B, NEW P, NEW C, NEW r, NEW S, NEW bh, NEW v, InsertState(A, B, P, C, r, S, bh, v),
         v # r, NEW p \in S, p = P[v], C[p] = "RBRED", NEW d \in S, d = P[p], NEW u, u = B[d],
         A[d] = p, C[u] = "RBRED",
         NEW C2, C2 = [[[C EXCEPT ![p] = "RBBLK"] EXCEPT ![u] = "RBBLK"] EXCEPT ![d] = "RBRED"]
  PROVE  \E bh2 : InsertState(A, B, P, C2, r, S, bh2, d) /\ bh2[d] = bh[v] + 1
<1>1. /\ C[d] = "RBBLK" /\ p # r /\ v # p /\ p # d /\ v # d /\ C[r] = "RBBLK"
      /\ A[p] = v \/ B[p] = v
  BY Grandparent
<1>2. /\ S \subseteq Ptrs /\ RBNIL \notin S /\ NULL \notin S /\ RBNIL \in Ptrs /\ C \in Colors
      /\ \A n \in S : A[n] \in S \cup {RBNIL} /\ B[n] \in S \cup {RBNIL}
  BY RBTreeAssumption DEF InsertState, Links, Ptrs
<1>3. u \in S /\ u # p /\ u # d /\ P[u] = d
  <2>1. C[RBNIL] = "RBBLK"
    BY DEF InsertState, Heights
  <2>2. u \in S
    BY <1>2, <2>1
  <2> QED
    BY <1>2, <2>2 DEF InsertState, Links
<1>4. \A n \in S \ {d} : A[n] \notin {p, u} /\ B[n] \notin {p, u}
  BY <1>2, <1>3 DEF InsertState, Links
<1> DEFINE bh2 == [[bh EXCEPT ![p] = bh[p] + 1] EXCEPT ![u] = bh[u] + 1]
<1>5. /\ bh \in [Ptrs -> Nat] /\ bh[RBNIL] = 0 /\ C[RBNIL] = "RBBLK"
      /\ \A n \in S : bh[n] = bh[A[n]] + Missing(n, NULL) + Blk(C[n])
      /\ \A n \in S : bh[n] = bh[B[n]] + Missing(n, NULL) + Blk(C[n])
      /\ \A n \in S : Missing(n, NULL) = 0
  BY <1>2 DEF InsertState, Heights, Missing
<1>6. bh2 \in [Ptrs -> Nat] /\ \A n \in Ptrs : bh2[n] = IF n \in {p, u} THEN bh[n] + 1 ELSE bh[n]
  BY <1>2, <1>3, <1>5
<1>7. C2 \in Colors /\ \A n \in Ptrs : C2[n] = IF n \in {p, u} THEN "RBBLK" ELSE IF n = d THEN "RBRED" ELSE C[n]
  BY <1>1, <1>2, <1>3 DEF Colors
<1> HIDE DEF bh2
<1>8. Heights(A, B, C2, S, bh2, NULL, NULL)
  <2>1. bh2[RBNIL] = 0 /\ C2[RBNIL] = "RBBLK"
    <3>1. RBNIL \notin {p, u, d} /\ RBNIL \in Ptrs
      BY <1>2, <1>3
    <3> QED
      BY <1>5, <1>6, <1>7, <3>1
  <2>2. ASSUME NEW n \in S
        PROVE  /\ bh2[n] = bh2[A[n]] + Missing(n, NULL) + Blk(C2[n])
               /\ bh2[n] = bh2[B[n]] + Missing(n, NULL) + Blk(C2[n])
    <3>1. A[n] \in Ptrs /\ B[n] \in Ptrs /\ n \in Ptrs
      BY <1>2
    <3>2. bh[n] \in Nat /\ bh[A[n]] \in Nat /\ bh[B[n]] \in Nat /\ Missing(n, NULL) = 0
      BY <1>5, <3>1
    <3>3. CASE n = d
      <4>1. bh2[n] = bh[n] /\ bh2[A[n]] = bh[A[n]] + 1 /\ bh2[B[n]] = bh[B[n]] + 1 /\ Blk(C2[n]) = 0 /\ Blk(C[n]) = 1
        BY <1>1, <1>2, <1>3, <1>6, <1>7, <3>1, <3>3, ZenonT(60) DEF Blk
      <4> QED
        BY <1>5, <3>2, <4>1
    <3>4. CASE n \in {p, u}
      <4>0. n # d /\ A[n] \notin {p, u} /\ B[n] \notin {p, u}
        BY <1>1, <1>3, <1>4, <3>4
      <4>1. bh2[n] = bh[n] + 1 /\ bh2[A[n]] = bh[A[n]] /\ bh2[B[n]] = bh[B[n]]
        BY <1>6, <3>1, <3>4, <4>0
      <4>2. Blk(C2[n]) = 1 /\ Blk(C[n]) = 0
        BY <1>7, <3>1, <3>4 DEF Blk
      <4> QED
        BY <1>5, <3>2, <4>1, <4>2
    <3>5. CASE n \notin {p, u, d}
      <4>1. bh2[n] = bh[n] /\ bh2[A[n]] = bh[A[n]] /\ bh2[B[n]] = bh[B[n]] /\ C2[n] = C[n]
        BY <1>4, <1>6, <1>7, <3>1, <3>5
      <4> QED
        BY <1>5, <4>1
    <3> QED
      BY <3>3, <3>4, <3>5
  <2> QED
    BY <1>6, <2>1, <2>2 DEF Heights
<1>9. RedRule(A, B, C2, S, d, NULL)
  <2>1. ASSUME NEW n \in S, C2[n] = "RBRED"
        PROVE  (A[n] = d \/ C2[A[n]] = "RBBLK") /\ (B[n] = d \/ C2[B[n]] = "RBBLK")
    <3>1. A[n] \in Ptrs /\ B[n] \in Ptrs /\ n \in Ptrs
      BY <1>2
    <3>2. CASE n = d
      BY <1>7, <3>1, <3>2
    <3>3. CASE n # d
      <4>1. C[n] = "RBRED" /\ n # p /\ n # NULL
        BY <1>2, <1>7, <2>1, <3>1, <3>3
      <4>2. (A[n] = v \/ C[A[n]] = "RBBLK") /\ (B[n] = v \/ C[B[n]] = "RBBLK")
        BY <4>1 DEF InsertState, RedRule
      <4>3. A[n] # v /\ B[n] # v
        BY <4>1 DEF InsertState, Links
      <4> QED
        BY <1>7, <3>1, <4>2, <4>3
    <3> QED
      BY <3>2, <3>3
  <2> QED
    BY <2>1 DEF RedRule
<1>10. C2[d] = "RBRED" /\ (C2[r] = "RBBLK" \/ r = d)
  <2>1. r \in Ptrs
    BY <1>2 DEF InsertState, Links
  <2> QED
    BY <1>1, <1>2, <1>3, <1>7, <2>1
<1>11. InsertState(A, B, P, C2, r, S, bh2, d)
  BY <1>7, <1>8, <1>9, <1>10 DEF InsertState
<1>12. bh2[d] = bh[v] + 1
  <2>1. bh2[d] = bh[d] /\ d \notin {p, u}
    BY <1>1, <1>2, <1>3, <1>6
  <2>2. bh[d] = bh[p] + Blk(C[d]) /\ bh[p] = bh[v] + Blk(C[p]) /\ C[d] = "RBBLK"
    <3>1. A[p] = v \/ B[p] = v
      BY Grandparent
    <3>2. bh[d] = bh[A[d]] + 0 + Blk(C[d]) /\ bh[p] = bh[v] + 0 + Blk(C[p])
      BY <1>5, <3>1
    <3>3. bh[p] \in Nat /\ bh[v] \in Nat /\ C[d] = "RBBLK"
      BY <1>1, <1>2, <1>5
    <3> QED
      BY <3>2, <3>3 DEF Blk
  <2>3. bh[v] \in Nat
    BY <1>1, <1>2, <1>5
  <2> QED
    BY <2>1, <2>2, <2>3 DEF Blk
<1> QED
  BY <1>11, <1>12

(* The tree after the case of a black uncle: x has a black parent, which ends the loop. *)
Raised(A, B, P, C, r, S, v) == C[P[v]] = "RBBLK" /\ \E bh : InsertState(A, B, P, C, r, S, bh, v)

(* The case of a black uncle where x is an outer grandchild. *)
LEMMA OuterChild ==
  ASSUME NEW A, NEW B, NEW P, NEW C, NEW r, NEW S, NEW bh, NEW v, InsertState(A, B, P, C, r, S, bh, v),
         v # r, NEW p \in S, p = P[v], C[p] = "RBRED", NEW d \in S, d = P[p], NEW u, u = B[d],
         A[d] = p, A[p] = v, C[u] = "RBBLK",
         NEW C2, C2 = [[C EXCEPT ![p] = "RBBLK"] EXCEPT ![d] = "RBRED"],
         NEW A2, NEW B2, NEW P2, NEW r2, Rotated(B, A, P, r, d, B2, A2, P2, r2), Links(A2, B2, P2, r2, S)
  PROVE  Raised(A2, B2, P2, C2, r2, S, v)
<1>1. /\ C[d] = "RBBLK" /\ p # r /\ v # p /\ p # d /\ v # d /\ C[r] = "RBBLK"
  BY Grandparent
<1>2. /\ S \subseteq Ptrs /\ RBNIL \notin S /\ NULL \notin S /\ RBNIL \in Ptrs /\ C \in Colors
      /\ \A n \in S : A[n] \in S \cup {RBNIL} /\ B[n] \in S \cup {RBNIL}
      /\ v \in S /\ C[v] = "RBRED"
  BY RBTreeAssumption DEF InsertState, Links, Ptrs
<1>3. InsertState(B, A, P, C, r, S, bh, v)
  BY InsertMirror
<1>4. /\ B2[p] = d /\ A2[d] = B[p] /\ B2[d] = B[d] /\ A2[p] = A[p]
      /\ \A n \in S \ {d, p} : /\ B2[n] = (IF B[n] = d THEN p ELSE B[n]) /\ B[n] # p
                               /\ A2[n] = (IF A[n] = d THEN p ELSE A[n]) /\ A[n] # p
      /\ B[p] \notin {d, p} /\ A[p] \notin {d, p} /\ B[d] \notin {d, p}
      /\ r2 = IF d = r THEN p ELSE r
  BY <1>3, RotatedLinks DEF InsertState
<1> DEFINE bh2 == [[bh EXCEPT ![p] = bh[d]] EXCEPT ![d] = bh[d] - 1]
<1>5. /\ bh \in [Ptrs -> Nat] /\ C[RBNIL] = "RBBLK"
      /\ bh[d] = bh[p] + Missing(d, NULL) + Blk(C[d])
      /\ bh[d] = bh[u] + Missing(d, NULL) + Blk(C[d])
      /\ bh[p] = bh[v] + Missing(p, NULL) + Blk(C[p])
      /\ bh[p] = bh[B[p]] + Missing(p, NULL) + Blk(C[p])
      /\ Missing(p, NULL) = 0 /\ Missing(d, NULL) = 0 /\ Blk(C[d]) = 1 /\ Blk(C[p]) = 0
  BY <1>1, <1>2 DEF InsertState, Heights, Missing, Blk
<1>6. /\ bh[d] \in Nat /\ bh[p] \in Nat /\ bh[u] \in Nat /\ bh[B[p]] \in Nat /\ bh[v] \in Nat
      /\ bh[d] = bh[p] + 1 /\ bh[p] = bh[u] /\ bh[p] = bh[B[p]] /\ bh[p] = bh[v]
  <2>1. bh[d] \in Nat /\ bh[p] \in Nat /\ bh[u] \in Nat /\ bh[B[p]] \in Nat /\ bh[v] \in Nat
    BY <1>2, <1>5
  <2> QED
    BY <1>5, <2>1
<1>7. bh2 \in [Ptrs -> Nat] /\ bh2[p] = bh[d] /\ bh2[d] = bh[p] /\ \A n \in Ptrs \ {d, p} : bh2[n] = bh[n]
  BY <1>1, <1>2, <1>5, <1>6
<1>8. /\ C2 \in Colors /\ C2[p] = "RBBLK" /\ C2[d] = "RBRED" /\ \A n \in Ptrs \ {d, p} : C2[n] = C[n]
      /\ Blk(C2[p]) = 1 /\ Blk(C2[d]) = 0
  BY <1>1, <1>2 DEF Colors, Blk
<1> HIDE DEF bh2
<1>9. Heights(B2, A2, C2, S, bh2, NULL, NULL)
  <2>1. /\ NULL # p /\ NULL # d /\ Links(B, A, P, r, S) /\ Heights(B, A, C, S, bh, NULL, NULL)
    BY <1>2, <1>3 DEF InsertState
  <2>2. /\ bh2[d] = bh[B[d]] + Missing(d, NULL) + Blk(C2[d]) /\ bh2[d] = bh[B[p]] + Blk(C2[d])
        /\ bh[d] = bh2[d] + Blk(C2[p]) /\ bh[d] = bh[A[p]] + Missing(p, NULL) + Blk(C2[p])
    BY <1>5, <1>6, <1>7, <1>8
  <2>3. \A n \in Ptrs \ {d, p} : C2[n] = C[n] /\ bh2[n] = bh[n]
    BY <1>7, <1>8
  <2>4. p = A[d] /\ bh2[p] = bh[d] /\ bh2 \in [Ptrs -> Nat]
    BY <1>7
  <2> QED
    <3>1. Recolored(B, A, d, C, bh, NULL, NULL, C2, bh2)
      BY <2>1, <2>2, <2>3, <2>4, ZenonT(60) DEF Recolored
    <3> QED
      BY <2>1, <3>1, RotateHeights
<1>10. Heights(A2, B2, C2, S, bh2, NULL, NULL)
  BY <1>9 DEF Heights
<1>11. RedRule(A2, B2, C2, S, v, NULL)
  <2>1. ASSUME NEW n \in S, C2[n] = "RBRED"
        PROVE  (A2[n] = v \/ C2[A2[n]] = "RBBLK") /\ (B2[n] = v \/ C2[B2[n]] = "RBBLK")
    <3>1. CASE n = d
      <4>1. B[p] = v \/ C[B[p]] = "RBBLK"
        BY <1>2 DEF InsertState, RedRule
      <4>2. B[p] \in Ptrs \ {d, p} /\ u \in Ptrs \ {d, p}
        BY <1>2, <1>4
      <4>3. C2[B[p]] = C[B[p]] /\ C2[u] = C[u]
        BY <1>8, <4>2
      <4>4. A2[n] = B[p] /\ B2[n] = u
        BY <1>4, <3>1
      <4> QED
        BY <4>1, <4>3, <4>4
    <3>2. CASE n # d
      <4>1. C[n] = "RBRED" /\ n # p /\ n # NULL /\ A[n] \in Ptrs /\ B[n] \in Ptrs
        BY <1>2, <1>8, <2>1, <3>2
      <4>2. (A[n] = v \/ C[A[n]] = "RBBLK") /\ (B[n] = v \/ C[B[n]] = "RBBLK")
        BY <4>1 DEF InsertState, RedRule
      <4>3. (A2[n] = p /\ A[n] = d) \/ (A2[n] = A[n] /\ A[n] \in Ptrs \ {d, p})
        BY <1>4, <3>2, <4>1
      <4>4. (B2[n] = p /\ B[n] = d) \/ (B2[n] = B[n] /\ B[n] \in Ptrs \ {d, p})
        BY <1>4, <3>2, <4>1
      <4>5. C2[p] = "RBBLK" /\ \A q \in Ptrs \ {d, p} : C2[q] = C[q]
        BY <1>8
      <4> QED
        BY <4>2, <4>3, <4>4, <4>5
    <3> QED
      BY <3>1, <3>2
  <2> QED
    BY <2>1 DEF RedRule
<1>12. C2[v] = "RBRED" /\ C2[r2] = "RBBLK"
  <2>1. r \in Ptrs /\ v \in Ptrs \ {d, p}
    BY <1>1, <1>2 DEF InsertState, Links
  <2>2. C2[v] = "RBRED"
    BY <1>2, <1>8, <2>1
  <2>3. CASE d = r
    BY <1>4, <1>8, <2>2, <2>3
  <2>4. CASE d # r
    <3>1. r2 = r /\ r \in Ptrs \ {d, p} /\ C2[r] = C[r]
      BY <1>1, <1>4, <1>8, <2>1, <2>4
    <3> QED
      BY <1>1, <2>2, <3>1
  <2> QED
    BY <2>3, <2>4
<1>13. InsertState(A2, B2, P2, C2, r2, S, bh2, v)
  BY <1>2, <1>8, <1>10, <1>11, <1>12 DEF InsertState
<1>14. P2[v] = p
  <2>1. /\ \A n \in S \ {d, p} : P2[n] = IF n = B[p] THEN d ELSE P[n]
        /\ v \in S \ {d, p} /\ v # B[p]
    <3>1. Links(B, A, P, r, S) /\ v \in S /\ v # RBNIL
      BY <1>2, <1>3 DEF InsertState
    <3>2. /\ \A n \in S \ {d, p} : P2[n] = IF n = B[p] THEN d ELSE P[n]
          /\ A[p] \notin {d, p}
      BY <3>1, RotatedLinks
    <3>3. v # B[p]
      BY <3>1 DEF Links
    <3> QED
      BY <3>1, <3>2, <3>3
  <2> QED
    BY <2>1
<1> QED
  BY <1>8, <1>13, <1>14 DEF Raised

(* The rotation before that where x is an inner grandchild: its parent becomes the x of    *)
(* the case above.                                                                         *)
LEMMA InnerChild ==
  ASSUME NEW A, NEW B, NEW P, NEW C, NEW r, NEW S, NEW bh, NEW v, InsertState(A, B, P, C, r, S, bh, v),
         v # r, NEW p \in S, p = P[v], C[p] = "RBRED", NEW d \in S, d = P[p], A[d] = p, B[p] = v,
         NEW A2, NEW B2, NEW P2, NEW r2, Rotated(A, B, P, r, p, A2, B2, P2, r2), Links(A2, B2, P2, r2, S)
  PROVE  /\ InsertState(A2, B2, P2, C, r2, S, bh, p)
         /\ p # r2 /\ P2[p] = v /\ P2[v] = d /\ A2[d] = v /\ A2[v] = p /\ B2[d] = B[d]
<1>1. /\ C[d] = "RBBLK" /\ p # r /\ v # p /\ p # d /\ v # d /\ C[r] = "RBBLK"
  BY Grandparent
<1>2. /\ S \subseteq Ptrs /\ RBNIL \notin S /\ NULL \notin S /\ RBNIL \in Ptrs /\ C \in Colors
      /\ \A n \in S : A[n] \in S \cup {RBNIL} /\ B[n] \in S \cup {RBNIL}
      /\ v \in S /\ C[v] = "RBRED" /\ Links(A, B, P, r, S) /\ Heights(A, B, C, S, bh, NULL, NULL)
  BY RBTreeAssumption DEF InsertState, Links, Ptrs
<1>3. /\ A2[v] = p /\ B2[p] = A[v] /\ A2[p] = A[p] /\ B2[v] = B[v]
      /\ \A n \in S \ {p, v} : /\ A2[n] = (IF A[n] = p THEN v ELSE A[n]) /\ A[n] # v
                               /\ B2[n] = (IF B[n] = p THEN v ELSE B[n]) /\ B[n] # v
      /\ A[v] \notin {p, v} /\ B[v] \notin {p, v} /\ A[p] \notin {p, v}
      /\ P2[v] = P[p] /\ P2[p] = v /\ r2 = IF p = r THEN v ELSE r
  BY <1>2, RotatedLinks
<1>4. /\ bh \in [Ptrs -> Nat]
      /\ bh[p] = bh[A[p]] + Missing(p, NULL) + Blk(C[p])
      /\ bh[p] = bh[v] + Missing(p, NULL) + Blk(C[p])
      /\ bh[v] = bh[A[v]] + Missing(v, NULL) + Blk(C[v])
      /\ bh[v] = bh[B[v]] + Missing(v, NULL) + Blk(C[v])
      /\ Missing(p, NULL) = 0 /\ Missing(v, NULL) = 0 /\ Blk(C[v]) = 0 /\ Blk(C[p]) = 0
  BY <1>1, <1>2 DEF Heights, Missing, Blk
<1>5. Heights(A2, B2, C, S, bh, NULL, NULL)
  <2>1. bh[p] \in Nat /\ bh[v] \in Nat /\ bh[A[p]] \in Nat /\ bh[A[v]] \in Nat /\ bh[B[v]] \in Nat
    BY <1>2, <1>4
  <2>2. /\ bh[v] = bh[p]
        /\ bh[p] = bh[A[p]] + Missing(p, NULL) + Blk(C[p]) /\ bh[p] = bh[A[v]] + Blk(C[p])
        /\ bh[p] = bh[p] + Blk(C[v]) /\ bh[p] = bh[B[v]] + Missing(v, NULL) + Blk(C[v])
    BY <1>4, <2>1
  <2>3. NULL # v /\ NULL # p
    BY <1>2
  <2> QED
    <3>1. Recolored(A, B, p, C, bh, NULL, NULL, C, bh)
      BY <1>4, <2>2, <2>3 DEF Recolored
    <3> QED
      BY <1>2, <3>1, RotateHeights
<1>6. B2[d] = B[d] /\ A2[d] = v
  <2>1. B[d] # p
    BY <1>2, RBTreeAssumption DEF Links
  <2> QED
    BY <1>1, <1>3, <2>1
<1>7. RedRule(A2, B2, C, S, p, NULL)
  <2>1. ASSUME NEW n \in S, C[n] = "RBRED"
        PROVE  (A2[n] = p \/ C[A2[n]] = "RBBLK") /\ (B2[n] = p \/ C[B2[n]] = "RBBLK")
    <3>1. (A[n] = v \/ C[A[n]] = "RBBLK") /\ (B[n] = v \/ C[B[n]] = "RBBLK")
      BY <1>2, <2>1 DEF InsertState, RedRule
    <3>2. (A[v] = v \/ C[A[v]] = "RBBLK") /\ (B[v] = v \/ C[B[v]] = "RBBLK")
      BY <1>2 DEF InsertState, RedRule
    <3> QED
      BY <1>3, <2>1, <3>1, <3>2
  <2> QED
    BY <2>1 DEF RedRule
<1> QED
  BY <1>1, <1>2, <1>3, <1>5, <1>6, <1>7 DEF InsertState

----------------------------------------------------------------------------
(* The tree as an iteration of delete_fixup finds it at v, a black node or leaf on side A  *)
(* of its parent d: a black node is missing on the ways through v.                         *)
DeleteState(A, B, P, C, r, S, bh, d, v) ==
  /\ Links(A, B, P, r, S) /\ Heights(A, B, C, S, bh, d, NULL) /\ RedRule(A, B, C, S, v, v)
  /\ C \in Colors /\ d \in S /\ A[d] = v /\ P[v] = d /\ v # r /\ C[v] = "RBBLK" /\ C[r] = "RBBLK"

(* The sibling of v is a node and not the sentinel, as the code assumes when it follows    *)
(* w's children.                                                                           *)
LEMMA SiblingFacts ==
  ASSUME NEW A, NEW B, NEW P, NEW C, NEW r, NEW S, NEW bh, NEW d, NEW v, DeleteState(A, B, P, C, r, S, bh, d, v),
         NEW w, w = B[d]
  PROVE  /\ S \subseteq Ptrs /\ RBNIL \notin S /\ NULL \notin S /\ RBNIL \in Ptrs
         /\ \A n \in S : A[n] \in S \cup {RBNIL} /\ B[n] \in S \cup {RBNIL}
         /\ v \in S \cup {RBNIL} /\ v # d /\ d \in S
         /\ w \in S /\ w # v /\ w # d /\ P[w] = d
         /\ A[w] # d /\ B[w] # d /\ A[w] # w /\ B[w] # w /\ P[d] # v
         /\ \A n \in S : A[n] = w \/ B[n] = w => n = d
         /\ \A n \in S : v \in S => (A[n] = v \/ B[n] = v => n = d)
         /\ \A n \in S : A[n] = B[n] => A[n] = RBNIL
         /\ r \in S
         /\ bh \in [Ptrs -> Nat] /\ bh[RBNIL] = 0 /\ C[RBNIL] = "RBBLK"
         /\ bh[d] \in Nat /\ bh[w] \in Nat /\ bh[v] \in Nat /\ bh[A[w]] \in Nat /\ bh[B[w]] \in Nat
         /\ bh[w] = bh[v] + 1 /\ bh[d] = bh[w] + Blk(C[d])
         /\ bh[w] = bh[A[w]] + Blk(C[w]) /\ bh[w] = bh[B[w]] + Blk(C[w])
         /\ C[w] \in {"RBRED", "RBBLK"} /\ C[d] \in {"RBRED", "RBBLK"}
<1>1. /\ S \subseteq Ptrs /\ RBNIL \notin S /\ NULL \notin S /\ RBNIL \in Ptrs
      /\ \A n \in S : A[n] \in S \cup {RBNIL} /\ B[n] \in S \cup {RBNIL}
      /\ d \in S /\ A[d] = v
  BY RBTreeAssumption DEF DeleteState, Links, Ptrs
<1>2. v \in S \cup {RBNIL} /\ w \in S \cup {RBNIL} /\ r \in S
  BY <1>1 DEF DeleteState, Links
<1>3. /\ bh \in [Ptrs -> Nat] /\ bh[RBNIL] = 0 /\ C[RBNIL] = "RBBLK"
      /\ bh[d] = bh[v] + Missing(d, d) + Blk(C[d])
      /\ bh[d] = bh[w] + Missing(d, NULL) + Blk(C[d])
      /\ Missing(d, d) = 1 /\ Missing(d, NULL) = 0 /\ Blk(C[d]) \in 0..1
  BY <1>1 DEF DeleteState, Heights, Missing, Blk
<1>4. bh[d] \in Nat /\ bh[w] \in Nat /\ bh[v] \in Nat
  BY <1>1, <1>2, <1>3
<1>5. bh[w] = bh[v] + 1 /\ bh[d] = bh[w] + Blk(C[d])
  BY <1>3, <1>4
<1>6. w \in S
  BY <1>2, <1>3, <1>4, <1>5
<1>7. /\ v # d /\ w # v /\ w # d /\ P[w] = d /\ A[w] # d /\ B[w] # d /\ A[w] # w /\ B[w] # w /\ P[d] # v
  BY <1>1, <1>2, <1>4, <1>5, <1>6, RBTreeAssumption DEF DeleteState, Links
<1>8. /\ \A n \in S : A[n] = w \/ B[n] = w => n = d
      /\ \A n \in S : v \in S => (A[n] = v \/ B[n] = v => n = d)
      /\ \A n \in S : A[n] = B[n] => A[n] = RBNIL
  BY <1>1, <1>6 DEF DeleteState, Links
<1>9. /\ bh[w] = bh[A[w]] + Missing(w, d) + Blk(C[w])
      /\ bh[w] = bh[B[w]] + Missing(w, NULL) + Blk(C[w])
      /\ Missing(w, d) = 0 /\ Missing(w, NULL) = 0 /\ Blk(C[w]) \in 0..1
  BY <1>1, <1>6, <1>7 DEF DeleteState, Heights, Missing, Blk
<1>10. bh[A[w]] \in Nat /\ bh[B[w]] \in Nat
  BY <1>1, <1>3, <1>6
<1>11. bh[w] = bh[A[w]] + Blk(C[w]) /\ bh[w] = bh[B[w]] + Blk(C[w])
  BY <1>9, <1>10
<1>12. C[w] \in {"RBRED", "RBBLK"} /\ C[d] \in {"RBRED", "RBBLK"}
  BY <1>1, <1>6 DEF DeleteState, Colors
<1> QED
  BY <1>1, <1>2, <1>3, <1>4, <1>5, <1>6, <1>7, <1>8, <1>10, <1>11, <1>12

(* The first case of delete_fixup, a red sibling: it is rotated away, and the new sibling  *)
(* is black.                                                                               *)
LEMMA RedSibling ==
  ASSUME NEW A, NEW B, NEW P, NEW C, NEW r, NEW S, NEW bh, NEW d, NEW v, DeleteState(A, B, P, C, r, S, bh, d, v),
         NEW w, w = B[d], C[w] = "RBRED",
         NEW C2, C2 = Paint(C, w, "RBBLK", d, "RBRED"),
         NEW A2, NEW B2, NEW P2, NEW r2, Rotated(A, B, P, r, d, A2, B2, P2, r2), Links(A2, B2, P2, r2, S)
  PROVE  \E bh2 : /\ DeleteState(A2, B2, P2, C2, r2, S, bh2, d, v)
                  /\ C2[B2[d]] = "RBBLK" /\ bh2[v] = bh[v]
<1>1. /\ S \subseteq Ptrs /\ RBNIL \notin S /\ NULL \notin S /\ RBNIL \in Ptrs
      /\ \A n \in S : A[n] \in S \cup {RBNIL} /\ B[n] \in S \cup {RBNIL}
      /\ v \in S \cup {RBNIL} /\ v # d /\ d \in S
      /\ w \in S /\ w # v /\ w # d /\ P[w] = d
      /\ \A n \in S : v \in S => (A[n] = v \/ B[n] = v => n = d)
      /\ r \in S
  BY SiblingFacts
<1>2. /\ bh \in [Ptrs -> Nat] /\ bh[RBNIL] = 0 /\ C[RBNIL] = "RBBLK"
      /\ bh[d] \in Nat /\ bh[w] \in Nat /\ bh[v] \in Nat /\ bh[A[w]] \in Nat /\ bh[B[w]] \in Nat
      /\ bh[w] = bh[v] + 1 /\ bh[d] = bh[w] + Blk(C[d])
      /\ bh[w] = bh[A[w]] + Blk(C[w]) /\ bh[w] = bh[B[w]] + Blk(C[w])
  BY SiblingFacts
<1>3. C \in Colors /\ A[d] = v /\ P[v] = d /\ v # r /\ C[v] = "RBBLK" /\ C[r] = "RBBLK"
  BY DEF DeleteState
<1>4. C[d] = "RBBLK"
  <2>1. C[d] \in {"RBRED", "RBBLK"}
    BY <1>1, <1>3 DEF Colors
  <2>2. C[d] # "RBRED"
    BY <1>1 DEF DeleteState, RedRule
  <2> QED
    BY <2>1, <2>2
<1>5. C[A[w]] = "RBBLK" /\ C[B[w]] = "RBBLK"
  <2>1. (A[w] = v \/ C[A[w]] = "RBBLK") /\ (B[w] = v \/ C[B[w]] = "RBBLK")
    BY <1>1 DEF DeleteState, RedRule
  <2> QED
    BY <1>3, <2>1
<1>6. /\ A2[w] = d /\ B2[d] = A[w] /\ A2[d] = A[d] /\ B2[w] = B[w]
      /\ \A n \in S \ {d, w} : /\ A2[n] = (IF A[n] = d THEN w ELSE A[n]) /\ A[n] # w
                               /\ B2[n] = (IF B[n] = d THEN w ELSE B[n]) /\ B[n] # w
      /\ A[w] \notin {d, w} /\ B[w] \notin {d, w} /\ A[d] \notin {d, w}
      /\ r2 = IF d = r THEN w ELSE r
      /\ \A n \in S \ {d, w} : P2[n] = IF n = A[w] THEN d ELSE P[n]
      /\ P2[RBNIL] = P[RBNIL]
  BY <1>1, RotatedLinks DEF DeleteState
<1>7. P2[v] = d
  BY <1>1, <1>3, <1>6
<1> DEFINE bh2 == [[bh EXCEPT ![w] = bh[d]] EXCEPT ![d] = bh[w]]
<1>8. bh2 \in [Ptrs -> Nat] /\ bh2[w] = bh[d] /\ bh2[d] = bh[w] /\ \A n \in Ptrs \ {d, w} : bh2[n] = bh[n]
  BY <1>1, <1>2
<1>9. /\ C2 \in Colors /\ C2[w] = "RBBLK" /\ C2[d] = "RBRED" /\ \A n \in Ptrs \ {d, w} : C2[n] = C[n]
      /\ Blk(C2[w]) = 1 /\ Blk(C2[d]) = 0 /\ Blk(C[d]) = 1 /\ Blk(C[w]) = 0
  BY <1>1, <1>3, <1>4 DEF Colors, Blk, Paint
<1> HIDE DEF bh2
<1>10. Recolored(A, B, d, C, bh, d, NULL, C2, bh2)
  <2>1. /\ bh2[d] = bh[A[d]] + Missing(d, d) + Blk(C2[d]) /\ bh2[d] = bh[A[w]] + Blk(C2[d])
        /\ bh[d] = bh2[d] + Blk(C2[w]) /\ bh[d] = bh[B[w]] + Missing(w, NULL) + Blk(C2[w])
    <3>1. Missing(d, d) = 1 /\ Missing(w, NULL) = 0
      BY <1>1 DEF Missing
    <3> QED
      BY <1>2, <1>3, <1>8, <1>9, <3>1
  <2> QED
    BY <1>1, <1>8, <1>9, <2>1 DEF Recolored
<1>11. Heights(A2, B2, C2, S, bh2, d, NULL)
  BY <1>1, <1>10, RotateHeights DEF DeleteState
<1>12. RedRule(A2, B2, C2, S, v, v)
  <2>1. ASSUME NEW n \in S, n # v, C2[n] = "RBRED"
        PROVE  (A2[n] = v \/ C2[A2[n]] = "RBBLK") /\ (B2[n] = v \/ C2[B2[n]] = "RBBLK")
    <3>1. CASE n = d
      <4>1. A[w] \in Ptrs \ {d, w}
        BY <1>1, <1>6
      <4>2. C2[A[w]] = "RBBLK"
        BY <1>5, <1>9, <4>1
      <4> QED
        BY <1>3, <1>6, <3>1, <4>2
    <3>2. CASE n # d
      <4>1. C[n] = "RBRED" /\ n # w /\ A[n] \in Ptrs /\ B[n] \in Ptrs
        BY <1>1, <1>9, <2>1, <3>2
      <4>2. (A[n] = v \/ C[A[n]] = "RBBLK") /\ (B[n] = v \/ C[B[n]] = "RBBLK")
        BY <2>1, <4>1 DEF DeleteState, RedRule
      <4>3. (A2[n] = w /\ A[n] = d) \/ (A2[n] = A[n] /\ A[n] \in Ptrs \ {d, w})
        BY <1>6, <3>2, <4>1
      <4>4. (B2[n] = w /\ B[n] = d) \/ (B2[n] = B[n] /\ B[n] \in Ptrs \ {d, w})
        BY <1>6, <3>2, <4>1
      <4>5. C2[w] = "RBBLK" /\ \A q \in Ptrs \ {d, w} : C2[q] = C[q]
        BY <1>9
      <4> QED
        BY <4>2, <4>3, <4>4, <4>5
    <3> QED
      BY <3>1, <3>2
  <2> QED
    BY <2>1 DEF RedRule
<1>13. v # r2 /\ C2[v] = "RBBLK" /\ C2[r2] = "RBBLK" /\ C2[B2[d]] = "RBBLK"
  <2>1. v \in Ptrs \ {d, w} /\ A[w] \in Ptrs \ {d, w}
    BY <1>1, <1>6
  <2>2. C2[v] = "RBBLK" /\ C2[B2[d]] = "RBBLK"
    <3>1. C2[v] = C[v] /\ C2[A[w]] = C[A[w]] /\ B2[d] = A[w]
      BY <1>6, <1>9, <2>1
    <3> QED
      BY <1>3, <1>5, <3>1
  <2>3. r # w
    BY <1>3
  <2>4. CASE d = r
    BY <1>1, <1>6, <1>9, <2>2, <2>4
  <2>5. CASE d # r
    <3>1. r2 = r /\ r \in Ptrs \ {d, w}
      BY <1>1, <1>6, <2>3, <2>5
    <3> QED
      BY <1>3, <1>9, <2>2, <3>1
  <2> QED
    BY <2>4, <2>5
<1>14. DeleteState(A2, B2, P2, C2, r2, S, bh2, d, v)
  BY <1>1, <1>3, <1>6, <1>7, <1>9, <1>11, <1>12, <1>13 DEF DeleteState
<1>15. bh2[v] = bh[v]
  BY <1>1, <1>8
<1> QED
  BY <1>13, <1>14, <1>15

(* The tree between two iterations of delete_fixup: a black node is missing on the ways    *)
(* through v, wherever v hangs, or v is the root and none is.                              *)
FixState(A, B, P, C, r, S, bh, v) ==
  /\ Links(A, B, P, r, S) /\ RedRule(A, B, C, S, v, v) /\ C \in Colors /\ v \in S \cup {RBNIL}
  /\ C[r] = "RBBLK" \/ r = v
  /\ \/ v = r /\ Heights(A, B, C, S, bh, NULL, NULL)
     \/ v # r /\ P[v] \in S /\ A[P[v]] = v /\ Heights(A, B, C, S, bh, P[v], NULL)
     \/ v # r /\ P[v] \in S /\ B[P[v]] = v /\ Heights(A, B, C, S, bh, NULL, P[v])

(* That says the same in the mirror. *)
LEMMA FixMirror ==
  ASSUME NEW A, NEW B, NEW P, NEW C, NEW r, NEW S, NEW bh, NEW v, FixState(A, B, P, C, r, S, bh, v)
  PROVE  FixState(B, A, P, C, r, S, bh, v)
<1>1. Links(B, A, P, r, S)
  BY DEF FixState, Links
<1>2. RedRule(B, A, C, S, v, v)
  BY DEF FixState, RedRule
<1>3. \/ v = r /\ Heights(B, A, C, S, bh, NULL, NULL)
      \/ v # r /\ P[v] \in S /\ B[P[v]] = v /\ Heights(B, A, C, S, bh, P[v], NULL)
      \/ v # r /\ P[v] \in S /\ A[P[v]] = v /\ Heights(B, A, C, S, bh, NULL, P[v])
  BY DEF FixState, Heights
<1> QED
  BY <1>1, <1>2, <1>3 DEF FixState

(* When the loop goes on, v hangs on the side that the code tests for. *)
LEMMA FixSide ==
  ASSUME NEW A, NEW B, NEW P, NEW C, NEW r, NEW S, NEW bh, NEW v, FixState(A, B, P, C, r, S, bh, v),
         v # r, C[v] = "RBBLK"
  PROVE  IF A[P[v]] = v THEN DeleteState(A, B, P, C, r, S, bh, P[v], v)
         ELSE DeleteState(B, A, P, C, r, S, bh, P[v], v)
<1>1. ASSUME P[v] \in S, A[P[v]] = v, B[P[v]] = v, Heights(A, B, C, S, bh, NULL, P[v])
      PROVE  FALSE
  <2>1. /\ bh[P[v]] = bh[v] + Missing(P[v], NULL) + Blk(C[P[v]])
        /\ bh[P[v]] = bh[v] + Missing(P[v], P[v]) + Blk(C[P[v]])
        /\ bh \in [Ptrs -> Nat]
    BY <1>1 DEF Heights
  <2>2. bh[v] \in Nat /\ Missing(P[v], NULL) = 0 /\ Missing(P[v], P[v]) = 1 /\ Blk(C[P[v]]) \in 0..1
    BY <1>1, <2>1, RBTreeAssumption DEF FixState, Links, Missing, Blk, Ptrs
  <2> QED
    BY <2>1, <2>2
<1>2. CASE A[P[v]] = v
  BY <1>1, <1>2 DEF FixState, DeleteState
<1>3. CASE A[P[v]] # v
  <2>1. FixState(B, A, P, C, r, S, bh, v)
    BY FixMirror
  <2> QED
    BY <1>3, <2>1 DEF FixState, DeleteState
<1> QED
  BY <1>2, <1>3

(* The tree after the second case: x is now v, with a black height of k + 1 if it is black *)
(* and the loop goes on.                                                                   *)
Lifted(A, B, P, C, r, S, k, v) ==
  \E bh : FixState(A, B, P, C, r, S, bh, v) /\ (C[v] = "RBBLK" => bh[v] = k + 1)

(* The second, a black sibling with black children: x climbs to its parent.               *)
LEMMA BlackNephews ==
  ASSUME NEW A, NEW B, NEW P, NEW C, NEW r, NEW S, NEW bh, NEW d, NEW v, DeleteState(A, B, P, C, r, S, bh, d, v),
         NEW w, w = B[d], C[w] = "RBBLK", C[A[w]] = "RBBLK", C[B[w]] = "RBBLK",
         NEW C2, C2 = [C EXCEPT ![w] = "RBRED"]
  PROVE  Lifted(A, B, P, C2, r, S, bh[v], d)
<1>1. /\ S \subseteq Ptrs /\ RBNIL \notin S /\ NULL \notin S /\ RBNIL \in Ptrs
      /\ \A n \in S : A[n] \in S \cup {RBNIL} /\ B[n] \in S \cup {RBNIL}
      /\ v \in S \cup {RBNIL} /\ v # d /\ d \in S
      /\ w \in S /\ w # v /\ w # d /\ P[w] = d
      /\ A[w] # d /\ B[w] # d /\ A[w] # w /\ B[w] # w
      /\ \A n \in S : A[n] = w \/ B[n] = w => n = d
      /\ \A n \in S : v \in S => (A[n] = v \/ B[n] = v => n = d)
      /\ r \in S
  BY SiblingFacts
<1>2. /\ bh \in [Ptrs -> Nat] /\ bh[RBNIL] = 0 /\ C[RBNIL] = "RBBLK"
      /\ bh[d] \in Nat /\ bh[w] \in Nat /\ bh[v] \in Nat /\ bh[A[w]] \in Nat /\ bh[B[w]] \in Nat
      /\ bh[w] = bh[v] + 1 /\ bh[d] = bh[w] + Blk(C[d])
      /\ bh[w] = bh[A[w]] + Blk(C[w]) /\ bh[w] = bh[B[w]] + Blk(C[w])
  BY SiblingFacts
<1>3. /\ C \in Colors /\ A[d] = v /\ P[v] = d /\ v # r /\ C[v] = "RBBLK" /\ C[r] = "RBBLK"
      /\ Links(A, B, P, r, S) /\ \A n \in S : A[n] = B[n] => A[n] = RBNIL
  BY DEF DeleteState, Links
<1> DEFINE bh2 == [[bh EXCEPT ![w] = bh[v]] EXCEPT ![d] = bh[v] + Blk(C[d])]
           a == IF d # r /\ A[P[d]] = d THEN P[d] ELSE NULL
           b == IF d # r /\ A[P[d]] # d THEN P[d] ELSE NULL
<1>4. /\ Blk(C[d]) \in 0..1 /\ Blk(C[w]) = 1 /\ bh[A[w]] = bh[v] /\ bh[B[w]] = bh[v]
      /\ bh[d] = bh[v] + Blk(C[d]) + 1
  <2>1. Blk(C[d]) \in 0..1 /\ Blk(C[w]) = 1
    BY DEF Blk
  <2> QED
    BY <1>2, <2>1
<1>5. bh2 \in [Ptrs -> Nat] /\ bh2[w] = bh[v] /\ bh2[d] = bh[v] + Blk(C[d]) /\ \A n \in Ptrs \ {d, w} : bh2[n] = bh[n]
  BY <1>1, <1>2, <1>4
<1>6. /\ C2 \in Colors /\ C2[w] = "RBRED" /\ \A n \in Ptrs \ {w} : C2[n] = C[n]
      /\ Blk(C2[w]) = 0 /\ C2[d] = C[d]
  BY <1>1, <1>3 DEF Colors, Blk
<1>7. d # r => P[d] \in S /\ (A[P[d]] = d \/ B[P[d]] = d) /\ P[d] # d /\ P[d] # w
  BY <1>1, <1>3 DEF Links
<1>8. \A n \in S : A[n] = d \/ B[n] = d => d # r /\ n = P[d]
  BY <1>1, <1>3, RBTreeAssumption DEF Links
<1> HIDE DEF bh2
<1>9. ASSUME NEW n \in S
      PROVE  /\ bh2[n] = bh2[A[n]] + Missing(n, a) + Blk(C2[n])
             /\ bh2[n] = bh2[B[n]] + Missing(n, b) + Blk(C2[n])
  <2>1. CASE n = d
    <3>1. Missing(n, a) = 0 /\ Missing(n, b) = 0
      BY <1>1, <1>7, <2>1 DEF Missing
    <3>2. bh2[A[n]] = bh[v] /\ bh2[B[n]] = bh[v] /\ Blk(C2[n]) = Blk(C[d])
      BY <1>1, <1>3, <1>5, <1>6, <2>1
    <3> QED
      BY <1>2, <1>4, <1>5, <2>1, <3>1, <3>2
  <2>2. CASE n = w
    <3>1. Missing(n, a) = 0 /\ Missing(n, b) = 0
      BY <1>1, <1>7, <2>2 DEF Missing
    <3>2. bh2[A[n]] = bh[v] /\ bh2[B[n]] = bh[v] /\ Blk(C2[n]) = 0
      BY <1>1, <1>4, <1>5, <1>6, <2>2
    <3> QED
      BY <1>2, <1>5, <2>2, <3>1, <3>2
  <2>3. CASE n \notin {d, w}
    <3>1. /\ bh2[n] = bh[n] /\ C2[n] = C[n] /\ A[n] \in Ptrs /\ B[n] \in Ptrs /\ A[n] # w /\ B[n] # w
          /\ bh[n] = bh[A[n]] + Missing(n, d) + Blk(C[n])
          /\ bh[n] = bh[B[n]] + Missing(n, NULL) + Blk(C[n])
          /\ Missing(n, d) = 0 /\ Missing(n, NULL) = 0
      BY <1>1, <1>5, <1>6, <2>3 DEF DeleteState, Heights, Missing
    <3>2. bh[A[n]] \in Nat /\ bh[B[n]] \in Nat /\ Blk(C[n]) \in 0..1
      BY <1>2, <3>1 DEF Blk
    <3>3. bh2[n] = bh2[A[n]] + Missing(n, a) + Blk(C2[n])
      <4>1. CASE A[n] = d
        <5>1. Missing(n, a) = 1
          BY <1>8, <4>1 DEF Missing
        <5> QED
          BY <1>4, <1>5, <3>1, <3>2, <4>1, <5>1, <1>2
      <4>2. CASE A[n] # d
        <5>1. Missing(n, a) = 0
          BY <1>1, <4>2 DEF Missing
        <5>2. bh2[A[n]] = bh[A[n]]
          BY <1>5, <3>1, <4>2
        <5> QED
          BY <3>1, <5>1, <5>2
      <4> QED
        BY <4>1, <4>2
    <3>4. bh2[n] = bh2[B[n]] + Missing(n, b) + Blk(C2[n])
      <4>1. CASE B[n] = d
        <5>1. A[n] # d
          BY <1>1, <1>3, <4>1
        <5>2. Missing(n, b) = 1
          BY <1>8, <4>1, <5>1 DEF Missing
        <5> QED
          BY <1>2, <1>4, <1>5, <3>1, <3>2, <4>1, <5>2
      <4>2. CASE B[n] # d
        <5>1. Missing(n, b) = 0
          BY <1>1, <1>7, <4>2 DEF Missing
        <5>2. bh2[B[n]] = bh[B[n]]
          BY <1>5, <3>1, <4>2
        <5> QED
          BY <3>1, <5>1, <5>2
      <4> QED
        BY <4>1, <4>2
    <3> QED
      BY <3>3, <3>4
  <2> QED
    BY <2>1, <2>2, <2>3
<1>10. Heights(A, B, C2, S, bh2, a, b)
  <2>1. bh2[RBNIL] = 0 /\ C2[RBNIL] = "RBBLK"
    <3>1. RBNIL \in Ptrs \ {d, w}
      BY <1>1
    <3> QED
      BY <1>2, <1>5, <1>6, <3>1
  <2> HIDE DEF a, b
  <2> QED
    BY <1>5, <1>9, <2>1 DEF Heights
<1>11. RedRule(A, B, C2, S, d, d)
  <2>1. ASSUME NEW n \in S, n # d, C2[n] = "RBRED"
        PROVE  C2[A[n]] = "RBBLK" /\ C2[B[n]] = "RBBLK"
    <3>1. C[A[n]] = "RBBLK" /\ C[B[n]] = "RBBLK" /\ A[n] \in Ptrs \ {w} /\ B[n] \in Ptrs \ {w}
      <4>1. CASE n = w
        BY <1>1, <4>1
      <4>2. CASE n # w
        <5>1. C[n] = "RBRED" /\ n # v
          BY <1>1, <1>3, <1>6, <2>1, <4>2
        <5>2. (A[n] = v \/ C[A[n]] = "RBBLK") /\ (B[n] = v \/ C[B[n]] = "RBBLK")
          BY <5>1 DEF DeleteState, RedRule
        <5> QED
          BY <1>1, <1>3, <2>1, <5>2
      <4> QED
        BY <4>1, <4>2
    <3> QED
      BY <1>6, <3>1
  <2> QED
    BY <2>1 DEF RedRule
<1>12. C2[r] = "RBBLK"
  <2>1. r # w /\ r \in Ptrs
    BY <1>1, <1>3, RBTreeAssumption DEF Links
  <2> QED
    BY <1>3, <1>6, <2>1
<1>13. FixState(A, B, P, C2, r, S, bh2, d)
  BY <1>1, <1>3, <1>6, <1>7, <1>10, <1>11, <1>12 DEF FixState
<1>14. C2[d] = "RBBLK" => bh2[d] = bh[v] + 1
  BY <1>5, <1>6 DEF Blk
<1> QED
  BY <1>13, <1>14 DEF Lifted

(* The third, where only the inner nephew is red: the outer one is red afterwards.        *)
LEMMA RedInnerNephew ==
  ASSUME NEW A, NEW B, NEW P, NEW C, NEW r, NEW S, NEW bh, NEW d, NEW v, DeleteState(A, B, P, C, r, S, bh, d, v),
         NEW w, w = B[d], C[w] = "RBBLK", C[B[w]] = "RBBLK", NEW c, c = A[w], C[c] = "RBRED",
         NEW C2, C2 = Paint(C, c, "RBBLK", w, "RBRED"),
         NEW A2, NEW B2, NEW P2, NEW r2, Rotated(B, A, P, r, w, B2, A2, P2, r2), Links(A2, B2, P2, r2, S)
  PROVE  \E bh2 : /\ DeleteState(A2, B2, P2, C2, r2, S, bh2, d, v)
                  /\ B2[d] = c /\ C2[c] = "RBBLK" /\ C2[B2[c]] = "RBRED"
<1>1. /\ S \subseteq Ptrs /\ RBNIL \notin S /\ NULL \notin S /\ RBNIL \in Ptrs
      /\ \A n \in S : A[n] \in S \cup {RBNIL} /\ B[n] \in S \cup {RBNIL}
      /\ v \in S \cup {RBNIL} /\ v # d /\ d \in S
      /\ w \in S /\ w # v /\ w # d /\ P[w] = d
      /\ A[w] # d /\ B[w] # d /\ A[w] # w /\ B[w] # w
      /\ \A n \in S : A[n] = w \/ B[n] = w => n = d
      /\ \A n \in S : v \in S => (A[n] = v \/ B[n] = v => n = d)
      /\ r \in S
  BY SiblingFacts
<1>2. /\ bh \in [Ptrs -> Nat] /\ bh[RBNIL] = 0 /\ C[RBNIL] = "RBBLK"
      /\ bh[d] \in Nat /\ bh[w] \in Nat /\ bh[v] \in Nat /\ bh[A[w]] \in Nat /\ bh[B[w]] \in Nat
      /\ bh[w] = bh[v] + 1
      /\ bh[w] = bh[A[w]] + Blk(C[w]) /\ bh[w] = bh[B[w]] + Blk(C[w])
  BY SiblingFacts
<1>3. /\ C \in Colors /\ A[d] = v /\ P[v] = d /\ v # r /\ C[v] = "RBBLK" /\ C[r] = "RBBLK"
      /\ Links(A, B, P, r, S)
  BY DEF DeleteState
<1>4. c \in S /\ c # v /\ c # d /\ c # w /\ P[c] = w
  <2>1. c \in S
    BY <1>1, <1>2
  <2> QED
    BY <1>1, <1>3, <2>1 DEF Links
<1>5. w # r /\ r # c
  BY <1>1, <1>3, <1>4, RBTreeAssumption DEF Links
<1>6. Links(B, A, P, r, S) /\ Heights(B, A, C, S, bh, NULL, d)
  BY <1>3 DEF DeleteState, Heights, Links
<1>7. /\ B2[c] = w /\ A2[w] = B[c] /\ B2[w] = B[w] /\ A2[c] = A[c]
      /\ \A n \in S \ {w, c} : /\ B2[n] = (IF B[n] = w THEN c ELSE B[n]) /\ B[n] # c
                               /\ A2[n] = (IF A[n] = w THEN c ELSE A[n]) /\ A[n] # c
      /\ B[c] \notin {w, c} /\ A[c] \notin {w, c} /\ B[w] \notin {w, c}
      /\ r2 = IF w = r THEN c ELSE r
      /\ \A n \in S \ {w, c} : P2[n] = IF n = B[c] THEN w ELSE P[n]
      /\ P2[RBNIL] = P[RBNIL]
  BY <1>1, <1>4, <1>6, RotatedLinks
<1>8. r2 = r /\ B2[d] = c /\ A2[d] = v
  BY <1>1, <1>3, <1>4, <1>5, <1>7
<1>9. P2[v] = d
  <2>1. CASE v = RBNIL
    BY <1>3, <1>7, <2>1
  <2>2. CASE v \in S
    <3>1. v # B[c]
      BY <1>1, <1>4, <2>2
    <3> QED
      BY <1>1, <1>3, <1>4, <1>7, <2>2, <3>1
  <2> QED
    BY <1>1, <2>1, <2>2
<1> DEFINE bh2 == [[bh EXCEPT ![c] = bh[w]] EXCEPT ![w] = bh[c]]
<1>10. bh2 \in [Ptrs -> Nat] /\ bh2[c] = bh[w] /\ bh2[w] = bh[c] /\ \A n \in Ptrs \ {w, c} : bh2[n] = bh[n]
  BY <1>1, <1>2, <1>4
<1>11. /\ C2 \in Colors /\ C2[c] = "RBBLK" /\ C2[w] = "RBRED" /\ \A n \in Ptrs \ {w, c} : C2[n] = C[n]
       /\ Blk(C2[c]) = 1 /\ Blk(C2[w]) = 0 /\ Blk(C[w]) = 1 /\ Blk(C[c]) = 0
  BY <1>1, <1>3, <1>4 DEF Colors, Blk, Paint
<1> HIDE DEF bh2
<1>12. Recolored(B, A, w, C, bh, NULL, d, C2, bh2)
  <2>1. /\ bh[c] = bh[B[c]] + Missing(c, NULL) + Blk(C[c])
        /\ bh[c] = bh[A[c]] + Missing(c, d) + Blk(C[c])
        /\ Missing(c, NULL) = 0 /\ Missing(c, d) = 0 /\ Missing(w, NULL) = 0
    BY <1>1, <1>4, <1>6 DEF Heights, Missing
  <2>2. bh[c] \in Nat /\ bh[A[c]] \in Nat /\ bh[B[c]] \in Nat
    BY <1>1, <1>2, <1>4
  <2>3. /\ bh2[w] = bh[B[w]] + Missing(w, NULL) + Blk(C2[w]) /\ bh2[w] = bh[B[c]] + Blk(C2[w])
        /\ bh[w] = bh2[w] + Blk(C2[c]) /\ bh[w] = bh[A[c]] + Missing(c, d) + Blk(C2[c])
    BY <1>2, <1>10, <1>11, <2>1, <2>2
  <2> QED
    BY <1>1, <1>4, <1>10, <1>11, <2>3 DEF Recolored
<1>13. Heights(B2, A2, C2, S, bh2, NULL, d)
  BY <1>1, <1>4, <1>6, <1>12, RotateHeights
<1>14. Heights(A2, B2, C2, S, bh2, d, NULL)
  BY <1>13 DEF Heights
<1>15. RedRule(A2, B2, C2, S, v, v)
  <2>1. ASSUME NEW n \in S, n # v, C2[n] = "RBRED"
        PROVE  (A2[n] = v \/ C2[A2[n]] = "RBBLK") /\ (B2[n] = v \/ C2[B2[n]] = "RBBLK")
    <3>1. CASE n = w
      <4>1. B[c] \in Ptrs \ {w, c} /\ B[w] \in Ptrs \ {w, c}
        BY <1>1, <1>4, <1>7
      <4>2. B[c] = v \/ C[B[c]] = "RBBLK"
        BY <1>4 DEF DeleteState, RedRule
      <4>3. C2[B[c]] = "RBBLK" /\ C2[B[w]] = "RBBLK"
        BY <1>3, <1>11, <4>1, <4>2
      <4> QED
        BY <1>7, <3>1, <4>3
    <3>2. CASE n # w
      <4>1. C[n] = "RBRED" /\ n # c /\ A[n] \in Ptrs /\ B[n] \in Ptrs
        BY <1>1, <1>11, <2>1, <3>2
      <4>2. (A[n] = v \/ C[A[n]] = "RBBLK") /\ (B[n] = v \/ C[B[n]] = "RBBLK")
        BY <2>1, <4>1 DEF DeleteState, RedRule
      <4>3. (A2[n] = c /\ A[n] = w) \/ (A2[n] = A[n] /\ A[n] \in Ptrs \ {w, c})
        BY <1>7, <3>2, <4>1
      <4>4. (B2[n] = c /\ B[n] = w) \/ (B2[n] = B[n] /\ B[n] \in Ptrs \ {w, c})
        BY <1>7, <3>2, <4>1
      <4>5. C2[c] = "RBBLK" /\ \A q \in Ptrs \ {w, c} : C2[q] = C[q]
        BY <1>11
      <4> QED
        BY <4>2, <4>3, <4>4, <4>5
    <3> QED
      BY <3>1, <3>2
  <2> QED
    BY <2>1 DEF RedRule
<1>16. C2[v] = "RBBLK" /\ C2[r2] = "RBBLK"
  <2>1. v \in Ptrs \ {w, c} /\ r \in Ptrs \ {w, c}
    BY <1>1, <1>4, <1>5
  <2>2. C2[v] = C[v] /\ C2[r] = C[r]
    BY <1>11, <2>1
  <2> QED
    BY <1>3, <1>8, <2>2
<1>17. DeleteState(A2, B2, P2, C2, r2, S, bh2, d, v)
  BY <1>1, <1>3, <1>8, <1>9, <1>11, <1>14, <1>15, <1>16 DEF DeleteState
<1> QED
  BY <1>7, <1>8, <1>11, <1>17

(* The fourth, a red outer nephew: the missing black node is there again.                 *)
LEMMA RedOuterSon ==
  ASSUME NEW A, NEW B, NEW P, NEW C, NEW r, NEW S, NEW bh, NEW d, NEW v, DeleteState(A, B, P, C, r, S, bh, d, v),
         NEW w, w = B[d], C[w] = "RBBLK", NEW e, e = B[w], C[e] = "RBRED",
         NEW C2, C2 = [Paint(C, w, C[d], d, "RBBLK") EXCEPT ![e] = "RBBLK"],
         NEW A2, NEW B2, NEW P2, NEW r2, Rotated(A, B, P, r, d, A2, B2, P2, r2), Links(A2, B2, P2, r2, S)
  PROVE  \E bh2 : FixState(A2, B2, P2, C2, r2, S, bh2, r2)
<1>1. /\ S \subseteq Ptrs /\ RBNIL \notin S /\ NULL \notin S /\ RBNIL \in Ptrs
      /\ \A n \in S : A[n] \in S \cup {RBNIL} /\ B[n] \in S \cup {RBNIL}
      /\ v \in S \cup {RBNIL} /\ v # d /\ d \in S
      /\ w \in S /\ w # v /\ w # d /\ P[w] = d
      /\ \A n \in S : A[n] = w \/ B[n] = w => n = d
      /\ \A n \in S : v \in S => (A[n] = v \/ B[n] = v => n = d)
      /\ r \in S /\ P[d] # v
  BY SiblingFacts
<1>2. /\ bh \in [Ptrs -> Nat] /\ bh[RBNIL] = 0 /\ C[RBNIL] = "RBBLK"
      /\ bh[d] \in Nat /\ bh[w] \in Nat /\ bh[v] \in Nat /\ bh[A[w]] \in Nat /\ bh[B[w]] \in Nat
      /\ bh[w] = bh[v] + 1 /\ bh[d] = bh[w] + Blk(C[d])
      /\ bh[w] = bh[A[w]] + Blk(C[w]) /\ bh[w] = bh[B[w]] + Blk(C[w])
      /\ C[d] \in {"RBRED", "RBBLK"}
  BY SiblingFacts
<1>3. /\ C \in Colors /\ A[d] = v /\ P[v] = d /\ v # r /\ C[v] = "RBBLK" /\ C[r] = "RBBLK"
      /\ Links(A, B, P, r, S)
  BY DEF DeleteState
<1>4. /\ A2[w] = d /\ B2[d] = A[w] /\ A2[d] = A[d] /\ B2[w] = B[w]
      /\ \A n \in S \ {d, w} : /\ A2[n] = (IF A[n] = d THEN w ELSE A[n]) /\ A[n] # w
                               /\ B2[n] = (IF B[n] = d THEN w ELSE B[n]) /\ B[n] # w
      /\ A[w] \notin {d, w} /\ B[w] \notin {d, w} /\ A[d] \notin {d, w}
      /\ r2 = IF d = r THEN w ELSE r
  BY <1>1, <1>3, RotatedLinks
<1>5. /\ e \in S /\ e # d /\ e # w /\ e # v /\ P[e] = w /\ A[w] # e /\ A[e] # e /\ B[e] # e
      /\ \A n \in S : A[n] = e \/ B[n] = e => n = w
      /\ A[e] \notin {d, w} /\ B[e] \notin {d, w}
  <2>1. e \in S
    BY <1>1, <1>2
  <2>2. P[e] = w /\ e # w /\ e # v /\ e # d /\ A[w] # e
    BY <1>1, <1>3, <1>4, <2>1 DEF Links
  <2>3. \A n \in S : A[n] = e \/ B[n] = e => n = w
    BY <1>3, <2>1, <2>2 DEF Links
  <2>4. A[e] # d /\ B[e] # d
    BY <1>1, <1>3, <2>1, <2>2 DEF Links
  <2>5. A[e] # w /\ B[e] # w /\ A[e] # e /\ B[e] # e
    BY <1>1, <2>1, <2>2, <2>3
  <2> QED
    BY <2>1, <2>2, <2>3, <2>4, <2>5
<1> DEFINE bh2 == [[[bh EXCEPT ![w] = bh[d]] EXCEPT ![d] = bh[v] + 1] EXCEPT ![e] = bh[v] + 1]
<1>6. /\ Blk(C[d]) \in 0..1 /\ Blk(C[w]) = 1 /\ Blk(C[e]) = 0 /\ bh[A[w]] = bh[v] /\ bh[e] = bh[v]
      /\ bh[d] = bh[v] + 1 + Blk(C[d])
  <2>1. Blk(C[d]) \in 0..1 /\ Blk(C[w]) = 1 /\ Blk(C[e]) = 0
    BY DEF Blk
  <2> QED
    BY <1>2, <2>1
<1>7. /\ bh2 \in [Ptrs -> Nat] /\ bh2[w] = bh[d] /\ bh2[d] = bh[v] + 1 /\ bh2[e] = bh[v] + 1
      /\ \A n \in Ptrs \ {d, w, e} : bh2[n] = bh[n]
  BY <1>1, <1>2, <1>5
<1>8. /\ C2 \in Colors /\ C2[w] = C[d] /\ C2[d] = "RBBLK" /\ C2[e] = "RBBLK"
      /\ \A n \in Ptrs \ {d, w, e} : C2[n] = C[n]
  BY <1>1, <1>2, <1>3, <1>5 DEF Colors, Paint
<1> HIDE DEF bh2
<1>9. ASSUME NEW n \in S
      PROVE  /\ bh2[n] = bh2[A2[n]] + Missing(n, NULL) + Blk(C2[n])
             /\ bh2[n] = bh2[B2[n]] + Missing(n, NULL) + Blk(C2[n])
  <2>0. Missing(n, NULL) = 0
    BY <1>1 DEF Missing
  <2>1. CASE n = d
    <3>1. A2[n] = v /\ B2[n] = A[w] /\ Blk(C2[n]) = 1
      BY <1>3, <1>4, <1>8, <2>1 DEF Blk
    <3>2. v \in Ptrs \ {d, w, e} /\ A[w] \in Ptrs \ {d, w, e}
      BY <1>1, <1>4, <1>5
    <3>3. bh2[v] = bh[v] /\ bh2[A[w]] = bh[v]
      BY <1>6, <1>7, <3>2
    <3> QED
      BY <1>2, <1>7, <2>0, <2>1, <3>1, <3>3
  <2>2. CASE n = w
    <3>1. A2[n] = d /\ B2[n] = e /\ Blk(C2[n]) = Blk(C[d])
      BY <1>4, <1>8, <2>2
    <3> QED
      BY <1>2, <1>6, <1>7, <2>0, <2>2, <3>1
  <2>3. CASE n = e
    <3>1. A2[n] = A[e] /\ B2[n] = B[e] /\ Blk(C2[n]) = 1
      BY <1>4, <1>5, <1>8, <2>3 DEF Blk
    <3>2. A[e] \in Ptrs \ {d, w, e} /\ B[e] \in Ptrs \ {d, w, e}
      BY <1>1, <1>5
    <3>3. bh[e] = bh[A[e]] + Missing(e, d) + Blk(C[e]) /\ bh[e] = bh[B[e]] + Missing(e, NULL) + Blk(C[e])
      BY <1>5 DEF DeleteState, Heights
    <3>4. Missing(e, d) = 0 /\ Missing(e, NULL) = 0
      BY <1>1, <1>5 DEF Missing
    <3>5. bh2[A[e]] = bh[A[e]] /\ bh2[B[e]] = bh[B[e]] /\ bh[A[e]] \in Nat /\ bh[B[e]] \in Nat
      BY <1>2, <1>7, <3>2
    <3> QED
      BY <1>2, <1>6, <1>7, <2>0, <2>3, <3>1, <3>3, <3>4, <3>5
  <2>4. CASE n \notin {d, w, e}
    <3>1. C2[n] = C[n] /\ bh2[n] = bh[n] /\ A[n] \in Ptrs /\ B[n] \in Ptrs
      BY <1>1, <1>7, <1>8, <2>4
    <3>2. bh[n] = bh[A[n]] + Missing(n, d) + Blk(C[n]) /\ bh[n] = bh[B[n]] + Missing(n, NULL) + Blk(C[n])
      BY DEF DeleteState, Heights
    <3>3. Missing(n, d) = 0
      BY <2>4 DEF Missing
    <3>4. bh2[A2[n]] = bh[A[n]]
      <4>1. (A2[n] = w /\ A[n] = d) \/ (A2[n] = A[n] /\ A[n] \in Ptrs \ {d, w, e})
        BY <1>4, <1>5, <2>4, <3>1
      <4> QED
        BY <1>7, <4>1
    <3>5. bh2[B2[n]] = bh[B[n]]
      <4>1. (B2[n] = w /\ B[n] = d) \/ (B2[n] = B[n] /\ B[n] \in Ptrs \ {d, w, e})
        BY <1>4, <1>5, <2>4, <3>1
      <4> QED
        BY <1>7, <4>1
    <3> QED
      BY <2>0, <3>1, <3>2, <3>3, <3>4, <3>5
  <2> QED
    BY <2>1, <2>2, <2>3, <2>4
<1>10. Heights(A2, B2, C2, S, bh2, NULL, NULL)
  <2>1. RBNIL \in Ptrs \ {d, w, e}
    BY <1>1, <1>5
  <2>2. bh2[RBNIL] = 0 /\ C2[RBNIL] = "RBBLK"
    BY <1>2, <1>7, <1>8, <2>1
  <2> QED
    BY <1>7, <1>9, <2>2 DEF Heights
<1>11. RedRule(A2, B2, C2, S, r2, r2)
  <2>1. ASSUME NEW n \in S, C2[n] = "RBRED"
        PROVE  C2[A2[n]] = "RBBLK" /\ C2[B2[n]] = "RBBLK"
    <3>1. CASE n = w
      BY <1>4, <1>8, <3>1
    <3>2. CASE n # w
      <4>1. n \notin {d, w, e} /\ C[n] = "RBRED" /\ n # v /\ A[n] \in Ptrs /\ B[n] \in Ptrs
        BY <1>1, <1>3, <1>8, <2>1, <3>2
      <4>2. (A[n] = v \/ C[A[n]] = "RBBLK") /\ (B[n] = v \/ C[B[n]] = "RBBLK")
        BY <4>1 DEF DeleteState, RedRule
      <4>3. C[A[n]] = "RBBLK" /\ C[B[n]] = "RBBLK"
        BY <1>3, <4>2
      <4>4. (A2[n] = w /\ A[n] = d) \/ (A2[n] = A[n] /\ A[n] \in Ptrs \ {d, w, e})
        BY <1>4, <1>5, <4>1
      <4>5. (B2[n] = w /\ B[n] = d) \/ (B2[n] = B[n] /\ B[n] \in Ptrs \ {d, w, e})
        BY <1>4, <1>5, <4>1
      <4>6. C2[w] = C[d] /\ \A q \in Ptrs \ {d, w, e} : C2[q] = C[q]
        BY <1>8
      <4> QED
        BY <4>3, <4>4, <4>5, <4>6
    <3> QED
      BY <3>1, <3>2
  <2> QED
    BY <2>1 DEF RedRule
<1>12. r2 \in S
  BY <1>1, <1>4
<1>13. FixState(A2, B2, P2, C2, r2, S, bh2, r2)
  BY <1>8, <1>10, <1>11, <1>12 DEF FixState
<1> QED
  BY <1>13

----------------------------------------------------------------------------
(* The same tree over the same nodes, otherwise linked and colored. *)
Kept(mem, m2, t, S, pos, top) ==
  /\ m2 \in Heaps /\ Tree(m2, t, S, pos, top) /\ m2.pay = mem.pay
  /\ \A n \in Nodes \ S : m2.parent[n] = mem.parent[n]

(* InsertState of a tree in memory, seen from a side. *)
InsertAt(mem, s, t, S, bh, v) ==
  InsertState(mem[s], mem[Other(s)], mem.parent, mem.color, mem.root[t], S, bh, v)

(* It is the same from either side. *)
LEMMA InsertEitherSide ==
  ASSUME NEW mem, NEW s \in Sides, NEW t, NEW S, NEW bh, NEW v, InsertAt(mem, s, t, S, bh, v), NEW q \in Sides
  PROVE  InsertAt(mem, q, t, S, bh, v)
<1>1. q = s \/ (q = Other(s) /\ Other(q) = s)
  BY DEF Sides, Other
<1> QED
  BY <1>1, InsertMirror DEF InsertAt

(* Two changes that keep a tree. *)
LEMMA KeptTwice ==
  ASSUME NEW mem, NEW m1, NEW m2, NEW t, NEW S, NEW pos, NEW top,
         Kept(mem, m1, t, S, pos, top), Kept(m1, m2, t, S, pos, top)
  PROVE  Kept(mem, m2, t, S, pos, top)
BY DEF Kept

(* New colors keep a tree. *)
LEMMA RecolorTree ==
  ASSUME NEW mem \in Heaps, NEW t, NEW S, NEW pos, NEW top, Tree(mem, t, S, pos, top),
         NEW C \in Colors, NEW m2, m2 = [mem EXCEPT !.color = C]
  PROVE  /\ Kept(mem, m2, t, S, pos, top) /\ m2.color = C /\ m2.parent = mem.parent /\ m2.root = mem.root
         /\ \A s \in Sides : m2[s] = mem[s]
<1>1. /\ m2 \in Heaps /\ m2.color = C /\ m2.parent = mem.parent /\ m2.root = mem.root
      /\ m2.left = mem.left /\ m2.right = mem.right /\ m2.pay = mem.pay
  BY DEF Heaps, Colors
<1>2. Tree(m2, t, S, pos, top)
  BY <1>1 DEF Tree
<1> QED
  BY <1>1, <1>2 DEF Kept, Sides

(* RaiseParent, the end of the case of a black uncle, in memory. *)
LEMMA RaiseParentStep ==
  ASSUME NEW mem \in Heaps, NEW t \in Trees, NEW S, NEW pos, NEW top, Tree(mem, t, S, pos, top),
         NEW s \in Sides, NEW bh, NEW v, InsertAt(mem, s, t, S, bh, v), v # mem.root[t],
         NEW p, p = mem.parent[v], mem.color[p] = "RBRED", NEW d, d = mem.parent[p],
         mem[s][d] = p, mem[s][p] = v, mem.color[mem[Other(s)][d]] = "RBBLK",
         NEW m2, m2 = RaiseParent(mem, t, v, Other(s))
  PROVE  /\ Kept(mem, m2, t, S, pos, top) /\ m2.color[m2.parent[v]] = "RBBLK"
         /\ \E bh2 : InsertAt(m2, s, t, S, bh2, v)
<1> DEFINE o == Other(s)
           C2 == [[mem.color EXCEPT ![p] = "RBBLK"] EXCEPT ![d] = "RBRED"]
           m1 == [mem EXCEPT !.color = C2]
<1>1. o \in Sides /\ Other(o) = s
  BY OtherSide
<1>2. p \in S /\ d \in S /\ S \subseteq Ptrs
  BY Grandparent DEF InsertAt, InsertState, Links, Ptrs
<1>3. C2 \in Colors
  BY <1>2 DEF Colors, Heaps
<1>4. m2 = Rotate(m1, t, d, o)
  BY DEF RaiseParent
<1> HIDE DEF C2, o
<1>5. /\ Kept(mem, m1, t, S, pos, top) /\ m1.color = C2 /\ m1.parent = mem.parent /\ m1.root = mem.root
      /\ \A q \in Sides : m1[q] = mem[q]
  BY <1>3, RecolorTree
<1> HIDE DEF m1
<1>6. /\ m2 \in Heaps /\ m2.color = C2 /\ m2.pay = m1.pay /\ Tree(m2, t, S, pos, top)
      /\ Rotated(mem[o], mem[s], mem.parent, mem.root[t], d, m2[o], m2[s], m2.parent, m2.root[t])
      /\ \A n \in Nodes \ S : m2.parent[n] = m1.parent[n]
  <2>1. m1 \in Heaps /\ Tree(m1, t, S, pos, top) /\ m1[Other(o)][d] \in S
    BY <1>1, <1>2, <1>5 DEF Kept
  <2>2. /\ m2 \in Heaps /\ m2.color = m1.color /\ m2.pay = m1.pay /\ Tree(m2, t, S, pos, top)
        /\ Rotated(m1[o], m1[Other(o)], m1.parent, m1.root[t], d, m2[o], m2[Other(o)], m2.parent, m2.root[t])
        /\ \A n \in Nodes \ S : m2.parent[n] = m1.parent[n]
    BY <1>1, <1>2, <1>4, <2>1, RotateTree
  <2> QED
    BY <1>1, <1>5, <2>2
<1>7. Kept(mem, m2, t, S, pos, top)
  BY <1>5, <1>6 DEF Kept
<1>8. Links(m2[s], m2[o], m2.parent, m2.root[t], S)
  BY <1>6, TreeLinks DEF o
<1>9. InsertState(mem[s], mem[o], mem.parent, mem.color, mem.root[t], S, bh, v)
  BY DEF InsertAt, o
<1>10. Raised(m2[s], m2[o], m2.parent, C2, m2.root[t], S, v)
  <2>1. mem.color[mem[o][d]] = "RBBLK"
    BY DEF o
  <2>2. C2 = [[mem.color EXCEPT ![p] = "RBBLK"] EXCEPT ![d] = "RBRED"]
    BY DEF C2
  <2>3. /\ InsertState(mem[s], mem[o], mem.parent, mem.color, mem.root[t], S, bh, v) /\ v # mem.root[t]
        /\ p \in S /\ p = mem.parent[v] /\ mem.color[p] = "RBRED" /\ d \in S /\ d = mem.parent[p]
        /\ mem[s][d] = p /\ mem[s][p] = v
        /\ Rotated(mem[o], mem[s], mem.parent, mem.root[t], d, m2[o], m2[s], m2.parent, m2.root[t])
        /\ Links(m2[s], m2[o], m2.parent, m2.root[t], S)
    BY <1>2, <1>6, <1>8, <1>9
  <2> QED
    BY ONLY <2>1, <2>2, <2>3, OuterChild
<1>11. \E bh2 : InsertAt(m2, s, t, S, bh2, v)
  BY <1>6, <1>10 DEF InsertAt, Raised, o
<1> QED
  BY <1>6, <1>7, <1>10, <1>11 DEF Raised

(* One iteration of insert_fixup: the tree keeps its nodes and their order, and is as the  *)
(* next iteration expects it.                                                              *)
LEMMA InsertStep ==
  ASSUME NEW mem \in Heaps, NEW t \in Trees, NEW S, NEW pos, NEW top, Tree(mem, t, S, pos, top),
         NEW bh, NEW v, InsertAt(mem, "left", t, S, bh, v), InsertFixupNeeded(mem, t, v),
         NEW st, st = InsertFixupStep(mem, t, v)
  PROVE  /\ Kept(mem, st.h, t, S, pos, top)
         /\ \E bh2 : /\ InsertAt(st.h, "left", t, S, bh2, st.x)
                     /\ InsertFixupNeeded(st.h, t, st.x) => bh2[st.x] = bh[v] + 1
<1> DEFINE p == mem.parent[v]
           d == mem.parent[p]
           s == IF p = mem.left[d] THEN "left" ELSE "right"
           o == Other(s)
           u == mem[o][d]
           C == mem.color
<1>1. v # mem.root[t] /\ C[p] = "RBRED"
  BY DEF InsertFixupNeeded
<1>2. s \in Sides /\ o \in Sides /\ Other(o) = s /\ "left" \in Sides
  BY DEF Sides, Other
<1>3. InsertAt(mem, s, t, S, bh, v)
  BY <1>2, InsertEitherSide
<1>4. InsertState(mem.left, mem.right, mem.parent, C, mem.root[t], S, bh, v)
  BY DEF InsertAt, Other
<1>5. /\ p \in S /\ d \in S /\ (mem.left[d] = p \/ mem.right[d] = p)
      /\ S \subseteq Ptrs /\ C \in Colors /\ v \in S
  BY <1>1, <1>4, Grandparent DEF InsertState, Links, Ptrs
<1>6. mem[s][d] = p
  BY <1>5
<1>7. (mem[s][p] = v \/ mem[o][p] = v) /\ u \in Ptrs
  <2>1. mem.left[p] = v \/ mem.right[p] = v
    BY <1>1, <1>4, Grandparent
  <2>2. mem[s][p] = v \/ mem[o][p] = v
    BY <2>1 DEF Other
  <2>3. Links(mem[s], mem[o], mem.parent, mem.root[t], S)
    BY <1>3 DEF InsertAt, InsertState
  <2>4. mem[o][d] \in S \cup {RBNIL}
    <3> HIDE DEF o, d, s
    <3> QED
      BY <1>5, <2>3 DEF Links
  <2> QED
    BY <1>5, <2>2, <2>4 DEF Ptrs
<1>8. CASE C[u] = "RBRED"
  <2> DEFINE C2 == [[[C EXCEPT ![p] = "RBBLK"] EXCEPT ![u] = "RBBLK"] EXCEPT ![d] = "RBRED"]
             m2 == [mem EXCEPT !.color = C2]
  <2>1. st.h = m2 /\ st.x = d
    BY <1>8 DEF InsertFixupStep
  <2>2. C2 \in Colors
    BY <1>5 DEF Colors
  <2>3. \E bh2 : InsertState(mem[s], mem[o], mem.parent, C2, mem.root[t], S, bh2, d) /\ bh2[d] = bh[v] + 1
    <3> HIDE DEF p, d, s, o, u, C
    <3>1. InsertState(mem[s], mem[o], mem.parent, C, mem.root[t], S, bh, v) /\ v # mem.root[t]
      BY <1>1, <1>3 DEF InsertAt, o, C
    <3>2. p = mem.parent[v] /\ d = mem.parent[p] /\ u = mem[o][d]
      BY DEF p, d, u
    <3> QED
      BY <1>1, <1>5, <1>6, <1>8, <3>1, <3>2, RedUncle
  <2> HIDE DEF C2
  <2>4. /\ Kept(mem, m2, t, S, pos, top) /\ m2.color = C2 /\ m2.parent = mem.parent /\ m2.root = mem.root
        /\ \A q \in Sides : m2[q] = mem[q]
    BY <2>2, RecolorTree
  <2>5. \E bh2 : InsertAt(m2, s, t, S, bh2, d) /\ bh2[d] = bh[v] + 1
    <3> HIDE DEF m2, s, d
    <3> QED
      BY <1>2, <2>3, <2>4 DEF InsertAt
  <2>6. \E bh2 : InsertAt(m2, "left", t, S, bh2, d) /\ bh2[d] = bh[v] + 1
    <3> HIDE DEF m2, s, d
    <3> QED
      BY <1>2, <2>5, InsertEitherSide
  <2> QED
    BY <2>1, <2>4, <2>6
<1>9. CASE C[u] # "RBRED" /\ v = mem[o][p]
  <2> DEFINE m1 == Rotate(mem, t, p, s)
             m2 == RaiseParent(m1, t, p, o)
  <2>1. st.h = m2 /\ st.x = p
    BY <1>9 DEF InsertFixupStep
  <2>2. /\ m1 \in Heaps /\ m1.color = C /\ m1.pay = mem.pay /\ Tree(m1, t, S, pos, top)
        /\ Rotated(mem[s], mem[o], mem.parent, mem.root[t], p, m1[s], m1[o], m1.parent, m1.root[t])
        /\ \A n \in Nodes \ S : m1.parent[n] = mem.parent[n]
    <3>1. mem[Other(s)][p] \in S
      BY <1>5, <1>9
    <3> HIDE DEF s, p
    <3> QED
      BY <1>2, <1>5, <3>1, RotateTree
  <2> HIDE DEF m1
  <2>3. Links(m1[s], m1[o], m1.parent, m1.root[t], S)
    BY <1>2, <2>2, TreeLinks
  <2>4. /\ InsertState(m1[s], m1[o], m1.parent, C, m1.root[t], S, bh, p)
        /\ p # m1.root[t] /\ m1.parent[p] = v /\ m1.parent[v] = d
        /\ m1[s][d] = v /\ m1[s][v] = p /\ m1[o][d] = u
    <3>1. InsertState(mem[s], mem[o], mem.parent, C, mem.root[t], S, bh, v) /\ v # mem.root[t]
      BY <1>1, <1>3 DEF InsertAt
    <3>2. p = mem.parent[v] /\ d = mem.parent[p] /\ u = mem[o][d] /\ mem[o][p] = v /\ p \in S /\ d \in S
      BY <1>5, <1>9
    <3>3. /\ Rotated(mem[s], mem[o], mem.parent, mem.root[t], p, m1[s], m1[o], m1.parent, m1.root[t])
          /\ C[p] = "RBRED" /\ mem[s][d] = p
      BY <1>1, <1>6, <2>2
    <3> HIDE DEF p, d, s, o, u, C
    <3>4. /\ InsertState(m1[s], m1[o], m1.parent, C, m1.root[t], S, bh, p)
          /\ p # m1.root[t] /\ m1.parent[p] = v /\ m1.parent[v] = d
          /\ m1[s][d] = v /\ m1[s][v] = p /\ m1[o][d] = mem[o][d]
      BY <2>3, <3>1, <3>2, <3>3, InnerChild
    <3> QED
      BY <3>2, <3>4
  <2>5. Kept(mem, m1, t, S, pos, top)
    BY <2>2 DEF Kept
  <2>6. C[u] = "RBBLK" /\ C[v] = "RBRED"
    BY <1>4, <1>5, <1>9, <1>7 DEF Colors, InsertState
  <2>7. /\ Kept(m1, m2, t, S, pos, top) /\ m2.color[m2.parent[p]] = "RBBLK"
        /\ \E bh2 : InsertAt(m2, s, t, S, bh2, p)
    <3>1. InsertAt(m1, s, t, S, bh, p)
      BY <2>2, <2>4 DEF InsertAt
    <3>2. m1.color[v] = "RBRED" /\ m1.color[m1[Other(s)][d]] = "RBBLK"
      BY <2>2, <2>4, <2>6
    <3> HIDE DEF p, d, s, m2
    <3> QED
      BY <1>2, <2>2, <2>4, <3>1, <3>2, RaiseParentStep DEF m2
  <2>8. \E bh2 : InsertAt(m2, "left", t, S, bh2, p)
    <3> HIDE DEF m2, s, p
    <3> QED
      BY <1>2, <2>7, InsertEitherSide
  <2>9. ~InsertFixupNeeded(m2, t, p)
    <3> HIDE DEF m2, p
    <3> QED
      BY <2>7 DEF InsertFixupNeeded
  <2> QED
    BY <2>1, <2>5, <2>7, <2>8, <2>9, KeptTwice
<1>10. CASE C[u] # "RBRED" /\ v # mem[o][p]
  <2> DEFINE m2 == RaiseParent(mem, t, v, o)
  <2>1. st.h = m2 /\ st.x = v
    BY <1>10 DEF InsertFixupStep
  <2>2. C[u] = "RBBLK"
    BY <1>5, <1>10, <1>7 DEF Colors
  <2>3. /\ Kept(mem, m2, t, S, pos, top) /\ m2.color[m2.parent[v]] = "RBBLK"
        /\ \E bh2 : InsertAt(m2, s, t, S, bh2, v)
    <3>1. mem[s][p] = v /\ mem.color[mem[Other(s)][d]] = "RBBLK" /\ d = mem.parent[p] /\ p = mem.parent[v]
      BY <1>7, <1>10, <2>2
    <3> HIDE DEF p, d, s, m2
    <3> QED
      BY <1>1, <1>2, <1>3, <1>6, <3>1, RaiseParentStep DEF m2
  <2>4. \E bh2 : InsertAt(m2, "left", t, S, bh2, v)
    <3> HIDE DEF m2, s
    <3> QED
      BY <1>2, <2>3, InsertEitherSide
  <2>5. ~InsertFixupNeeded(m2, t, v)
    <3> HIDE DEF m2
    <3> QED
      BY <2>3 DEF InsertFixupNeeded
  <2> QED
    BY <2>1, <2>3, <2>4, <2>5
<1> QED
  BY <1>8, <1>9, <1>10

----------------------------------------------------------------------------
(* DeleteState of a tree in memory, seen from a side. *)
DeleteAt(mem, s, t, S, bh, d, v) ==
  DeleteState(mem[s], mem[Other(s)], mem.parent, mem.color, mem.root[t], S, bh, d, v)

(* FixState of a tree in memory, seen from a side. *)
FixAt(mem, s, t, S, bh, v) ==
  FixState(mem[s], mem[Other(s)], mem.parent, mem.color, mem.root[t], S, bh, v)

(* It is the same from either side. *)
LEMMA FixEitherSide ==
  ASSUME NEW mem, NEW s \in Sides, NEW t, NEW S, NEW bh, NEW v, FixAt(mem, s, t, S, bh, v), NEW q \in Sides
  PROVE  FixAt(mem, q, t, S, bh, v)
<1>1. q = s \/ (q = Other(s) /\ Other(q) = s)
  BY DEF Sides, Other
<1> QED
  BY <1>1, FixMirror DEF FixAt

(* The memory with the colors C2. *)
Recolor(mem, C2) == [mem EXCEPT !.color = C2]

(* What a rotation at v towards s does after the nodes got the colors C2. *)
LEMMA RecolorRotate ==
  ASSUME NEW mem \in Heaps, NEW t \in Trees, NEW S, NEW pos, NEW top, Tree(mem, t, S, pos, top),
         NEW s \in Sides, NEW v \in S, mem[Other(s)][v] \in S, NEW C2 \in Colors,
         NEW m1, m1 = Recolor(mem, C2), NEW m2, m2 = Rotate(m1, t, v, s)
  PROVE  /\ Kept(mem, m2, t, S, pos, top) /\ m2.color = C2
         /\ Rotated(mem[s], mem[Other(s)], mem.parent, mem.root[t], v, m2[s], m2[Other(s)], m2.parent, m2.root[t])
         /\ Links(m2[s], m2[Other(s)], m2.parent, m2.root[t], S)
         /\ Links(m2[Other(s)], m2[s], m2.parent, m2.root[t], S)
<1> DEFINE o == Other(s)
<1>1. o \in Sides /\ Other(o) = s
  BY OtherSide
<1>2. /\ Kept(mem, m1, t, S, pos, top) /\ m1.color = C2 /\ m1.parent = mem.parent /\ m1.root = mem.root
      /\ \A q \in Sides : m1[q] = mem[q]
  BY RecolorTree DEF Recolor
<1>3. m1 \in Heaps /\ Tree(m1, t, S, pos, top) /\ m1[Other(s)][v] \in S
  BY <1>1, <1>2 DEF Kept
<1>4. /\ m2 \in Heaps /\ m2.color = m1.color /\ m2.pay = m1.pay /\ Tree(m2, t, S, pos, top)
      /\ Rotated(m1[s], m1[Other(s)], m1.parent, m1.root[t], v, m2[s], m2[Other(s)], m2.parent, m2.root[t])
      /\ \A n \in Nodes \ S : m2.parent[n] = m1.parent[n]
  BY <1>3, RotateTree
<1>5. Kept(mem, m2, t, S, pos, top)
  BY <1>2, <1>4 DEF Kept
<1>6. Links(m2[s], m2[o], m2.parent, m2.root[t], S) /\ Links(m2[o], m2[s], m2.parent, m2.root[t], S)
  BY <1>1, <1>4, TreeLinks
<1> QED
  BY <1>1, <1>2, <1>4, <1>5, <1>6

(* The first case of delete_fixup in memory: afterwards the sibling is black. *)
LEMMA BlackSiblingStep ==
  ASSUME NEW mem \in Heaps, NEW t \in Trees, NEW S, NEW pos, NEW top, Tree(mem, t, S, pos, top),
         NEW s \in Sides, NEW bh, NEW d, NEW v, DeleteAt(mem, s, t, S, bh, d, v),
         NEW m2, m2 = BlackSibling(mem, t, v, s)
  PROVE  /\ Kept(mem, m2, t, S, pos, top)
         /\ \E bh2 : /\ DeleteAt(m2, s, t, S, bh2, d, v) /\ bh2[v] = bh[v]
                     /\ m2.color[m2[Other(s)][d]] = "RBBLK"
<1> DEFINE o == Other(s)
           w == mem[o][d]
           C == mem.color
<1>1. DeleteState(mem[s], mem[o], mem.parent, C, mem.root[t], S, bh, d, v)
  BY DEF DeleteAt
<1>2. d = mem.parent[v] /\ w \in S /\ d \in S /\ S \subseteq Ptrs /\ C[w] \in {"RBRED", "RBBLK"} /\ C \in Colors
  <2>1. d = mem.parent[v] /\ C \in Colors
    BY <1>1 DEF DeleteState
  <2> HIDE DEF o, C
  <2> QED
    BY <1>1, <2>1, SiblingFacts
<1>3. CASE C[w] = "RBRED"
  <2> DEFINE C2 == [[C EXCEPT ![w] = "RBBLK"] EXCEPT ![d] = "RBRED"]
  <2>1. m2 = Rotate(Recolor(mem, C2), t, d, s)
    BY <1>2, <1>3 DEF BlackSibling, Sibling, Recolor
  <2>2. C2 \in Colors
    BY <1>2 DEF Colors
  <2> HIDE DEF C2
  <2>3. /\ Kept(mem, m2, t, S, pos, top) /\ m2.color = C2
        /\ Rotated(mem[s], mem[o], mem.parent, mem.root[t], d, m2[s], m2[o], m2.parent, m2.root[t])
        /\ Links(m2[s], m2[o], m2.parent, m2.root[t], S)
    BY <1>2, <2>1, <2>2, RecolorRotate
  <2>4. \E bh2 : /\ DeleteState(m2[s], m2[o], m2.parent, C2, m2.root[t], S, bh2, d, v)
                 /\ C2[m2[o][d]] = "RBBLK" /\ bh2[v] = bh[v]
    <3>1. w = mem[o][d] /\ C2 = Paint(C, w, "RBBLK", d, "RBRED")
      BY DEF C2, Paint
    <3> HIDE DEF w, o, C
    <3> QED
      BY <1>1, <1>3, <2>3, <3>1, RedSibling
  <2> QED
    BY <2>3, <2>4 DEF DeleteAt
<1>4. CASE C[w] = "RBBLK"
  <2>1. m2 = mem
    BY <1>2, <1>4 DEF BlackSibling, Sibling
  <2>2. Kept(mem, m2, t, S, pos, top)
    BY <2>1 DEF Kept
  <2> QED
    BY <1>4, <2>1, <2>2
<1> QED
  BY <1>2, <1>3, <1>4

(* The third case in memory: afterwards the outer nephew is red. *)
LEMMA RedOuterNephewStep ==
  ASSUME NEW mem \in Heaps, NEW t \in Trees, NEW S, NEW pos, NEW top, Tree(mem, t, S, pos, top),
         NEW s \in Sides, NEW bh, NEW d, NEW v, DeleteAt(mem, s, t, S, bh, d, v),
         NEW w, w = mem[Other(s)][d], mem.color[w] = "RBBLK",
         mem.color[mem[s][w]] # "RBBLK" \/ mem.color[mem[Other(s)][w]] # "RBBLK",
         NEW m2, m2 = RedOuterNephew(mem, t, v, s)
  PROVE  /\ Kept(mem, m2, t, S, pos, top)
         /\ \E bh2, w2 : /\ DeleteAt(m2, s, t, S, bh2, d, v) /\ w2 = m2[Other(s)][d]
                         /\ m2.color[w2] = "RBBLK" /\ m2.color[m2[Other(s)][w2]] = "RBRED"
<1> DEFINE o == Other(s)
           C == mem.color
           c == mem[s][w]
<1>1. DeleteState(mem[s], mem[o], mem.parent, C, mem.root[t], S, bh, d, v)
  BY DEF DeleteAt
<1>2. /\ d = mem.parent[v] /\ w \in S /\ d \in S /\ S \subseteq Ptrs /\ RBNIL \in Ptrs /\ C \in Colors
      /\ c \in S \cup {RBNIL} /\ mem[o][w] \in S \cup {RBNIL} /\ C[RBNIL] = "RBBLK"
  <2>1. d = mem.parent[v] /\ C \in Colors
    BY <1>1 DEF DeleteState
  <2> HIDE DEF o, C
  <2>2. w = mem[o][d]
    BY DEF o
  <2>3. DeleteState(mem[s], mem[o], mem.parent, C, mem.root[t], S, bh, d, v)
    BY <1>1
  <2> QED
    BY ONLY <2>1, <2>2, <2>3, SiblingFacts DEF c
<1>3. C[c] \in {"RBRED", "RBBLK"} /\ C[mem[o][w]] \in {"RBRED", "RBBLK"}
  <2>1. c \in Ptrs /\ mem[o][w] \in Ptrs
    BY <1>2
  <2> QED
    BY <1>2, <2>1 DEF Colors
<1>4. CASE C[mem[o][w]] = "RBBLK"
  <2> DEFINE C2 == [[C EXCEPT ![c] = "RBBLK"] EXCEPT ![w] = "RBRED"]
  <2>1. m2 = Rotate(Recolor(mem, C2), t, w, o)
    BY <1>2, <1>4 DEF RedOuterNephew, Sibling, Recolor
  <2>2. C[c] = "RBRED" /\ c \in S
    BY <1>2, <1>3, <1>4
  <2>3. C2 \in Colors
    BY <1>2 DEF Colors
  <2> HIDE DEF C2
  <2>4. o \in Sides /\ Other(o) = s
    BY OtherSide
  <2>5. /\ Kept(mem, m2, t, S, pos, top) /\ m2.color = C2
        /\ Rotated(mem[o], mem[s], mem.parent, mem.root[t], w, m2[o], m2[s], m2.parent, m2.root[t])
        /\ Links(m2[s], m2[o], m2.parent, m2.root[t], S)
    <3>1. /\ mem \in Heaps /\ t \in Trees /\ Tree(mem, t, S, pos, top) /\ o \in Sides /\ Other(o) = s
          /\ w \in S /\ mem[s][w] \in S /\ C2 \in Colors /\ m2 = Rotate(Recolor(mem, C2), t, w, o)
      BY <1>2, <2>1, <2>2, <2>3, <2>4
    <3> HIDE DEF o
    <3> QED
      BY ONLY <3>1, RecolorRotate
  <2>6. \E bh2 : /\ DeleteState(m2[s], m2[o], m2.parent, C2, m2.root[t], S, bh2, d, v)
                 /\ m2[o][d] = c /\ C2[c] = "RBBLK" /\ C2[m2[o][c]] = "RBRED"
    <3>1. w = mem[o][d] /\ C[w] = "RBBLK" /\ c = mem[s][w] /\ C2 = Paint(C, c, "RBBLK", w, "RBRED")
      BY DEF C2, Paint
    <3> HIDE DEF c, o, C
    <3>2. /\ DeleteState(mem[s], mem[o], mem.parent, C, mem.root[t], S, bh, d, v)
          /\ C[mem[o][w]] = "RBBLK" /\ C[c] = "RBRED"
          /\ Rotated(mem[o], mem[s], mem.parent, mem.root[t], w, m2[o], m2[s], m2.parent, m2.root[t])
          /\ Links(m2[s], m2[o], m2.parent, m2.root[t], S)
      BY <1>1, <1>4, <2>2, <2>5
    <3> QED
      BY ONLY <3>1, <3>2, RedInnerNephew, SMTT(10)
  <2> QED
    BY <2>5, <2>6 DEF DeleteAt
<1>5. CASE C[mem[o][w]] = "RBRED"
  <2>1. m2 = mem
    BY <1>2, <1>5 DEF RedOuterNephew, Sibling
  <2>2. Kept(mem, m2, t, S, pos, top)
    BY <2>1 DEF Kept
  <2> QED
    BY <1>5, <2>1, <2>2
<1> QED
  BY <1>3, <1>4, <1>5

(* The fourth case in memory: afterwards nothing is missing and x is the root. *)
LEMMA RaiseSiblingStep ==
  ASSUME NEW mem \in Heaps, NEW t \in Trees, NEW S, NEW pos, NEW top, Tree(mem, t, S, pos, top),
         NEW s \in Sides, NEW bh, NEW d, NEW v, DeleteAt(mem, s, t, S, bh, d, v),
         NEW w, w = mem[Other(s)][d], mem.color[w] = "RBBLK", mem.color[mem[Other(s)][w]] = "RBRED",
         NEW m2, m2 = RaiseSibling(mem, t, v, s)
  PROVE  Kept(mem, m2, t, S, pos, top) /\ \E bh2 : FixAt(m2, s, t, S, bh2, m2.root[t])
<1> DEFINE o == Other(s)
           C == mem.color
           e == mem[o][w]
           C2 == [[[C EXCEPT ![w] = C[d]] EXCEPT ![d] = "RBBLK"] EXCEPT ![e] = "RBBLK"]
<1>1. DeleteState(mem[s], mem[o], mem.parent, C, mem.root[t], S, bh, d, v)
  BY DEF DeleteAt
<1>2. /\ d = mem.parent[v] /\ w \in S /\ d \in S /\ S \subseteq Ptrs /\ RBNIL \in Ptrs /\ C \in Colors
      /\ e \in S \cup {RBNIL}
  <2>1. d = mem.parent[v] /\ C \in Colors
    BY <1>1 DEF DeleteState
  <2> HIDE DEF o, C
  <2>2. w = mem[o][d]
    BY DEF o
  <2> QED
    BY <1>1, <2>1, <2>2, SiblingFacts
<1>3. m2 = Rotate(Recolor(mem, C2), t, d, s)
  BY <1>2 DEF RaiseSibling, Sibling, Recolor
<1>4. C2 \in Colors
  BY <1>2 DEF Colors
<1> HIDE DEF C2
<1>5. /\ Kept(mem, m2, t, S, pos, top) /\ m2.color = C2
      /\ Rotated(mem[s], mem[o], mem.parent, mem.root[t], d, m2[s], m2[o], m2.parent, m2.root[t])
      /\ Links(m2[s], m2[o], m2.parent, m2.root[t], S)
  BY <1>2, <1>3, <1>4, RecolorRotate
<1>6. \E bh2 : FixState(m2[s], m2[o], m2.parent, C2, m2.root[t], S, bh2, m2.root[t])
  <2>1. /\ w = mem[o][d] /\ C[w] = "RBBLK" /\ e = mem[o][w] /\ C[e] = "RBRED"
        /\ C2 = [Paint(C, w, C[d], d, "RBBLK") EXCEPT ![e] = "RBBLK"]
    BY DEF C2, Paint
  <2> HIDE DEF e, o, C
  <2> QED
    BY <1>1, <1>5, <2>1, RedOuterSon
<1> QED
  BY <1>5, <1>6 DEF FixAt

(* The second case, or the third and the fourth, in memory. *)
LEMMA RestStep ==
  ASSUME NEW mem \in Heaps, NEW t \in Trees, NEW S, NEW pos, NEW top, Tree(mem, t, S, pos, top),
         NEW s \in Sides, NEW bh, NEW d, NEW v, DeleteAt(mem, s, t, S, bh, d, v),
         mem.color[mem[Other(s)][d]] = "RBBLK",
         NEW st, st = DeleteFixupRest(mem, t, v, s)
  PROVE  /\ Kept(mem, st.h, t, S, pos, top)
         /\ \E bh2 : /\ FixAt(st.h, s, t, S, bh2, st.x)
                     /\ DeleteFixupNeeded(st.h, t, st.x) => bh2[st.x] = bh[v] + 1
<1> DEFINE o == Other(s)
           C == mem.color
           w == mem[o][d]
<1>1. DeleteState(mem[s], mem[o], mem.parent, C, mem.root[t], S, bh, d, v)
  BY DEF DeleteAt
<1>2. d = mem.parent[v] /\ w \in S /\ d \in S /\ S \subseteq Ptrs /\ C \in Colors
  <2>1. d = mem.parent[v] /\ C \in Colors
    BY <1>1 DEF DeleteState
  <2> HIDE DEF o, C
  <2> QED
    BY <1>1, <2>1, SiblingFacts
<1>3. CASE C[mem.left[w]] = "RBBLK" /\ C[mem.right[w]] = "RBBLK"
  <2> DEFINE C2 == [C EXCEPT ![w] = "RBRED"]
             m2 == [mem EXCEPT !.color = C2]
  <2>1. st.h = m2 /\ st.x = d
    BY <1>2, <1>3 DEF DeleteFixupRest, Sibling
  <2>2. C2 \in Colors
    BY <1>2 DEF Colors
  <2>3. C[mem[s][w]] = "RBBLK" /\ C[mem[o][w]] = "RBBLK"
    BY <1>3 DEF Sides, Other
  <2>4. \E bh2 : /\ FixState(mem[s], mem[o], mem.parent, C2, mem.root[t], S, bh2, d)
                 /\ C2[d] = "RBBLK" => bh2[d] = bh[v] + 1
    <3>1. w = mem[o][d] /\ C[w] = "RBBLK"
      OBVIOUS
    <3>2. C2 = [C EXCEPT ![w] = "RBRED"]
      OBVIOUS
    <3> HIDE DEF w, o, C, C2
    <3>3. Lifted(mem[s], mem[o], mem.parent, C2, mem.root[t], S, bh[v], d)
      BY ONLY <1>1, <2>3, <3>1, <3>2, BlackNephews
    <3> QED
      BY <3>3 DEF Lifted
  <2> HIDE DEF C2
  <2>5. /\ Kept(mem, m2, t, S, pos, top) /\ m2.color = C2 /\ m2.parent = mem.parent /\ m2.root = mem.root
        /\ \A q \in Sides : m2[q] = mem[q]
    BY <2>2, RecolorTree
  <2>6. \E bh2 : FixAt(m2, s, t, S, bh2, d) /\ (DeleteFixupNeeded(m2, t, d) => bh2[d] = bh[v] + 1)
    <3> HIDE DEF m2
    <3>1. o \in Sides
      BY OtherSide
    <3> QED
      BY <2>4, <2>5, <3>1 DEF FixAt, DeleteFixupNeeded
  <2> QED
    BY <2>1, <2>5, <2>6
<1>4. CASE ~(C[mem.left[w]] = "RBBLK" /\ C[mem.right[w]] = "RBBLK")
  <2> DEFINE m1 == RedOuterNephew(mem, t, v, s)
             m2 == RaiseSibling(m1, t, v, s)
  <2>1. st.h = m2 /\ st.x = m2.root[t]
    BY <1>2, <1>4 DEF DeleteFixupRest, Sibling, Finish
  <2>2. C[mem[s][w]] # "RBBLK" \/ C[mem[o][w]] # "RBBLK"
    BY <1>4 DEF Sides, Other
  <2>3. /\ Kept(mem, m1, t, S, pos, top)
        /\ \E bh2, w2 : /\ DeleteAt(m1, s, t, S, bh2, d, v) /\ w2 = m1[o][d]
                        /\ m1.color[w2] = "RBBLK" /\ m1.color[m1[o][w2]] = "RBRED"
    BY <2>2, RedOuterNephewStep
  <2> HIDE DEF m1
  <2>4. Kept(m1, m2, t, S, pos, top) /\ \E bh2 : FixAt(m2, s, t, S, bh2, m2.root[t])
    <3>1. m1 \in Heaps /\ Tree(m1, t, S, pos, top)
      BY <2>3 DEF Kept
    <3>2. PICK bh2, w2 : /\ DeleteAt(m1, s, t, S, bh2, d, v) /\ w2 = m1[o][d]
                         /\ m1.color[w2] = "RBBLK" /\ m1.color[m1[o][w2]] = "RBRED"
      BY <2>3
    <3> QED
      BY <3>1, <3>2, RaiseSiblingStep
  <2>5. ~DeleteFixupNeeded(m2, t, m2.root[t])
    BY DEF DeleteFixupNeeded
  <2> QED
    BY <2>1, <2>3, <2>4, <2>5, KeptTwice
<1> QED
  BY <1>3, <1>4

(* One iteration of delete_fixup: the tree keeps its nodes and their order, and is as the  *)
(* next iteration expects it.                                                              *)
LEMMA DeleteStep ==
  ASSUME NEW mem \in Heaps, NEW t \in Trees, NEW S, NEW pos, NEW top, Tree(mem, t, S, pos, top),
         NEW bh, NEW v, FixAt(mem, "left", t, S, bh, v), DeleteFixupNeeded(mem, t, v),
         NEW st, st = DeleteFixupStep(mem, t, v)
  PROVE  /\ Kept(mem, st.h, t, S, pos, top)
         /\ \E bh2 : /\ FixAt(st.h, "left", t, S, bh2, st.x)
                     /\ DeleteFixupNeeded(st.h, t, st.x) => bh2[st.x] = bh[v] + 1
<1> DEFINE d == mem.parent[v]
           s == IF v = mem.left[d] THEN "left" ELSE "right"
           m1 == BlackSibling(mem, t, v, s)
<1>1. s \in Sides /\ "left" \in Sides /\ v # mem.root[t] /\ mem.color[v] = "RBBLK"
  BY DEF Sides, DeleteFixupNeeded
<1>2. DeleteAt(mem, s, t, S, bh, d, v)
  <2>1. FixState(mem.left, mem.right, mem.parent, mem.color, mem.root[t], S, bh, v)
    BY DEF FixAt, Other
  <2>2. IF mem.left[d] = v THEN DeleteState(mem.left, mem.right, mem.parent, mem.color, mem.root[t], S, bh, d, v)
        ELSE DeleteState(mem.right, mem.left, mem.parent, mem.color, mem.root[t], S, bh, d, v)
    BY <1>1, <2>1, FixSide
  <2> QED
    BY <2>2 DEF DeleteAt, Other
<1>3. st = DeleteFixupRest(m1, t, v, s)
  BY DEF DeleteFixupStep
<1> HIDE DEF s, d
<1>4. /\ Kept(mem, m1, t, S, pos, top)
      /\ \E bh2 : /\ DeleteAt(m1, s, t, S, bh2, d, v) /\ bh2[v] = bh[v]
                  /\ m1.color[m1[Other(s)][d]] = "RBBLK"
  BY <1>1, <1>2, BlackSiblingStep
<1> HIDE DEF m1
<1>5. m1 \in Heaps /\ Tree(m1, t, S, pos, top)
  BY <1>4 DEF Kept
<1>6. /\ Kept(m1, st.h, t, S, pos, top)
      /\ \E bh2 : /\ FixAt(st.h, s, t, S, bh2, st.x)
                  /\ DeleteFixupNeeded(st.h, t, st.x) => bh2[st.x] = bh[v] + 1
  <2>1. PICK b1 : DeleteAt(m1, s, t, S, b1, d, v) /\ b1[v] = bh[v] /\ m1.color[m1[Other(s)][d]] = "RBBLK"
    BY <1>4
  <2>2. /\ Kept(m1, st.h, t, S, pos, top)
        /\ \E bh2 : /\ FixAt(st.h, s, t, S, bh2, st.x)
                    /\ DeleteFixupNeeded(st.h, t, st.x) => bh2[st.x] = b1[v] + 1
    BY <1>1, <1>3, <1>5, <2>1, RestStep
  <2> QED
    BY <2>1, <2>2
<1> QED
  BY <1>1, <1>4, <1>6, KeptTwice, FixEitherSide

----------------------------------------------------------------------------
(* A red-black tree, as every call finds it and leaves it. *)
IdleState(A, B, P, C, r, S, bh) ==
  /\ Links(A, B, P, r, S) /\ Heights(A, B, C, S, bh, NULL, NULL) /\ RedRule(A, B, C, S, NULL, NULL)
  /\ C \in Colors /\ C[r] = "RBBLK"

(* A red-black tree in memory. *)
IdleAt(mem, t, S, bh) ==
  IdleState(mem.left, mem.right, mem.parent, mem.color, mem.root[t], S, bh)

(* The last assignment of delete_fixup: x, which is red or the root, becomes black. *)
LEMMA BlackenState ==
  ASSUME NEW A, NEW B, NEW P, NEW C, NEW r, NEW S, NEW bh, NEW v, FixState(A, B, P, C, r, S, bh, v),
         v = r \/ C[v] = "RBRED", NEW C2, C2 = [C EXCEPT ![v] = "RBBLK"]
  PROVE  \E bh2 : IdleState(A, B, P, C2, r, S, bh2)
<1>1. /\ S \subseteq Ptrs /\ RBNIL \notin S /\ NULL \notin S /\ RBNIL \in Ptrs
      /\ \A n \in S : A[n] \in S \cup {RBNIL} /\ B[n] \in S \cup {RBNIL}
      /\ Links(A, B, P, r, S) /\ C \in Colors /\ v \in S \cup {RBNIL} /\ (C[r] = "RBBLK" \/ r = v)
      /\ r \in S \cup {RBNIL} /\ RedRule(A, B, C, S, v, v)
  BY RBTreeAssumption DEF FixState, Links, Ptrs
<1>2. /\ bh \in [Ptrs -> Nat] /\ bh[RBNIL] = 0 /\ C[RBNIL] = "RBBLK"
      /\ C[v] \in {"RBRED", "RBBLK"}
  <2>1. v \in Ptrs
    BY <1>1
  <2> QED
    BY <1>1, <2>1 DEF FixState, Heights, Colors
<1>3. /\ C2 \in Colors /\ C2[v] = "RBBLK" /\ \A n \in Ptrs \ {v} : C2[n] = C[n]
  BY <1>1 DEF Colors
<1>4. \A n \in S : A[n] = v \/ B[n] = v => v = RBNIL \/ (v # r /\ n = P[v])
  BY <1>1, RBTreeAssumption DEF Links
<1>5. C2[r] = "RBBLK"
  <2>1. CASE r = v
    BY <1>3, <2>1
  <2>2. CASE r # v
    <3>1. r \in Ptrs \ {v} /\ C[r] = "RBBLK"
      BY <1>1, <2>2
    <3> QED
      BY <1>3, <3>1
  <2> QED
    BY <2>1, <2>2
<1>6. RedRule(A, B, C2, S, NULL, NULL)
  <2>1. ASSUME NEW n \in S, C2[n] = "RBRED" PROVE C2[A[n]] = "RBBLK" /\ C2[B[n]] = "RBBLK"
    <3>1. n # v /\ C[n] = "RBRED" /\ A[n] \in Ptrs /\ B[n] \in Ptrs
      BY <1>1, <1>3, <2>1
    <3>2. (A[n] = v \/ C[A[n]] = "RBBLK") /\ (B[n] = v \/ C[B[n]] = "RBBLK")
      BY <1>1, <3>1 DEF RedRule
    <3>3. C2[A[n]] = "RBBLK"
      <4>1. CASE A[n] = v
        BY <1>3, <4>1
      <4>2. CASE A[n] # v
        BY <1>3, <3>1, <3>2, <4>2
      <4> QED
        BY <4>1, <4>2
    <3>4. C2[B[n]] = "RBBLK"
      <4>1. CASE B[n] = v
        BY <1>3, <4>1
      <4>2. CASE B[n] # v
        BY <1>3, <3>1, <3>2, <4>2
      <4> QED
        BY <4>1, <4>2
    <3> QED
      BY <3>3, <3>4
  <2> QED
    BY <2>1 DEF RedRule
<1>7. CASE C[v] = "RBBLK"
  <2>1. v = r /\ Heights(A, B, C, S, bh, NULL, NULL)
    BY <1>7 DEF FixState
  <2>2. \A n \in Ptrs : C2[n] = C[n]
    BY <1>3, <1>7
  <2>3. Heights(A, B, C2, S, bh, NULL, NULL)
    BY <1>1, <2>1, <2>2 DEF Heights
  <2> QED
    BY <1>1, <1>3, <1>5, <1>6, <2>3 DEF IdleState
<1>8. CASE C[v] = "RBRED"
  <2> DEFINE bh2 == [bh EXCEPT ![v] = bh[v] + 1]
  <2>1. v \in S /\ v # RBNIL /\ A[v] # v /\ B[v] # v
    BY <1>1, <1>2, <1>8 DEF Links
  <2>2. bh2 \in [Ptrs -> Nat] /\ bh2[v] = bh[v] + 1 /\ \A n \in Ptrs \ {v} : bh2[n] = bh[n]
    BY <1>1, <1>2, <2>1
  <2> HIDE DEF bh2
  <2>3. Blk(C2[v]) = 1 /\ Blk(C[v]) = 0
    BY <1>3, <1>8 DEF Blk
  <2>4. PICK a, b : /\ Heights(A, B, C, S, bh, a, b)
                    /\ \A n \in S : Missing(n, a) = (IF A[n] = v THEN 1 ELSE 0) /\ Missing(n, b) = (IF B[n] = v THEN 1 ELSE 0)
    <3>1. CASE v = r
      <4>1. Heights(A, B, C, S, bh, NULL, NULL) /\ \A n \in S : A[n] # v /\ B[n] # v /\ n # NULL
        BY <1>1, <1>4, <2>1, <3>1 DEF FixState
      <4> QED
        BY <4>1 DEF Missing
    <3>2. CASE v # r /\ P[v] \in S /\ A[P[v]] = v /\ Heights(A, B, C, S, bh, P[v], NULL)
      <4>1. \A n \in S : (n = P[v] <=> A[n] = v) /\ B[n] # v /\ n # NULL
        BY <1>1, <1>4, <2>1, <3>2 DEF Links
      <4> QED
        BY <3>2, <4>1 DEF Missing
    <3>3. CASE v # r /\ P[v] \in S /\ B[P[v]] = v /\ Heights(A, B, C, S, bh, NULL, P[v])
      <4>1. \A n \in S : (n = P[v] <=> B[n] = v) /\ A[n] # v /\ n # NULL
        BY <1>1, <1>4, <2>1, <3>3 DEF Links
      <4> QED
        BY <3>3, <4>1 DEF Missing
    <3> QED
      BY <3>1, <3>2, <3>3 DEF FixState
  <2>5. ASSUME NEW n \in S
        PROVE  /\ bh2[n] = bh2[A[n]] + Missing(n, NULL) + Blk(C2[n])
               /\ bh2[n] = bh2[B[n]] + Missing(n, NULL) + Blk(C2[n])
    <3>1. /\ bh[n] = bh[A[n]] + (IF A[n] = v THEN 1 ELSE 0) + Blk(C[n])
          /\ bh[n] = bh[B[n]] + (IF B[n] = v THEN 1 ELSE 0) + Blk(C[n])
      BY <2>4 DEF Heights
    <3>2. /\ Missing(n, NULL) = 0 /\ A[n] \in Ptrs /\ B[n] \in Ptrs /\ n \in Ptrs
          /\ bh[A[n]] \in Nat /\ bh[B[n]] \in Nat /\ bh[n] \in Nat /\ Blk(C[n]) \in 0..1
      BY <1>1, <1>2 DEF Missing, Blk
    <3>3. bh2[A[n]] = bh[A[n]] + (IF A[n] = v THEN 1 ELSE 0) /\ bh2[B[n]] = bh[B[n]] + (IF B[n] = v THEN 1 ELSE 0)
      BY <2>2, <3>2
    <3>4. CASE n = v
      BY <2>1, <2>2, <2>3, <3>1, <3>2, <3>3, <3>4
    <3>5. CASE n # v
      <4>1. bh2[n] = bh[n] /\ C2[n] = C[n]
        BY <1>3, <2>2, <3>2, <3>5
      <4> QED
        BY <3>1, <3>2, <3>3, <4>1
    <3> QED
      BY <3>4, <3>5
  <2>6. bh2[RBNIL] = 0 /\ C2[RBNIL] = "RBBLK"
    BY <1>1, <1>2, <1>3, <2>1, <2>2
  <2>7. Heights(A, B, C2, S, bh2, NULL, NULL)
    BY <2>2, <2>5, <2>6 DEF Heights
  <2> QED
    BY <1>1, <1>3, <1>5, <1>6, <2>7 DEF IdleState
<1> QED
  BY <1>2, <1>7, <1>8

(* It leaves a red-black tree in memory. *)
LEMMA FixDone ==
  ASSUME NEW mem \in Heaps, NEW t \in Trees, NEW S, NEW pos, NEW top, Tree(mem, t, S, pos, top),
         NEW bh, NEW v, FixAt(mem, "left", t, S, bh, v), ~DeleteFixupNeeded(mem, t, v),
         NEW m2, m2 = Blacken(mem, v)
  PROVE  Kept(mem, m2, t, S, pos, top) /\ \E bh2 : IdleAt(m2, t, S, bh2)
<1> DEFINE C2 == [mem.color EXCEPT ![v] = "RBBLK"]
<1>1. FixState(mem.left, mem.right, mem.parent, mem.color, mem.root[t], S, bh, v)
  BY DEF FixAt, Other
<1>2. v = mem.root[t] \/ mem.color[v] = "RBRED"
  <2>1. v \in Ptrs
    BY <1>1 DEF FixState, Links, Ptrs
  <2> QED
    BY <2>1 DEF DeleteFixupNeeded, Heaps
<1>3. m2 = [mem EXCEPT !.color = C2] /\ C2 \in Colors
  BY <1>1 DEF Blacken, FixState, Colors
<1>4. \E bh2 : IdleState(mem.left, mem.right, mem.parent, C2, mem.root[t], S, bh2)
  BY <1>1, <1>2, BlackenState
<1> HIDE DEF C2
<1>5. /\ Kept(mem, m2, t, S, pos, top) /\ m2.color = C2 /\ m2.parent = mem.parent /\ m2.root = mem.root
      /\ m2.left = mem.left /\ m2.right = mem.right
  BY <1>3, RecolorTree DEF Sides
<1> QED
  BY <1>4, <1>5 DEF IdleAt

(* The last assignment of insert_fixup, which makes the root black, leaves one too. *)
LEMMA InsertDone ==
  ASSUME NEW mem \in Heaps, NEW t \in Trees, NEW S, NEW pos, NEW top, Tree(mem, t, S, pos, top),
         NEW bh, NEW v, InsertAt(mem, "left", t, S, bh, v), ~InsertFixupNeeded(mem, t, v),
         NEW m2, m2 = BlackenRoot(mem, t)
  PROVE  Kept(mem, m2, t, S, pos, top) /\ \E bh2 : IdleAt(m2, t, S, bh2)
<1> DEFINE r == mem.root[t]
           C2 == [mem.color EXCEPT ![r] = "RBBLK"]
<1>1. InsertState(mem.left, mem.right, mem.parent, mem.color, r, S, bh, v)
  BY DEF InsertAt, Other
<1>2. m2 = [mem EXCEPT !.color = C2] /\ C2 \in Colors
  BY <1>1 DEF BlackenRoot, InsertState, Colors
<1>3. FixState(mem.left, mem.right, mem.parent, mem.color, r, S, bh, r)
  <2>1. r \in S \cup {RBNIL}
    BY <1>1 DEF InsertState, Links
  <2>2. RedRule(mem.left, mem.right, mem.color, S, r, r)
    <3>1. ASSUME NEW n \in S, mem.color[n] = "RBRED"
          PROVE  /\ mem.left[n] = r \/ mem.color[mem.left[n]] = "RBBLK"
                 /\ mem.right[n] = r \/ mem.color[mem.right[n]] = "RBBLK"
      <4>1. /\ mem.left[n] = v \/ mem.color[mem.left[n]] = "RBBLK"
            /\ mem.right[n] = v \/ mem.color[mem.right[n]] = "RBBLK"
        BY <1>1, <3>1, RBTreeAssumption DEF InsertState, RedRule, Links
      <4>2. CASE v = r
        BY <4>1, <4>2
      <4>3. CASE v # r
        <5>1. mem.color[mem.parent[v]] # "RBRED"
          BY <4>3 DEF InsertFixupNeeded
        <5>2. mem.left[n] # v /\ mem.right[n] # v
          BY <1>1, <3>1, <5>1 DEF InsertState, Links
        <5> QED
          BY <4>1, <5>2
      <4> QED
        BY <4>2, <4>3
    <3> QED
      BY <3>1 DEF RedRule
  <2> QED
    BY <1>1, <2>1, <2>2 DEF FixState, InsertState
<1>4. \E bh2 : IdleState(mem.left, mem.right, mem.parent, C2, mem.root[t], S, bh2)
  BY <1>3, BlackenState
<1> HIDE DEF C2
<1>5. /\ Kept(mem, m2, t, S, pos, top) /\ m2.color = C2 /\ m2.parent = mem.parent /\ m2.root = mem.root
      /\ m2.left = mem.left /\ m2.right = mem.right
  BY <1>2, RecolorTree DEF Sides
<1> QED
  BY <1>4, <1>5 DEF IdleAt

----------------------------------------------------------------------------
(* The closure is complete after as many rounds as there are nodes: it is the least set    *)
(* that holds start and with every node what succ leads to.                                *)
LEMMA ClosureFacts ==
  ASSUME NEW succ \in [Nodes -> SUBSET Nodes], NEW start \in SUBSET Nodes, NEW R, R = Closure(succ, start)
  PROVE  /\ start \subseteq R /\ R \subseteq Nodes
         /\ \A n \in R : succ[n] \subseteq R
         /\ \A T : start \subseteq T /\ (\A n \in T \cap Nodes : succ[n] \subseteq T) => R \subseteq T
<1> DEFINE reach[d \in Nat] ==
             IF d = 0 THEN start ELSE reach[d - 1] \cup UNION {succ[n] : n \in reach[d - 1]}
           Grow(X) == X \cup UNION {succ[n] : n \in X}
           N == Cardinality(Nodes)
<1>1. R = reach[N]
  BY DEF Closure
<1>2. \A X \in SUBSET Nodes : Grow(X) \in SUBSET Nodes
  OBVIOUS
<1>3. reach = [d \in Nat |-> IF d = 0 THEN start ELSE Grow(reach[d - 1])]
  <2> DEFINE step == [a \in Nat \X SUBSET Nodes |-> Grow(a[2])]
             Good(v) == v = [d \in Nat |-> IF d = 0 THEN start ELSE v[d - 1] \cup UNION {succ[n] : n \in v[d - 1]}]
  <2>1. step \in [Nat \X SUBSET Nodes -> SUBSET Nodes]
    BY <1>2
  <2>2. PICK f : Iterates(f, SUBSET Nodes, start, step)
    <3> HIDE DEF step
    <3> QED
      BY <2>1, Recursion, Zenon
  <2>3. ASSUME NEW n \in Nat \ {0} PROVE f[n] = Grow(f[n - 1])
    <3>1. n \in Nat /\ n - 1 \in Nat
      OBVIOUS
    <3>2. f[n - 1] \in SUBSET Nodes /\ f[n] = step[<<n, f[n - 1]>>]
      <4> HIDE DEF step
      <4> QED
        BY <2>2, <3>1 DEF Iterates
    <3> QED
      BY <3>1, <3>2
  <2>4. Good(f)
    BY <2>2, <2>3 DEF Iterates
  <2>5. reach = CHOOSE v : Good(v)
    OBVIOUS
  <2> HIDE DEF reach
  <2> QED
    BY <2>4, <2>5, Zenon
<1> HIDE DEF reach
<1>4. N \in Nat
  BY RBTreeAssumption, FS_CardinalityType
<1>5. reach[0] = start /\ \A d \in Nat : reach[d + 1] = Grow(reach[d])
  <2>1. ASSUME NEW d \in Nat PROVE reach[d + 1] = Grow(reach[d])
    <3>1. d + 1 \in Nat /\ d + 1 # 0 /\ (d + 1) - 1 = d
      OBVIOUS
    <3> HIDE DEF Grow
    <3> QED
      BY <1>3, <3>1
  <2> QED
    BY <1>3, <2>1
<1>6. \A d \in Nat : reach[d] \in SUBSET Nodes
  <2> HIDE DEF Grow
  <2> QED
    BY <1>2, <1>5, Everywhere, ZenonT(60)
<1>7. \A d \in Nat : start \subseteq reach[d]
  <2> DEFINE U == {X \in SUBSET Nodes : start \subseteq X}
  <2>1. reach[0] \in U
    BY <1>5
  <2>2. ASSUME NEW n \in Nat, reach[n] \in U PROVE reach[n + 1] \in U
    <3>1. reach[n + 1] = Grow(reach[n])
      BY <1>5
    <3>2. Grow(reach[n]) \in SUBSET Nodes
      BY <1>2, <2>2
    <3> QED
      BY <2>2, <3>1, <3>2
  <2>3. \A n \in Nat : reach[n] \in U
    <3> HIDE DEF U
    <3> QED
      BY <2>1, <2>2, Everywhere
  <2> QED
    BY <2>3
<1>8. ASSUME NEW T, start \subseteq T, \A n \in T \cap Nodes : succ[n] \subseteq T
      PROVE  R \subseteq T
  <2> DEFINE U == {X \in SUBSET Nodes : X \subseteq T}
  <2>1. reach[0] \in U
    BY <1>5, <1>8
  <2>2. ASSUME NEW n \in Nat, reach[n] \in U PROVE reach[n + 1] \in U
    <3>1. reach[n + 1] = Grow(reach[n])
      BY <1>5
    <3>2. Grow(reach[n]) \in SUBSET Nodes
      BY <1>2, <2>2
    <3> QED
      BY <1>8, <2>2, <3>1, <3>2
  <2>3. \A n \in Nat : reach[n] \in U
    <3> HIDE DEF U
    <3> QED
      BY <2>1, <2>2, Everywhere
  <2> QED
    BY <1>1, <1>4, <2>3
<1>9. \A n \in R : succ[n] \subseteq R
  <2> DEFINE Closed(X) == Grow(X) = X
             ok == [d \in Nat |-> IF Closed(reach[d]) \/ Cardinality(reach[d]) >= d THEN 1 ELSE 0]
  <2>1. \A d \in Nat : Cardinality(reach[d]) \in Nat /\ Cardinality(reach[d]) <= N /\ IsFiniteSet(reach[d])
    BY <1>6, FS_Subset, FS_CardinalityType, RBTreeAssumption
  <2>2. ok[0] \in {1}
    BY <2>1
  <2>3. ASSUME NEW d \in Nat, ok[d] \in {1} PROVE ok[d + 1] \in {1}
    <3> HIDE DEF Grow
    <3>1. CASE Closed(reach[d])
      BY <1>5, <3>1
    <3>2. CASE ~Closed(reach[d]) /\ Cardinality(reach[d]) >= d
      <4>1. reach[d] \in SUBSET reach[d + 1] /\ reach[d] # reach[d + 1]
        BY <1>5, <3>2 DEF Grow
      <4>2. Cardinality(reach[d]) <= Cardinality(reach[d + 1]) /\ Cardinality(reach[d]) # Cardinality(reach[d + 1])
        BY <2>1, <4>1, FS_Subset
      <4>3. d + 1 \in Nat /\ Cardinality(reach[d + 1]) >= d + 1
        BY <2>1, <3>2, <4>2
      <4> QED
        BY <4>3
    <3> QED
      BY <2>3, <3>1, <3>2
  <2>4. \A d \in Nat : ok[d] \in {1}
    <3> DEFINE one == {1}
    <3>1. ok[0] \in one /\ \A d \in Nat : ok[d] \in one => ok[d + 1] \in one
      BY <2>2, <2>3
    <3> HIDE DEF ok, one
    <3>2. \A d \in Nat : ok[d] \in one
      BY <3>1, Everywhere
    <3> QED
      BY <3>2 DEF one
  <2>5. Closed(reach[N]) \/ Cardinality(reach[N]) >= N
    <3>1. ok[N] = 1
      BY <1>4, <2>4
    <3> HIDE DEF Closed
    <3> QED
      BY <1>4, <3>1
  <2>6. CASE Closed(reach[N])
    BY <1>1, <2>6
  <2>7. CASE Cardinality(reach[N]) >= N
    <3>1. reach[N] = Nodes
      BY <1>4, <1>6, <2>1, <2>7, FS_Subset, RBTreeAssumption
    <3> QED
      BY <1>1, <3>1
  <2> QED
    BY <2>5, <2>6, <2>7
<1> QED
  BY <1>1, <1>4, <1>6, <1>7, <1>8, <1>9

----------------------------------------------------------------------------
(* A closure from one node down a tree *)
LEMMA PathFacts ==
  ASSUME NEW next, NEW c \in Nodes, NEW R, R = Path(next, c)
  PROVE  /\ c \in R /\ R \subseteq Nodes
         /\ \A n \in R : next[n] \in Nodes => next[n] \in R
         /\ \A T : c \in T /\ (\A n \in T \cap Nodes : next[n] \in Nodes => next[n] \in T) => R \subseteq T
<1> DEFINE succ == [m \in Nodes |-> {next[m]} \cap Nodes]
<1>1. succ \in [Nodes -> SUBSET Nodes] /\ {c} \in SUBSET Nodes /\ R = Closure(succ, {c})
  BY DEF Path
<1>2. \A n \in Nodes : succ[n] = {next[n]} \cap Nodes
  OBVIOUS
<1> HIDE DEF succ
<1>3. /\ {c} \subseteq R /\ R \subseteq Nodes
      /\ \A n \in R : succ[n] \subseteq R
      /\ \A T : {c} \subseteq T /\ (\A n \in T \cap Nodes : succ[n] \subseteq T) => R \subseteq T
  BY <1>1, ClosureFacts, ZenonT(40)
<1>4. ASSUME NEW T, c \in T, \A n \in T \cap Nodes : next[n] \in Nodes => next[n] \in T
      PROVE  R \subseteq T
  <2>1. {c} \subseteq T /\ \A n \in T \cap Nodes : succ[n] \subseteq T
    BY <1>2, <1>4
  <2> QED
    BY <1>3, <2>1
<1> QED
  BY <1>2, <1>3, <1>4

(* A child's interval is a part of its parent's. *)
LEMMA ChildInside ==
  ASSUME NEW A, NEW B, NEW P, NEW r, NEW S, NEW pos, NEW lo, NEW hi, NEW top,
         Shape(A, B, P, r, S, pos, lo, hi, top), NEW n \in S, NEW c \in S, c = A[n] \/ c = B[n]
  PROVE  lo[n] <= lo[c] /\ hi[c] <= hi[n] /\ hi[c] - lo[c] < hi[n] - lo[n]
<1>1. /\ lo[n] \in Int /\ hi[n] \in Int /\ pos[n] \in Int /\ lo[c] \in Int /\ hi[c] \in Int
      /\ lo[n] < pos[n] /\ pos[n] < hi[n]
  BY DEF Shape
<1>2. (lo[c] = lo[n] /\ hi[c] = pos[n]) \/ (lo[c] = pos[n] /\ hi[c] = hi[n])
  BY DEF Shape
<1> QED
  BY <1>1, <1>2

(* Among the nodes of T there is one whose interval is as short as any. *)
LEMMA Shortest ==
  ASSUME NEW A, NEW B, NEW P, NEW r, NEW S, NEW pos, NEW lo, NEW hi, NEW top,
         Shape(A, B, P, r, S, pos, lo, hi, top), NEW T \in SUBSET S, T # {}
  PROVE  \E n \in T : \A m \in T : hi[n] - lo[n] <= hi[m] - lo[m]
<1> DEFINE L == {hi[n] - lo[n] : n \in T}
<1>1. \A n \in T : hi[n] - lo[n] \in Nat
  <2> SUFFICES ASSUME NEW n \in T PROVE hi[n] - lo[n] \in Nat
    OBVIOUS
  <2>1. /\ lo[n] \in Int /\ hi[n] \in Int /\ pos[n] \in Int
        /\ lo[n] < pos[n] /\ pos[n] < hi[n]
    BY DEF Shape
  <2> QED
    BY <2>1
<1>2. L \in SUBSET Nat /\ L # {}
  BY <1>1
<1>3. PICK l \in L : \A k \in L : l <= k
  <2> HIDE DEF L
  <2> QED
    BY <1>2, LeastNumber
<1> QED
  BY <1>3

(* A search down the tree from c visits nodes of the tree within c's interval and comes    *)
(* to a node where it finds a leaf.                                                        *)
LEMMA Descent ==
  ASSUME NEW A, NEW B, NEW P, NEW r, NEW S, NEW pos, NEW lo, NEW hi, NEW top,
         Shape(A, B, P, r, S, pos, lo, hi, top), NEW c \in S,
         NEW next, \A n \in S : next[n] = A[n] \/ next[n] = B[n]
  PROVE  /\ c \in Path(next, c) /\ Path(next, c) \subseteq S
         /\ \A n \in Path(next, c) : next[n] \in S => next[n] \in Path(next, c)
         /\ \A n \in Path(next, c) : lo[c] <= lo[n] /\ hi[n] <= hi[c]
         /\ \A n \in Path(next, c) : n # c => hi[n] - lo[n] < hi[c] - lo[c]
         /\ \A T : c \in T /\ (\A n \in T \cap S : next[n] \in S => next[n] \in T) => Path(next, c) \subseteq T
         /\ PathEnd(next, c) \in Path(next, c) /\ next[PathEnd(next, c)] = RBNIL
<1> DEFINE R == Path(next, c)
           U == {n \in S : lo[c] <= lo[n] /\ hi[n] <= hi[c] /\ (n # c => hi[n] - lo[n] < hi[c] - lo[c])}
<1>1. /\ S \subseteq Nodes /\ RBNIL \notin Nodes
      /\ \A n \in S : next[n] \in S \cup {RBNIL}
      /\ \A n \in S : lo[n] \in Int /\ hi[n] \in Int
  BY RBTreeAssumption DEF Shape
<1>2. /\ c \in R /\ R \subseteq Nodes
      /\ \A n \in R : next[n] \in Nodes => next[n] \in R
      /\ \A T : c \in T /\ (\A n \in T \cap Nodes : next[n] \in Nodes => next[n] \in T) => R \subseteq T
  BY <1>1, PathFacts
<1> HIDE DEF R
<1>3. c \in U /\ \A n \in U : next[n] \in S => next[n] \in U
  <2>1. c \in U
    BY <1>1
  <2>2. ASSUME NEW n \in U, next[n] \in S PROVE next[n] \in U
    <3>1. lo[n] <= lo[next[n]] /\ hi[next[n]] <= hi[n] /\ hi[next[n]] - lo[next[n]] < hi[n] - lo[n]
      BY <2>2, ChildInside
    <3> QED
      BY <1>1, <2>2, <3>1
  <2> QED
    BY <2>1, <2>2
<1>4. R \subseteq U
  <2>1. \A n \in U \cap Nodes : next[n] \in Nodes => next[n] \in U
    BY <1>1, <1>3
  <2> HIDE DEF U
  <2> QED
    BY <1>2, <1>3, <2>1
<1>5. ASSUME NEW T, c \in T, \A n \in T \cap S : next[n] \in S => next[n] \in T
      PROVE  R \subseteq T
  <2>1. c \in T \cap S /\ \A n \in (T \cap S) \cap Nodes : next[n] \in Nodes => next[n] \in T \cap S
    BY <1>1, <1>5
  <2>2. R \subseteq T \cap S
    BY <1>2, <2>1, Zenon
  <2> QED
    BY <2>2
<1>6. \E n \in R : next[n] = RBNIL
  <2>1. R \in SUBSET S /\ R # {}
    BY <1>2, <1>4
  <2>2. PICK n \in R : \A m \in R : hi[n] - lo[n] <= hi[m] - lo[m]
    BY <2>1, Shortest
  <2>3. ASSUME next[n] \in S PROVE FALSE
    <3>1. next[n] \in R /\ n \in S
      BY <1>1, <1>2, <2>1, <2>3
    <3>2. hi[next[n]] - lo[next[n]] < hi[n] - lo[n]
      BY <2>3, <3>1, ChildInside
    <3> QED
      BY <1>1, <2>2, <2>3, <3>1, <3>2
  <2> QED
    BY <1>1, <2>1, <2>3
<1>7. PathEnd(next, c) \in R /\ next[PathEnd(next, c)] = RBNIL
  BY <1>6 DEF PathEnd, R
<1> QED
  BY <1>1, <1>2, <1>4, <1>5, <1>7 DEF R

(* The nodes below c, c included, are those placed in its interval. *)
LEMMA Below ==
  ASSUME NEW A, NEW B, NEW P, NEW r, NEW S, NEW pos, NEW lo, NEW hi, NEW top,
         Shape(A, B, P, r, S, pos, lo, hi, top), NEW c \in S
  PROVE  Closure([n \in Nodes |-> {A[n], B[n]} \cap Nodes], {c})
           = {n \in S : lo[c] < pos[n] /\ pos[n] < hi[c]}
<1> DEFINE succ == [n \in Nodes |-> {A[n], B[n]} \cap Nodes]
           R == Closure(succ, {c})
           U == {n \in S : lo[c] <= lo[n] /\ hi[n] <= hi[c]}
<1>1. /\ S \subseteq Nodes /\ RBNIL \notin Nodes
      /\ \A n \in S : A[n] \in S \cup {RBNIL} /\ B[n] \in S \cup {RBNIL}
      /\ \A n \in S : lo[n] \in Int /\ hi[n] \in Int /\ pos[n] \in Int /\ lo[n] < pos[n] /\ pos[n] < hi[n]
  BY RBTreeAssumption DEF Shape
<1>2. succ \in [Nodes -> SUBSET Nodes] /\ {c} \in SUBSET Nodes /\ \A n \in S : succ[n] = {A[n], B[n]} \cap S
  BY <1>1
<1> HIDE DEF succ
<1>3. /\ c \in R /\ R \subseteq Nodes
      /\ \A n \in R : succ[n] \subseteq R
      /\ \A T : {c} \subseteq T /\ (\A n \in T \cap Nodes : succ[n] \subseteq T) => R \subseteq T
  BY <1>2, ClosureFacts
<1> HIDE DEF R
<1>4. R \subseteq U
  <2>1. ASSUME NEW n \in U, NEW m \in succ[n] PROVE m \in U
    <3>1. m \in S /\ (m = A[n] \/ m = B[n])
      BY <1>2, <2>1
    <3>2. lo[n] <= lo[m] /\ hi[m] <= hi[n]
      BY <3>1, ChildInside
    <3> QED
      BY <1>1, <3>1, <3>2
  <2>2. {c} \subseteq U /\ \A n \in U \cap Nodes : succ[n] \subseteq U
    BY <1>1, <2>1
  <2> HIDE DEF U
  <2> QED
    BY <1>3, <2>2
<1>5. ASSUME NEW m \in S, lo[c] < pos[m], pos[m] < hi[c] PROVE m \in R
  <2> DEFINE T == {n \in R : lo[n] < pos[m] /\ pos[m] < hi[n]}
  <2>1. T \in SUBSET S /\ T # {}
    BY <1>3, <1>4, <1>5
  <2>2. PICK n \in T : \A k \in T : hi[n] - lo[n] <= hi[k] - lo[k]
    <3> HIDE DEF T
    <3> QED
      BY <2>1, Shortest
  <2>3. n \in S /\ n \in R /\ lo[n] < pos[m] /\ pos[m] < hi[n]
    BY <2>1, <2>2
  <2>4. ASSUME NEW k \in S, k = A[n] \/ k = B[n], lo[k] < pos[m], pos[m] < hi[k] PROVE FALSE
    <3>1. k \in T
      BY <1>2, <1>3, <2>3, <2>4
    <3>2. hi[k] - lo[k] < hi[n] - lo[n]
      BY <2>3, <2>4, ChildInside
    <3> QED
      BY <1>1, <2>2, <2>3, <3>1, <3>2
  <2>5. ~(pos[m] < pos[n])
    <3> SUFFICES ASSUME pos[m] < pos[n] PROVE FALSE
      OBVIOUS
    <3>1. A[n] \in S /\ lo[A[n]] = lo[n] /\ hi[A[n]] = pos[n]
      BY <1>1, <2>3 DEF Shape
    <3> QED
      BY <2>3, <2>4, <3>1
  <2>6. ~(pos[n] < pos[m])
    <3> SUFFICES ASSUME pos[n] < pos[m] PROVE FALSE
      OBVIOUS
    <3>1. B[n] \in S /\ lo[B[n]] = pos[n] /\ hi[B[n]] = hi[n]
      BY <1>1, <2>3 DEF Shape
    <3> QED
      BY <2>3, <2>4, <3>1
  <2>7. pos[m] = pos[n]
    BY <1>1, <2>3, <2>5, <2>6
  <2> QED
    BY <2>3, <2>7 DEF Shape
<1>6. \A n \in U : lo[c] < pos[n] /\ pos[n] < hi[c]
  BY <1>1
<1>7. R = {n \in S : lo[c] < pos[n] /\ pos[n] < hi[c]}
  BY <1>4, <1>5, <1>6
<1> QED
  BY <1>7 DEF R, succ

(* Reachable is the set of the nodes of the tree, and what it finds below a child lies on  *)
(* that child's side.                                                                      *)
LEMMA ReachableNodes ==
  ASSUME NEW mem \in Heaps, NEW t \in Trees, NEW S, NEW pos, NEW top, Tree(mem, t, S, pos, top)
  PROVE  /\ Reachable(mem, t) = S
         /\ \A n \in S : mem.left[n] # RBNIL =>
              Reachable([mem EXCEPT !.root[t] = mem.left[n]], t) \subseteq {m \in S : pos[m] < pos[n]}
         /\ \A n \in S : mem.right[n] # RBNIL =>
              Reachable([mem EXCEPT !.root[t] = mem.right[n]], t) \subseteq {m \in S : pos[n] < pos[m]}
<1> DEFINE A == mem.left
           B == mem.right
           r == mem.root[t]
           Under(c) == Closure([n \in Nodes |-> {A[n], B[n]} \cap Nodes], {c})
<1>1. PICK lo, hi : Shape(A, B, mem.parent, r, S, pos, lo, hi, top)
  BY DEF Tree
<1>2. /\ S \subseteq Nodes /\ RBNIL \notin Nodes /\ top \in Nat
      /\ \A n \in S : A[n] \in S \cup {RBNIL} /\ B[n] \in S \cup {RBNIL}
      /\ \A n \in S : lo[n] \in Int /\ hi[n] \in Int /\ pos[n] \in Int
      /\ \A n \in S : -top <= lo[n] /\ lo[n] < pos[n] /\ pos[n] < hi[n] /\ hi[n] <= top
      /\ S = {} => r = RBNIL
      /\ S # {} => r \in S /\ lo[r] = -top /\ hi[r] = top
      /\ \A n \in S : A[n] \in S => hi[A[n]] = pos[n]
      /\ \A n \in S : B[n] \in S => lo[B[n]] = pos[n]
  BY <1>1, RBTreeAssumption DEF Shape
<1>3. ASSUME NEW c \in S PROVE Under(c) = {n \in S : lo[c] < pos[n] /\ pos[n] < hi[c]}
  <2> HIDE DEF A, B, r
  <2> QED
    BY <1>1, Below
<1>4. ASSUME NEW c \in S PROVE Reachable([mem EXCEPT !.root[t] = c], t) = Under(c)
  <2> DEFINE m2 == [mem EXCEPT !.root[t] = c]
  <2>1. m2.left = A /\ m2.right = B /\ m2.root[t] = c
    BY DEF Heaps
  <2>2. {c} \cap Nodes = {c}
    BY <1>2
  <2> HIDE DEF m2
  <2>3. Reachable(m2, t) = Under(c)
    BY <2>1, <2>2 DEF Reachable
  <2> QED
    BY <2>3 DEF m2
<1>5. Reachable(mem, t) = S
  <2>1. CASE S = {}
    <3> DEFINE succ == [n \in Nodes |-> {A[n], B[n]} \cap Nodes]
    <3>1. {r} \cap Nodes = {}
      BY <1>2, <2>1
    <3>2. Reachable(mem, t) = Closure(succ, {})
      BY <3>1 DEF Reachable
    <3>3. succ \in [Nodes -> SUBSET Nodes] /\ {} \in SUBSET Nodes
      OBVIOUS
    <3> HIDE DEF succ
    <3>4. \A T : {} \subseteq T /\ (\A n \in T \cap Nodes : succ[n] \subseteq T) => Closure(succ, {}) \subseteq T
      BY <3>3, ClosureFacts
    <3>5. Closure(succ, {}) \subseteq {}
      BY <3>4
    <3> QED
      BY <2>1, <3>2, <3>5
  <2>2. CASE S # {}
    <3>1. r \in S /\ {r} \cap Nodes = {r}
      BY <1>2, <2>2
    <3>2. Reachable(mem, t) = Under(r)
      BY <3>1 DEF Reachable
    <3>3. Under(r) = {n \in S : lo[r] < pos[n] /\ pos[n] < hi[r]}
      BY <1>3, <3>1
    <3>4. \A n \in S : lo[r] < pos[n] /\ pos[n] < hi[r]
      BY <1>2, <2>2
    <3> QED
      BY <3>2, <3>3, <3>4
  <2> QED
    BY <2>1, <2>2
<1>6. ASSUME NEW n \in S, A[n] # RBNIL
      PROVE  Reachable([mem EXCEPT !.root[t] = A[n]], t) \subseteq {m \in S : pos[m] < pos[n]}
  <2>1. A[n] \in S /\ hi[A[n]] = pos[n]
    BY <1>2, <1>6
  <2> QED
    BY <1>3, <1>4, <2>1
<1>7. ASSUME NEW n \in S, B[n] # RBNIL
      PROVE  Reachable([mem EXCEPT !.root[t] = B[n]], t) \subseteq {m \in S : pos[n] < pos[m]}
  <2>1. B[n] \in S /\ lo[B[n]] = pos[n]
    BY <1>2, <1>7
  <2> QED
    BY <1>3, <1>4, <2>1
<1> QED
  BY <1>5, <1>6, <1>7

(* A search that only goes to side A ends in the first node of its interval. *)
LEMMA Straight ==
  ASSUME NEW A, NEW B, NEW P, NEW r, NEW S, NEW pos, NEW lo, NEW hi, NEW top,
         Shape(A, B, P, r, S, pos, lo, hi, top), NEW c \in S,
         NEW next, \A n \in S : next[n] = A[n] \/ next[n] = B[n],
         \A n \in Path(next, c) : next[n] = A[n],
         NEW q, q = PathEnd(next, c)
  PROVE  /\ q \in Path(next, c) /\ q \in S /\ A[q] = RBNIL /\ lo[q] = lo[c] /\ hi[q] <= hi[c]
         /\ \A n \in S : lo[c] < pos[n] => pos[q] <= pos[n]
<1>1. /\ c \in Path(next, c) /\ Path(next, c) \subseteq S
      /\ \A n \in Path(next, c) : next[n] \in S => next[n] \in Path(next, c)
      /\ \A n \in Path(next, c) : lo[c] <= lo[n] /\ hi[n] <= hi[c]
      /\ \A T : c \in T /\ (\A n \in T \cap S : next[n] \in S => next[n] \in T) => Path(next, c) \subseteq T
      /\ q \in Path(next, c) /\ next[q] = RBNIL
  <2>1. /\ c \in Path(next, c) /\ Path(next, c) \subseteq S
        /\ \A n \in Path(next, c) : next[n] \in S => next[n] \in Path(next, c)
        /\ \A n \in Path(next, c) : lo[c] <= lo[n] /\ hi[n] <= hi[c]
        /\ \A T : c \in T /\ (\A n \in T \cap S : next[n] \in S => next[n] \in T) => Path(next, c) \subseteq T
        /\ PathEnd(next, c) \in Path(next, c) /\ next[PathEnd(next, c)] = RBNIL
    <3>1. \A n \in S : next[n] = A[n] \/ next[n] = B[n]
      OBVIOUS
    <3>2. Shape(A, B, P, r, S, pos, lo, hi, top) /\ c \in S
      OBVIOUS
    <3> QED
      BY ONLY <3>1, <3>2, Descent
  <2> QED
    BY <2>1
<1> DEFINE T == {n \in Path(next, c) : lo[n] = lo[c]}
<1>2. c \in T /\ \A n \in T \cap S : next[n] \in S => next[n] \in T
  BY <1>1 DEF Shape
<1>3. Path(next, c) \subseteq T
  <2> HIDE DEF T
  <2> QED
    BY <1>1, <1>2
<1>4. q \in S /\ A[q] = RBNIL /\ lo[q] = lo[c]
  BY <1>1, <1>3
<1>5. \A n \in S : lo[c] < pos[n] => pos[q] <= pos[n]
  BY <1>4 DEF Shape
<1> QED
  BY <1>1, <1>4, <1>5

(* A search for where the nodes of G begin: what is before the interval it has come to is  *)
(* not in G and what is behind it is.                                                      *)
LEMMA SearchFacts ==
  ASSUME NEW A, NEW B, NEW P, NEW r, NEW S, NEW pos, NEW lo, NEW hi, NEW top,
         Shape(A, B, P, r, S, pos, lo, hi, top), r \in S,
         NEW G \in SUBSET S, \A m \in G : \A n \in S : pos[m] < pos[n] => n \in G,
         NEW next, \A n \in S : next[n] = IF n \in G THEN A[n] ELSE B[n]
  PROVE  \A m \in Path(next, r) : \A q \in S : (pos[q] <= lo[m] => q \notin G) /\ (hi[m] <= pos[q] => q \in G)
<1> DEFINE T == {m \in S : \A q \in S : (pos[q] <= lo[m] => q \notin G) /\ (hi[m] <= pos[q] => q \in G)}
<1>1. \A T2 : r \in T2 /\ (\A n \in T2 \cap S : next[n] \in S => next[n] \in T2) => Path(next, r) \subseteq T2
  <2>1. \A n \in S : next[n] = A[n] \/ next[n] = B[n]
    OBVIOUS
  <2> QED
    BY <2>1, Descent
<1>2. /\ top \in Nat
      /\ \A n \in S : lo[n] \in Int /\ hi[n] \in Int /\ pos[n] \in Int
      /\ \A n \in S : -top <= lo[n] /\ lo[n] < pos[n] /\ pos[n] < hi[n] /\ hi[n] <= top
      /\ lo[r] = -top /\ hi[r] = top
      /\ \A n \in S : A[n] \in S => lo[A[n]] = lo[n] /\ hi[A[n]] = pos[n]
      /\ \A n \in S : B[n] \in S => lo[B[n]] = pos[n] /\ hi[B[n]] = hi[n]
      /\ \A m, n \in S : pos[m] = pos[n] => m = n
  BY DEF Shape
<1>3. r \in T
  BY <1>2
<1>4. ASSUME NEW n \in T, next[n] \in S PROVE next[n] \in T
  <2>1. CASE n \in G
    <3>1. next[n] = A[n] /\ lo[A[n]] = lo[n] /\ hi[A[n]] = pos[n] /\ A[n] \in S
      BY <1>2, <1>4, <2>1
    <3>2. \A q \in S : pos[n] <= pos[q] => q \in G
      BY <1>2, <2>1
    <3> QED
      BY <3>1, <3>2
  <2>2. CASE n \notin G
    <3>1. next[n] = B[n] /\ lo[B[n]] = pos[n] /\ hi[B[n]] = hi[n] /\ B[n] \in S
      BY <1>2, <1>4, <2>2
    <3>2. \A q \in S : pos[q] <= pos[n] => q \notin G
      BY <1>2, <2>2
    <3> QED
      BY <3>1, <3>2
  <2> QED
    BY <2>1, <2>2
<1>5. Path(next, r) \subseteq T
  <2>1. \A n \in T \cap S : next[n] \in S => next[n] \in T
    BY <1>4
  <2> HIDE DEF T
  <2> QED
    BY <1>1, <1>3, <2>1
<1> QED
  BY <1>5

----------------------------------------------------------------------------
(* The keys are in the order of the places. *)
Sorted(mem, S, pos) ==
  \A m, n \in S : pos[m] < pos[n] => mem.pay[m].trigger <= mem.pay[n].trigger

(* A red leaf disturbs nothing but the color rule at its parent. *)
LEMMA LeafState ==
  ASSUME NEW A, NEW B, NEW P, NEW C, NEW r, NEW S, NEW bh, IdleState(A, B, P, C, r, S, bh),
         NEW p \in S, A[p] = RBNIL, NEW v \in Nodes, v \notin S,
         NEW A2, NEW B2, NEW P2, LeafAdded(A, B, P, p, v, S, A2, B2, P2),
         NEW S2, S2 = S \cup {v}, Links(A2, B2, P2, r, S2), NEW C2, C2 = [C EXCEPT ![v] = "RBRED"]
  PROVE  \E bh2 : InsertState(A2, B2, P2, C2, r, S2, bh2, v)
<1> DEFINE bh2 == [bh EXCEPT ![v] = 0]
<1>1. /\ S \subseteq Ptrs /\ RBNIL \notin S /\ NULL \notin S2 /\ RBNIL \in Ptrs /\ v \in Ptrs /\ v # RBNIL
      /\ r \in S /\ r # v
      /\ \A n \in S : A[n] \in S \cup {RBNIL} /\ B[n] \in S \cup {RBNIL}
  BY RBTreeAssumption DEF IdleState, Links, Ptrs
<1>2. /\ bh \in [Ptrs -> Nat] /\ bh[RBNIL] = 0 /\ C[RBNIL] = "RBBLK" /\ C \in Colors /\ C[r] = "RBBLK"
      /\ \A n \in S : bh[n] = bh[A[n]] + Missing(n, NULL) + Blk(C[n])
      /\ \A n \in S : bh[n] = bh[B[n]] + Missing(n, NULL) + Blk(C[n])
      /\ \A n \in S : C[n] = "RBRED" =>
           (A[n] = NULL \/ C[A[n]] = "RBBLK") /\ (B[n] = NULL \/ C[B[n]] = "RBBLK")
  BY <1>1 DEF IdleState, Heights, RedRule
<1>3. /\ bh2 \in [Ptrs -> Nat] /\ bh2[v] = 0 /\ \A n \in Ptrs \ {v} : bh2[n] = bh[n]
      /\ C2 \in Colors /\ C2[v] = "RBRED" /\ \A n \in Ptrs \ {v} : C2[n] = C[n]
  BY <1>1, <1>2 DEF Colors
<1> HIDE DEF bh2
<1>4. /\ A2[v] = RBNIL /\ B2[v] = RBNIL /\ A2[p] = v
      /\ \A n \in S : (n # p => A2[n] = A[n]) /\ B2[n] = B[n]
  BY <1>1 DEF LeafAdded
<1>5. \A n \in S2 : Missing(n, NULL) = 0
  BY <1>1 DEF Missing
<1>6. Blk(C2[v]) = 0
  BY <1>3 DEF Blk
<1>7. ASSUME NEW n \in S
      PROVE  /\ bh2[n] = bh2[A2[n]] + Missing(n, NULL) + Blk(C2[n])
             /\ bh2[n] = bh2[B2[n]] + Missing(n, NULL) + Blk(C2[n])
  <2>1. bh2[n] = bh[n] /\ C2[n] = C[n] /\ bh2[A[n]] = bh[A[n]] /\ bh2[B[n]] = bh[B[n]]
    BY <1>1, <1>3
  <2>2. CASE n = p
    BY <1>2, <1>3, <1>4, <2>1, <2>2
  <2>3. CASE n # p
    BY <1>2, <1>4, <2>1, <2>3
  <2> QED
    BY <2>2, <2>3
<1>8. bh2[v] = bh2[RBNIL] + Missing(v, NULL) + Blk(C2[v])
  BY <1>1, <1>2, <1>3, <1>5, <1>6
<1>9. Heights(A2, B2, C2, S2, bh2, NULL, NULL)
  BY <1>1, <1>2, <1>3, <1>4, <1>7, <1>8 DEF Heights
<1>10. RedRule(A2, B2, C2, S2, v, NULL)
  <2>1. ASSUME NEW n \in S2, C2[n] = "RBRED"
        PROVE  (A2[n] = v \/ C2[A2[n]] = "RBBLK") /\ (B2[n] = v \/ C2[B2[n]] = "RBBLK")
    <3>1. CASE n = v
      BY <1>1, <1>2, <1>3, <1>4, <3>1
    <3>2. CASE n # v
      <4>1. /\ n \in S /\ C[n] = "RBRED" /\ A[n] # NULL /\ B[n] # NULL
            /\ C2[A[n]] = C[A[n]] /\ C2[B[n]] = C[B[n]]
        BY <1>1, <1>3, <2>1, <3>2, RBTreeAssumption
      <4> QED
        BY <1>2, <1>4, <4>1
    <3> QED
      BY <3>1, <3>2
  <2> QED
    BY <2>1 DEF RedRule
<1>11. C2[r] = "RBBLK"
  BY <1>1, <1>2, <1>3
<1> QED
  BY <1>3, <1>9, <1>10, <1>11 DEF InsertState

(* What rbtree_insert writes for the key k, with p for the parent that its search finds    *)
(* and s for the side of p on which the new node goes.                                     *)
LinkedAt(mem, v, k, p, s) ==
  SetChild([make_timer(mem, v, Pay(k)) EXCEPT !.color[v] = "RBRED", !.left[v] = RBNIL,
                                              !.right[v] = RBNIL, !.parent[v] = p], s, p, v)

(* The key k belongs between p, which has no child on side s, and its neighbour there. *)
FitsAt(mem, S, pos, k, p, s) ==
  /\ mem[s][p] = RBNIL
  /\ s = "left" => \A q \in S : IF pos[q] < pos[p] THEN mem.pay[q].trigger <= k
                                ELSE k <= mem.pay[q].trigger
  /\ s = "right" => \A q \in S : IF pos[q] <= pos[p] THEN mem.pay[q].trigger <= k
                                 ELSE k <= mem.pay[q].trigger

(* Which fields that changes. *)
LEMMA LinkFacts ==
  ASSUME NEW mem \in Heaps, NEW t \in Trees, NEW v \in Nodes, NEW k \in Nat,
         NEW p \in Nodes, p # v, NEW s \in Sides, NEW m2, m2 = LinkedAt(mem, v, k, p, s)
  PROVE  /\ m2 \in Heaps /\ m2.root = mem.root /\ m2.color = [mem.color EXCEPT ![v] = "RBRED"]
         /\ m2.pay = [mem.pay EXCEPT ![v] = Pay(k)]
         /\ \A n \in Nodes : /\ m2[s][n] = (IF n = p THEN v ELSE IF n = v THEN RBNIL ELSE mem[s][n])
                             /\ m2[Other(s)][n] = (IF n = v THEN RBNIL ELSE mem[Other(s)][n])
                             /\ m2.parent[n] = IF n = v THEN p ELSE mem.parent[n]
<1> DEFINE m1 == make_timer(mem, v, Pay(k))
           m3 == [m1 EXCEPT !.color[v] = "RBRED", !.left[v] = RBNIL, !.right[v] = RBNIL, !.parent[v] = p]
<1>1. v \in Ptrs /\ p \in Ptrs /\ RBNIL \in Ptrs /\ Pay(k) \in [trigger : Nat]
  BY DEF Ptrs, Pay
<1>2. /\ m1 \in Heaps /\ m1.root = mem.root /\ m1.color = [mem.color EXCEPT ![v] = "RBBLK"]
      /\ m1.left = [mem.left EXCEPT ![v] = NULL] /\ m1.right = [mem.right EXCEPT ![v] = NULL]
      /\ m1.parent = [mem.parent EXCEPT ![v] = NULL] /\ m1.pay = [mem.pay EXCEPT ![v] = Pay(k)]
  BY <1>1 DEF Heaps, make_timer
<1>3. /\ m3 \in Heaps /\ m3.root = m1.root /\ m3.color = [m1.color EXCEPT ![v] = "RBRED"]
      /\ m3.left = [m1.left EXCEPT ![v] = RBNIL] /\ m3.right = [m1.right EXCEPT ![v] = RBNIL]
      /\ m3.parent = [m1.parent EXCEPT ![v] = p] /\ m3.pay = m1.pay
  BY <1>1, <1>2 DEF Heaps
<1> HIDE DEF m3
<1>4. /\ m3 \in Heaps /\ m3.root = mem.root /\ m3.color = [mem.color EXCEPT ![v] = "RBRED"]
      /\ m3.pay = [mem.pay EXCEPT ![v] = Pay(k)]
      /\ \A n \in Nodes : /\ m3.left[n] = (IF n = v THEN RBNIL ELSE mem.left[n])
                          /\ m3.right[n] = (IF n = v THEN RBNIL ELSE mem.right[n])
                          /\ m3.parent[n] = IF n = v THEN p ELSE mem.parent[n]
      /\ \A n \in Ptrs : n \in DOMAIN m3.left /\ n \in DOMAIN m3.right
  BY <1>1, <1>2, <1>3 DEF Heaps, Ptrs
<1>5. /\ m2 \in Heaps /\ m2.color = m3.color /\ m2.pay = m3.pay /\ m2.root = m3.root
      /\ m2.parent = m3.parent /\ m2[Other(s)] = m3[Other(s)]
      /\ m2[s] = [m3[s] EXCEPT ![p] = v]
  <2>1. m2 = SetChild(m3, s, p, v)
    BY DEF m3, LinkedAt
  <2> QED
    BY <1>1, <1>4, <2>1, SetChildFacts
<1>6. \A n \in Nodes : /\ m3[s][n] = (IF n = v THEN RBNIL ELSE mem[s][n])
                       /\ m3[Other(s)][n] = (IF n = v THEN RBNIL ELSE mem[Other(s)][n])
                       /\ n \in DOMAIN m3[s]
  BY <1>4 DEF Sides, Other, Ptrs
<1> QED
  BY <1>4, <1>5, <1>6

(* The parent that rbtree_insert's search finds: a node of the tree without a child on the *)
(* side of the key k, and the key belongs between that node and its neighbour.             *)
LEMMA InsertPlace ==
  ASSUME NEW mem \in Heaps, NEW t \in Trees, NEW S, NEW pos, NEW top, Tree(mem, t, S, pos, top),
         Sorted(mem, S, pos), mem.root[t] # RBNIL, NEW v \in Nodes, v \notin S, NEW k \in Nat
  PROVE  \E p \in S : \E s \in Sides :
           /\ Link(make_timer(mem, v, Pay(k)), t, v) = LinkedAt(mem, v, k, p, s)
           /\ FitsAt(mem, S, pos, k, p, s)
<1> DEFINE m1 == make_timer(mem, v, Pay(k))
           side(n) == IF timer_cmp_le(m1.pay[v], m1.pay[n]) THEN "left" ELSE "right"
           next == [n \in Nodes |-> m1[side(n)][n]]
           G == {n \in S : k <= mem.pay[n].trigger}
           r == mem.root[t]
           p == PathEnd(next, r)
<1>1. PICK lo, hi : Shape(mem.left, mem.right, mem.parent, r, S, pos, lo, hi, top)
  BY DEF Tree
<1>2. /\ S \subseteq Nodes /\ r \in S /\ RBNIL \notin Nodes /\ NULL \notin Nodes
      /\ \A n \in S : lo[n] \in Int /\ hi[n] \in Int /\ pos[n] \in Int
      /\ \A n \in S : lo[n] < pos[n] /\ pos[n] < hi[n]
      /\ \A m, n \in S : pos[m] = pos[n] => m = n
      /\ \A n, q \in S : mem.left[n] = RBNIL => ~(lo[n] < pos[q] /\ pos[q] < pos[n])
      /\ \A n, q \in S : mem.right[n] = RBNIL => ~(pos[n] < pos[q] /\ pos[q] < hi[n])
  BY <1>1, RBTreeAssumption DEF Shape
<1>3. /\ \A n \in Nodes : mem.pay[n].trigger \in Nat
      /\ m1.root = mem.root /\ m1.pay[v].trigger = k
      /\ \A n \in S : m1.left[n] = mem.left[n] /\ m1.right[n] = mem.right[n] /\ m1.pay[n] = mem.pay[n]
  <2>1. v \in Ptrs /\ \A n \in S : n # v /\ n \in Ptrs
    BY <1>2 DEF Ptrs
  <2> QED
    BY <1>2, <2>1 DEF Heaps, make_timer, Pay
<1>4. \A n \in S : /\ side(n) = (IF n \in G THEN "left" ELSE "right")
                   /\ next[n] = (IF n \in G THEN mem.left[n] ELSE mem.right[n])
                   /\ side(n) \in Sides /\ next[n] = mem[side(n)][n]
  BY <1>2, <1>3 DEF timer_cmp_le, Sides
<1>5. \A m \in G : \A n \in S : pos[m] < pos[n] => n \in G
  <2>1. \A m, n \in S : pos[m] < pos[n] => mem.pay[m].trigger <= mem.pay[n].trigger
    BY DEF Sorted
  <2> QED
    BY <1>2, <1>3, <2>1
<1> HIDE DEF next, m1
<1>6. p \in Path(next, r) /\ p \in S /\ next[p] = RBNIL
  <2>1. \A n \in S : next[n] = mem.left[n] \/ next[n] = mem.right[n]
    BY <1>4
  <2>2. r \in S
    BY <1>2
  <2> HIDE DEF r, G, side
  <2>3. /\ Path(next, r) \subseteq S
        /\ PathEnd(next, r) \in Path(next, r) /\ next[PathEnd(next, r)] = RBNIL
    <3> DEFINE A == mem.left
               B == mem.right
               P == mem.parent
    <3>1. Shape(A, B, P, r, S, pos, lo, hi, top)
      BY <1>1
    <3>2. \A n \in S : next[n] = A[n] \/ next[n] = B[n]
      BY <2>1
    <3> HIDE DEF A, B, P
    <3> QED
      BY ONLY <2>2, <3>1, <3>2, Descent
  <2> QED
    BY <2>3
<1>7. \A q \in S : (pos[q] <= lo[p] => q \notin G) /\ (hi[p] <= pos[q] => q \in G)
  <2>1. G \in SUBSET S /\ \A n \in S : next[n] = IF n \in G THEN mem.left[n] ELSE mem.right[n]
    BY <1>4
  <2> HIDE DEF p, r, G, side
  <2> QED
    BY <1>1, <1>2, <1>5, <1>6, <2>1, SearchFacts
<1> HIDE DEF p
<1>8. Link(m1, t, v) = LinkedAt(mem, v, k, p, side(p))
  <2>1. m1.root[t] # RBNIL /\ m1.root[t] = r /\ p # NULL
    BY <1>2, <1>3, <1>6
  <2>2. Link(m1, t, v) = SetChild([m1 EXCEPT !.color[v] = "RBRED", !.left[v] = RBNIL,
                                             !.right[v] = RBNIL, !.parent[v] = p], side(p), p, v)
    BY <2>1 DEF Link, SetChild, p, next
  <2> QED
    BY <2>2 DEF LinkedAt, m1
<1>9. side(p) \in Sides /\ mem[side(p)][p] = RBNIL
  BY <1>4, <1>6
<1>10. ASSUME side(p) = "left", NEW q \in S
       PROVE  IF pos[q] < pos[p] THEN mem.pay[q].trigger <= k ELSE k <= mem.pay[q].trigger
  <2>1. p \in G /\ mem.left[p] = RBNIL
    BY <1>4, <1>6, <1>10
  <2>2. CASE pos[q] < pos[p]
    <3>1. pos[q] <= lo[p]
      BY <1>2, <1>6, <2>1, <2>2
    <3>2. q \notin G
      BY <1>7, <3>1
    <3> QED
      BY <1>2, <1>3, <2>2, <3>2
  <2>3. CASE ~(pos[q] < pos[p])
    <3>1. q = p \/ pos[p] < pos[q]
      BY <1>2, <1>6, <2>3
    <3>2. q \in G
      BY <1>5, <2>1, <3>1
    <3> QED
      BY <2>3, <3>2
  <2> QED
    BY <2>2, <2>3
<1>11. ASSUME side(p) = "right", NEW q \in S
       PROVE  IF pos[q] <= pos[p] THEN mem.pay[q].trigger <= k ELSE k <= mem.pay[q].trigger
  <2>1. p \notin G /\ mem.right[p] = RBNIL
    BY <1>4, <1>6, <1>11
  <2>2. CASE pos[q] <= pos[p]
    <3>1. q = p \/ pos[q] < pos[p]
      BY <1>2, <1>6, <2>2
    <3>2. q \notin G
      BY <1>5, <1>6, <2>1, <3>1
    <3> QED
      BY <1>2, <1>3, <2>2, <3>2
  <2>3. CASE ~(pos[q] <= pos[p])
    <3>1. hi[p] <= pos[q]
      BY <1>2, <1>6, <2>1, <2>3
    <3>2. q \in G
      BY <1>7, <3>1
    <3> QED
      BY <2>3, <3>2
  <2> QED
    BY <2>2, <2>3
<1> HIDE DEF side
<1>12. FitsAt(mem, S, pos, k, p, side(p))
  BY <1>9, <1>10, <1>11 DEF FitsAt
<1> QED
  BY <1>6, <1>8, <1>9, <1>12 DEF m1

(* A tree t of mem in search order, whatever the places of its nodes. *)
Ordered(mem, t, S) == \E pos, top : Tree(mem, t, S, pos, top) /\ Sorted(mem, S, pos)

(* The tree t over S, into which v with the key k was linked *)
Inserted(mem, m2, t, S, v, k) ==
  /\ m2 \in Heaps /\ m2.pay = [mem.pay EXCEPT ![v] = Pay(k)]
  /\ \A n \in Nodes \ S : m2.parent[n] = mem.parent[n]
  /\ Ordered(m2, t, S)
  /\ \E bh2 : InsertAt(m2, "left", t, S, bh2, v)

(* What rbtree_insert leaves for insert_fixup in a tree that was not empty, when the place *)
(* is p's side s *)
LEMMA LinkAt ==
  ASSUME NEW mem \in Heaps, NEW t \in Trees, NEW S, NEW pos, NEW top, Tree(mem, t, S, pos, top),
         Sorted(mem, S, pos), NEW bh, IdleAt(mem, t, S, bh), NEW v \in Nodes, v \notin S, NEW k \in Nat,
         NEW p \in S, NEW s \in Sides, FitsAt(mem, S, pos, k, p, s),
         NEW m2, m2 = LinkedAt(mem, v, k, p, s)
  PROVE  Inserted(mem, m2, t, S \cup {v}, v, k)
<1> DEFINE S2 == S \cup {v}
           o == Other(s)
           A == mem[s]
           B == mem[o]
<1>2. /\ S \subseteq Nodes /\ p \in Nodes /\ p # v /\ o \in Sides /\ Other(o) = s /\ top \in Nat /\ pos \in [S -> Int]
  BY OtherSide DEF Tree, Shape
<1>3. /\ m2 \in Heaps /\ m2.root = mem.root /\ m2.color = [mem.color EXCEPT ![v] = "RBRED"]
      /\ m2.pay = [mem.pay EXCEPT ![v] = Pay(k)]
      /\ \A n \in Nodes : /\ m2[s][n] = (IF n = p THEN v ELSE IF n = v THEN RBNIL ELSE A[n])
                          /\ m2[o][n] = (IF n = v THEN RBNIL ELSE B[n])
                          /\ m2.parent[n] = IF n = v THEN p ELSE mem.parent[n]
  <2>1. m2 = LinkedAt(mem, v, k, p, s) /\ mem \in Heaps /\ v \in Nodes /\ k \in Nat /\ s \in Sides
    OBVIOUS
  <2> QED
    BY ONLY <1>2, <2>1, t \in Trees, LinkFacts
<1>4. LeafAdded(A, B, mem.parent, p, v, S, m2[s], m2[o], m2.parent)
  BY <1>2, <1>3 DEF LeafAdded
<1>5. PICK p1, lo, hi : /\ Shape(A, B, mem.parent, mem.root[t], S, p1, lo, hi, top)
                        /\ p1 = IF s = "left" THEN pos ELSE Neg(pos)
  BY TreeSides
<1>6. PICK p2, lo2, hi2 : /\ Shape(m2[s], m2[o], m2.parent, mem.root[t], S2, p2, lo2, hi2, 2 * top)
                          /\ \A n \in S : p2[n] = 2 * p1[n]
                          /\ p2[v] = 2 * p1[p] - 1
  <2>1. A[p] = RBNIL
    BY DEF FitsAt
  <2>2. Grown(m2[s], m2[o], m2.parent, mem.root[t], S, p1, p, v, top)
    <3> HIDE DEF A, B, o
    <3> QED
      BY <1>4, <1>5, <2>1, LeafShape
  <2> QED
    BY <2>2 DEF Grown
<1> DEFINE pos2 == IF s = "left" THEN p2 ELSE Neg(p2)
<1>7. p2 \in [S2 -> Int] /\ pos2 \in [S2 -> Int]
  <2>1. p2 \in [S2 -> Int]
    BY <1>6 DEF Shape
  <2> QED
    BY <2>1, NegNeg
<1>8. Tree(m2, t, S2, pos2, 2 * top)
  <2>1. p2 = IF s = "left" THEN pos2 ELSE Neg(pos2)
    BY <1>7, NegNeg
  <2>2. Shape(m2[s], m2[Other(s)], m2.parent, m2.root[t], S2, p2, lo2, hi2, 2 * top)
    BY <1>3, <1>6
  <2> HIDE DEF pos2
  <2> QED
    BY <1>7, <2>1, <2>2, SidesTree
<1>9. /\ \A n \in S : pos2[n] = 2 * pos[n] /\ pos[n] \in Int
      /\ pos2[v] = IF s = "left" THEN 2 * pos[p] - 1 ELSE 2 * pos[p] + 1
  <2>1. CASE s = "left"
    BY <1>2, <1>5, <1>6, <1>7, <2>1
  <2>2. CASE s = "right"
    BY <1>2, <1>5, <1>6, <1>7, <2>2 DEF Neg
  <2> QED
    BY <2>1, <2>2 DEF Sides
<1> HIDE DEF pos2
<1>10. /\ m2.pay[v].trigger = k /\ \A n \in S : m2.pay[n] = mem.pay[n] /\ mem.pay[n].trigger \in Nat
  BY <1>2, <1>3 DEF Heaps, Pay
<1>11. Sorted(m2, S2, pos2)
  <2>1. ASSUME NEW q \in S
        PROVE  /\ pos2[q] < pos2[v] => mem.pay[q].trigger <= k
               /\ pos2[v] < pos2[q] => k <= mem.pay[q].trigger
    <3>1. CASE s = "left"
      BY <1>9, <3>1 DEF FitsAt
    <3>2. CASE s = "right"
      BY <1>9, <3>2 DEF FitsAt
    <3> QED
      BY <3>1, <3>2 DEF Sides
  <2>2. \A m, n \in S : pos2[m] < pos2[n] => mem.pay[m].trigger <= mem.pay[n].trigger
    BY <1>9 DEF Sorted
  <2>3. ~(pos2[v] < pos2[v])
    BY <1>7
  <2> QED
    BY <1>10, <2>1, <2>2, <2>3 DEF Sorted
<1>12. Ordered(m2, t, S2)
  BY <1>8, <1>11 DEF Ordered
<1>13. \E bh2 : InsertAt(m2, s, t, S2, bh2, v)
  <2>1. IdleState(A, B, mem.parent, mem.color, mem.root[t], S, bh)
    <3>1. IdleState(mem.left, mem.right, mem.parent, mem.color, mem.root[t], S, bh)
      BY DEF IdleAt
    <3>2. CASE s = "left"
      BY <3>1, <3>2 DEF Other
    <3>3. CASE s = "right"
      <4>1. IdleState(mem.right, mem.left, mem.parent, mem.color, mem.root[t], S, bh)
        BY <3>1 DEF IdleState, Links, Heights, RedRule
      <4> QED
        BY <3>3, <4>1 DEF Other
    <3> QED
      BY <3>2, <3>3 DEF Sides
  <2>2. Links(m2[s], m2[o], m2.parent, mem.root[t], S2)
    BY <1>3, <1>8, TreeLinks
  <2>3. A[p] = RBNIL
    BY DEF FitsAt
  <2> HIDE DEF A, B
  <2>4. \E bh2 : InsertState(m2[s], m2[o], m2.parent, m2.color, mem.root[t], S2, bh2, v)
    <3>1. S2 = S \cup {v} /\ m2.color = [mem.color EXCEPT ![v] = "RBRED"]
      BY <1>3
    <3> HIDE DEF S2
    <3> QED
      BY <1>4, <2>1, <2>2, <2>3, <3>1, LeafState
  <2> QED
    BY <1>3, <2>4 DEF InsertAt
<1>14. \E bh2 : InsertAt(m2, "left", t, S2, bh2, v)
  <2>1. "left" \in Sides
    BY DEF Sides
  <2> QED
    BY <1>13, <2>1, InsertEitherSide
<1> QED
  BY <1>3, <1>12, <1>14 DEF Inserted

(* and at the place that its search finds. *)
LEMMA LinkBelow ==
  ASSUME NEW mem \in Heaps, NEW t \in Trees, NEW S, NEW pos, NEW top, Tree(mem, t, S, pos, top),
         Sorted(mem, S, pos), NEW bh, IdleAt(mem, t, S, bh), NEW v \in Nodes, v \notin S, NEW k \in Nat,
         mem.root[t] # RBNIL, NEW m2, m2 = Link(make_timer(mem, v, Pay(k)), t, v)
  PROVE  Inserted(mem, m2, t, S \cup {v}, v, k)
<1>1. PICK p \in S : \E q \in Sides : m2 = LinkedAt(mem, v, k, p, q) /\ FitsAt(mem, S, pos, k, p, q)
  BY InsertPlace
<1>2. PICK s \in Sides : m2 = LinkedAt(mem, v, k, p, s) /\ FitsAt(mem, S, pos, k, p, s)
  BY <1>1
<1>3. p \in S /\ s \in Sides
  BY <1>1, <1>2
<1>4. /\ mem \in Heaps /\ t \in Trees /\ Tree(mem, t, S, pos, top) /\ Sorted(mem, S, pos)
      /\ IdleAt(mem, t, S, bh) /\ v \in Nodes /\ v \notin S /\ k \in Nat
  OBVIOUS
<1> QED
  BY ONLY <1>2, <1>3, <1>4, LinkAt

(* The same in an empty tree: the node becomes the root. *)
LEMMA LinkFirst ==
  ASSUME NEW mem \in Heaps, NEW t \in Trees, NEW bh, IdleAt(mem, t, {}, bh),
         NEW v \in Nodes, NEW k \in Nat, NEW m2, m2 = Link(make_timer(mem, v, Pay(k)), t, v)
  PROVE  Inserted(mem, m2, t, {v}, v, k)
<1> DEFINE m1 == make_timer(mem, v, Pay(k))
           m3 == [m1 EXCEPT !.color[v] = "RBRED", !.left[v] = RBNIL, !.right[v] = RBNIL, !.parent[v] = NULL]
<1>1. v \in Ptrs /\ RBNIL \in Ptrs /\ Pay(k) \in [trigger : Nat] /\ v # RBNIL /\ v # NULL
  BY RBTreeAssumption DEF Ptrs, Pay
<1>2. mem.root[t] = RBNIL /\ mem.color[RBNIL] = "RBBLK" /\ bh \in [Ptrs -> Nat] /\ bh[RBNIL] = 0
  BY DEF IdleAt, IdleState, Links, Heights
<1>3. /\ m1 \in Heaps /\ m1.root = mem.root /\ m1.color = [mem.color EXCEPT ![v] = "RBBLK"]
      /\ m1.left = [mem.left EXCEPT ![v] = NULL] /\ m1.right = [mem.right EXCEPT ![v] = NULL]
      /\ m1.parent = [mem.parent EXCEPT ![v] = NULL] /\ m1.pay = [mem.pay EXCEPT ![v] = Pay(k)]
  BY <1>1 DEF Heaps, make_timer
<1>4. m2 = [m3 EXCEPT !.root[t] = v]
  <2>1. m1.root[t] = RBNIL
    BY <1>2, <1>3
  <2> QED
    BY <2>1 DEF Link
<1> HIDE DEF m1
<1>5. /\ m3 \in Heaps /\ m3.root = m1.root /\ m3.color = [m1.color EXCEPT ![v] = "RBRED"]
      /\ m3.left = [m1.left EXCEPT ![v] = RBNIL] /\ m3.right = [m1.right EXCEPT ![v] = RBNIL]
      /\ m3.parent = [m1.parent EXCEPT ![v] = NULL] /\ m3.pay = m1.pay
  BY <1>1, <1>3 DEF Heaps
<1> HIDE DEF m3
<1>6. /\ m2 \in Heaps /\ m2.root[t] = v /\ m2.color = m3.color /\ m2.left = m3.left /\ m2.right = m3.right
      /\ m2.parent = m3.parent /\ m2.pay = m3.pay
  <2>1. m3 \in Heaps /\ t \in Trees
    BY <1>5
  <2> QED
    BY ONLY <1>1, <1>4, <2>1 DEF Heaps
<1>7. /\ m2.left[v] = RBNIL /\ m2.right[v] = RBNIL /\ m2.parent[v] = NULL
      /\ m2.color \in Colors /\ m2.color[v] = "RBRED" /\ m2.color[RBNIL] = "RBBLK"
      /\ m2.pay = [mem.pay EXCEPT ![v] = Pay(k)]
      /\ \A n \in Nodes \ {v} : m2.parent[n] = mem.parent[n]
  BY <1>1, <1>2, <1>3, <1>5, <1>6 DEF Heaps, Ptrs, Colors
<1> DEFINE pos == [n \in {v} |-> 0]
           lo == [n \in {v} |-> -1]
           hi == [n \in {v} |-> 1]
<1>8. Shape(m2.left, m2.right, m2.parent, v, {v}, pos, lo, hi, 1)
  BY <1>1, <1>7 DEF Shape
<1>9. Tree(m2, t, {v}, pos, 1)
  BY <1>6, <1>8 DEF Tree
<1>10. Ordered(m2, t, {v})
  <2>1. Sorted(m2, {v}, pos)
    BY DEF Sorted
  <2> QED
    BY <1>9, <2>1 DEF Ordered
<1>11. \E bh2 : InsertAt(m2, "left", t, {v}, bh2, v)
  <2> DEFINE bh2 == [bh EXCEPT ![v] = 0]
  <2>1. bh2 \in [Ptrs -> Nat] /\ bh2[v] = 0 /\ bh2[RBNIL] = 0
    BY <1>1, <1>2
  <2> HIDE DEF bh2
  <2>2. Heights(m2.left, m2.right, m2.color, {v}, bh2, NULL, NULL)
    BY <1>1, <1>7, <2>1 DEF Heights, Missing, Blk
  <2>3. RedRule(m2.left, m2.right, m2.color, {v}, v, NULL)
    BY <1>7 DEF RedRule
  <2>4. Links(m2.left, m2.right, m2.parent, v, {v})
    <3> HIDE DEF pos, lo, hi
    <3> QED
      BY <1>8, ShapeLinks
  <2>5. InsertState(m2.left, m2.right, m2.parent, m2.color, v, {v}, bh2, v)
    BY <1>7, <2>2, <2>3, <2>4 DEF InsertState
  <2> QED
    BY <1>6, <2>5 DEF InsertAt, Other
<1> QED
  BY <1>6, <1>7, <1>10, <1>11 DEF Inserted

----------------------------------------------------------------------------
(* The node that rbtree_delete takes out: it lacks a child, and it is the deleted node or  *)
(* the next one in order.                                                                  *)
LEMMA SuccessorFacts ==
  ASSUME NEW mem, NEW t, NEW S, NEW pos, NEW top, Tree(mem, t, S, pos, top), NEW z \in S,
         NEW y, y = Successor(mem, z)
  PROVE  /\ y \in S /\ (mem.left[y] = RBNIL \/ mem.right[y] = RBNIL)
         /\ y # z => /\ pos[z] < pos[y]
                     /\ \A q \in S : pos[z] < pos[q] => pos[y] <= pos[q]
<1> DEFINE A == mem.left
           B == mem.right
<1>1. CASE A[z] = RBNIL \/ B[z] = RBNIL
  BY <1>1 DEF Successor
<1>2. CASE ~(A[z] = RBNIL \/ B[z] = RBNIL)
  <2>1. y = PathEnd(A, B[z])
    BY <1>2 DEF Successor, Leftmost
  <2>2. PICK lo, hi : Shape(A, B, mem.parent, mem.root[t], S, pos, lo, hi, top)
    BY DEF Tree
  <2>3. B[z] \in S /\ lo[B[z]] = pos[z]
    BY <1>2, <2>2 DEF Shape
  <2> DEFINE c == B[z]
  <2> HIDE DEF A, B, c
  <2>4. /\ \A n \in S : A[n] = A[n] \/ A[n] = B[n]
        /\ \A n \in Path(A, c) : A[n] = A[n]
        /\ c \in S /\ y = PathEnd(A, c)
    BY <2>1, <2>3 DEF c
  <2>5. /\ y \in S /\ A[y] = RBNIL /\ lo[y] = lo[c]
        /\ \A n \in S : lo[c] < pos[n] => pos[y] <= pos[n]
    BY ONLY <2>2, <2>4, Straight
  <2>6. pos[z] < pos[y]
    BY <2>2, <2>3, <2>5 DEF c, Shape
  <2> QED
    BY <2>3, <2>5, <2>6 DEF A, c
<1> QED
  BY <1>1, <1>2

(* The colors C2 agree with C except at y. *)
SameColors(C, C2, y) == C2 \in Colors /\ \A n \in Ptrs \ {y} : C2[n] = C[n]

(* Taking out y, which has no child on side A: a missing black node when y is black. *)
LEMMA CutState ==
  ASSUME NEW A, NEW B, NEW P, NEW C, NEW r, NEW S, NEW bh, IdleState(A, B, P, C, r, S, bh),
         NEW y \in S, A[y] = RBNIL, NEW c, c = B[y], NEW S2, S2 = S \ {y},
         NEW A2, NEW B2, NEW P2, NEW r2, Removed(A, B, P, r, y, S2, A2, B2, P2, r2),
         Links(A2, B2, P2, r2, S2), P2[c] = P[y],
         NEW C2, SameColors(C, C2, y)
  PROVE  IF C[y] = "RBBLK" THEN FixState(A2, B2, P2, C2, r2, S2, bh, c)
         ELSE IdleState(A2, B2, P2, C2, r2, S2, bh)
<1> DEFINE p == P[y]
<1>0. C2 \in Colors /\ \A n \in Ptrs \ {y} : C2[n] = C[n]
  BY DEF SameColors
<1>1. /\ S \subseteq Ptrs /\ RBNIL \notin S /\ NULL \notin S /\ NULL # RBNIL /\ RBNIL \in Ptrs /\ r \in S
      /\ \A n \in S : A[n] \in S \cup {RBNIL} /\ B[n] \in S \cup {RBNIL}
      /\ \A n \in S : A[n] \in S => P[A[n]] = n
      /\ \A n \in S : B[n] \in S => P[B[n]] = n
      /\ \A n \in S : A[n] = B[n] => A[n] = RBNIL
      /\ P[y] = NULL <=> y = r
      /\ y # r => p \in S /\ p # y /\ (A[p] = y \/ B[p] = y)
      /\ P[r] = NULL
  BY RBTreeAssumption DEF IdleState, Links, Ptrs
<1>2. /\ bh \in [Ptrs -> Nat] /\ bh[RBNIL] = 0 /\ C[RBNIL] = "RBBLK" /\ C \in Colors /\ C[r] = "RBBLK"
      /\ \A n \in S : bh[n] = bh[A[n]] + Missing(n, NULL) + Blk(C[n])
      /\ \A n \in S : bh[n] = bh[B[n]] + Missing(n, NULL) + Blk(C[n])
      /\ \A n \in S : C[n] = "RBRED" => C[A[n]] = "RBBLK" /\ C[B[n]] = "RBBLK"
  <2>1. \A n \in S : A[n] # NULL /\ B[n] # NULL /\ n # NULL
    BY <1>1
  <2> QED
    BY <2>1 DEF IdleState, Heights, RedRule
<1>3. /\ c \in S2 \cup {RBNIL} /\ c # r
      /\ \A n \in S2 : A[n] = y \/ B[n] = y => n = p
  <2>1. c # y
    <3>1. c \in S => P[c] = y
      BY <1>1
    <3>2. P[y] # y
      BY <1>1
    <3> QED
      BY <1>1, <3>1, <3>2
  <2> QED
    BY <1>1, <2>1
<1>4. /\ \A n \in S2 : n # p => A2[n] = A[n] /\ B2[n] = B[n]
      /\ r2 = IF p = NULL THEN c ELSE r
      /\ C2[RBNIL] = "RBBLK" /\ \A n \in S2 : C2[n] = C[n]
  BY <1>1, <1>2, <1>0 DEF Removed
<1>5. \A n \in S2 : A[n] # y /\ B[n] # y => C2[A[n]] = C[A[n]] /\ C2[B[n]] = C[B[n]]
  BY <1>1, <1>0
<1>6. \A n \in S2 : n # p => /\ bh[n] = bh[A2[n]] + Missing(n, NULL) + Blk(C2[n])
                             /\ bh[n] = bh[B2[n]] + Missing(n, NULL) + Blk(C2[n])
                             /\ C2[n] = "RBRED" => C2[A2[n]] = "RBBLK" /\ C2[B2[n]] = "RBBLK"
  BY <1>2, <1>3, <1>4, <1>5
<1>7. Missing(y, NULL) = 0 /\ bh[y] = bh[c] + Blk(C[y]) /\ bh[c] \in Nat /\ bh[y] \in Nat
  <2>1. Missing(y, NULL) = 0
    BY <1>1 DEF Missing
  <2>2. bh[y] = bh[c] + Missing(y, NULL) + Blk(C[y]) /\ bh[c] \in Nat /\ Blk(C[y]) \in Nat /\ bh[y] \in Nat
    BY <1>1, <1>2, <1>3 DEF Blk
  <2> QED
    BY <2>1, <2>2
<1>8. CASE y = r
  <2>1. p = NULL /\ r2 = c /\ C[y] = "RBBLK" /\ \A n \in S2 : n # p
    BY <1>1, <1>2, <1>4, <1>8
  <2>2. Heights(A2, B2, C2, S2, bh, NULL, NULL)
    BY <1>2, <1>4, <1>6, <2>1 DEF Heights
  <2>3. RedRule(A2, B2, C2, S2, c, c)
    BY <1>6, <2>1 DEF RedRule
  <2> QED
    BY <1>3, <1>0, <2>1, <2>2, <2>3 DEF FixState
<1>9. CASE y # r
  <2>1. /\ p \in S2 /\ p \in S /\ p # NULL /\ r2 = r /\ c # r2 /\ C2[r2] = "RBBLK" /\ C2[p] = C[p]
        /\ Missing(p, NULL) = 0 /\ Missing(p, p) = 1
        /\ \A n \in S2 : n # p => Missing(n, p) = 0 /\ Missing(n, NULL) = 0
    BY <1>1, <1>2, <1>3, <1>4, <1>9, <1>0 DEF Missing
  <2>2. /\ A2[p] = (IF A[p] = y THEN c ELSE A[p])
        /\ B2[p] = (IF B[p] = y THEN c ELSE B[p])
    BY <2>1 DEF Removed
  <2>3. A[p] = y => B[p] # y
    BY <1>1, <2>1
  <2>4. /\ A[p] # y => C2[A[p]] = C[A[p]]
        /\ B[p] # y => C2[B[p]] = C[B[p]]
    BY <1>1, <1>0, <2>1
  <2>5. /\ bh[p] = bh[A[p]] + Blk(C2[p]) /\ bh[p] = bh[B[p]] + Blk(C2[p])
        /\ bh[p] \in Nat /\ Blk(C2[p]) \in Nat /\ bh[A[p]] \in Nat /\ bh[B[p]] \in Nat
    <3>1. /\ bh[p] = bh[A[p]] + Missing(p, NULL) + Blk(C[p]) /\ bh[p] = bh[B[p]] + Missing(p, NULL) + Blk(C[p])
          /\ A[p] \in Ptrs /\ B[p] \in Ptrs /\ p \in Ptrs
      BY <1>1, <1>2, <2>1
    <3>2. Blk(C[p]) \in Nat
      BY DEF Blk
    <3> QED
      BY <1>2, <2>1, <3>1, <3>2
  <2>6. CASE C[y] = "RBBLK"
    <3>1. bh[y] = bh[c] + 1
      BY <1>7, <2>6 DEF Blk
    <3>2. RedRule(A2, B2, C2, S2, c, c)
      <4>1. ASSUME NEW n \in S2, C2[n] = "RBRED"
            PROVE  (A2[n] = c \/ C2[A2[n]] = "RBBLK") /\ (B2[n] = c \/ C2[B2[n]] = "RBBLK")
        <5>1. CASE n # p
          BY <1>6, <4>1, <5>1
        <5>2. CASE n = p
          BY <1>2, <2>1, <2>2, <2>4, <4>1, <5>2
        <5> QED
          BY <5>1, <5>2
      <4> QED
        BY <4>1 DEF RedRule
    <3>3. CASE A[p] = y
      <4>1. /\ bh[p] = bh[A2[p]] + Missing(p, p) + Blk(C2[p])
            /\ bh[p] = bh[B2[p]] + Missing(p, NULL) + Blk(C2[p])
        BY <1>7, <2>1, <2>2, <2>3, <2>5, <3>1, <3>3
      <4>2. ASSUME NEW n \in S2
            PROVE  /\ bh[n] = bh[A2[n]] + Missing(n, p) + Blk(C2[n])
                   /\ bh[n] = bh[B2[n]] + Missing(n, NULL) + Blk(C2[n])
        BY <1>6, <2>1, <4>1
      <4>3. Heights(A2, B2, C2, S2, bh, p, NULL)
        BY <1>2, <1>4, <4>2 DEF Heights
      <4>4. A2[p] = c
        BY <2>2, <3>3
      <4> QED
        BY <1>3, <1>0, <2>1, <2>6, <3>2, <4>3, <4>4 DEF FixState
    <3>4. CASE B[p] = y
      <4>1. /\ bh[p] = bh[A2[p]] + Missing(p, NULL) + Blk(C2[p])
            /\ bh[p] = bh[B2[p]] + Missing(p, p) + Blk(C2[p])
        BY <1>7, <2>1, <2>2, <2>3, <2>5, <3>1, <3>4
      <4>2. ASSUME NEW n \in S2
            PROVE  /\ bh[n] = bh[A2[n]] + Missing(n, NULL) + Blk(C2[n])
                   /\ bh[n] = bh[B2[n]] + Missing(n, p) + Blk(C2[n])
        BY <1>6, <2>1, <4>1
      <4>3. Heights(A2, B2, C2, S2, bh, NULL, p)
        BY <1>2, <1>4, <4>2 DEF Heights
      <4>4. B2[p] = c
        BY <2>2, <3>4
      <4> QED
        BY <1>3, <1>0, <2>1, <2>6, <3>2, <4>3, <4>4 DEF FixState
    <3> QED
      BY <1>1, <1>9, <3>3, <3>4
  <2>7. CASE C[y] # "RBBLK"
    <3>1. C[y] = "RBRED" /\ bh[y] = bh[c] /\ C[p] = "RBBLK"
      <4>1. C[y] \in {"RBRED", "RBBLK"} /\ C[p] \in {"RBRED", "RBBLK"}
        BY <1>1, <1>2, <2>1 DEF Colors
      <4>2. C[p] # "RBRED"
        BY <1>1, <1>2, <1>9, <2>1, <2>7
      <4> QED
        BY <1>7, <2>7, <4>1, <4>2 DEF Blk
    <3>2. ASSUME NEW n \in S2
          PROVE  /\ bh[n] = bh[A2[n]] + Missing(n, NULL) + Blk(C2[n])
                 /\ bh[n] = bh[B2[n]] + Missing(n, NULL) + Blk(C2[n])
      <4>1. CASE n # p
        BY <1>6, <4>1
      <4>2. CASE n = p
        BY <2>1, <2>2, <2>5, <3>1, <4>2
      <4> QED
        BY <4>1, <4>2
    <3>3. Heights(A2, B2, C2, S2, bh, NULL, NULL)
      BY <1>2, <1>4, <3>2 DEF Heights
    <3>4. RedRule(A2, B2, C2, S2, NULL, NULL)
      BY <1>6, <2>1, <3>1 DEF RedRule
    <3> QED
      BY <1>0, <2>1, <2>7, <3>3, <3>4 DEF IdleState
  <2> QED
    BY <2>6, <2>7
<1> QED
  BY <1>8, <1>9

(* What rbtree_delete writes before delete_fixup, with y for the node it takes out and c   *)
(* for y's child *)
UnlinkedAt(mem, t, z, y, c, m2) ==
  /\ m2 \in Heaps /\ m2.color \in Colors /\ m2.parent[y] = NULL
  /\ \A n \in Ptrs \ {y} : m2.color[n] = mem.color[n]
  /\ \A n \in Nodes \ {y} : \A q \in Sides :
       m2[q][n] = IF n = mem.parent[y] /\ mem[q][n] = y THEN c ELSE mem[q][n]
  /\ \A n \in Ptrs \ {y} : m2.parent[n] = IF n = c THEN mem.parent[y] ELSE mem.parent[n]
  /\ m2.root[t] = IF mem.parent[y] = NULL THEN c ELSE mem.root[t]
  /\ \A n \in Nodes \ {y} : m2.pay[n] = IF n = z THEN mem.pay[y] ELSE mem.pay[n]

(* What rbtree_delete writes, from its code. *)
LEMMA UnlinkFacts ==
  ASSUME NEW mem \in Heaps, NEW t \in Trees, NEW z \in Nodes, NEW y \in Nodes, y = Successor(mem, z),
         NEW c \in Ptrs, c = (IF mem.left[y] # RBNIL THEN mem.left[y] ELSE mem.right[y]), c # y,
         mem.parent[y] # y,
         mem.parent[y] # NULL => (mem.left[mem.parent[y]] = y <=> mem.right[mem.parent[y]] # y),
         NEW u, u = Unlink(mem, t, z), NEW m2, m2 = make_timer(u.h, u.y, Pay(0))
  PROVE  u.y = y /\ u.x = c /\ u.fix = (mem.color[y] = "RBBLK") /\ UnlinkedAt(mem, t, z, y, c, m2)
<1> DEFINE p == mem.parent[y]
           k1 == InheritParent(mem, c, y)
           k2 == Replace(k1, t, k1.parent[y], y, c, "left")
           k3 == MovePayload(k2, z, y)
<1>1. u = [h |-> k3, x |-> c, y |-> y, fix |-> k2.color[y] = "RBBLK"]
  BY DEF Unlink
<1>2. /\ p \in Nodes \cup {NULL} /\ y \in Ptrs /\ z \in Ptrs /\ "left" \in Sides
      /\ Other("left") = "right" /\ Pay(0) \in [trigger : Nat]
  BY DEF Heaps, Ptrs, Sides, Other, Pay
<1>3. /\ k1 \in Heaps /\ k1.color = mem.color /\ k1.left = mem.left /\ k1.right = mem.right
      /\ k1.pay = mem.pay /\ k1.root = mem.root /\ k1.parent = [mem.parent EXCEPT ![c] = p]
      /\ k1.parent[y] = p
  BY <1>2 DEF Heaps, InheritParent
<1> HIDE DEF k1
<1>4. /\ k2 \in Heaps /\ k2.color = mem.color /\ k2.pay = mem.pay /\ k2.parent = k1.parent
      /\ k2.root[t] = (IF p = NULL THEN c ELSE mem.root[t])
      /\ k2.left = (IF p # NULL /\ mem.left[p] = y THEN [mem.left EXCEPT ![p] = c] ELSE mem.left)
      /\ k2.right = (IF p # NULL /\ mem.left[p] # y THEN [mem.right EXCEPT ![p] = c] ELSE mem.right)
  <2>1. /\ k2 \in Heaps /\ k2.color = k1.color /\ k2.pay = k1.pay /\ k2.parent = k1.parent
        /\ k2.root[t] = (IF p = NULL THEN c ELSE k1.root[t])
        /\ k2["left"] = (IF p # NULL /\ k1["left"][p] = y THEN [k1["left"] EXCEPT ![p] = c] ELSE k1["left"])
        /\ k2["right"] = (IF p # NULL /\ k1["left"][p] # y THEN [k1["right"] EXCEPT ![p] = c] ELSE k1["right"])
    <3>1. k2 = Replace(k1, t, p, y, c, "left")
      BY <1>3
    <3> HIDE DEF k2, p
    <3> QED
      BY <1>2, <1>3, <3>1, ReplaceFacts
  <2> QED
    BY <1>3, <2>1
<1> HIDE DEF k2
<1>5. /\ k3 \in Heaps /\ k3.color = k2.color /\ k3.left = k2.left /\ k3.right = k2.right
      /\ k3.pay = [k2.pay EXCEPT ![z] = k2.pay[y]] /\ k3.root = k2.root /\ k3.parent = k2.parent
  BY <1>4 DEF Heaps, MovePayload
<1> HIDE DEF k3
<1>6. m2 = make_timer(k3, y, Pay(0))
  BY <1>1
<1>7. /\ m2 \in Heaps /\ m2.root = k3.root /\ m2.color = [k3.color EXCEPT ![y] = "RBBLK"]
      /\ m2.left = [k3.left EXCEPT ![y] = NULL] /\ m2.right = [k3.right EXCEPT ![y] = NULL]
      /\ m2.parent = [k3.parent EXCEPT ![y] = NULL] /\ m2.pay = [k3.pay EXCEPT ![y] = Pay(0)]
  <2>1. k3 \in Heaps
    BY <1>5
  <2> QED
    BY ONLY <1>2, <1>6, <2>1 DEF Heaps, make_timer
<1>8. /\ m2.color \in Colors /\ m2.parent[y] = NULL
      /\ \A n \in Ptrs \ {y} : m2.color[n] = mem.color[n]
      /\ \A n \in Ptrs \ {y} : m2.parent[n] = IF n = c THEN p ELSE mem.parent[n]
      /\ m2.root[t] = IF p = NULL THEN c ELSE mem.root[t]
  <2>1. m2.color = [mem.color EXCEPT ![y] = "RBBLK"] /\ mem.color \in Colors /\ y \in Ptrs
    BY <1>2, <1>4, <1>5, <1>7 DEF Heaps, Colors
  <2>2. m2.parent = [[mem.parent EXCEPT ![c] = p] EXCEPT ![y] = NULL] /\ mem.parent \in [Ptrs -> Nodes \cup {NULL}]
    BY <1>3, <1>4, <1>5, <1>7 DEF Heaps
  <2>3. m2.root[t] = IF p = NULL THEN c ELSE mem.root[t]
    BY <1>4, <1>5, <1>7
  <2> QED
    BY <1>2, <2>1, <2>2, <2>3 DEF Colors
<1>9. \A n \in Nodes \ {y} : m2.pay[n] = IF n = z THEN mem.pay[y] ELSE mem.pay[n]
  BY <1>4, <1>5, <1>7 DEF Heaps
<1>10. ASSUME NEW n \in Nodes \ {y}
       PROVE  /\ m2.left[n] = (IF n = p /\ mem.left[n] = y THEN c ELSE mem.left[n])
              /\ m2.right[n] = (IF n = p /\ mem.right[n] = y THEN c ELSE mem.right[n])
  <2>1. n \in Ptrs /\ n # NULL
    BY RBTreeAssumption DEF Ptrs
  <2>2. m2.left[n] = k2.left[n] /\ m2.right[n] = k2.right[n]
    BY <1>5, <1>7, <2>1 DEF Heaps
  <2>3. /\ k2.left[n] = (IF n = p /\ mem.left[n] = y THEN c ELSE mem.left[n])
        /\ k2.right[n] = (IF n = p /\ mem.left[n] # y THEN c ELSE mem.right[n])
    BY <1>4, <2>1 DEF Heaps
  <2> QED
    BY <2>1, <2>2, <2>3
<1>11. \A n \in Nodes \ {y} : \A q \in Sides :
         m2[q][n] = IF n = p /\ mem[q][n] = y THEN c ELSE mem[q][n]
  BY <1>10 DEF Sides
<1>12. UnlinkedAt(mem, t, z, y, c, m2)
  BY <1>7, <1>8, <1>9, <1>11 DEF UnlinkedAt
<1>13. u.fix = (mem.color[y] = "RBBLK")
  <2>1. u.fix = (k2.color[y] = "RBBLK")
    BY ONLY <1>1
  <2> QED
    BY <1>4, <2>1
<1> QED
  BY <1>1, <1>12, <1>13

(* What is left of the tree t once y, which has no child on side s, is out: the nodes S2   *)
(* in order, and a tree as delete_fixup expects it or, after a red node, a red-black tree. *)
AfterCut(mem, m2, t, S2, pos, top, bh, y, c) ==
  /\ \E pos2 : Tree(m2, t, S2, pos2, top) /\ \A n \in S2 : pos2[n] = pos[n]
  /\ IF mem.color[y] = "RBBLK" THEN FixAt(m2, "left", t, S2, bh, c) ELSE IdleAt(m2, t, S2, bh)

(* Taking y out of a red-black tree in memory. *)
LEMMA UnlinkedTree ==
  ASSUME NEW mem \in Heaps, NEW t \in Trees, NEW S, NEW pos, NEW top, Tree(mem, t, S, pos, top),
         NEW bh, IdleAt(mem, t, S, bh), NEW z \in S, NEW y \in S, NEW s \in Sides, mem[s][y] = RBNIL,
         NEW c, c = mem[Other(s)][y], NEW m2, UnlinkedAt(mem, t, z, y, c, m2), NEW S2, S2 = S \ {y}
  PROVE  AfterCut(mem, m2, t, S2, pos, top, bh, y, c)
<1> DEFINE o == Other(s)
           A == mem[s]
           B == mem[o]
           P == mem.parent
           r == mem.root[t]
<1>1. s \in Sides /\ o \in Sides /\ Other(o) = s /\ "left" \in Sides
  BY OtherSide DEF Sides
<1>2. S \subseteq Nodes /\ pos \in [S -> Int]
  BY DEF Tree, Shape
<1>3. Removed(A, B, P, r, y, S2, m2[s], m2[o], m2.parent, m2.root[t])
  <2>1. \A n \in S2 : n \in Nodes \ {y} /\ n \in Ptrs \ {y}
    BY <1>2 DEF Ptrs
  <2> QED
    BY <1>1, <2>1 DEF Removed, UnlinkedAt
<1>4. PICK p1, lo, hi : Shape(A, B, P, r, S, p1, lo, hi, top) /\ p1 = IF s = "left" THEN pos ELSE Neg(pos)
  BY TreeSides
<1>5. A[y] = RBNIL /\ c = B[y]
  OBVIOUS
<1>6. Cut(m2[s], m2[o], m2.parent, m2.root[t], S2, p1, top)
  <2> HIDE DEF A, B, P, r, o
  <2> QED
    BY <1>3, <1>4, <1>5, RemoveShape
<1>7. PICK p2, lo2, hi2 : /\ Shape(m2[s], m2[o], m2.parent, m2.root[t], S2, p2, lo2, hi2, top)
                          /\ \A n \in S2 : p2[n] = p1[n]
  BY <1>6 DEF Cut
<1> DEFINE pos2 == IF s = "left" THEN p2 ELSE Neg(p2)
<1>8. p2 \in [S2 -> Int] /\ pos2 \in [S2 -> Int]
  <2>1. p2 \in [S2 -> Int]
    BY <1>7 DEF Shape
  <2> QED
    BY <2>1, NegNeg
<1>9. Tree(m2, t, S2, pos2, top)
  <2>1. p2 = IF s = "left" THEN pos2 ELSE Neg(pos2)
    BY <1>8, NegNeg
  <2> HIDE DEF pos2
  <2> QED
    BY <1>7, <1>8, <2>1, SidesTree
<1>10. \A n \in S2 : pos2[n] = pos[n]
  <2>1. CASE s = "left"
    BY <1>4, <1>7, <2>1
  <2>2. CASE s = "right"
    BY <1>2, <1>4, <1>7, <1>8, <2>2 DEF Neg
  <2> QED
    BY <2>1, <2>2 DEF Sides
<1> HIDE DEF pos2
<1>11. IdleState(A, B, P, mem.color, r, S, bh)
  <2>1. IdleState(mem.left, mem.right, P, mem.color, r, S, bh)
    BY DEF IdleAt
  <2>2. CASE s = "left"
    BY <2>1, <2>2 DEF Other
  <2>3. CASE s = "right"
    <3>1. IdleState(mem.right, mem.left, P, mem.color, r, S, bh)
      BY <2>1 DEF IdleState, Links, Heights, RedRule
    <3> QED
      BY <2>3, <3>1 DEF Other
  <2> QED
    BY <2>2, <2>3 DEF Sides
<1>12. Links(m2[s], m2[o], m2.parent, m2.root[t], S2)
  BY <1>9, TreeLinks
<1>13. SameColors(mem.color, m2.color, y) /\ m2.parent[c] = P[y]
  <2>1. c \in Ptrs /\ c # y
    <3>1. Links(A, B, P, r, S)
      BY <1>11 DEF IdleState
    <3>2. c \in S \cup {RBNIL} /\ c # y
      BY <3>1, <1>5, RBTreeAssumption DEF Links
    <3> QED
      BY <1>2, <3>2 DEF Ptrs
  <2> QED
    BY <2>1 DEF UnlinkedAt, SameColors
<1>14. IF mem.color[y] = "RBBLK" THEN FixState(m2[s], m2[o], m2.parent, m2.color, m2.root[t], S2, bh, c)
       ELSE IdleState(m2[s], m2[o], m2.parent, m2.color, m2.root[t], S2, bh)
  <2> HIDE DEF A, B, P, r, o
  <2> QED
    BY <1>3, <1>5, <1>11, <1>12, <1>13, CutState
<1>15. CASE mem.color[y] = "RBBLK"
  <2>1. FixAt(m2, s, t, S2, bh, c)
    BY <1>14, <1>15 DEF FixAt
  <2> QED
    BY <1>1, <1>9, <1>10, <1>15, <2>1, FixEitherSide DEF AfterCut
<1>16. CASE mem.color[y] # "RBBLK"
  <2>1. IdleState(m2[s], m2[o], m2.parent, m2.color, m2.root[t], S2, bh)
    BY <1>14, <1>16
  <2>2. CASE s = "left"
    BY <1>9, <1>10, <1>16, <2>1, <2>2 DEF AfterCut, IdleAt, Other
  <2>3. CASE s = "right"
    <3>1. IdleState(m2.left, m2.right, m2.parent, m2.color, m2.root[t], S2, bh)
      BY <2>1, <2>3 DEF IdleState, Links, Heights, RedRule, Other
    <3> QED
      BY <1>9, <1>10, <1>16, <3>1 DEF AfterCut, IdleAt
  <2> QED
    BY <2>2, <2>3 DEF Sides
<1> QED
  BY <1>15, <1>16

(* Deleting z from the tree t over S: y is the node that leaves it, c its child. *)
Deleted(mem, m2, t, S, z, y, c, fix, bh) ==
  /\ m2 \in Heaps /\ y \in S /\ Ordered(m2, t, S \ {y}) /\ fix \in BOOLEAN /\ c \in Ptrs
  /\ IF fix THEN FixAt(m2, "left", t, S \ {y}, bh, c) ELSE IdleAt(m2, t, S \ {y}, bh)
  /\ \A n \in S \ {y} : m2.pay[n] = IF n = z THEN mem.pay[y] ELSE mem.pay[n]
  /\ m2.parent[y] = NULL /\ \A n \in Nodes \ S : m2.parent[n] = mem.parent[n]

(* rbtree_delete up to the call of delete_fixup: one node leaves the tree, the order is    *)
(* kept also where the payload moves, and the tree is as delete_fixup expects it.          *)
LEMMA UnlinkStep ==
  ASSUME NEW mem \in Heaps, NEW t \in Trees, NEW S, NEW pos, NEW top, Tree(mem, t, S, pos, top),
         Sorted(mem, S, pos), NEW bh, IdleAt(mem, t, S, bh), NEW z \in S,
         NEW u, u = Unlink(mem, t, z), NEW m2, m2 = make_timer(u.h, u.y, Pay(0))
  PROVE  Deleted(mem, m2, t, S, z, u.y, u.x, u.fix, bh)
<1> DEFINE A == mem.left
           B == mem.right
           P == mem.parent
           y == Successor(mem, z)
           c == IF A[y] # RBNIL THEN A[y] ELSE B[y]
           S2 == S \ {y}
<1>1. /\ y \in S /\ (A[y] = RBNIL \/ B[y] = RBNIL)
      /\ y # z => /\ pos[z] < pos[y]
                  /\ \A q \in S : pos[z] < pos[q] => pos[y] <= pos[q]
  BY SuccessorFacts
<1>2. Links(A, B, P, mem.root[t], S)
  BY DEF IdleAt, IdleState
<1> HIDE DEF y
<1>3. /\ y \in Nodes /\ z \in Nodes /\ c \in Ptrs /\ c \in S \cup {RBNIL} /\ c # y /\ P[y] # y
      /\ P[y] # NULL => (A[P[y]] = y <=> B[P[y]] # y)
      /\ S \subseteq Nodes
  <2>1. /\ S \subseteq Nodes /\ RBNIL \notin S
        /\ A[y] \in S \cup {RBNIL} /\ B[y] \in S \cup {RBNIL}
        /\ A[y] \in S => P[A[y]] = y
        /\ B[y] \in S => P[B[y]] = y
        /\ P[y] # y
        /\ P[y] # NULL => P[y] \in S /\ (A[P[y]] = y \/ B[P[y]] = y)
        /\ \A n \in S : A[n] = B[n] => A[n] = RBNIL
    BY <1>1, <1>2, RBTreeAssumption DEF Links
  <2>2. P[y] # NULL => (A[P[y]] = y <=> B[P[y]] # y)
    BY <1>1, <2>1
  <2> QED
    BY <1>1, <2>1, <2>2 DEF Ptrs
<1>4. u.y = y /\ u.x = c /\ u.fix = (mem.color[y] = "RBBLK") /\ UnlinkedAt(mem, t, z, y, c, m2)
  <2>1. y = Successor(mem, z)
    BY DEF y
  <2>2. c = IF mem.left[y] # RBNIL THEN mem.left[y] ELSE mem.right[y]
    OBVIOUS
  <2>3. mem.parent[y] # NULL => (mem.left[mem.parent[y]] = y <=> mem.right[mem.parent[y]] # y)
    BY <1>3
  <2> HIDE DEF c
  <2> QED
    BY <1>3, <2>1, <2>2, <2>3, UnlinkFacts
<1>5. PICK s \in Sides : mem[s][y] = RBNIL /\ c = mem[Other(s)][y]
  <2>1. CASE A[y] = RBNIL
    <3>1. "left" \in Sides /\ mem["left"][y] = RBNIL /\ c = mem[Other("left")][y]
      BY <2>1 DEF Sides, Other
    <3> QED
      BY <3>1
  <2>2. CASE A[y] # RBNIL
    <3>1. "right" \in Sides /\ mem["right"][y] = RBNIL /\ c = mem[Other("right")][y]
      BY <1>1, <2>2 DEF Sides, Other
    <3> QED
      BY <3>1
  <2> QED
    BY <2>1, <2>2
<1> HIDE DEF c
<1>6. /\ \E pos2 : Tree(m2, t, S2, pos2, top) /\ \A n \in S2 : pos2[n] = pos[n]
      /\ IF mem.color[y] = "RBBLK" THEN FixAt(m2, "left", t, S2, bh, c) ELSE IdleAt(m2, t, S2, bh)
  <2>1. s \in Sides /\ S2 = S \ {y}
    BY <1>5
  <2>2. y \in S /\ UnlinkedAt(mem, t, z, y, c, m2)
    BY <1>1, <1>4
  <2>3. /\ mem \in Heaps /\ t \in Trees /\ Tree(mem, t, S, pos, top) /\ IdleAt(mem, t, S, bh) /\ z \in S
    OBVIOUS
  <2>4. AfterCut(mem, m2, t, S2, pos, top, bh, y, c)
    <3> HIDE DEF S2
    <3> QED
      BY ONLY <1>5, <2>1, <2>2, <2>3, UnlinkedTree
  <2> QED
    BY <2>4 DEF AfterCut
<1>7. /\ m2 \in Heaps /\ m2.parent[y] = NULL
      /\ \A n \in S2 : m2.pay[n] = IF n = z THEN mem.pay[y] ELSE mem.pay[n]
      /\ \A n \in Nodes \ S : m2.parent[n] = mem.parent[n]
  <2>1. /\ \A n \in S2 : n \in Nodes \ {y}
        /\ \A n \in Nodes \ S : n \in Ptrs \ {y} /\ n # c
    BY <1>1, <1>3, RBTreeAssumption DEF Ptrs
  <2> QED
    BY <1>4, <2>1 DEF UnlinkedAt
<1>8. PICK pos2 : Tree(m2, t, S2, pos2, top) /\ \A n \in S2 : pos2[n] = pos[n]
  BY <1>6
<1>9. /\ \A n \in S : pos[n] \in Int /\ mem.pay[n].trigger \in Nat
      /\ \A m, n \in S : pos[m] = pos[n] => m = n
      /\ \A m, n \in S : pos[m] < pos[n] => mem.pay[m].trigger <= mem.pay[n].trigger
  BY <1>3 DEF Tree, Shape, Sorted, Heaps
<1>10. Sorted(m2, S2, pos2)
  <2>1. ASSUME NEW m \in S2, NEW n \in S2, pos[m] < pos[n]
        PROVE  m2.pay[m].trigger <= m2.pay[n].trigger
    <3>1. m \in S /\ n \in S /\ m # y /\ n # y
      OBVIOUS
    <3>2. CASE m # z /\ n # z
      BY <1>7, <1>9, <2>1, <3>1, <3>2
    <3>3. CASE m = z
      <4>1. n # z /\ y # z
        BY <1>9, <2>1, <3>1, <3>3
      <4>2. m2.pay[m] = mem.pay[y] /\ m2.pay[n] = mem.pay[n]
        BY <1>7, <3>3, <4>1
      <4>3. pos[y] < pos[n]
        <5>1. pos[y] <= pos[n]
          BY <1>1, <2>1, <3>1, <3>3, <4>1
        <5> QED
          BY <1>1, <1>9, <3>1, <5>1
      <4> QED
        BY <1>1, <1>9, <3>1, <4>2, <4>3
    <3>4. CASE n = z
      <4>1. m # z /\ y # z /\ pos[z] < pos[y]
        BY <1>1, <1>9, <2>1, <3>1, <3>4
      <4>2. m2.pay[n] = mem.pay[y] /\ m2.pay[m] = mem.pay[m]
        BY <1>7, <3>4, <4>1
      <4>3. pos[m] < pos[y]
        BY <1>1, <1>9, <2>1, <3>1, <3>4, <4>1
      <4> QED
        BY <1>1, <1>9, <3>1, <4>2, <4>3
    <3> QED
      BY <3>2, <3>3, <3>4
  <2> QED
    BY <1>8, <2>1 DEF Sorted
<1>11. Ordered(m2, t, S2)
  BY <1>8, <1>10 DEF Ordered
<1>12. u.fix \in BOOLEAN /\ c \in Ptrs
  BY <1>3, <1>4
<1>13. IF u.fix THEN FixAt(m2, "left", t, S2, bh, c) ELSE IdleAt(m2, t, S2, bh)
  BY <1>4, <1>6
<1> QED
  BY <1>1, <1>4, <1>7, <1>11, <1>12, <1>13 DEF Deleted

----------------------------------------------------------------------------
(* How often the key k is in the tree *)
Holding(mem, S, k) == {n \in S : mem.pay[n].trigger = k}

(* An insert adds its key once and leaves the others. *)
LEMMA HoldingInserted ==
  ASSUME NEW mem \in Heaps, NEW S \in SUBSET Nodes, NEW v \in Nodes, v \notin S, NEW k \in Nat,
         NEW m2, m2.pay = [mem.pay EXCEPT ![v] = Pay(k)], NEW j
  PROVE  Cardinality(Holding(m2, S \cup {v}, j)) = Cardinality(Holding(mem, S, j)) + IF j = k THEN 1 ELSE 0
<1>1. m2.pay[v].trigger = k /\ \A n \in S : m2.pay[n] = mem.pay[n]
  BY DEF Heaps, Pay
<1>2. IsFiniteSet(Holding(mem, S, j)) /\ Cardinality(Holding(mem, S, j)) \in Nat
  <2>1. Holding(mem, S, j) \in SUBSET Nodes
    BY DEF Holding
  <2> QED
    BY <2>1, RBTreeAssumption, FS_Subset, FS_CardinalityType
<1>3. CASE j = k
  <2>1. Holding(m2, S \cup {v}, j) = Holding(mem, S, j) \cup {v} /\ v \notin Holding(mem, S, j)
    BY <1>1, <1>3 DEF Holding
  <2> QED
    BY <1>2, <1>3, <2>1, FS_AddElement
<1>4. CASE j # k
  <2>1. Holding(m2, S \cup {v}, j) = Holding(mem, S, j)
    BY <1>1, <1>4 DEF Holding
  <2> QED
    BY <1>2, <1>4, <2>1
<1> QED
  BY <1>3, <1>4

(* A delete takes the key of the deleted node away once, though another node may leave the *)
(* tree: the payload of that node moves to the deleted one.                                *)
LEMMA HoldingDeleted ==
  ASSUME NEW mem, NEW S \in SUBSET Nodes, NEW z \in S, NEW y \in S, NEW m2,
         \A n \in S \ {y} : m2.pay[n] = IF n = z THEN mem.pay[y] ELSE mem.pay[n], NEW j
  PROVE  Cardinality(Holding(m2, S \ {y}, j))
           = Cardinality(Holding(mem, S, j)) - IF j = mem.pay[z].trigger THEN 1 ELSE 0
<1> DEFINE H == Holding(mem, S, j)
           H2 == Holding(m2, S \ {y}, j)
<1>1. IsFiniteSet(H) /\ Cardinality(H) \in Nat
  <2>1. H \in SUBSET Nodes
    BY DEF Holding
  <2> QED
    BY <2>1, RBTreeAssumption, FS_Subset, FS_CardinalityType
<1> SUFFICES Cardinality(H2) = Cardinality(H) - IF j = mem.pay[z].trigger THEN 1 ELSE 0
  OBVIOUS
<1> HIDE DEF H, H2
<1>2. CASE mem.pay[z].trigger = j
  <2>1. CASE mem.pay[y].trigger = j
    <3>1. H2 = H \ {y} /\ y \in H
      BY <1>2, <2>1 DEF H, H2, Holding
    <3> QED
      BY <1>1, <1>2, <3>1, FS_RemoveElement
  <2>2. CASE mem.pay[y].trigger # j
    <3>1. H2 = H \ {z} /\ z \in H
      BY <1>2, <2>2 DEF H, H2, Holding
    <3> QED
      BY <1>1, <1>2, <3>1, FS_RemoveElement
  <2> QED
    BY <2>1, <2>2
<1>3. CASE mem.pay[z].trigger # j
  <2>1. CASE mem.pay[y].trigger = j
    <3>1. H2 = (H \ {y}) \cup {z} /\ y \in H /\ z \notin H \ {y}
      BY <1>3, <2>1 DEF H, H2, Holding
    <3>2. IsFiniteSet(H \ {y}) /\ Cardinality(H \ {y}) = Cardinality(H) - 1
      BY <1>1, <3>1, FS_RemoveElement
    <3>3. Cardinality((H \ {y}) \cup {z}) = Cardinality(H \ {y}) + 1
      BY <3>1, <3>2, FS_AddElement
    <3> QED
      BY <1>1, <1>3, <3>1, <3>2, <3>3
  <2>2. CASE mem.pay[y].trigger # j
    <3>1. H2 = H
      BY <1>3, <2>2 DEF H, H2, Holding
    <3> QED
      BY <1>1, <1>3, <3>1
  <2> QED
    BY <2>1, <2>2
<1> QED
  BY <1>2, <1>3

----------------------------------------------------------------------------
(* The powers of two. *)
LEMMA PowFacts ==
  Pow2 \in [Nat -> Nat] /\ Pow2[0] = 1 /\ \A k \in Nat : Pow2[k + 1] = 2 * Pow2[k]
<1> DEFINE step == [a \in Nat \X Nat |-> 2 * a[2]]
           Good(v) == v = [k \in Nat |-> IF k = 0 THEN 1 ELSE 2 * v[k - 1]]
<1>1. step \in [Nat \X Nat -> Nat] /\ 1 \in Nat
  OBVIOUS
<1>2. PICK f : Iterates(f, Nat, 1, step)
  <2> HIDE DEF step
  <2> QED
    BY <1>1, Recursion, Zenon
<1>3. ASSUME NEW n \in Nat \ {0} PROVE f[n] = 2 * f[n - 1]
  <2>1. n \in Nat /\ n - 1 \in Nat
    OBVIOUS
  <2>2. f[n - 1] \in Nat /\ f[n] = step[<<n, f[n - 1]>>]
    <3> HIDE DEF step
    <3> QED
      BY <1>2, <2>1 DEF Iterates
  <2> QED
    BY <2>1, <2>2
<1>4. Good(f)
  BY <1>2, <1>3 DEF Iterates
<1>5. Pow2 = CHOOSE v : Good(v)
  BY DEF Pow2
<1>6. Good(Pow2)
  BY <1>4, <1>5, Zenon
<1>7. Pow2[0] = 1 /\ \A k \in Nat : Pow2[k + 1] = 2 * Pow2[k]
  <2>1. ASSUME NEW k \in Nat PROVE Pow2[k + 1] = 2 * Pow2[k]
    <3>1. k + 1 \in Nat /\ k + 1 # 0 /\ (k + 1) - 1 = k
      OBVIOUS
    <3> QED
      BY <1>6, <3>1
  <2> QED
    BY <1>6, <2>1
<1>8. \A k \in Nat : Pow2[k] \in Nat
  <2>1. \A k \in Nat : Pow2[k] \in Nat => Pow2[k + 1] \in Nat
    BY <1>7
  <2>2. Pow2[0] \in Nat
    BY <1>7
  <2> QED
    BY <2>1, <2>2, Everywhere, Zenon
<1>9. Pow2 = [k \in Nat |-> Pow2[k]]
  BY <1>6
<1> QED
  BY <1>7, <1>8, <1>9

(* They grow. *)
LEMMA PowGrows ==
  ASSUME NEW i \in Nat, NEW j \in Nat, i <= j PROVE Pow2[i] <= Pow2[j]
<1> DEFINE T == {k \in Nat : i <= k /\ ~(Pow2[i] <= Pow2[k])}
<1> SUFFICES ASSUME T # {} PROVE FALSE
  OBVIOUS
<1>1. PICK k \in T : \A m \in T : k <= m
  <2>1. T \in SUBSET Nat
    OBVIOUS
  <2> HIDE DEF T
  <2> QED
    BY <2>1, LeastNumber
<1>2. Pow2[i] \in Nat /\ Pow2[k] \in Nat
  BY PowFacts
<1>3. k # i
  BY <1>2
<1>4. k - 1 \in Nat /\ (k - 1) + 1 = k /\ i <= k - 1 /\ k - 1 \notin T
  <2>1. k \in Nat /\ i <= k
    OBVIOUS
  <2>2. k - 1 \in Nat /\ (k - 1) + 1 = k /\ i <= k - 1 /\ ~(k <= k - 1)
    BY <1>3, <2>1
  <2> QED
    BY <1>1, <2>2
<1>5. Pow2[i] <= Pow2[k - 1] /\ Pow2[k - 1] \in Nat /\ Pow2[k] = 2 * Pow2[k - 1]
  BY <1>4, PowFacts
<1> QED
  BY <1>2, <1>5

(* The nodes below n, n included. *)
Subtree(S, pos, lo, hi, n) == {m \in S : lo[n] < pos[m] /\ pos[m] < hi[n]}

(* Two subtrees and a node between them *)
LEMMA CountBoth ==
  ASSUME NEW X \in SUBSET Nodes, NEW Y \in SUBSET Nodes, NEW Z \in SUBSET Nodes, NEW n \in Z,
         X \subseteq Z, Y \subseteq Z, n \notin X, n \notin Y, X \cap Y = {}
  PROVE  /\ Cardinality(X) \in Nat /\ Cardinality(Y) \in Nat /\ Cardinality(Z) \in Nat
         /\ Cardinality(X) + Cardinality(Y) + 1 <= Cardinality(Z)
<1>1. IsFiniteSet(X) /\ IsFiniteSet(Y) /\ IsFiniteSet(Z) /\ IsFiniteSet(X \cup Y)
  <2>1. X \cup Y \in SUBSET Nodes
    OBVIOUS
  <2> QED
    BY <2>1, RBTreeAssumption, FS_Subset
<1>2. Cardinality(X) \in Nat /\ Cardinality(Y) \in Nat /\ Cardinality(Z) \in Nat /\ Cardinality(X \cup Y) \in Nat
  BY <1>1, FS_CardinalityType
<1>3. Cardinality(X \cup Y) = Cardinality(X) + Cardinality(Y)
  <2>1. Cardinality(X \cap Y) = 0
    BY FS_EmptySet
  <2>2. Cardinality(X \cup Y) = Cardinality(X) + Cardinality(Y) - Cardinality(X \cap Y)
    BY <1>1, FS_Union
  <2> QED
    BY <1>2, <2>1, <2>2
<1> DEFINE V == X \cup Y
<1>4. Cardinality(V \cup {n}) = Cardinality(V) + 1
  <2>1. n \notin V /\ IsFiniteSet(V)
    BY <1>1
  <2> HIDE DEF V
  <2> QED
    BY <2>1, FS_AddElement
<1>5. Cardinality(V \cup {n}) <= Cardinality(Z)
  <2>1. V \cup {n} \in SUBSET Z
    OBVIOUS
  <2> HIDE DEF V
  <2> QED
    BY <1>1, <2>1, FS_Subset
<1> QED
  BY <1>2, <1>3, <1>4, <1>5

(* A subtree in which no black node is missing has two to the power of its black height    *)
(* nodes, less one.                                                                        *)
LEMMA SubtreeSize ==
  ASSUME NEW A, NEW B, NEW P, NEW r, NEW S, NEW pos, NEW lo, NEW hi, NEW top,
         Shape(A, B, P, r, S, pos, lo, hi, top),
         NEW C, NEW bh, NEW a, NEW b, Heights(A, B, C, S, bh, a, b),
         NEW n \in S, a \notin Subtree(S, pos, lo, hi, n), b \notin Subtree(S, pos, lo, hi, n)
  PROVE  Pow2[bh[n]] <= Cardinality(Subtree(S, pos, lo, hi, n)) + 1
<1> DEFINE Sub(m) == Subtree(S, pos, lo, hi, m)
           Full(m) == a \notin Sub(m) /\ b \notin Sub(m)
           T == {m \in S : Full(m) /\ ~(Pow2[bh[m]] <= Cardinality(Sub(m)) + 1)}
<1> SUFFICES ASSUME T # {} PROVE FALSE
  OBVIOUS
<1>1. PICK m \in T : \A k \in T : hi[m] - lo[m] <= hi[k] - lo[k]
  <2>1. T \in SUBSET S
    OBVIOUS
  <2> HIDE DEF T
  <2> QED
    BY <2>1, Shortest
<1>2. m \in S /\ Full(m) /\ ~(Pow2[bh[m]] <= Cardinality(Sub(m)) + 1)
  OBVIOUS
<1>3. /\ S \in SUBSET Nodes /\ S \subseteq Ptrs /\ RBNIL \in Ptrs /\ RBNIL \notin S
      /\ \A k \in S : pos[k] \in Int /\ lo[k] \in Int /\ hi[k] \in Int /\ lo[k] < pos[k] /\ pos[k] < hi[k]
      /\ A[m] \in S \cup {RBNIL} /\ B[m] \in S \cup {RBNIL}
      /\ A[m] \in S => lo[A[m]] = lo[m] /\ hi[A[m]] = pos[m]
      /\ B[m] \in S => lo[B[m]] = pos[m] /\ hi[B[m]] = hi[m]
  BY <1>2, RBTreeAssumption DEF Shape, Ptrs
<1>4. m \in Sub(m) /\ Sub(m) \in SUBSET Nodes /\ m # a /\ m # b
  BY <1>2, <1>3 DEF Subtree
<1> DEFINE X == IF A[m] \in S THEN Sub(A[m]) ELSE {}
           Y == IF B[m] \in S THEN Sub(B[m]) ELSE {}
<1>5. /\ X \in SUBSET Nodes /\ X \subseteq Sub(m) /\ \A k \in X : k \in S /\ pos[k] < pos[m]
      /\ Y \in SUBSET Nodes /\ Y \subseteq Sub(m) /\ \A k \in Y : k \in S /\ pos[m] < pos[k]
  <2>1. ASSUME A[m] \in S, NEW k \in Sub(A[m]) PROVE k \in Sub(m) /\ k \in S /\ pos[k] < pos[m]
    <3>1. k \in S /\ lo[A[m]] < pos[k] /\ pos[k] < hi[A[m]]
      BY <2>1 DEF Subtree
    <3>2. lo[m] < pos[k] /\ pos[k] < hi[m] /\ pos[k] < pos[m]
      BY <1>2, <1>3, <2>1, <3>1
    <3> QED
      BY <3>1, <3>2 DEF Subtree
  <2>2. ASSUME B[m] \in S, NEW k \in Sub(B[m]) PROVE k \in Sub(m) /\ k \in S /\ pos[m] < pos[k]
    <3>1. k \in S /\ lo[B[m]] < pos[k] /\ pos[k] < hi[B[m]]
      BY <2>2 DEF Subtree
    <3>2. lo[m] < pos[k] /\ pos[k] < hi[m] /\ pos[m] < pos[k]
      BY <1>2, <1>3, <2>2, <3>1
    <3> QED
      BY <3>1, <3>2 DEF Subtree
  <2> HIDE DEF Sub
  <2> QED
    BY <1>3, <2>1, <2>2
<1>6. /\ Cardinality(X) \in Nat /\ Cardinality(Y) \in Nat /\ Cardinality(Sub(m)) \in Nat
      /\ Cardinality(X) + Cardinality(Y) + 1 <= Cardinality(Sub(m))
  <2>1. m \notin X /\ m \notin Y /\ X \cap Y = {}
    <3> HIDE DEF X, Y
    <3>1. ASSUME NEW k \in X, k \in Y PROVE FALSE
      <4>1. pos[k] \in Int /\ pos[m] \in Int /\ pos[k] < pos[m] /\ pos[m] < pos[k]
        BY <1>2, <1>3, <1>5, <3>1
      <4> QED
        BY <4>1
    <3>2. ~(pos[m] < pos[m])
      BY <1>2, <1>3
    <3> QED
      BY <1>5, <3>1, <3>2
  <2> HIDE DEF X, Y, Sub
  <2> QED
    BY <1>4, <1>5, <2>1, CountBoth
<1>7. /\ bh[RBNIL] = 0 /\ bh[m] \in Nat /\ bh[A[m]] \in Nat /\ bh[B[m]] \in Nat
      /\ bh[m] = bh[A[m]] + Blk(C[m]) /\ bh[m] = bh[B[m]] + Blk(C[m])
  <2>1. /\ bh \in [Ptrs -> Nat] /\ bh[RBNIL] = 0 /\ Missing(m, a) = 0 /\ Missing(m, b) = 0
        /\ bh[m] = bh[A[m]] + Missing(m, a) + Blk(C[m])
        /\ bh[m] = bh[B[m]] + Missing(m, b) + Blk(C[m])
    BY <1>2, <1>4 DEF Heights, Missing
  <2>2. A[m] \in Ptrs /\ B[m] \in Ptrs /\ m \in Ptrs
    BY <1>2, <1>3
  <2>3. bh[A[m]] \in Nat /\ bh[B[m]] \in Nat /\ bh[m] \in Nat
    BY <2>1, <2>2
  <2> QED
    BY <2>1, <2>3 DEF Blk
<1>8. ASSUME NEW c \in S, c = A[m] \/ c = B[m], Sub(c) \subseteq Sub(m)
      PROVE  Pow2[bh[c]] <= Cardinality(Sub(c)) + 1
  <2>1. hi[c] - lo[c] < hi[m] - lo[m]
    BY <1>2, <1>8, ChildInside
  <2>2. c \notin T
    <3>1. lo[c] \in Int /\ hi[c] \in Int /\ lo[m] \in Int /\ hi[m] \in Int
      BY <1>2, <1>3, <1>8
    <3>2. ~(hi[m] - lo[m] <= hi[c] - lo[c])
      BY <2>1, <3>1
    <3> HIDE DEF T
    <3> QED
      BY <1>1, <3>2
  <2>3. Full(c)
    BY <1>2, <1>8
  <2> HIDE DEF Sub
  <2> QED
    BY <1>8, <2>2, <2>3
<1>9. Pow2[0] = 1 /\ Cardinality({}) = 0
  BY PowFacts, FS_EmptySet
<1>10. Pow2[bh[A[m]]] <= Cardinality(X) + 1
  <2>1. CASE A[m] \in S
    <3>1. X = Sub(A[m]) /\ Sub(A[m]) \subseteq Sub(m)
      BY <1>5, <2>1
    <3> HIDE DEF Sub, X
    <3> QED
      BY <1>8, <2>1, <3>1
  <2>2. CASE A[m] \notin S
    <3>1. X = {} /\ A[m] = RBNIL
      BY <1>3, <2>2
    <3>2. Pow2[bh[A[m]]] = 1 /\ Cardinality(X) = 0
      <4> HIDE DEF X
      <4> QED
        BY <1>7, <1>9, <3>1
    <3> HIDE DEF X
    <3> QED
      BY <3>2
  <2> QED
    BY <2>1, <2>2
<1>11. Pow2[bh[B[m]]] <= Cardinality(Y) + 1
  <2>1. CASE B[m] \in S
    <3>1. Y = Sub(B[m]) /\ Sub(B[m]) \subseteq Sub(m)
      BY <1>5, <2>1
    <3> HIDE DEF Sub, Y
    <3> QED
      BY <1>8, <2>1, <3>1
  <2>2. CASE B[m] \notin S
    <3>1. Y = {} /\ B[m] = RBNIL
      BY <1>3, <2>2
    <3>2. Pow2[bh[B[m]]] = 1 /\ Cardinality(Y) = 0
      <4> HIDE DEF Y
      <4> QED
        BY <1>7, <1>9, <3>1
    <3> HIDE DEF Y
    <3> QED
      BY <3>2
  <2> QED
    BY <2>1, <2>2
<1> HIDE DEF X, Y, Sub
<1>12. bh[A[m]] = bh[B[m]] /\ Pow2[bh[A[m]]] \in Nat /\ Pow2[bh[m]] <= 2 * Pow2[bh[A[m]]]
  <2>1. bh[A[m]] = bh[B[m]] /\ (bh[m] = bh[A[m]] \/ bh[m] = bh[A[m]] + 1)
    BY <1>7 DEF Blk
  <2>2. Pow2[bh[A[m]]] \in Nat /\ Pow2[bh[A[m]] + 1] = 2 * Pow2[bh[A[m]]]
    BY <1>7, PowFacts
  <2> QED
    BY <2>1, <2>2
<1>13. Pow2[bh[m]] <= Cardinality(Sub(m)) + 1
  <2>1. Pow2[bh[m]] \in Nat
    BY <1>7, PowFacts
  <2> QED
    BY <1>6, <1>10, <1>11, <1>12, <2>1
<1> QED
  BY <1>2, <1>13

(* A black height that is right bounds the nodes of the tree from below. *)
LEMMA TreeSize ==
  ASSUME NEW A, NEW B, NEW P, NEW r, NEW S, NEW pos, NEW lo, NEW hi, NEW top,
         Shape(A, B, P, r, S, pos, lo, hi, top),
         NEW C, NEW bh, NEW a, NEW b, Heights(A, B, C, S, bh, a, b),
         NEW n \in S, a \notin Subtree(S, pos, lo, hi, n), b \notin Subtree(S, pos, lo, hi, n)
  PROVE  Pow2[bh[n]] <= Cardinality(S) + 1
<1> DEFINE X == Subtree(S, pos, lo, hi, n)
<1>1. Pow2[bh[n]] <= Cardinality(X) + 1
  BY SubtreeSize
<1>2. X \in SUBSET S /\ S \in SUBSET Nodes
  BY DEF Subtree, Shape
<1> HIDE DEF X
<1>3. IsFiniteSet(S) /\ IsFiniteSet(X)
  BY <1>2, RBTreeAssumption, FS_Subset
<1>4. Cardinality(X) <= Cardinality(S) /\ Cardinality(X) \in Nat /\ Cardinality(S) \in Nat
  BY <1>2, <1>3, FS_Subset, FS_CardinalityType
<1>5. bh[n] \in Nat /\ Pow2[bh[n]] \in Nat
  <2>1. bh[n] \in Nat
    BY <1>2 DEF Heights, Ptrs
  <2> QED
    BY <2>1, PowFacts
<1> QED
  BY <1>1, <1>4, <1>5

(* The black heights at the x of insert_fixup and delete_fixup are numbers. *)
LEMMA HeightAt ==
  ASSUME NEW mem, NEW t, NEW S, NEW bh, NEW v,
         InsertAt(mem, "left", t, S, bh, v) \/ FixAt(mem, "left", t, S, bh, v)
  PROVE  bh[v] \in Nat
BY DEF InsertAt, InsertState, FixAt, FixState, Links, Heights, Ptrs

(* While insert_fixup goes on, the grandparent of x is one black node higher than x. *)
LEMMA InsertClimbs ==
  ASSUME NEW mem, NEW t, NEW S, NEW pos, NEW top, Tree(mem, t, S, pos, top),
         NEW bh, NEW v, InsertAt(mem, "left", t, S, bh, v), InsertFixupNeeded(mem, t, v)
  PROVE  Pow2[bh[v] + 1] <= Cardinality(S) + 1
<1> DEFINE p == mem.parent[v]
           d == mem.parent[p]
           C == mem.color
<1>1. InsertState(mem.left, mem.right, mem.parent, C, mem.root[t], S, bh, v) /\ v # mem.root[t] /\ C[p] = "RBRED"
  BY DEF InsertAt, Other, InsertFixupNeeded
<1>2. /\ p \in S /\ d \in S /\ C[d] = "RBBLK"
      /\ mem.left[d] = p \/ mem.right[d] = p
      /\ mem.left[p] = v \/ mem.right[p] = v
  BY <1>1, Grandparent
<1>3. Heights(mem.left, mem.right, C, S, bh, NULL, NULL) /\ S \subseteq Ptrs /\ v \in S /\ NULL \notin S
  BY <1>1, RBTreeAssumption DEF InsertState, Links, Ptrs
<1>4. /\ bh[d] \in Nat /\ bh[p] \in Nat /\ bh[v] \in Nat
      /\ bh[d] = bh[p] + 0 + Blk(C[d]) /\ bh[p] = bh[v] + 0 + Blk(C[p])
  <2>1. bh[d] \in Nat /\ bh[p] \in Nat /\ bh[v] \in Nat
    <3> HIDE DEF p, d
    <3> QED
      BY <1>2, <1>3 DEF Heights
  <2>2. Missing(d, NULL) = 0 /\ Missing(p, NULL) = 0
    BY <1>2, <1>3 DEF Missing
  <2>3. bh[d] = bh[p] + Missing(d, NULL) + Blk(C[d]) /\ bh[p] = bh[v] + Missing(p, NULL) + Blk(C[p])
    <3> HIDE DEF p, d, C
    <3> QED
      BY <1>2, <1>3 DEF Heights
  <2> QED
    BY <2>1, <2>2, <2>3
<1>5. bh[d] = bh[v] + 1
  <2>1. Blk(C[d]) = 1 /\ Blk(C[p]) = 0
    BY <1>1, <1>2 DEF Blk
  <2> QED
    BY <1>4, <2>1
<1>6. PICK lo, hi : Shape(mem.left, mem.right, mem.parent, mem.root[t], S, pos, lo, hi, top)
  BY DEF Tree
<1>7. NULL \notin Subtree(S, pos, lo, hi, d)
  BY <1>3 DEF Subtree
<1>8. Pow2[bh[d]] <= Cardinality(S) + 1
  <2> HIDE DEF p, d, C
  <2> QED
    BY <1>2, <1>3, <1>6, <1>7, TreeSize
<1> QED
  BY <1>5, <1>8

(* While delete_fixup goes on, the sibling of x is one black node higher than x. *)
LEMMA DeleteClimbs ==
  ASSUME NEW mem, NEW t, NEW S, NEW pos, NEW top, Tree(mem, t, S, pos, top),
         NEW bh, NEW v, FixAt(mem, "left", t, S, bh, v), DeleteFixupNeeded(mem, t, v)
  PROVE  Pow2[bh[v] + 1] <= Cardinality(S) + 1
<1> DEFINE d == mem.parent[v]
           s == IF mem.left[d] = v THEN "left" ELSE "right"
           o == Other(s)
           w == mem[o][d]
<1>1. s \in Sides
  BY DEF Sides
<1>2. DeleteState(mem[s], mem[o], mem.parent, mem.color, mem.root[t], S, bh, d, v)
  <2>1. FixState(mem.left, mem.right, mem.parent, mem.color, mem.root[t], S, bh, v)
    BY DEF FixAt, Other
  <2>2. IF mem.left[d] = v THEN DeleteState(mem.left, mem.right, mem.parent, mem.color, mem.root[t], S, bh, d, v)
        ELSE DeleteState(mem.right, mem.left, mem.parent, mem.color, mem.root[t], S, bh, d, v)
    BY <2>1, FixSide DEF DeleteFixupNeeded
  <2> QED
    BY <2>2 DEF Other
<1> HIDE DEF s
<1>3. w \in S /\ d \in S /\ NULL \notin S /\ bh[w] = bh[v] + 1
  <2>1. w = mem[o][d]
    OBVIOUS
  <2> HIDE DEF o, w, d
  <2> QED
    BY <1>2, <2>1, SiblingFacts
<1>4. PICK p2, lo, hi : Shape(mem[s], mem[o], mem.parent, mem.root[t], S, p2, lo, hi, top)
  BY <1>1, TreeSides
<1>5. d \notin Subtree(S, p2, lo, hi, w) /\ NULL \notin Subtree(S, p2, lo, hi, w)
  <2>1. lo[w] = p2[d] /\ p2[d] \in Int
    <3> HIDE DEF o, d
    <3> QED
      BY <1>3, <1>4 DEF Shape
  <2>2. ~(lo[w] < p2[d])
    BY <2>1
  <2> QED
    BY <1>3, <2>2 DEF Subtree
<1>6. Heights(mem[s], mem[o], mem.color, S, bh, d, NULL)
  BY <1>2 DEF DeleteState
<1>7. Pow2[bh[w]] <= Cardinality(S) + 1
  <2> HIDE DEF o, d, w
  <2> QED
    BY <1>3, <1>4, <1>5, <1>6, TreeSize
<1> QED
  BY <1>3, <1>7

----------------------------------------------------------------------------
(* The inductive invariant of a tree t that is alone: whatever its worker is doing, there  *)
(* is a set S of nodes that are linked in order, hold the keys of the history and, by      *)
(* phase, satisfy the color rules or break them only at x, which the k iterations of the   *)
(* fixup have lifted by k black nodes if there is another to come.                         *)
Phase(mem, at, v, k, t, S) ==
  /\ Pow2[k] <= Cardinality(S) + 1
  /\ at = "idle" => v = NULL /\ \E bh : IdleAt(mem, t, S, bh)
  /\ at = "insert_fixup" =>
       \E bh : InsertAt(mem, "left", t, S, bh, v) /\ (InsertFixupNeeded(mem, t, v) => k <= bh[v])
  /\ at = "delete_fixup" =>
       \E bh : FixAt(mem, "left", t, S, bh, v) /\ (DeleteFixupNeeded(mem, t, v) => k <= bh[v])

(* The nodes S are the tree, hold the keys that the history counts, and nothing else has a *)
(* parent.                                                                                 *)
Holds(mem, count, t, S) ==
  /\ mem \in Heaps /\ S \in SUBSET Nodes /\ Ordered(mem, t, S)
  /\ \A k \in Triggers : Cardinality(Holding(mem, S, k)) = count[k]
  /\ \A n \in S : mem.pay[n].trigger \in Triggers
  /\ \A n \in Nodes \ S : mem.parent[n] = NULL

(* The types of the local and history variables. *)
Locals ==
  /\ pc \in [Trees -> {"idle", "insert_fixup", "delete_fixup"}]
  /\ x \in [Trees -> Ptrs \cup {NULL}] /\ iter \in [Trees -> Nat]
  /\ held \in [Trees -> [Triggers -> Int]]

(* The inductive invariant. *)
TreeInv(t) ==
  Locals /\ \E S : Holds(h, held[t], t, S) /\ Phase(h, pc[t], x[t], iter[t], t, S)

(* A fixup changes the links and colors of the tree and nothing else. *)
LEMMA KeptHolds ==
  ASSUME NEW mem, NEW m2, NEW count, NEW t \in Trees, NEW S, Holds(mem, count, t, S),
         \A pos, top : Tree(mem, t, S, pos, top) => Kept(mem, m2, t, S, pos, top)
  PROVE  Holds(m2, count, t, S)
<1>1. PICK pos, top : Tree(mem, t, S, pos, top) /\ Sorted(mem, S, pos)
  BY DEF Holds, Ordered
<1>2. Kept(mem, m2, t, S, pos, top)
  BY <1>1
<1>3. Ordered(m2, t, S)
  BY <1>1, <1>2 DEF Kept, Ordered, Sorted
<1> QED
  BY <1>2, <1>3 DEF Kept, Holds, Holding

(* A step that ends with At keeps the types. *)
LEMMA AtLocals ==
  ASSUME Locals, NEW t \in Trees, NEW to \in {"idle", "insert_fixup", "delete_fixup"},
         NEW n \in Ptrs \cup {NULL}, At(t, to, n), held' \in [Trees -> [Triggers -> Int]]
  PROVE  /\ Locals' /\ pc'[t] = to /\ x'[t] = n
         /\ iter'[t] = IF to = pc[t] /\ to # "idle" THEN iter[t] + 1 ELSE 0
<1>1. pc' = [pc EXCEPT ![t] = to] /\ x' = [x EXCEPT ![t] = n]
  BY DEF At
<1>2. iter' \in [Trees -> Nat] /\ iter'[t] = IF to = pc[t] /\ to # "idle" THEN iter[t] + 1 ELSE 0
  BY DEF At, Locals
<1> QED
  BY <1>1, <1>2 DEF Locals

(* A call, and its end, begin a phase with no iteration. *)
LEMMA NoIteration ==
  ASSUME NEW S \in SUBSET Nodes PROVE Pow2[0] <= Cardinality(S) + 1
<1>1. Cardinality(S) \in Nat
  BY RBTreeAssumption, FS_Subset, FS_CardinalityType
<1> QED
  BY <1>1, PowFacts

(* It holds of empty trees. *)
LEMMA InitTree ==
  ASSUME NEW t, Trees = {t}, Init PROVE TreeInv(t)
<1>1. h = rbtree_init(Pay(0))
  BY DEF Init
<1>2. /\ h \in Heaps /\ h.root[t] = RBNIL /\ h.color \in Colors /\ h.color[RBNIL] = "RBBLK"
      /\ \A n \in Nodes : h.parent[n] = NULL
  BY <1>1 DEF rbtree_init, Heaps, Colors, Ptrs, Pay
<1>3. Locals /\ pc[t] = "idle" /\ x[t] = NULL /\ iter[t] = 0 /\ \A k \in Triggers : held[t][k] = 0
  BY DEF Init, Locals
<1>4. Holds(h, held[t], t, {})
  <2> DEFINE f == [n \in {} |-> 0]
  <2>1. Shape(h.left, h.right, h.parent, h.root[t], {}, f, f, f, 0)
    BY <1>2 DEF Shape
  <2>2. Tree(h, t, {}, f, 0) /\ Sorted(h, {}, f)
    BY <2>1 DEF Tree, Sorted
  <2>3. Ordered(h, t, {})
    BY <2>2 DEF Ordered
  <2>4. \A k : Holding(h, {}, k) = {}
    BY DEF Holding
  <2>5. Cardinality({}) = 0
    BY FS_EmptySet
  <2> QED
    BY <1>2, <1>3, <2>3, <2>4, <2>5 DEF Holds
<1>5. \E bh : IdleAt(h, t, {}, bh)
  <2> DEFINE bh == [n \in Ptrs |-> 0]
  <2>1. bh \in [Ptrs -> Nat] /\ bh[RBNIL] = 0
    BY DEF Ptrs
  <2> HIDE DEF bh
  <2>2. Links(h.left, h.right, h.parent, h.root[t], {})
    BY <1>2 DEF Links
  <2>3. Heights(h.left, h.right, h.color, {}, bh, NULL, NULL) /\ RedRule(h.left, h.right, h.color, {}, NULL, NULL)
    BY <1>2, <2>1 DEF Heights, RedRule
  <2> QED
    BY <1>2, <2>2, <2>3 DEF IdleAt, IdleState
<1>6. Pow2[0] <= Cardinality({}) + 1
  BY NoIteration
<1> QED
  BY <1>3, <1>4, <1>5, <1>6 DEF TreeInv, Phase

(* An insert keeps it. *)
LEMMA InsertTree ==
  ASSUME NEW t, Trees = {t}, TreeInv(t), NEW n \in Nodes, NEW k \in Triggers, Insert(t, n, k)
  PROVE  TreeInv(t)'
<1>1. PICK S : Holds(h, held[t], t, S) /\ Phase(h, pc[t], x[t], iter[t], t, S)
  BY DEF TreeInv
<1>2. PICK pos, top : Tree(h, t, S, pos, top) /\ Sorted(h, S, pos)
  BY <1>1 DEF Holds, Ordered
<1>3. t \in Trees /\ h \in Heaps /\ S \in SUBSET Nodes /\ k \in Nat /\ Locals
  BY <1>1, TriggersAssumption DEF Holds, TreeInv
<1>4. PICK bh : IdleAt(h, t, S, bh)
  BY <1>1 DEF Phase, Insert
<1>5. n \notin S
  <2>1. Reachable(h, t) = S
    BY <1>2, <1>3, ReachableNodes
  <2> QED
    BY <1>3, <2>1 DEF Insert, Linked
<1>6. h' = Link(make_timer(h, n, Pay(k)), t, n)
  BY DEF Insert
<1>7. Inserted(h, h', t, S \cup {n}, n, k)
  <2>1. CASE h.root[t] # RBNIL
    BY <1>2, <1>3, <1>4, <1>5, <1>6, <2>1, LinkBelow
  <2>2. CASE h.root[t] = RBNIL
    <3>1. S = {}
      BY <1>3, <1>4, <2>2, RBTreeAssumption DEF IdleAt, IdleState, Links
    <3>2. IdleAt(h, t, {}, bh) /\ S \cup {n} = {n}
      BY <1>4, <3>1
    <3>3. Inserted(h, h', t, {n}, n, k)
      BY <1>3, <1>6, <3>2, LinkFirst
    <3> QED
      BY <3>2, <3>3
  <2> QED
    BY <2>1, <2>2
<1>8. /\ held' \in [Trees -> [Triggers -> Int]]
      /\ \A j \in Triggers : held'[t][j] = held[t][j] + IF j = k THEN 1 ELSE 0
  <2>1. held' = [held EXCEPT ![t][k] = held[t][k] + 1]
    BY DEF Insert
  <2> QED
    BY <1>3, <2>1 DEF Locals
<1>9. Locals' /\ pc'[t] = "insert_fixup" /\ x'[t] = n /\ iter'[t] = 0
  <2>1. At(t, "insert_fixup", n) /\ n \in Ptrs \cup {NULL} /\ pc[t] = "idle"
    BY DEF Insert, Ptrs
  <2> QED
    BY <1>3, <1>8, <2>1, AtLocals
<1> DEFINE S2 == S \cup {n}
<1>10. Holds(h', held'[t], t, S2)
  <2>1. h' \in Heaps /\ Ordered(h', t, S2) /\ h'.pay = [h.pay EXCEPT ![n] = Pay(k)]
    BY <1>7 DEF Inserted
  <2>2. ASSUME NEW j \in Triggers PROVE Cardinality(Holding(h', S2, j)) = held'[t][j]
    <3>1. Cardinality(Holding(h', S2, j)) = Cardinality(Holding(h, S, j)) + IF j = k THEN 1 ELSE 0
      BY <1>3, <1>5, <2>1, HoldingInserted
    <3>2. Cardinality(Holding(h, S, j)) = held[t][j]
      BY <1>1 DEF Holds
    <3> QED
      BY <1>8, <3>1, <3>2
  <2>3. \A m \in S2 : h'.pay[m].trigger \in Triggers
    BY <1>1, <1>3, <2>1 DEF Holds, Heaps, Pay
  <2>4. \A m \in Nodes \ S2 : h'.parent[m] = NULL
    BY <1>1, <1>7 DEF Holds, Inserted
  <2> QED
    BY <1>3, <2>1, <2>2, <2>3, <2>4 DEF Holds
<1>11. Phase(h', pc'[t], x'[t], iter'[t], t, S2)
  <2>1. PICK bh2 : InsertAt(h', "left", t, S2, bh2, n)
    BY <1>7 DEF Inserted
  <2>2. 0 <= bh2[n]
    BY <2>1, HeightAt
  <2>3. Pow2[0] <= Cardinality(S2) + 1
    BY <1>3, NoIteration
  <2> QED
    BY <1>9, <2>1, <2>2, <2>3 DEF Phase
<1> QED
  BY <1>9, <1>10, <1>11 DEF TreeInv

(* A delete keeps it. *)
LEMMA DeleteTree ==
  ASSUME NEW t, Trees = {t}, TreeInv(t), NEW z \in Nodes, Delete(t, z)
  PROVE  TreeInv(t)'
<1>1. PICK S : Holds(h, held[t], t, S) /\ Phase(h, pc[t], x[t], iter[t], t, S)
  BY DEF TreeInv
<1>2. PICK pos, top : Tree(h, t, S, pos, top) /\ Sorted(h, S, pos)
  BY <1>1 DEF Holds, Ordered
<1>3. t \in Trees /\ h \in Heaps /\ S \in SUBSET Nodes /\ Locals
  BY <1>1 DEF Holds, TreeInv
<1>4. PICK bh : IdleAt(h, t, S, bh)
  BY <1>1 DEF Phase, Delete
<1>5. z \in S
  <2>1. Reachable(h, t) = S
    BY <1>2, <1>3, ReachableNodes
  <2> QED
    BY <2>1 DEF Delete
<1> DEFINE u == Unlink(h, t, z)
           y == u.y
           k == h.pay[z].trigger
           S2 == S \ {y}
<1>6. /\ h' = make_timer(u.h, y, Pay(0))
      /\ IF u.fix THEN At(t, "delete_fixup", u.x) ELSE At(t, "idle", NULL)
      /\ held' = [held EXCEPT ![t][k] = held[t][k] - 1]
  BY DEF Delete
<1> HIDE DEF u
<1>7. Deleted(h, h', t, S, z, y, u.x, u.fix, bh)
  <2>1. u = Unlink(h, t, z) /\ h' = make_timer(u.h, u.y, Pay(0))
    BY <1>6 DEF u
  <2> QED
    BY <1>2, <1>3, <1>4, <1>5, <2>1, UnlinkStep
<1> HIDE DEF y
<1>8. k \in Triggers
  BY <1>1, <1>5 DEF Holds
<1>9. /\ held' \in [Trees -> [Triggers -> Int]]
      /\ \A j \in Triggers : held'[t][j] = held[t][j] - IF j = k THEN 1 ELSE 0
  <2> HIDE DEF k
  <2> QED
    BY <1>3, <1>6, <1>8 DEF Locals
<1>10. Holds(h', held'[t], t, S2)
  <2>1. /\ h' \in Heaps /\ Ordered(h', t, S2) /\ y \in S
        /\ \A n \in S2 : h'.pay[n] = IF n = z THEN h.pay[y] ELSE h.pay[n]
    BY <1>7 DEF Deleted
  <2>2. ASSUME NEW j \in Triggers PROVE Cardinality(Holding(h', S2, j)) = held'[t][j]
    <3>1. Cardinality(Holding(h', S2, j)) = Cardinality(Holding(h, S, j)) - IF j = k THEN 1 ELSE 0
      BY <1>3, <1>5, <2>1, HoldingDeleted
    <3>2. Cardinality(Holding(h, S, j)) = held[t][j]
      BY <1>1 DEF Holds
    <3> QED
      BY <1>9, <3>1, <3>2
  <2>3. \A n \in S2 : h'.pay[n].trigger \in Triggers
    BY <1>1, <2>1 DEF Holds
  <2>4. \A n \in Nodes \ S2 : h'.parent[n] = NULL
    BY <1>1, <1>7 DEF Holds, Deleted
  <2> QED
    BY <1>3, <2>1, <2>2, <2>3, <2>4 DEF Holds
<1>11. Pow2[0] <= Cardinality(S2) + 1
  BY <1>3, NoIteration
<1>12. CASE u.fix
  <2>1. At(t, "delete_fixup", u.x) /\ u.x \in Ptrs \cup {NULL} /\ FixAt(h', "left", t, S2, bh, u.x)
    BY <1>6, <1>7, <1>12 DEF Deleted
  <2>2. Locals' /\ pc'[t] = "delete_fixup" /\ x'[t] = u.x /\ iter'[t] = 0
    <3>1. pc[t] = "idle"
      BY DEF Delete
    <3> QED
      BY <1>3, <1>9, <2>1, <3>1, AtLocals
  <2>3. 0 <= bh[u.x]
    BY <2>1, HeightAt
  <2>4. Phase(h', pc'[t], x'[t], iter'[t], t, S2)
    BY <1>11, <2>1, <2>2, <2>3 DEF Phase
  <2> QED
    BY <1>10, <2>2, <2>4 DEF TreeInv
<1>13. CASE ~u.fix
  <2>1. At(t, "idle", NULL) /\ IdleAt(h', t, S2, bh)
    BY <1>6, <1>7, <1>13 DEF Deleted
  <2>2. Locals' /\ pc'[t] = "idle" /\ x'[t] = NULL /\ iter'[t] = 0
    BY <1>3, <1>9, <2>1, AtLocals
  <2>3. Phase(h', pc'[t], x'[t], iter'[t], t, S2)
    BY <1>11, <2>1, <2>2 DEF Phase
  <2> QED
    BY <1>10, <2>2, <2>3 DEF TreeInv
<1> QED
  BY <1>12, <1>13

(* An iteration of insert_fixup, and its end, keep it. *)
LEMMA InsertFixupTree ==
  ASSUME NEW t, Trees = {t}, TreeInv(t), InsertFixup(t)
  PROVE  TreeInv(t)'
<1>1. PICK S : Holds(h, held[t], t, S) /\ Phase(h, pc[t], x[t], iter[t], t, S)
  BY DEF TreeInv
<1>2. t \in Trees /\ h \in Heaps /\ Locals /\ held' = held /\ held' \in [Trees -> [Triggers -> Int]]
  BY <1>1 DEF Holds, TreeInv, InsertFixup, Locals
<1>3. PICK bh : InsertAt(h, "left", t, S, bh, x[t]) /\ (InsertFixupNeeded(h, t, x[t]) => iter[t] <= bh[x[t]])
  BY <1>1 DEF Phase, InsertFixup
<1>4. PICK p1, t1 : Tree(h, t, S, p1, t1)
  BY <1>1 DEF Holds, Ordered
<1>5. CASE InsertFixupNeeded(h, t, x[t])
  <2> DEFINE st == InsertFixupStep(h, t, x[t])
  <2>1. h' = st.h /\ At(t, "insert_fixup", st.x)
    BY <1>5 DEF InsertFixup
  <2> HIDE DEF st
  <2>2. \A pos, top : Tree(h, t, S, pos, top) =>
          /\ Kept(h, h', t, S, pos, top)
          /\ \E bh2 : /\ InsertAt(h', "left", t, S, bh2, st.x)
                      /\ InsertFixupNeeded(h', t, st.x) => bh2[st.x] = bh[x[t]] + 1
    BY <1>2, <1>3, <1>5, <2>1, InsertStep DEF st
  <2>3. Holds(h', held'[t], t, S)
    BY <1>1, <1>2, <2>2, KeptHolds
  <2>4. PICK bh2 : /\ InsertAt(h', "left", t, S, bh2, st.x)
                   /\ InsertFixupNeeded(h', t, st.x) => bh2[st.x] = bh[x[t]] + 1
    BY <1>4, <2>2
  <2>5. st.x \in Ptrs \cup {NULL}
    BY <2>4 DEF InsertAt, InsertState, Links, Ptrs
  <2>6. Locals' /\ pc'[t] = "insert_fixup" /\ x'[t] = st.x /\ iter'[t] = iter[t] + 1
    <3>1. pc[t] = "insert_fixup"
      BY DEF InsertFixup
    <3> QED
      BY <1>2, <2>1, <2>5, <3>1, AtLocals
  <2>7. iter[t] \in Nat /\ bh[x[t]] \in Nat /\ iter[t] <= bh[x[t]]
    BY <1>2, <1>3, <1>5, HeightAt DEF Locals
  <2>8. Pow2[iter[t] + 1] <= Cardinality(S) + 1
    <3>1. Pow2[bh[x[t]] + 1] <= Cardinality(S) + 1
      BY <1>3, <1>4, <1>5, InsertClimbs
    <3>2. Pow2[iter[t] + 1] <= Pow2[bh[x[t]] + 1]
      <4>1. iter[t] + 1 \in Nat /\ bh[x[t]] + 1 \in Nat /\ iter[t] + 1 <= bh[x[t]] + 1
        BY <2>7
      <4> QED
        BY <4>1, PowGrows
    <3>3. Pow2[iter[t] + 1] \in Nat /\ Pow2[bh[x[t]] + 1] \in Nat /\ Cardinality(S) \in Nat
      <4>1. iter[t] + 1 \in Nat /\ bh[x[t]] + 1 \in Nat /\ S \in SUBSET Nodes
        BY <1>1, <2>7 DEF Holds
      <4> QED
        BY <4>1, PowFacts, RBTreeAssumption, FS_Subset, FS_CardinalityType
    <3> QED
      BY <3>1, <3>2, <3>3
  <2>9. InsertFixupNeeded(h', t, st.x) => iter[t] + 1 <= bh2[st.x]
    BY <2>4, <2>7
  <2>10. Phase(h', pc'[t], x'[t], iter'[t], t, S)
    BY <2>4, <2>6, <2>8, <2>9 DEF Phase
  <2> QED
    BY <2>3, <2>6, <2>10 DEF TreeInv
<1>6. CASE ~InsertFixupNeeded(h, t, x[t])
  <2>1. h' = BlackenRoot(h, t) /\ At(t, "idle", NULL)
    BY <1>6 DEF InsertFixup
  <2>2. \A pos, top : Tree(h, t, S, pos, top) =>
          Kept(h, h', t, S, pos, top) /\ \E bh2 : IdleAt(h', t, S, bh2)
    BY <1>2, <1>3, <1>6, <2>1, InsertDone
  <2>3. Holds(h', held'[t], t, S)
    BY <1>1, <1>2, <2>2, KeptHolds
  <2>4. Locals' /\ pc'[t] = "idle" /\ x'[t] = NULL /\ iter'[t] = 0
    BY <1>2, <2>1, AtLocals
  <2>5. Pow2[0] <= Cardinality(S) + 1
    BY <1>1, NoIteration DEF Holds
  <2>6. Phase(h', pc'[t], x'[t], iter'[t], t, S)
    BY <1>4, <2>2, <2>4, <2>5 DEF Phase
  <2> QED
    BY <2>3, <2>4, <2>6 DEF TreeInv
<1> QED
  BY <1>5, <1>6

(* An iteration of delete_fixup, and its end, keep it. *)
LEMMA DeleteFixupTree ==
  ASSUME NEW t, Trees = {t}, TreeInv(t), DeleteFixup(t)
  PROVE  TreeInv(t)'
<1>1. PICK S : Holds(h, held[t], t, S) /\ Phase(h, pc[t], x[t], iter[t], t, S)
  BY DEF TreeInv
<1>2. t \in Trees /\ h \in Heaps /\ Locals /\ held' = held /\ held' \in [Trees -> [Triggers -> Int]]
  BY <1>1 DEF Holds, TreeInv, DeleteFixup, Locals
<1>3. PICK bh : FixAt(h, "left", t, S, bh, x[t]) /\ (DeleteFixupNeeded(h, t, x[t]) => iter[t] <= bh[x[t]])
  BY <1>1 DEF Phase, DeleteFixup
<1>4. PICK p1, t1 : Tree(h, t, S, p1, t1)
  BY <1>1 DEF Holds, Ordered
<1>5. CASE DeleteFixupNeeded(h, t, x[t])
  <2> DEFINE st == DeleteFixupStep(h, t, x[t])
  <2>1. h' = st.h /\ At(t, "delete_fixup", st.x)
    BY <1>5 DEF DeleteFixup
  <2> HIDE DEF st
  <2>2. \A pos, top : Tree(h, t, S, pos, top) =>
          /\ Kept(h, h', t, S, pos, top)
          /\ \E bh2 : /\ FixAt(h', "left", t, S, bh2, st.x)
                      /\ DeleteFixupNeeded(h', t, st.x) => bh2[st.x] = bh[x[t]] + 1
    BY <1>2, <1>3, <1>5, <2>1, DeleteStep DEF st
  <2>3. Holds(h', held'[t], t, S)
    BY <1>1, <1>2, <2>2, KeptHolds
  <2>4. PICK bh2 : /\ FixAt(h', "left", t, S, bh2, st.x)
                   /\ DeleteFixupNeeded(h', t, st.x) => bh2[st.x] = bh[x[t]] + 1
    BY <1>4, <2>2
  <2>5. st.x \in Ptrs \cup {NULL}
    BY <2>4 DEF FixAt, FixState, Links, Ptrs
  <2>6. Locals' /\ pc'[t] = "delete_fixup" /\ x'[t] = st.x /\ iter'[t] = iter[t] + 1
    <3>1. pc[t] = "delete_fixup"
      BY DEF DeleteFixup
    <3> QED
      BY <1>2, <2>1, <2>5, <3>1, AtLocals
  <2>7. iter[t] \in Nat /\ bh[x[t]] \in Nat /\ iter[t] <= bh[x[t]]
    BY <1>2, <1>3, <1>5, HeightAt DEF Locals
  <2>8. Pow2[iter[t] + 1] <= Cardinality(S) + 1
    <3>1. Pow2[bh[x[t]] + 1] <= Cardinality(S) + 1
      BY <1>3, <1>4, <1>5, DeleteClimbs
    <3>2. Pow2[iter[t] + 1] <= Pow2[bh[x[t]] + 1]
      <4>1. iter[t] + 1 \in Nat /\ bh[x[t]] + 1 \in Nat /\ iter[t] + 1 <= bh[x[t]] + 1
        BY <2>7
      <4> QED
        BY <4>1, PowGrows
    <3>3. Pow2[iter[t] + 1] \in Nat /\ Pow2[bh[x[t]] + 1] \in Nat /\ Cardinality(S) \in Nat
      <4>1. iter[t] + 1 \in Nat /\ bh[x[t]] + 1 \in Nat /\ S \in SUBSET Nodes
        BY <1>1, <2>7 DEF Holds
      <4> QED
        BY <4>1, PowFacts, RBTreeAssumption, FS_Subset, FS_CardinalityType
    <3> QED
      BY <3>1, <3>2, <3>3
  <2>9. DeleteFixupNeeded(h', t, st.x) => iter[t] + 1 <= bh2[st.x]
    BY <2>4, <2>7
  <2>10. Phase(h', pc'[t], x'[t], iter'[t], t, S)
    BY <2>4, <2>6, <2>8, <2>9 DEF Phase
  <2> QED
    BY <2>3, <2>6, <2>10 DEF TreeInv
<1>6. CASE ~DeleteFixupNeeded(h, t, x[t])
  <2>1. h' = Blacken(h, x[t]) /\ At(t, "idle", NULL)
    BY <1>6 DEF DeleteFixup
  <2>2. \A pos, top : Tree(h, t, S, pos, top) =>
          Kept(h, h', t, S, pos, top) /\ \E bh2 : IdleAt(h', t, S, bh2)
    BY <1>2, <1>3, <1>6, <2>1, FixDone
  <2>3. Holds(h', held'[t], t, S)
    BY <1>1, <1>2, <2>2, KeptHolds
  <2>4. Locals' /\ pc'[t] = "idle" /\ x'[t] = NULL /\ iter'[t] = 0
    BY <1>2, <2>1, AtLocals
  <2>5. Pow2[0] <= Cardinality(S) + 1
    BY <1>1, NoIteration DEF Holds
  <2>6. Phase(h', pc'[t], x'[t], iter'[t], t, S)
    BY <1>4, <2>2, <2>4, <2>5 DEF Phase
  <2> QED
    BY <2>3, <2>4, <2>6 DEF TreeInv
<1> QED
  BY <1>5, <1>6

(* Every step keeps the invariant. *)
LEMMA NextTree ==
  ASSUME NEW t, Trees = {t}, TreeInv(t), [Next]_vars
  PROVE  TreeInv(t)'
<1>1. CASE Next
  <2>1. PICK s \in Trees : \/ \E n \in Nodes, k \in Triggers : Insert(s, n, k)
                           \/ \E z \in Nodes : Delete(s, z)
                           \/ InsertFixup(s) \/ DeleteFixup(s)
    BY <1>1 DEF Next
  <2>2. s = t
    BY <2>1
  <2> QED
    BY <2>1, <2>2, InsertTree, DeleteTree, InsertFixupTree, DeleteFixupTree
<1>2. CASE UNCHANGED vars
  BY <1>2 DEF vars, TreeInv, Locals
<1> QED
  BY <1>1, <1>2

(* It holds always. *)
LEMMA TreeInvariant ==
  ASSUME NEW t, Trees = {t} PROVE Spec => []TreeInv(t)
<1>1. Init => TreeInv(t)
  BY InitTree
<1>2. TreeInv(t) /\ [Next]_vars => TreeInv(t)'
  BY NextTree
<1> QED
  BY <1>1, <1>2, PTL DEF Spec

(* With one tree, whatever nodes and keys: every pointer that rbtree.c writes is a node,   *)
(* the sentinel or NULL in the fields that may hold it, and no key's count leaves          *)
(* 0..|Nodes|.                                                                             *)
THEOREM TypeCorrect ==
  ASSUME NEW t, Trees = {t} PROVE Spec => []TypeOK
<1>1. ASSUME TreeInv(t) PROVE TypeOK
  <2>1. PICK S : Holds(h, held[t], t, S)
    BY <1>1 DEF TreeInv
  <2>2. ASSUME NEW k \in Triggers PROVE held[t][k] \in 0..Cardinality(Nodes)
    <3>1. Holding(h, S, k) \in SUBSET Nodes /\ held[t][k] = Cardinality(Holding(h, S, k))
      BY <2>1 DEF Holds, Holding
    <3>2. /\ Cardinality(Holding(h, S, k)) \in Nat /\ Cardinality(Nodes) \in Nat
          /\ Cardinality(Holding(h, S, k)) <= Cardinality(Nodes)
      BY <3>1, RBTreeAssumption, FS_Subset, FS_CardinalityType
    <3> QED
      BY <3>1, <3>2
  <2>3. held \in [Trees -> [Triggers -> 0..Cardinality(Nodes)]]
    <3>1. held \in [Trees -> [Triggers -> Int]] /\ held[t] \in [Triggers -> Int]
      BY <1>1 DEF TreeInv, Locals
    <3>2. held[t] \in [Triggers -> 0..Cardinality(Nodes)]
      BY <2>2, <3>1
    <3> QED
      BY <3>1, <3>2
  <2> QED
    BY <1>1, <2>1, <2>3 DEF TreeInv, Locals, Holds, TypeOK
<1> QED
  BY <1>1, TreeInvariant, PTL

(* With one tree, after every insert, delete and iteration of a fixup, the tree holds      *)
(* exactly the keys inserted and not deleted, in search order, and the parent pointers are *)
(* right: rotations, relinking and the memcpy of rbtree_delete lose and misplace nothing.  *)
THEOREM OrderHeld ==
  ASSUME NEW t, Trees = {t} PROVE Spec => []HoldsInOrder
<1>1. ASSUME TreeInv(t) PROVE HoldsInOrder
  <2>1. PICK S : Holds(h, held[t], t, S)
    BY <1>1 DEF TreeInv
  <2>2. PICK pos, top : Tree(h, t, S, pos, top) /\ Sorted(h, S, pos)
    BY <2>1 DEF Holds, Ordered
  <2>3. h \in Heaps /\ t \in Trees
    BY <2>1 DEF Holds
  <2>4. /\ Reachable(h, t) = S
        /\ \A n \in S : LeftOf(t, n) \subseteq {m \in S : pos[m] < pos[n]}
        /\ \A n \in S : RightOf(t, n) \subseteq {m \in S : pos[n] < pos[m]}
    <3>1. /\ Reachable(h, t) = S
          /\ \A n \in S : h.left[n] # RBNIL =>
               Reachable([h EXCEPT !.root[t] = h.left[n]], t) \subseteq {m \in S : pos[m] < pos[n]}
          /\ \A n \in S : h.right[n] # RBNIL =>
               Reachable([h EXCEPT !.root[t] = h.right[n]], t) \subseteq {m \in S : pos[n] < pos[m]}
      BY <2>2, <2>3, ReachableNodes
    <3> QED
      BY <3>1 DEF LeftOf, RightOf
  <2>5. Links(h.left, h.right, h.parent, h.root[t], S)
    <3>1. "left" \in Sides /\ Other("left") = "right"
      BY DEF Sides, Other
    <3>2. Links(h["left"], h[Other("left")], h.parent, h.root[t], S)
      BY <2>2, <3>1, TreeLinks
    <3> QED
      BY <3>1, <3>2
  <2>6. \A n \in S : pos[n] \in Int
    BY <2>2 DEF Tree, Shape
  <2>7. \A k \in Triggers : Cardinality({n \in S : h.pay[n].trigger = k}) = held[t][k]
    BY <2>1 DEF Holds, Holding
  <2>8. ASSUME NEW n \in S
        PROVE  /\ \A m \in LeftOf(t, n) : h.pay[m].trigger <= h.pay[n].trigger
               /\ \A m \in RightOf(t, n) : h.pay[n].trigger <= h.pay[m].trigger
               /\ LeftOf(t, n) \cap RightOf(t, n) = {} /\ n \notin LeftOf(t, n) \cup RightOf(t, n)
               /\ h.parent[n] = NULL <=> n = h.root[t]
               /\ \A c \in {h.left[n], h.right[n]} \ {RBNIL} : h.parent[c] = n
    <3>1. /\ \A m \in LeftOf(t, n) : h.pay[m].trigger <= h.pay[n].trigger
          /\ \A m \in RightOf(t, n) : h.pay[n].trigger <= h.pay[m].trigger
      BY <2>2, <2>4 DEF Sorted
    <3>2. LeftOf(t, n) \cap RightOf(t, n) = {} /\ n \notin LeftOf(t, n) \cup RightOf(t, n)
      BY <2>4, <2>6
    <3>3. /\ h.parent[n] = NULL <=> n = h.root[t]
          /\ \A c \in {h.left[n], h.right[n]} \ {RBNIL} : h.parent[c] = n
      BY <2>5 DEF Links
    <3> QED
      BY <3>1, <3>2, <3>3
  <2> HIDE DEF LeftOf, RightOf
  <2> QED
    BY <2>4, <2>7, <2>8 DEF HoldsInOrder
<1> QED
  BY <1>1, TreeInvariant, PTL

(* With one tree, every insert and delete ends after at most log2(n + 1) iterations of its *)
(* fixup loop for n nodes: an iteration after which the loop goes on has lifted x by a     *)
(* black node.                                                                             *)
THEOREM FixupsTerminate ==
  ASSUME NEW t, Trees = {t} PROVE Spec => []FixupsEnd
<1>1. ASSUME TreeInv(t) PROVE FixupsEnd
  <2>1. PICK S : Holds(h, held[t], t, S) /\ Phase(h, pc[t], x[t], iter[t], t, S)
    BY <1>1 DEF TreeInv
  <2>2. PICK pos, top : Tree(h, t, S, pos, top)
    BY <2>1 DEF Holds, Ordered
  <2>3. Reachable(h, t) = S
    BY <2>1, <2>2, ReachableNodes DEF Holds
  <2>4. Pow2[iter[t]] <= Cardinality(S) + 1
    BY <2>1 DEF Phase
  <2> QED
    BY <2>3, <2>4 DEF FixupsEnd
<1> QED
  BY <1>1, TreeInvariant, PTL

----------------------------------------------------------------------------
(* Among the nodes of T there is one whose interval is as long as any. *)
LEMMA Longest ==
  ASSUME NEW A, NEW B, NEW P, NEW r, NEW S, NEW pos, NEW lo, NEW hi, NEW top,
         Shape(A, B, P, r, S, pos, lo, hi, top), NEW T \in SUBSET S, T # {}
  PROVE  \E n \in T : \A m \in T : hi[m] - lo[m] <= hi[n] - lo[n]
<1> DEFINE L == {2 * top - (hi[n] - lo[n]) : n \in T}
<1>1. \A n \in T : lo[n] \in Int /\ hi[n] \in Int /\ top \in Nat /\ -top <= lo[n] /\ hi[n] <= top
  BY DEF Shape
<1>2. L \in SUBSET Nat /\ L # {}
  BY <1>1
<1>3. PICK l \in L : \A k \in L : l <= k
  <2> HIDE DEF L
  <2> QED
    BY <1>2, LeastNumber
<1>4. PICK n \in T : l = 2 * top - (hi[n] - lo[n])
  BY <1>3
<1>5. ASSUME NEW m \in T PROVE hi[m] - lo[m] <= hi[n] - lo[n]
  <2>1. 2 * top - (hi[n] - lo[n]) <= 2 * top - (hi[m] - lo[m])
    BY <1>3, <1>4
  <2>2. n \in T
    BY <1>4
  <2> QED
    BY <1>1, <2>1, <2>2
<1> QED
  BY <1>4, <1>5

(* The black nodes on the way up from n: the black height of the root without n's own. *)
LEMMA DepthFromHeight ==
  ASSUME NEW t \in Trees, NEW S \in SUBSET Nodes, NEW pos, NEW top, Tree(h, t, S, pos, top),
         NEW bh, IdleAt(h, t, S, bh), \A n \in Nodes \ S : h.parent[n] = NULL, NEW n \in S
  PROVE  BlackDepth(n) = bh[h.root[t]] - bh[n] + Blk(h.color[n])
<1> DEFINE P == h.parent
           C == h.color
           r == h.root[t]
           D == Nodes \cup {NULL}
           up[m \in D] == IF m = NULL THEN 0 ELSE up[P[m]] + (IF C[m] = "RBBLK" THEN 1 ELSE 0)
           depth(m) == bh[r] - bh[m] + Blk(C[m])
           f == [m \in D |-> IF m = NULL THEN 0 ELSE IF m \in S THEN depth(m) ELSE Blk(C[m])]
           Good(v) == v = [m \in D |-> IF m = NULL THEN 0 ELSE v[P[m]] + (IF C[m] = "RBBLK" THEN 1 ELSE 0)]
<1>1. BlackDepth(n) = up[n]
  BY DEF BlackDepth
<1>2. /\ Links(h.left, h.right, P, r, S) /\ NULL \notin Nodes /\ RBNIL \notin Nodes /\ S \subseteq Ptrs
      /\ bh \in [Ptrs -> Nat] /\ bh[RBNIL] = 0
      /\ \A m \in S : bh[m] = bh[h.left[m]] + Missing(m, NULL) + Blk(C[m])
      /\ \A m \in S : bh[m] = bh[h.right[m]] + Missing(m, NULL) + Blk(C[m])
  BY RBTreeAssumption DEF IdleAt, IdleState, Heights, Ptrs
<1>3. \A m \in S : Missing(m, NULL) = 0 /\ bh[m] \in Nat
  BY <1>2 DEF Missing
<1>4. \A m : Blk(C[m]) \in Nat /\ Blk(C[m]) = IF C[m] = "RBBLK" THEN 1 ELSE 0
  BY DEF Blk
<1>5. /\ n \in S /\ r \in S /\ P[r] = NULL
      /\ \A m \in S \ {r} : P[m] \in S /\ bh[P[m]] = bh[m] + Blk(C[P[m]])
  <2>1. r \in S /\ P[r] = NULL
    BY <1>2 DEF Links
  <2>2. ASSUME NEW m \in S \ {r} PROVE P[m] \in S /\ bh[P[m]] = bh[m] + Blk(C[P[m]])
    <3>1. P[m] \in S /\ (h.left[P[m]] = m \/ h.right[P[m]] = m)
      BY <1>2 DEF Links
    <3>2. bh[P[m]] = bh[m] + Missing(P[m], NULL) + Blk(C[P[m]])
      BY <1>2, <3>1
    <3>3. Missing(P[m], NULL) = 0 /\ bh[m] \in Nat /\ Blk(C[P[m]]) \in Nat
      BY <1>3, <1>4, <3>1
    <3> QED
      BY <3>1, <3>2, <3>3
  <2> QED
    BY <2>1, <2>2
<1>6. depth(r) = Blk(C[r]) /\ \A m \in S \ {r} : depth(m) = depth(P[m]) + Blk(C[m])
  BY <1>3, <1>4, <1>5
<1> HIDE DEF depth
<1>7. Good(f)
  <2>1. ASSUME NEW m \in Nodes PROVE f[m] = f[P[m]] + (IF C[m] = "RBBLK" THEN 1 ELSE 0)
    <3>1. CASE m \notin S
      BY <1>2, <1>4, <3>1
    <3>2. CASE m = r
      BY <1>2, <1>4, <1>5, <1>6, <3>2
    <3>3. CASE m \in S \ {r}
      BY <1>2, <1>4, <1>5, <1>6, <3>3
    <3> QED
      BY <3>1, <3>2, <3>3
  <2>2. f[NULL] = 0 /\ f = [m \in D |-> f[m]]
    OBVIOUS
  <2> HIDE DEF f
  <2> QED
    BY <2>1, <2>2
<1>8. Good(up)
  <2>1. up = CHOOSE v : Good(v)
    OBVIOUS
  <2> HIDE DEF up, f
  <2> QED
    BY <1>7, <2>1, Zenon
<1> HIDE DEF up
<1>9. up[NULL] = 0 /\ \A m \in S : up[m] = up[P[m]] + Blk(C[m])
  BY <1>2, <1>4, <1>8
<1> DEFINE T == {m \in S : up[m] # depth(m)}
<1>10. T = {}
  <2> SUFFICES ASSUME T # {} PROVE FALSE
    OBVIOUS
  <2>1. PICK lo, hi : Shape(h.left, h.right, P, r, S, pos, lo, hi, top)
    BY DEF Tree
  <2>2. T \in SUBSET S
    OBVIOUS
  <2>3. PICK m \in T : \A k \in T : hi[k] - lo[k] <= hi[m] - lo[m]
    <3> HIDE DEF T, P, r
    <3> QED
      BY <2>1, <2>2, Longest
  <2>4. m \in S /\ up[m] # depth(m)
    BY <2>3
  <2>5. m # r
    BY <1>4, <1>5, <1>6, <1>9, <2>4
  <2>6. P[m] \in S /\ up[P[m]] # depth(P[m])
    BY <1>5, <1>6, <1>9, <2>4, <2>5
  <2>7. hi[m] - lo[m] < hi[P[m]] - lo[P[m]]
    <3>1. h.left[P[m]] = m \/ h.right[P[m]] = m
      BY <1>2, <2>4, <2>5 DEF Links
    <3> QED
      BY <2>1, <2>4, <2>6, <3>1, ChildInside
  <2>8. hi[P[m]] - lo[P[m]] <= hi[m] - lo[m]
    BY <2>3, <2>6
  <2>9. hi[m] \in Int /\ lo[m] \in Int /\ hi[P[m]] \in Int /\ lo[P[m]] \in Int
    BY <2>1, <2>4, <2>6 DEF Shape
  <2> QED
    BY <2>7, <2>8, <2>9
<1> QED
  BY <1>1, <1>10 DEF depth

(* With one tree, every rbtree_insert and rbtree_delete leaves a red-black tree: a black   *)
(* root, no red node with a red child, and as many black nodes above every leaf.           *)
THEOREM StaysBalanced ==
  ASSUME NEW t, Trees = {t} PROVE Spec => []Balanced
<1>1. ASSUME TreeInv(t) PROVE Balanced
  <2>1. PICK S : Holds(h, held[t], t, S) /\ Phase(h, pc[t], x[t], iter[t], t, S)
    BY <1>1 DEF TreeInv
  <2>2. PICK pos, top : Tree(h, t, S, pos, top)
    BY <2>1 DEF Holds, Ordered
  <2>3. h \in Heaps /\ t \in Trees /\ S \in SUBSET Nodes /\ \A n \in Nodes \ S : h.parent[n] = NULL
    BY <2>1 DEF Holds
  <2>4. Reachable(h, t) = S
    BY <2>2, <2>3, ReachableNodes
  <2>5. h.color[RBNIL] = "RBBLK"
    <3>1. pc[t] \in {"idle", "insert_fixup", "delete_fixup"}
      BY <1>1, <2>3 DEF TreeInv, Locals
    <3>2. CASE pc[t] = "idle"
      BY <2>1, <3>2 DEF Phase, IdleAt, IdleState, Heights
    <3>3. CASE pc[t] = "insert_fixup"
      BY <2>1, <3>3 DEF Phase, InsertAt, InsertState, Heights
    <3>4. CASE pc[t] = "delete_fixup"
      BY <2>1, <3>4 DEF Phase, FixAt, FixState, Heights
    <3> QED
      BY <3>1, <3>2, <3>3, <3>4
  <2>6. ASSUME pc[t] = "idle"
        PROVE  /\ h.color[h.root[t]] = "RBBLK"
               /\ \A n \in S : h.color[n] = "RBRED" =>
                    h.color[h.left[n]] = "RBBLK" /\ h.color[h.right[n]] = "RBBLK"
               /\ \A m, n \in {q \in S : RBNIL \in {h.left[q], h.right[q]}} : BlackDepth(m) = BlackDepth(n)
    <3>1. PICK bh : IdleAt(h, t, S, bh)
      BY <2>1, <2>6 DEF Phase
    <3>2. /\ bh \in [Ptrs -> Nat] /\ bh[RBNIL] = 0 /\ h.color[h.root[t]] = "RBBLK"
          /\ Links(h.left, h.right, h.parent, h.root[t], S)
          /\ \A m \in S : bh[m] = bh[h.left[m]] + Missing(m, NULL) + Blk(h.color[m])
          /\ \A m \in S : bh[m] = bh[h.right[m]] + Missing(m, NULL) + Blk(h.color[m])
          /\ RedRule(h.left, h.right, h.color, S, NULL, NULL)
      BY <3>1 DEF IdleAt, IdleState, Heights
    <3>3. \A n \in S : h.color[n] = "RBRED" =>
            h.color[h.left[n]] = "RBBLK" /\ h.color[h.right[n]] = "RBBLK"
      BY <2>3, <3>2, RBTreeAssumption DEF RedRule, Links
    <3>4. ASSUME NEW n \in S, RBNIL \in {h.left[n], h.right[n]} PROVE BlackDepth(n) = bh[h.root[t]]
      <4>1. BlackDepth(n) = bh[h.root[t]] - bh[n] + Blk(h.color[n])
        BY <2>2, <2>3, <3>1, DepthFromHeight
      <4>2. Missing(n, NULL) = 0 /\ Blk(h.color[n]) \in Nat
        BY <2>3, RBTreeAssumption DEF Missing, Blk
      <4>3. bh[n] = Blk(h.color[n])
        BY <3>2, <3>4, <4>2
      <4>4. bh[h.root[t]] \in Nat
        BY <2>3, <3>2 DEF Links, Ptrs
      <4> QED
        BY <4>1, <4>2, <4>3, <4>4
    <3> QED
      BY <3>2, <3>3, <3>4
  <2> QED
    BY <2>4, <2>5, <2>6 DEF Balanced
<1> QED
  BY <1>1, TreeInvariant, PTL

----------------------------------------------------------------------------
(* A search down the tree, on which the nodes of G send it to the left and the others to   *)
(* the right, where the nodes of G are the last ones in order: G is empty when no node of  *)
(* G was visited, and the last visited node of G is the first in order.                    *)
LastIsFirst(best, G, next, pos) ==
  /\ best = {} => G = {}
  /\ best # {} => \E n \in best : best \cap Path(next, n) = {n}
  /\ \A n \in best : best \cap Path(next, n) = {n} => \A m \in G : pos[n] <= pos[m]

(* That is so. *)
LEMMA LastVisited ==
  ASSUME NEW A, NEW B, NEW P, NEW r, NEW S, NEW pos, NEW lo, NEW hi, NEW top,
         Shape(A, B, P, r, S, pos, lo, hi, top), r \in S,
         NEW G \in SUBSET S, \A m \in G : \A n \in S : pos[m] < pos[n] => n \in G,
         NEW next, \A n \in S : next[n] = IF n \in G THEN A[n] ELSE B[n],
         NEW best, best = Path(next, r) \cap G
  PROVE  LastIsFirst(best, G, next, pos)
<1>1. /\ top \in Nat
      /\ \A n \in S : lo[n] \in Int /\ hi[n] \in Int /\ pos[n] \in Int
      /\ \A n \in S : lo[n] < pos[n] /\ pos[n] < hi[n] /\ hi[n] <= top
      /\ lo[r] = -top /\ hi[r] = top /\ RBNIL \notin S
      /\ \A n \in S : A[n] \in S \cup {RBNIL} /\ B[n] \in S \cup {RBNIL}
      /\ \A n \in S : A[n] \in S => lo[A[n]] = lo[n] /\ hi[A[n]] = pos[n]
      /\ \A n, q \in S : A[n] = RBNIL => ~(lo[n] < pos[q] /\ pos[q] < pos[n])
      /\ \A n, q \in S : B[n] = RBNIL => ~(pos[n] < pos[q] /\ pos[q] < hi[n])
      /\ \A m, n \in S : pos[m] = pos[n] => m = n
  BY RBTreeAssumption DEF Shape
<1>2. \A n \in S : next[n] = A[n] \/ next[n] = B[n]
  OBVIOUS
<1>3. ASSUME NEW c \in S
      PROVE  /\ c \in Path(next, c) /\ Path(next, c) \subseteq S
             /\ \A n \in Path(next, c) : next[n] \in S => next[n] \in Path(next, c)
             /\ \A n \in Path(next, c) : n # c => hi[n] - lo[n] < hi[c] - lo[c]
             /\ \A T : c \in T /\ (\A n \in T \cap S : next[n] \in S => next[n] \in T) => Path(next, c) \subseteq T
  <2>1. Shape(A, B, P, r, S, pos, lo, hi, top)
    OBVIOUS
  <2> QED
    BY ONLY <1>2, <1>3, <2>1, Descent
<1>4. ASSUME NEW c \in S, Path(next, c) \cap G = {}, NEW m \in G PROVE hi[c] <= pos[m]
  <2> DEFINE q == PathEnd(next, c)
             T == {n \in Path(next, c) : hi[n] = hi[c]}
  <2>1. q \in Path(next, c) /\ next[q] = RBNIL
    <3>1. Shape(A, B, P, r, S, pos, lo, hi, top)
      OBVIOUS
    <3> QED
      BY ONLY <1>2, <1>4, <3>1, Descent
  <2>2. c \in T /\ \A n \in T \cap S : next[n] \in S => next[n] \in T
    <3>1. \A n \in Path(next, c) : next[n] = B[n]
      BY <1>3, <1>4
    <3> QED
      BY <1>3, <3>1 DEF Shape
  <2>3. Path(next, c) \subseteq T
    <3> HIDE DEF T
    <3> QED
      BY <1>3, <2>2
  <2>4. q \in S /\ q \notin G /\ B[q] = RBNIL /\ hi[q] = hi[c]
    BY <1>3, <1>4, <2>1, <2>3
  <2>5. ~(pos[m] < pos[q]) /\ m # q /\ m \in S
    BY <1>4, <2>4
  <2>6. pos[q] < pos[m]
    BY <1>1, <2>4, <2>5
  <2> QED
    BY <1>1, <2>4, <2>5, <2>6
<1>5. best = {} => G = {}
  <2> SUFFICES ASSUME best = {}, NEW m \in G PROVE FALSE
    OBVIOUS
  <2>1. hi[r] <= pos[m]
    BY <1>4
  <2> QED
    BY <1>1, <2>1
<1>6. best \in SUBSET S
  OBVIOUS
<1>7. ASSUME best # {} PROVE \E n \in best : best \cap Path(next, n) = {n}
  <2>1. PICK n \in best : \A m \in best : hi[n] - lo[n] <= hi[m] - lo[m]
    BY <1>6, <1>7, Shortest
  <2>2. n \in best /\ n \in S /\ n \in Path(next, n)
    BY <1>3, <1>6, <2>1
  <2>3. ASSUME NEW m \in best \cap Path(next, n), m # n PROVE FALSE
    <3>1. hi[m] - lo[m] < hi[n] - lo[n]
      BY <1>3, <2>2, <2>3
    <3>2. hi[n] - lo[n] <= hi[m] - lo[m] /\ m \in S
      BY <1>6, <2>1, <2>3
    <3> QED
      BY <1>1, <2>2, <3>1, <3>2
  <2> QED
    BY <2>2, <2>3
<1>8. ASSUME NEW n \in best, best \cap Path(next, n) = {n}, NEW m \in G PROVE pos[n] <= pos[m]
  <2> SUFFICES ASSUME pos[m] < pos[n] PROVE FALSE
    BY <1>1, <1>6
  <2>1. n \in S /\ n \in G /\ n \in Path(next, r) /\ m \in S
    BY <1>6, <1>8
  <2>2. lo[n] < pos[m]
    <3>1. \A k \in Path(next, r) : \A q \in S : (pos[q] <= lo[k] => q \notin G) /\ (hi[k] <= pos[q] => q \in G)
      BY SearchFacts
    <3> QED
      BY <1>1, <2>1, <3>1
  <2> DEFINE c == A[n]
  <2>3. c \in S /\ hi[c] = pos[n] /\ next[n] = c
    BY <1>1, <2>1, <2>2
  <2>4. Path(next, c) \subseteq Path(next, n) /\ Path(next, c) \subseteq Path(next, r)
    <3> HIDE DEF c
    <3>1. c \in Path(next, n) /\ c \in Path(next, r)
      BY <1>3, <2>1, <2>3
    <3> QED
      BY <1>3, <2>1, <2>3, <3>1
  <2>5. n \notin Path(next, c)
    <3>1. c # n /\ hi[c] - lo[c] < hi[n] - lo[n]
      <4>1. hi[c] - lo[c] < hi[n] - lo[n]
        BY <2>1, <2>3, ChildInside
      <4> QED
        BY <1>1, <2>1, <2>3, <4>1
    <3>2. n \in Path(next, c) => hi[n] - lo[n] < hi[c] - lo[c]
      BY <1>3, <2>3, <3>1
    <3> QED
      BY <1>1, <2>1, <2>3, <3>1, <3>2
  <2>6. Path(next, c) \cap G = {}
    BY <1>8, <2>4, <2>5
  <2>7. hi[c] <= pos[m]
    BY <1>4, <1>8, <2>3, <2>6
  <2> QED
    BY <1>1, <2>1, <2>3, <2>7
<1> QED
  BY <1>5, <1>7, <1>8 DEF LastIsFirst

(* rbtree_leftmost finds the first node in order. *)
LEMMA LeftmostFirst ==
  ASSUME NEW mem, NEW t, NEW S, NEW pos, NEW top, Tree(mem, t, S, pos, top),
         NEW first, first = rbtree_leftmost(mem, mem.root[t])
  PROVE  IF S = {} THEN first = NULL
         ELSE first \in S /\ \A n \in S : pos[first] <= pos[n]
<1> DEFINE A == mem.left
           r == mem.root[t]
<1>1. PICK lo, hi : Shape(A, mem.right, mem.parent, r, S, pos, lo, hi, top)
  BY DEF Tree
<1>2. /\ S = {} => r = RBNIL
      /\ S # {} => r \in S /\ lo[r] = -top
      /\ \A n \in S : lo[n] \in Int /\ pos[n] \in Int /\ -top <= lo[n] /\ lo[n] < pos[n]
      /\ top \in Nat /\ RBNIL \notin S
  BY <1>1, RBTreeAssumption DEF Shape
<1>3. CASE S = {}
  BY <1>2, <1>3 DEF rbtree_leftmost
<1>4. CASE S # {}
  <2>1. first = PathEnd(A, r) /\ r \in S
    BY <1>2, <1>4 DEF rbtree_leftmost, Leftmost
  <2>2. /\ \A n \in S : A[n] = A[n] \/ A[n] = mem.right[n]
        /\ \A n \in Path(A, r) : A[n] = A[n]
    OBVIOUS
  <2>3. first \in S /\ \A n \in S : lo[r] < pos[n] => pos[first] <= pos[n]
    <3> DEFINE B == mem.right
               P == mem.parent
    <3>1. Shape(A, B, P, r, S, pos, lo, hi, top) /\ \A n \in S : A[n] = A[n] \/ A[n] = B[n]
      BY <1>1
    <3> HIDE DEF A, B, P, r
    <3> QED
      BY ONLY <2>1, <2>2, <3>1, Straight
  <2>4. \A n \in S : lo[r] < pos[n]
    BY <1>2, <1>4
  <2> QED
    BY <1>4, <2>3, <2>4
<1> QED
  BY <1>3, <1>4

(* rbtree_upper_bound finds the first node in order that is later than k. *)
LEMMA UpperBoundFirst ==
  ASSUME NEW mem \in Heaps, NEW t, NEW S, NEW pos, NEW top, Tree(mem, t, S, pos, top), Sorted(mem, S, pos),
         NEW k \in Nat, NEW G, G = {n \in S : mem.pay[n].trigger > k},
         NEW ub, ub = rbtree_upper_bound(mem, t, Pay(k))
  PROVE  IF G = {} THEN ub = NULL
         ELSE ub \in G /\ \A n \in G : pos[ub] <= pos[n]
<1> DEFINE A == mem.left
           B == mem.right
           P == mem.parent
           r == mem.root[t]
           greater(n) == ~timer_cmp_le(mem.pay[n], Pay(k))
           next == [n \in Nodes |-> IF greater(n) THEN mem.left[n] ELSE mem.right[n]]
           best == {n \in Path(next, r) : greater(n)}
<1>1. PICK lo, hi : Shape(A, B, P, r, S, pos, lo, hi, top)
  BY DEF Tree
<1>2. /\ S \subseteq Nodes /\ RBNIL \notin S /\ (S = {} => r = RBNIL) /\ (S # {} => r \in S)
      /\ \A n \in S : pos[n] \in Int
      /\ \A n \in S : mem.pay[n].trigger \in Nat
  BY <1>1, RBTreeAssumption DEF Shape, Heaps
<1>3. ub = IF r = RBNIL \/ best = {} THEN NULL ELSE CHOOSE n \in best : best \cap Path(next, n) = {n}
  BY DEF rbtree_upper_bound
<1>4. \A n \in S : (greater(n) <=> n \in G) /\ next[n] = IF n \in G THEN A[n] ELSE B[n]
  BY <1>2 DEF timer_cmp_le, Pay
<1>5. G \in SUBSET S /\ \A m \in G : \A n \in S : pos[m] < pos[n] => n \in G
  BY <1>2 DEF Sorted
<1>6. CASE S = {}
  BY <1>2, <1>3, <1>6
<1>7. CASE S # {}
  <2>1. r \in S /\ r # RBNIL
    BY <1>2, <1>7
  <2> HIDE DEF next
  <2>2. best = Path(next, r) \cap G
    <3>1. Path(next, r) \subseteq S
      <4>1. \A n \in S : next[n] = A[n] \/ next[n] = B[n]
        BY <1>4
      <4> HIDE DEF A, B, P, r
      <4> QED
        BY ONLY <1>1, <2>1, <4>1, Descent
    <3> QED
      BY <1>4, <3>1, <1>5
  <2> HIDE DEF best
  <2>3. /\ best = {} => G = {}
        /\ best # {} => \E n \in best : best \cap Path(next, n) = {n}
        /\ \A n \in best : best \cap Path(next, n) = {n} => \A m \in G : pos[n] <= pos[m]
    <3>1. \A n \in S : next[n] = IF n \in G THEN A[n] ELSE B[n]
      BY <1>4
    <3>2. LastIsFirst(best, G, next, pos)
      <4> HIDE DEF A, B, P, r
      <4> QED
        BY ONLY <1>1, <1>5, <2>1, <2>2, <3>1, LastVisited
    <3> QED
      BY <3>2 DEF LastIsFirst
  <2>4. CASE best = {}
    BY <1>3, <2>3, <2>4
  <2>5. CASE best # {}
    <3> DEFINE Last(n) == best \cap Path(next, n) = {n}
    <3>1. ub = CHOOSE n \in best : Last(n)
      BY <1>3, <2>1, <2>5
    <3>2. \E n \in best : Last(n)
      BY <2>3, <2>5
    <3>3. ub \in best /\ Last(ub)
      <4> HIDE DEF Last
      <4> QED
        BY <3>1, <3>2
    <3> QED
      BY <2>2, <2>3, <3>3
  <2> QED
    BY <2>4, <2>5
<1> QED
  BY <1>6, <1>7

(* With one tree, between calls rbtree_leftmost finds the earliest timer and               *)
(* rbtree_upper_bound the first later one, and NULL exactly when there is none: a worker's *)
(* event loop takes the timer it waits for from rbtree_leftmost.                           *)
THEOREM SearchesCorrect ==
  ASSUME NEW t, Trees = {t} PROVE Spec => []SearchesFind
<1>1. ASSUME TreeInv(t) PROVE SearchesFind
  <2>1. PICK S : Holds(h, held[t], t, S)
    BY <1>1 DEF TreeInv
  <2>2. PICK pos, top : Tree(h, t, S, pos, top) /\ Sorted(h, S, pos)
    BY <2>1 DEF Holds, Ordered
  <2>3. h \in Heaps /\ t \in Trees /\ S \in SUBSET Nodes
    BY <2>1 DEF Holds
  <2>4. Reachable(h, t) = S
    BY <2>2, <2>3, ReachableNodes
  <2>5. /\ NULL \notin S /\ \A n \in S : pos[n] \in Int /\ h.pay[n].trigger \in Nat
        /\ \A m, n \in S : pos[m] = pos[n] => m = n
    BY <2>2, <2>3, RBTreeAssumption DEF Tree, Shape, Heaps
  <2>6. \A m, n \in S : pos[m] <= pos[n] => h.pay[m].trigger <= h.pay[n].trigger
    BY <2>2, <2>5 DEF Sorted
  <2> DEFINE first == rbtree_leftmost(h, h.root[t])
  <2>7. /\ first = NULL <=> S = {}
        /\ first # NULL => \A n \in S : h.pay[first].trigger <= h.pay[n].trigger
    <3>1. IF S = {} THEN first = NULL ELSE first \in S /\ \A n \in S : pos[first] <= pos[n]
      <4>1. first = rbtree_leftmost(h, h.root[t])
        OBVIOUS
      <4> HIDE DEF first
      <4> QED
        BY <2>2, <4>1, LeftmostFirst
    <3> HIDE DEF first
    <3> QED
      BY <2>5, <2>6, <3>1
  <2>8. ASSUME NEW k \in Triggers
        PROVE  LET later == {n \in S : h.pay[n].trigger > k}
                   ub == rbtree_upper_bound(h, t, Pay(k)) IN
               /\ ub = NULL <=> later = {}
               /\ ub # NULL => ub \in later /\ \A n \in later : h.pay[ub].trigger <= h.pay[n].trigger
    <3> DEFINE G == {n \in S : h.pay[n].trigger > k}
               ub == rbtree_upper_bound(h, t, Pay(k))
    <3>1. G = {n \in S : h.pay[n].trigger > k} /\ ub = rbtree_upper_bound(h, t, Pay(k)) /\ G \subseteq S
          /\ k \in Nat
      BY TriggersAssumption
    <3> HIDE DEF G, ub
    <3>2. IF G = {} THEN ub = NULL ELSE ub \in G /\ \A n \in G : pos[ub] <= pos[n]
      BY <2>2, <2>3, <3>1, UpperBoundFirst
    <3>3. /\ ub = NULL <=> G = {}
          /\ ub # NULL => ub \in G /\ \A n \in G : h.pay[ub].trigger <= h.pay[n].trigger
      BY <2>5, <2>6, <3>1, <3>2
    <3> QED
      BY <3>3 DEF G, ub
  <2> QED
    BY <2>4, <2>7, <2>8 DEF SearchesFind
<1> QED
  BY <1>1, TreeInvariant, PTL
=============================================================================
