---------------------------- MODULE PasteStore ----------------------------
(***************************************************************************)
(* What the paste database promises its callers, whatever file format it   *)
(* uses: a paste gets an id nobody got before, and from then on that id    *)
(* names that paste, unchanged, for ever (there is no update and no        *)
(* delete, and a restart loses nothing that was stored).  Db implements    *)
(* it as long as no two ids share a bucket.                                *)
(***************************************************************************)

CONSTANTS Ids,     \* the ids the database may hand out
          Values   \* the pastes

VARIABLE store     \* the pastes that can be read back, as a partial function of the id

Init == store = [i \in {} |-> {}]

(* A paste becomes readable under an id that has none. *)
Put(id, val) ==
  /\ id \notin DOMAIN store
  /\ store' = [i \in DOMAIN store \cup {id} |-> IF i = id THEN val ELSE store[i]]

Next == \E id \in Ids, val \in Values : Put(id, val)

Spec == Init /\ [][Next]_store
============================================================================
