---------------------------- MODULE PageContents ----------------------------
(***************************************************************************)
(* What a heap page promises its callers (spec.md, 4.2): a store of tuples *)
(* addressed by record ids.  insertTuple hands out a record id that was    *)
(* never handed out before and fails only when the page is full;           *)
(* deleteTuple removes the tuple of a live record id and fails otherwise;  *)
(* iteration yields exactly the live tuples.  result is what the last call *)
(* returned to its caller.                                                 *)
(***************************************************************************)
EXTENDS Naturals, FiniteSets

CONSTANTS Vals, Capacity, Rids, Nil

VARIABLES rows, issued, result

NoResult == [op |-> "none", rid |-> Nil, val |-> Nil, ok |-> FALSE]

Init ==
  /\ rows = [r \in {} |-> Nil]
  /\ issued = {}
  /\ result = NoResult

Insert(v) ==
  \/ /\ Cardinality(issued) < Capacity
     /\ \E r \in Rids \ issued :
          /\ rows' = [x \in DOMAIN rows \cup {r} |-> IF x = r THEN v ELSE rows[x]]
          /\ issued' = issued \cup {r}
          /\ result' = [op |-> "insert", rid |-> r, val |-> v, ok |-> TRUE]
  \/ /\ Cardinality(issued) = Capacity
     /\ result' = [op |-> "insert", rid |-> Nil, val |-> v, ok |-> FALSE]
     /\ UNCHANGED <<rows, issued>>

Delete(r) ==
  \/ /\ r \in DOMAIN rows
     /\ rows' = [x \in DOMAIN rows \ {r} |-> rows[x]]
     /\ result' = [op |-> "delete", rid |-> r, val |-> rows[r], ok |-> TRUE]
     /\ UNCHANGED issued
  \/ /\ r \notin DOMAIN rows
     /\ result' = [op |-> "delete", rid |-> r, val |-> Nil, ok |-> FALSE]
     /\ UNCHANGED <<rows, issued>>

Next == (\E v \in Vals : Insert(v)) \/ (\E r \in Rids : Delete(r))

Spec == Init /\ [][Next]_<<rows, issued, result>>

=============================================================================
