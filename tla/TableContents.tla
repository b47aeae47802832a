---------------------------- MODULE TableContents ----------------------------
(***************************************************************************)
(* What a heap file promises its caller (spec.md 4.3 and 6): live is the   *)
(* multiset of tuples a scan yields, durable the multiset on disk.  An     *)
(* insert that reports success adds its tuple; a delete removes the tuple  *)
(* it was given; commit makes live durable, abort and a restart of the     *)
(* process bring back what is durable; fetching a page changes neither.   *)
(* result is what the last call reported to its caller.                    *)
(***************************************************************************)
EXTENDS Naturals, BagsExt

CONSTANTS Vals, Nil

VARIABLES live, durable, result

vars == <<live, durable, result>>

EmptyBag == [v \in {} |-> 0]

Init ==
  /\ live = EmptyBag
  /\ durable = EmptyBag
  /\ result = [op |-> "none", val |-> Nil, ok |-> FALSE]

Insert(v) ==
  \/ /\ live' = BagAdd(live, v)
     /\ result' = [op |-> "insert", val |-> v, ok |-> TRUE]
     /\ UNCHANGED durable
  \/ /\ result' = [op |-> "insert", val |-> v, ok |-> FALSE]
     /\ UNCHANGED <<live, durable>>

\* Deleting a tuple no longer present changes nothing.
Delete(v) ==
  /\ live' = BagRemove(live, v)
  /\ result' = [op |-> "delete", val |-> v, ok |-> TRUE]
  /\ UNCHANGED durable

Commit(op) ==
  /\ durable' = live
  /\ result' = [op |-> op, val |-> Nil, ok |-> TRUE]
  /\ UNCHANGED live

Revert(op) ==
  /\ live' = durable
  /\ result' = [op |-> op, val |-> Nil, ok |-> TRUE]
  /\ UNCHANGED durable

Fetch(ok) ==
  /\ result' = [op |-> "getpage", val |-> Nil, ok |-> ok]
  /\ UNCHANGED <<live, durable>>

Next ==
  \/ \E v \in Vals : Insert(v)
  \/ \E v \in Vals \cup {Nil} : Delete(v)
  \/ \E op \in {"commit", "flushall"} : Commit(op)
  \/ \E op \in {"abort", "restart"} : Revert(op)
  \/ \E ok \in BOOLEAN : Fetch(ok)

Spec == Init /\ [][Next]_vars

=============================================================================
