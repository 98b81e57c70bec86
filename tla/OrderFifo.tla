------------------------------ MODULE OrderFifo ------------------------------
(***************************************************************************)
(* What the slpx order queue promises its callers, whatever the orders     *)
(* carry: orders are numbered in the order they are created, wait in one   *)
(* queue, and are served from its head, each exactly once, with some       *)
(* outcome. An order is pending exactly while it waits.                    *)
(*                                                                         *)
(* SlpxOrderQueue implements this specification under the refinement      *)
(* mapping it gives where it instantiates the module.                      *)
(***************************************************************************)
EXTENDS Naturals, Sequences

CONSTANTS
  OrderIds,   \* the orders of a behaviour, numbered 1, 2, ...
  Outcomes    \* what serving an order may make of it

VARIABLES
  pending,    \* the ids of the waiting orders, oldest first
  fate        \* order id -> "none", "queued" or an outcome

vars == <<pending, fate>>

Init ==
  /\ pending = <<>>
  /\ fate = [i \in OrderIds |-> "none"]

(* A new order takes the lowest unused number and joins the tail. *)
Enqueue(i) ==
  /\ fate[i] = "none"
  /\ \A j \in OrderIds : j < i => fate[j] # "none"
  /\ pending' = Append(pending, i)
  /\ fate' = [fate EXCEPT ![i] = "queued"]

(* The oldest waiting order leaves the queue with an outcome. *)
Serve(o) ==
  /\ pending # <<>>
  /\ pending' = Tail(pending)
  /\ fate' = [fate EXCEPT ![Head(pending)] = o]

Next ==
  \/ \E i \in OrderIds : Enqueue(i)
  \/ \E o \in Outcomes : Serve(o)

Spec == Init /\ [][Next]_vars

=============================================================================
