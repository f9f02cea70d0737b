--------------------------- MODULE OrderContract ---------------------------
(***************************************************************************)
(* What the orders service promises its callers about an idempotency key,  *)
(* with no database, no HTTP and no failures in sight: a key is worth at   *)
(* most one broker order, an order that is over never comes back, and the  *)
(* order id the service shows for a key is the id of that one order and    *)
(* never changes.  Orders.tla is shown to implement this module.           *)
(***************************************************************************)

CONSTANTS Keys,       \* idempotency keys
          BrokerIds,  \* order ids the broker may hand out
          NoId        \* "no order id known"

VARIABLES placed,  \* placed[k]: the broker orders ever placed for key k
          live,    \* the broker orders that can still be filled
          known    \* known[k]: the order id the service shows for key k

contractVars == <<placed, live, known>>

Init ==
    /\ placed = [k \in Keys |-> {}]
    /\ live = {}
    /\ known = [k \in Keys |-> NoId]

\* The first and only order of a key reaches the broker.
Place(k, i) ==
    /\ placed[k] = {}
    /\ \A other \in Keys : i \notin placed[other]
    /\ placed' = [placed EXCEPT ![k] = {i}]
    /\ live' = live \cup {i}
    /\ UNCHANGED known

\* An order is filled, expires or is cancelled at the broker.
EndOrder(i) ==
    /\ i \in live
    /\ live' = live \ {i}
    /\ UNCHANGED <<placed, known>>

\* The service learns, and from then on shows, the id of the key's order.
Acknowledge(k, i) ==
    /\ i \in placed[k]
    /\ known[k] = NoId
    /\ known' = [known EXCEPT ![k] = i]
    /\ UNCHANGED <<placed, live>>

Next ==
    \/ \E k \in Keys, i \in BrokerIds : Place(k, i) \/ Acknowledge(k, i)
    \/ \E i \in BrokerIds : EndOrder(i)

Spec == Init /\ [][Next]_contractVars
=============================================================================
