------------------------------- MODULE Orders -------------------------------
(***************************************************************************)
(* The orders service: submitOrder and cancelOrder of ordersService.ts     *)
(* over the order_event table, and the broker behind alpaca-adapter.       *)
(*                                                                         *)
(* Each member of Submits (Cancels) is a slot that serves one POST /orders *)
(* (DELETE /orders/:id) after another; slots run concurrently and every    *)
(* await of the handlers is a step boundary.  A slot whose request has     *)
(* ended while its call is still on its way to the broker is "gone": the   *)
(* broker may yet act on the call, and nobody reads the answer.            *)
(*                                                                         *)
(* A database statement may throw, applied or not.  Where the code only     *)
(* logs that, "applied after all" is the step that succeeds.               *)
(*                                                                         *)
(* `trouble` is a history variable: what has happened to a key that the    *)
(* handlers cannot repair on their own.  No action reads it.               *)
(***************************************************************************)

CONSTANTS Keys,       \* idempotency keys
          BrokerIds,  \* order ids the broker may hand out
          Submits,    \* slots for submit requests
          Cancels,    \* slots for cancel requests
          NoKey, NoId

ASSUME OrdersAssumption == NoKey \notin Keys /\ NoId \notin BrokerIds

VARIABLES row,      \* order_event, one row per idempotency key
          order,    \* the broker's order book, by broker order id
          submit,   \* submit requests in flight
          cancel,   \* cancel requests in flight
          trouble   \* history: per key, see above

vars == <<row, order, submit, cancel, trouble>>

-----------------------------------------------------------------------------
Status == {"none", "pending", "accepted", "failed", "cancelling", "cancelled"}

\* sent: on its way to the broker; taken / refused: the broker has acted and
\* its answer is on its way back.
Call == {"none", "sent", "taken", "refused"}

IdleSubmit == [pc |-> "idle", key |-> NoKey, call |-> "none", id |-> NoId]
IdleCancel == [pc |-> "idle", key |-> NoKey, call |-> "none", id |-> NoId,
               prior |-> "none"]

RowType    == [status : Status, alpacaId : BrokerIds \cup {NoId}]
OrderType  == [key    : Keys \cup {NoKey},
               client : Keys \cup {NoKey},
               state  : {"unused", "open", "closed", "cancelled"}]
SubmitType == [pc   : {"idle", "create", "await", "markFailed", "gone"},
               key  : Keys \cup {NoKey},
               call : Call,
               id   : BrokerIds \cup {NoId}]
CancelType == [pc    : {"idle", "mark", "await", "finish", "gone"},
               key   : Keys \cup {NoKey},
               call  : Call,
               id    : BrokerIds \cup {NoId},
               prior : Status]

TypeOK ==
    /\ row \in [Keys -> RowType]
    /\ order \in [BrokerIds -> OrderType]
    /\ submit \in [Submits -> SubmitType]
    /\ cancel \in [Cancels -> CancelType]
    /\ trouble \in [Keys -> SUBSET {"contended", "interrupted"}]

Init ==
    /\ row = [k \in Keys |-> [status |-> "none", alpacaId |-> NoId]]
    /\ order = [i \in BrokerIds |->
                  [key |-> NoKey, client |-> NoKey, state |-> "unused"]]
    /\ submit = [s \in Submits |-> IdleSubmit]
    /\ cancel = [c \in Cancels |-> IdleCancel]
    /\ trouble = [k \in Keys |-> {}]

-----------------------------------------------------------------------------
(* The database.                                                           *)

\* Operators named Mutant... are slips of the definition that follows them.
\* They are used by no definition: they show that a property notices.

\* An upsert that resets the row on conflict.
MutantInsertPending(k) ==
    row' = [row EXCEPT ![k] = [status |-> "pending", alpacaId |-> NoId]]

\* INSERT ... ON CONFLICT (idempotency_key) DO UPDATE SET status = its own
\* status: a row that exists is left as it is.
InsertPending(k) ==
    row' = [row EXCEPT ![k] = IF @.status = "none"
                              THEN [status |-> "pending", alpacaId |-> NoId]
                              ELSE @]

\* UPDATE ... SET status = $3, alpaca_order_id = COALESCE(NULL, alpaca_order_id):
\* whatever the status was.
SetStatus(k, status) == row' = [row EXCEPT ![k].status = status]

\* A finalize that forgets the broker's order id.
MutantSetAccepted(k, id) == row' = [row EXCEPT ![k].status = "accepted"]

SetAccepted(k, id) ==
    row' = [row EXCEPT ![k] = [status |-> "accepted", alpacaId |-> id]]

-----------------------------------------------------------------------------
(* Requests in flight, and the history of a key.                           *)

SubmitActive(s) == submit[s].pc \in {"create", "await", "markFailed"}
CancelActive(c) == cancel[c].pc \in {"mark", "await", "finish"}

InFlight(k) ==
    \/ \E s \in Submits : SubmitActive(s) /\ submit[s].key = k
    \/ \E c \in Cancels : CancelActive(c) /\ cancel[c].key = k

\* Two requests on one key at once, or a call to the broker cut off or its
\* answer lost.
Contend(k) == trouble' = [trouble EXCEPT ![k] = @ \cup {"contended"}]
ContendIf(k, P) == IF P THEN Contend(k) ELSE UNCHANGED trouble
\* The process died, or a statement failed, in the middle of a request.
Interrupt(k) == trouble' = [trouble EXCEPT ![k] = @ \cup {"interrupted"}]

EndSubmit(s) == submit' = [submit EXCEPT ![s] = IdleSubmit]
EndCancel(c) == cancel' = [cancel EXCEPT ![c] = IdleCancel]

\* The request is over; a call not yet answered stays under way.
LeaveSubmit(r) ==
    IF r.call = "sent" THEN [r EXCEPT !.pc = "gone"] ELSE IdleSubmit
LeaveCancel(r) ==
    IF r.call = "sent" THEN [r EXCEPT !.pc = "gone"] ELSE IdleCancel

-----------------------------------------------------------------------------
(* submitOrder                                                             *)

\* A lookup that turns only 'pending' rows away.
MutantSubmitOrder(s, k) ==
    /\ submit[s].pc = "idle"
    /\ row[k].status # "pending"
    /\ submit' = [submit EXCEPT ![s] = [IdleSubmit EXCEPT !.pc = "create", !.key = k]]
    /\ ContendIf(k, InFlight(k))
    /\ UNCHANGED <<row, order, cancel>>

\* A submit request arrives and looks its key up.  An 'accepted' or
\* 'pending' row is returned as it is (no step here: nothing changes);
\* otherwise the request goes on to the insert.
SubmitOrder(s, k) ==
    /\ submit[s].pc = "idle"
    /\ row[k].status \notin {"accepted", "pending"}
    /\ submit' = [submit EXCEPT ![s] = [IdleSubmit EXCEPT !.pc = "create", !.key = k]]
    /\ ContendIf(k, InFlight(k))
    /\ UNCHANGED <<row, order, cancel>>

\* The broker is called before the row is inserted.
MutantCreateOrder(s) ==
    /\ submit[s].pc = "create"
    /\ submit' = [submit EXCEPT ![s].pc = "await", ![s].call = "sent"]
    /\ UNCHANGED <<row, order, cancel, trouble>>

\* createOrder commits and the call to the broker goes out.
CreateOrder(s) ==
    /\ submit[s].pc = "create"
    /\ InsertPending(submit[s].key)
    /\ submit' = [submit EXCEPT ![s].pc = "await", ![s].call = "sent"]
    /\ UNCHANGED <<order, cancel, trouble>>

\* createOrder throws (the statement may still have been applied): the
\* broker is not called.
CreateOrderFails(s) ==
    /\ submit[s].pc = "create"
    /\ InsertPending(submit[s].key) \/ UNCHANGED row
    /\ EndSubmit(s)
    /\ Interrupt(submit[s].key)
    /\ UNCHANGED <<order, cancel>>

\* 2xx from the adapter: the row is finalized with the broker's order id.
FinalizeAccepted(s) ==
    /\ submit[s].pc = "await"
    /\ submit[s].call = "taken"
    /\ SetAccepted(submit[s].key, submit[s].id)
    /\ EndSubmit(s)
    /\ UNCHANGED <<order, cancel, trouble>>

\* The finalizing update throws; the error goes to the caller.
FinalizeFails(s) ==
    /\ submit[s].pc = "await"
    /\ submit[s].call = "taken"
    /\ SetAccepted(submit[s].key, submit[s].id) \/ UNCHANGED row
    /\ EndSubmit(s)
    /\ Interrupt(submit[s].key)
    /\ UNCHANGED <<order, cancel>>

\* Non-ok from the adapter: the row becomes 'failed' and the request ends.
RecordRefusal(s) ==
    /\ submit[s].pc = "await"
    /\ submit[s].call = "refused"
    /\ SetStatus(submit[s].key, "failed")
    /\ EndSubmit(s)
    /\ UNCHANGED <<order, cancel, trouble>>

\* That update throws: not a BrokerError, so the catch block tries once more.
RecordRefusalFails(s) ==
    /\ submit[s].pc = "await"
    /\ submit[s].call = "refused"
    /\ SetStatus(submit[s].key, "failed") \/ UNCHANGED row
    /\ submit' = [submit EXCEPT ![s].pc = "markFailed", ![s].call = "none"]
    /\ Interrupt(submit[s].key)
    /\ UNCHANGED <<order, cancel>>

RetryRecordRefusal(s) ==
    /\ submit[s].pc = "markFailed"
    /\ SetStatus(submit[s].key, "failed") \/ UNCHANGED row
    /\ EndSubmit(s)
    /\ UNCHANGED <<order, cancel, trouble>>

\* A catch block that rethrows without marking the row.
MutantAbortSubmit(s) ==
    /\ submit[s].pc = "await"
    /\ submit' = [submit EXCEPT ![s] = LeaveSubmit(@)]
    /\ Contend(submit[s].key)
    /\ UNCHANGED <<row, order, cancel>>

\* Timeout, network error or unreadable answer, whatever became of the call:
\* the catch block marks the row 'failed'.
AbortSubmit(s) ==
    /\ submit[s].pc = "await"
    /\ SetStatus(submit[s].key, "failed")
    /\ submit' = [submit EXCEPT ![s] = LeaveSubmit(@)]
    /\ Contend(submit[s].key)
    /\ UNCHANGED <<order, cancel>>

\* ... and if that update throws it is only logged: the row stays as it is.
AbortSubmitFails(s) ==
    /\ submit[s].pc = "await"
    /\ submit' = [submit EXCEPT ![s] = LeaveSubmit(@)]
    /\ Interrupt(submit[s].key)
    /\ UNCHANGED <<row, order, cancel>>

-----------------------------------------------------------------------------
(* cancelOrder                                                             *)

\* A cancel request reads the row.  No row, or an already cancelled one, is
\* answered at once.  Without a broker order id the broker is not contacted.
CancelOrder(c, k) ==
    /\ cancel[c].pc = "idle"
    /\ row[k].status \notin {"none", "cancelled"}
    /\ cancel' = [cancel EXCEPT ![c] =
          [pc    |-> IF row[k].alpacaId = NoId THEN "finish" ELSE "mark",
           key   |-> k, call |-> "none",
           id    |-> row[k].alpacaId,
           prior |-> row[k].status]]
    /\ ContendIf(k, InFlight(k))
    /\ UNCHANGED <<row, order, submit>>

\* Alpaca's own spelling: the column is free text and would take it.
MutantMarkCancelling(c) ==
    /\ cancel[c].pc = "mark"
    /\ SetStatus(cancel[c].key, "pending_cancel")
    /\ cancel' = [cancel EXCEPT ![c].pc = "await", ![c].call = "sent"]
    /\ UNCHANGED <<order, submit, trouble>>

\* 'cancelling' is written, whatever the status is by now, and the DELETE
\* goes out.
MarkCancelling(c) ==
    /\ cancel[c].pc = "mark"
    /\ SetStatus(cancel[c].key, "cancelling")
    /\ cancel' = [cancel EXCEPT ![c].pc = "await", ![c].call = "sent"]
    /\ UNCHANGED <<order, submit, trouble>>

\* The update throws (applied or not): the broker is not called.
MarkCancellingFails(c) ==
    /\ cancel[c].pc = "mark"
    /\ SetStatus(cancel[c].key, "cancelling") \/ UNCHANGED row
    /\ EndCancel(c)
    /\ Interrupt(cancel[c].key)
    /\ UNCHANGED <<order, submit>>

\* 2xx from the adapter, or nothing to ask it: the row becomes 'cancelled'.
CancelDue(c) ==
    \/ cancel[c].pc = "finish"
    \/ cancel[c].pc = "await" /\ cancel[c].call = "taken"

FinalizeCancelled(c) ==
    /\ CancelDue(c)
    /\ SetStatus(cancel[c].key, "cancelled")
    /\ EndCancel(c)
    /\ UNCHANGED <<order, submit, trouble>>

FinalizeCancelledFails(c) ==
    /\ CancelDue(c)
    /\ SetStatus(cancel[c].key, "cancelled") \/ UNCHANGED row
    /\ EndCancel(c)
    /\ Interrupt(cancel[c].key)
    /\ UNCHANGED <<order, submit>>

\* Non-ok from the adapter: the status read at the start is written back.
RestoreStatus(c) ==
    /\ cancel[c].pc = "await"
    /\ cancel[c].call = "refused"
    /\ SetStatus(cancel[c].key, cancel[c].prior)
    /\ EndCancel(c)
    /\ UNCHANGED <<order, submit, trouble>>

\* Timeout or network error, whatever became of the call: the same.
AbortCancel(c) ==
    /\ cancel[c].pc = "await"
    /\ SetStatus(cancel[c].key, cancel[c].prior)
    /\ cancel' = [cancel EXCEPT ![c] = LeaveCancel(@)]
    /\ Contend(cancel[c].key)
    /\ UNCHANGED <<order, submit>>

\* In both cases a failing restore is only logged.
RestoreStatusFails(c) ==
    /\ cancel[c].pc = "await"
    /\ cancel' = [cancel EXCEPT ![c] = LeaveCancel(@)]
    /\ Interrupt(cancel[c].key)
    /\ UNCHANGED <<row, order, submit>>

-----------------------------------------------------------------------------
(* The adapter and the broker.                                             *)

\* An adapter that lets the broker generate the client order id.
MutantClientOrderId(k) == NoKey

\* The adapter forwards the idempotency key as client_order_id.
ClientOrderId(k) == k

\* The broker takes a client order id once, whatever became of that order.
Duplicate(k) ==
    /\ ClientOrderId(k) # NoKey
    /\ \E i \in BrokerIds : order[i].state # "unused" /\ order[i].client = ClientOrderId(k)

BrokerAccepts(s, i) ==
    /\ submit[s].call = "sent"
    /\ ~Duplicate(submit[s].key)
    /\ order[i].state = "unused"
    /\ order' = [order EXCEPT ![i] = [key    |-> submit[s].key,
                                      client |-> ClientOrderId(submit[s].key),
                                      state  |-> "open"]]
    /\ submit' = [submit EXCEPT ![s] =
                    IF @.pc = "gone" THEN IdleSubmit ELSE [@ EXCEPT !.call = "taken", !.id = i]]
    /\ UNCHANGED <<row, cancel, trouble>>

\* A duplicate, an order the account cannot afford, or (pc = "gone") a call
\* that never arrived.
BrokerRefuses(s) ==
    /\ submit[s].call = "sent"
    /\ submit' = [submit EXCEPT ![s] =
                    IF @.pc = "gone" THEN IdleSubmit ELSE [@ EXCEPT !.call = "refused"]]
    /\ UNCHANGED <<row, order, cancel, trouble>>

\* The broker has taken the order, but its answer does not reach the adapter,
\* which has no retry and answers 500.
AnswerLost(s) ==
    /\ submit[s].call = "taken"
    /\ submit' = [submit EXCEPT ![s].call = "refused"]
    /\ Contend(submit[s].key)
    /\ UNCHANGED <<row, order, cancel>>

BrokerCancels(c) ==
    /\ cancel[c].call = "sent"
    /\ order[cancel[c].id].state = "open"
    /\ order' = [order EXCEPT ![cancel[c].id].state = "cancelled"]
    /\ cancel' = [cancel EXCEPT ![c] =
                    IF @.pc = "gone" THEN IdleCancel ELSE [@ EXCEPT !.call = "taken"]]
    /\ UNCHANGED <<row, submit, trouble>>

\* The order is not open any more, or the DELETE failed or never arrived.
BrokerRefusesCancel(c) ==
    /\ cancel[c].call = "sent"
    /\ cancel' = [cancel EXCEPT ![c] =
                    IF @.pc = "gone" THEN IdleCancel ELSE [@ EXCEPT !.call = "refused"]]
    /\ UNCHANGED <<row, order, submit, trouble>>

CancelAnswerLost(c) ==
    /\ cancel[c].call = "taken"
    /\ cancel' = [cancel EXCEPT ![c].call = "refused"]
    /\ Contend(cancel[c].key)
    /\ UNCHANGED <<row, order, submit>>

\* An open order is filled or expires.  Nothing tells the orders service.
BrokerCloses(i) ==
    /\ order[i].state = "open"
    /\ order' = [order EXCEPT ![i].state = "closed"]
    /\ UNCHANGED <<row, submit, cancel, trouble>>

-----------------------------------------------------------------------------
\* The process dies and comes back with nothing in memory; calls already on
\* their way may still reach the broker.
Crash ==
    /\ \E k \in Keys : InFlight(k)
    /\ submit' = [s \in Submits |->
                    IF SubmitActive(s) THEN LeaveSubmit(submit[s]) ELSE submit[s]]
    /\ cancel' = [c \in Cancels |->
                    IF CancelActive(c) THEN LeaveCancel(cancel[c]) ELSE cancel[c]]
    /\ trouble' = [k \in Keys |->
                    IF InFlight(k) THEN trouble[k] \cup {"interrupted"} ELSE trouble[k]]
    /\ UNCHANGED <<row, order>>

SubmitStep(s) ==
    \/ \E k \in Keys : SubmitOrder(s, k)
    \/ CreateOrder(s)        \/ CreateOrderFails(s)
    \/ FinalizeAccepted(s)   \/ FinalizeFails(s)
    \/ RecordRefusal(s)      \/ RecordRefusalFails(s) \/ RetryRecordRefusal(s)
    \/ AbortSubmit(s)        \/ AbortSubmitFails(s)

CancelStep(c) ==
    \/ \E k \in Keys : CancelOrder(c, k)
    \/ MarkCancelling(c)     \/ MarkCancellingFails(c)
    \/ FinalizeCancelled(c)  \/ FinalizeCancelledFails(c)
    \/ RestoreStatus(c)      \/ AbortCancel(c)        \/ RestoreStatusFails(c)

BrokerStep ==
    \/ \E s \in Submits :
          BrokerRefuses(s) \/ AnswerLost(s) \/ \E i \in BrokerIds : BrokerAccepts(s, i)
    \/ \E c \in Cancels : BrokerCancels(c) \/ BrokerRefusesCancel(c) \/ CancelAnswerLost(c)
    \/ \E i \in BrokerIds : BrokerCloses(i)

Next ==
    \/ \E s \in Submits : SubmitStep(s)
    \/ \E c \in Cancels : CancelStep(c)
    \/ BrokerStep
    \/ Crash

Spec == Init /\ [][Next]_vars

-----------------------------------------------------------------------------
(* Properties                                                              *)

OrdersOf(k) == {i \in BrokerIds : order[i].state # "unused" /\ order[i].key = k}

\* A key is worth at most one broker order: whatever is retried, overlapped,
\* timed out or interrupted, the same intent is never bought twice.
OneOrderPerKey ==
    \A k \in Keys : \A i, j \in OrdersOf(k) : i = j

\* The row is durable before the broker is called: no broker order without a
\* row that a reconciler could find, also after a crash.
OrderHasRow ==
    \A k \in Keys : OrdersOf(k) # {} => row[k].status # "none"

\* A row shown as accepted (or on its way to being cancelled) carries the id
\* of an order the broker really took for that key.
AcceptedIsBacked ==
    \A k \in Keys :
        /\ row[k].status \in {"accepted", "cancelling"} => row[k].alpacaId # NoId
        /\ row[k].alpacaId # NoId => row[k].alpacaId \in OrdersOf(k)

\* A row is left 'pending' with nobody to resolve it only by a crash or a
\* failed statement: timeouts, refusals and overlapping requests and cancels
\* always move it on.  (Retries of a pending key are turned away, so such a
\* row would block its key.)
PendingIsOwned ==
    \A k \in Keys :
        row[k].status = "pending" =>
            \/ "interrupted" \in trouble[k]
            \/ \E s \in Submits : SubmitActive(s) /\ submit[s].key = k

\* When requests on a key came one after the other and none was cut off, the
\* row agrees with the broker as soon as the key is at rest: it is 'accepted'
\* exactly while the service believes in a live or filled order, and no
\* intermediate status is left behind.
QuietKeyAgrees ==
    \A k \in Keys :
        trouble[k] = {} /\ ~InFlight(k) =>
            /\ row[k].status \notin {"pending", "cancelling"}
            /\ row[k].status = "accepted" <=>
                 \E i \in OrdersOf(k) : order[i].state \in {"open", "closed"}

\* The service implements OrderContract: one order per key, over means over,
\* and the id shown for a key never changes.
Contract == INSTANCE OrderContract WITH
    placed <- [k \in Keys |-> OrdersOf(k)],
    live   <- {i \in BrokerIds : order[i].state = "open"},
    known  <- [k \in Keys |-> row[k].alpacaId]

ImplementsContract == Contract!Spec

-----------------------------------------------------------------------------
(* Claims of the source that the code does not live up to.                 *)

\* "On broker success, finalize to 'cancelled'" (ordersService.ts:121): a
\* cancelled row has no order left at the broker that could still be filled.
CancelledAtBroker ==
    \A k \in Keys :
        row[k].status = "cancelled" => \A i \in OrdersOf(k) : order[i].state # "open"

\* "restore state so the row doesn't get stuck in 'cancelling'"
\* (ordersService.ts:144-145): a row is left 'cancelling' only by a crash or
\* a failed statement.
CancellingIsOwned ==
    \A k \in Keys :
        row[k].status = "cancelling" =>
            \/ "interrupted" \in trouble[k]
            \/ \E c \in Cancels : CancelActive(c) /\ cancel[c].key = k
=============================================================================
