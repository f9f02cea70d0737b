---------------------------- MODULE OrdersProofs ----------------------------
(***************************************************************************)
(* Theorems about the orders service, for any sets of keys, broker order   *)
(* ids and request slots.                                                  *)
(***************************************************************************)
EXTENDS Orders, TLAPS

-----------------------------------------------------------------------------
(* The inductive invariant: what the requests in flight know is true.      *)

\* A request past its insert has a row; a call on its way carries such a key.
SubmitHasRow ==
    \A s \in Submits :
        /\ SubmitActive(s) => submit[s].key \in Keys
        /\ submit[s].pc \in {"await", "markFailed"} \/ submit[s].call # "none" =>
              submit[s].key \in Keys /\ row[submit[s].key].status # "none"

\* An answer "taken" names an order the broker took for the request's key.
SubmitAnswerIsTrue ==
    \A s \in Submits :
        submit[s].call = "taken" => submit[s].id \in OrdersOf(submit[s].key)

\* A cancel holds the id its row had when it was read, and ids never go away.
CancelKnowsRow ==
    \A c \in Cancels :
        CancelActive(c) =>
            /\ cancel[c].key \in Keys
            /\ row[cancel[c].key].status # "none"
            /\ cancel[c].prior # "none"
            /\ cancel[c].pc \in {"mark", "await"} =>
                  /\ row[cancel[c].key].alpacaId # NoId
                  /\ cancel[c].prior # "pending"

\* What is on its way to the broker as a DELETE names a real order.
CancelNamesOrder ==
    \A c \in Cancels :
        /\ cancel[c].pc \in {"mark", "await"} => cancel[c].id \in BrokerIds
        /\ cancel[c].call # "none" => cancel[c].id \in BrokerIds

\* Every order in the book carries its key as client order id.
OrderIsTagged ==
    \A i \in BrokerIds :
        order[i].state # "unused" =>
            order[i].key \in Keys /\ order[i].client = ClientOrderId(order[i].key)

\* A row without an id was never accepted, one with an id is not pending.
RowIdMatchesStatus ==
    \A k \in Keys : row[k].status \in {"none", "pending"} => row[k].alpacaId = NoId

IInv ==
    /\ TypeOK
    /\ SubmitHasRow
    /\ SubmitAnswerIsTrue
    /\ CancelKnowsRow
    /\ CancelNamesOrder
    /\ OrderIsTagged
    /\ RowIdMatchesStatus
    /\ OneOrderPerKey
    /\ OrderHasRow
    /\ AcceptedIsBacked

-----------------------------------------------------------------------------
LEMMA InitIInv == Init => IInv
  BY OrdersAssumption
  DEF Init, IInv, TypeOK, RowType, OrderType, SubmitType, CancelType, Status, Call,
      IdleSubmit, IdleCancel, SubmitActive, CancelActive,
      SubmitHasRow, SubmitAnswerIsTrue, CancelKnowsRow, CancelNamesOrder, OrderIsTagged,
      RowIdMatchesStatus, OneOrderPerKey, OrderHasRow, AcceptedIsBacked, OrdersOf

\* Every step keeps the types: a request that acts has a key of its own.
LEMMA NextTypeOK ==
    ASSUME IInv, [Next]_vars
    PROVE  TypeOK'
  <1> USE OrdersAssumption
      DEF IInv, TypeOK, RowType, OrderType, SubmitType, CancelType, Status, Call,
          SubmitHasRow, CancelKnowsRow, CancelNamesOrder, SubmitActive, CancelActive
  <1>1. ASSUME NEW s \in Submits, NEW k \in Keys, SubmitOrder(s, k) PROVE TypeOK'
    <2>1. row' \in [Keys -> RowType]
      BY <1>1 DEF SubmitOrder, ContendIf, Contend, IdleSubmit
    <2>2. order' \in [BrokerIds -> OrderType]
      BY <1>1 DEF SubmitOrder, ContendIf, Contend, IdleSubmit
    <2>3. submit' \in [Submits -> SubmitType]
      BY <1>1 DEF SubmitOrder, ContendIf, Contend, IdleSubmit
    <2>4. cancel' \in [Cancels -> CancelType]
      BY <1>1 DEF SubmitOrder, ContendIf, Contend, IdleSubmit
    <2>5. trouble' \in [Keys -> SUBSET {"contended", "interrupted"}]
      BY <1>1 DEF SubmitOrder, ContendIf, Contend, IdleSubmit
    <2> QED BY <2>1, <2>2, <2>3, <2>4, <2>5
  <1>2. ASSUME NEW s \in Submits, CreateOrder(s) PROVE TypeOK'
    <2>1. row' \in [Keys -> RowType]
      BY <1>2 DEF CreateOrder, InsertPending
    <2>2. order' \in [BrokerIds -> OrderType]
      BY <1>2 DEF CreateOrder, InsertPending
    <2>3. submit' \in [Submits -> SubmitType]
      <3>1. [submit[s] EXCEPT !.pc = "await", !.call = "sent"] \in SubmitType
        <4>1. submit[s] \in SubmitType
          OBVIOUS
        <4> QED BY ONLY <4>1 DEF SubmitType, Call
      <3>2. submit' = [submit EXCEPT ![s] = [submit[s] EXCEPT !.pc = "await", !.call = "sent"]]
        BY <1>2 DEF CreateOrder
      <3> QED BY ONLY <3>1, <3>2, IInv DEF IInv, TypeOK
    <2>4. cancel' \in [Cancels -> CancelType]
      BY <1>2 DEF CreateOrder, InsertPending
    <2>5. trouble' \in [Keys -> SUBSET {"contended", "interrupted"}]
      BY <1>2 DEF CreateOrder, InsertPending
    <2> QED BY <2>1, <2>2, <2>3, <2>4, <2>5
  <1>3. ASSUME NEW s \in Submits, CreateOrderFails(s) PROVE TypeOK'
    BY <1>3 DEF CreateOrderFails, InsertPending, EndSubmit, IdleSubmit, Interrupt
  <1>4. ASSUME NEW s \in Submits, FinalizeAccepted(s) PROVE TypeOK'
    BY <1>4 DEF FinalizeAccepted, SetAccepted, EndSubmit, IdleSubmit
  <1>5. ASSUME NEW s \in Submits, FinalizeFails(s) PROVE TypeOK'
    <2>1. row' \in [Keys -> RowType]
      BY <1>5 DEF FinalizeFails, SetAccepted, EndSubmit, IdleSubmit, Interrupt
    <2>2. order' \in [BrokerIds -> OrderType]
      BY <1>5 DEF FinalizeFails, SetAccepted, EndSubmit, IdleSubmit, Interrupt
    <2>3. submit' \in [Submits -> SubmitType]
      BY <1>5 DEF FinalizeFails, SetAccepted, EndSubmit, IdleSubmit, Interrupt
    <2>4. cancel' \in [Cancels -> CancelType]
      BY <1>5 DEF FinalizeFails, SetAccepted, EndSubmit, IdleSubmit, Interrupt
    <2>5. trouble' \in [Keys -> SUBSET {"contended", "interrupted"}]
      BY <1>5 DEF FinalizeFails, SetAccepted, EndSubmit, IdleSubmit, Interrupt
    <2> QED BY <2>1, <2>2, <2>3, <2>4, <2>5
  <1>6. ASSUME NEW s \in Submits, RecordRefusal(s) PROVE TypeOK'
    BY <1>6 DEF RecordRefusal, SetStatus, EndSubmit, IdleSubmit
  <1>7. ASSUME NEW s \in Submits, RecordRefusalFails(s) PROVE TypeOK'
    BY <1>7 DEF RecordRefusalFails, SetStatus, Interrupt
  <1>8. ASSUME NEW s \in Submits, RetryRecordRefusal(s) PROVE TypeOK'
    <2>1. row' \in [Keys -> RowType]
      BY <1>8, SMTT(30) DEF RetryRecordRefusal, SetStatus, EndSubmit, IdleSubmit
    <2>2. order' \in [BrokerIds -> OrderType]
      BY <1>8 DEF RetryRecordRefusal, SetStatus, EndSubmit, IdleSubmit
    <2>3. submit' \in [Submits -> SubmitType]
      BY <1>8 DEF RetryRecordRefusal, SetStatus, EndSubmit, IdleSubmit
    <2>4. cancel' \in [Cancels -> CancelType]
      BY <1>8 DEF RetryRecordRefusal, SetStatus, EndSubmit, IdleSubmit
    <2>5. trouble' \in [Keys -> SUBSET {"contended", "interrupted"}]
      BY <1>8 DEF RetryRecordRefusal, SetStatus, EndSubmit, IdleSubmit
    <2> QED BY <2>1, <2>2, <2>3, <2>4, <2>5
  <1>9. ASSUME NEW s \in Submits, AbortSubmit(s) PROVE TypeOK'
    BY <1>9, SMTT(30) DEF AbortSubmit, SetStatus, LeaveSubmit, IdleSubmit, Contend
  <1>10. ASSUME NEW s \in Submits, AbortSubmitFails(s) PROVE TypeOK'
    BY <1>10, SMTT(30) DEF AbortSubmitFails, LeaveSubmit, IdleSubmit, Interrupt
  <1>11. ASSUME NEW s \in Submits, BrokerRefuses(s) PROVE TypeOK'
    BY <1>11, SMTT(30) DEF BrokerRefuses, IdleSubmit
  <1>12. ASSUME NEW s \in Submits, NEW i \in BrokerIds, BrokerAccepts(s, i) PROVE TypeOK'
    <2>1. row' \in [Keys -> RowType]
      BY <1>12 DEF BrokerAccepts, IdleSubmit, ClientOrderId, Duplicate
    <2>2. order' \in [BrokerIds -> OrderType]
      BY <1>12 DEF BrokerAccepts, IdleSubmit, ClientOrderId, Duplicate
    <2>3. submit' \in [Submits -> SubmitType]
      <3>1. IdleSubmit \in SubmitType /\ [submit[s] EXCEPT !.call = "taken",
      !.id = i] \in SubmitType
        <4>1. submit[s] \in SubmitType
          OBVIOUS
        <4> QED BY ONLY <4>1, i \in BrokerIds DEF SubmitType, IdleSubmit, Call
      <3>2. \/ submit' = [submit EXCEPT ![s] = IdleSubmit]
            \/ submit' = [submit EXCEPT ![s] = [submit[s] EXCEPT !.call = "taken", !.id = i]]
        BY <1>12, ZenonT(40) DEF BrokerAccepts
      <3> QED BY ONLY <3>1, <3>2, IInv, ZenonT(40) DEF IInv, TypeOK
    <2>4. cancel' \in [Cancels -> CancelType]
      BY <1>12 DEF BrokerAccepts, IdleSubmit, ClientOrderId, Duplicate
    <2>5. trouble' \in [Keys -> SUBSET {"contended", "interrupted"}]
      BY <1>12 DEF BrokerAccepts, IdleSubmit, ClientOrderId, Duplicate
    <2> QED BY <2>1, <2>2, <2>3, <2>4, <2>5
  <1>13. ASSUME NEW c \in Cancels, NEW k \in Keys, CancelOrder(c, k) PROVE TypeOK'
    <2>1. row' \in [Keys -> RowType]
      BY <1>13 DEF CancelOrder, ContendIf, Contend
    <2>2. order' \in [BrokerIds -> OrderType]
      BY <1>13 DEF CancelOrder, ContendIf, Contend
    <2>3. submit' \in [Submits -> SubmitType]
      BY <1>13 DEF CancelOrder, ContendIf, Contend
    <2>4. cancel' \in [Cancels -> CancelType]
      BY <1>13 DEF CancelOrder, ContendIf, Contend
    <2>5. trouble' \in [Keys -> SUBSET {"contended", "interrupted"}]
      BY <1>13, SMTT(30) DEF CancelOrder, ContendIf, Contend
    <2> QED BY <2>1, <2>2, <2>3, <2>4, <2>5
  <1>14. ASSUME NEW c \in Cancels, MarkCancelling(c) PROVE TypeOK'
    <2>1. row' \in [Keys -> RowType]
      BY <1>14 DEF MarkCancelling, SetStatus
    <2>2. order' \in [BrokerIds -> OrderType]
      BY <1>14 DEF MarkCancelling, SetStatus
    <2>3. submit' \in [Submits -> SubmitType]
      BY <1>14 DEF MarkCancelling, SetStatus
    <2>4. cancel' \in [Cancels -> CancelType]
      <3>1. [cancel[c] EXCEPT !.pc = "await", !.call = "sent"] \in CancelType
        <4>1. cancel[c] \in CancelType
          OBVIOUS
        <4> QED BY ONLY <4>1 DEF CancelType, Call
      <3>2. cancel' = [cancel EXCEPT ![c] = [cancel[c] EXCEPT !.pc = "await", !.call = "sent"]]
        BY <1>14 DEF MarkCancelling
      <3> QED BY ONLY <3>1, <3>2, IInv DEF IInv, TypeOK
    <2>5. trouble' \in [Keys -> SUBSET {"contended", "interrupted"}]
      BY <1>14 DEF MarkCancelling, SetStatus
    <2> QED BY <2>1, <2>2, <2>3, <2>4, <2>5
  <1>15. ASSUME NEW c \in Cancels, MarkCancellingFails(c) PROVE TypeOK'
    BY <1>15, SMTT(30) DEF MarkCancellingFails, SetStatus, EndCancel, IdleCancel, Interrupt
  <1>16. ASSUME NEW c \in Cancels, FinalizeCancelled(c) PROVE TypeOK'
    BY <1>16 DEF FinalizeCancelled, CancelDue, SetStatus, EndCancel, IdleCancel
  <1>17. ASSUME NEW c \in Cancels, FinalizeCancelledFails(c) PROVE TypeOK'
    <2>1. row' \in [Keys -> RowType]
      BY <1>17 DEF FinalizeCancelledFails, CancelDue, SetStatus, EndCancel, IdleCancel,
         Interrupt
    <2>2. order' \in [BrokerIds -> OrderType]
      BY <1>17 DEF FinalizeCancelledFails, CancelDue, SetStatus, EndCancel, IdleCancel,
         Interrupt
    <2>3. submit' \in [Submits -> SubmitType]
      BY <1>17 DEF FinalizeCancelledFails, CancelDue, SetStatus, EndCancel, IdleCancel,
         Interrupt
    <2>4. cancel' \in [Cancels -> CancelType]
      BY <1>17 DEF FinalizeCancelledFails, CancelDue, SetStatus, EndCancel, IdleCancel,
         Interrupt
    <2>5. trouble' \in [Keys -> SUBSET {"contended", "interrupted"}]
      BY <1>17 DEF FinalizeCancelledFails, CancelDue, SetStatus, EndCancel, IdleCancel,
         Interrupt
    <2> QED BY <2>1, <2>2, <2>3, <2>4, <2>5
  <1>18. ASSUME NEW c \in Cancels, RestoreStatus(c) PROVE TypeOK'
    BY <1>18 DEF RestoreStatus, SetStatus, EndCancel, IdleCancel
  <1>19. ASSUME NEW c \in Cancels, AbortCancel(c) PROVE TypeOK'
    BY <1>19 DEF AbortCancel, SetStatus, LeaveCancel, IdleCancel, Contend
  <1>20. ASSUME NEW c \in Cancels, RestoreStatusFails(c) PROVE TypeOK'
    BY <1>20 DEF RestoreStatusFails, LeaveCancel, IdleCancel, Interrupt
  <1>21. ASSUME NEW c \in Cancels, BrokerCancels(c) PROVE TypeOK'
    <2>1. row' \in [Keys -> RowType]
      BY <1>21 DEF BrokerCancels, IdleCancel
    <2>2. order' \in [BrokerIds -> OrderType]
      BY <1>21, SMTT(30) DEF BrokerCancels, IdleCancel
    <2>3. submit' \in [Submits -> SubmitType]
      BY <1>21 DEF BrokerCancels, IdleCancel
    <2>4. cancel' \in [Cancels -> CancelType]
      BY <1>21 DEF BrokerCancels, IdleCancel
    <2>5. trouble' \in [Keys -> SUBSET {"contended", "interrupted"}]
      BY <1>21 DEF BrokerCancels, IdleCancel
    <2> QED BY <2>1, <2>2, <2>3, <2>4, <2>5
  <1>22. ASSUME NEW c \in Cancels, BrokerRefusesCancel(c) PROVE TypeOK'
    BY <1>22, SMTT(30) DEF BrokerRefusesCancel, IdleCancel
  <1>23. ASSUME NEW i \in BrokerIds, BrokerCloses(i) PROVE TypeOK'
    BY <1>23 DEF BrokerCloses
  <1>24. CASE Crash
    <2>1. row' \in [Keys -> RowType]
      BY <1>24 DEF Crash, InFlight, LeaveSubmit, LeaveCancel, IdleSubmit, IdleCancel
    <2>2. order' \in [BrokerIds -> OrderType]
      BY <1>24 DEF Crash, InFlight, LeaveSubmit, LeaveCancel, IdleSubmit, IdleCancel
    <2>3. submit' \in [Submits -> SubmitType]
      <3>1. \A s \in Submits : LeaveSubmit(submit[s]) \in SubmitType
        BY DEF LeaveSubmit, IdleSubmit
      <3>2. submit' = [s \in Submits |-> IF SubmitActive(s) THEN LeaveSubmit(submit[s]) ELSE submit[s]]
        BY <1>24 DEF Crash
      <3> QED BY ONLY <3>1, <3>2, IInv DEF IInv, TypeOK
    <2>4. cancel' \in [Cancels -> CancelType]
      BY <1>24 DEF Crash, InFlight, LeaveSubmit, LeaveCancel, IdleSubmit, IdleCancel
    <2>5. trouble' \in [Keys -> SUBSET {"contended", "interrupted"}]
      BY <1>24 DEF Crash, InFlight, LeaveSubmit, LeaveCancel, IdleSubmit, IdleCancel
    <2> QED BY <2>1, <2>2, <2>3, <2>4, <2>5
  <1>25. CASE UNCHANGED vars
    BY <1>25 DEF vars
  <1>26. ASSUME NEW s \in Submits, AnswerLost(s) PROVE TypeOK'
    <2>1. submit' \in [Submits -> SubmitType]
      <3>1. [submit[s] EXCEPT !.call = "refused"] \in SubmitType
        <4>1. submit[s] \in SubmitType
          OBVIOUS
        <4> QED BY ONLY <4>1 DEF SubmitType, Call
      <3>2. submit' = [submit EXCEPT ![s] = [submit[s] EXCEPT !.call = "refused"]]
        BY <1>26 DEF AnswerLost
      <3> QED BY ONLY <3>1, <3>2, IInv DEF IInv, TypeOK
    <2>2. trouble' \in [Keys -> SUBSET {"contended", "interrupted"}]
      BY <1>26 DEF AnswerLost, Contend
    <2>3. UNCHANGED <<row, order, cancel>>
      BY <1>26 DEF AnswerLost
    <2> QED BY <2>1, <2>2, <2>3
  <1>27. ASSUME NEW c \in Cancels, CancelAnswerLost(c) PROVE TypeOK'
    <2>1. cancel' \in [Cancels -> CancelType]
      <3>1. [cancel[c] EXCEPT !.call = "refused"] \in CancelType
        <4>1. cancel[c] \in CancelType
          OBVIOUS
        <4> QED BY ONLY <4>1 DEF CancelType, Call
      <3>2. cancel' = [cancel EXCEPT ![c] = [cancel[c] EXCEPT !.call = "refused"]]
        BY <1>27 DEF CancelAnswerLost
      <3> QED BY ONLY <3>1, <3>2, IInv DEF IInv, TypeOK
    <2>2. trouble' \in [Keys -> SUBSET {"contended", "interrupted"}]
      BY <1>27 DEF CancelAnswerLost, Contend
    <2>3. UNCHANGED <<row, order, submit>>
      BY <1>27 DEF CancelAnswerLost
    <2> QED BY <2>1, <2>2, <2>3
  <1> QED
    BY <1>1, <1>2, <1>3, <1>4, <1>5, <1>6, <1>7, <1>8, <1>9, <1>10, <1>11, <1>12, <1>13,
       <1>14, <1>15, <1>16, <1>17, <1>18, <1>19, <1>20, <1>21, <1>22, <1>23, <1>24, <1>25,
       <1>26, <1>27
    DEF Next, SubmitStep, CancelStep, BrokerStep

\* Every step keeps the rest of the invariant.
LEMMA NextIInv ==
    ASSUME IInv, [Next]_vars
    PROVE  IInv'
  <1> DEFINE Rest ==
        /\ SubmitHasRow
        /\ SubmitAnswerIsTrue
        /\ CancelKnowsRow
        /\ CancelNamesOrder
        /\ OrderIsTagged
        /\ RowIdMatchesStatus
        /\ OneOrderPerKey
        /\ OrderHasRow
        /\ AcceptedIsBacked
  <1> SUFFICES Rest'
    BY NextTypeOK DEF IInv
  <1> USE OrdersAssumption
      DEF IInv, TypeOK, RowType, OrderType, SubmitType, CancelType, Status, Call,
          SubmitActive, CancelActive, SubmitHasRow, SubmitAnswerIsTrue, CancelKnowsRow,
          CancelNamesOrder, OrderIsTagged, RowIdMatchesStatus, OneOrderPerKey, OrderHasRow,
          AcceptedIsBacked, OrdersOf, ClientOrderId
  <1>1. ASSUME NEW s \in Submits, NEW k \in Keys, SubmitOrder(s, k) PROVE Rest'
    <2>1. SubmitHasRow'
      BY <1>1 DEF SubmitOrder, ContendIf, Contend, IdleSubmit
    <2>2. SubmitAnswerIsTrue'
      BY <1>1 DEF SubmitOrder, ContendIf, Contend, IdleSubmit
    <2>3. CancelKnowsRow'
      BY <1>1 DEF SubmitOrder, ContendIf, Contend, IdleSubmit
    <2>4. CancelNamesOrder'
      BY <1>1 DEF SubmitOrder, ContendIf, Contend, IdleSubmit
    <2>5. OrderIsTagged'
      BY <1>1 DEF SubmitOrder, ContendIf, Contend, IdleSubmit
    <2>6. RowIdMatchesStatus'
      BY <1>1 DEF SubmitOrder, ContendIf, Contend, IdleSubmit
    <2>7. OneOrderPerKey'
      BY <1>1 DEF SubmitOrder, ContendIf, Contend, IdleSubmit
    <2>8. OrderHasRow'
      BY <1>1 DEF SubmitOrder, ContendIf, Contend, IdleSubmit
    <2>9. AcceptedIsBacked'
      BY <1>1 DEF SubmitOrder, ContendIf, Contend, IdleSubmit
    <2> QED BY <2>1, <2>2, <2>3, <2>4, <2>5, <2>6, <2>7, <2>8, <2>9
  <1>2. ASSUME NEW s \in Submits, CreateOrder(s) PROVE Rest'
    <2>1. SubmitHasRow'
      BY <1>2 DEF CreateOrder, InsertPending
    <2>2. SubmitAnswerIsTrue'
      BY <1>2 DEF CreateOrder, InsertPending
    <2>3. CancelKnowsRow'
      BY <1>2 DEF CreateOrder, InsertPending
    <2>4. CancelNamesOrder'
      BY <1>2 DEF CreateOrder, InsertPending
    <2>5. OrderIsTagged'
      BY <1>2 DEF CreateOrder, InsertPending
    <2>6. RowIdMatchesStatus'
      BY <1>2 DEF CreateOrder, InsertPending
    <2>7. OneOrderPerKey'
      BY <1>2 DEF CreateOrder, InsertPending
    <2>8. OrderHasRow'
      BY <1>2 DEF CreateOrder, InsertPending
    <2>9. AcceptedIsBacked'
      BY <1>2 DEF CreateOrder, InsertPending
    <2> QED BY <2>1, <2>2, <2>3, <2>4, <2>5, <2>6, <2>7, <2>8, <2>9
  <1>3. ASSUME NEW s \in Submits, CreateOrderFails(s) PROVE Rest'
    <2>1. SubmitHasRow'
      BY <1>3 DEF CreateOrderFails, InsertPending, EndSubmit, IdleSubmit, Interrupt
    <2>2. SubmitAnswerIsTrue'
      BY <1>3 DEF CreateOrderFails, InsertPending, EndSubmit, IdleSubmit, Interrupt
    <2>3. CancelKnowsRow'
      BY <1>3 DEF CreateOrderFails, InsertPending, EndSubmit, IdleSubmit, Interrupt
    <2>4. CancelNamesOrder'
      BY <1>3 DEF CreateOrderFails, InsertPending, EndSubmit, IdleSubmit, Interrupt
    <2>5. OrderIsTagged'
      BY <1>3 DEF CreateOrderFails, InsertPending, EndSubmit, IdleSubmit, Interrupt
    <2>6. RowIdMatchesStatus'
      BY <1>3 DEF CreateOrderFails, InsertPending, EndSubmit, IdleSubmit, Interrupt
    <2>7. OneOrderPerKey'
      BY <1>3 DEF CreateOrderFails, InsertPending, EndSubmit, IdleSubmit, Interrupt
    <2>8. OrderHasRow'
      BY <1>3 DEF CreateOrderFails, InsertPending, EndSubmit, IdleSubmit, Interrupt
    <2>9. AcceptedIsBacked'
      BY <1>3 DEF CreateOrderFails, InsertPending, EndSubmit, IdleSubmit, Interrupt
    <2> QED BY <2>1, <2>2, <2>3, <2>4, <2>5, <2>6, <2>7, <2>8, <2>9
  <1>4. ASSUME NEW s \in Submits, FinalizeAccepted(s) PROVE Rest'
    BY <1>4 DEF FinalizeAccepted, SetAccepted, EndSubmit, IdleSubmit
  <1>5. ASSUME NEW s \in Submits, FinalizeFails(s) PROVE Rest'
    <2>1. SubmitHasRow'
      BY <1>5, SMTT(30) DEF FinalizeFails, SetAccepted, EndSubmit, IdleSubmit, Interrupt
    <2>2. SubmitAnswerIsTrue'
      BY <1>5 DEF FinalizeFails, SetAccepted, EndSubmit, IdleSubmit, Interrupt
    <2>3. CancelKnowsRow'
      BY <1>5 DEF FinalizeFails, SetAccepted, EndSubmit, IdleSubmit, Interrupt
    <2>4. CancelNamesOrder'
      BY <1>5 DEF FinalizeFails, SetAccepted, EndSubmit, IdleSubmit, Interrupt
    <2>5. OrderIsTagged'
      BY <1>5 DEF FinalizeFails, SetAccepted, EndSubmit, IdleSubmit, Interrupt
    <2>6. RowIdMatchesStatus'
      BY <1>5 DEF FinalizeFails, SetAccepted, EndSubmit, IdleSubmit, Interrupt
    <2>7. OneOrderPerKey'
      BY <1>5 DEF FinalizeFails, SetAccepted, EndSubmit, IdleSubmit, Interrupt
    <2>8. OrderHasRow'
      BY <1>5 DEF FinalizeFails, SetAccepted, EndSubmit, IdleSubmit, Interrupt
    <2>9. AcceptedIsBacked'
      BY <1>5 DEF FinalizeFails, SetAccepted, EndSubmit, IdleSubmit, Interrupt
    <2> QED BY <2>1, <2>2, <2>3, <2>4, <2>5, <2>6, <2>7, <2>8, <2>9
  <1>6. ASSUME NEW s \in Submits, RecordRefusal(s) PROVE Rest'
    BY <1>6 DEF RecordRefusal, SetStatus, EndSubmit, IdleSubmit
  <1>7. ASSUME NEW s \in Submits, RecordRefusalFails(s) PROVE Rest'
    BY <1>7 DEF RecordRefusalFails, SetStatus, Interrupt
  <1>8. ASSUME NEW s \in Submits, RetryRecordRefusal(s) PROVE Rest'
    <2>1. SubmitHasRow'
      BY <1>8 DEF RetryRecordRefusal, SetStatus, EndSubmit, IdleSubmit
    <2>2. SubmitAnswerIsTrue'
      BY <1>8 DEF RetryRecordRefusal, SetStatus, EndSubmit, IdleSubmit
    <2>3. CancelKnowsRow'
      BY <1>8, SMTT(30) DEF RetryRecordRefusal, SetStatus, EndSubmit, IdleSubmit
    <2>4. CancelNamesOrder'
      BY <1>8 DEF RetryRecordRefusal, SetStatus, EndSubmit, IdleSubmit
    <2>5. OrderIsTagged'
      BY <1>8 DEF RetryRecordRefusal, SetStatus, EndSubmit, IdleSubmit
    <2>6. RowIdMatchesStatus'
      BY <1>8, SMTT(30) DEF RetryRecordRefusal, SetStatus, EndSubmit, IdleSubmit
    <2>7. OneOrderPerKey'
      BY <1>8 DEF RetryRecordRefusal, SetStatus, EndSubmit, IdleSubmit
    <2>8. OrderHasRow'
      BY <1>8 DEF RetryRecordRefusal, SetStatus, EndSubmit, IdleSubmit
    <2>9. AcceptedIsBacked'
      BY <1>8 DEF RetryRecordRefusal, SetStatus, EndSubmit, IdleSubmit
    <2> QED BY <2>1, <2>2, <2>3, <2>4, <2>5, <2>6, <2>7, <2>8, <2>9
  <1>9. ASSUME NEW s \in Submits, AbortSubmit(s) PROVE Rest'
    BY <1>9 DEF AbortSubmit, SetStatus, LeaveSubmit, IdleSubmit, Contend
  <1>10. ASSUME NEW s \in Submits, AbortSubmitFails(s) PROVE Rest'
    BY <1>10 DEF AbortSubmitFails, LeaveSubmit, IdleSubmit, Interrupt
  <1>11. ASSUME NEW s \in Submits, BrokerRefuses(s) PROVE Rest'
    BY <1>11 DEF BrokerRefuses, IdleSubmit
  <1>12. ASSUME NEW s \in Submits, NEW i \in BrokerIds, BrokerAccepts(s, i) PROVE Rest'
    <2>1. SubmitHasRow'
      BY <1>12 DEF BrokerAccepts, IdleSubmit, ClientOrderId, Duplicate
    <2>2. SubmitAnswerIsTrue'
      BY <1>12 DEF BrokerAccepts, IdleSubmit, ClientOrderId, Duplicate
    <2>3. CancelKnowsRow'
      BY <1>12 DEF BrokerAccepts, IdleSubmit, ClientOrderId, Duplicate
    <2>4. CancelNamesOrder'
      BY <1>12 DEF BrokerAccepts, IdleSubmit, ClientOrderId, Duplicate
    <2>5. OrderIsTagged'
      BY <1>12 DEF BrokerAccepts, IdleSubmit, ClientOrderId, Duplicate
    <2>6. RowIdMatchesStatus'
      BY <1>12 DEF BrokerAccepts, IdleSubmit, ClientOrderId, Duplicate
    <2>7. OneOrderPerKey'
      BY <1>12 DEF BrokerAccepts, IdleSubmit, ClientOrderId, Duplicate
    <2>8. OrderHasRow'
      BY <1>12 DEF BrokerAccepts, IdleSubmit, ClientOrderId, Duplicate
    <2>9. AcceptedIsBacked'
      BY <1>12 DEF BrokerAccepts, IdleSubmit, ClientOrderId, Duplicate
    <2> QED BY <2>1, <2>2, <2>3, <2>4, <2>5, <2>6, <2>7, <2>8, <2>9
  <1>13. ASSUME NEW c \in Cancels, NEW k \in Keys, CancelOrder(c, k) PROVE Rest'
    <2>1. SubmitHasRow'
      BY <1>13 DEF CancelOrder, ContendIf, Contend
    <2>2. SubmitAnswerIsTrue'
      BY <1>13 DEF CancelOrder, ContendIf, Contend
    <2>3. CancelKnowsRow'
      BY <1>13 DEF CancelOrder, ContendIf, Contend
    <2>4. CancelNamesOrder'
      BY <1>13 DEF CancelOrder, ContendIf, Contend
    <2>5. OrderIsTagged'
      BY <1>13 DEF CancelOrder, ContendIf, Contend
    <2>6. RowIdMatchesStatus'
      BY <1>13 DEF CancelOrder, ContendIf, Contend
    <2>7. OneOrderPerKey'
      BY <1>13 DEF CancelOrder, ContendIf, Contend
    <2>8. OrderHasRow'
      BY <1>13 DEF CancelOrder, ContendIf, Contend
    <2>9. AcceptedIsBacked'
      BY <1>13 DEF CancelOrder, ContendIf, Contend
    <2> QED BY <2>1, <2>2, <2>3, <2>4, <2>5, <2>6, <2>7, <2>8, <2>9
  <1>14. ASSUME NEW c \in Cancels, MarkCancelling(c) PROVE Rest'
    <2>1. SubmitHasRow'
      BY <1>14 DEF MarkCancelling, SetStatus
    <2>2. SubmitAnswerIsTrue'
      BY <1>14 DEF MarkCancelling, SetStatus
    <2>3. CancelKnowsRow'
      BY <1>14 DEF MarkCancelling, SetStatus
    <2>4. CancelNamesOrder'
      BY <1>14 DEF MarkCancelling, SetStatus
    <2>5. OrderIsTagged'
      BY <1>14 DEF MarkCancelling, SetStatus
    <2>6. RowIdMatchesStatus'
      BY <1>14 DEF MarkCancelling, SetStatus
    <2>7. OneOrderPerKey'
      BY <1>14 DEF MarkCancelling, SetStatus
    <2>8. OrderHasRow'
      BY <1>14 DEF MarkCancelling, SetStatus
    <2>9. AcceptedIsBacked'
      BY <1>14 DEF MarkCancelling, SetStatus
    <2> QED BY <2>1, <2>2, <2>3, <2>4, <2>5, <2>6, <2>7, <2>8, <2>9
  <1>15. ASSUME NEW c \in Cancels, MarkCancellingFails(c) PROVE Rest'
    <2>1. SubmitHasRow'
      BY <1>15 DEF MarkCancellingFails, SetStatus, EndCancel, IdleCancel, Interrupt
    <2>2. SubmitAnswerIsTrue'
      BY <1>15 DEF MarkCancellingFails, SetStatus, EndCancel, IdleCancel, Interrupt
    <2>3. CancelKnowsRow'
      <3>1. CASE SetStatus(cancel[c].key, "cancelling")
        BY <3>1, <1>15 DEF MarkCancellingFails, SetStatus, EndCancel, IdleCancel, Interrupt
      <3>2. CASE UNCHANGED row
        BY <3>2, <1>15 DEF MarkCancellingFails, SetStatus, EndCancel, IdleCancel, Interrupt
      <3> QED BY <3>1, <3>2, <1>15 DEF MarkCancellingFails
    <2>4. CancelNamesOrder'
      BY <1>15 DEF MarkCancellingFails, SetStatus, EndCancel, IdleCancel, Interrupt
    <2>5. OrderIsTagged'
      BY <1>15 DEF MarkCancellingFails, SetStatus, EndCancel, IdleCancel, Interrupt
    <2>6. RowIdMatchesStatus'
      BY <1>15 DEF MarkCancellingFails, SetStatus, EndCancel, IdleCancel, Interrupt
    <2>7. OneOrderPerKey'
      BY <1>15 DEF MarkCancellingFails, SetStatus, EndCancel, IdleCancel, Interrupt
    <2>8. OrderHasRow'
      BY <1>15 DEF MarkCancellingFails, SetStatus, EndCancel, IdleCancel, Interrupt
    <2>9. AcceptedIsBacked'
      <3>1. CASE SetStatus(cancel[c].key, "cancelling")
        BY <3>1, <1>15 DEF MarkCancellingFails, SetStatus, EndCancel, IdleCancel, Interrupt
      <3>2. CASE UNCHANGED row
        BY <3>2, <1>15 DEF MarkCancellingFails, SetStatus, EndCancel, IdleCancel, Interrupt
      <3> QED BY <3>1, <3>2, <1>15 DEF MarkCancellingFails
    <2> QED BY <2>1, <2>2, <2>3, <2>4, <2>5, <2>6, <2>7, <2>8, <2>9
  <1>16. ASSUME NEW c \in Cancels, FinalizeCancelled(c) PROVE Rest'
    BY <1>16 DEF FinalizeCancelled, CancelDue, SetStatus, EndCancel, IdleCancel
  <1>17. ASSUME NEW c \in Cancels, FinalizeCancelledFails(c) PROVE Rest'
    <2>1. SubmitHasRow'
      BY <1>17 DEF FinalizeCancelledFails, CancelDue, SetStatus, EndCancel, IdleCancel,
         Interrupt
    <2>2. SubmitAnswerIsTrue'
      BY <1>17 DEF FinalizeCancelledFails, CancelDue, SetStatus, EndCancel, IdleCancel,
         Interrupt
    <2>3. CancelKnowsRow'
      <3>1. CASE SetStatus(cancel[c].key, "cancelled")
        BY <3>1, <1>17 DEF FinalizeCancelledFails, CancelDue, SetStatus, EndCancel,
           IdleCancel, Interrupt
      <3>2. CASE UNCHANGED row
        BY <3>2, <1>17 DEF FinalizeCancelledFails, CancelDue, SetStatus, EndCancel,
           IdleCancel, Interrupt
      <3> QED BY <3>1, <3>2, <1>17 DEF FinalizeCancelledFails
    <2>4. CancelNamesOrder'
      BY <1>17 DEF FinalizeCancelledFails, CancelDue, SetStatus, EndCancel, IdleCancel,
         Interrupt
    <2>5. OrderIsTagged'
      BY <1>17 DEF FinalizeCancelledFails, CancelDue, SetStatus, EndCancel, IdleCancel,
         Interrupt
    <2>6. RowIdMatchesStatus'
      BY <1>17 DEF FinalizeCancelledFails, CancelDue, SetStatus, EndCancel, IdleCancel,
         Interrupt
    <2>7. OneOrderPerKey'
      BY <1>17 DEF FinalizeCancelledFails, CancelDue, SetStatus, EndCancel, IdleCancel,
         Interrupt
    <2>8. OrderHasRow'
      BY <1>17 DEF FinalizeCancelledFails, CancelDue, SetStatus, EndCancel, IdleCancel,
         Interrupt
    <2>9. AcceptedIsBacked'
      BY <1>17, SMTT(30) DEF FinalizeCancelledFails, CancelDue, SetStatus, EndCancel,
         IdleCancel, Interrupt
    <2> QED BY <2>1, <2>2, <2>3, <2>4, <2>5, <2>6, <2>7, <2>8, <2>9
  <1>18. ASSUME NEW c \in Cancels, RestoreStatus(c) PROVE Rest'
    <2>1. SubmitHasRow'
      BY <1>18 DEF RestoreStatus, SetStatus, EndCancel, IdleCancel
    <2>2. SubmitAnswerIsTrue'
      BY <1>18 DEF RestoreStatus, SetStatus, EndCancel, IdleCancel
    <2>3. CancelKnowsRow'
      BY <1>18 DEF RestoreStatus, SetStatus, EndCancel, IdleCancel
    <2>4. CancelNamesOrder'
      BY <1>18 DEF RestoreStatus, SetStatus, EndCancel, IdleCancel
    <2>5. OrderIsTagged'
      BY <1>18 DEF RestoreStatus, SetStatus, EndCancel, IdleCancel
    <2>6. RowIdMatchesStatus'
      BY <1>18 DEF RestoreStatus, SetStatus, EndCancel, IdleCancel
    <2>7. OneOrderPerKey'
      BY <1>18 DEF RestoreStatus, SetStatus, EndCancel, IdleCancel
    <2>8. OrderHasRow'
      BY <1>18 DEF RestoreStatus, SetStatus, EndCancel, IdleCancel
    <2>9. AcceptedIsBacked'
      BY <1>18 DEF RestoreStatus, SetStatus, EndCancel, IdleCancel
    <2> QED BY <2>1, <2>2, <2>3, <2>4, <2>5, <2>6, <2>7, <2>8, <2>9
  <1>19. ASSUME NEW c \in Cancels, AbortCancel(c) PROVE Rest'
    BY <1>19 DEF AbortCancel, SetStatus, LeaveCancel, IdleCancel, Contend
  <1>20. ASSUME NEW c \in Cancels, RestoreStatusFails(c) PROVE Rest'
    BY <1>20 DEF RestoreStatusFails, LeaveCancel, IdleCancel, Interrupt
  <1>21. ASSUME NEW c \in Cancels, BrokerCancels(c) PROVE Rest'
    <2>1. SubmitHasRow'
      BY <1>21 DEF BrokerCancels, IdleCancel
    <2>2. SubmitAnswerIsTrue'
      BY <1>21 DEF BrokerCancels, IdleCancel
    <2>3. CancelKnowsRow'
      BY <1>21 DEF BrokerCancels, IdleCancel
    <2>4. CancelNamesOrder'
      BY <1>21 DEF BrokerCancels, IdleCancel
    <2>5. OrderIsTagged'
      BY <1>21 DEF BrokerCancels, IdleCancel
    <2>6. RowIdMatchesStatus'
      BY <1>21 DEF BrokerCancels, IdleCancel
    <2>7. OneOrderPerKey'
      BY <1>21 DEF BrokerCancels, IdleCancel
    <2>8. OrderHasRow'
      BY <1>21 DEF BrokerCancels, IdleCancel
    <2>9. AcceptedIsBacked'
      BY <1>21 DEF BrokerCancels, IdleCancel
    <2> QED BY <2>1, <2>2, <2>3, <2>4, <2>5, <2>6, <2>7, <2>8, <2>9
  <1>22. ASSUME NEW c \in Cancels, BrokerRefusesCancel(c) PROVE Rest'
    BY <1>22 DEF BrokerRefusesCancel, IdleCancel
  <1>23. ASSUME NEW i \in BrokerIds, BrokerCloses(i) PROVE Rest'
    BY <1>23 DEF BrokerCloses
  <1>24. CASE Crash
    <2>1. SubmitHasRow'
      BY <1>24 DEF Crash, InFlight, LeaveSubmit, LeaveCancel, IdleSubmit, IdleCancel
    <2>2. SubmitAnswerIsTrue'
      BY <1>24 DEF Crash, InFlight, LeaveSubmit, LeaveCancel, IdleSubmit, IdleCancel
    <2>3. CancelKnowsRow'
      BY <1>24 DEF Crash, InFlight, LeaveSubmit, LeaveCancel, IdleSubmit, IdleCancel
    <2>4. CancelNamesOrder'
      BY <1>24 DEF Crash, InFlight, LeaveSubmit, LeaveCancel, IdleSubmit, IdleCancel
    <2>5. OrderIsTagged'
      BY <1>24 DEF Crash, InFlight, LeaveSubmit, LeaveCancel, IdleSubmit, IdleCancel
    <2>6. RowIdMatchesStatus'
      BY <1>24 DEF Crash, InFlight, LeaveSubmit, LeaveCancel, IdleSubmit, IdleCancel
    <2>7. OneOrderPerKey'
      BY <1>24 DEF Crash, InFlight, LeaveSubmit, LeaveCancel, IdleSubmit, IdleCancel
    <2>8. OrderHasRow'
      BY <1>24 DEF Crash, InFlight, LeaveSubmit, LeaveCancel, IdleSubmit, IdleCancel
    <2>9. AcceptedIsBacked'
      BY <1>24 DEF Crash, InFlight, LeaveSubmit, LeaveCancel, IdleSubmit, IdleCancel
    <2> QED BY <2>1, <2>2, <2>3, <2>4, <2>5, <2>6, <2>7, <2>8, <2>9
  <1>25. CASE UNCHANGED vars
    BY <1>25 DEF vars
  <1>26. ASSUME NEW s \in Submits, AnswerLost(s) PROVE Rest'
    BY <1>26 DEF AnswerLost, Contend
  <1>27. ASSUME NEW c \in Cancels, CancelAnswerLost(c) PROVE Rest'
    BY <1>27 DEF CancelAnswerLost, Contend
  <1> QED
    BY <1>1, <1>2, <1>3, <1>4, <1>5, <1>6, <1>7, <1>8, <1>9, <1>10, <1>11, <1>12, <1>13,
       <1>14, <1>15, <1>16, <1>17, <1>18, <1>19, <1>20, <1>21, <1>22, <1>23, <1>24, <1>25,
       <1>26, <1>27
    DEF Next, SubmitStep, CancelStep, BrokerStep

THEOREM TypeCorrect == Spec => []TypeOK
  <1>1. IInv => TypeOK
    BY DEF IInv
  <1> QED BY <1>1, InitIInv, NextIInv, PTL DEF Spec

\* No retry, overlap, timeout or crash makes the service buy one intent twice.
THEOREM OrderIsUnique == Spec => []OneOrderPerKey
  <1>1. IInv => OneOrderPerKey
    BY DEF IInv
  <1> QED BY <1>1, InitIInv, NextIInv, PTL DEF Spec

\* The row is durable before the broker can hold an order for it.
THEOREM OrderIsRecorded == Spec => []OrderHasRow
  <1>1. IInv => OrderHasRow
    BY DEF IInv
  <1> QED BY <1>1, InitIInv, NextIInv, PTL DEF Spec

\* An accepted row carries the id of an order the broker took for its key.
THEOREM AcceptanceIsTrue == Spec => []AcceptedIsBacked
  <1>1. IInv => AcceptedIsBacked
    BY DEF IInv
  <1> QED BY <1>1, InitIInv, NextIInv, PTL DEF Spec

-----------------------------------------------------------------------------
(* A pending row is owned by a submit in flight.                           *)

\* The catch block only retries after a failed statement.
RetryFollowsFailure ==
    \A s \in Submits :
        submit[s].pc = "markFailed" => "interrupted" \in trouble[submit[s].key]

PendingInv == PendingIsOwned /\ RetryFollowsFailure

LEMMA NextPendingInv ==
    ASSUME IInv, PendingInv, [Next]_vars
    PROVE  PendingInv'
  <1> USE DEF IInv, TypeOK, RowType, SubmitType, Status, SubmitActive, CancelActive,
              SubmitHasRow, CancelKnowsRow, PendingIsOwned, RetryFollowsFailure, PendingInv
  <1>1. ASSUME NEW s \in Submits, NEW k \in Keys, SubmitOrder(s, k) PROVE PendingInv'
    <2>1. PendingIsOwned'
      BY <1>1 DEF SubmitOrder, ContendIf, Contend, IdleSubmit
    <2>2. RetryFollowsFailure'
      BY <1>1 DEF SubmitOrder, ContendIf, Contend, IdleSubmit
    <2> QED BY <2>1, <2>2
  <1>2. ASSUME NEW s \in Submits, CreateOrder(s) PROVE PendingInv'
    <2>1. PendingIsOwned'
      BY <1>2 DEF CreateOrder, InsertPending
    <2>2. RetryFollowsFailure'
      BY <1>2 DEF CreateOrder, InsertPending
    <2> QED BY <2>1, <2>2
  <1>3. ASSUME NEW s \in Submits, CreateOrderFails(s) PROVE PendingInv'
    BY <1>3 DEF CreateOrderFails, InsertPending, EndSubmit, IdleSubmit, Interrupt
  <1>4. ASSUME NEW s \in Submits, FinalizeAccepted(s) PROVE PendingInv'
    BY <1>4 DEF FinalizeAccepted, SetAccepted, EndSubmit, IdleSubmit
  <1>5. ASSUME NEW s \in Submits, FinalizeFails(s) PROVE PendingInv'
    BY <1>5 DEF FinalizeFails, SetAccepted, EndSubmit, IdleSubmit, Interrupt
  <1>6. ASSUME NEW s \in Submits, RecordRefusal(s) PROVE PendingInv'
    BY <1>6 DEF RecordRefusal, SetStatus, EndSubmit, IdleSubmit
  <1>7. ASSUME NEW s \in Submits, RecordRefusalFails(s) PROVE PendingInv'
    BY <1>7 DEF RecordRefusalFails, SetStatus, Interrupt
  <1>8. ASSUME NEW s \in Submits, RetryRecordRefusal(s) PROVE PendingInv'
    BY <1>8 DEF RetryRecordRefusal, SetStatus, EndSubmit, IdleSubmit
  <1>9. ASSUME NEW s \in Submits, AbortSubmit(s) PROVE PendingInv'
    BY <1>9 DEF AbortSubmit, SetStatus, LeaveSubmit, IdleSubmit, Contend
  <1>10. ASSUME NEW s \in Submits, AbortSubmitFails(s) PROVE PendingInv'
    BY <1>10 DEF AbortSubmitFails, LeaveSubmit, IdleSubmit, Interrupt
  <1>11. ASSUME NEW s \in Submits, BrokerRefuses(s) PROVE PendingInv'
    BY <1>11 DEF BrokerRefuses, IdleSubmit
  <1>12. ASSUME NEW s \in Submits, NEW i \in BrokerIds, BrokerAccepts(s, i) PROVE PendingInv'
    BY <1>12 DEF BrokerAccepts, IdleSubmit, ClientOrderId, Duplicate
  <1>13. ASSUME NEW c \in Cancels, NEW k \in Keys, CancelOrder(c, k) PROVE PendingInv'
    BY <1>13 DEF CancelOrder, ContendIf, Contend
  <1>14. ASSUME NEW c \in Cancels, MarkCancelling(c) PROVE PendingInv'
    BY <1>14 DEF MarkCancelling, SetStatus
  <1>15. ASSUME NEW c \in Cancels, MarkCancellingFails(c) PROVE PendingInv'
    BY <1>15 DEF MarkCancellingFails, SetStatus, EndCancel, IdleCancel, Interrupt
  <1>16. ASSUME NEW c \in Cancels, FinalizeCancelled(c) PROVE PendingInv'
    BY <1>16 DEF FinalizeCancelled, CancelDue, SetStatus, EndCancel, IdleCancel
  <1>17. ASSUME NEW c \in Cancels, FinalizeCancelledFails(c) PROVE PendingInv'
    BY <1>17 DEF FinalizeCancelledFails, CancelDue, SetStatus, EndCancel, IdleCancel, Interrupt
  <1>18. ASSUME NEW c \in Cancels, RestoreStatus(c) PROVE PendingInv'
    BY <1>18 DEF RestoreStatus, SetStatus, EndCancel, IdleCancel
  <1>19. ASSUME NEW c \in Cancels, AbortCancel(c) PROVE PendingInv'
    BY <1>19 DEF AbortCancel, SetStatus, LeaveCancel, IdleCancel, Contend
  <1>20. ASSUME NEW c \in Cancels, RestoreStatusFails(c) PROVE PendingInv'
    BY <1>20 DEF RestoreStatusFails, LeaveCancel, IdleCancel, Interrupt
  <1>21. ASSUME NEW c \in Cancels, BrokerCancels(c) PROVE PendingInv'
    BY <1>21 DEF BrokerCancels, IdleCancel
  <1>22. ASSUME NEW c \in Cancels, BrokerRefusesCancel(c) PROVE PendingInv'
    BY <1>22 DEF BrokerRefusesCancel, IdleCancel
  <1>23. ASSUME NEW i \in BrokerIds, BrokerCloses(i) PROVE PendingInv'
    BY <1>23 DEF BrokerCloses
  <1>24. CASE Crash
    BY <1>24 DEF Crash, InFlight, LeaveSubmit, LeaveCancel, IdleSubmit, IdleCancel
  <1>25. CASE UNCHANGED vars
    BY <1>25 DEF vars
  <1>26. ASSUME NEW s \in Submits, AnswerLost(s) PROVE PendingInv'
    BY <1>26 DEF AnswerLost, Contend
  <1>27. ASSUME NEW c \in Cancels, CancelAnswerLost(c) PROVE PendingInv'
    BY <1>27 DEF CancelAnswerLost, Contend
  <1> QED
    BY <1>1, <1>2, <1>3, <1>4, <1>5, <1>6, <1>7, <1>8, <1>9, <1>10, <1>11, <1>12, <1>13,
       <1>14, <1>15, <1>16, <1>17, <1>18, <1>19, <1>20, <1>21, <1>22, <1>23, <1>24, <1>25,
       <1>26, <1>27
    DEF Next, SubmitStep, CancelStep, BrokerStep

\* Only a crash or a failed statement leaves a row pending with nobody to
\* resolve it.
THEOREM PendingIsResolved == Spec => []PendingIsOwned
  <1>1. Init => PendingInv
    BY DEF Init, PendingInv, PendingIsOwned, RetryFollowsFailure, IdleSubmit
  <1>2. PendingInv => PendingIsOwned
    BY DEF PendingInv
  <1> QED BY <1>1, <1>2, InitIInv, NextIInv, NextPendingInv, PTL DEF Spec

-----------------------------------------------------------------------------
(* A key at rest, with nothing behind it that went wrong, agrees with the   *)
(* broker.  The invariant says what a request under way on such a key knows *)
(* about the row and the order, so that its last step leaves them in step.  *)

\* The keys for which the broker holds a live or a filled order.
LiveKeys ==
    {k \in Keys : \E i \in OrdersOf(k) : order[i].state \in {"open", "closed"}}

\* A call is under way for a request that awaits it or has gone; a slot has a
\* key exactly while it is taken.
CallsAreAwaited ==
    /\ \A s \in Submits :
          /\ submit[s].call # "none" <=> submit[s].pc \in {"await", "gone"}
          /\ submit[s].pc = "idle" <=> submit[s].key \notin Keys
    /\ \A c \in Cancels :
          /\ cancel[c].call # "none" <=> cancel[c].pc \in {"await", "gone"}
          /\ cancel[c].pc = "idle" <=> cancel[c].key \notin Keys

\* What a cancel has asked or will ask the broker for is an order of its key.
CancelsNameOrder ==
    \A c \in Cancels : \A k \in Keys :
        cancel[c].key = k /\ cancel[c].pc \in {"mark", "await", "gone"} =>
            cancel[c].id \in OrdersOf(k)

\* On an untroubled key there is one request at a time.
SubmitIsAlone ==
    \A s \in Submits : submit[s].key \in Keys /\ trouble[submit[s].key] = {} =>
       /\ \A t \in Submits : submit[t].key = submit[s].key => s = t
       /\ \A c \in Cancels : cancel[c].key # submit[s].key

CancelIsAlone ==
    \A c \in Cancels : cancel[c].key \in Keys /\ trouble[cancel[c].key] = {} =>
       \A d \in Cancels : cancel[d].key = cancel[c].key => c = d

\* There a submit is in its normal course, and its key has a live order
\* exactly when the broker has said so.
SubmitKnows ==
    \A s \in Submits :
        submit[s].key \in Keys /\ trouble[submit[s].key] = {} =>
            /\ submit[s].pc \in {"create", "await"}
            /\ row[submit[s].key].status \notin {"accepted", "cancelling"}
            /\ submit[s].key \in LiveKeys <=> submit[s].call = "taken"

\* A cancel too: until its order is gone, the status it read at the start
\* tells whether the key has a live order.
CancelKnows ==
    \A c \in Cancels :
        cancel[c].key \in Keys /\ trouble[cancel[c].key] = {} =>
            /\ cancel[c].pc \in {"mark", "await", "finish"}
            /\ cancel[c].prior \notin {"pending", "cancelling"}
            /\ cancel[c].pc = "finish" \/ cancel[c].call = "taken" => cancel[c].key \notin LiveKeys
            /\ ~(cancel[c].pc = "finish" \/ cancel[c].call = "taken") =>
                  (cancel[c].key \in LiveKeys <=> cancel[c].prior = "accepted")

\* Without a request the row is settled and tells the truth.
AtRest ==
    \A k \in Keys :
        (trouble[k] = {} /\ (\A s \in Submits : submit[s].key # k)
                         /\ (\A c \in Cancels : cancel[c].key # k)) =>
            /\ row[k].status \notin {"pending", "cancelling"}
            /\ row[k].status = "accepted" <=> k \in LiveKeys

QuietInv ==
    /\ CallsAreAwaited
    /\ CancelsNameOrder
    /\ SubmitIsAlone
    /\ CancelIsAlone
    /\ SubmitKnows
    /\ CancelKnows
    /\ AtRest

\* What the broker's steps do to LiveKeys.
LEMMA OrderAccepted ==
    ASSUME IInv, NEW s \in Submits, NEW i \in BrokerIds, BrokerAccepts(s, i)
    PROVE  /\ LiveKeys' = LiveKeys \cup {submit[s].key}
           /\ \A k \in Keys : OrdersOf(k) \subseteq OrdersOf(k)'
  <1>1. submit[s].key \in Keys
    BY DEF IInv, SubmitHasRow, BrokerAccepts
  <1>2. /\ order[i].state = "unused"
        /\ order' = [order EXCEPT ![i] = [key |-> submit[s].key, client |-> submit[s].key,
                                          state |-> "open"]]
    BY DEF BrokerAccepts, ClientOrderId
  <1>3. \A k \in Keys : OrdersOf(k)' = IF k = submit[s].key THEN OrdersOf(k) \cup {i}
                                                             ELSE OrdersOf(k)
    BY <1>1, <1>2 DEF OrdersOf, IInv, TypeOK, OrderType
  <1>4. \A j \in BrokerIds : j # i => order'[j] = order[j]
    BY <1>2 DEF IInv, TypeOK
  <1>5. order'[i].state = "open"
    BY <1>2 DEF IInv, TypeOK
  <1>6. \A k \in Keys : i \notin OrdersOf(k)
    BY <1>2 DEF OrdersOf
  <1>7. \A k \in Keys : OrdersOf(k) \subseteq BrokerIds
    BY DEF OrdersOf
  <1>8. ASSUME NEW k \in Keys PROVE k \in LiveKeys' <=> k \in LiveKeys \/ k = submit[s].key
    BY <1>3, <1>4, <1>5, <1>6, <1>7 DEF LiveKeys
  <1> QED BY <1>1, <1>3, <1>8 DEF LiveKeys

LEMMA OrderEnds ==
    ASSUME IInv, NEW i \in BrokerIds, NEW state \in {"closed", "cancelled"},
           order[i].state = "open", order' = [order EXCEPT ![i].state = state]
    PROVE  /\ \A k \in Keys : OrdersOf(k)' = OrdersOf(k)
           /\ \A k \in Keys : i \notin OrdersOf(k) => (k \in LiveKeys' <=> k \in LiveKeys)
           /\ \A k \in Keys : i \in OrdersOf(k) =>
                 k \in LiveKeys /\ (k \in LiveKeys' <=> state = "closed")
  <1>1. \A k \in Keys : OrdersOf(k)' = OrdersOf(k)
    BY DEF OrdersOf, IInv, TypeOK, OrderType
  <1>2. \A j \in BrokerIds : j # i => order'[j] = order[j]
    BY DEF IInv, TypeOK
  <1>3. order'[i].state = state
    BY DEF IInv, TypeOK, OrderType
  <1>4. \A k \in Keys : OrdersOf(k) \subseteq BrokerIds
    BY DEF OrdersOf
  <1>5. \A k \in Keys : \A a, b \in OrdersOf(k) : a = b
    BY DEF IInv, OneOrderPerKey
  <1> QED BY <1>1, <1>2, <1>3, <1>4, <1>5 DEF LiveKeys

LEMMA OrderClosed ==
    ASSUME IInv, NEW i \in BrokerIds, BrokerCloses(i)
    PROVE  LiveKeys' = LiveKeys /\ \A k \in Keys : OrdersOf(k) \subseteq OrdersOf(k)'
  <1>1. order[i].state = "open" /\ order' = [order EXCEPT ![i].state = "closed"]
    BY DEF BrokerCloses
  <1> QED BY <1>1, OrderEnds DEF LiveKeys

LEMMA OrderCancelled ==
    ASSUME IInv, QuietInv, NEW c \in Cancels, BrokerCancels(c)
    PROVE  LiveKeys' = LiveKeys \ {cancel[c].key} /\ \A k \in Keys : OrdersOf(k) \subseteq OrdersOf(k)'
  <1>1. cancel[c].id \in BrokerIds
    BY DEF IInv, CancelNamesOrder, BrokerCancels
  <1>2. cancel[c].key \in Keys /\ cancel[c].id \in OrdersOf(cancel[c].key)
    BY DEF QuietInv, CallsAreAwaited, CancelsNameOrder, BrokerCancels
  <1>3. /\ order[cancel[c].id].state = "open"
        /\ order' = [order EXCEPT ![cancel[c].id].state = "cancelled"]
    BY DEF BrokerCancels
  <1>4. \A k \in Keys : cancel[c].id \in OrdersOf(k) => k = cancel[c].key
    BY <1>2 DEF OrdersOf
  <1> QED BY <1>1, <1>2, <1>3, <1>4, OrderEnds DEF LiveKeys

\* On an untroubled key a request that is there is an active one, so a key
\* without active requests has none.
LEMMA RestingKey ==
    ASSUME QuietInv, NEW k \in Keys, trouble[k] = {}, ~InFlight(k)
    PROVE  (\A s \in Submits : submit[s].key # k) /\ (\A c \in Cancels : cancel[c].key # k)
  BY DEF QuietInv, SubmitKnows, CancelKnows, InFlight, SubmitActive, CancelActive

\* A submit that leaves its key in trouble disturbs no other key.
LEMMA TroubledSubmit ==
    ASSUME IInv, QuietInv, NEW s \in Submits, NEW k \in Keys, submit[s].key = k,
           trouble'[k] # {},
           \A q \in Keys : q # k => trouble'[q] = trouble[q] /\ row'[q] = row[q],
           \A t \in Submits : t # s => submit'[t] = submit[t],
           submit'[s].key \in {k, NoKey},
           LiveKeys' = LiveKeys, cancel' = cancel
    PROVE  SubmitIsAlone' /\ CancelIsAlone' /\ SubmitKnows' /\ CancelKnows' /\ AtRest'
  <1> USE OrdersAssumption DEF QuietInv
  <1>1. SubmitIsAlone' /\ CancelIsAlone'
    BY DEF SubmitIsAlone, CancelIsAlone
  <1>2. SubmitKnows'
    BY DEF SubmitKnows
  <1>3. CancelKnows'
    BY DEF CancelKnows
  <1>4. AtRest'
    BY DEF AtRest
  <1> QED BY <1>1, <1>2, <1>3, <1>4

\* Nor does a cancel.
LEMMA TroubledCancel ==
    ASSUME IInv, QuietInv, NEW c \in Cancels, NEW k \in Keys, cancel[c].key = k,
           trouble'[k] # {},
           \A q \in Keys : q # k => trouble'[q] = trouble[q] /\ row'[q] = row[q],
           \A d \in Cancels : d # c => cancel'[d] = cancel[d],
           cancel'[c].key \in {k, NoKey},
           LiveKeys' = LiveKeys, submit' = submit
    PROVE  SubmitIsAlone' /\ CancelIsAlone' /\ SubmitKnows' /\ CancelKnows' /\ AtRest'
  <1> USE OrdersAssumption DEF QuietInv
  <1>1. SubmitIsAlone' /\ CancelIsAlone'
    BY DEF SubmitIsAlone, CancelIsAlone
  <1>2. SubmitKnows'
    BY DEF SubmitKnows
  <1>3. CancelKnows'
    BY DEF CancelKnows
  <1>4. AtRest'
    BY DEF AtRest
  <1> QED BY <1>1, <1>2, <1>3, <1>4


\* The 27 steps: eleven leave their key in trouble, a crash every key it
\* interrupts; the others carry out what the request knows.
LEMMA NextQuietInv ==
    ASSUME IInv, QuietInv, [Next]_vars
    PROVE  QuietInv'
  <1> USE OrdersAssumption
      DEF TypeOK, RowType, SubmitType, CancelType, Status, Call, SubmitActive, CancelActive,
          QuietInv, CallsAreAwaited, CancelsNameOrder, SubmitIsAlone, CancelIsAlone,
          SubmitKnows, CancelKnows, AtRest
  <1> TypeOK /\ SubmitHasRow /\ CancelKnowsRow /\ RowIdMatchesStatus /\ AcceptedIsBacked
    BY DEF IInv
  <1> USE DEF SubmitHasRow, CancelKnowsRow
  <1>1. ASSUME NEW s \in Submits, NEW k \in Keys, SubmitOrder(s, k) PROVE QuietInv'
    <2>1. LiveKeys' = LiveKeys /\ \A q \in Keys : OrdersOf(q)' = OrdersOf(q)
      BY <1>1 DEF SubmitOrder, ContendIf, Contend, InFlight, IdleSubmit, LiveKeys, OrdersOf
    <2>2. trouble'[k] = {} =>
             /\ trouble[k] = {}
             /\ \A t \in Submits : submit[t].key # k
             /\ \A d \in Cancels : cancel[d].key # k
      <3>1. IF InFlight(k) THEN trouble' = [trouble EXCEPT ![k] = @ \cup {"contended"}]
                           ELSE trouble' = trouble
        BY ONLY <1>1 DEF SubmitOrder, ContendIf, Contend
      <3>2. trouble'[k] = {} => trouble[k] = {} /\ ~InFlight(k)
        BY ONLY <3>1, trouble \in [Keys -> SUBSET {"contended", "interrupted"}], k \in Keys
      <3> QED BY ONLY <3>2, k \in Keys, QuietInv, RestingKey
    <2>3. \A q \in Keys : q # k => trouble'[q] = trouble[q]
      BY <1>1 DEF SubmitOrder, ContendIf, Contend
    <2>4. CallsAreAwaited'
      BY <1>1, <2>1, <2>2, <2>3 DEF SubmitOrder, IdleSubmit
    <2>5. CancelsNameOrder'
      BY <1>1, <2>1, <2>2, <2>3 DEF SubmitOrder, IdleSubmit
    <2>6. SubmitIsAlone'
      BY <1>1, <2>1, <2>2, <2>3 DEF SubmitOrder, IdleSubmit
    <2>7. CancelIsAlone'
      BY <1>1, <2>1, <2>2, <2>3 DEF SubmitOrder, IdleSubmit
    <2>8. SubmitKnows'
      <3>1. /\ row' = row
            /\ \A t \in Submits : t # s => submit'[t] = submit[t]
            /\ submit'[s].pc = "create" /\ submit'[s].key = k /\ submit'[s].call = "none"
        BY <1>1 DEF SubmitOrder, IdleSubmit
      <3>2. trouble'[k] = {} => row[k].status \notin {"accepted", "cancelling"} /\ k \notin LiveKeys
        <4>1. trouble'[k] = {} => /\ row[k].status \notin {"pending", "cancelling"}
                                  /\ row[k].status = "accepted" <=> k \in LiveKeys
          BY ONLY <2>2, k \in Keys, QuietInv DEF QuietInv, AtRest
        <4>2. row[k].status # "accepted"
          BY ONLY <1>1 DEF SubmitOrder
        <4> QED BY ONLY <4>1, <4>2
      <3>3. ASSUME NEW t \in Submits, submit'[t].key \in Keys, trouble'[submit'[t].key] = {}
            PROVE  /\ submit'[t].pc \in {"create", "await"}
                   /\ row'[submit'[t].key].status \notin {"accepted", "cancelling"}
                   /\ submit'[t].key \in LiveKeys' <=> submit'[t].call = "taken"
        <4>1. CASE t = s
          BY ONLY <4>1, <3>1, <3>2, <3>3, <2>1
        <4>2. CASE t # s
          <5>1. submit'[t] = submit[t]
            BY ONLY <4>2, <3>1, t \in Submits
          <5>2. trouble[submit[t].key] = {}
            BY ONLY <5>1, <3>3, <2>2, <2>3
          <5> QED BY ONLY <5>1, <5>2, <3>1, <3>3, <2>1, t \in Submits, QuietInv DEF QuietInv,
                     SubmitKnows
        <4> QED BY ONLY <4>1, <4>2
      <3> QED BY ONLY <3>3 DEF SubmitKnows
    <2>9. CancelKnows'
      BY <1>1, <2>1, <2>2, <2>3 DEF SubmitOrder, IdleSubmit
    <2>10. AtRest'
      BY <1>1, <2>1, <2>2, <2>3 DEF SubmitOrder, IdleSubmit
    <2> QED BY <2>4, <2>5, <2>6, <2>7, <2>8, <2>9, <2>10
  <1>2. ASSUME NEW s \in Submits, CreateOrder(s) PROVE QuietInv'
    <2>1. LiveKeys' = LiveKeys /\ \A q \in Keys : OrdersOf(q)' = OrdersOf(q)
      BY <1>2 DEF CreateOrder, InsertPending, LiveKeys, OrdersOf
    <2>2. CallsAreAwaited' /\ CancelsNameOrder'
      BY <1>2, <2>1 DEF CreateOrder, InsertPending
    <2>3. SubmitIsAlone'
      BY <1>2, <2>1 DEF CreateOrder, InsertPending
    <2>4. CancelIsAlone'
      BY <1>2, <2>1 DEF CreateOrder, InsertPending
    <2>5. SubmitKnows' /\ CancelKnows'
      BY <1>2, <2>1 DEF CreateOrder, InsertPending
    <2>6. AtRest'
      BY <1>2, <2>1 DEF CreateOrder, InsertPending
    <2> QED BY <2>2, <2>3, <2>4, <2>5, <2>6
  <1>3. ASSUME NEW s \in Submits, CreateOrderFails(s) PROVE QuietInv'
    <2>1. LiveKeys' = LiveKeys /\ \A q \in Keys : OrdersOf(q)' = OrdersOf(q)
      BY <1>3 DEF CreateOrderFails, InsertPending, EndSubmit, IdleSubmit, Interrupt, LiveKeys,
         OrdersOf
    <2>2. CallsAreAwaited'
      BY <1>3, <2>1 DEF CreateOrderFails, InsertPending, EndSubmit, IdleSubmit, Interrupt
    <2>3. CancelsNameOrder'
      BY <1>3, <2>1 DEF CreateOrderFails, InsertPending, EndSubmit, IdleSubmit, Interrupt
    <2>4. PICK k \in Keys : k = submit[s].key
      BY <1>3 DEF CreateOrderFails, InsertPending, EndSubmit, IdleSubmit, Interrupt
    <2>5. trouble'[k] # {} /\ \A q \in Keys : q # k => trouble'[q] = trouble[q]
      <3>1. trouble' = [trouble EXCEPT ![k] = @ \cup {"interrupted"}]
        BY <1>3, <2>4 DEF CreateOrderFails, Interrupt
      <3> QED BY ONLY <3>1, <2>4, TypeOK DEF TypeOK
    <2>6. \A q \in Keys : q # k => row'[q] = row[q]
      BY <1>3, <2>4 DEF CreateOrderFails, InsertPending, EndSubmit, IdleSubmit, Interrupt
    <2>7. \A t \in Submits : t # s => submit'[t] = submit[t]
      BY <1>3 DEF CreateOrderFails, InsertPending, EndSubmit, IdleSubmit, Interrupt
    <2>8. submit'[s].key \in {k, NoKey} /\ cancel' = cancel
      BY <1>3, <2>4 DEF CreateOrderFails, InsertPending, EndSubmit, IdleSubmit, Interrupt
    <2> HIDE DEF QuietInv, SubmitIsAlone, CancelIsAlone, SubmitKnows, CancelKnows, AtRest
    <2>9. SubmitIsAlone' /\ CancelIsAlone' /\ SubmitKnows' /\ CancelKnows' /\ AtRest'
      BY ONLY <1>3, <2>1, <2>4, <2>5, <2>7, <2>8, <2>6, s \in Submits, k \in Keys, IInv,
         QuietInv, TroubledSubmit
    <2> QED BY <2>2, <2>3, <2>9 DEF QuietInv
  <1>4. ASSUME NEW s \in Submits, FinalizeAccepted(s) PROVE QuietInv'
    <2>1. LiveKeys' = LiveKeys /\ \A q \in Keys : OrdersOf(q)' = OrdersOf(q)
      BY <1>4 DEF FinalizeAccepted, SetAccepted, EndSubmit, IdleSubmit, LiveKeys, OrdersOf
    <2>2. CallsAreAwaited' /\ CancelsNameOrder'
      BY <1>4, <2>1 DEF FinalizeAccepted, SetAccepted, EndSubmit, IdleSubmit
    <2>3. SubmitIsAlone'
      BY <1>4, <2>1 DEF FinalizeAccepted, SetAccepted, EndSubmit, IdleSubmit
    <2>4. CancelIsAlone'
      BY <1>4, <2>1 DEF FinalizeAccepted, SetAccepted, EndSubmit, IdleSubmit
    <2>5. SubmitKnows' /\ CancelKnows'
      BY <1>4, <2>1 DEF FinalizeAccepted, SetAccepted, EndSubmit, IdleSubmit
    <2>6. AtRest'
      BY <1>4, <2>1 DEF FinalizeAccepted, SetAccepted, EndSubmit, IdleSubmit
    <2> QED BY <2>2, <2>3, <2>4, <2>5, <2>6
  <1>5. ASSUME NEW s \in Submits, FinalizeFails(s) PROVE QuietInv'
    <2>1. LiveKeys' = LiveKeys /\ \A q \in Keys : OrdersOf(q)' = OrdersOf(q)
      BY <1>5 DEF FinalizeFails, SetAccepted, EndSubmit, IdleSubmit, Interrupt, LiveKeys, OrdersOf
    <2>2. CallsAreAwaited'
      BY <1>5, <2>1 DEF FinalizeFails, SetAccepted, EndSubmit, IdleSubmit, Interrupt
    <2>3. CancelsNameOrder'
      BY <1>5, <2>1 DEF FinalizeFails, SetAccepted, EndSubmit, IdleSubmit, Interrupt
    <2>4. PICK k \in Keys : k = submit[s].key
      BY <1>5 DEF FinalizeFails, SetAccepted, EndSubmit, IdleSubmit, Interrupt
    <2>5. trouble'[k] # {} /\ \A q \in Keys : q # k => trouble'[q] = trouble[q]
      <3>1. trouble' = [trouble EXCEPT ![k] = @ \cup {"interrupted"}]
        BY <1>5, <2>4 DEF FinalizeFails, Interrupt
      <3> QED BY ONLY <3>1, <2>4, TypeOK DEF TypeOK
    <2>6. \A q \in Keys : q # k => row'[q] = row[q]
      BY <1>5, <2>4 DEF FinalizeFails, SetAccepted, EndSubmit, IdleSubmit, Interrupt
    <2>7. \A t \in Submits : t # s => submit'[t] = submit[t]
      BY <1>5 DEF FinalizeFails, SetAccepted, EndSubmit, IdleSubmit, Interrupt
    <2>8. submit'[s].key \in {k, NoKey} /\ cancel' = cancel
      BY <1>5, <2>4 DEF FinalizeFails, SetAccepted, EndSubmit, IdleSubmit, Interrupt
    <2> HIDE DEF QuietInv, SubmitIsAlone, CancelIsAlone, SubmitKnows, CancelKnows, AtRest
    <2>9. SubmitIsAlone' /\ CancelIsAlone' /\ SubmitKnows' /\ CancelKnows' /\ AtRest'
      BY ONLY <1>5, <2>1, <2>4, <2>5, <2>7, <2>8, <2>6, s \in Submits, k \in Keys, IInv,
         QuietInv, TroubledSubmit
    <2> QED BY <2>2, <2>3, <2>9 DEF QuietInv
  <1>6. ASSUME NEW s \in Submits, RecordRefusal(s) PROVE QuietInv'
    <2>1. LiveKeys' = LiveKeys /\ \A q \in Keys : OrdersOf(q)' = OrdersOf(q)
      BY <1>6 DEF RecordRefusal, SetStatus, EndSubmit, IdleSubmit, LiveKeys, OrdersOf
    <2>2. CallsAreAwaited' /\ CancelsNameOrder'
      BY <1>6, <2>1 DEF RecordRefusal, SetStatus, EndSubmit, IdleSubmit
    <2>3. SubmitIsAlone'
      BY <1>6, <2>1 DEF RecordRefusal, SetStatus, EndSubmit, IdleSubmit
    <2>4. CancelIsAlone'
      BY <1>6, <2>1 DEF RecordRefusal, SetStatus, EndSubmit, IdleSubmit
    <2>5. SubmitKnows' /\ CancelKnows'
      BY <1>6, <2>1 DEF RecordRefusal, SetStatus, EndSubmit, IdleSubmit
    <2>6. AtRest'
      BY <1>6, <2>1 DEF RecordRefusal, SetStatus, EndSubmit, IdleSubmit
    <2> QED BY <2>2, <2>3, <2>4, <2>5, <2>6
  <1>7. ASSUME NEW s \in Submits, RecordRefusalFails(s) PROVE QuietInv'
    <2>1. LiveKeys' = LiveKeys /\ \A q \in Keys : OrdersOf(q)' = OrdersOf(q)
      BY <1>7 DEF RecordRefusalFails, SetStatus, Interrupt, LiveKeys, OrdersOf
    <2>2. CallsAreAwaited'
      BY <1>7, <2>1 DEF RecordRefusalFails, SetStatus, Interrupt
    <2>3. CancelsNameOrder'
      BY <1>7, <2>1 DEF RecordRefusalFails, SetStatus, Interrupt
    <2>4. PICK k \in Keys : k = submit[s].key
      BY <1>7 DEF RecordRefusalFails, SetStatus, Interrupt
    <2>5. trouble'[k] # {} /\ \A q \in Keys : q # k => trouble'[q] = trouble[q]
      <3>1. trouble' = [trouble EXCEPT ![k] = @ \cup {"interrupted"}]
        BY <1>7, <2>4 DEF RecordRefusalFails, Interrupt
      <3> QED BY ONLY <3>1, <2>4, TypeOK DEF TypeOK
    <2>6. \A q \in Keys : q # k => row'[q] = row[q]
      BY <1>7, <2>4 DEF RecordRefusalFails, SetStatus, Interrupt
    <2>7. \A t \in Submits : t # s => submit'[t] = submit[t]
      BY <1>7 DEF RecordRefusalFails, SetStatus, Interrupt
    <2>8. submit'[s].key \in {k, NoKey} /\ cancel' = cancel
      BY <1>7, <2>4 DEF RecordRefusalFails, SetStatus, Interrupt
    <2> HIDE DEF QuietInv, SubmitIsAlone, CancelIsAlone, SubmitKnows, CancelKnows, AtRest
    <2>9. SubmitIsAlone' /\ CancelIsAlone' /\ SubmitKnows' /\ CancelKnows' /\ AtRest'
      BY ONLY <1>7, <2>1, <2>4, <2>5, <2>7, <2>8, <2>6, s \in Submits, k \in Keys, IInv,
         QuietInv, TroubledSubmit
    <2> QED BY <2>2, <2>3, <2>9 DEF QuietInv
  <1>8. ASSUME NEW s \in Submits, RetryRecordRefusal(s) PROVE QuietInv'
    <2>1. LiveKeys' = LiveKeys /\ \A q \in Keys : OrdersOf(q)' = OrdersOf(q)
      BY <1>8 DEF RetryRecordRefusal, SetStatus, EndSubmit, IdleSubmit, LiveKeys, OrdersOf
    <2>2. CallsAreAwaited' /\ CancelsNameOrder'
      BY <1>8, <2>1 DEF RetryRecordRefusal, SetStatus, EndSubmit, IdleSubmit
    <2>3. SubmitIsAlone'
      BY <1>8, <2>1 DEF RetryRecordRefusal, SetStatus, EndSubmit, IdleSubmit
    <2>4. CancelIsAlone'
      BY <1>8, <2>1 DEF RetryRecordRefusal, SetStatus, EndSubmit, IdleSubmit
    <2>5. SubmitKnows' /\ CancelKnows'
      BY <1>8, <2>1 DEF RetryRecordRefusal, SetStatus, EndSubmit, IdleSubmit
    <2>6. AtRest'
      BY <1>8, <2>1 DEF RetryRecordRefusal, SetStatus, EndSubmit, IdleSubmit
    <2> QED BY <2>2, <2>3, <2>4, <2>5, <2>6
  <1>9. ASSUME NEW s \in Submits, AbortSubmit(s) PROVE QuietInv'
    <2>1. LiveKeys' = LiveKeys /\ \A q \in Keys : OrdersOf(q)' = OrdersOf(q)
      BY <1>9 DEF AbortSubmit, SetStatus, LeaveSubmit, IdleSubmit, Contend, LiveKeys, OrdersOf
    <2>2. CallsAreAwaited'
      BY <1>9, <2>1 DEF AbortSubmit, SetStatus, LeaveSubmit, IdleSubmit, Contend
    <2>3. CancelsNameOrder'
      BY <1>9, <2>1 DEF AbortSubmit, SetStatus, LeaveSubmit, IdleSubmit, Contend
    <2>4. PICK k \in Keys : k = submit[s].key
      BY <1>9 DEF AbortSubmit, SetStatus, LeaveSubmit, IdleSubmit, Contend
    <2>5. trouble'[k] # {} /\ \A q \in Keys : q # k => trouble'[q] = trouble[q]
      <3>1. trouble' = [trouble EXCEPT ![k] = @ \cup {"contended"}]
        BY <1>9, <2>4 DEF AbortSubmit, Contend
      <3> QED BY ONLY <3>1, <2>4, TypeOK DEF TypeOK
    <2>6. \A q \in Keys : q # k => row'[q] = row[q]
      BY <1>9, <2>4 DEF AbortSubmit, SetStatus, LeaveSubmit, IdleSubmit, Contend
    <2>7. \A t \in Submits : t # s => submit'[t] = submit[t]
      BY <1>9 DEF AbortSubmit, SetStatus, LeaveSubmit, IdleSubmit, Contend
    <2>8. submit'[s].key \in {k, NoKey} /\ cancel' = cancel
      BY <1>9, <2>4 DEF AbortSubmit, SetStatus, LeaveSubmit, IdleSubmit, Contend
    <2> HIDE DEF QuietInv, SubmitIsAlone, CancelIsAlone, SubmitKnows, CancelKnows, AtRest
    <2>9. SubmitIsAlone' /\ CancelIsAlone' /\ SubmitKnows' /\ CancelKnows' /\ AtRest'
      BY ONLY <1>9, <2>1, <2>4, <2>5, <2>7, <2>8, <2>6, s \in Submits, k \in Keys, IInv,
         QuietInv, TroubledSubmit
    <2> QED BY <2>2, <2>3, <2>9 DEF QuietInv
  <1>10. ASSUME NEW s \in Submits, AbortSubmitFails(s) PROVE QuietInv'
    <2>1. LiveKeys' = LiveKeys /\ \A q \in Keys : OrdersOf(q)' = OrdersOf(q)
      BY <1>10 DEF AbortSubmitFails, LeaveSubmit, IdleSubmit, Interrupt, LiveKeys, OrdersOf
    <2>2. CallsAreAwaited'
      BY <1>10, <2>1 DEF AbortSubmitFails, LeaveSubmit, IdleSubmit, Interrupt
    <2>3. CancelsNameOrder'
      BY <1>10, <2>1 DEF AbortSubmitFails, LeaveSubmit, IdleSubmit, Interrupt
    <2>4. PICK k \in Keys : k = submit[s].key
      BY <1>10 DEF AbortSubmitFails, LeaveSubmit, IdleSubmit, Interrupt
    <2>5. trouble'[k] # {} /\ \A q \in Keys : q # k => trouble'[q] = trouble[q]
      <3>1. trouble' = [trouble EXCEPT ![k] = @ \cup {"interrupted"}]
        BY <1>10, <2>4 DEF AbortSubmitFails, Interrupt
      <3> QED BY ONLY <3>1, <2>4, TypeOK DEF TypeOK
    <2>6. \A q \in Keys : q # k => row'[q] = row[q]
      BY <1>10, <2>4 DEF AbortSubmitFails, LeaveSubmit, IdleSubmit, Interrupt
    <2>7. \A t \in Submits : t # s => submit'[t] = submit[t]
      BY <1>10 DEF AbortSubmitFails, LeaveSubmit, IdleSubmit, Interrupt
    <2>8. submit'[s].key \in {k, NoKey} /\ cancel' = cancel
      BY <1>10, <2>4 DEF AbortSubmitFails, LeaveSubmit, IdleSubmit, Interrupt
    <2> HIDE DEF QuietInv, SubmitIsAlone, CancelIsAlone, SubmitKnows, CancelKnows, AtRest
    <2>9. SubmitIsAlone' /\ CancelIsAlone' /\ SubmitKnows' /\ CancelKnows' /\ AtRest'
      BY ONLY <1>10, <2>1, <2>4, <2>5, <2>7, <2>8, <2>6, s \in Submits, k \in Keys, IInv,
         QuietInv, TroubledSubmit
    <2> QED BY <2>2, <2>3, <2>9 DEF QuietInv
  <1>11. ASSUME NEW s \in Submits, BrokerRefuses(s) PROVE QuietInv'
    <2>1. LiveKeys' = LiveKeys /\ \A q \in Keys : OrdersOf(q)' = OrdersOf(q)
      BY <1>11 DEF BrokerRefuses, IdleSubmit, LiveKeys, OrdersOf
    <2>2. CallsAreAwaited' /\ CancelsNameOrder'
      BY <1>11, <2>1 DEF BrokerRefuses, IdleSubmit
    <2>3. SubmitIsAlone'
      BY <1>11, <2>1 DEF BrokerRefuses, IdleSubmit
    <2>4. CancelIsAlone'
      BY <1>11, <2>1 DEF BrokerRefuses, IdleSubmit
    <2>5. SubmitKnows' /\ CancelKnows'
      BY <1>11, <2>1 DEF BrokerRefuses, IdleSubmit
    <2>6. AtRest'
      BY <1>11, <2>1 DEF BrokerRefuses, IdleSubmit
    <2> QED BY <2>2, <2>3, <2>4, <2>5, <2>6
  <1>12. ASSUME NEW s \in Submits, NEW i \in BrokerIds, BrokerAccepts(s, i) PROVE QuietInv'
    <2>1. LiveKeys' = LiveKeys \cup {submit[s].key} /\ \A q \in Keys : OrdersOf(q) \subseteq OrdersOf(q)'
      BY <1>12, OrderAccepted
    <2>2. CallsAreAwaited' /\ CancelsNameOrder'
      BY <1>12, <2>1 DEF BrokerAccepts, IdleSubmit
    <2>3. SubmitIsAlone'
      BY <1>12, <2>1 DEF BrokerAccepts, IdleSubmit
    <2>4. CancelIsAlone'
      BY <1>12, <2>1 DEF BrokerAccepts, IdleSubmit
    <2>5. SubmitKnows' /\ CancelKnows'
      BY <1>12, <2>1 DEF BrokerAccepts, IdleSubmit
    <2>6. AtRest'
      BY <1>12, <2>1 DEF BrokerAccepts, IdleSubmit
    <2> QED BY <2>2, <2>3, <2>4, <2>5, <2>6
  <1>13. ASSUME NEW c \in Cancels, NEW k \in Keys, CancelOrder(c, k) PROVE QuietInv'
    <2>1. LiveKeys' = LiveKeys /\ \A q \in Keys : OrdersOf(q)' = OrdersOf(q)
      BY <1>13 DEF CancelOrder, ContendIf, Contend, InFlight, LiveKeys, OrdersOf
    <2>2. trouble'[k] = {} =>
             /\ trouble[k] = {}
             /\ \A t \in Submits : submit[t].key # k
             /\ \A d \in Cancels : cancel[d].key # k
      <3>1. IF InFlight(k) THEN trouble' = [trouble EXCEPT ![k] = @ \cup {"contended"}]
                           ELSE trouble' = trouble
        BY ONLY <1>13 DEF CancelOrder, ContendIf, Contend
      <3>2. trouble'[k] = {} => trouble[k] = {} /\ ~InFlight(k)
        BY ONLY <3>1, trouble \in [Keys -> SUBSET {"contended", "interrupted"}], k \in Keys
      <3> QED BY ONLY <3>2, k \in Keys, QuietInv, RestingKey
    <2>3. \A q \in Keys : q # k => trouble'[q] = trouble[q]
      BY <1>13 DEF CancelOrder, ContendIf, Contend
    <2>4. CallsAreAwaited'
      BY <1>13, <2>1, <2>2, <2>3 DEF CancelOrder, AcceptedIsBacked
    <2>5. CancelsNameOrder'
      BY <1>13, <2>1, <2>2, <2>3 DEF CancelOrder, AcceptedIsBacked
    <2>6. SubmitIsAlone'
      BY <1>13, <2>1, <2>2, <2>3 DEF CancelOrder, AcceptedIsBacked
    <2>7. CancelIsAlone'
      BY <1>13, <2>1, <2>2, <2>3 DEF CancelOrder, AcceptedIsBacked
    <2>8. SubmitKnows'
      BY <1>13, <2>1, <2>2, <2>3 DEF CancelOrder, AcceptedIsBacked
    <2>9. CancelKnows'
      <3>1. /\ \A d \in Cancels : d # c => cancel'[d] = cancel[d]
            /\ cancel'[c].pc = IF row[k].alpacaId = NoId THEN "finish" ELSE "mark"
            /\ cancel'[c].key = k /\ cancel'[c].call = "none" /\ cancel'[c].prior = row[k].status
        BY <1>13 DEF CancelOrder
      <3>2. trouble'[k] = {} => /\ row[k].status \notin {"pending", "cancelling"}
                                /\ k \in LiveKeys <=> row[k].status = "accepted"
        <4>1. AtRest
          BY ONLY QuietInv DEF QuietInv
        <4>2. trouble'[k] = {} => /\ row[k].status \notin {"pending", "cancelling"}
                                  /\ row[k].status = "accepted" <=> k \in LiveKeys
          BY ONLY <4>1, <2>2, k \in Keys DEF AtRest
        <4> QED BY ONLY <4>2
      <3>3. row[k].alpacaId = NoId => row[k].status # "accepted"
        BY DEF AcceptedIsBacked
      <3>4. ASSUME NEW d \in Cancels, cancel'[d].key \in Keys, trouble'[cancel'[d].key] = {}
            PROVE  /\ cancel'[d].pc \in {"mark", "await", "finish"}
                   /\ cancel'[d].prior \notin {"pending", "cancelling"}
                   /\ cancel'[d].pc = "finish" \/ cancel'[d].call = "taken" => cancel'[d].key \notin LiveKeys'
                   /\ ~(cancel'[d].pc = "finish" \/ cancel'[d].call = "taken") =>
                         (cancel'[d].key \in LiveKeys' <=> cancel'[d].prior = "accepted")
        <4>1. CASE d = c
          BY ONLY <4>1, <3>1, <3>2, <3>3, <3>4, <2>1
        <4>2. CASE d # c
          <5>1. cancel'[d] = cancel[d]
            BY ONLY <4>2, <3>1, d \in Cancels
          <5>2. trouble[cancel[d].key] = {}
            BY ONLY <5>1, <3>4, <2>2, <2>3
          <5> QED BY ONLY <5>1, <5>2, <3>4, <2>1, d \in Cancels, QuietInv DEF QuietInv,
                     CancelKnows
        <4> QED BY ONLY <4>1, <4>2
      <3> QED BY ONLY <3>4 DEF CancelKnows
    <2>10. AtRest'
      BY <1>13, <2>1, <2>2, <2>3 DEF CancelOrder, AcceptedIsBacked
    <2> QED BY <2>4, <2>5, <2>6, <2>7, <2>8, <2>9, <2>10
  <1>14. ASSUME NEW c \in Cancels, MarkCancelling(c) PROVE QuietInv'
    <2>1. LiveKeys' = LiveKeys /\ \A q \in Keys : OrdersOf(q)' = OrdersOf(q)
      BY <1>14 DEF MarkCancelling, SetStatus, LiveKeys, OrdersOf
    <2>2. CallsAreAwaited' /\ CancelsNameOrder'
      BY <1>14, <2>1 DEF MarkCancelling, SetStatus
    <2>3. SubmitIsAlone'
      BY <1>14, <2>1 DEF MarkCancelling, SetStatus
    <2>4. CancelIsAlone'
      BY <1>14, <2>1 DEF MarkCancelling, SetStatus
    <2>5. SubmitKnows' /\ CancelKnows'
      BY <1>14, <2>1 DEF MarkCancelling, SetStatus
    <2>6. AtRest'
      BY <1>14, <2>1 DEF MarkCancelling, SetStatus
    <2> QED BY <2>2, <2>3, <2>4, <2>5, <2>6
  <1>15. ASSUME NEW c \in Cancels, MarkCancellingFails(c) PROVE QuietInv'
    <2>1. LiveKeys' = LiveKeys /\ \A q \in Keys : OrdersOf(q)' = OrdersOf(q)
      BY <1>15 DEF MarkCancellingFails, SetStatus, EndCancel, IdleCancel, Interrupt, LiveKeys,
         OrdersOf
    <2>2. CallsAreAwaited'
      BY <1>15, <2>1 DEF MarkCancellingFails, SetStatus, EndCancel, IdleCancel, Interrupt
    <2>3. CancelsNameOrder'
      BY <1>15, <2>1 DEF MarkCancellingFails, SetStatus, EndCancel, IdleCancel, Interrupt
    <2>4. PICK k \in Keys : k = cancel[c].key
      BY <1>15 DEF MarkCancellingFails, SetStatus, EndCancel, IdleCancel, Interrupt
    <2>5. trouble'[k] # {} /\ \A q \in Keys : q # k => trouble'[q] = trouble[q]
      <3>1. trouble' = [trouble EXCEPT ![k] = @ \cup {"interrupted"}]
        BY <1>15, <2>4 DEF MarkCancellingFails, Interrupt
      <3> QED BY ONLY <3>1, <2>4, TypeOK DEF TypeOK
    <2>6. \A q \in Keys : q # k => row'[q] = row[q]
      BY <1>15, <2>4 DEF MarkCancellingFails, SetStatus, EndCancel, IdleCancel, Interrupt
    <2>7. \A d \in Cancels : d # c => cancel'[d] = cancel[d]
      BY <1>15 DEF MarkCancellingFails, SetStatus, EndCancel, IdleCancel, Interrupt
    <2>8. cancel'[c].key \in {k, NoKey} /\ submit' = submit
      BY <1>15, <2>4 DEF MarkCancellingFails, SetStatus, EndCancel, IdleCancel, Interrupt
    <2> HIDE DEF QuietInv, SubmitIsAlone, CancelIsAlone, SubmitKnows, CancelKnows, AtRest
    <2>9. SubmitIsAlone' /\ CancelIsAlone' /\ SubmitKnows' /\ CancelKnows' /\ AtRest'
      BY ONLY <1>15, <2>1, <2>4, <2>5, <2>7, <2>8, <2>6, c \in Cancels, k \in Keys, IInv,
         QuietInv, TroubledCancel
    <2> QED BY <2>2, <2>3, <2>9 DEF QuietInv
  <1>16. ASSUME NEW c \in Cancels, FinalizeCancelled(c) PROVE QuietInv'
    <2>1. LiveKeys' = LiveKeys /\ \A q \in Keys : OrdersOf(q)' = OrdersOf(q)
      BY <1>16 DEF FinalizeCancelled, CancelDue, SetStatus, EndCancel, IdleCancel, LiveKeys,
         OrdersOf
    <2>2. CallsAreAwaited' /\ CancelsNameOrder'
      BY <1>16, <2>1 DEF FinalizeCancelled, CancelDue, SetStatus, EndCancel, IdleCancel
    <2>3. SubmitIsAlone'
      BY <1>16, <2>1 DEF FinalizeCancelled, CancelDue, SetStatus, EndCancel, IdleCancel
    <2>4. CancelIsAlone'
      BY <1>16, <2>1 DEF FinalizeCancelled, CancelDue, SetStatus, EndCancel, IdleCancel
    <2>5. SubmitKnows' /\ CancelKnows'
      BY <1>16, <2>1 DEF FinalizeCancelled, CancelDue, SetStatus, EndCancel, IdleCancel
    <2>6. AtRest'
      BY <1>16, <2>1 DEF FinalizeCancelled, CancelDue, SetStatus, EndCancel, IdleCancel
    <2> QED BY <2>2, <2>3, <2>4, <2>5, <2>6
  <1>17. ASSUME NEW c \in Cancels, FinalizeCancelledFails(c) PROVE QuietInv'
    <2>1. LiveKeys' = LiveKeys /\ \A q \in Keys : OrdersOf(q)' = OrdersOf(q)
      BY <1>17 DEF FinalizeCancelledFails, CancelDue, SetStatus, EndCancel, IdleCancel,
         Interrupt, LiveKeys, OrdersOf
    <2>2. CallsAreAwaited'
      BY <1>17, <2>1 DEF FinalizeCancelledFails, CancelDue, SetStatus, EndCancel, IdleCancel,
         Interrupt
    <2>3. CancelsNameOrder'
      BY <1>17, <2>1 DEF FinalizeCancelledFails, CancelDue, SetStatus, EndCancel, IdleCancel,
         Interrupt
    <2>4. PICK k \in Keys : k = cancel[c].key
      BY <1>17 DEF FinalizeCancelledFails, CancelDue, SetStatus, EndCancel, IdleCancel, Interrupt
    <2>5. trouble'[k] # {} /\ \A q \in Keys : q # k => trouble'[q] = trouble[q]
      <3>1. trouble' = [trouble EXCEPT ![k] = @ \cup {"interrupted"}]
        BY <1>17, <2>4 DEF FinalizeCancelledFails, Interrupt
      <3> QED BY ONLY <3>1, <2>4, TypeOK DEF TypeOK
    <2>6. \A q \in Keys : q # k => row'[q] = row[q]
      BY <1>17, <2>4 DEF FinalizeCancelledFails, CancelDue, SetStatus, EndCancel, IdleCancel,
         Interrupt
    <2>7. \A d \in Cancels : d # c => cancel'[d] = cancel[d]
      BY <1>17 DEF FinalizeCancelledFails, CancelDue, SetStatus, EndCancel, IdleCancel, Interrupt
    <2>8. cancel'[c].key \in {k, NoKey} /\ submit' = submit
      BY <1>17, <2>4 DEF FinalizeCancelledFails, CancelDue, SetStatus, EndCancel, IdleCancel,
         Interrupt
    <2> HIDE DEF QuietInv, SubmitIsAlone, CancelIsAlone, SubmitKnows, CancelKnows, AtRest
    <2>9. SubmitIsAlone' /\ CancelIsAlone' /\ SubmitKnows' /\ CancelKnows' /\ AtRest'
      BY ONLY <1>17, <2>1, <2>4, <2>5, <2>7, <2>8, <2>6, c \in Cancels, k \in Keys, IInv,
         QuietInv, TroubledCancel
    <2> QED BY <2>2, <2>3, <2>9 DEF QuietInv
  <1>18. ASSUME NEW c \in Cancels, RestoreStatus(c) PROVE QuietInv'
    <2>1. LiveKeys' = LiveKeys /\ \A q \in Keys : OrdersOf(q)' = OrdersOf(q)
      BY <1>18 DEF RestoreStatus, SetStatus, EndCancel, IdleCancel, LiveKeys, OrdersOf
    <2>2. CallsAreAwaited' /\ CancelsNameOrder'
      BY <1>18, <2>1 DEF RestoreStatus, SetStatus, EndCancel, IdleCancel
    <2>3. SubmitIsAlone'
      BY <1>18, <2>1 DEF RestoreStatus, SetStatus, EndCancel, IdleCancel
    <2>4. CancelIsAlone'
      BY <1>18, <2>1 DEF RestoreStatus, SetStatus, EndCancel, IdleCancel
    <2>5. SubmitKnows' /\ CancelKnows'
      BY <1>18, <2>1 DEF RestoreStatus, SetStatus, EndCancel, IdleCancel
    <2>6. AtRest'
      BY <1>18, <2>1 DEF RestoreStatus, SetStatus, EndCancel, IdleCancel
    <2> QED BY <2>2, <2>3, <2>4, <2>5, <2>6
  <1>19. ASSUME NEW c \in Cancels, AbortCancel(c) PROVE QuietInv'
    <2>1. LiveKeys' = LiveKeys /\ \A q \in Keys : OrdersOf(q)' = OrdersOf(q)
      BY <1>19 DEF AbortCancel, SetStatus, LeaveCancel, IdleCancel, Contend, LiveKeys, OrdersOf
    <2>2. CallsAreAwaited'
      BY <1>19, <2>1 DEF AbortCancel, SetStatus, LeaveCancel, IdleCancel, Contend
    <2>3. CancelsNameOrder'
      BY <1>19, <2>1 DEF AbortCancel, SetStatus, LeaveCancel, IdleCancel, Contend
    <2>4. PICK k \in Keys : k = cancel[c].key
      BY <1>19 DEF AbortCancel, SetStatus, LeaveCancel, IdleCancel, Contend
    <2>5. trouble'[k] # {} /\ \A q \in Keys : q # k => trouble'[q] = trouble[q]
      <3>1. trouble' = [trouble EXCEPT ![k] = @ \cup {"contended"}]
        BY <1>19, <2>4 DEF AbortCancel, Contend
      <3> QED BY ONLY <3>1, <2>4, TypeOK DEF TypeOK
    <2>6. \A q \in Keys : q # k => row'[q] = row[q]
      BY <1>19, <2>4 DEF AbortCancel, SetStatus, LeaveCancel, IdleCancel, Contend
    <2>7. \A d \in Cancels : d # c => cancel'[d] = cancel[d]
      BY <1>19 DEF AbortCancel, SetStatus, LeaveCancel, IdleCancel, Contend
    <2>8. cancel'[c].key \in {k, NoKey} /\ submit' = submit
      BY <1>19, <2>4 DEF AbortCancel, SetStatus, LeaveCancel, IdleCancel, Contend
    <2> HIDE DEF QuietInv, SubmitIsAlone, CancelIsAlone, SubmitKnows, CancelKnows, AtRest
    <2>9. SubmitIsAlone' /\ CancelIsAlone' /\ SubmitKnows' /\ CancelKnows' /\ AtRest'
      BY ONLY <1>19, <2>1, <2>4, <2>5, <2>7, <2>8, <2>6, c \in Cancels, k \in Keys, IInv,
         QuietInv, TroubledCancel
    <2> QED BY <2>2, <2>3, <2>9 DEF QuietInv
  <1>20. ASSUME NEW c \in Cancels, RestoreStatusFails(c) PROVE QuietInv'
    <2>1. LiveKeys' = LiveKeys /\ \A q \in Keys : OrdersOf(q)' = OrdersOf(q)
      BY <1>20 DEF RestoreStatusFails, LeaveCancel, IdleCancel, Interrupt, LiveKeys, OrdersOf
    <2>2. CallsAreAwaited'
      BY <1>20, <2>1 DEF RestoreStatusFails, LeaveCancel, IdleCancel, Interrupt
    <2>3. CancelsNameOrder'
      BY <1>20, <2>1 DEF RestoreStatusFails, LeaveCancel, IdleCancel, Interrupt
    <2>4. PICK k \in Keys : k = cancel[c].key
      BY <1>20 DEF RestoreStatusFails, LeaveCancel, IdleCancel, Interrupt
    <2>5. trouble'[k] # {} /\ \A q \in Keys : q # k => trouble'[q] = trouble[q]
      <3>1. trouble' = [trouble EXCEPT ![k] = @ \cup {"interrupted"}]
        BY <1>20, <2>4 DEF RestoreStatusFails, Interrupt
      <3> QED BY ONLY <3>1, <2>4, TypeOK DEF TypeOK
    <2>6. \A q \in Keys : q # k => row'[q] = row[q]
      BY <1>20, <2>4 DEF RestoreStatusFails, LeaveCancel, IdleCancel, Interrupt
    <2>7. \A d \in Cancels : d # c => cancel'[d] = cancel[d]
      BY <1>20 DEF RestoreStatusFails, LeaveCancel, IdleCancel, Interrupt
    <2>8. cancel'[c].key \in {k, NoKey} /\ submit' = submit
      BY <1>20, <2>4 DEF RestoreStatusFails, LeaveCancel, IdleCancel, Interrupt
    <2> HIDE DEF QuietInv, SubmitIsAlone, CancelIsAlone, SubmitKnows, CancelKnows, AtRest
    <2>9. SubmitIsAlone' /\ CancelIsAlone' /\ SubmitKnows' /\ CancelKnows' /\ AtRest'
      BY ONLY <1>20, <2>1, <2>4, <2>5, <2>7, <2>8, <2>6, c \in Cancels, k \in Keys, IInv,
         QuietInv, TroubledCancel
    <2> QED BY <2>2, <2>3, <2>9 DEF QuietInv
  <1>21. ASSUME NEW c \in Cancels, BrokerCancels(c) PROVE QuietInv'
    <2>1. LiveKeys' = LiveKeys \ {cancel[c].key} /\ \A q \in Keys : OrdersOf(q) \subseteq OrdersOf(q)'
      BY <1>21, OrderCancelled
    <2>2. CallsAreAwaited'
      BY <1>21, <2>1 DEF BrokerCancels, IdleCancel
    <2>3. CancelsNameOrder'
      BY <1>21, <2>1 DEF BrokerCancels, IdleCancel
    <2>4. SubmitIsAlone'
      BY <1>21, <2>1 DEF BrokerCancels, IdleCancel
    <2>5. CancelIsAlone'
      BY <1>21, <2>1 DEF BrokerCancels, IdleCancel
    <2>6. SubmitKnows'
      BY <1>21, <2>1 DEF BrokerCancels, IdleCancel
    <2>7. CancelKnows'
      BY <1>21, <2>1 DEF BrokerCancels, IdleCancel
    <2>8. AtRest'
      BY <1>21, <2>1 DEF BrokerCancels, IdleCancel
    <2> QED BY <2>2, <2>3, <2>4, <2>5, <2>6, <2>7, <2>8
  <1>22. ASSUME NEW c \in Cancels, BrokerRefusesCancel(c) PROVE QuietInv'
    <2>1. LiveKeys' = LiveKeys /\ \A q \in Keys : OrdersOf(q)' = OrdersOf(q)
      BY <1>22 DEF BrokerRefusesCancel, IdleCancel, LiveKeys, OrdersOf
    <2>2. CallsAreAwaited' /\ CancelsNameOrder'
      BY <1>22, <2>1 DEF BrokerRefusesCancel, IdleCancel
    <2>3. SubmitIsAlone'
      BY <1>22, <2>1 DEF BrokerRefusesCancel, IdleCancel
    <2>4. CancelIsAlone'
      BY <1>22, <2>1 DEF BrokerRefusesCancel, IdleCancel
    <2>5. SubmitKnows' /\ CancelKnows'
      BY <1>22, <2>1 DEF BrokerRefusesCancel, IdleCancel
    <2>6. AtRest'
      BY <1>22, <2>1 DEF BrokerRefusesCancel, IdleCancel
    <2> QED BY <2>2, <2>3, <2>4, <2>5, <2>6
  <1>23. ASSUME NEW i \in BrokerIds, BrokerCloses(i) PROVE QuietInv'
    <2>1. LiveKeys' = LiveKeys /\ \A q \in Keys : OrdersOf(q) \subseteq OrdersOf(q)'
      BY <1>23, OrderClosed
    <2>2. CallsAreAwaited' /\ CancelsNameOrder'
      BY <1>23, <2>1 DEF BrokerCloses
    <2>3. SubmitIsAlone'
      BY <1>23, <2>1 DEF BrokerCloses
    <2>4. CancelIsAlone'
      BY <1>23, <2>1 DEF BrokerCloses
    <2>5. SubmitKnows' /\ CancelKnows'
      BY <1>23, <2>1 DEF BrokerCloses
    <2>6. AtRest'
      BY <1>23, <2>1 DEF BrokerCloses
    <2> QED BY <2>2, <2>3, <2>4, <2>5, <2>6
  <1>24. CASE Crash
    <2>1. LiveKeys' = LiveKeys /\ \A q \in Keys : OrdersOf(q)' = OrdersOf(q)
      BY <1>24 DEF Crash, InFlight, LeaveSubmit, LeaveCancel, IdleSubmit, IdleCancel, LiveKeys,
         OrdersOf
    <2>2. CallsAreAwaited'
      BY <1>24, <2>1 DEF Crash, InFlight, LeaveSubmit, LeaveCancel, IdleSubmit, IdleCancel
    <2>3. CancelsNameOrder'
      BY <1>24, <2>1 DEF Crash, InFlight, LeaveSubmit, LeaveCancel, IdleSubmit, IdleCancel
    <2>4. ASSUME NEW k \in Keys, trouble'[k] = {}
          PROVE  trouble[k] = {} /\ (\A s \in Submits : submit[s].key # k) /\ (\A c \in Cancels : cancel[c].key # k)
      <3>1. trouble[k] = {} /\ ~InFlight(k)
        BY <1>24, <2>4 DEF Crash
      <3> QED BY ONLY <3>1, QuietInv, RestingKey
    <2>5. /\ \A s \in Submits : submit'[s].key \in {submit[s].key, NoKey}
          /\ \A c \in Cancels : cancel'[c].key \in {cancel[c].key, NoKey}
          /\ row' = row
      BY <1>24 DEF Crash, InFlight, LeaveSubmit, LeaveCancel, IdleSubmit, IdleCancel
    <2>6. SubmitIsAlone' /\ CancelIsAlone' /\ SubmitKnows' /\ CancelKnows'
      BY ONLY <1>24, <2>1, <2>4, <2>5, QuietInv, OrdersAssumption DEF Crash, LeaveSubmit,
         LeaveCancel, IdleSubmit, IdleCancel, QuietInv, SubmitIsAlone, CancelIsAlone,
         SubmitKnows, CancelKnows
    <2>7. AtRest'
      BY ONLY <2>1, <2>4, <2>5, QuietInv DEF QuietInv, AtRest
    <2> QED BY <2>2, <2>3, <2>6, <2>7
  <1>25. CASE UNCHANGED vars
    <2>1. LiveKeys' = LiveKeys /\ \A q \in Keys : OrdersOf(q)' = OrdersOf(q)
      BY <1>25 DEF vars, LiveKeys, OrdersOf
    <2>2. CallsAreAwaited' /\ CancelsNameOrder'
      BY <1>25, <2>1 DEF vars
    <2>3. SubmitIsAlone'
      BY <1>25, <2>1 DEF vars
    <2>4. CancelIsAlone'
      BY <1>25, <2>1 DEF vars
    <2>5. SubmitKnows' /\ CancelKnows'
      BY <1>25, <2>1 DEF vars
    <2>6. AtRest'
      BY <1>25, <2>1 DEF vars
    <2> QED BY <2>2, <2>3, <2>4, <2>5, <2>6
  <1>26. ASSUME NEW s \in Submits, AnswerLost(s) PROVE QuietInv'
    <2>1. LiveKeys' = LiveKeys /\ \A q \in Keys : OrdersOf(q)' = OrdersOf(q)
      BY <1>26 DEF AnswerLost, Contend, LiveKeys, OrdersOf
    <2>2. CallsAreAwaited'
      BY <1>26, <2>1 DEF AnswerLost, Contend
    <2>3. CancelsNameOrder'
      BY <1>26, <2>1 DEF AnswerLost, Contend
    <2>4. PICK k \in Keys : k = submit[s].key
      BY <1>26 DEF AnswerLost, Contend
    <2>5. trouble'[k] # {} /\ \A q \in Keys : q # k => trouble'[q] = trouble[q]
      <3>1. trouble' = [trouble EXCEPT ![k] = @ \cup {"contended"}]
        BY <1>26, <2>4 DEF AnswerLost, Contend
      <3> QED BY ONLY <3>1, <2>4, TypeOK DEF TypeOK
    <2>6. \A q \in Keys : q # k => row'[q] = row[q]
      BY <1>26, <2>4 DEF AnswerLost, Contend
    <2>7. \A t \in Submits : t # s => submit'[t] = submit[t]
      BY <1>26 DEF AnswerLost, Contend
    <2>8. submit'[s].key \in {k, NoKey} /\ cancel' = cancel
      BY <1>26, <2>4 DEF AnswerLost, Contend
    <2> HIDE DEF QuietInv, SubmitIsAlone, CancelIsAlone, SubmitKnows, CancelKnows, AtRest
    <2>9. SubmitIsAlone' /\ CancelIsAlone' /\ SubmitKnows' /\ CancelKnows' /\ AtRest'
      BY ONLY <1>26, <2>1, <2>4, <2>5, <2>7, <2>8, <2>6, s \in Submits, k \in Keys, IInv,
         QuietInv, TroubledSubmit
    <2> QED BY <2>2, <2>3, <2>9 DEF QuietInv
  <1>27. ASSUME NEW c \in Cancels, CancelAnswerLost(c) PROVE QuietInv'
    <2>1. LiveKeys' = LiveKeys /\ \A q \in Keys : OrdersOf(q)' = OrdersOf(q)
      BY <1>27 DEF CancelAnswerLost, Contend, LiveKeys, OrdersOf
    <2>2. CallsAreAwaited'
      BY <1>27, <2>1 DEF CancelAnswerLost, Contend
    <2>3. CancelsNameOrder'
      BY <1>27, <2>1 DEF CancelAnswerLost, Contend
    <2>4. PICK k \in Keys : k = cancel[c].key
      BY <1>27 DEF CancelAnswerLost, Contend
    <2>5. trouble'[k] # {} /\ \A q \in Keys : q # k => trouble'[q] = trouble[q]
      <3>1. trouble' = [trouble EXCEPT ![k] = @ \cup {"contended"}]
        BY <1>27, <2>4 DEF CancelAnswerLost, Contend
      <3> QED BY ONLY <3>1, <2>4, TypeOK DEF TypeOK
    <2>6. \A q \in Keys : q # k => row'[q] = row[q]
      BY <1>27, <2>4 DEF CancelAnswerLost, Contend
    <2>7. \A d \in Cancels : d # c => cancel'[d] = cancel[d]
      BY <1>27 DEF CancelAnswerLost, Contend
    <2>8. cancel'[c].key \in {k, NoKey} /\ submit' = submit
      BY <1>27, <2>4 DEF CancelAnswerLost, Contend
    <2> HIDE DEF QuietInv, SubmitIsAlone, CancelIsAlone, SubmitKnows, CancelKnows, AtRest
    <2>9. SubmitIsAlone' /\ CancelIsAlone' /\ SubmitKnows' /\ CancelKnows' /\ AtRest'
      BY ONLY <1>27, <2>1, <2>4, <2>5, <2>7, <2>8, <2>6, c \in Cancels, k \in Keys, IInv,
         QuietInv, TroubledCancel
    <2> QED BY <2>2, <2>3, <2>9 DEF QuietInv
  <1> QED
    BY <1>1, <1>2, <1>3, <1>4, <1>5, <1>6, <1>7, <1>8, <1>9, <1>10, <1>11, <1>12, <1>13, <1>14,
       <1>15, <1>16, <1>17, <1>18, <1>19, <1>20, <1>21, <1>22, <1>23, <1>24, <1>25, <1>26, <1>27
    DEF Next, SubmitStep, CancelStep, BrokerStep

LEMMA InitQuietInv == Init => QuietInv
  BY OrdersAssumption
  DEF Init, IdleSubmit, IdleCancel, OrdersOf, LiveKeys, QuietInv, CallsAreAwaited,
      CancelsNameOrder, SubmitIsAlone, CancelIsAlone, SubmitKnows, CancelKnows, AtRest

LEMMA QuietInvAgrees ==
    ASSUME QuietInv
    PROVE  QuietKeyAgrees
  <1>1. ASSUME NEW k \in Keys, trouble[k] = {}, ~InFlight(k)
        PROVE  /\ row[k].status \notin {"pending", "cancelling"}
               /\ row[k].status = "accepted" <=> k \in LiveKeys
    BY ONLY <1>1, k \in Keys, QuietInv, RestingKey DEF QuietInv, AtRest
  <1> QED BY <1>1 DEF QuietKeyAgrees, LiveKeys

\* Undisturbed requests, one after the other, leave the row 'accepted' exactly
\* while the broker holds a live or filled order for its key.
THEOREM QuietKeysAgree == Spec => []QuietKeyAgrees
  <1> QED BY InitIInv, NextIInv, InitQuietInv, NextQuietInv, QuietInvAgrees, PTL DEF Spec

-----------------------------------------------------------------------------
(* The lifecycle of a row, step by step.                                   *)

\* A row is pending only from its insert on: no step makes a row that has moved
\* on pending again.  (A cancel writes back the status it read, but it has read
\* 'pending' only of a row without an order id, for which it asks nobody and
\* restores nothing.)
PendingIsEntry ==
    \A k \in Keys :
        row[k].status # "none" /\ row'[k].status = "pending" => row[k].status = "pending"

LEMMA StepPendingIsEntry ==
    ASSUME IInv, [Next]_vars
    PROVE  PendingIsEntry
  <1> TypeOK /\ CancelKnowsRow /\ RowIdMatchesStatus
    BY DEF IInv
  <1> USE DEF TypeOK, RowType, Status, CancelKnowsRow, CancelActive, RowIdMatchesStatus,
              PendingIsEntry
  <1>1. ASSUME NEW s \in Submits, NEW k \in Keys, SubmitOrder(s, k) PROVE PendingIsEntry
    BY <1>1 DEF SubmitOrder
  <1>2. ASSUME NEW s \in Submits, CreateOrder(s) PROVE PendingIsEntry
    BY <1>2 DEF CreateOrder, InsertPending
  <1>3. ASSUME NEW s \in Submits, CreateOrderFails(s) PROVE PendingIsEntry
    BY <1>3 DEF CreateOrderFails, InsertPending
  <1>4. ASSUME NEW s \in Submits, FinalizeAccepted(s) PROVE PendingIsEntry
    BY <1>4 DEF FinalizeAccepted, SetAccepted
  <1>5. ASSUME NEW s \in Submits, FinalizeFails(s) PROVE PendingIsEntry
    BY <1>5 DEF FinalizeFails, SetAccepted
  <1>6. ASSUME NEW s \in Submits, RecordRefusal(s) PROVE PendingIsEntry
    BY <1>6 DEF RecordRefusal, SetStatus
  <1>7. ASSUME NEW s \in Submits, RecordRefusalFails(s) PROVE PendingIsEntry
    BY <1>7 DEF RecordRefusalFails, SetStatus
  <1>8. ASSUME NEW s \in Submits, RetryRecordRefusal(s) PROVE PendingIsEntry
    BY <1>8 DEF RetryRecordRefusal, SetStatus
  <1>9. ASSUME NEW s \in Submits, AbortSubmit(s) PROVE PendingIsEntry
    BY <1>9 DEF AbortSubmit, SetStatus
  <1>10. ASSUME NEW s \in Submits, AbortSubmitFails(s) PROVE PendingIsEntry
    BY <1>10 DEF AbortSubmitFails
  <1>11. ASSUME NEW s \in Submits, BrokerRefuses(s) PROVE PendingIsEntry
    BY <1>11 DEF BrokerRefuses
  <1>12. ASSUME NEW s \in Submits, NEW i \in BrokerIds, BrokerAccepts(s, i) PROVE PendingIsEntry
    BY <1>12 DEF BrokerAccepts
  <1>13. ASSUME NEW c \in Cancels, NEW k \in Keys, CancelOrder(c, k) PROVE PendingIsEntry
    BY <1>13 DEF CancelOrder
  <1>14. ASSUME NEW c \in Cancels, MarkCancelling(c) PROVE PendingIsEntry
    BY <1>14 DEF MarkCancelling, SetStatus
  <1>15. ASSUME NEW c \in Cancels, MarkCancellingFails(c) PROVE PendingIsEntry
    BY <1>15 DEF MarkCancellingFails, SetStatus
  <1>16. ASSUME NEW c \in Cancels, FinalizeCancelled(c) PROVE PendingIsEntry
    BY <1>16 DEF FinalizeCancelled, CancelDue, SetStatus
  <1>17. ASSUME NEW c \in Cancels, FinalizeCancelledFails(c) PROVE PendingIsEntry
    BY <1>17 DEF FinalizeCancelledFails, CancelDue, SetStatus
  <1>18. ASSUME NEW c \in Cancels, RestoreStatus(c) PROVE PendingIsEntry
    BY <1>18 DEF RestoreStatus, SetStatus
  <1>19. ASSUME NEW c \in Cancels, AbortCancel(c) PROVE PendingIsEntry
    BY <1>19 DEF AbortCancel, SetStatus
  <1>20. ASSUME NEW c \in Cancels, RestoreStatusFails(c) PROVE PendingIsEntry
    BY <1>20 DEF RestoreStatusFails
  <1>21. ASSUME NEW c \in Cancels, BrokerCancels(c) PROVE PendingIsEntry
    BY <1>21 DEF BrokerCancels
  <1>22. ASSUME NEW c \in Cancels, BrokerRefusesCancel(c) PROVE PendingIsEntry
    BY <1>22 DEF BrokerRefusesCancel
  <1>23. ASSUME NEW i \in BrokerIds, BrokerCloses(i) PROVE PendingIsEntry
    BY <1>23 DEF BrokerCloses
  <1>24. CASE Crash
    BY <1>24 DEF Crash
  <1>25. CASE UNCHANGED vars
    BY <1>25 DEF vars
  <1>26. ASSUME NEW s \in Submits, AnswerLost(s) PROVE PendingIsEntry
    BY <1>26 DEF AnswerLost
  <1>27. ASSUME NEW c \in Cancels, CancelAnswerLost(c) PROVE PendingIsEntry
    BY <1>27 DEF CancelAnswerLost
  <1> QED
    BY <1>1, <1>2, <1>3, <1>4, <1>5, <1>6, <1>7, <1>8, <1>9, <1>10, <1>11, <1>12, <1>13,
       <1>14, <1>15, <1>16, <1>17, <1>18, <1>19, <1>20, <1>21, <1>22, <1>23, <1>24,
       <1>25, <1>26, <1>27
    DEF Next, SubmitStep, CancelStep, BrokerStep

\* A key that was settled once is never again turned away as 'pending', whatever
\* overlaps, times out or fails (cancelOrder's restore, ordersService.ts:144-152).
THEOREM PendingIsLeftForGood == Spec => [][PendingIsEntry]_vars
  <1>1. IInv /\ [Next]_vars => [PendingIsEntry]_vars
    BY StepPendingIsEntry
  <1> QED BY <1>1, InitIInv, NextIInv, PTL DEF Spec

\* On an untroubled key a cancel finds the row as it left it.
CancelHoldsRow ==
    \A c \in Cancels : \A k \in Keys : cancel[c].key = k /\ trouble[k] = {} =>
        /\ cancel[c].prior \in {"accepted", "failed"}
        /\ cancel[c].pc = "mark" => row[k].status = cancel[c].prior
        /\ cancel[c].pc = "await" => row[k].status = "cancelling"
        /\ cancel[c].pc = "finish" => cancel[c].prior = "failed" /\ row[k].status = "failed"

LEMMA NextCancelHoldsRow ==
    ASSUME IInv, QuietInv, CancelHoldsRow, [Next]_vars
    PROVE  CancelHoldsRow'
  <1> TypeOK /\ SubmitHasRow /\ CancelKnowsRow /\ AcceptedIsBacked /\ RowIdMatchesStatus
    BY DEF IInv
  <1> SubmitIsAlone /\ CancelIsAlone /\ SubmitKnows /\ CancelKnows /\ CallsAreAwaited /\ AtRest
    BY DEF QuietInv
  <1> USE OrdersAssumption
      DEF TypeOK, RowType, SubmitType, CancelType, Status, Call, SubmitActive, CancelActive,
          CancelKnowsRow, SubmitIsAlone, CancelIsAlone, CallsAreAwaited, SubmitKnows,
          CancelKnows, CancelHoldsRow
  <1>1. ASSUME NEW s \in Submits, NEW k \in Keys, SubmitOrder(s, k) PROVE CancelHoldsRow'
    <2>1. trouble'[k] = {} => trouble[k] = {} /\ \A d \in Cancels : cancel[d].key # k
      <3>1. IF InFlight(k) THEN trouble' = [trouble EXCEPT ![k] = @ \cup {"contended"}]
                           ELSE trouble' = trouble
        BY ONLY <1>1 DEF SubmitOrder, ContendIf, Contend
      <3>2. trouble'[k] = {} => trouble[k] = {} /\ ~InFlight(k)
        BY ONLY <3>1, trouble \in [Keys -> SUBSET {"contended", "interrupted"}], k \in Keys
      <3> QED BY ONLY <3>2, k \in Keys, QuietInv, RestingKey
    <2>2. \A q \in Keys : q # k => trouble'[q] = trouble[q]
      BY <1>1 DEF SubmitOrder, ContendIf, Contend
    <2> QED BY <1>1, <2>1, <2>2 DEF SubmitOrder
  <1>2. ASSUME NEW s \in Submits, CreateOrder(s) PROVE CancelHoldsRow'
    BY <1>2 DEF CreateOrder, InsertPending
  <1>3. ASSUME NEW s \in Submits, CreateOrderFails(s) PROVE CancelHoldsRow'
    BY <1>3 DEF CreateOrderFails, InsertPending, EndSubmit, IdleSubmit, Interrupt
  <1>4. ASSUME NEW s \in Submits, FinalizeAccepted(s) PROVE CancelHoldsRow'
    BY <1>4 DEF FinalizeAccepted, SetAccepted, EndSubmit, IdleSubmit
  <1>5. ASSUME NEW s \in Submits, FinalizeFails(s) PROVE CancelHoldsRow'
    BY <1>5 DEF FinalizeFails, SetAccepted, EndSubmit, IdleSubmit, Interrupt
  <1>6. ASSUME NEW s \in Submits, RecordRefusal(s) PROVE CancelHoldsRow'
    BY <1>6 DEF RecordRefusal, SetStatus, EndSubmit, IdleSubmit
  <1>7. ASSUME NEW s \in Submits, RecordRefusalFails(s) PROVE CancelHoldsRow'
    BY <1>7 DEF RecordRefusalFails, SetStatus, Interrupt
  <1>8. ASSUME NEW s \in Submits, RetryRecordRefusal(s) PROVE CancelHoldsRow'
    BY <1>8 DEF RetryRecordRefusal, SetStatus, EndSubmit, IdleSubmit
  <1>9. ASSUME NEW s \in Submits, AbortSubmit(s) PROVE CancelHoldsRow'
    BY <1>9 DEF AbortSubmit, SetStatus, LeaveSubmit, IdleSubmit, Contend
  <1>10. ASSUME NEW s \in Submits, AbortSubmitFails(s) PROVE CancelHoldsRow'
    BY <1>10 DEF AbortSubmitFails, LeaveSubmit, IdleSubmit, Interrupt
  <1>11. ASSUME NEW s \in Submits, BrokerRefuses(s) PROVE CancelHoldsRow'
    BY <1>11 DEF BrokerRefuses, IdleSubmit
  <1>12. ASSUME NEW s \in Submits, NEW i \in BrokerIds, BrokerAccepts(s, i) PROVE CancelHoldsRow'
    BY <1>12 DEF BrokerAccepts, IdleSubmit
  <1>13. ASSUME NEW c \in Cancels, NEW k \in Keys, CancelOrder(c, k) PROVE CancelHoldsRow'
    <2>1. trouble'[k] = {} =>
             /\ trouble[k] = {}
             /\ \A t \in Submits : submit[t].key # k
             /\ \A d \in Cancels : cancel[d].key # k
      <3>1. IF InFlight(k) THEN trouble' = [trouble EXCEPT ![k] = @ \cup {"contended"}]
                           ELSE trouble' = trouble
        BY ONLY <1>13 DEF CancelOrder, ContendIf, Contend
      <3>2. trouble'[k] = {} => trouble[k] = {} /\ ~InFlight(k)
        BY ONLY <3>1, trouble \in [Keys -> SUBSET {"contended", "interrupted"}], k \in Keys
      <3> QED BY ONLY <3>2, k \in Keys, QuietInv, RestingKey
    <2>2. trouble'[k] = {} => row[k].status \in {"accepted", "failed"}
      BY <1>13, <2>1 DEF CancelOrder, AtRest
    <2>3. \A q \in Keys : q # k => trouble'[q] = trouble[q]
      BY <1>13 DEF CancelOrder, ContendIf, Contend
    <2>4. /\ row' = row
          /\ \A d \in Cancels : d # c => cancel'[d] = cancel[d]
          /\ cancel'[c].key = k /\ cancel'[c].prior = row[k].status
          /\ cancel'[c].pc = IF row[k].alpacaId = NoId THEN "finish" ELSE "mark"
      BY <1>13 DEF CancelOrder
    <2>5. row[k].status = "accepted" => row[k].alpacaId # NoId
      BY DEF AcceptedIsBacked
    <2> QED BY <2>1, <2>2, <2>3, <2>4, <2>5
  <1>14. ASSUME NEW c \in Cancels, MarkCancelling(c) PROVE CancelHoldsRow'
    BY <1>14 DEF MarkCancelling, SetStatus
  <1>15. ASSUME NEW c \in Cancels, MarkCancellingFails(c) PROVE CancelHoldsRow'
    BY <1>15 DEF MarkCancellingFails, SetStatus, EndCancel, IdleCancel, Interrupt
  <1>16. ASSUME NEW c \in Cancels, FinalizeCancelled(c) PROVE CancelHoldsRow'
    BY <1>16 DEF FinalizeCancelled, CancelDue, SetStatus, EndCancel, IdleCancel
  <1>17. ASSUME NEW c \in Cancels, FinalizeCancelledFails(c) PROVE CancelHoldsRow'
    BY <1>17 DEF FinalizeCancelledFails, CancelDue, SetStatus, EndCancel, IdleCancel, Interrupt
  <1>18. ASSUME NEW c \in Cancels, RestoreStatus(c) PROVE CancelHoldsRow'
    BY <1>18 DEF RestoreStatus, SetStatus, EndCancel, IdleCancel
  <1>19. ASSUME NEW c \in Cancels, AbortCancel(c) PROVE CancelHoldsRow'
    BY <1>19 DEF AbortCancel, SetStatus, LeaveCancel, IdleCancel, Contend
  <1>20. ASSUME NEW c \in Cancels, RestoreStatusFails(c) PROVE CancelHoldsRow'
    BY <1>20 DEF RestoreStatusFails, LeaveCancel, IdleCancel, Interrupt
  <1>21. ASSUME NEW c \in Cancels, BrokerCancels(c) PROVE CancelHoldsRow'
    BY <1>21 DEF BrokerCancels, IdleCancel
  <1>22. ASSUME NEW c \in Cancels, BrokerRefusesCancel(c) PROVE CancelHoldsRow'
    BY <1>22 DEF BrokerRefusesCancel, IdleCancel
  <1>23. ASSUME NEW i \in BrokerIds, BrokerCloses(i) PROVE CancelHoldsRow'
    BY <1>23 DEF BrokerCloses
  <1>24. CASE Crash
    BY <1>24 DEF Crash, InFlight, LeaveSubmit, LeaveCancel, IdleSubmit, IdleCancel
  <1>25. CASE UNCHANGED vars
    BY <1>25 DEF vars
  <1>26. ASSUME NEW s \in Submits, AnswerLost(s) PROVE CancelHoldsRow'
    BY <1>26 DEF AnswerLost, Contend
  <1>27. ASSUME NEW c \in Cancels, CancelAnswerLost(c) PROVE CancelHoldsRow'
    BY <1>27 DEF CancelAnswerLost, Contend
  <1> QED
    BY <1>1, <1>2, <1>3, <1>4, <1>5, <1>6, <1>7, <1>8, <1>9, <1>10, <1>11, <1>12, <1>13,
       <1>14, <1>15, <1>16, <1>17, <1>18, <1>19, <1>20, <1>21, <1>22, <1>23, <1>24,
       <1>25, <1>26, <1>27
    DEF Next, SubmitStep, CancelStep, BrokerStep

\* The moves of a row's status while nothing goes wrong: nothing skips 'pending'
\* or 'cancelling', and a cancel the broker refuses puts back what it found.
Moves ==
    {<<"none", "pending">>,
     <<"pending", "accepted">>,    <<"pending", "failed">>,
     <<"failed", "accepted">>,     <<"failed", "cancelled">>,   <<"failed", "cancelling">>,
     <<"accepted", "cancelling">>,
     <<"cancelling", "cancelled">>, <<"cancelling", "accepted">>, <<"cancelling", "failed">>,
     <<"cancelled", "accepted">>,  <<"cancelled", "failed">>}

\* Every change of status on an untroubled key is one of them.
StatusMoves ==
    \A k \in Keys :
        trouble'[k] = {} /\ row'[k].status # row[k].status =>
            <<row[k].status, row'[k].status>> \in Moves

LEMMA StepStatusMoves ==
    ASSUME IInv, QuietInv, CancelHoldsRow, [Next]_vars
    PROVE  StatusMoves
  <1> TypeOK /\ SubmitHasRow /\ CancelKnowsRow
    BY DEF IInv
  <1> SubmitKnows /\ CancelKnows
    BY DEF QuietInv
  <1> USE DEF TypeOK, RowType, Status, SubmitHasRow, SubmitActive, CancelActive,
              CancelKnowsRow, SubmitKnows, CancelKnows, CancelHoldsRow, StatusMoves,
              Moves
  <1>1. ASSUME NEW s \in Submits, NEW k \in Keys, SubmitOrder(s, k) PROVE StatusMoves
    BY <1>1 DEF SubmitOrder, ContendIf, Contend
  <1>2. ASSUME NEW s \in Submits, CreateOrder(s) PROVE StatusMoves
    BY <1>2 DEF CreateOrder, InsertPending
  <1>3. ASSUME NEW s \in Submits, CreateOrderFails(s) PROVE StatusMoves
    BY <1>3 DEF CreateOrderFails, InsertPending, Interrupt
  <1>4. ASSUME NEW s \in Submits, FinalizeAccepted(s) PROVE StatusMoves
    BY <1>4 DEF FinalizeAccepted, SetAccepted
  <1>5. ASSUME NEW s \in Submits, FinalizeFails(s) PROVE StatusMoves
    BY <1>5 DEF FinalizeFails, SetAccepted, Interrupt
  <1>6. ASSUME NEW s \in Submits, RecordRefusal(s) PROVE StatusMoves
    BY <1>6 DEF RecordRefusal, SetStatus
  <1>7. ASSUME NEW s \in Submits, RecordRefusalFails(s) PROVE StatusMoves
    BY <1>7 DEF RecordRefusalFails, SetStatus, Interrupt
  <1>8. ASSUME NEW s \in Submits, RetryRecordRefusal(s) PROVE StatusMoves
    BY <1>8 DEF RetryRecordRefusal, SetStatus
  <1>9. ASSUME NEW s \in Submits, AbortSubmit(s) PROVE StatusMoves
    BY <1>9 DEF AbortSubmit, SetStatus, Contend
  <1>10. ASSUME NEW s \in Submits, AbortSubmitFails(s) PROVE StatusMoves
    BY <1>10 DEF AbortSubmitFails, Interrupt
  <1>11. ASSUME NEW s \in Submits, BrokerRefuses(s) PROVE StatusMoves
    BY <1>11 DEF BrokerRefuses
  <1>12. ASSUME NEW s \in Submits, NEW i \in BrokerIds, BrokerAccepts(s, i) PROVE StatusMoves
    BY <1>12 DEF BrokerAccepts
  <1>13. ASSUME NEW c \in Cancels, NEW k \in Keys, CancelOrder(c, k) PROVE StatusMoves
    BY <1>13 DEF CancelOrder, ContendIf, Contend
  <1>14. ASSUME NEW c \in Cancels, MarkCancelling(c) PROVE StatusMoves
    BY <1>14 DEF MarkCancelling, SetStatus
  <1>15. ASSUME NEW c \in Cancels, MarkCancellingFails(c) PROVE StatusMoves
    BY <1>15 DEF MarkCancellingFails, SetStatus, Interrupt
  <1>16. ASSUME NEW c \in Cancels, FinalizeCancelled(c) PROVE StatusMoves
    BY <1>16 DEF FinalizeCancelled, CancelDue, SetStatus
  <1>17. ASSUME NEW c \in Cancels, FinalizeCancelledFails(c) PROVE StatusMoves
    BY <1>17 DEF FinalizeCancelledFails, CancelDue, SetStatus, Interrupt
  <1>18. ASSUME NEW c \in Cancels, RestoreStatus(c) PROVE StatusMoves
    BY <1>18 DEF RestoreStatus, SetStatus
  <1>19. ASSUME NEW c \in Cancels, AbortCancel(c) PROVE StatusMoves
    BY <1>19 DEF AbortCancel, SetStatus, Contend
  <1>20. ASSUME NEW c \in Cancels, RestoreStatusFails(c) PROVE StatusMoves
    BY <1>20 DEF RestoreStatusFails, Interrupt
  <1>21. ASSUME NEW c \in Cancels, BrokerCancels(c) PROVE StatusMoves
    BY <1>21 DEF BrokerCancels
  <1>22. ASSUME NEW c \in Cancels, BrokerRefusesCancel(c) PROVE StatusMoves
    BY <1>22 DEF BrokerRefusesCancel
  <1>23. ASSUME NEW i \in BrokerIds, BrokerCloses(i) PROVE StatusMoves
    BY <1>23 DEF BrokerCloses
  <1>24. CASE Crash
    BY <1>24 DEF Crash
  <1>25. CASE UNCHANGED vars
    BY <1>25 DEF vars
  <1>26. ASSUME NEW s \in Submits, AnswerLost(s) PROVE StatusMoves
    BY <1>26 DEF AnswerLost, Contend
  <1>27. ASSUME NEW c \in Cancels, CancelAnswerLost(c) PROVE StatusMoves
    BY <1>27 DEF CancelAnswerLost, Contend
  <1> QED
    BY <1>1, <1>2, <1>3, <1>4, <1>5, <1>6, <1>7, <1>8, <1>9, <1>10, <1>11, <1>12, <1>13,
       <1>14, <1>15, <1>16, <1>17, <1>18, <1>19, <1>20, <1>21, <1>22, <1>23, <1>24,
       <1>25, <1>26, <1>27
    DEF Next, SubmitStep, CancelStep, BrokerStep

\* Requests that come one after the other and are not cut off walk a row through
\* the lifecycle above, although every write sets the status whatever it was.
THEOREM StatusFollowsLifecycle == Spec => [][StatusMoves]_vars
  <1>1. Init => CancelHoldsRow
    BY OrdersAssumption DEF Init, CancelHoldsRow, IdleCancel
  <1>2. IInv /\ QuietInv /\ CancelHoldsRow /\ [Next]_vars => [StatusMoves]_vars
    BY StepStatusMoves
  <1> QED
    BY <1>1, <1>2, InitIInv, NextIInv, InitQuietInv, NextQuietInv, NextCancelHoldsRow, PTL
    DEF Spec

-----------------------------------------------------------------------------
(* The service implements OrderContract.                                   *)

SameIds == \A k \in Keys : row'[k].alpacaId = row[k].alpacaId

\* All steps but five leave the order book and the recorded ids alone.
LEMMA QuietSteps ==
    ASSUME IInv, Next,
           ~(\E s \in Submits : FinalizeAccepted(s) \/ FinalizeFails(s)),
           ~(\E s \in Submits, i \in BrokerIds : BrokerAccepts(s, i)),
           ~(\E c \in Cancels : BrokerCancels(c)),
           ~(\E i \in BrokerIds : BrokerCloses(i))
    PROVE  order' = order /\ SameIds
  <1> USE DEF IInv, TypeOK, RowType, SubmitHasRow, CancelKnowsRow, RowIdMatchesStatus,
              SubmitActive, CancelActive, SameIds
  <1>1. ASSUME NEW s \in Submits, NEW k \in Keys, SubmitOrder(s, k) PROVE order' = order /\ SameIds
    BY <1>1 DEF SubmitOrder
  <1>2. ASSUME NEW s \in Submits, CreateOrder(s) PROVE order' = order /\ SameIds
    BY <1>2 DEF CreateOrder, InsertPending
  <1>3. ASSUME NEW s \in Submits, CreateOrderFails(s) PROVE order' = order /\ SameIds
    BY <1>3 DEF CreateOrderFails, InsertPending
  <1>4. ASSUME NEW s \in Submits, RecordRefusal(s) PROVE order' = order /\ SameIds
    BY <1>4 DEF RecordRefusal, SetStatus
  <1>5. ASSUME NEW s \in Submits, RecordRefusalFails(s) PROVE order' = order /\ SameIds
    BY <1>5 DEF RecordRefusalFails, SetStatus
  <1>6. ASSUME NEW s \in Submits, RetryRecordRefusal(s) PROVE order' = order /\ SameIds
    BY <1>6 DEF RetryRecordRefusal, SetStatus
  <1>7. ASSUME NEW s \in Submits, AbortSubmit(s) PROVE order' = order /\ SameIds
    BY <1>7 DEF AbortSubmit, SetStatus
  <1>8. ASSUME NEW s \in Submits, AbortSubmitFails(s) PROVE order' = order /\ SameIds
    BY <1>8 DEF AbortSubmitFails
  <1>9. ASSUME NEW s \in Submits, BrokerRefuses(s) PROVE order' = order /\ SameIds
    BY <1>9 DEF BrokerRefuses
  <1>10. ASSUME NEW c \in Cancels, NEW k \in Keys, CancelOrder(c, k) PROVE order' = order /\ SameIds
    BY <1>10 DEF CancelOrder
  <1>11. ASSUME NEW c \in Cancels, MarkCancelling(c) PROVE order' = order /\ SameIds
    BY <1>11 DEF MarkCancelling, SetStatus
  <1>12. ASSUME NEW c \in Cancels, MarkCancellingFails(c) PROVE order' = order /\ SameIds
    BY <1>12 DEF MarkCancellingFails, SetStatus
  <1>13. ASSUME NEW c \in Cancels, FinalizeCancelled(c) PROVE order' = order /\ SameIds
    BY <1>13 DEF FinalizeCancelled, CancelDue, SetStatus
  <1>14. ASSUME NEW c \in Cancels, FinalizeCancelledFails(c) PROVE order' = order /\ SameIds
    BY <1>14 DEF FinalizeCancelledFails, CancelDue, SetStatus
  <1>15. ASSUME NEW c \in Cancels, RestoreStatus(c) PROVE order' = order /\ SameIds
    BY <1>15 DEF RestoreStatus, SetStatus
  <1>16. ASSUME NEW c \in Cancels, AbortCancel(c) PROVE order' = order /\ SameIds
    BY <1>16 DEF AbortCancel, SetStatus
  <1>17. ASSUME NEW c \in Cancels, RestoreStatusFails(c) PROVE order' = order /\ SameIds
    BY <1>17 DEF RestoreStatusFails
  <1>18. ASSUME NEW c \in Cancels, BrokerRefusesCancel(c) PROVE order' = order /\ SameIds
    BY <1>18 DEF BrokerRefusesCancel
  <1>19. ASSUME Crash PROVE order' = order /\ SameIds
    BY <1>19 DEF Crash
  <1>20. ASSUME NEW s \in Submits, AnswerLost(s) PROVE order' = order /\ SameIds
    BY <1>20 DEF AnswerLost
  <1>21. ASSUME NEW c \in Cancels, CancelAnswerLost(c) PROVE order' = order /\ SameIds
    BY <1>21 DEF CancelAnswerLost
  <1> QED
    BY <1>1, <1>2, <1>3, <1>4, <1>5, <1>6, <1>7, <1>8, <1>9, <1>10, <1>11, <1>12, <1>13,
       <1>14, <1>15, <1>16, <1>17, <1>18, <1>19, <1>20, <1>21
    DEF Next, SubmitStep, CancelStep, BrokerStep

LEMMA InitContract == Init => Contract!Init
  BY DEF Init, Contract!Init, OrdersOf

LEMMA NextContract ==
    ASSUME IInv, [Next]_vars
    PROVE  [Contract!Next]_(Contract!contractVars)
  <1> DEFINE Stutter == UNCHANGED Contract!contractVars
  <1>1. ASSUME order' = order, SameIds PROVE Stutter
    <2>1. \A k \in Keys : OrdersOf(k)' = OrdersOf(k)
      BY <1>1 DEF OrdersOf
    <2> QED BY <1>1, <2>1 DEF SameIds, Contract!contractVars
  <1>2. ASSUME NEW s \in Submits, FinalizeAccepted(s) \/ FinalizeFails(s)
        PROVE  [Contract!Next]_(Contract!contractVars)
    <2>1. PICK k \in Keys, i \in BrokerIds :
             k = submit[s].key /\ i = submit[s].id /\ i \in OrdersOf(k)
      BY <1>2 DEF IInv, SubmitHasRow, SubmitAnswerIsTrue, SubmitActive, FinalizeAccepted,
         FinalizeFails,
                  OrdersOf
    <2>2. order' = order
      BY <1>2 DEF FinalizeAccepted, FinalizeFails
    <2>3. UNCHANGED row \/ row' = [row EXCEPT ![k] = [status |-> "accepted", alpacaId |-> i]]
      BY <1>2, <2>1 DEF FinalizeAccepted, FinalizeFails, SetAccepted
    <2>4. CASE UNCHANGED row
      BY <2>4, <2>2, <1>1 DEF SameIds
    <2>5. CASE row' = [row EXCEPT ![k] = [status |-> "accepted", alpacaId |-> i]]
      <3>1. \A q \in Keys : row'[q].alpacaId = IF q = k THEN i ELSE row[q].alpacaId
        BY <2>5, <2>1 DEF IInv, TypeOK
      <3>2. CASE row[k].alpacaId = NoId
        <4>1. [q \in Keys |-> row'[q].alpacaId] = [[q \in Keys |-> row[q].alpacaId] EXCEPT ![k] = i]
          BY <3>1
        <4>2. \A q \in Keys : OrdersOf(q)' = OrdersOf(q)
          BY <2>2 DEF OrdersOf
        <4>3. Contract!Acknowledge(k, i)
          BY <4>1, <4>2, <3>2, <2>1, <2>2 DEF Contract!Acknowledge
        <4>4. \E q \in Keys, j \in BrokerIds : Contract!Acknowledge(q, j)
          BY <4>3
        <4> QED BY <4>4 DEF Contract!Next
      <3>3. CASE row[k].alpacaId # NoId
        <4>1. row[k].alpacaId = i
          BY <3>3, <2>1 DEF IInv, AcceptedIsBacked, OneOrderPerKey
        <4> QED BY <4>1, <3>1, <2>2, <1>1 DEF SameIds
      <3> QED BY <3>2, <3>3
    <2> QED BY <2>3, <2>4, <2>5
  <1>3. ASSUME NEW s \in Submits, NEW i \in BrokerIds, BrokerAccepts(s, i)
        PROVE  [Contract!Next]_(Contract!contractVars)
    <2> DEFINE k == submit[s].key
    <2>1. k \in Keys /\ k # NoKey
      BY <1>3, OrdersAssumption DEF IInv, SubmitHasRow, BrokerAccepts
    <2>2. /\ row' = row
          /\ order[i].state = "unused"
          /\ order' = [order EXCEPT ![i] = [key |-> k, client |-> k, state |-> "open"]]
      BY <1>3 DEF BrokerAccepts, ClientOrderId
    <2>3. OrdersOf(k) = {}
      BY <1>3, <2>1 DEF BrokerAccepts, Duplicate, IInv, OrderIsTagged, ClientOrderId, OrdersOf
    <2>4. \A q \in Keys : i \notin OrdersOf(q)
      BY <2>2 DEF OrdersOf
    <2>5. \A q \in Keys : OrdersOf(q)' = IF q = k THEN {i} ELSE OrdersOf(q)
      BY <2>1, <2>2, <2>3 DEF OrdersOf, IInv, TypeOK, OrderType
    <2>6. {j \in BrokerIds : order'[j].state = "open"} = {j \in BrokerIds : order[j].state = "open"} \cup {i}
      BY <2>2 DEF IInv, TypeOK, OrderType
    <2>7. Contract!Place(k, i)
      BY <2>1, <2>2, <2>3, <2>4, <2>5, <2>6 DEF Contract!Place
    <2> QED BY <2>1, <2>7 DEF Contract!Next
  <1>4. ASSUME NEW i \in BrokerIds, NEW state \in {"closed", "cancelled"},
               order[i].state = "open", order' = [order EXCEPT ![i].state = state], row' = row
        PROVE  [Contract!Next]_(Contract!contractVars)
    <2>1. \A q \in Keys : OrdersOf(q)' = OrdersOf(q)
      BY <1>4 DEF OrdersOf, IInv, TypeOK, OrderType
    <2>2. {j \in BrokerIds : order'[j].state = "open"} = {j \in BrokerIds : order[j].state = "open"} \ {i}
      BY <1>4 DEF IInv, TypeOK, OrderType
    <2>3. Contract!EndOrder(i)
      BY <1>4, <2>1, <2>2 DEF Contract!EndOrder
    <2> QED BY <2>3 DEF Contract!Next
  <1>5. ASSUME NEW c \in Cancels, BrokerCancels(c)
        PROVE  [Contract!Next]_(Contract!contractVars)
    <2>1. cancel[c].id \in BrokerIds
      BY <1>5 DEF BrokerCancels, IInv, CancelNamesOrder
    <2> QED BY <1>5, <2>1, <1>4 DEF BrokerCancels
  <1>6. ASSUME NEW i \in BrokerIds, BrokerCloses(i)
        PROVE  [Contract!Next]_(Contract!contractVars)
    BY <1>6, <1>4 DEF BrokerCloses
  <1>7. CASE UNCHANGED vars
    BY <1>7, <1>1 DEF vars, SameIds
  <1> QED
    BY QuietSteps, <1>1, <1>2, <1>3, <1>5, <1>6, <1>7

\* The order lifecycle a caller sees is the one OrderContract describes.
THEOREM ServiceImplementsContract == Spec => ImplementsContract
  <1> QED BY InitIInv, NextIInv, InitContract, NextContract, PTL
          DEF Spec, ImplementsContract, Contract!Spec
=============================================================================
