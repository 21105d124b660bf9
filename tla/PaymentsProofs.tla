--------------------------- MODULE PaymentsProofs ---------------------------
(***************************************************************************)
(* What is proved of Payments for any bills, orders, attempts and requests.*)
(***************************************************************************)
EXTENDS Payments, TLAPS

-----------------------------------------------------------------------------
(* The inductive invariant.                                                *)

\* An order that was paid: its document names the captured attempt.
Settled(o) == payment[o] # None /\ payment[o].paymentId # None

\* The gateway: an attempt is made on an order that has a document, and only
\* one attempt on an order takes money.
GatewayOK ==
    /\ \A p \in Pays : attempt[p] # None => payment[attempt[p].order] # None
    /\ \A o \in Orders, p, q \in Pays : Captured(o, p) /\ Captured(o, q) => p = q

\* A document belongs to the bill its order was opened for.  Once it names an
\* attempt, that one was captured, and the status is "captured" for good
\* unless another attempt failed.
DocumentOK(o) ==
    payment[o] # None =>
        /\ orderFor[o] = payment[o].bill
        /\ payment[o].status = "captured" => payment[o].paymentId # None
        /\ payment[o].status = "failed" => \E p \in Pays : Failed(o, p)
        /\ payment[o].paymentId # None =>
              /\ Captured(o, payment[o].paymentId)
              /\ payment[o].status = "captured" \/ \E p \in Pays : Failed(o, p)

\* A request that creates an order has it to itself.
CreatingOK(r) ==
    req[r].op = "create" =>
        /\ req[r].at \in {"order", "record"}
        /\ req[r].bill \in Bills
        /\ req[r].order \in Orders
        /\ payment[req[r].order] = None
        /\ orderFor[req[r].order] = IF req[r].at = "order" THEN None
                                                           ELSE req[r].bill

CreatingAlone ==
    \A r, s \in Requests : /\ req[r].op = "create" /\ req[s].op = "create"
                           /\ req[r].order = req[s].order
                           => r = s

\* What a request that confirms a payment has read is still true when used.
ConfirmingOK(r) ==
    req[r].op \in {"verify", "webhook"} =>
        /\ req[r].at \in {"readBill", "save", "mark", "notify", "audit"}
        /\ req[r].order \in Orders
        /\ req[r].pay \in Pays
        /\ payment[req[r].order] # None
        /\ req[r].bill = payment[req[r].order].bill
        /\ req[r].kind = "captured" => Captured(req[r].order, req[r].pay)
        /\ req[r].kind = "failed" => Failed(req[r].order, req[r].pay)
        /\ req[r].seen = "captured" => Settled(req[r].order)
        /\ req[r].seen = "failed" => \E p \in Pays : Failed(req[r].order, p)
        /\ req[r].billSeen = "paid" => bill[req[r].bill] = "paid"

\* Where such a request stands tells what it has stored.
ProgressOK(r) ==
    /\ req[r].op = "none" <=> req[r].at = "idle"
    /\ req[r].op = "verify" => req[r].kind = "captured"
    /\ req[r].op = "webhook" /\ req[r].at # "save" =>
          req[r].kind = "captured" /\ Settled(req[r].order)
    /\ req[r].at \in {"mark", "notify", "audit"} => Settled(req[r].order)
    /\ req[r].at \in {"notify", "audit"} => bill[req[r].bill] = "paid"

\* A paid bill has an order that was paid.
BillOK(b) == bill[b] = "paid" => \E o \in Orders : Settled(o) /\ payment[o].bill = b

IInv == /\ TypeOK
        /\ GatewayOK
        /\ \A o \in Orders : DocumentOK(o)
        /\ \A r \in Requests : CreatingOK(r) /\ ConfirmingOK(r) /\ ProgressOK(r)
        /\ CreatingAlone
        /\ \A b \in Bills : BillOK(b)
        /\ ConfirmedOnlyIfPaid
        /\ RecordedCaptureSettles

-----------------------------------------------------------------------------
(* Type correctness.                                                       *)

\* The fields of an idle request are well typed.
LEMMA IdleType == Idle \in ReqState
  BY DEF Idle, ReqState, EventKind, PayStatus, BillStatus

\* A document that is saved stays a document, of the same bill, and keeps an
\* attempt it names or gets one; all the recorded events stay.
Grows(d, e) == /\ e \in PaymentDoc
               /\ e.bill = d.bill
               /\ d.paymentId # None => e.paymentId # None
               /\ d.rawWebhookEventIds \subseteq e.rawWebhookEventIds

\* What the handlers save.
LEMMA SaveGrows ==
    ASSUME NEW d \in PaymentDoc, NEW r, req[r].pay \in Pays
    PROVE  /\ Grows(d, SaveCapture(d, r))
           /\ Grows(d, SetStatus(d, req[r].seen, "failed"))
           /\ Grows(d, d)
<1>1. \A s \in PayStatus : Grows(d, SetStatus(d, req[r].seen, s))
  BY DEF SetStatus, PaymentDoc, Grows
<1>2. \A e \in PaymentDoc : Grows(e, [e EXCEPT !.paymentId = req[r].pay])
  BY NoneAssumption DEF PaymentDoc, Grows
<1>3. Grows(d, SetStatus(d, req[r].seen, "captured"))
  BY <1>1 DEF PayStatus
<1>4. Grows(SetStatus(d, req[r].seen, "captured"), SaveCapture(d, r))
  BY <1>2, <1>3 DEF SaveCapture, Grows
<1>5. Grows(d, SetStatus(d, req[r].seen, "failed"))
  BY <1>1 DEF PayStatus
<1> QED
  BY <1>3, <1>4, <1>5 DEF Grows

\* The same with the event id that the webhook pushes.
LEMMA PushGrows ==
    ASSUME NEW d \in PaymentDoc, NEW e, Grows(d, e), NEW r, EventOf(r) \in Events
    PROVE  Grows(d, AddEvent(e, r))
  BY DEF AddEvent, PaymentDoc, Grows

\* A request that confirms a payment carries an event, a bill and a document.
LEMMA ConfirmingType ==
    ASSUME TypeOK, NEW r \in Requests, ConfirmingOK(r),
           req[r].op \in {"verify", "webhook"}
    PROVE  /\ req[r].order \in Orders /\ req[r].pay \in Pays
           /\ payment[req[r].order] \in PaymentDoc
           /\ req[r].bill \in Bills
           /\ EventOf(r) \in Events
  BY DEF TypeOK, ConfirmingOK, PaymentDoc, EventOf, Events, ReqState

\* Every step keeps every variable in its type, given the invariant.
LEMMA TypeKept == IInv /\ [Next]_vars => TypeOK'
<1> SUFFICES ASSUME IInv, [Next]_vars PROVE TypeOK'
  OBVIOUS
<1>a. TypeOK /\ \A r \in Requests : CreatingOK(r) /\ ConfirmingOK(r) /\ ProgressOK(r)
  BY DEF IInv
<1> USE <1>a, IdleType, EnvAssumption DEF TypeOK
<1>1. ASSUME NEW r \in Requests, NEW b \in Bills, NEW o \in Orders,
             StartOrder(r, b, o)
      PROVE  TypeOK'
  BY <1>1 DEF StartOrder, Idle, ReqState, db, gateway, PayStatus, EventKind, BillStatus
<1>2. ASSUME NEW r \in Requests, OpenOrder(r) PROVE TypeOK'
  BY <1>2 DEF OpenOrder, Goto, ReqState, db, At, CreatingOK
<1>3. ASSUME NEW r \in Requests, RecordPayment(r) PROVE TypeOK'
  BY <1>3 DEF RecordPayment, Finish, ReqState, gateway, At, PaymentDoc, PayStatus, CreatingOK
<1>4. ASSUME NEW r \in Requests, NEW o \in Orders, NEW p \in Pays,
             StartVerify(r, o, p)
      PROVE  TypeOK'
  <2>1. payment[o].bill \in Bills /\ payment[o].status \in PayStatus
    BY <1>4 DEF StartVerify, PaymentDoc
  <2> QED
    BY <1>4, <2>1 DEF StartVerify, Idle, ReqState, db, gateway, EventKind, BillStatus
<1>5. ASSUME NEW r \in Requests, VerifyReadsBill(r) PROVE TypeOK'
  <2>1. bill[req[r].bill] \in BillStatus
    BY <1>5, ConfirmingType DEF VerifyReadsBill, At
  <2> QED
    BY <1>5, <2>1 DEF VerifyReadsBill, ReqState, db, gateway
<1>6. ASSUME NEW r \in Requests, VerifySaves(r) PROVE TypeOK'
  <2>1. SaveCapture(payment[req[r].order], r) \in PaymentDoc
    BY <1>6, ConfirmingType, SaveGrows DEF VerifySaves, At, Grows
  <2>2. payment' \in [Orders -> PaymentDoc \cup {None}]
    BY <1>6, <2>1 DEF VerifySaves
  <2> QED
    BY <1>6, <2>2 DEF VerifySaves, Goto, gateway, ReqState
<1>7. ASSUME NEW e \in Events, AnswerDuplicate(e) PROVE TypeOK'
  BY <1>7 DEF AnswerDuplicate, db
<1>8. ASSUME NEW r \in Requests, NEW e \in Events, StartWebhook(r, e) PROVE TypeOK'
  <2> DEFINE o == attempt[e.pay].order
  <2>1. e.pay \in Pays /\ e.kind \in EventKind
    BY DEF Events
  <2>2. o \in Orders
    BY <1>8, <2>1 DEF StartWebhook, Emitted, Attempt
  <2>3. payment[o].bill \in Bills /\ payment[o].status \in PayStatus
    BY <1>8, <2>2 DEF StartWebhook, PaymentDoc
  <2> QED
    BY <1>8, <2>1, <2>2, <2>3 DEF StartWebhook, Idle, ReqState, db, gateway, BillStatus
<1>9. ASSUME NEW r \in Requests, WebhookSavesCapture(r) PROVE TypeOK'
  <2>1. AddEvent(SaveCapture(payment[req[r].order], r), r) \in PaymentDoc
    BY <1>9, ConfirmingType, SaveGrows, PushGrows DEF WebhookSavesCapture, At, Grows
  <2>2. payment' \in [Orders -> PaymentDoc \cup {None}]
    BY <1>9, <2>1 DEF WebhookSavesCapture
  <2> QED
    BY <1>9, <2>2 DEF WebhookSavesCapture, Goto, gateway, ReqState
<1>10. ASSUME NEW r \in Requests, WebhookSavesOther(r) PROVE TypeOK'
  <2>1. /\ AddEvent(payment[req[r].order], r) \in PaymentDoc
        /\ AddEvent(SetStatus(payment[req[r].order], req[r].seen, "failed"), r)
              \in PaymentDoc
        /\ EventOf(r) \in Events
    BY <1>10, ConfirmingType, SaveGrows, PushGrows DEF WebhookSavesOther, At, Grows
  <2>2. payment' \in [Orders -> PaymentDoc \cup {None}]
    BY <1>10, <2>1 DEF WebhookSavesOther
  <2> QED
    BY <1>10, <2>1, <2>2 DEF WebhookSavesOther, Finish
<1>11. ASSUME NEW r \in Requests, RejectMethod(r) PROVE TypeOK'
  BY <1>11 DEF RejectMethod, Finish, db, gateway
<1>12. ASSUME NEW r \in Requests, WebhookReadsUnpaid(r) PROVE TypeOK'
  <2>1. bill[req[r].bill] \in BillStatus
    BY <1>12, ConfirmingType DEF WebhookReadsUnpaid, At
  <2> QED
    BY <1>12, <2>1 DEF WebhookReadsUnpaid, ReqState, db, gateway
<1>13. ASSUME NEW r \in Requests, WebhookReadsPaid(r) PROVE TypeOK'
  <2>1. EventOf(r) \in Events
    BY <1>13, ConfirmingType DEF WebhookReadsPaid, At
  <2> QED
    BY <1>13, <2>1 DEF WebhookReadsPaid, Finish, db
<1>14. ASSUME NEW r \in Requests, MarkBillPaid(r) PROVE TypeOK'
  BY <1>14 DEF MarkBillPaid, Goto, gateway, ReqState, BillStatus
<1>15. ASSUME NEW r \in Requests, NotifyBillPayer(r) PROVE TypeOK'
  <2>1. notified' \in [Orders -> 0..Many]
    <3>1. \A n \in 0..Many : (IF n < Many THEN n + 1 ELSE n) \in 0..Many
      BY DEF Many
    <3> QED BY <1>15, <3>1 DEF NotifyBillPayer
  <2>2. EventOf(r) \in Events
    <3>1. req[r].op \in {"verify", "webhook"}
      BY <1>15 DEF NotifyBillPayer, ReqState, ProgressOK, CreatingOK
    <3> QED BY <3>1, ConfirmingType
  <2>3. req' \in [Requests -> ReqState]
    BY <1>15 DEF NotifyBillPayer, Finish, Goto, ReqState
  <2>4. acked' \subseteq Events
    BY <1>15, <2>2 DEF NotifyBillPayer
  <2> QED BY <1>15, <2>1, <2>3, <2>4 DEF NotifyBillPayer
<1>16. ASSUME NEW r \in Requests, AuditVerify(r) PROVE TypeOK'
  BY <1>16 DEF AuditVerify, Finish, gateway, ReqState, ConfirmingOK, ProgressOK, CreatingOK
<1>17. ASSUME NEW r \in Requests, Abort(r) PROVE TypeOK'
  BY <1>17 DEF Abort, Finish, db, gateway
<1>18. ASSUME NEW b \in Bills, PassDueDate(b) \/ SweepOverdue(b) PROVE TypeOK'
  BY <1>18 DEF PassDueDate, SweepOverdue, db, gateway, BillStatus
<1>19. ASSUME NEW o \in Orders, NEW p \in Pays, NEW c \in {"captured", "failed"},
              TryToPay(o, p, c)
       PROVE  TypeOK'
  BY <1>19 DEF TryToPay, Attempt
<1>20. CASE UNCHANGED vars
  BY <1>20 DEF vars
<1> QED
  BY <1>1, <1>2, <1>3, <1>4, <1>5, <1>6, <1>7, <1>8, <1>9, <1>10, <1>11, <1>12,
     <1>13, <1>14, <1>15, <1>16, <1>17, <1>18, <1>19, <1>20
     DEF Next, Continue, Arrive, Deliver

-----------------------------------------------------------------------------
(* What no step takes back.                                                *)

\* Only these steps write something a later step relies on.
LEMMA Writers ==
    ASSUME [Next]_vars
    PROVE  \/ UNCHANGED <<bill, payment, notified, audited, orderFor, attempt>>
           \/ \E r \in Requests : \/ OpenOrder(r) \/ RecordPayment(r)
                                  \/ VerifySaves(r) \/ WebhookSavesCapture(r)
                                  \/ WebhookSavesOther(r) \/ MarkBillPaid(r)
                                  \/ NotifyBillPayer(r) \/ AuditVerify(r)
           \/ \E b \in Bills : SweepOverdue(b)
           \/ \E o \in Orders, p \in Pays, c \in {"captured", "failed"} :
                TryToPay(o, p, c)
<1>1. ASSUME NEW r \in Requests, Arrive(r) \/ Abort(r)
      PROVE  UNCHANGED <<bill, payment, notified, audited, orderFor, attempt>>
  BY <1>1 DEF Arrive, Abort, StartOrder, StartVerify, db, gateway
<1>2. ASSUME NEW e \in Events, Deliver(e)
      PROVE  UNCHANGED <<bill, payment, notified, audited, orderFor, attempt>>
  BY <1>2 DEF Deliver, AnswerDuplicate, StartWebhook, db, gateway
<1>3. ASSUME NEW r \in Requests,
             \/ VerifyReadsBill(r) \/ RejectMethod(r)
             \/ WebhookReadsUnpaid(r) \/ WebhookReadsPaid(r)
      PROVE  UNCHANGED <<bill, payment, notified, audited, orderFor, attempt>>
  BY <1>3 DEF VerifyReadsBill, RejectMethod, WebhookReadsUnpaid, WebhookReadsPaid,
              db, gateway
<1>4. ASSUME NEW b \in Bills, PassDueDate(b)
      PROVE  UNCHANGED <<bill, payment, notified, audited, orderFor, attempt>>
  BY <1>4 DEF PassDueDate, db, gateway
<1>5. CASE UNCHANGED vars
  BY <1>5 DEF vars
<1> QED
  BY <1>1, <1>2, <1>3, <1>4, <1>5 DEF Next, Continue

\* How an attempt ended is final.
LEMMA EndedKept ==
    ASSUME IInv, [Next]_vars, NEW o \in Orders, NEW p,
           NEW c \in {"captured", "failed"}, Ended(o, p, c)
    PROVE  Ended(o, p, c)'
<1>1. TypeOK
  BY DEF IInv
<1>2. CASE UNCHANGED attempt
  BY <1>2 DEF Ended
<1>3. ASSUME NEW o1 \in Orders, NEW p1 \in Pays, NEW c1 \in {"captured", "failed"},
             TryToPay(o1, p1, c1)
      PROVE  Ended(o, p, c)'
  <2>1. attempt[p] \in Attempt
    BY <1>1, <1>3, NoneAssumption DEF Ended, TypeOK, Attempt, TryToPay
  <2> QED
    BY <1>1, <1>3, <2>1, NoneAssumption DEF Ended, TypeOK, TryToPay
<1>4. ASSUME NEW r \in Requests,
             \/ OpenOrder(r) \/ RecordPayment(r) \/ VerifySaves(r)
             \/ WebhookSavesCapture(r) \/ WebhookSavesOther(r) \/ MarkBillPaid(r)
             \/ NotifyBillPayer(r) \/ AuditVerify(r)
      PROVE  UNCHANGED attempt
  BY <1>4 DEF OpenOrder, RecordPayment, VerifySaves, WebhookSavesCapture,
              WebhookSavesOther, MarkBillPaid, NotifyBillPayer, AuditVerify, gateway
<1>5. ASSUME NEW b \in Bills, SweepOverdue(b) PROVE UNCHANGED attempt
  BY <1>5 DEF SweepOverdue, gateway
<1> QED
  BY <1>2, <1>3, <1>4, <1>5, Writers

\* Documents only grow.
LEMMA DocumentsGrow ==
    ASSUME IInv, [Next]_vars, NEW o \in Orders, payment[o] # None
    PROVE  Grows(payment[o], payment'[o])
<1> DEFINE Goal == Grows(payment[o], payment'[o])
<1>1. TypeOK /\ payment[o] \in PaymentDoc
  BY DEF IInv, TypeOK
<1>2. CASE UNCHANGED payment
  BY <1>1, <1>2, NoneAssumption DEF Grows
<1>3. ASSUME NEW r \in Requests, RecordPayment(r) PROVE Goal
  <2>1. CreatingOK(r)
    BY DEF IInv
  <2>2. req[r].order # o
    BY <1>3, <2>1 DEF RecordPayment, At, CreatingOK
  <2>3. payment'[o] = payment[o]
    BY <1>1, <1>3, <2>2 DEF RecordPayment, TypeOK
  <2> QED BY <1>1, <2>3, NoneAssumption DEF Grows
<1>4. ASSUME NEW r \in Requests,
             VerifySaves(r) \/ WebhookSavesCapture(r) \/ WebhookSavesOther(r)
      PROVE  Goal
  <2>1. /\ req[r].order \in Orders /\ req[r].pay \in Pays
        /\ payment[req[r].order] \in PaymentDoc
        /\ EventOf(r) \in Events
    BY <1>1, <1>4, ConfirmingType
       DEF IInv, VerifySaves, WebhookSavesCapture, WebhookSavesOther, At
  <2>2. CASE req[r].order # o
    <3>1. payment'[o] = payment[o]
      BY <1>1, <1>4, <2>2 DEF VerifySaves, WebhookSavesCapture, WebhookSavesOther, TypeOK
    <3> QED BY <1>1, <3>1, NoneAssumption DEF Grows
  <2>3. CASE req[r].order = o /\ VerifySaves(r)
    <3>1. payment'[o] = SaveCapture(payment[o], r)
      BY <1>1, <2>3 DEF VerifySaves, TypeOK
    <3> QED
      BY <1>1, <2>1, <3>1, SaveGrows
  <2>4. CASE req[r].order = o /\ WebhookSavesCapture(r)
    <3>1. payment'[o] = AddEvent(SaveCapture(payment[o], r), r)
      BY <1>1, <2>4 DEF WebhookSavesCapture, TypeOK
    <3> QED
      BY <1>1, <2>1, <3>1, SaveGrows, PushGrows
  <2>5. CASE req[r].order = o /\ WebhookSavesOther(r)
    <3>1. \/ payment'[o] = AddEvent(SetStatus(payment[o], req[r].seen, "failed"), r)
          \/ payment'[o] = AddEvent(payment[o], r)
      BY <1>1, <2>5 DEF WebhookSavesOther, TypeOK
    <3> QED
      BY <1>1, <2>1, <3>1, SaveGrows, PushGrows
  <2> QED BY <1>4, <2>2, <2>3, <2>4, <2>5
<1>5. ASSUME NEW r \in Requests,
             OpenOrder(r) \/ MarkBillPaid(r) \/ NotifyBillPayer(r) \/ AuditVerify(r)
      PROVE  UNCHANGED payment
  BY <1>5 DEF OpenOrder, MarkBillPaid, NotifyBillPayer, AuditVerify, db
<1>6. ASSUME NEW b \in Bills, SweepOverdue(b) PROVE UNCHANGED payment
  BY <1>6 DEF SweepOverdue
<1>7. ASSUME NEW o1 \in Orders, NEW p1 \in Pays, NEW c1 \in {"captured", "failed"},
             TryToPay(o1, p1, c1)
      PROVE  UNCHANGED payment
  BY <1>7 DEF TryToPay
<1> QED
  BY <1>2, <1>3, <1>4, <1>5, <1>6, <1>7, Writers

\* A bill that is paid stays paid.
LEMMA PaidKept ==
    ASSUME IInv, [Next]_vars, NEW b \in Bills, bill[b] = "paid"
    PROVE  bill'[b] = "paid"
<1>1. TypeOK
  BY DEF IInv
<1>2. ASSUME NEW r \in Requests, MarkBillPaid(r) PROVE bill'[b] = "paid"
  BY <1>1, <1>2 DEF MarkBillPaid, TypeOK
<1>3. ASSUME NEW c \in Bills, SweepOverdue(c) PROVE bill'[b] = "paid"
  BY <1>1, <1>3 DEF SweepOverdue, TypeOK
<1>4. ASSUME NEW r \in Requests,
             \/ OpenOrder(r) \/ RecordPayment(r) \/ VerifySaves(r)
             \/ WebhookSavesCapture(r) \/ WebhookSavesOther(r)
             \/ NotifyBillPayer(r) \/ AuditVerify(r)
      PROVE  UNCHANGED bill
  BY <1>4 DEF OpenOrder, RecordPayment, VerifySaves, WebhookSavesCapture,
              WebhookSavesOther, NotifyBillPayer, AuditVerify, db
<1>5. ASSUME NEW o \in Orders, NEW p \in Pays, NEW c \in {"captured", "failed"},
             TryToPay(o, p, c)
      PROVE  UNCHANGED bill
  BY <1>5 DEF TryToPay
<1> QED
  BY <1>2, <1>3, <1>4, <1>5, Writers

\* Hence an order that was paid stays so.
LEMMA SettledKept ==
    ASSUME IInv, [Next]_vars, NEW o \in Orders, Settled(o)
    PROVE  Settled(o)' /\ payment'[o].bill = payment[o].bill
  BY DocumentsGrow, NoneAssumption DEF Settled, Grows

-----------------------------------------------------------------------------
(* The gateway and the documents.                                          *)

\* Every step keeps what is known of the gateway's attempts.
LEMMA GatewayKept == IInv /\ [Next]_vars => GatewayOK'
<1> SUFFICES ASSUME IInv, [Next]_vars PROVE GatewayOK'
  OBVIOUS
<1>1. TypeOK /\ GatewayOK
  BY DEF IInv
<1>2. \A o \in Orders : payment[o] # None => payment'[o] # None
  BY DocumentsGrow, NoneAssumption DEF Grows
<1>3. CASE UNCHANGED attempt
  BY <1>1, <1>2, <1>3, NoneAssumption DEF GatewayOK, TypeOK, Captured, Ended, Attempt
<1>4. ASSUME NEW o \in Orders, NEW p \in Pays, NEW c \in {"captured", "failed"},
             TryToPay(o, p, c)
      PROVE  GatewayOK'
  <2>1. /\ attempt' = [attempt EXCEPT ![p] = [order |-> o, outcome |-> c]]
        /\ attempt[p] = None /\ payment[o] # None /\ payment' = payment
        /\ \A q \in Pays : ~Captured(o, q)
    BY <1>4 DEF TryToPay
  <2>2. \A q \in Pays : attempt'[q] # None => payment'[attempt'[q].order] # None
    BY <1>1, <2>1 DEF GatewayOK, TypeOK
  <2>3. \A q \in Pays : q # p => \A x \in Orders : Captured(x, q)' <=> Captured(x, q)
    BY <1>1, <2>1 DEF Captured, Ended, TypeOK
  <2>4. \A x \in Orders : Captured(x, p)' => x = o
    BY <1>1, <2>1 DEF Captured, Ended, TypeOK
  <2> QED
    BY <1>1, <2>1, <2>2, <2>3, <2>4 DEF GatewayOK
<1> QED
  BY <1>3, <1>4 DEF Next, Continue, Arrive, Deliver, vars, gateway, OpenOrder,
     RecordPayment, VerifySaves, WebhookSavesCapture, WebhookSavesOther, MarkBillPaid,
     NotifyBillPayer, AuditVerify, SweepOverdue, PassDueDate, StartOrder, StartVerify,
     VerifyReadsBill, AnswerDuplicate, StartWebhook, RejectMethod, WebhookReadsUnpaid,
     WebhookReadsPaid, Abort

\* A saved capture is genuine, and its status is "captured" unless an attempt
\* failed.
LEMMA SaveOK ==
    ASSUME IInv, NEW r \in Requests, req[r].op \in {"verify", "webhook"},
           req[r].kind = "captured",
           NEW d, d = payment[req[r].order],
           NEW e, e = SaveCapture(d, r) \/ e = AddEvent(SaveCapture(d, r), r)
    PROVE  /\ e.paymentId = req[r].pay
           /\ e.bill = d.bill
           /\ Captured(req[r].order, req[r].pay)
           /\ \/ e.status = "captured"
              \/ e.status = d.status /\ \E p \in Pays : Failed(req[r].order, p)
<1>1. TypeOK /\ ConfirmingOK(r) /\ DocumentOK(req[r].order)
  BY DEF IInv, ConfirmingOK
<1>2. d \in PaymentDoc /\ req[r].order \in Orders
  BY <1>1, ConfirmingType
<1>3. Captured(req[r].order, req[r].pay) /\ d # None
  BY <1>1 DEF ConfirmingOK
<1>4. /\ e.paymentId = req[r].pay
      /\ e.bill = d.bill
      /\ e.status = IF req[r].seen = "captured" THEN d.status ELSE "captured"
  BY <1>2 DEF SaveCapture, AddEvent, SetStatus, PaymentDoc
<1>5. CASE req[r].seen = "captured"
  BY <1>1, <1>2, <1>3, <1>4, <1>5 DEF ConfirmingOK, Settled, DocumentOK
<1> QED
  BY <1>3, <1>4, <1>5

\* Every step keeps what is known of a Payment document.
LEMMA DocumentKept == 
    ASSUME IInv, [Next]_vars, NEW o \in Orders
    PROVE  DocumentOK(o)'
<1>1. TypeOK /\ DocumentOK(o)
  BY DEF IInv
<1>2. \A p \in Pays : /\ Captured(o, p) => Captured(o, p)'
                      /\ Failed(o, p) => Failed(o, p)'
  BY EndedKept DEF Captured, Failed
<1>3. CASE payment'[o] = payment[o] /\ orderFor'[o] = orderFor[o]
  BY <1>1, <1>2, <1>3 DEF DocumentOK, TypeOK, PaymentDoc, Captured, Ended
<1>4. ASSUME NEW r \in Requests, OpenOrder(r) PROVE DocumentOK(o)'
  <2>1. CreatingOK(r)
    BY DEF IInv
  <2>2. CASE req[r].order = o
    BY <1>4, <2>1, <2>2 DEF OpenOrder, At, CreatingOK, DocumentOK, db
  <2>3. CASE req[r].order # o
    BY <1>1, <1>3, <1>4, <2>3 DEF OpenOrder, db, TypeOK
  <2> QED BY <2>2, <2>3
<1>5. ASSUME NEW r \in Requests, RecordPayment(r) PROVE DocumentOK(o)'
  <2>1. CreatingOK(r)
    BY DEF IInv
  <2>2. CASE req[r].order = o
    BY <1>1, <1>5, <2>1, <2>2 DEF RecordPayment, At, CreatingOK, DocumentOK, gateway, TypeOK
  <2>3. CASE req[r].order # o
    BY <1>1, <1>3, <1>5, <2>3 DEF RecordPayment, gateway, TypeOK
  <2> QED BY <2>2, <2>3
<1>6. ASSUME NEW r \in Requests, VerifySaves(r) \/ WebhookSavesCapture(r)
      PROVE  DocumentOK(o)'
  <2>1. /\ req[r].op \in {"verify", "webhook"} /\ req[r].kind = "captured"
        /\ ProgressOK(r)
    BY <1>6 DEF VerifySaves, WebhookSavesCapture, At, ProgressOK, IInv
  <2>2. CASE req[r].order # o
    BY <1>1, <1>3, <1>6, <2>2 DEF VerifySaves, WebhookSavesCapture, gateway, TypeOK
  <2>3. CASE req[r].order = o
    <3>1. /\ \/ payment'[o] = SaveCapture(payment[o], r)
             \/ payment'[o] = AddEvent(SaveCapture(payment[o], r), r)
          /\ orderFor' = orderFor
      BY <1>1, <1>6, <2>3 DEF VerifySaves, WebhookSavesCapture, gateway, TypeOK
    <3>2. /\ payment'[o].paymentId = req[r].pay
          /\ payment'[o].bill = payment[o].bill
          /\ Captured(o, req[r].pay)
          /\ \/ payment'[o].status = "captured"
             \/ payment'[o].status = payment[o].status /\ \E p \in Pays : Failed(o, p)
      BY <2>1, <2>3, <3>1, SaveOK
    <3>3. req[r].pay \in Pays /\ payment[o] # None
      BY <2>1, <2>3 DEF IInv, ConfirmingOK
    <3> QED
      BY <1>1, <1>2, <3>1, <3>2, <3>3, NoneAssumption DEF DocumentOK
  <2> QED BY <2>2, <2>3
<1>7. ASSUME NEW r \in Requests, WebhookSavesOther(r) PROVE DocumentOK(o)'
  <2>1. CASE req[r].order # o
    BY <1>1, <1>3, <1>7, <2>1 DEF WebhookSavesOther, TypeOK
  <2>2. CASE req[r].order = o
    <3>1. /\ payment[o] \in PaymentDoc
          /\ req[r].kind = "failed" => \E p \in Pays : Failed(o, p)
          /\ ConfirmingOK(r)
      BY <1>1, <1>7, <2>2, ConfirmingType DEF WebhookSavesOther, At, IInv, ConfirmingOK
    <3>2. /\ payment'[o].bill = payment[o].bill
          /\ payment'[o].paymentId = payment[o].paymentId
          /\ \/ payment'[o].status = payment[o].status
             \/ payment'[o].status = "failed" /\ req[r].kind = "failed"
      BY <1>1, <1>7, <2>2, <3>1 DEF WebhookSavesOther, TypeOK, PaymentDoc, AddEvent, SetStatus
    <3>3. orderFor' = orderFor /\ payment[o] # None
      BY <1>7, <2>2, <3>1 DEF WebhookSavesOther, At, ConfirmingOK
    <3> QED
      BY <1>1, <1>2, <3>1, <3>2, <3>3 DEF DocumentOK, Captured, Ended
  <2> QED BY <2>1, <2>2
<1>8. ASSUME NEW r \in Requests,
             MarkBillPaid(r) \/ NotifyBillPayer(r) \/ AuditVerify(r)
      PROVE  UNCHANGED <<payment, orderFor>>
  BY <1>8 DEF MarkBillPaid, NotifyBillPayer, AuditVerify, gateway
<1>9. ASSUME NEW b \in Bills, SweepOverdue(b) PROVE UNCHANGED <<payment, orderFor>>
  BY <1>9 DEF SweepOverdue, gateway
<1>10. ASSUME NEW x \in Orders, NEW p \in Pays, NEW c \in {"captured", "failed"},
              TryToPay(x, p, c)
       PROVE  UNCHANGED <<payment, orderFor>>
  BY <1>10 DEF TryToPay
<1> QED
  BY <1>3, <1>4, <1>5, <1>6, <1>7, <1>8, <1>9, <1>10, Writers

-----------------------------------------------------------------------------
(* The requests.                                                           *)

RequestOK(r) == CreatingOK(r) /\ ConfirmingOK(r) /\ ProgressOK(r)

\* A request that has ended claims nothing.
LEMMA IdleOK ==
    ASSUME NEW r \in Requests, req'[r] = Idle PROVE RequestOK(r)'
  BY DEF RequestOK, CreatingOK, ConfirmingOK, ProgressOK, Idle

\* What is true of a request that confirms a payment survives the steps of
\* the others, and its own as far as it keeps what it has read.
LEMMA ConfirmingKept ==
    ASSUME IInv, [Next]_vars, NEW r \in Requests, req[r].op \in {"verify", "webhook"},
           req'[r].op = req[r].op, req'[r].order = req[r].order,
           req'[r].pay = req[r].pay, req'[r].bill = req[r].bill,
           req'[r].kind = req[r].kind, req'[r].seen = req[r].seen,
           req'[r].at \in {"readBill", "save", "mark", "notify", "audit"},
           req'[r].billSeen = "paid" => bill[req[r].bill] = "paid"
    PROVE  ConfirmingOK(r)'
<1>1. TypeOK /\ ConfirmingOK(r)
  BY DEF IInv
<1>o. PICK o : o = req[r].order
  OBVIOUS
<1>2. o \in Orders /\ req[r].pay \in Pays /\ req[r].bill \in Bills /\ payment[o] # None
  BY <1>1, <1>o, ConfirmingType DEF ConfirmingOK
<1>3. \A p \in Pays : /\ Captured(o, p) => Captured(o, p)'
                      /\ Failed(o, p) => Failed(o, p)'
  BY <1>2, EndedKept DEF Captured, Failed
<1>4. payment'[o] # None /\ payment'[o].bill = payment[o].bill
  BY <1>2, DocumentsGrow, NoneAssumption DEF Grows
<1>5. Settled(o) => Settled(o)'
  BY <1>2, SettledKept
<1>6. bill[req[r].bill] = "paid" => bill'[req[r].bill] = "paid"
  BY <1>2, PaidKept
<1>7. /\ req[r].kind = "captured" => Captured(o, req[r].pay)
      /\ req[r].kind = "failed" => Failed(o, req[r].pay)
      /\ req[r].seen = "captured" => Settled(o)
      /\ req[r].seen = "failed" => \E p \in Pays : Failed(o, p)
      /\ req[r].bill = payment[o].bill
  BY <1>1, <1>o DEF ConfirmingOK
<1>8. /\ req[r].kind = "captured" => Captured(o, req[r].pay)'
      /\ req[r].kind = "failed" => Failed(o, req[r].pay)'
      /\ req[r].seen = "failed" => \E p \in Pays : Failed(o, p)'
  BY <1>2, <1>3, <1>7 DEF Captured, Failed, Ended
<1> QED
  BY <1>o, <1>2, <1>4, <1>5, <1>6, <1>7, <1>8
     DEF ConfirmingOK, Settled, Captured, Failed, Ended

\* The steps that leave a request alone keep what is true of it.
LEMMA OthersKept ==
    ASSUME IInv, [Next]_vars, NEW r \in Requests, req'[r] = req[r]
    PROVE  RequestOK(r)'
<1>1. TypeOK /\ RequestOK(r)
  BY DEF IInv, RequestOK
<1>2. ASSUME req[r].op = "create" PROVE CreatingOK(r)'
  <2>o. PICK o : o = req[r].order
    OBVIOUS
  <2>1. o \in Orders /\ payment[o] = None
    BY <1>1, <1>2, <2>o DEF RequestOK, CreatingOK
  <2>2. payment'[o] = None /\ orderFor'[o] = orderFor[o]
    <3>1. CASE UNCHANGED <<payment, orderFor>>
      BY <2>1, <3>1
    <3>2. ASSUME NEW s \in Requests, OpenOrder(s) \/ RecordPayment(s)
          PROVE  payment'[o] = None /\ orderFor'[o] = orderFor[o]
      <4>1. s # r
        <5>1. req'[s] # req[s]
          BY <1>1, <3>2 DEF OpenOrder, RecordPayment, Goto, Finish, Idle, At, TypeOK, ReqState
        <5> QED BY <5>1
      <4>2. req[s].order # o
        BY <1>2, <2>o, <3>2, <4>1 DEF IInv, CreatingAlone, OpenOrder, RecordPayment, At
      <4> QED
        BY <1>1, <2>1, <3>2, <4>2 DEF OpenOrder, RecordPayment, TypeOK, db, gateway
    <3>3. ASSUME NEW s \in Requests,
                 VerifySaves(s) \/ WebhookSavesCapture(s) \/ WebhookSavesOther(s)
          PROVE  payment'[o] = None /\ orderFor'[o] = orderFor[o]
      <4>1. req[s].order # o
        BY <2>1, <3>3 DEF IInv, ConfirmingOK, VerifySaves, WebhookSavesCapture,
                          WebhookSavesOther, At
      <4> QED
        BY <1>1, <2>1, <3>3, <4>1 DEF VerifySaves, WebhookSavesCapture,
                          WebhookSavesOther, TypeOK, gateway
    <3>4. ASSUME NEW s \in Requests,
                 MarkBillPaid(s) \/ NotifyBillPayer(s) \/ AuditVerify(s)
          PROVE  UNCHANGED <<payment, orderFor>>
      BY <3>4 DEF MarkBillPaid, NotifyBillPayer, AuditVerify, gateway
    <3>5. ASSUME NEW b \in Bills, SweepOverdue(b) PROVE UNCHANGED <<payment, orderFor>>
      BY <3>5 DEF SweepOverdue, gateway
    <3>6. ASSUME NEW x \in Orders, NEW p \in Pays, NEW c \in {"captured", "failed"},
                 TryToPay(x, p, c)
          PROVE  UNCHANGED <<payment, orderFor>>
      BY <3>6 DEF TryToPay
    <3> QED
      BY <3>1, <3>2, <3>3, <3>4, <3>5, <3>6, Writers
  <2> QED
    BY <1>1, <2>o, <2>1, <2>2 DEF RequestOK, CreatingOK
<1>3. ASSUME req[r].op \in {"verify", "webhook"} PROVE ConfirmingOK(r)'
  BY <1>1, <1>3, ConfirmingKept DEF RequestOK, ConfirmingOK
<1>4. ProgressOK(r)'
  <2>1. CASE req[r].op \in {"verify", "webhook"}
    <3>1. req[r].order \in Orders /\ req[r].bill \in Bills
      BY <1>1, <2>1, ConfirmingType DEF RequestOK
    <3>2. /\ Settled(req[r].order) => Settled(req[r].order)'
          /\ bill[req[r].bill] = "paid" => bill'[req[r].bill] = "paid"
      BY <3>1, SettledKept, PaidKept
    <3> QED
      BY <1>1, <3>2 DEF RequestOK, ProgressOK, Settled
  <2>2. CASE req[r].op \notin {"verify", "webhook"}
    BY <1>1, <2>2 DEF RequestOK, ProgressOK, CreatingOK, TypeOK, ReqState
  <2> QED BY <2>1, <2>2
<1> QED
  BY <1>1, <1>2, <1>3, <1>4 DEF RequestOK, CreatingOK, ConfirmingOK

\* A request's own step, and with it every step.
LEMMA RequestKept ==
    ASSUME IInv, [Next]_vars, NEW r \in Requests
    PROVE  RequestOK(r)'
<1>1. TypeOK /\ RequestOK(r)
  BY DEF IInv, RequestOK
<1>2. CASE req'[r] = req[r]
  BY <1>2, OthersKept
<1>3. CASE req'[r] = Idle
  BY <1>3, IdleOK
<1>4. ASSUME NEW b \in Bills, NEW o \in Orders, StartOrder(r, b, o)
      PROVE  RequestOK(r)'
  <2>1. /\ req'[r] = [Idle EXCEPT !.op = "create", !.at = "order", !.bill = b,
                                  !.order = o]
        /\ payment' = payment /\ orderFor' = orderFor /\ orderFor[o] = None
    BY <1>1, <1>4 DEF StartOrder, TypeOK, db, gateway
  <2>2. payment[o] = None
    BY <1>1, <2>1, NoneAssumption DEF IInv, DocumentOK, TypeOK, PaymentDoc
  <2> QED
    BY <2>1, <2>2 DEF RequestOK, CreatingOK, ConfirmingOK, ProgressOK, Idle
<1>5. ASSUME OpenOrder(r) PROVE RequestOK(r)'
  BY <1>1, <1>5 DEF OpenOrder, At, Goto, TypeOK, ReqState, RequestOK, CreatingOK,
                    ConfirmingOK, ProgressOK, db
<1>6. ASSUME NEW o \in Orders, NEW p \in Pays, StartVerify(r, o, p)
      PROVE  RequestOK(r)'
  <2>1. /\ req'[r] = [Idle EXCEPT !.op = "verify", !.at = "readBill", !.order = o,
                        !.pay = p, !.kind = "captured", !.bill = payment[o].bill,
                        !.seen = payment[o].status]
        /\ payment' = payment /\ attempt' = attempt /\ payment[o] # None
        /\ Captured(o, p)
    BY <1>1, <1>6 DEF StartVerify, TypeOK, db, gateway
  <2>2. DocumentOK(o)
    BY DEF IInv
  <2> QED
    BY <2>1, <2>2 DEF RequestOK, CreatingOK, ConfirmingOK, ProgressOK, Idle, DocumentOK,
                      Settled, Captured, Failed, Ended
<1>7. ASSUME NEW e \in Events, StartWebhook(r, e) PROVE RequestOK(r)'
  <2>1. e.pay \in Pays /\ e.kind \in EventKind
    BY DEF Events
  <2>o. PICK o : o = attempt[e.pay].order
    OBVIOUS
  <2>2. /\ req'[r] = [Idle EXCEPT !.op = "webhook", !.at = "save", !.order = o,
                        !.pay = e.pay, !.kind = e.kind, !.bill = payment[o].bill,
                        !.seen = payment[o].status]
        /\ payment' = payment /\ attempt' = attempt /\ payment[o] # None
    BY <1>1, <1>7, <2>o DEF StartWebhook, TypeOK, db, gateway
  <2>3. /\ o \in Orders
        /\ attempt[e.pay] = [order |-> o, outcome |-> attempt[e.pay].outcome]
    BY <1>1, <1>7, <2>1, <2>o DEF StartWebhook, Emitted, TypeOK, Attempt
  <2>4. /\ e.kind = "captured" => Captured(o, e.pay)
        /\ e.kind = "failed" => Failed(o, e.pay)
    <3>1. attempt[e.pay].outcome \in {"captured", "failed"}
      BY <1>1, <1>7, <2>1 DEF StartWebhook, Emitted, TypeOK, Attempt
    <3> QED
      BY <1>7, <2>1, <2>3, <3>1 DEF StartWebhook, Emitted, Captured, Failed, Ended
  <2>5. DocumentOK(o)
    BY <2>3 DEF IInv
  <2> QED
    BY <2>1, <2>2, <2>3, <2>4, <2>5 DEF RequestOK, CreatingOK, ConfirmingOK, ProgressOK,
       Idle, DocumentOK, Settled, Captured, Failed, Ended
<1>8. ASSUME VerifyReadsBill(r) \/ WebhookReadsUnpaid(r) PROVE RequestOK(r)'
  <2>1. /\ req[r].op \in {"verify", "webhook"}
        /\ req' = [req EXCEPT ![r].at = IF req[r].op = "verify" THEN "save" ELSE "mark",
                              ![r].billSeen = bill[req[r].bill]]
        /\ payment' = payment
        /\ req[r].op = "webhook" => req[r].at # "save"
    BY <1>8 DEF VerifyReadsBill, WebhookReadsUnpaid, At, db
  <2>2. /\ req'[r].op = req[r].op /\ req'[r].order = req[r].order
        /\ req'[r].pay = req[r].pay /\ req'[r].bill = req[r].bill
        /\ req'[r].kind = req[r].kind /\ req'[r].seen = req[r].seen
        /\ req'[r].at = IF req[r].op = "verify" THEN "save" ELSE "mark"
        /\ req'[r].billSeen = bill[req[r].bill]
    BY <1>1, <2>1 DEF TypeOK, ReqState
  <2>3. ConfirmingOK(r)'
    BY <2>1, <2>2, ConfirmingKept
  <2>4. ProgressOK(r)'
    BY <1>1, <2>1, <2>2 DEF RequestOK, ProgressOK, Settled
  <2> QED BY <2>1, <2>2, <2>3, <2>4 DEF RequestOK, CreatingOK
<1>9. ASSUME VerifySaves(r) \/ WebhookSavesCapture(r) PROVE RequestOK(r)'
  <2>1. /\ req[r].op \in {"verify", "webhook"} /\ req[r].kind = "captured"
        /\ req' = [req EXCEPT ![r].at = IF req[r].op = "verify" THEN "mark" ELSE "readBill"]
    BY <1>1, <1>9 DEF VerifySaves, WebhookSavesCapture, At, Goto, RequestOK, ProgressOK
  <2>2. /\ req'[r].op = req[r].op /\ req'[r].order = req[r].order
        /\ req'[r].pay = req[r].pay /\ req'[r].bill = req[r].bill
        /\ req'[r].kind = req[r].kind /\ req'[r].seen = req[r].seen
        /\ req'[r].at = IF req[r].op = "verify" THEN "mark" ELSE "readBill"
        /\ req'[r].billSeen = req[r].billSeen
    BY <1>1, <2>1 DEF TypeOK, ReqState
  <2>3. ConfirmingOK(r)'
    BY <1>1, <2>1, <2>2, ConfirmingKept DEF RequestOK, ConfirmingOK
  <2>o. PICK o : o = req[r].order
    OBVIOUS
  <2>4. o \in Orders /\ req[r].pay \in Pays /\ payment[o] # None
    BY <1>1, <2>1, <2>o DEF RequestOK, ConfirmingOK
  <2>5. payment'[o].paymentId = req[r].pay /\ payment'[o] # None
    <3>1. \/ payment'[o] = SaveCapture(payment[o], r)
          \/ payment'[o] = AddEvent(SaveCapture(payment[o], r), r)
      BY <1>1, <1>9, <2>o, <2>4 DEF VerifySaves, WebhookSavesCapture, TypeOK
    <3>2. payment'[o].paymentId = req[r].pay
      BY <2>1, <2>o, <3>1, SaveOK
    <3> QED BY <2>4, <3>2, DocumentsGrow, NoneAssumption DEF Grows
  <2>6. ProgressOK(r)'
    BY <1>1, <2>1, <2>2, <2>4, <2>5, <2>o, NoneAssumption DEF RequestOK, ProgressOK, Settled
  <2> QED BY <2>1, <2>2, <2>3, <2>6 DEF RequestOK, CreatingOK
<1>10. ASSUME MarkBillPaid(r) PROVE RequestOK(r)'
  <2>1. /\ req[r].op \in {"verify", "webhook"} /\ req[r].at = "mark"
        /\ req' = [req EXCEPT ![r].at = "notify"]
    BY <1>1, <1>10 DEF MarkBillPaid, Goto, RequestOK, ProgressOK, CreatingOK, TypeOK, ReqState
  <2>2. /\ req'[r].op = req[r].op /\ req'[r].order = req[r].order
        /\ req'[r].pay = req[r].pay /\ req'[r].bill = req[r].bill
        /\ req'[r].kind = req[r].kind /\ req'[r].seen = req[r].seen
        /\ req'[r].at = "notify"
        /\ req'[r].billSeen = req[r].billSeen
    BY <1>1, <2>1 DEF TypeOK, ReqState
  <2>3. ConfirmingOK(r)'
    BY <1>1, <2>1, <2>2, ConfirmingKept DEF RequestOK, ConfirmingOK
  <2>4. req[r].bill \in Bills
    BY <1>1, <2>1, ConfirmingType DEF RequestOK
  <2>5. bill'[req[r].bill] = "paid"
    BY <1>1, <1>10, <2>1, <2>4 DEF MarkBillPaid, TypeOK, RequestOK, ConfirmingOK
  <2>6. Settled(req[r].order) /\ payment' = payment
    BY <1>1, <1>10, <2>1 DEF MarkBillPaid, RequestOK, ProgressOK
  <2>7. ProgressOK(r)'
    BY <1>1, <2>1, <2>2, <2>5, <2>6 DEF RequestOK, ProgressOK, Settled
  <2> QED BY <2>1, <2>2, <2>3, <2>7 DEF RequestOK, CreatingOK
<1>11. ASSUME NotifyBillPayer(r) PROVE RequestOK(r)'
  <2>1. CASE req[r].op = "verify"
    <3>1. req' = [req EXCEPT ![r].at = "audit"] /\ req[r].at = "notify"
      BY <1>11, <2>1 DEF NotifyBillPayer, Goto
    <3>2. /\ req'[r].op = req[r].op /\ req'[r].order = req[r].order
          /\ req'[r].pay = req[r].pay /\ req'[r].bill = req[r].bill
          /\ req'[r].kind = req[r].kind /\ req'[r].seen = req[r].seen
          /\ req'[r].at = "audit"
          /\ req'[r].billSeen = req[r].billSeen
      BY <1>1, <3>1 DEF TypeOK, ReqState
    <3>3. ConfirmingOK(r)'
      BY <1>1, <2>1, <3>2, ConfirmingKept DEF RequestOK, ConfirmingOK
    <3>4. ProgressOK(r)'
      BY <1>1, <1>11, <2>1, <3>1, <3>2
         DEF NotifyBillPayer, RequestOK, ProgressOK, Settled
    <3> QED BY <2>1, <3>2, <3>3, <3>4 DEF RequestOK, CreatingOK
  <2>2. CASE req[r].op # "verify"
    BY <1>1, <1>3, <1>11, <2>2 DEF NotifyBillPayer, Finish, TypeOK
  <2> QED BY <2>1, <2>2
<1>12. ASSUME \/ RecordPayment(r) \/ WebhookSavesOther(r) \/ RejectMethod(r)
              \/ WebhookReadsPaid(r) \/ AuditVerify(r) \/ Abort(r)
       PROVE  req'[r] = Idle
  BY <1>1, <1>12 DEF RecordPayment, WebhookSavesOther, RejectMethod, WebhookReadsPaid,
                     AuditVerify, Abort, Finish, TypeOK
<1>13. ASSUME NEW s \in Requests, s # r,
              \/ Continue(s) \/ Arrive(s) \/ Abort(s)
              \/ \E e \in Events : StartWebhook(s, e)
       PROVE  req'[r] = req[r]
  BY <1>1, <1>13 DEF Continue, Arrive, Abort, StartOrder, OpenOrder, RecordPayment,
     StartVerify, VerifyReadsBill, VerifySaves, StartWebhook, WebhookSavesCapture,
     WebhookSavesOther, RejectMethod, WebhookReadsUnpaid, WebhookReadsPaid,
     MarkBillPaid, NotifyBillPayer, AuditVerify, Goto, Finish, TypeOK
<1>14. ASSUME \/ \E e \in Events : AnswerDuplicate(e)
              \/ \E b \in Bills : PassDueDate(b) \/ SweepOverdue(b)
              \/ \E o \in Orders, p \in Pays, c \in {"captured", "failed"} :
                   TryToPay(o, p, c)
              \/ UNCHANGED vars
       PROVE  req'[r] = req[r]
  BY <1>14 DEF AnswerDuplicate, PassDueDate, SweepOverdue, TryToPay, vars
<1> QED
  BY <1>2, <1>3, <1>4, <1>5, <1>6, <1>7, <1>8, <1>9, <1>10, <1>11, <1>12, <1>13, <1>14
     DEF Next, Continue, Arrive, Deliver

\* No two requests come to create the same order.
LEMMA CreatingAloneKept == IInv /\ [Next]_vars => CreatingAlone'
<1> SUFFICES ASSUME IInv, [Next]_vars PROVE CreatingAlone'
  OBVIOUS
<1>1. TypeOK /\ CreatingAlone
  BY DEF IInv
<1>2. ASSUME NEW r \in Requests, NEW b \in Bills, NEW o \in Orders, StartOrder(r, b, o)
      PROVE  CreatingAlone'
  BY <1>1, <1>2 DEF StartOrder, CreatingAlone, TypeOK, ReqState, Idle
<1>3. ASSUME \A s \in Requests : \/ req'[s].op # "create"
                                 \/ /\ req'[s].op = req[s].op
                                    /\ req'[s].order = req[s].order
      PROVE  CreatingAlone'
  BY <1>1, <1>3 DEF CreatingAlone
<1>4. ASSUME NEW r \in Requests,
             \/ RecordPayment(r) \/ WebhookSavesOther(r) \/ RejectMethod(r)
             \/ WebhookReadsPaid(r) \/ AuditVerify(r) \/ Abort(r)
      PROVE  CreatingAlone'
  <2>1. req' = [req EXCEPT ![r] = Idle]
    BY <1>4 DEF RecordPayment, WebhookSavesOther, RejectMethod, WebhookReadsPaid,
                AuditVerify, Abort, Finish
  <2> QED BY <1>1, <1>3, <2>1 DEF TypeOK, Idle
<1>5. ASSUME NEW r \in Requests, NotifyBillPayer(r) PROVE CreatingAlone'
  BY <1>1, <1>3, <1>5 DEF NotifyBillPayer, Goto, Finish, Idle, TypeOK, ReqState
<1>6. ASSUME NEW r \in Requests,
             \/ OpenOrder(r) \/ VerifyReadsBill(r) \/ VerifySaves(r)
             \/ WebhookSavesCapture(r) \/ WebhookReadsUnpaid(r) \/ MarkBillPaid(r)
      PROVE  CreatingAlone'
  BY <1>1, <1>3, <1>6 DEF OpenOrder, VerifyReadsBill, VerifySaves, WebhookSavesCapture,
     WebhookReadsUnpaid, MarkBillPaid, Goto, TypeOK, ReqState
<1>7. ASSUME NEW r \in Requests, NEW o \in Orders, NEW p \in Pays, StartVerify(r, o, p)
      PROVE  CreatingAlone'
  BY <1>1, <1>3, <1>7 DEF StartVerify, Idle, TypeOK
<1>8. ASSUME NEW r \in Requests, NEW e \in Events, StartWebhook(r, e)
      PROVE  CreatingAlone'
  BY <1>1, <1>3, <1>8 DEF StartWebhook, Idle, TypeOK
<1>9. ASSUME \/ \E e \in Events : AnswerDuplicate(e)
             \/ \E b \in Bills : PassDueDate(b) \/ SweepOverdue(b)
             \/ \E o \in Orders, p \in Pays, c \in {"captured", "failed"} :
                  TryToPay(o, p, c)
             \/ UNCHANGED vars
      PROVE  CreatingAlone'
  BY <1>3, <1>9 DEF AnswerDuplicate, PassDueDate, SweepOverdue, TryToPay, vars
<1> QED
  BY <1>2, <1>4, <1>5, <1>6, <1>7, <1>8, <1>9 DEF Next, Continue, Arrive, Deliver

-----------------------------------------------------------------------------
(* The bills, and what is told about them.                                 *)

\* Every step keeps a paid bill covered by a capture: only a request that has
\* saved one marks it.
LEMMA BillKept ==
    ASSUME IInv, [Next]_vars, NEW b \in Bills
    PROVE  BillOK(b)'
<1>1. TypeOK /\ BillOK(b)
  BY DEF IInv
<1>2. ASSUME NEW o \in Orders, Settled(o), payment[o].bill = b PROVE BillOK(b)'
  BY <1>2, SettledKept DEF BillOK
<1>3. CASE bill[b] = "paid"
  BY <1>1, <1>2, <1>3 DEF BillOK
<1>4. ASSUME NEW r \in Requests, MarkBillPaid(r) PROVE BillOK(b)'
  <2>1. req[r].op \in {"verify", "webhook"} /\ Settled(req[r].order)
    BY <1>1, <1>4 DEF MarkBillPaid, IInv, ProgressOK, CreatingOK, TypeOK, ReqState
  <2>2. req[r].order \in Orders /\ payment[req[r].order].bill = req[r].bill
    BY <2>1 DEF IInv, ConfirmingOK
  <2>3. CASE req[r].bill = b
    BY <1>2, <2>1, <2>2, <2>3
  <2>4. CASE req[r].bill # b
    <3>1. bill'[b] = bill[b]
      BY <1>1, <1>4, <2>4 DEF MarkBillPaid, TypeOK
    <3> QED BY <1>3, <3>1 DEF BillOK
  <2> QED BY <2>3, <2>4
<1>5. ASSUME NEW c \in Bills, SweepOverdue(c) PROVE BillOK(b)'
  BY <1>1, <1>3, <1>5 DEF SweepOverdue, TypeOK, BillOK
<1>6. CASE bill' = bill
  BY <1>3, <1>6 DEF BillOK
<1>7. ASSUME NEW r \in Requests,
             \/ OpenOrder(r) \/ RecordPayment(r) \/ VerifySaves(r)
             \/ WebhookSavesCapture(r) \/ WebhookSavesOther(r)
             \/ NotifyBillPayer(r) \/ AuditVerify(r)
      PROVE  bill' = bill
  BY <1>7 DEF OpenOrder, RecordPayment, VerifySaves, WebhookSavesCapture,
              WebhookSavesOther, NotifyBillPayer, AuditVerify, db
<1>8. ASSUME NEW o \in Orders, NEW p \in Pays, NEW c \in {"captured", "failed"},
             TryToPay(o, p, c)
      PROVE  bill' = bill
  BY <1>8 DEF TryToPay
<1> QED
  BY <1>4, <1>5, <1>6, <1>7, <1>8, Writers

\* Who has been told about an order was told by a request that had marked the
\* bill.
LEMMA ConfirmedKept == IInv /\ [Next]_vars => ConfirmedOnlyIfPaid'
<1> SUFFICES ASSUME IInv, [Next]_vars, NEW o \in Orders,
                    notified'[o] > 0 \/ o \in audited'
             PROVE  payment'[o] # None /\ bill'[payment'[o].bill] = "paid"
  BY DEF ConfirmedOnlyIfPaid
<1>1. TypeOK /\ ConfirmedOnlyIfPaid
  BY DEF IInv
<1> DEFINE Told == payment[o] # None /\ bill[payment[o].bill] = "paid"
<1>2. ASSUME Told PROVE payment'[o] # None /\ bill'[payment'[o].bill] = "paid"
  <2>1. payment[o].bill \in Bills
    BY <1>1, <1>2 DEF TypeOK, PaymentDoc
  <2>2. payment'[o] # None /\ payment'[o].bill = payment[o].bill
    BY <1>2, DocumentsGrow, NoneAssumption DEF Grows
  <2> QED BY <1>2, <2>1, <2>2, PaidKept
<1>3. CASE notified'[o] = notified[o] /\ (o \in audited' <=> o \in audited)
  BY <1>1, <1>2, <1>3 DEF ConfirmedOnlyIfPaid
<1>4. ASSUME NEW r \in Requests, NotifyBillPayer(r) \/ AuditVerify(r)
      PROVE  Told \/ (notified'[o] = notified[o] /\ (o \in audited' <=> o \in audited))
  <2>1. /\ req[r].at \in {"notify", "audit"}
        /\ req[r].op \in {"verify", "webhook"}
    BY <1>1, <1>4 DEF NotifyBillPayer, AuditVerify, IInv, ProgressOK, CreatingOK,
                      TypeOK, ReqState
  <2>2. /\ payment[req[r].order] # None
        /\ bill[payment[req[r].order].bill] = "paid"
    BY <2>1 DEF IInv, ConfirmingOK, ProgressOK
  <2>3. CASE req[r].order = o
    BY <2>2, <2>3
  <2>4. CASE req[r].order # o
    BY <1>1, <1>4, <2>4 DEF NotifyBillPayer, AuditVerify, TypeOK
  <2> QED BY <2>3, <2>4
<1>5. ASSUME NEW r \in Requests,
             \/ OpenOrder(r) \/ RecordPayment(r) \/ VerifySaves(r)
             \/ WebhookSavesCapture(r) \/ WebhookSavesOther(r) \/ MarkBillPaid(r)
      PROVE  UNCHANGED <<notified, audited>>
  BY <1>5 DEF OpenOrder, RecordPayment, VerifySaves, WebhookSavesCapture,
              WebhookSavesOther, MarkBillPaid, db
<1>6. ASSUME NEW b \in Bills, SweepOverdue(b) PROVE UNCHANGED <<notified, audited>>
  BY <1>6 DEF SweepOverdue
<1>7. ASSUME NEW x \in Orders, NEW p \in Pays, NEW c \in {"captured", "failed"},
             TryToPay(x, p, c)
      PROVE  UNCHANGED <<notified, audited>>
  BY <1>7 DEF TryToPay
<1> QED
  BY <1>2, <1>3, <1>4, <1>5, <1>6, <1>7, Writers

\* The step that stores the id of a capture leaves its request in flight, and
\* a request in flight either marks the bill, or sees it paid, or dies.
LEMMA RecordedKept == IInv /\ [Next]_vars => RecordedCaptureSettles'
<1> SUFFICES ASSUME IInv, [Next]_vars, aborts' = 0, NEW o \in Orders, NEW p \in Pays,
                    payment'[o] # None,
                    [kind |-> "captured", pay |-> p] \in payment'[o].rawWebhookEventIds
             PROVE  bill'[payment'[o].bill] = "paid" \/ InFlight(o)'
  BY DEF RecordedCaptureSettles
<1> DEFINE ev == [kind |-> "captured", pay |-> p]
           Goal == bill'[payment'[o].bill] = "paid" \/ InFlight(o)'
<1>1. TypeOK /\ RecordedCaptureSettles
  BY DEF IInv
<1>2. ASSUME NEW r \in Requests, Abort(r) PROVE FALSE
  BY <1>1, <1>2 DEF Abort, TypeOK
<1>3. aborts = 0
  <2>1. ASSUME NEW r \in Requests, Continue(r) \/ Arrive(r) PROVE aborts' = aborts
    BY <2>1 DEF Continue, Arrive, StartOrder, OpenOrder, RecordPayment, StartVerify,
       VerifyReadsBill, VerifySaves, WebhookSavesCapture, WebhookSavesOther, RejectMethod,
       WebhookReadsUnpaid, WebhookReadsPaid, MarkBillPaid, NotifyBillPayer, AuditVerify
  <2>2. ASSUME NEW e \in Events, Deliver(e) PROVE aborts' = aborts
    BY <2>2 DEF Deliver, AnswerDuplicate, StartWebhook
  <2>3. ASSUME NEW b \in Bills, PassDueDate(b) \/ SweepOverdue(b) PROVE aborts' = aborts
    BY <2>3 DEF PassDueDate, SweepOverdue
  <2>4. ASSUME NEW x \in Orders, NEW q \in Pays, NEW c \in {"captured", "failed"},
               TryToPay(x, q, c)
        PROVE  aborts' = aborts
    BY <2>4 DEF TryToPay
  <2>5. CASE UNCHANGED vars
    BY <2>5 DEF vars
  <2> QED BY <1>2, <2>1, <2>2, <2>3, <2>4, <2>5 DEF Next
<1>4. ASSUME payment[o] # None, ev \in payment[o].rawWebhookEventIds PROVE Goal
  <2>1. /\ payment[o].bill \in Bills
        /\ payment'[o].bill = payment[o].bill
    BY <1>1, <1>4, DocumentsGrow DEF Grows, TypeOK, PaymentDoc
  <2>2. CASE bill[payment[o].bill] = "paid"
    BY <2>1, <2>2, PaidKept
  <2>3. CASE InFlight(o)
    <3>1. PICK r \in Requests : /\ req[r].order = o /\ req[r].op = "webhook"
                                /\ req[r].at \in {"readBill", "mark"}
      BY <2>3 DEF InFlight
    <3>2. CASE req'[r] = req[r]
      BY <3>1, <3>2 DEF InFlight
    <3>3. CASE WebhookReadsUnpaid(r)
      BY <1>1, <3>1, <3>3 DEF WebhookReadsUnpaid, TypeOK, ReqState, InFlight
    <3>4. CASE WebhookReadsPaid(r)
      <4>1. req[r].bill = payment[o].bill
        BY <3>1 DEF IInv, ConfirmingOK
      <4> QED BY <2>2, <3>4, <4>1 DEF WebhookReadsPaid
    <3>5. CASE MarkBillPaid(r)
      <4>1. /\ req'[r].at = "notify" /\ req'[r].op = "webhook"
            /\ req'[r].order = o
        BY <1>1, <3>1, <3>5 DEF MarkBillPaid, Goto, TypeOK, ReqState
      <4> QED BY <4>1, RequestKept DEF RequestOK, ConfirmingOK, ProgressOK
    <3>6. ASSUME ~WebhookReadsUnpaid(r), ~WebhookReadsPaid(r), ~MarkBillPaid(r)
          PROVE  req'[r] = req[r]
      <4>1. ~Continue(r)
        BY <3>1, <3>6 DEF Continue, OpenOrder, RecordPayment, VerifyReadsBill, VerifySaves,
           WebhookSavesCapture, WebhookSavesOther, RejectMethod, NotifyBillPayer,
           AuditVerify, At, IInv, ProgressOK
      <4>2. ~Arrive(r) /\ \A e \in Events : ~StartWebhook(r, e)
        BY <3>1 DEF Arrive, StartOrder, StartVerify, StartWebhook, Idling
      <4>3. ASSUME NEW s \in Requests, s # r,
                   \/ Continue(s) \/ Arrive(s)
                   \/ \E e \in Events : StartWebhook(s, e)
            PROVE  req'[r] = req[r]
        BY <1>1, <4>3 DEF Continue, Arrive, StartOrder, OpenOrder, RecordPayment,
           StartVerify, VerifyReadsBill, VerifySaves, StartWebhook, WebhookSavesCapture,
           WebhookSavesOther, RejectMethod, WebhookReadsUnpaid, WebhookReadsPaid,
           MarkBillPaid, NotifyBillPayer, AuditVerify, Goto, Finish, TypeOK
      <4>4. ASSUME \/ \E e \in Events : AnswerDuplicate(e)
                   \/ \E b \in Bills : PassDueDate(b) \/ SweepOverdue(b)
                   \/ \E x \in Orders, q \in Pays, c \in {"captured", "failed"} :
                        TryToPay(x, q, c)
                   \/ UNCHANGED vars
            PROVE  req'[r] = req[r]
        BY <4>4 DEF AnswerDuplicate, PassDueDate, SweepOverdue, TryToPay, vars
      <4> QED
        BY <1>2, <4>1, <4>2, <4>3, <4>4 DEF Next, Deliver
    <3> QED BY <3>2, <3>3, <3>4, <3>5, <3>6
  <2> QED BY <1>1, <1>3, <1>4, <2>2, <2>3 DEF RecordedCaptureSettles
<1>5. CASE UNCHANGED payment
  BY <1>4, <1>5
<1>6. ASSUME NEW r \in Requests, RecordPayment(r) PROVE Goal
  <2>1. CASE req[r].order # o
    BY <1>1, <1>4, <1>6, <2>1 DEF RecordPayment, TypeOK
  <2>2. CASE req[r].order = o
    BY <1>1, <1>6, <2>2 DEF RecordPayment, TypeOK
  <2> QED BY <2>1, <2>2
<1>7. ASSUME NEW r \in Requests,
             VerifySaves(r) \/ WebhookSavesOther(r) \/ WebhookSavesCapture(r)
      PROVE  Goal
  <2>1. CASE req[r].order # o
    BY <1>1, <1>4, <1>7, <2>1 DEF VerifySaves, WebhookSavesOther, WebhookSavesCapture, TypeOK
  <2>2. CASE req[r].order = o /\ ~WebhookSavesCapture(r)
    <3>1. payment[o] \in PaymentDoc /\ payment[o] # None
      BY <1>1, <1>7, <2>2, ConfirmingType, NoneAssumption
         DEF VerifySaves, WebhookSavesOther, At, IInv
    <3>a. \A s \in PayStatus : SetStatus(payment[o], req[r].seen, s).rawWebhookEventIds
                               = payment[o].rawWebhookEventIds
      BY <3>1 DEF SetStatus, PaymentDoc
    <3>b. SaveCapture(payment[o], r).rawWebhookEventIds = payment[o].rawWebhookEventIds
      BY <3>1 DEF SaveCapture, SetStatus, PaymentDoc
    <3>2. payment'[o].rawWebhookEventIds \subseteq
            payment[o].rawWebhookEventIds \cup
              (IF req[r].kind # "captured" THEN {EventOf(r)} ELSE {})
      <4>1. CASE VerifySaves(r)
        BY <1>1, <2>2, <3>1, <3>b, <4>1 DEF VerifySaves, TypeOK
      <4>2. CASE WebhookSavesOther(r)
        <5>1. \/ payment'[o] = AddEvent(SetStatus(payment[o], req[r].seen, "failed"), r)
              \/ payment'[o] = AddEvent(payment[o], r)
          BY <1>1, <2>2, <3>1, <4>2 DEF WebhookSavesOther, TypeOK
        <5>2. SetStatus(payment[o], req[r].seen, "failed") \in PaymentDoc
          BY <3>1 DEF SetStatus, PaymentDoc, PayStatus
        <5>3. \A d \in PaymentDoc : AddEvent(d, r).rawWebhookEventIds
                                    \subseteq d.rawWebhookEventIds \cup {EventOf(r)}
          BY DEF AddEvent, PaymentDoc
        <5> QED
          BY <3>1, <3>a, <4>2, <5>1, <5>2, <5>3 DEF WebhookSavesOther, PayStatus
      <4> QED BY <1>7, <2>2, <4>1, <4>2
    <3>3. req[r].kind # "captured" => EventOf(r) # ev
      BY DEF EventOf
    <3> QED BY <1>4, <3>1, <3>2, <3>3
  <2>3. CASE req[r].order = o /\ WebhookSavesCapture(r)
    <3>1. /\ req'[r].at = "readBill" /\ req'[r].op = "webhook"
          /\ req'[r].order = o
      BY <1>1, <2>3 DEF WebhookSavesCapture, At, Goto, TypeOK, ReqState
    <3> QED BY <3>1 DEF InFlight
  <2> QED BY <1>7, <2>1, <2>2, <2>3
<1>8. ASSUME NEW r \in Requests,
             OpenOrder(r) \/ MarkBillPaid(r) \/ NotifyBillPayer(r) \/ AuditVerify(r)
      PROVE  UNCHANGED payment
  BY <1>8 DEF OpenOrder, MarkBillPaid, NotifyBillPayer, AuditVerify, db
<1>9. ASSUME NEW b \in Bills, SweepOverdue(b) PROVE UNCHANGED payment
  BY <1>9 DEF SweepOverdue
<1>10. ASSUME NEW x \in Orders, NEW q \in Pays, NEW c \in {"captured", "failed"},
              TryToPay(x, q, c)
       PROVE  UNCHANGED payment
  BY <1>10 DEF TryToPay
<1> QED
  BY <1>5, <1>6, <1>7, <1>8, <1>9, <1>10, Writers

-----------------------------------------------------------------------------
(* The theorems.                                                           *)

\* The invariant holds of the empty database.
LEMMA InitIInv == Init => IInv
<1> SUFFICES ASSUME Init PROVE IInv
  OBVIOUS
<1>1. TypeOK
  BY IdleType, EnvAssumption DEF Init, TypeOK, BillStatus, Many
<1>2. GatewayOK /\ (\A o \in Orders : DocumentOK(o)) /\ (\A b \in Bills : BillOK(b))
  BY NoneAssumption DEF Init, GatewayOK, DocumentOK, BillOK, Captured, Ended, Attempt
<1>3. /\ \A r \in Requests : CreatingOK(r) /\ ConfirmingOK(r) /\ ProgressOK(r)
      /\ CreatingAlone
  BY DEF Init, CreatingOK, ConfirmingOK, ProgressOK, CreatingAlone, Idle
<1>4. ConfirmedOnlyIfPaid /\ RecordedCaptureSettles
  BY DEF Init, ConfirmedOnlyIfPaid, RecordedCaptureSettles
<1> QED BY <1>1, <1>2, <1>3, <1>4 DEF IInv

\* The invariant is inductive.
THEOREM Invariance == Spec => []IInv
<1>1. IInv /\ [Next]_vars => IInv'
  BY TypeKept, GatewayKept, DocumentKept, RequestKept, CreatingAloneKept, BillKept,
     ConfirmedKept, RecordedKept DEF IInv, RequestOK
<1> QED BY InitIInv, <1>1, PTL DEF Spec

\* Every state is well typed: a document keeps a status its schema's enum
\* allows, a request that confirms a payment always has its document.
THEOREM TypeCorrect == Spec => []TypeOK
<1>1. IInv => TypeOK
  BY DEF IInv
<1> QED BY Invariance, <1>1, PTL

\* No bill is paid for nothing: the evidence is stored first (payment.save()
\* before bill.save()), and no concurrent save destroys it.
THEOREM PaidBillsHaveCapture == Spec => []PaidBillHasCapture
<1>1. IInv => PaidBillHasCapture
  BY DEF IInv, PaidBillHasCapture, HasCapture, BillOK, Settled, DocumentOK
<1> QED BY Invariance, <1>1, PTL

\* A Payment shown as captured names the gateway's capture of its order.
THEOREM CapturesAreGenuine == Spec => []CapturedIsGenuine
<1>1. IInv => CapturedIsGenuine
  BY DEF IInv, CapturedIsGenuine, DocumentOK
<1> QED BY Invariance, <1>1, PTL

\* So the bills and Payments shown as paid and captured are.
THEOREM RealCaptures == Spec => []CapturesAreReal
BY PaidBillsHaveCapture, CapturesAreGenuine, PTL DEF CapturesAreReal

\* The invoice of a paid bill finds a captured payment, unless an attempt on
\* the order that paid it failed too.
THEOREM InvoicesShowPayment == Spec => []InvoiceShowsPayment
<1>1. IInv => InvoiceShowsPayment
  BY DEF IInv, InvoiceShowsPayment, BillOK, Settled, DocumentOK
<1> QED BY Invariance, <1>1, PTL

\* Payers are notified, and verifications audited, only for paid bills.
THEOREM ConfirmationsAreTrue == Spec => []ConfirmedOnlyIfPaid
<1>1. IInv => ConfirmedOnlyIfPaid
  BY DEF IInv
<1> QED BY Invariance, <1>1, PTL

\* While no request died, a capture whose event id is stored has its bill paid
\* or a webhook handler about to pay it.
THEOREM RecordedCapturesSettle == Spec => []RecordedCaptureSettles
<1>1. IInv => RecordedCaptureSettles
  BY DEF IInv
<1> QED BY Invariance, <1>1, PTL

\* No step takes a paid bill back, in particular not the overdue sweep.
THEOREM PaidStaysPaid == Spec => PaidIsFinal
<1>1. IInv /\ [Next]_vars =>
        [\A b \in Bills : bill[b] = "paid" => bill'[b] = "paid"]_vars
  BY PaidKept
<1> QED BY Invariance, <1>1, PTL DEF Spec, PaidIsFinal

-----------------------------------------------------------------------------
(* Payments implements the ledger of bills.                                *)

\* What the steps do to the set of funded bills.
LEMMA FundedStep ==
    ASSUME IInv, [Next]_vars
    PROVE  \/ Funded' = Funded
           \/ /\ \E b \in Bills : Funded' = Funded \cup {b}
              /\ bill' = bill
<1>1. TypeOK /\ GatewayOK
  BY DEF IInv
<1>2. CASE UNCHANGED <<orderFor, attempt>>
  BY <1>2 DEF Funded, Captured, Ended
<1>3. ASSUME NEW r \in Requests, OpenOrder(r) PROVE Funded' = Funded
  <2>1. payment[req[r].order] = None /\ req[r].order \in Orders
    BY <1>3 DEF OpenOrder, At, IInv, CreatingOK
  <2>2. \A p \in Pays : ~Captured(req[r].order, p)
    BY <1>1, <2>1, NoneAssumption DEF GatewayOK, Captured, Ended, Attempt
  <2>3. \A o \in Orders : o # req[r].order => orderFor'[o] = orderFor[o]
    BY <1>1, <1>3 DEF OpenOrder, TypeOK
  <2>4. attempt' = attempt
    BY <1>3 DEF OpenOrder
  <2>5. \A o \in Orders, p \in Pays : Captured(o, p)' <=> Captured(o, p)
    BY <2>4 DEF Captured, Ended
  <2>6. \A b \in Bills, o \in Orders, p \in Pays :
            (orderFor'[o] = b /\ Captured(o, p)') <=> (orderFor[o] = b /\ Captured(o, p))
    BY <2>2, <2>3, <2>5
  <2> QED BY <2>6 DEF Funded
<1>4. ASSUME NEW o \in Orders, NEW p \in Pays, NEW c \in {"captured", "failed"},
             TryToPay(o, p, c)
      PROVE  \/ Funded' = Funded
             \/ (\E b \in Bills : Funded' = Funded \cup {b}) /\ bill' = bill
  <2>1. /\ payment[o] # None /\ attempt[p] = None
        /\ attempt' = [attempt EXCEPT ![p] = [order |-> o, outcome |-> c]]
        /\ orderFor' = orderFor /\ bill' = bill
    BY <1>4 DEF TryToPay
  <2>2. orderFor[o] \in Bills
    BY <1>1, <2>1 DEF IInv, DocumentOK, TypeOK, PaymentDoc
  <2>3. \A x \in Orders, q \in Pays :
            Captured(x, q)' <=> Captured(x, q) \/ (c = "captured" /\ x = o /\ q = p)
    <3>1. \A x \in Orders : ~Captured(x, p)
      BY <2>1, NoneAssumption DEF Captured, Ended, Attempt
    <3> QED BY <1>1, <2>1, <3>1 DEF Captured, Ended, TypeOK
  <2>4. CASE c = "captured"
    <3>1. Funded' = Funded \cup {orderFor[o]}
      BY <2>1, <2>2, <2>3, <2>4 DEF Funded
    <3> QED BY <2>1, <2>2, <3>1
  <2>5. CASE c = "failed"
    BY <2>1, <2>3, <2>5 DEF Funded
  <2> QED BY <2>4, <2>5
<1>5. ASSUME NEW r \in Requests,
             \/ RecordPayment(r) \/ VerifySaves(r)
             \/ WebhookSavesCapture(r) \/ WebhookSavesOther(r) \/ MarkBillPaid(r)
             \/ NotifyBillPayer(r) \/ AuditVerify(r)
      PROVE  UNCHANGED <<orderFor, attempt>>
  BY <1>5 DEF RecordPayment, VerifySaves, WebhookSavesCapture, WebhookSavesOther,
              MarkBillPaid, NotifyBillPayer, AuditVerify, gateway
<1>6. ASSUME NEW b \in Bills, SweepOverdue(b) PROVE UNCHANGED <<orderFor, attempt>>
  BY <1>6 DEF SweepOverdue, gateway
<1> QED
  BY <1>2, <1>3, <1>4, <1>5, <1>6, Writers

\* What the steps do to the bills.
LEMMA BillStep ==
    ASSUME IInv, [Next]_vars
    PROVE  \/ bill' = bill
           \/ \E b \in Bills : (Ledger!Lapse(b) \/ Ledger!Settle(b))
<1>1. TypeOK
  BY DEF IInv
<1>2. ASSUME NEW r \in Requests, MarkBillPaid(r)
      PROVE  bill' = bill \/ \E b \in Bills : Ledger!Settle(b)
  <2>1. req[r].op \in {"verify", "webhook"} /\ Settled(req[r].order)
    BY <1>1, <1>2 DEF MarkBillPaid, IInv, ProgressOK, CreatingOK, TypeOK, ReqState
  <2>2. /\ req[r].order \in Orders /\ req[r].bill \in Bills
        /\ req[r].bill = payment[req[r].order].bill
        /\ ConfirmingOK(r)
    BY <1>1, <2>1, ConfirmingType DEF IInv, ConfirmingOK
  <2>3. /\ orderFor[req[r].order] = req[r].bill
        /\ Captured(req[r].order, payment[req[r].order].paymentId)
    BY <2>1, <2>2 DEF IInv, DocumentOK, Settled
  <2>4. req[r].bill \in Funded
    BY <2>2, <2>3 DEF Funded, Captured, Ended
  <2>5. Funded' = Funded
    BY <1>2 DEF MarkBillPaid, gateway, Funded, Captured, Ended
  <2>6. CASE bill[req[r].bill] = "paid"
    BY <1>1, <1>2, <2>6 DEF MarkBillPaid, TypeOK
  <2>7. CASE bill[req[r].bill] # "paid"
    <3>1. bill' = [bill EXCEPT ![req[r].bill] = "paid"]
      BY <1>1, <1>2, <2>1, <2>2, <2>7 DEF MarkBillPaid, TypeOK, ConfirmingOK
    <3> QED BY <2>2, <2>4, <2>5, <2>7, <3>1 DEF Ledger!Settle
  <2> QED BY <2>6, <2>7
<1>3. ASSUME NEW b \in Bills, SweepOverdue(b)
      PROVE  Ledger!Lapse(b)
  BY <1>3 DEF SweepOverdue, Ledger!Lapse, gateway, Funded, Captured, Ended
<1>4. ASSUME NEW r \in Requests,
             \/ OpenOrder(r) \/ RecordPayment(r) \/ VerifySaves(r)
             \/ WebhookSavesCapture(r) \/ WebhookSavesOther(r)
             \/ NotifyBillPayer(r) \/ AuditVerify(r)
      PROVE  bill' = bill
  BY <1>4 DEF OpenOrder, RecordPayment, VerifySaves, WebhookSavesCapture,
              WebhookSavesOther, NotifyBillPayer, AuditVerify, db
<1>5. ASSUME NEW o \in Orders, NEW p \in Pays, NEW c \in {"captured", "failed"},
             TryToPay(o, p, c)
      PROVE  bill' = bill
  BY <1>5 DEF TryToPay
<1> QED
  BY <1>2, <1>3, <1>4, <1>5, Writers

\* Every step is a step of the ledger or leaves it alone: bills are settled
\* only with money in the gateway, lapse only while pending, and never change
\* otherwise.
THEOREM Refinement == Spec => ImplementsLedgerSafety
<1>1. Init => Ledger!Init
  BY NoneAssumption DEF Init, Ledger!Init, Funded, Captured, Ended, Attempt
<1>2. IInv /\ [Next]_vars => [Ledger!Next]_(Ledger!vars)
  <2> SUFFICES ASSUME IInv, [Next]_vars PROVE [Ledger!Next]_(Ledger!vars)
    OBVIOUS
  <2>1. CASE bill' = bill /\ Funded' = Funded
    BY <2>1 DEF Ledger!vars
  <2>2. CASE bill' = bill /\ \E b \in Bills : Funded' = Funded \cup {b}
    BY <2>2 DEF Ledger!Next, Ledger!Fund
  <2>3. CASE \E b \in Bills : Ledger!Lapse(b) \/ Ledger!Settle(b)
    BY <2>3 DEF Ledger!Next
  <2> QED BY <2>1, <2>2, <2>3, FundedStep, BillStep
<1> QED
  BY Invariance, <1>1, <1>2, PTL DEF Spec, ImplementsLedgerSafety, Ledger!Safety
=============================================================================
