------------------------------ MODULE Payments ------------------------------
(***************************************************************************)
(* Online payment of bills: createPaymentOrder, verifyPayment and          *)
(* handlePaymentWebhook of payment.controller.js, and the overdue sweep of *)
(* listBills in billing.controller.js, running concurrently.               *)
(*                                                                         *)
(* An Express handler yields at every `await`, so each handler is a small  *)
(* process whose steps are separated by its awaits.  What it has read is   *)
(* kept in `req`, may be stale when used, and is lost when it is aborted.  *)
(* Mongoose's save() writes only the paths that differ from what was       *)
(* loaded; that is why a handler remembers the statuses it has seen.       *)
(***************************************************************************)
EXTENDS Naturals

CONSTANTS
    Bills,          \* the Bill documents
    Orders,         \* Razorpay order ids (a Payment document has one each)
    Pays,           \* Razorpay payment ids: attempts to pay an order
    Requests,       \* the requests that are served concurrently
    OddMethod,      \* attempts whose method is not in PAYMENT_METHOD_VALUES
    EventsCarryId,  \* do webhook bodies have an `id`?
    MaxAborts,      \* bound on the requests that die half way
    None            \* absent

ASSUME EnvAssumption == /\ OddMethod \subseteq Pays
                        /\ EventsCarryId \in BOOLEAN
                        /\ MaxAborts \in Nat

VARIABLES
    bill,       \* bill[b]: Bill.status
    pastDue,    \* the bills whose dueDate is before now
    payment,    \* payment[o]: the Payment document of order o, or None
    notified,   \* notified[o]: confirmations stored for its payer: 0, 1 or Many
    audited,    \* the orders with a payment_verified audit entry
    orderFor,   \* gateway: the bill an order was opened for, or None
    attempt,    \* gateway: attempt[p], its order and outcome, or None
    acked,      \* gateway: the webhook events answered with a 2xx
    req,        \* req[r]: where request r stands and what it has read
    aborts      \* how many requests have died half way

db      == <<bill, payment, notified, audited>>
gateway == <<orderFor, attempt, acked>>
vars    == <<bill, pastDue, payment, notified, audited, orderFor, attempt,
             acked, req, aborts>>

Many == 2
BillStatus == {"pending", "overdue", "paid"}
PayStatus  == {"created", "captured", "failed"}
EventKind  == {"captured", "failed", "other"}
Events     == [kind : EventKind, pay : Pays]

PaymentDoc == [bill : Bills, status : PayStatus, paymentId : Pays \cup {None},
               rawWebhookEventIds : SUBSET Events]

Attempt == [order : Orders, outcome : {"captured", "failed"}]

ASSUME NoneAssumption ==
    None \notin Bills \cup Orders \cup Pays \cup PaymentDoc \cup Attempt

Idle == [op |-> "none", at |-> "idle", bill |-> None, order |-> None,
         pay |-> None, kind |-> "other", seen |-> "created",
         billSeen |-> "pending"]

ReqState ==
    [op : {"none", "create", "verify", "webhook"},
     at : {"idle", "order", "record", "readBill", "save", "mark", "notify",
           "audit"},
     bill : Bills \cup {None}, order : Orders \cup {None},
     pay : Pays \cup {None}, kind : EventKind, seen : PayStatus,
     billSeen : BillStatus]

TypeOK == /\ bill \in [Bills -> BillStatus]
          /\ pastDue \subseteq Bills
          /\ payment \in [Orders -> PaymentDoc \cup {None}]
          /\ notified \in [Orders -> 0..Many]
          /\ audited \subseteq Orders
          /\ orderFor \in [Orders -> Bills \cup {None}]
          /\ attempt \in [Pays -> Attempt \cup {None}]
          /\ acked \subseteq Events
          /\ req \in [Requests -> ReqState]
          /\ aborts \in 0..MaxAborts

Init == /\ bill = [b \in Bills |-> "pending"]
        /\ pastDue = {}
        /\ payment = [o \in Orders |-> None]
        /\ notified = [o \in Orders |-> 0]
        /\ audited = {}
        /\ orderFor = [o \in Orders |-> None]
        /\ attempt = [p \in Pays |-> None]
        /\ acked = {}
        /\ req = [r \in Requests |-> Idle]
        /\ aborts = 0

-----------------------------------------------------------------------------
(* The gateway (external).                                                 *)

Ended(o, p, outcome) == /\ p \in Pays
                        /\ attempt[p] = [order |-> o, outcome |-> outcome]
Captured(o, p) == Ended(o, p, "captured")
Failed(o, p)   == Ended(o, p, "failed")

\* A payer who was given order o tries to pay it.  The gateway takes money
\* at most once per order; failed attempts may precede that.
TryToPay(o, p, outcome) ==
    /\ attempt[p] = None
    /\ payment[o] # None
    /\ \A q \in Pays : ~Captured(o, q)
    /\ attempt' = [attempt EXCEPT ![p] = [order |-> o, outcome |-> outcome]]
    /\ UNCHANGED <<bill, pastDue, payment, notified, audited, orderFor, acked,
                   req, aborts>>

\* The signed webhook events the gateway sends: payment.failed for a failed
\* attempt, payment.captured and others (payment.authorized, order.paid) for
\* a successful one.  It repeats an event until it is acknowledged, and may
\* repeat it after that.
Emitted(e) == /\ attempt[e.pay] # None
              /\ IF attempt[e.pay].outcome = "captured"
                 THEN e.kind \in {"captured", "other"} ELSE e.kind = "failed"

-----------------------------------------------------------------------------
(* Steps of the handlers.                                                  *)

Idling(r) == req[r].at = "idle"
At(r, op, at) == req[r].op = op /\ req[r].at = at
Goto(r, at) == req' = [req EXCEPT ![r].at = at]
Finish(r) == req' = [req EXCEPT ![r] = Idle]
EventOf(r) == [kind |-> req[r].kind, pay |-> req[r].pay]

\* createPaymentOrder: getBillForPayment answers 409 for a paid bill.  Bound:
\* it starts only while there is an order id left for it, o.
StartOrder(r, b, o) ==
    /\ Idling(r)
    /\ bill[b] # "paid"
    /\ orderFor[o] = None /\ \A s \in Requests : req[s].order # o
    /\ req' = [req EXCEPT ![r] = [Idle EXCEPT !.op = "create", !.at = "order",
                                              !.bill = b, !.order = o]]
    /\ UNCHANGED <<db, pastDue, gateway, aborts>>

\* paymentService.createOrder: the gateway opens the order.
OpenOrder(r) ==
    /\ At(r, "create", "order")
    /\ orderFor' = [orderFor EXCEPT ![req[r].order] = req[r].bill]
    /\ Goto(r, "record")
    /\ UNCHANGED <<db, pastDue, attempt, acked, aborts>>

\* Payment.create, and the order is returned to the payer.
RecordPayment(r) ==
    /\ At(r, "create", "record")
    /\ payment' = [payment EXCEPT ![req[r].order] =
                     [bill |-> req[r].bill, status |-> "created",
                      paymentId |-> None, rawWebhookEventIds |-> {}]]
    /\ Finish(r)
    /\ UNCHANGED <<bill, pastDue, notified, audited, gateway, aborts>>

\* verifyPayment: only the gateway can sign <<order, payment>>, and it does
\* so for a payment that went through; the Payment is then read.
StartVerify(r, o, p) ==
    /\ Idling(r)
    /\ Captured(o, p)
    /\ payment[o] # None
    /\ req' = [req EXCEPT ![r] =
                 [Idle EXCEPT !.op = "verify", !.at = "readBill", !.order = o,
                    !.pay = p, !.kind = "captured", !.bill = payment[o].bill,
                    !.seen = payment[o].status]]
    /\ UNCHANGED <<db, pastDue, gateway, aborts>>

\* Fault: the bill is marked without payment.save().
VerifyReadsBillUnsaved(r) ==
    /\ At(r, "verify", "readBill")
    /\ req' = [req EXCEPT ![r].at = "mark", ![r].billSeen = bill[req[r].bill]]
    /\ UNCHANGED <<db, pastDue, gateway, aborts>>

\* verifyPayment reads the bill first, whatever its status.
VerifyReadsBill(r) ==
    /\ At(r, "verify", "readBill")
    /\ req' = [req EXCEPT ![r].at = "save", ![r].billSeen = bill[req[r].bill]]
    /\ UNCHANGED <<db, pastDue, gateway, aborts>>

\* payment.status = s; save(): a no-op for the status if it was s when read.
SetStatus(doc, seen, s) == [doc EXCEPT !.status = IF seen = s THEN @ ELSE s]

\* Faults: the bill's word for it, or no status at all.
SaveCaptureAsPaid(doc, r) == [SetStatus(doc, req[r].seen, "paid")
                                EXCEPT !.paymentId = req[r].pay]
SaveCaptureIdOnly(doc, r) == [doc EXCEPT !.paymentId = req[r].pay]

SaveCapture(doc, r) == [SetStatus(doc, req[r].seen, "captured")
                          EXCEPT !.paymentId = req[r].pay]

VerifySaves(r) ==
    /\ At(r, "verify", "save")
    /\ payment' = [payment EXCEPT ![req[r].order] = SaveCapture(@, r)]
    /\ Goto(r, "mark")
    /\ UNCHANGED <<bill, pastDue, notified, audited, gateway, aborts>>

\* Fault: any earlier event about the same payment counts as this one.
DuplicateByPayment(e) ==
    \E k \in EventKind :
        [kind |-> k, pay |-> e.pay] \in payment[attempt[e.pay].order].rawWebhookEventIds

\* handlePaymentWebhook: the event was already recorded by an earlier call.
Duplicate(e) == /\ EventsCarryId
                /\ e \in payment[attempt[e.pay].order].rawWebhookEventIds

AnswerDuplicate(e) ==
    /\ Emitted(e)
    /\ payment[attempt[e.pay].order] # None
    /\ Duplicate(e)
    /\ acked' = acked \cup {e}
    /\ UNCHANGED <<db, pastDue, orderFor, attempt, req, aborts>>

StartWebhook(r, e) ==
    /\ Idling(r)
    /\ Emitted(e)
    /\ LET o == attempt[e.pay].order IN
         /\ payment[o] # None
         /\ ~Duplicate(e)
         /\ req' = [req EXCEPT ![r] =
                      [Idle EXCEPT !.op = "webhook", !.at = "save", !.order = o,
                         !.pay = e.pay, !.kind = e.kind,
                         !.bill = payment[o].bill, !.seen = payment[o].status]]
    /\ UNCHANGED <<db, pastDue, gateway, aborts>>

\* The $push of the event id that goes with every save of the webhook.
AddEvent(doc, r) ==
    [doc EXCEPT !.rawWebhookEventIds =
        IF EventsCarryId THEN @ \cup {EventOf(r)} ELSE @]

\* Fault: the handler leaves the bill to the browser's callback.
WebhookSavesCaptureOnly(r) ==
    /\ At(r, "webhook", "save")
    /\ req[r].kind = "captured"
    /\ payment' = [payment EXCEPT ![req[r].order] = AddEvent(SaveCapture(@, r), r)]
    /\ acked' = acked \cup {EventOf(r)}
    /\ Finish(r)
    /\ UNCHANGED <<bill, pastDue, notified, audited, orderFor, attempt, aborts>>

WebhookSavesCapture(r) ==
    /\ At(r, "webhook", "save")
    /\ req[r].kind = "captured"
    /\ req[r].pay \notin OddMethod
    /\ payment' = [payment EXCEPT ![req[r].order] = AddEvent(SaveCapture(@, r), r)]
    /\ Goto(r, "readBill")
    /\ UNCHANGED <<bill, pastDue, notified, audited, gateway, aborts>>

\* Fault: the bill is looked up after every event.
WebhookSavesThenMarks(r) ==
    /\ At(r, "webhook", "save")
    /\ req[r].kind # "captured"
    /\ payment' = [payment EXCEPT ![req[r].order] = AddEvent(@, r)]
    /\ Goto(r, "readBill")
    /\ UNCHANGED <<bill, pastDue, notified, audited, gateway, aborts>>

\* payment.failed and all other events end the handler after the save.
WebhookSavesOther(r) ==
    /\ At(r, "webhook", "save")
    /\ req[r].kind # "captured"
    /\ payment' = [payment EXCEPT ![req[r].order] =
         AddEvent(IF req[r].kind = "failed" THEN SetStatus(@, req[r].seen, "failed")
                                            ELSE @, r)]
    /\ acked' = acked \cup {EventOf(r)}
    /\ Finish(r)
    /\ UNCHANGED <<bill, pastDue, notified, audited, orderFor, attempt, aborts>>

\* save() validates `method`; the enum error ends the handler with nothing
\* written.  The webhook's method is the gateway's, verify's the client's.
RejectMethod(r) ==
    /\ req[r].at = "save"
    /\ req[r].op = "verify" \/ (req[r].kind = "captured" /\ req[r].pay \in OddMethod)
    /\ Finish(r)
    /\ UNCHANGED <<db, pastDue, gateway, aborts>>

\* Fault: the payer is told before the bill is marked.
WebhookNotifiesFirst(r) ==
    /\ At(r, "webhook", "readBill")
    /\ bill[req[r].bill] # "paid"
    /\ Goto(r, "notify")
    /\ UNCHANGED <<db, pastDue, gateway, aborts>>

WebhookReadsUnpaid(r) ==
    /\ At(r, "webhook", "readBill")
    /\ bill[req[r].bill] # "paid"
    /\ req' = [req EXCEPT ![r].at = "mark", ![r].billSeen = bill[req[r].bill]]
    /\ UNCHANGED <<db, pastDue, gateway, aborts>>

WebhookReadsPaid(r) ==
    /\ At(r, "webhook", "readBill")
    /\ bill[req[r].bill] = "paid"
    /\ acked' = acked \cup {EventOf(r)}
    /\ Finish(r)
    /\ UNCHANGED <<db, pastDue, orderFor, attempt, aborts>>

\* markBillPaid: bill.save() with the status as it was read.
MarkBillPaid(r) ==
    /\ req[r].at = "mark"
    /\ bill' = [bill EXCEPT ![req[r].bill] =
                  IF req[r].billSeen = "paid" THEN @ ELSE "paid"]
    /\ Goto(r, "notify")
    /\ UNCHANGED <<pastDue, payment, notified, audited, gateway, aborts>>

\* notifyBillPayer: Notification.create; the counter saturates at Many.
NotifyBillPayer(r) ==
    /\ req[r].at = "notify"
    /\ notified' = [notified EXCEPT ![req[r].order] =
                      IF @ < Many THEN @ + 1 ELSE @]
    /\ IF req[r].op = "verify"
       THEN Goto(r, "audit") /\ UNCHANGED acked
       ELSE Finish(r) /\ acked' = acked \cup {EventOf(r)}
    /\ UNCHANGED <<bill, pastDue, payment, audited, orderFor, attempt, aborts>>

\* auditService.record of verifyPayment.
AuditVerify(r) ==
    /\ req[r].at = "audit"
    /\ audited' = audited \cup {req[r].order}
    /\ Finish(r)
    /\ UNCHANGED <<bill, pastDue, payment, notified, gateway, aborts>>

\* The request dies at one of its awaits: the awaited call throws, or the
\* server goes down (then several requests do).  The database is untouched.
Abort(r) ==
    /\ ~Idling(r)
    /\ aborts < MaxAborts
    /\ aborts' = aborts + 1
    /\ Finish(r)
    /\ UNCHANGED <<db, pastDue, gateway>>

-----------------------------------------------------------------------------
(* The due date, and listBills (billing.controller.js).                    *)

PassDueDate(b) ==
    /\ b \notin pastDue
    /\ pastDue' = pastDue \cup {b}
    /\ UNCHANGED <<db, gateway, req, aborts>>

\* updateMany is atomic for each document only.
SweepOverdue(b) ==
    /\ bill[b] = "pending"
    /\ b \in pastDue
    /\ bill' = [bill EXCEPT ![b] = "overdue"]
    /\ UNCHANGED <<pastDue, payment, notified, audited, gateway, req, aborts>>

-----------------------------------------------------------------------------
Continue(r) ==
    \/ OpenOrder(r)
    \/ RecordPayment(r)
    \/ VerifyReadsBill(r)
    \/ VerifySaves(r)
    \/ WebhookSavesCapture(r)
    \/ WebhookSavesOther(r)
    \/ RejectMethod(r)
    \/ WebhookReadsUnpaid(r)
    \/ WebhookReadsPaid(r)
    \/ MarkBillPaid(r)
    \/ NotifyBillPayer(r)
    \/ AuditVerify(r)

Deliver(e) == AnswerDuplicate(e) \/ \E r \in Requests : StartWebhook(r, e)

Arrive(r) == \/ \E b \in Bills, o \in Orders : StartOrder(r, b, o)
             \/ \E o \in Orders, p \in Pays : StartVerify(r, o, p)

Next == \/ \E r \in Requests : Continue(r) \/ Arrive(r) \/ Abort(r)
        \/ \E e \in Events : Deliver(e)
        \/ \E b \in Bills : PassDueDate(b) \/ SweepOverdue(b)
        \/ \E o \in Orders, p \in Pays, c \in {"captured", "failed"} :
              TryToPay(o, p, c)

Spec == Init /\ [][Next]_vars

\* A request that is being served takes its next step, and the gateway keeps
\* repeating an event that was not acknowledged.
Fairness == /\ \A r \in Requests : WF_vars(Continue(r))
            /\ \A e \in Events : SF_vars(e \notin acked /\ Deliver(e))

FairSpec == Spec /\ Fairness

-----------------------------------------------------------------------------
(* Properties.                                                             *)

\* Money in the gateway: a payment document of b names the attempt that the
\* gateway captured for its order.
HasCapture(b) == \E o \in Orders : /\ payment[o] # None
                                   /\ payment[o].bill = b
                                   /\ Captured(o, payment[o].paymentId)

\* A bill is marked paid only after the evidence is stored: whatever dies
\* between payment.save() and bill.save(), no bill is paid for nothing.
PaidBillHasCapture == \A b \in Bills : bill[b] = "paid" => HasCapture(b)

\* A Payment shown as captured names the attempt the gateway captured for
\* that very order, however callbacks and webhooks overlap.
CapturedIsGenuine ==
    \A o \in Orders : payment[o] # None /\ payment[o].status = "captured"
                        => Captured(o, payment[o].paymentId)

\* What is stored as paid or captured is real: the bill's paid rests on a
\* Payment, and the Payment on the gateway, whatever dies in between.
CapturesAreReal == PaidBillHasCapture /\ CapturedIsGenuine

\* downloadInvoicePdf looks for a captured payment of the bill.  A paid bill
\* has one, unless an attempt on the order that paid it also failed (its late
\* webhook may overwrite the status).
InvoiceShowsPayment ==
    \A b \in Bills : bill[b] = "paid" =>
        \E o \in Orders : /\ payment[o] # None /\ payment[o].bill = b
                          /\ Captured(o, payment[o].paymentId)
                          /\ \/ payment[o].status = "captured"
                             \/ \E p \in Pays : Failed(o, p)

\* The payer is told, and the audit log says, that an order was paid only
\* when its bill is paid.
ConfirmedOnlyIfPaid ==
    \A o \in Orders : notified[o] > 0 \/ o \in audited
                        => payment[o] # None /\ bill[payment[o].bill] = "paid"

\* Once the id of a payment.captured event is stored, repetitions of the event
\* are answered as duplicates; so the handler that stored it must be about to
\* mark the bill, or have done so.  Only a handler that died breaks this.
InFlight(o) == \E r \in Requests : req[r].order = o /\ req[r].op = "webhook"
                                    /\ req[r].at \in {"readBill", "mark"}

RecordedCaptureSettles ==
    aborts = 0 =>
        \A o \in Orders, p \in Pays :
            /\ payment[o] # None
            /\ [kind |-> "captured", pay |-> p] \in payment[o].rawWebhookEventIds
            => bill[payment[o].bill] = "paid" \/ InFlight(o)

\* A paid bill stays paid: neither the overdue sweep nor a handler that read
\* the bill before it was paid takes it back.
PaidIsFinal == [][\A b \in Bills : bill[b] = "paid" => bill'[b] = "paid"]_vars

\* The webhook is idempotent: however often an event is delivered, the payer
\* is told once (a payer who also verifies is told again by verifyPayment).
NotifiedOnce == \A o \in Orders : notified[o] < Many

\* The bills the gateway has taken money for.
Funded == {b \in Bills : \E o \in Orders, p \in Pays :
                           orderFor[o] = b /\ Captured(o, p)}

\* The ledger of bills that all this implements.
Ledger == INSTANCE BillLedger WITH status <- bill, funded <- Funded

\* Bills only take the steps of the ledger.
ImplementsLedgerSafety == Ledger!Safety

\* And a bill the gateway took money for is eventually paid.
ImplementsLedger == Ledger!Spec
=============================================================================
