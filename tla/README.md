# Verification of the society management server

TLA+ models of the server in `src/server`, TLC configurations that check them
on small instances, and TLAPS proofs that hold for instances of any size. Paths
below are relative to `src/server/src` unless they start with `src/`.

| Module | Models | Runs | Proofs |
|---|---|---|---|
| `BillLedger` | what billing promises about a bill (abstract) | through `Payments` | `PaymentsProofs` (refinement) |
| `Payments` | `controllers/payment.controller.js`, overdue sweep of `billing.controller.js` | `payments_*` | `PaymentsProofs` |
| `Visitors` | `controllers/visitor.controller.js` | `visitors_safety` | `VisitorsProofs` |
| `GuardDuty` | shifts, patrols and checkpoints of `controllers/security.controller.js` | `guards_safety` | `SecurityProofs` |
| `Alerts` | SOS alerts and incident reports of `controllers/security.controller.js` | `alerts_live` | `SecurityProofs` |
| `OneTimeCodes` | `sendOtp`, `verifyOtp`, `forgotPassword` of `controllers/auth.controller.js` | `codes_safety` | `OneTimeCodesProofs` |
| `Accounts` | `register`, `login`, `logout` of `controllers/auth.controller.js`; `controllers/user.controller.js` | `accounts_safety` | `AccountsProofs` |
| `BillGeneration` | `generateBills` of `controllers/billing.controller.js` | `bills_safety` | `BillGenerationProofs` |
| `Complaints` | `controllers/complaint.controller.js` | `complaints_safety` | `ComplaintsProofs` |
| `StaffDesk` | `controllers/staff.controller.js` | `staff_safety` | `StaffDeskProofs` |

`MC<Module>` adds what only TLC needs: symmetry sets, and for `MCPayments` a
specification without browser callbacks.

## 1. The system

An Express server over MongoDB (mongoose), with Razorpay as payment gateway,
Socket.IO, and push, SMS and e-mail as outgoing services. All durable state is
in MongoDB. There are no transactions, no background jobs (`jobs/` is empty)
and no locks.

Four facts shape every model:

1. **Every `await` is an interleaving point.** A handler is a process whose
   steps lie between its awaits; any other request may run in between. A model
   keeps what a request has read in `req[r]`, where it may become stale.
2. **`save()` writes what changed since the read, and checks nothing.** No
   schema turns on optimistic concurrency. A field that is assigned the value
   it was loaded with is not written, so what a stale save does depends on what
   it had read; arrays are appended to with `$push`. Mongoose counts pushes in
   `__v` and makes one check of its own: an array element is edited only if
   `__v` is still what was read, else `save()` throws (`RejectEdit` in `StaffDesk`).
3. **A failure ends the handler, not the data.** `utils/asyncHandler.js` turns a
   throw into an error answer; a crash restarts the container
   (`src/docker-compose.yml`). Earlier writes stay. `Abort(r)` is either one: request
   `r` forgets everything at any of its awaits. A server that goes down is
   several `Abort`s. What a failed handler has already started goes on
   (`Promise.all` in `Alerts`, which has a `Crash` of its own).
4. **Log, notification and audit entries are separate writes after the main
   one.** They are awaited, so they can fail on their own. Pushes are wrapped in
   `try`/`catch`, socket emits are fire-and-forget: neither changes state.

### Components

| Component | State | Operations that write | Talks to | What makes it correct |
|---|---|---|---|---|
| Online payments | `Payment`, `Bill.status` | `createPaymentOrder`, `verifyPayment`, `handlePaymentWebhook` | Razorpay, notifications, audit | paid only for captured money; captured money gets the bill paid; nobody is told otherwise |
| Billing | `Bill` | `generateBills`, sweep in `listBills` | flats, audit | one bill per flat and period; paid is final |
| Gate | `Visitor`, `VisitorLog` | `preApproveVisitor`, `createWalkInVisitor`, `respondToVisitor`, `checkInVisitor`, `checkOutVisitor` | notifications | who enters was let in; the visit and its log agree |
| Guards | `Guard`, `PatrolLog`, `PatrolCheckpoint` | `updateGuardShift`, `logPatrolCheckpoint`, `createPatrolCheckpoint` | audit | status and shift history agree, every shift is audited; patrols are on shift but for stale saves |
| SOS and incidents | `EmergencyAlert`, `IncidentReport` | `raiseSosAlert`, `createIncidentReport` | notifications, sockets, audit | every responder is told, or the alert is not reported as sent |
| Staff desk | `Staff` (reviews, rating, wages), `Attendance` | `createStaff`, `recordAttendance`, `addStaffReview`, `addWageRecord` | audit | one open attendance and one review each, but for requests that overlap; the rating is that of the reviews |
| Complaints | `Complaint` | create, assign, status, comments, feedback | notifications | status, times and rating agree; residents are told what was stored |
| Accounts | `User` (otp, refreshTokens, approval), `Flat.tenantIds` | `sendOtp`, `verifyOtp`, `forgotPassword`, `register`, `login`, `logout`, `updateMe`, `approveUser` | MSG91, flats, audit | a code works once and is not tried without end; the last code works; a session ends by its own logout; approval reaches the flat |
| Society, flats | `Society`, `Tower`, `Flat` | creates, update, deactivation | - | referred to by the others |
| Expenses | `Expense` | create | - | none beyond a create |
| Notifications, audit, sockets | `Notification`, `AuditLog` | creates | push, e-mail | steps of the handlers that call them |
| Middleware, validators | - | - | - | decide whether a handler runs |

Components share state through MongoDB only: payments write the bill's status
that billing lists and sweeps; `generateBills` reads the flats;
`approveUser` writes the flat. Within the models, requests interact through the
documents and never through `req`.

### Behaviours that are hard to test

`PROJECT.json` lists them as hazards, each at its line. The recurring ones are:
decisions on a document that has changed before the save (gate, guards,
payments, registration); counters that are read, kept over an await and stored
(tries of a code, ratings); several writes of which only the first ones happen
(payments, bills, approval, codes); the gateway's late, repeated and reordered
events; parallel writes of which one fails (SOS alerts); and check-then-create
without or against a unique index (bills, attendance, registration).

## 2. Modules and code

An operation that the code performs between two awaits is one action. The
guards are the code's conditions and early returns; a request that is answered
with an error before it writes anything is a stutter and has no action.

**`Payments`.** `bill`, `payment`, `notified` and `audited` are the database;
`orderFor`, `attempt` and `acked` are what Razorpay knows, an external part
modelled from how the code uses it: it opens an order for a bill, captures at
most one attempt of an order (others may have failed before), signs what it
captured for the browser (`StartVerify`), and delivers signed events of an
attempt in any order and any number of times, after it was answered as well
(`Deliver`). `createPaymentOrder` is `StartOrder`, `OpenOrder`, `RecordPayment`;
`verifyPayment` is `StartVerify`, `VerifyReadsBill`, `VerifySaves`,
`MarkBillPaid`, `NotifyBillPayer`, `AuditVerify`; the webhook is
`AnswerDuplicate` or `StartWebhook`, then `WebhookSavesCapture` and
`WebhookReadsUnpaid` (or `WebhookReadsPaid`) up to `NotifyBillPayer`, or
`WebhookSavesOther`. `RejectMethod` is the schema's enum on `Payment.method`,
which makes `save()` throw. `PassDueDate` and `SweepOverdue` are time and `listBills`.

**`BillLedger`** is what all that should look like from outside: a bill is
pending, may lapse, is settled only when funded, then stays paid; and a funded
bill is eventually settled. `Payments` maps `status <- bill` and
`funded <-` the bills with a captured attempt.

**`Visitors`.** The document is its status, source, type and the set of its
times that are set. A request is named by the action it will log; it decides
in `StartRespond`, `StartCheckIn` or `StartCheckOut` on the document it reads, then
takes `Save`, `Log` and `Notify`. `answer`, `admitted`, `entries` and a request's `heard` are history, which no
guard reads (`Remember`): a rejection sets `residentResponseAt` as an approval does, so
the document alone does not say who let a visitor in. `PassTime` moves the validity window. The pass's OTP or QR
comparison is a choice of the environment: the pass fits or the request is a
stutter.

**`GuardDuty`.** `StartShift` and `StartPatrol` read and check the guard,
`SaveCheckIn`, `SaveCheckOut` and `SavePatrol` save it, `AuditShift` and
`LogPatrol` store what follows. `RejectScan` is a wrong checkpoint or token.
`CreateCheckpoint` and `AuditCheckpoint` are `createPatrolCheckpoint`; a scan needs
a checkpoint that exists, and checkpoints are never removed.
The guard's profile is there from the start: it is upserted with the defaults
`Init` gives it. Nothing in the code deactivates a guard, so `isActive` is left out.

**`BillGeneration`.** `StartGenerate` is `Flat.find` with the ids of the
request; `SkipBilled` and `FindMissing` are the two outcomes of `findOne`;
`CreateBill` and `Collide` those of `create()` under the unique index of `models/Bill.js`;
`AuditGeneration` ends the handler. `CreateFlat` adds flats meanwhile. `Flat.find` is not sorted, so
flats are visited in any order. `chosen` and `before` are history: what the
request found when it started.

**`Complaints`.** `Read` is `getScopedComplaint`; the request keeps the status it
saw, the status and the comment it will store. `updateComplaintStatus` is
`StartUpdate`, then `RejectAssignee` or `SaveStatus`, `Audit`, `Notify`;
`addComplaintComment` is `StartComment`, `SaveComment` and, for somebody else's
comment, `Notify`; `submitComplaintFeedback` is `StartFeedback`, `SaveFeedback`,
`Audit`. `resolvedAt` and `closedAt` are set or not: nothing removes them. An
update that finds no assignee has read only, so `RejectAssignee` just ends.

**`StaffDesk`.** An attendance entry is absent, open or closed. `StartCheckIn` and
`StartCheckOut` are the two `findOne`s of `recordAttendance`; `CreateAttendance`
and `SaveCheckOut` the writes. `StartReview` keeps the whole document as read, and
`AddReview` and `EditReview` write what differs from it: a push, or a positional
update under `SameVersion`, and the rating. The rating is kept as count and
total; the stored average, total / count to two decimals, tells totals of one
count apart up to 100 reviews. Which of several open entries a check-out finds
is a choice: it takes the latest `checkIn`, and entries that are open together come of
overlapping check-ins, whose times may be in any order. Status and assigned
flats never change after creation, so a request of the model has passed those
checks; a staff member's wage records are counted.

**`Alerts`.** `Raise` stores the alert, `Find` is the query for the responders of
the society, whose notifications then start together: `Storing(a)` are those
under way. `Tell` and `Lose` are the outcomes of one `Notification.create`; the
first `Lose` rejects the request (`Promise.all`), and the others go on. A
notification's push may take its time (`pushing`) and never fails the request.
`Broadcast` and `Audit` come when every promise has ended well. `Report` and
`AuditReport` are `createIncidentReport`, whose two endings differ in the audit entry alone.

**`OneTimeCodes`.** A code is the number of its generation, and stands for its hash
too. `StartSend`, `SaveCode` (or `Collide`, on the unique telephone number) and `Sms`
are `sendOtp`; `StartForgot`, `SaveReset`, `Sms`, `Audit` are `forgotPassword`. MSG91 is an
external part: it keeps the last code that it sent to a number, and confirms it
once. `StartVerify` reads the document and counts the attempt in the request's own
copy, `Confirm` and `Mismatch` are the comparison, `SaveAccept` and `SaveMiss` the
`save()` that follows: an accepted code removes the whole otp, a miss writes
`otp.attempts` alone. A `SaveMiss` without an otp leaves a counter
with no hash, as `save()` does. A code is typed in that has reached the telephone,
or a wrong one; `Expire` moves the ten minutes on.

**`Accounts`.** A refresh token is the pair of its user and the second it was signed
in, because nothing else goes into it (`services/token.service.js`), and
`account[u].tokens` is the set of the seconds. `register` is `StartRegister`,
`SaveRegister` (or `Collide`), `Sign`, `Store`, `Answer`; `login` is `StartLogin` and the
last three; `logout` is `StartLogout`, `Pull`, `Answer`. The cookie is a browser's, and so
the account that logs out need not be the one the cookie names. `approveUser` is
`StartApprove`, `SaveApproval`, `AddTenant`, `AuditApproval`; `updateMe` with a push token is
`StartDevice`, `PushDevice`. `Elsewhere` is a flat of another society, which `register` accepts
and `AddTenant` does not find. The admin's answer is in use in two forms: `isApproved`
stores what mongoose casts it to (`Cast`), the audit entry tests it as it came (`Truthy`), and
`isBoolean()` lets the texts "false" and "0" through, on which the two differ.

Definitions marked "Fault" in a comment are not part of a model: each is a
plausible mistake in the operation that follows it, used to confirm that the
property named for it in `PROJECT.json` does fail on faulty code.

## 3. Runs

| Run | Instance | Distinct states | Shows |
|---|---|---|---|
| `payments_safety` | 1 bill, 2 orders, 2 attempts, 2 requests, 1 abort | 814,865 | all safety properties, and that `Payments` implements the ledger's safety part |
| `payments_live` | 1 bill, 1 order, 2 attempts, 2 requests, no abort | 119,328 | the whole of `BillLedger`, its liveness included |
| `payments_crash` | 1 request, 1 abort | fails | one death after `payment.save()` loses the bill |
| `payments_duplicate` | 2 requests, webhooks only | fails | overlapping deliveries notify twice |
| `visitors_safety` | 1 visitor, 3 requests, 2 aborts | 1,280,296 | who enters was let in, and no answer is used up twice but by an overlap; document and log agree; only stale saves leave the lifecycle |
| `guards_safety` | 1 guard, 1 checkpoint, 3 requests, 5 shift entries, 2 scans, 2 aborts | 697,328 | status, history, scans and audit agree; only stale saves repeat an action or patrol off shift |
| `bills_safety` | 2 flats, 2 periods, 2 requests, 1 abort | 55,075 | one bill each, reported once, audited only when complete |
| `complaints_safety` | 1 complaint, 1 comment, 2 requests, 2 aborts | 2,260,995 | status, times, rating and reports agree whatever saves overlap |
| `staff_safety` | 1 staff member, 1 flat, 3 entries, 2 reviewers, 2 ratings, 2 requests, 1 abort | 6,152,143 | repetitions come only of overlaps; the rating lags behind and heals |
| `codes_safety` | 1 number, 3 requests, 2 codes, 2 tries a code, 3 attempts, 1 abort | 6,429,089 | codes work once, tries are bounded, nobody is locked out by another code's tries |
| `accounts_safety` | 1 user, 1 flat and one elsewhere, 2 browsers, 2 requests, 2 seconds, 1 abort | 7,203,876 | sessions end by their logouts; approval reaches the flat but for stale saves |
| `alerts_live` | 2 alerts, 3 responders, 1 report, failing writes, a crash | 200,704 | who was found is told, whatever fails for the others |

The two runs that fail are the findings of `PROJECT.json`: each checks what
the documentation or a test says and shows a run of the code that does otherwise.

Four more races and slips have no run of their own, because no document promises their
absence; the passing properties say exactly how far they go. A late
`payment.failed` overwrites the `captured` of a settled order
(`InvoiceShowsPayment` excepts orders with a failed attempt). A stale rejection leaves a
visitor inside who can no longer be checked out, and a stale patrol puts a guard on
patrol who has checked out (`FreshSavesFollowLifecycle` and
`FreshSavesFollowShifts` allow both to stale saves only). A rejection sent as the
text "false" is stored as one and audited as an approval (`AuditApproval`; `ApprovalReachesFlat`
excepts that answer, and no other).

### Properties

`Payments`: `CapturesAreReal` (a captured `Payment` names the attempt captured for
that order, and no bill is paid before that evidence is stored, whatever
dies), `InvoiceShowsPayment` (the invoice of a paid bill finds its
payment, unless an attempt on the order failed), `ConfirmedOnlyIfPaid` (payer and audit log
are told the truth), `RecordedCaptureSettles` (a stored event id has a paid
bill or a handler on its way there, unless a request died),
`ImplementsLedgerSafety` (which includes that neither the sweep nor a stale handler takes a
payment back) and `ImplementsLedger`.

`Visitors`: `AdmittedByResident` (a check-in that was saved had read while an approval was the last
answer stored, so a visitor refused by then stays out, and a refusal is too late only for a
check-in on its way; the status that an approval made lets in no more check-ins than overlap), `VisitOnRecord` (times, status and log agree, and the log
claims nothing that did not happen), and the
action property `FreshSavesFollowLifecycle`, which says exactly when the
lifecycle can be left: only by the save of a handler whose document changed
after it read it.

`GuardDuty`: `StatusIsBacked` (status, shift history and scans), `ShiftsAreAudited` (every
entry has its audit entry, but for requests on the way or dead), and the action
property `FreshSavesFollowShifts`.

`Alerts`: `BroadcastMeansTold` (an alert goes out to the sockets and the audit trail only
when each responder found has his notification), and the liveness property
`EveryResponderIsTold` (a responder that was found is told in the end unless his
own notification fails or the process crashes, and every alert comes to an answer).

`OneTimeCodes`: `AcceptedOnce` (a code that was accepted before a request began is not accepted
by it, although two places know the code), `TriesBounded` (overlapping
verifications overwrite each other's count, so a code is tried more often than
`MaxTries`: fewer than `choose(MaxTries + n, n)` times with `n` requests, a request that dies
gaining one), `LockedOutByTries` (a code that refuses has been tried
`MaxTries` times, unless it was stored during a verification of an older one),
`LatestCodeWorks` (the last code that arrived is confirmed by MSG91 even if another one is
stored).

`Accounts`: `SessionsEndByLogout`, `RepetitionsOverlap` (an account is
taken over, a push token stored twice, by requests that overlap only: no more often than
requests are served at once), and
`ApprovalReachesFlat` (an approved resident is missing from the flat only after a request that died
between the two writes, or a save over what it had not seen; no approval is
audited before its flat has the tenant, unless the answer was the text of a false). Note what is *not* promised: a logout
removes every session of its account that began in the same second, and a logout with the
cookie of another account removes nothing and clears the cookie.

`BillGeneration`: `ChargedAndReportedOnce`, `GenerationCovers`, and the
action properties `CollisionIsARace` (a rerun that completes a period is never
stopped by the bills it finds) and `NothingLost` (a bill no audit entry counts
is one of a request that died or collided). Note what is *not* promised: a generation of
a few flats that overlaps one of all flats can stop it (`Collide`), and the rest
stays unbilled until somebody generates again.

`Complaints`: `TimesTellTheStory` (two saves of different statuses may overlap, and
the one that wins must still have its time; a rating follows a resolution),
`ToldIsTrue`, and the action property `FeedbackCloses`. Note what is *not* promised:
feedback that was read on a resolved complaint may be saved after it was reopened.
If it was read as resolved, it closes the reopened complaint; if it was read as
closed, it rates an open one.

`StaffDesk`: `RepetitionsOverlap` (find-then-create
repeats itself only among requests that overlap, so open entries and a resident's reviews never exceed
the number of requests served at once, however long the system runs),
`RatingNeverOvercounts`, and the action property
`FreshReviewCounts` (a review that overlaps no other puts right what overlapping
ones left wrong).

### Bounds

* `Requests`: two requests show every race of a read with one other save; three
  let a stale save meet a history of two others (gate, guards and codes). `Payments`
  with three requests exceeds what TLC can do in minutes; the proofs cover it.
* Two orders of one bill are what it takes for two open orders, two captures and
  a bill that is paid twice. Bills do not interact except through orders, so one
  is enough. Two attempts give a failed and a captured one on one order.
* `MaxAborts` counts requests that die; it bounds the run, not the code. Two are
  enough for the server to go down under two requests.
* `MaxLogs` and `MaxScans` cap what grows without bound. Five entries allow two
  stale repetitions in a history.
* `MaxTries = 2` stands for the five of the code; `MaxAttempts` is one more, so that a
  code refuses, and refuses again. `MaxCodes = 2`: one code is sent, tried and wiped
  while another is. The bound of `TriesBounded` is reached in the run with three requests.
* `MaxNow = 1`: two seconds are enough for two sessions that share a token and two that do
  not. Two browsers hold them.
* Three responders: one who is lost, one who was told before that, one after it.
  Two alerts overlap.
* `Many = 2`: notifications are counted as none, one, or more.
* Visitors, guards, complaints and staff members do not interact: one each. Three
  attendance entries are one more than two requests may leave open; `MaxReviews`
  stops new reviewers, not edits, at two, and an overlap takes the array to three.
  One wage record is enough to make an edit's version stale. One checkpoint tells
  a scan of something from a scan of nothing. Two flats and two periods show
  a half-done loop and a lookup by the wrong period.

Symmetry is used for safety runs only, over sets whose elements the model treats
alike (in `payments_safety`, `OddMethod` is empty).

`CHECK_DEADLOCK FALSE` is set in six configurations, where a run really ends.
A visitor's story does (`visitors_safety`): once everybody is out and nobody
asks, no handler has anything to do; so do the two alerts and the report of `alerts_live`. The bounds end the histories of
`guards_safety` (entries), `codes_safety` (codes) and `accounts_safety` (the process's
seconds and requests that die). In `payments_crash` the only order id may be used up by the request that
died.

### Fairness

Two specifications assume any. `FairSpec` of `Payments`:

* `WF_vars(Continue(r))`: a request that is being served takes its next step,
  as Node's event loop and MongoDB's answers ensure.
* `SF_vars(e \notin acked /\ Deliver(e))`: Razorpay repeats an event until it is
  answered with a 2xx. It is strong because a delivery needs a free request, and
  the others may occupy them again and again.

Nothing is assumed of payers, callbacks, due dates or listings. `payments_live` also assumes
that no request dies (`payments_crash` shows that this is needed), that events
carry an `id`, and that Razorpay reports methods of the schema's enum
(`OddMethod = {}`): with an odd method every delivery of the event fails in
`save()`, and the bill stays unpaid unless the browser calls back.

`AlertFairSpec` of `Alerts` assumes weak fairness of each step that follows a raised alert,
outcome left open: the query ends (`Find` or `FindFails`), each notification does
(`Tell` or `Lose`), each push does (`PushEnds`: the call is awaited in a
`try`/`catch`, and answers with an error or a timeout at worst), the answers are
served (`Broadcast`, `Audit` or `AuditFails`). No outcome is assumed, and a crash may
come at any time.

## 4. Proofs

All theorems hold for any finite or infinite sets of documents and requests
(`Visitors`, `StaffDesk`, `GuardDuty`, `Accounts` and `OneTimeCodes` need finitely many requests, to count them) and any bounds. They use the constants' named assumptions only: bounds are naturals,
`None` is not an element of the sets it is used beside, `OddMethod` is a
set of attempts.

Each module follows one pattern. The safety properties are not inductive: they
say nothing of what a suspended request still holds. The inductive invariant
`IInv` adds the *knowledge* of every request, by where it stands, and the
argument is always the same: what it has read may be stale, but the part it
relies on is **stable**, because no handler ever undoes it.

* `PaymentsProofs`. `DocumentOK`: once a `Payment` names an attempt, that one was captured
  for its order, for good. `ConfirmingOK` and `ProgressOK`: a request that marks,
  notifies or audits belongs to an order that is settled (and, from `notify` on, to a paid
  bill); a status it has seen was once true, so leaving it unwritten does no harm. `GatewayOK`:
  one capture per order. From `IInv`: `TypeCorrect`, `RealCaptures`,
  `InvoicesShowPayment`, `ConfirmationsAreTrue`; with one more step each
  `RecordedCapturesSettle` (inductive relative to `IInv`: only `Abort` takes away
  an in-flight handler, and it makes `aborts` positive) and `PaidStaysPaid`.
  `Refinement` shows `Spec => Ledger!Safety`: a captured attempt is `Fund`, the sweep is
  `Lapse`, `MarkBillPaid` is `Settle` (its order has a captured attempt) or a stutter,
  all else leaves status and funds alone.
* `VisitorsProofs`. A check-in relies on approval and validity, a check-out on entry:
  responses and entry times are never removed, and `early` never comes back, so
  a stale decision is still a right one. While the status is `approved` the last answer is an approval
  (every rejection writes the status), and `heard` keeps that for the check-in that read it. `EInv` counts:
  a check-in that is saved ends the status that let it begin, so those that were saved took
  their places from those that had read (`Crowd`, `EntrySteps`). `EntriesAreApproved` (`AdmittedByResident`) joins the two. `VisitsOnRecord` joins what is proved of document and log. `LifecycleUnlessStale` follows from what was
  checked at the read.
* `SecurityProofs` is about both models of `security.controller.js`, `GuardDuty` and `Alerts` (hence the
  names of the latter: `AlertInit`, `AlertNext`, `AlertSpec`). Of the guards: status and last entry are saved together, and who has checked in has done so for ever;
  so the check that a patrol request made stays true in the part
  `StatusFollowsLog` needs. That the last entry still is a check-in is *not* stable,
  and `ShiftsUnlessStale` says no more than the code can keep. `ShiftsAudited` counts: a step adds an entry and a
  request that owes an audit, or trades that request for an audit or for a death, so
  audits, debts and deaths stay in balance with the entries (`AuditingStep`, `BalanceKept`).
  Of the alerts: handlers of different alerts share nothing, so `AlertInv` goes alert by alert (`AlertByAlert`,
  `AlertKept`): a responder whose push is under way or done has his notification, and a handler that has come to its broadcast has
  lost none. `BroadcastsAreTrue` follows, and the action property `SilenceIsForGood`:
  what was answered with an error is not heard of later, although the notifications that the rejected `Promise.all` left behind go on.
* `BillGenerationProofs`. Bills are never removed; what a request skipped
  or made has its bill for ever, and the flat it is about to bill had none when it
  started (`before`), which gives `CollisionIsARace`. The unique index is the only thing
  that `ChargedAndReportedOnce` (`OnceOnly`) rests on. `LossesAreFailures` (`NothingLost`) goes through the
  actions: only the end of a request takes a bill out of `Making`, and an audit entry that ends one
  reports the bills it takes out.
* `ComplaintsProofs`. `DocumentGrows` is the lemma everything rests on: no step takes a time, a
  comment or the rating away. So what a request has read of them stands when it saves
  (`RequestStands`), although the status may not: feedback relies on the *times* of a
  resolution, which is why `TimesBearOut` holds although a complaint may be reopened.
* `StaffDeskProofs` has four invariants. Those of attendance (`AInv`) and of reviews
  (`RInv`) go by one argument: as long as an entry is open, or a review of the
  resident is there, no request joins those that are about to create another, so
  `Crowd` (those created plus those about to be) only shrinks from the number of requests. `Repetitions` follows from both.
  `RInv` leaves ratings out: that a sum is a number takes an induction, which the library states with an
  operator for a parameter. Here it is one over a set (`SetInduction`, from the least
  element of what is left): it gives the fold of `RatingOf` its recursion (`FoldExists`), then partial sums
  (`PartialSums`) and their type (`RatingType`), and so `TInv`. `NInv` says that a document has
  only `Grown` since it was read; so an edit on an unchanged `__v` counts exactly the
  reviews that are there, a push counts one more than it saw, and a first review that is alone
  always writes its rating (`Ratings`). `FreshReviews` needs `RInv` alone.
* `OneTimeCodesProofs` has five parts, each inductive with those before it: types and what requests hold
  (`TInv`), which codes have been used (a used code is neither stored, nor kept by MSG91,
  nor about to be, but for verifications that overlap its acceptance: `CodesWorkOnce`), what `attempts` rests on (each count is backed by as many
  tries, unless the code is `crowded`: `LockedOnlyByTries`), who knows the latest code (`LatestCodes`), and how often a
  code can be tried (`TriesAreBounded`), with n requests and M for `MaxTries`:
  * A request reads `attempts`, may compare if it was below M, and later writes what it read plus 1 over whatever
    is there: a late write sets the count back, and tries are lost. What cannot be set back is the *rank* of the
    counts, the stored one `a` and those on their way (`Rank`): the verifications on their way that may compare,
    and for each level x up to a+1 the number B(k, M+1-x), where k requests will not write less than x.
    Reading `a` raises it by 1 if the request may compare (`RankRead`); writing v does not lower it
    (`RankSave`), because the level v+1, now with one request more above it, outweighs all the
    levels above it (`TailBound`, from Pascal's rule).
  * The rank starts at B(n, M) or more, whatever verifications of older codes are on their way (`RankFresh`), and stays below
    B(n+1, M) (`RankBound`). The difference is choose(M+n, n) (`RankRange`): the tries that fit in between are fewer.
  * A request that dies never writes what it counted, which may lower the rank. So `LiveOK` is stated for every set D of requests that
    are forgotten: the tries are at most what the rank without D says, plus those of D that may compare, plus the deaths.
    A death is then a member of D that is gone, and costs 1 (`LiveDropped`).
  * With one request at a time the bound is M (`LimitHoldsAlone`): the limit of five tries is exact as
    long as verifications do not overlap.

  `choose` is the community modules' quotient of factorials. That it is exact and follows Pascal's rule is proved
  (`FactorialsDivide`, `Pascal`), and so is that `factorial` is the function its recursive definition says
  (`FactorialDef`): an induction is one over a set of naturals (`SetInduction`), and a
  recursion the diagonal of its finite beginnings (`Recursion`).
* `AccountsProofs`. `TInv` says what a request holds by where it stands; `Sessions` and
  `Approvals` are then one case per action, with `NobodyStranded` for the actions that
  leave everybody's flat alone. `Repetitions` reuses the argument of `StaffDeskProofs`:
  once a password or a push token is there nobody joins (`Crowds`).

**Only model-checked:** liveness (`ImplementsLedger`, `EveryResponderIsTold`: fairness and `ENABLED` are
out of the prover's reach; the safety part of `ImplementsLedger` is proved by `Refinement`), and the two findings. Every other property of
a passing run is a theorem.

## 5. Not modelled

* Expenses, society and tower records: single creates and updates that nothing
  modelled here reads back. Deactivating a
  society changes a flag that no handler consults.
* `refreshToken`, `login`'s check of `isActive` and the expiry of a refresh token: they only
  read. Nothing takes expired tokens out of `refreshTokens`, and no bound on it is stated. A password reset
  stores its hash and no handler ever reads it, so `passwordReset` ends there. Rejecting a user
  (`approveUser` with `isApproved: false`) takes him out of no flat; the model keeps it so.
* The seed script: every write is an upsert, run by hand beside no traffic.
* Middleware and validators: a request in a model has passed them.
* Push, e-mail and socket emits: best effort, no state. Texts, PDF layout, amounts
  and pagination: data that no property here tells apart.
* Cryptography (HMAC, QR and OTP hashes): a signature or token is right or the
  request is refused.
* The refund of a second capture: nothing in the code attempts one; the model lets
  it happen.

## 6. Plan

In order of weight. Each module is to be one action per step between awaits, parameters
as constants with assumptions, no recursive operator, and a proofs module of its own.

1. `BillLedger`, `Payments` - done.
2. `Visitors` - done.
3. `GuardDuty` - done, checkpoints and the proof about audits included;
   `BillGeneration` - done.
4. `OneTimeCodes`, `Accounts` - done.
5. `StaffDesk` - done.
6. `Complaints` - done.
7. `Alerts` - done.
8. Composition: `BillGeneration` feeding `Payments` (bills that appear while
   others are paid), with `BillLedger` extended by the creation of a bill.
9. Proofs: every safety property of a run - done. Left: that the bound of `TriesBounded` is reached, for every n.
10. Pure helpers as operators against reference definitions: pagination bounds
    (`utils/pagination.js`), duration parsing (`services/token.service.js`), the
    average and the totals.
