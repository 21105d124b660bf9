------------------------------ MODULE Visitors ------------------------------
(***************************************************************************)
(* The gate: preApproveVisitor, createWalkInVisitor, respondToVisitor,     *)
(* checkInVisitor and checkOutVisitor of visitor.controller.js, served     *)
(* concurrently.  Each handler reads the Visitor document, checks it, and  *)
(* later saves what it decided; the document may have changed in between,  *)
(* and save() does not look.  It writes only the fields it changed, so a   *)
(* status that is assigned the value it was read with is not written.      *)
(***************************************************************************)
EXTENDS Naturals, FiniteSets

CONSTANTS Visitors,   \* the Visitor documents that may be created
          Requests,   \* the requests that are served concurrently
          MaxAborts,  \* bound on the requests that die half way
          None        \* absent

ASSUME BoundAssumption == MaxAborts \in Nat
ASSUME NoneAssumption == None \notin Visitors
ASSUME FiniteAssumption == IsFiniteSet(Requests)

VARIABLES visitor,  \* visitor[v]: the document, with status "none" before it
          window,   \* where now is with respect to validFrom and validUntil
          logged,   \* logged[v]: the actions with a VisitorLog entry
          told,     \* told[v]: what the residents have a Notification about
          req,      \* req[r]: where request r stands
          aborts,
          answer,   \* history: the last response that a resident stored
          admitted, \* history: the answers that saved check-ins had found
          entries   \* history: check-ins saved since the status was made "approved"

db      == <<visitor, logged, told>>
history == <<answer, admitted, entries>>
vars    == <<visitor, window, logged, told, req, aborts, history>>

VisitorStatus == {"pending", "approved", "rejected", "checked_in",
                  "checked_out", "left_at_gate"}
Window  == {"early", "open", "over"}
Times   == {"residentResponseAt", "entryTime", "exitTime"}
Op      == {"pre_approved", "walk_in_created", "approved", "rejected",
            "checked_in", "checked_out"}
Subject == {"new_request", "checked_in"}
Answer  == {"none", "approved", "rejected", "left_at_gate"}

VisitorDoc == [status : VisitorStatus \cup {"none"},
               source : {"pre_approved", "walk_in"},
               visitorType : {"delivery", "guest"},
               times : SUBSET Times]  \* the times that are set

NoVisitor == [status |-> "none", source |-> "walk_in", visitorType |-> "guest",
              times |-> {}]

\* A request is named by the action it logs; `seen` is the status it has read
\* and `next` the one it saves.  `heard` is history: the answer at its read.
ReqState == [op : Op \cup {"none"}, at : {"idle", "save", "log", "notify"},
             v : Visitors \cup {None}, seen : VisitorStatus, next : VisitorStatus,
             heard : Answer]

Idle == [op |-> "none", at |-> "idle", v |-> None, seen |-> "pending",
         next |-> "pending", heard |-> "none"]

TypeOK == /\ visitor \in [Visitors -> VisitorDoc]
          /\ window \in [Visitors -> Window]
          /\ logged \in [Visitors -> SUBSET Op]
          /\ told \in [Visitors -> SUBSET Subject]
          /\ req \in [Requests -> ReqState]
          /\ aborts \in 0..MaxAborts
          /\ answer \in [Visitors -> Answer]
          /\ admitted \in [Visitors -> SUBSET Answer]
          /\ entries \in [Visitors -> Nat]

Init == /\ visitor = [v \in Visitors |-> NoVisitor]
        /\ window = [v \in Visitors |-> "open"]
        /\ logged = [v \in Visitors |-> {}]
        /\ told = [v \in Visitors |-> {}]
        /\ req = [r \in Requests |-> Idle]
        /\ aborts = 0
        /\ answer = [v \in Visitors |-> "none"]
        /\ admitted = [v \in Visitors |-> {}]
        /\ entries = [v \in Visitors |-> 0]

-----------------------------------------------------------------------------
Idling(r) == req[r].at = "idle"
Finish(r) == req' = [req EXCEPT ![r] = Idle]
Goto(r, at) == req' = [req EXCEPT ![r].at = at]

\* The handler goes on after its first await.
Begin(r, op, at, v, seen, next) ==
    req' = [req EXCEPT ![r] = [op |-> op, at |-> at, v |-> v, seen |-> seen,
                               next |-> next, heard |-> answer[v]]]

\* preApproveVisitor: Visitor.create, approved at once by its resident.  The
\* validity window is the resident's choice.
PreApprove(r, v, type, w) ==
    /\ Idling(r)
    /\ visitor[v].status = "none"
    /\ visitor' = [visitor EXCEPT ![v] =
                     [status |-> "approved", source |-> "pre_approved",
                      visitorType |-> type, times |-> {"residentResponseAt"}]]
    /\ window' = [window EXCEPT ![v] = w]
    /\ Begin(r, "pre_approved", "log", v, "approved", "approved")
    /\ answer' = [answer EXCEPT ![v] = "approved"]
    /\ UNCHANGED <<logged, told, aborts, admitted, entries>>

\* createWalkInVisitor: Visitor.create, pending, valid from now on.
CreateWalkIn(r, v, type) ==
    /\ Idling(r)
    /\ visitor[v].status = "none"
    /\ visitor' = [visitor EXCEPT ![v] =
                     [status |-> "pending", source |-> "walk_in",
                      visitorType |-> type, times |-> {}]]
    /\ window' = [window EXCEPT ![v] = "open"]
    /\ Begin(r, "walk_in_created", "log", v, "pending", "pending")
    /\ UNCHANGED <<logged, told, aborts, history>>

\* respondToVisitor reads and checks: a decision may be revised while it is
\* "approved".
Decisions(doc) == {"approved", "rejected"} \cup
                  (IF doc.visitorType = "delivery" THEN {"left_at_gate"} ELSE {})

\* Fault: a decision may be revised at any time.
StartRespondAnyTime(r, v, d) ==
    /\ Idling(r)
    /\ visitor[v].status # "none"
    /\ d \in Decisions(visitor[v])
    /\ Begin(r, IF d = "rejected" THEN "rejected" ELSE "approved", "save", v,
             visitor[v].status, d)
    /\ UNCHANGED <<db, window, aborts, history>>

StartRespond(r, v, d) ==
    /\ Idling(r)
    /\ visitor[v].status \in {"pending", "approved"}
    /\ d \in Decisions(visitor[v])
    /\ Begin(r, IF d = "rejected" THEN "rejected" ELSE "approved", "save", v,
             visitor[v].status, d)
    /\ UNCHANGED <<db, window, aborts, history>>

\* Fault: that the resident has answered is looked at, and not what.
StartCheckInAnswered(r, v, showsPass) ==
    /\ Idling(r)
    /\ "residentResponseAt" \in visitor[v].times
    /\ window[v] = "open"
    /\ showsPass => visitor[v].source = "pre_approved"
    /\ showsPass \/ visitor[v].source = "walk_in"
    /\ Begin(r, "checked_in", "save", v, visitor[v].status, "checked_in")
    /\ UNCHANGED <<db, window, aborts, history>>

\* checkInVisitor reads and checks.  Only a pre-approved visitor has been
\* given an OTP or QR token to show; a walk-in needs the resident's response.
StartCheckIn(r, v, showsPass) ==
    /\ Idling(r)
    /\ visitor[v].status = "approved"
    /\ window[v] = "open"
    /\ showsPass => visitor[v].source = "pre_approved"
    /\ showsPass \/ (/\ visitor[v].source = "walk_in"
                     /\ "residentResponseAt" \in visitor[v].times)
    /\ Begin(r, "checked_in", "save", v, "approved", "checked_in")
    /\ UNCHANGED <<db, window, aborts, history>>

\* Fault: who never came in can be checked out.
StartCheckOutApproved(r, v) ==
    /\ Idling(r)
    /\ visitor[v].status \in {"approved", "checked_in"}
    /\ Begin(r, "checked_out", "save", v, visitor[v].status, "checked_out")
    /\ UNCHANGED <<db, window, aborts, history>>

\* checkOutVisitor reads and checks.
StartCheckOut(r, v) ==
    /\ Idling(r)
    /\ visitor[v].status = "checked_in"
    /\ Begin(r, "checked_out", "save", v, "checked_in", "checked_out")
    /\ UNCHANGED <<db, window, aborts, history>>

TimeOf(op) == CASE op = "checked_in"  -> "entryTime"
                [] op = "checked_out" -> "exitTime"
                [] OTHER              -> "residentResponseAt"

\* visitor.save(): the time of what is done, and the status if it was changed.
Saved(doc, q) ==
    [doc EXCEPT !.status = IF q.next = q.seen THEN @ ELSE q.next,
                !.times = @ \cup {TimeOf(q.op)}]

Approves(old, new) == old.status # "approved" /\ new.status = "approved"

\* What history keeps of the save.
Remember(q) ==
    /\ answer' = [answer EXCEPT ![q.v] =
                    IF q.op \in {"approved", "rejected"} THEN q.next ELSE @]
    /\ admitted' = [admitted EXCEPT ![q.v] =
                      IF q.op = "checked_in" THEN @ \cup {q.heard} ELSE @]
    /\ entries' = [entries EXCEPT ![q.v] =
                     IF Approves(visitor[q.v], visitor'[q.v]) THEN 0
                     ELSE IF q.op = "checked_in" THEN @ + 1 ELSE @]

Save(r) ==
    /\ req[r].at = "save"
    /\ visitor' = [visitor EXCEPT ![req[r].v] = Saved(@, req[r])]
    /\ Goto(r, "log")
    /\ Remember(req[r])
    /\ UNCHANGED <<window, logged, told, aborts>>

\* Fault: the status is logged in place of the action.
LogStatus(r) ==
    /\ req[r].at = "log"
    /\ logged' = [logged EXCEPT ![req[r].v] = @ \cup {visitor[req[r].v].status}]
    /\ Finish(r)
    /\ UNCHANGED <<visitor, window, told, aborts, history>>

\* visitorLogService.record; a walk-in and a check-in then notify the flat.
Log(r) ==
    /\ req[r].at = "log"
    /\ logged' = [logged EXCEPT ![req[r].v] = @ \cup {req[r].op}]
    /\ IF req[r].op \in {"walk_in_created", "checked_in"}
       THEN Goto(r, "notify") ELSE Finish(r)
    /\ UNCHANGED <<visitor, window, told, aborts, history>>

\* notifyFlatResidents.
Notify(r) ==
    /\ req[r].at = "notify"
    /\ told' = [told EXCEPT ![req[r].v] = @ \cup
                  {IF req[r].op = "checked_in" THEN "checked_in" ELSE "new_request"}]
    /\ Finish(r)
    /\ UNCHANGED <<visitor, window, logged, aborts, history>>

\* The request dies at one of its awaits.
Abort(r) ==
    /\ ~Idling(r)
    /\ aborts < MaxAborts
    /\ aborts' = aborts + 1
    /\ Finish(r)
    /\ UNCHANGED <<db, window, history>>

\* Time passes validFrom, then validUntil.
PassTime(v) ==
    /\ visitor[v].status # "none"
    /\ window[v] # "over"
    /\ window' = [window EXCEPT ![v] = IF @ = "early" THEN "open" ELSE "over"]
    /\ UNCHANGED <<db, req, aborts, history>>

Arrive(r) == \E v \in Visitors :
    \/ \E t \in {"delivery", "guest"}, w \in Window : PreApprove(r, v, t, w)
    \/ \E t \in {"delivery", "guest"} : CreateWalkIn(r, v, t)
    \/ \E d \in VisitorStatus : StartRespond(r, v, d)
    \/ \E p \in BOOLEAN : StartCheckIn(r, v, p)
    \/ StartCheckOut(r, v)

Continue(r) == Save(r) \/ Log(r) \/ Notify(r)

Next == \/ \E r \in Requests : Arrive(r) \/ Continue(r) \/ Abort(r)
        \/ \E v \in Visitors : PassTime(v)

Spec == Init /\ [][Next]_vars

-----------------------------------------------------------------------------
(* Properties.                                                             *)

Responded(v) == "residentResponseAt" \in visitor[v].times
Entered(v)   == "entryTime" \in visitor[v].times
Exited(v)    == "exitTime" \in visitor[v].times

\* Nobody gets in on less than a resident's (or admin's) approval, and nobody
\* before the pass became valid.  What counts is the answer when the guard's
\* check-in reads: it was an approval, and the last answer stored, so a visitor
\* refused by then stays out, and a refusal can only come too late for a
\* check-in that is on its way.  And an approval is used up: the status that it
\* made "approved" lets in no more check-ins than requests that overlap.
AdmittedByResident ==
    \A v \in Visitors :
        /\ Entered(v) => admitted[v] = {"approved"} /\ window[v] # "early"
        /\ entries[v] <= Cardinality(Requests)

\* The times of a visit are consistent: who is out was in, and the status
\* says "checked_out" only with an exit time, "checked_in" with an entry time.
VisitIsConsistent ==
    \A v \in Visitors :
        /\ Exited(v) => Entered(v)
        /\ visitor[v].status = "checked_out" => Exited(v)
        /\ visitor[v].status = "checked_in" => Entered(v)

\* The log and the residents are told only what the document had recorded
\* first.
LogIsTrue ==
    \A v \in Visitors :
        /\ "checked_in" \in logged[v] \cup told[v] => Entered(v)
        /\ "checked_out" \in logged[v] => Exited(v)
        /\ logged[v] \cap {"approved", "rejected", "pre_approved"} # {}
              => Responded(v)

\* The visit can be told from the record: the document's times back its status,
\* and both back the log and what the flat was told, although document, log
\* and notification are written one after the other and saves overlap.
VisitOnRecord == VisitIsConsistent /\ LogIsTrue

\* The life of a visitor that README.md and the guards of the handlers give.
Lifecycle == {<<"none", "pending">>, <<"none", "approved">>,
              <<"pending", "approved">>, <<"pending", "rejected">>,
              <<"pending", "left_at_gate">>, <<"approved", "rejected">>,
              <<"approved", "left_at_gate">>, <<"approved", "checked_in">>,
              <<"checked_in", "checked_out">>}

\* A handler whose document did not change under it follows the lifecycle:
\* only a stale save can leave it.
FreshSavesFollowLifecycle ==
    [][\A v \in Visitors :
          \/ visitor'[v].status = visitor[v].status
          \/ <<visitor[v].status, visitor'[v].status>> \in Lifecycle
          \/ \E r \in Requests : /\ req[r].at = "save" /\ req'[r].at = "log"
                                 /\ req[r].v = v
                                 /\ req[r].seen # visitor[v].status]_vars
=============================================================================
