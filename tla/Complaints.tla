----------------------------- MODULE Complaints -----------------------------
(***************************************************************************)
(* complaint.controller.js: createComplaint, updateComplaintStatus,        *)
(* addComplaintComment and submitComplaintFeedback, served concurrently.   *)
(* A handler reads the complaint, checks it, and saves it an await or more *)
(* later; save() writes the fields that differ from what was read, and     *)
(* pushes comments.  The times resolvedAt and closedAt are never removed.  *)
(***************************************************************************)
EXTENDS Naturals

CONSTANTS Complaints, \* the Complaint documents that may be created
          Comments,   \* the comments that may be written
          Requests,   \* the requests that are served concurrently
          MaxAborts,  \* bound on the requests that die half way
          None        \* absent

ASSUME BoundAssumption == MaxAborts \in Nat
ASSUME NoneAssumption == None \notin Complaints \cup Comments

VARIABLES complaint, \* complaint[c]: the document, with status "none" before it
          told,      \* told[c]: what the resident has a Notification about
          audited,   \* audited[c]: the audit entries about it
          req,       \* req[r]: where request r stands
          aborts

db   == <<complaint, told, audited>>
vars == <<complaint, told, audited, req, aborts>>

Status == {"open", "in_progress", "resolved", "closed"}
Times  == {"resolvedAt", "closedAt"}
Op     == {"create", "status", "comment", "feedback"}

\* The resident is told of a status or of a comment, and can tell which.
ASSUME CommentAssumption == Comments \cap Status = {}

ComplaintDoc == [status : Status \cup {"none"}, times : SUBSET Times,
                 rated : BOOLEAN, comments : SUBSET Comments]

NoComplaint == [status |-> "none", times |-> {}, rated |-> FALSE, comments |-> {}]

\* seen: the status as it was read; next: the one the admin asks for; comment:
\* the one to push, if any; loud: is its author somebody else than the
\* resident, and the comment not internal?
ReqState == [op : Op \cup {"none"}, at : {"idle", "save", "audit", "notify"},
             c : Complaints \cup {None}, seen : Status, next : Status,
             comment : Comments \cup {None}, loud : BOOLEAN]

Idle == [op |-> "none", at |-> "idle", c |-> None, seen |-> "open",
         next |-> "open", comment |-> None, loud |-> FALSE]

TypeOK == /\ complaint \in [Complaints -> ComplaintDoc]
          /\ told \in [Complaints -> SUBSET (Status \cup Comments)]
          /\ audited \in [Complaints -> SUBSET Op]
          /\ req \in [Requests -> ReqState]
          /\ aborts \in 0..MaxAborts

Init == /\ complaint = [c \in Complaints |-> NoComplaint]
        /\ told = [c \in Complaints |-> {}]
        /\ audited = [c \in Complaints |-> {}]
        /\ req = [r \in Requests |-> Idle]
        /\ aborts = 0

-----------------------------------------------------------------------------
At(r, op, at) == req[r].op = op /\ req[r].at = at
Idling(r) == req[r].at = "idle"
Finish(r) == req' = [req EXCEPT ![r] = Idle]
Goto(r, at) == req' = [req EXCEPT ![r].at = at]
Doc(r) == complaint[req[r].c]

\* A comment nobody has written yet.
Fresh(k) == /\ \A c \in Complaints : k \notin complaint[c].comments
            /\ \A r \in Requests : req[r].comment # k

\* createComplaint, which is audited next.
CreateComplaint(r, c) ==
    /\ Idling(r)
    /\ complaint[c].status = "none"
    /\ complaint' = [complaint EXCEPT ![c].status = "open"]
    /\ req' = [req EXCEPT ![r] = [Idle EXCEPT !.op = "create", !.at = "audit", !.c = c]]
    /\ UNCHANGED <<told, audited, aborts>>

\* getScopedComplaint, and what the handler decides on it.
Read(r, c, op, next, k, loud) ==
    /\ Idling(r)
    /\ complaint[c].status # "none"
    /\ req' = [req EXCEPT ![r] =
                 [op |-> op, at |-> "save", c |-> c, seen |-> complaint[c].status,
                  next |-> next, comment |-> k, loud |-> loud]]
    /\ UNCHANGED <<db, aborts>>

\* updateComplaintStatus: any status may follow any other.
StartUpdate(r, c, next, k) == Read(r, c, "status", next, k, TRUE)

\* Fault: the resident is told although the assignee was refused.
RejectAssigneeLate(r) ==
    /\ At(r, "status", "save")
    /\ Goto(r, "notify")
    /\ UNCHANGED <<db, aborts>>

\* validateAssignee looks the assignee up, and may not find one.
RejectAssignee(r) ==
    /\ At(r, "status", "save")
    /\ Finish(r)
    /\ UNCHANGED <<db, aborts>>

TimeOf(status) == CASE status = "resolved" -> {"resolvedAt"}
                    [] status = "closed" -> {"closedAt"}
                    [] OTHER -> {}

\* Fault: the wrong time, that of the status before.
UpdatedWithOldTime(doc, r) ==
    [doc EXCEPT !.status = IF req[r].next = req[r].seen THEN @ ELSE req[r].next,
                !.times = @ \cup TimeOf(req[r].seen),
                !.comments = @ \cup ({req[r].comment} \ {None})]

\* Fault: a comment is pushed although the admin wrote none.
UpdatedWithAnyComment(doc, r) ==
    [doc EXCEPT !.status = IF req[r].next = req[r].seen THEN @ ELSE req[r].next,
                !.times = @ \cup TimeOf(req[r].next),
                !.comments = @ \cup {req[r].comment}]

Updated(doc, r) ==
    [doc EXCEPT !.status = IF req[r].next = req[r].seen THEN @ ELSE req[r].next,
                !.times = @ \cup TimeOf(req[r].next),
                !.comments = @ \cup ({req[r].comment} \ {None})]

\* complaint.save() of updateComplaintStatus.
SaveStatus(r) ==
    /\ At(r, "status", "save")
    /\ complaint' = [complaint EXCEPT ![req[r].c] = Updated(@, r)]
    /\ Goto(r, "audit")
    /\ UNCHANGED <<told, audited, aborts>>

\* addComplaintComment: the comment is pushed, whatever the status is.
StartComment(r, c, k, loud) == Read(r, c, "comment", "open", k, loud)

SaveComment(r) ==
    /\ At(r, "comment", "save")
    /\ complaint' = [complaint EXCEPT ![req[r].c].comments = @ \cup {req[r].comment}]
    /\ IF req[r].loud THEN Goto(r, "notify") ELSE Finish(r)
    /\ UNCHANGED <<told, audited, aborts>>

\* submitComplaintFeedback: only after resolution, as far as has been read.
StartFeedback(r, c) ==
    /\ complaint[c].status \in {"resolved", "closed"}
    /\ Read(r, c, "feedback", "closed", None, FALSE)

\* Fault: the complaint is left as it is.
RatedOnly(doc, r) == [doc EXCEPT !.rated = TRUE]

\* A complaint that was read as resolved is closed.
Rated(doc, r) ==
    IF req[r].seen = "resolved"
    THEN [doc EXCEPT !.rated = TRUE, !.status = "closed", !.times = @ \cup {"closedAt"}]
    ELSE [doc EXCEPT !.rated = TRUE]

SaveFeedback(r) ==
    /\ At(r, "feedback", "save")
    /\ complaint' = [complaint EXCEPT ![req[r].c] = Rated(@, r)]
    /\ Goto(r, "audit")
    /\ UNCHANGED <<told, audited, aborts>>

\* auditService.record; updateComplaintStatus goes on to notify.
Audit(r) ==
    /\ req[r].at = "audit"
    /\ audited' = [audited EXCEPT ![req[r].c] = @ \cup {req[r].op}]
    /\ IF req[r].op = "status" THEN Goto(r, "notify") ELSE Finish(r)
    /\ UNCHANGED <<complaint, told, aborts>>

\* notifyResident: the status that was asked for, or the comment.
Notify(r) ==
    /\ req[r].at = "notify"
    /\ told' = [told EXCEPT ![req[r].c] =
                  @ \cup {IF req[r].op = "status" THEN req[r].next ELSE req[r].comment}]
    /\ Finish(r)
    /\ UNCHANGED <<complaint, audited, aborts>>

\* The request dies at one of its awaits.
Abort(r) ==
    /\ ~Idling(r)
    /\ aborts < MaxAborts
    /\ aborts' = aborts + 1
    /\ Finish(r)
    /\ UNCHANGED db

Arrive(r) == \E c \in Complaints :
    \/ CreateComplaint(r, c)
    \/ \E s \in Status, k \in Comments \cup {None} :
          (k # None => Fresh(k)) /\ StartUpdate(r, c, s, k)
    \/ \E k \in Comments, loud \in BOOLEAN : Fresh(k) /\ StartComment(r, c, k, loud)
    \/ StartFeedback(r, c)

Continue(r) == \/ RejectAssignee(r)
               \/ SaveStatus(r)
               \/ SaveComment(r)
               \/ SaveFeedback(r)
               \/ Audit(r)
               \/ Notify(r)

Next == \E r \in Requests : Arrive(r) \/ Continue(r) \/ Abort(r)

Spec == Init /\ [][Next]_vars

-----------------------------------------------------------------------------
(* Properties.                                                             *)

Has(c, t) == t \in complaint[c].times

\* The status and its time are one: whatever saves overlap, a resolved
\* complaint has a resolvedAt and a closed one a closedAt.
StatusHasTime ==
    \A c \in Complaints : /\ complaint[c].status = "resolved" => Has(c, "resolvedAt")
                          /\ complaint[c].status = "closed" => Has(c, "closedAt")

\* Feedback comes after resolution: a rated complaint was resolved or closed
\* before, although it may have been reopened when the rating was saved.
RatedAfterResolution ==
    \A c \in Complaints : complaint[c].rated
                            => Has(c, "resolvedAt") \/ Has(c, "closedAt")

\* The times of a complaint bear out its status and its rating, whatever
\* overlapping saves have put on top of each other.
TimesTellTheStory == StatusHasTime /\ RatedAfterResolution

\* The resident is told of a resolution, a closing or a comment that has been
\* stored, and the audit log of a rating that has.
ToldIsTrue ==
    \A c \in Complaints :
        /\ "resolved" \in told[c] => Has(c, "resolvedAt")
        /\ "closed" \in told[c] => Has(c, "closedAt")
        /\ told[c] \cap Comments \subseteq complaint[c].comments
        /\ "feedback" \in audited[c] => complaint[c].rated

\* Feedback on a resolved complaint closes it.  Feedback that finds it open
\* or in progress when it is saved had read it before it was reopened.
FeedbackCloses ==
    [][\A r \in Requests :
          At(r, "feedback", "save") /\ req'[r].at = "audit"
          => \/ complaint'[req[r].c].status = "closed"
             \/ req[r].seen # Doc(r).status]_vars
=============================================================================
