----------------------------- MODULE StaffDesk ------------------------------
(***************************************************************************)
(* staff.controller.js: createStaff, recordAttendance, addStaffReview and  *)
(* addWageRecord, served concurrently.  A Staff document holds its reviews *)
(* and the rating that is computed from them; save() writes the fields     *)
(* that differ from what was read, pushes new array elements, and edits an *)
(* element only if nothing was pushed since (__v).  An Attendance is a     *)
(* document of its own, created when check-in finds no open one.           *)
(*                                                                         *)
(* Status and assigned flats of a staff member never change once created:  *)
(* a request here is one that has passed those checks.                     *)
(***************************************************************************)
EXTENDS Integers, SequencesExt

CONSTANTS Staff,      \* the phone numbers: staff members that may be created
          Flats,      \* the flats where they work
          Entries,    \* the Attendance documents that may be created
          Residents,  \* the residents who review
          Stars,      \* the ratings they give
          Requests,   \* the requests that are served concurrently
          MaxReviews, \* bound: no review is added when there are so many
          MaxWages,   \* bound on the wage records of a staff member
          MaxAborts,  \* bound on the requests that die half way
          None        \* absent

ASSUME BoundAssumption == MaxReviews \in Nat /\ MaxWages \in Nat /\ MaxAborts \in Nat
ASSUME FiniteAssumption == IsFiniteSet(Requests)
ASSUME StarsAssumption == Stars \subseteq 1..5
ASSUME NoneAssumption == None \notin Staff \cup Flats \cup Entries \cup Residents

VARIABLES staff,      \* staff[s]: the document, absent before it is created
          attendance, \* attendance[a]: an entry, absent before it is created
          audited,    \* audited[s]: the audit entries about s and its attendance
          req,        \* req[r]: where request r stands
          aborts

db   == <<staff, attendance, audited>>
vars == <<staff, attendance, audited, req, aborts>>

Op      == {"create", "check_in", "check_out", "review", "wage"}
Review  == [by : Residents, stars : Stars]
Rating  == [count : Nat, total : Nat]
StaffDoc == [here : BOOLEAN, reviews : Seq(Review), rating : Rating, wages : Nat]
Entry   == [state : {"none", "open", "closed"}, s : Staff \cup {None}, f : Flats \cup {None}]

NoStaff == [here |-> FALSE, reviews |-> <<>>, rating |-> [count |-> 0, total |-> 0], wages |-> 0]
NoEntry == [state |-> "none", s |-> None, f |-> None]

\* entry: the Attendance to create or to close; by, stars: the review to save;
\* seen: the staff document as it was read.
ReqState == [op : Op \cup {"none"}, at : {"idle", "save", "audit"},
             s : Staff \cup {None}, f : Flats \cup {None}, entry : Entries \cup {None},
             by : Residents \cup {None}, stars : Stars \cup {0}, seen : StaffDoc]

Idle == [op |-> "none", at |-> "idle", s |-> None, f |-> None, entry |-> None,
         by |-> None, stars |-> 0, seen |-> NoStaff]

TypeOK == /\ staff \in [Staff -> StaffDoc]
          /\ attendance \in [Entries -> Entry]
          /\ audited \in [Staff -> SUBSET Op]
          /\ req \in [Requests -> ReqState]
          /\ aborts \in 0..MaxAborts

Init == /\ staff = [s \in Staff |-> NoStaff]
        /\ attendance = [a \in Entries |-> NoEntry]
        /\ audited = [s \in Staff |-> {}]
        /\ req = [r \in Requests |-> Idle]
        /\ aborts = 0

-----------------------------------------------------------------------------
At(r, op, at) == req[r].op = op /\ req[r].at = at
Idling(r) == req[r].at = "idle"
Finish(r) == req' = [req EXCEPT ![r] = Idle]
GoAudit(r) == req' = [req EXCEPT ![r] = [Idle EXCEPT !.op = req[r].op, !.at = "audit",
                                                     !.s = req[r].s]]
Begin(r, fields) == Idling(r) /\ req' = [req EXCEPT ![r] = fields]

\* createStaff; the phone number is unique in a society.
CreateStaff(r, s) ==
    /\ ~staff[s].here
    /\ staff' = [staff EXCEPT ![s].here = TRUE]
    /\ Begin(r, [Idle EXCEPT !.op = "create", !.at = "audit", !.s = s])
    /\ UNCHANGED <<attendance, audited, aborts>>

-----------------------------------------------------------------------------
(* Attendance.                                                             *)

Open(s, f) == {a \in Entries : attendance[a] = [state |-> "open", s |-> s, f |-> f]}

\* An Attendance that is not there, and that no check-in is about to create.
Fresh(a) == attendance[a].state = "none" /\ \A r \in Requests : req[r].entry # a

\* Fault: an open entry is not looked for.
StartCheckInAgain(r, s, f, a) ==
    /\ staff[s].here
    /\ Fresh(a)
    /\ Begin(r, [Idle EXCEPT !.op = "check_in", !.at = "save", !.s = s, !.f = f, !.entry = a])
    /\ UNCHANGED <<db, aborts>>

\* recordAttendance finds no open entry, and creates one next.
StartCheckIn(r, s, f, a) ==
    /\ staff[s].here
    /\ Open(s, f) = {}
    /\ Fresh(a)
    /\ Begin(r, [Idle EXCEPT !.op = "check_in", !.at = "save", !.s = s, !.f = f, !.entry = a])
    /\ UNCHANGED <<db, aborts>>

CreateAttendance(r) ==
    /\ At(r, "check_in", "save")
    /\ attendance' = [attendance EXCEPT ![req[r].entry] =
                        [state |-> "open", s |-> req[r].s, f |-> req[r].f]]
    /\ GoAudit(r)
    /\ UNCHANGED <<staff, audited, aborts>>

\* recordAttendance finds the open entry with the latest checkIn: of several,
\* any one, since they are open together only when their check-ins overlapped.
StartCheckOut(r, s, f, a) ==
    /\ a \in Open(s, f)
    /\ Begin(r, [Idle EXCEPT !.op = "check_out", !.at = "save", !.s = s, !.f = f, !.entry = a])
    /\ UNCHANGED <<db, aborts>>

SaveCheckOut(r) ==
    /\ At(r, "check_out", "save")
    /\ attendance' = [attendance EXCEPT ![req[r].entry].state = "closed"]
    /\ GoAudit(r)
    /\ UNCHANGED <<staff, audited, aborts>>

-----------------------------------------------------------------------------
(* Reviews.                                                                *)

\* recalculateRating.  The average is total / count to two decimals, which
\* tells totals apart as long as there are at most 100 reviews.
RatingOf(reviews) ==
    [count |-> Len(reviews),
     total |-> FoldLeft(LAMBDA sum, review : sum + review.stars, 0, reviews)]

\* The resident's review, if he has one: the first of his in the array.
ReviewsOf(reviews, by) == {i \in DOMAIN reviews : reviews[i].by = by}
First(I) == CHOOSE i \in I : \A j \in I : i <= j

\* __v counts the pushes.
Version(doc) == Len(doc.reviews) + doc.wages

\* A field is written only if it differs from what was read.
Written(read, new, stored) == IF new = read THEN stored ELSE new

\* Fault: a review without its stars.
StartUnratedReview(r, s, by, stars) ==
    /\ staff[s].here
    /\ Begin(r, [Idle EXCEPT !.op = "review", !.at = "save", !.s = s, !.by = by,
                             !.seen = staff[s]])
    /\ UNCHANGED <<db, aborts>>

\* addStaffReview reads the staff member.
StartReview(r, s, by, stars) ==
    /\ staff[s].here
    /\ ReviewsOf(staff[s].reviews, by) # {} \/ Len(staff[s].reviews) < MaxReviews
    /\ Begin(r, [Idle EXCEPT !.op = "review", !.at = "save", !.s = s, !.by = by,
                             !.stars = stars, !.seen = staff[s]])
    /\ UNCHANGED <<db, aborts>>

\* addStaffReview of a resident who had none: a push, and the rating of the
\* reviews that were read and this one.
AddReview(r) ==
    LET new == [by |-> req[r].by, stars |-> req[r].stars]
    IN  /\ At(r, "review", "save")
        /\ ReviewsOf(req[r].seen.reviews, req[r].by) = {}
        /\ staff' = [staff EXCEPT
             ![req[r].s].reviews = Append(@, new),
             ![req[r].s].rating = Written(req[r].seen.rating,
                                          RatingOf(Append(req[r].seen.reviews, new)), @)]
        /\ Finish(r)
        /\ UNCHANGED <<attendance, audited, aborts>>

\* An edit is saved only on the version that was read.
SameVersion(r) == Version(staff[req[r].s]) = Version(req[r].seen)

\* Fault: the rating is computed before the edit.
EditedRatingFirst(doc, i, stars) == RatingOf(doc.reviews)

\* Fault: the rating is adjusted by the difference.
EditedRatingByDifference(doc, i, stars) ==
    [doc.rating EXCEPT !.total = @ - doc.reviews[i].stars + stars]

EditedRating(doc, i, stars) == RatingOf([doc.reviews EXCEPT ![i].stars = stars])

EditReview(r) ==
    LET seen == req[r].seen
        mine == ReviewsOf(seen.reviews, req[r].by)
        i    == First(mine)
    IN  /\ At(r, "review", "save")
        /\ mine # {}
        /\ SameVersion(r)
        /\ staff' = [staff EXCEPT
             ![req[r].s].reviews[i].stars = Written(seen.reviews[i].stars, req[r].stars, @),
             ![req[r].s].rating = Written(seen.rating, EditedRating(seen, i, req[r].stars), @)]
        /\ Finish(r)
        /\ UNCHANGED <<attendance, audited, aborts>>

\* VersionError.
RejectEdit(r) ==
    /\ At(r, "review", "save")
    /\ ReviewsOf(req[r].seen.reviews, req[r].by) # {}
    /\ ~SameVersion(r)
    /\ Finish(r)
    /\ UNCHANGED <<db, aborts>>

-----------------------------------------------------------------------------
(* Wages, the audit log, and what a request does.                          *)

StartWage(r, s) ==
    /\ staff[s].here
    /\ staff[s].wages < MaxWages
    /\ Begin(r, [Idle EXCEPT !.op = "wage", !.at = "save", !.s = s])
    /\ UNCHANGED <<db, aborts>>

\* The push of addWageRecord.
AddWage(r) ==
    /\ At(r, "wage", "save")
    /\ staff' = [staff EXCEPT ![req[r].s].wages = @ + 1]
    /\ GoAudit(r)
    /\ UNCHANGED <<attendance, audited, aborts>>

\* auditService.record.
Audit(r) ==
    /\ req[r].at = "audit"
    /\ audited' = [audited EXCEPT ![req[r].s] = @ \cup {req[r].op}]
    /\ Finish(r)
    /\ UNCHANGED <<staff, attendance, aborts>>

\* The request dies at one of its awaits.
Abort(r) ==
    /\ ~Idling(r)
    /\ aborts < MaxAborts
    /\ aborts' = aborts + 1
    /\ Finish(r)
    /\ UNCHANGED db

Arrive(r) == \E s \in Staff :
    \/ CreateStaff(r, s)
    \/ \E f \in Flats, a \in Entries : StartCheckIn(r, s, f, a) \/ StartCheckOut(r, s, f, a)
    \/ \E by \in Residents, stars \in Stars : StartReview(r, s, by, stars)
    \/ StartWage(r, s)

Continue(r) == \/ CreateAttendance(r)
               \/ SaveCheckOut(r)
               \/ AddReview(r)
               \/ EditReview(r)
               \/ RejectEdit(r)
               \/ AddWage(r)
               \/ Audit(r)

Next == \E r \in Requests : Arrive(r) \/ Continue(r) \/ Abort(r)

Spec == Init /\ [][Next]_vars

-----------------------------------------------------------------------------
(* Properties.                                                             *)

\* Entries that are open together come of overlapping check-ins: however long
\* a staff member works at a flat, no more of them are open than requests are
\* served at once.
OpenEntriesOverlap ==
    \A s \in Staff, f \in Flats : Cardinality(Open(s, f)) <= Cardinality(Requests)

\* Likewise a resident has more than one review of a staff member only from
\* first reviews that overlapped.
SecondReviewsOverlap ==
    \A s \in Staff, by \in Residents :
        Cardinality(ReviewsOf(staff[s].reviews, by)) <= Cardinality(Requests)

\* What a handler looked for before it creates is repeated only by as many
\* requests as overlap, and does not pile up over the days.
RepetitionsOverlap == OpenEntriesOverlap /\ SecondReviewsOverlap

\* The rating may lag behind the reviews, and never counts one that is not
\* there; a single review is always counted right.
RatingNeverOvercounts ==
    \A s \in Staff :
        /\ staff[s].rating.count <= Len(staff[s].reviews)
        /\ Len(staff[s].reviews) <= 1 => staff[s].rating = RatingOf(staff[s].reviews)

\* A review that is saved on the document as it was read makes the rating
\* right, even if overlapping reviews had left it wrong before.
FreshReviewCounts ==
    [][\A r \in Requests :
          At(r, "review", "save") /\ staff'[req[r].s] # staff[req[r].s]
             /\ req'[r].at = "idle" /\ req[r].seen = staff[req[r].s]
          => staff'[req[r].s].rating = RatingOf(staff'[req[r].s].reviews)]_vars
=============================================================================
