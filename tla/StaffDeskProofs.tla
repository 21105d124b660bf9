-------------------------- MODULE StaffDeskProofs ---------------------------
(***************************************************************************)
(* What is proved of StaffDesk for any staff, flats, residents and any     *)
(* finite number of concurrent requests.                                   *)
(***************************************************************************)
EXTENDS StaffDesk, FiniteSetTheorems, TLAPS

-----------------------------------------------------------------------------
(* Attendance: the inductive invariant.                                    *)

\* The check-ins that have found no open entry and are about to create one.
CheckingIn(s, f) == {r \in Requests : At(r, "check_in", "save")
                                      /\ req[r].s = s /\ req[r].f = f}

\* What a request has read, and still relies on when it saves.
RequestOK(r) ==
    /\ At(r, "check_in", "save") =>
          /\ req[r].s \in Staff /\ req[r].f \in Flats /\ req[r].entry \in Entries
          /\ attendance[req[r].entry].state = "none"
    /\ At(r, "check_out", "save") =>
          req[r].entry \in Entries /\ attendance[req[r].entry].state # "none"

\* As long as an entry is open no check-in joins those that are under way.
Crowd(s, f) ==
    /\ IsFiniteSet(Open(s, f))
    /\ Open(s, f) # {} =>
          Cardinality(Open(s, f)) + Cardinality(CheckingIn(s, f)) <= Cardinality(Requests)

AInv == /\ attendance \in [Entries -> Entry]
        /\ req = [r \in Requests |-> req[r]]
        /\ \A r \in Requests : RequestOK(r)
        /\ \A q, r \in Requests :
              At(q, "check_in", "save") /\ At(r, "check_in", "save") /\ q # r
              => req[q].entry # req[r].entry
        /\ \A s \in Staff, f \in Flats : Crowd(s, f)

-----------------------------------------------------------------------------
LEMMA Moves ==
    ASSUME req = [r \in Requests |-> req[r]], NEW q \in Requests
    PROVE  /\ GoAudit(q) => req'[q].at = "audit"
           /\ Finish(q) => req'[q].at = "idle"
           /\ \A fields : Begin(q, fields) => req'[q] = fields
<1>1. DOMAIN req = Requests
  OBVIOUS
<1>2. GoAudit(q) => req'[q].at = "audit"
  BY <1>1 DEF GoAudit, Idle
<1>3. Finish(q) => req'[q].at = "idle"
  BY <1>1 DEF Finish, Idle
<1>4. \A fields : Begin(q, fields) => req'[q] = fields
  BY <1>1 DEF Begin
<1> QED BY <1>2, <1>3, <1>4

\* A request that has begun is known by its operation.
LEMMA Begun ==
    ASSUME req = [r \in Requests |-> req[r]], NEW q \in Requests, NEW s \in Staff
    PROVE  /\ CreateStaff(q, s) => req'[q].op = "create"
           /\ \A f, a : StartCheckIn(q, s, f, a) => req'[q].op = "check_in"
           /\ \A f, a : StartCheckOut(q, s, f, a) => req'[q].op = "check_out"
           /\ \A by, stars : StartReview(q, s, by, stars) => req'[q].op = "review"
           /\ StartWage(q, s) => req'[q].op = "wage"
<1>1. ASSUME CreateStaff(q, s) PROVE req'[q].op = "create"
  <2>1. req'[q] = [Idle EXCEPT !.op = "create", !.at = "audit", !.s = s]
    BY <1>1, Moves DEF CreateStaff
  <2> QED BY <2>1 DEF Idle
<1>2. ASSUME NEW f, NEW a, StartCheckIn(q, s, f, a) PROVE req'[q].op = "check_in"
  <2>1. req'[q] = [Idle EXCEPT !.op = "check_in", !.at = "save", !.s = s, !.f = f, !.entry = a]
    BY <1>2, Moves DEF StartCheckIn
  <2> QED BY <2>1 DEF Idle
<1>3. ASSUME NEW f, NEW a, StartCheckOut(q, s, f, a) PROVE req'[q].op = "check_out"
  <2>1. req'[q] = [Idle EXCEPT !.op = "check_out", !.at = "save", !.s = s, !.f = f, !.entry = a]
    BY <1>3, Moves DEF StartCheckOut
  <2> QED BY <2>1 DEF Idle
<1>4. ASSUME NEW by, NEW stars, StartReview(q, s, by, stars) PROVE req'[q].op = "review"
  <2>1. req'[q] = [Idle EXCEPT !.op = "review", !.at = "save", !.s = s, !.by = by,
                               !.stars = stars, !.seen = staff[s]]
    BY <1>4, Moves DEF StartReview
  <2> QED BY <2>1 DEF Idle
<1>5. ASSUME StartWage(q, s) PROVE req'[q].op = "wage"
  <2>1. req'[q] = [Idle EXCEPT !.op = "wage", !.at = "save", !.s = s]
    BY <1>5, Moves DEF StartWage
  <2> QED BY <2>1 DEF Idle
<1> QED BY <1>1, <1>2, <1>3, <1>4, <1>5

\* What a step does to one request: it begins, goes on to its audit entry or
\* ends.
LEMMA RequestStep ==
    ASSUME req = [r \in Requests |-> req[r]], [Next]_vars
    PROVE  /\ req' = [r \in Requests |-> req'[r]]
           /\ \A r \in Requests : At(r, "check_in", "save")' =>
                 \/ req'[r] = req[r]
                 \/ \E s \in Staff, f \in Flats, a \in Entries : StartCheckIn(r, s, f, a)
           /\ \A r \in Requests : At(r, "check_out", "save")' =>
                 \/ req'[r] = req[r]
                 \/ \E s \in Staff, f \in Flats, a \in Entries : StartCheckOut(r, s, f, a)
           /\ \A r \in Requests : At(r, "review", "save")' =>
                 \/ req'[r] = req[r]
                 \/ \E s \in Staff, by \in Residents, stars \in Stars :
                       StartReview(r, s, by, stars)
<1>1. DOMAIN req = Requests
  OBVIOUS
<1>2. CASE UNCHANGED vars
  BY <1>1, <1>2 DEF vars
<1>3. ASSUME NEW q \in Requests, NEW new, req' = [req EXCEPT ![q] = new]
      PROVE  /\ req' = [r \in Requests |-> req'[r]]
             /\ req'[q] = new
             /\ \A r \in Requests : r # q => req'[r] = req[r]
  BY <1>1, <1>3
<1>4. ASSUME NEW q \in Requests, Arrive(q) \/ Continue(q) \/ Abort(q)
      PROVE  \E new : req' = [req EXCEPT ![q] = new]
  BY <1>4 DEF Arrive, Continue, CreateStaff, StartCheckIn, StartCheckOut, StartReview,
     StartWage, CreateAttendance, SaveCheckOut, AddReview, EditReview, RejectEdit, AddWage,
     Audit, Abort, Begin, Finish, GoAudit
<1>5. ASSUME NEW q \in Requests, Continue(q) \/ Abort(q)
      PROVE  req'[q].at # "save"
  BY <1>5, Moves DEF Continue, CreateAttendance, SaveCheckOut, AddReview, EditReview,
     RejectEdit, AddWage, Audit, Abort
<1>6. ASSUME NEW q \in Requests, Arrive(q), At(q, "check_in", "save")'
      PROVE  \E s \in Staff, f \in Flats, a \in Entries : StartCheckIn(q, s, f, a)
  BY <1>6, Begun DEF Arrive, At
<1>7. ASSUME NEW q \in Requests, Arrive(q), At(q, "check_out", "save")'
      PROVE  \E s \in Staff, f \in Flats, a \in Entries : StartCheckOut(q, s, f, a)
  BY <1>7, Begun DEF Arrive, At
<1>8. ASSUME NEW q \in Requests, Arrive(q), At(q, "review", "save")'
      PROVE  \E s \in Staff, by \in Residents, stars \in Stars : StartReview(q, s, by, stars)
  BY <1>8, Begun DEF Arrive, At
<1>9. ASSUME NEW q \in Requests, Arrive(q) \/ Continue(q) \/ Abort(q)
      PROVE  /\ req' = [r \in Requests |-> req'[r]]
             /\ \A r \in Requests : r # q => req'[r] = req[r]
             /\ req'[q].at = "save" => Arrive(q)
  BY <1>3, <1>4, <1>5, <1>9
<1>10. ASSUME NEW q \in Requests, NEW r \in Requests, Arrive(q) \/ Continue(q) \/ Abort(q),
              req'[r].at = "save"
       PROVE  req'[r] = req[r] \/ Arrive(r)
  BY <1>9, <1>10
<1> QED
  BY <1>2, <1>6, <1>7, <1>8, <1>9, <1>10 DEF Next, At

\* What a step does to the entries.
LEMMA EntryStep ==
    ASSUME AInv, [Next]_vars
    PROVE  \/ attendance' = attendance
           \/ \E r \in Requests : CreateAttendance(r) \/ SaveCheckOut(r)
  BY DEF Next, vars, Arrive, Continue, CreateStaff, StartCheckIn, StartCheckOut, StartReview,
     StartWage, AddReview, EditReview, RejectEdit, AddWage, Audit, Abort, db

\* An entry is created once, and closed after it was created.
LEMMA EntriesKept ==
    AInv /\ [Next]_vars => /\ attendance' \in [Entries -> Entry]
                           /\ \A r \in Requests : RequestOK(r)'
                           /\ \A q, r \in Requests :
                                 At(q, "check_in", "save")' /\ At(r, "check_in", "save")'
                                 /\ q # r => req'[q].entry # req'[r].entry
<1> SUFFICES ASSUME AInv, [Next]_vars
             PROVE  /\ attendance' \in [Entries -> Entry]
                    /\ \A r \in Requests : RequestOK(r)'
                    /\ \A q, r \in Requests :
                          At(q, "check_in", "save")' /\ At(r, "check_in", "save")'
                          /\ q # r => req'[q].entry # req'[r].entry
  OBVIOUS
<1> USE DEF AInv
<1>1. attendance' \in [Entries -> Entry]
  <2>1. ASSUME NEW r \in Requests, CreateAttendance(r) PROVE attendance' \in [Entries -> Entry]
    BY <2>1 DEF CreateAttendance, RequestOK, Entry
  <2>2. ASSUME NEW r \in Requests, SaveCheckOut(r) PROVE attendance' \in [Entries -> Entry]
    BY <2>2 DEF SaveCheckOut, RequestOK, Entry
  <2> QED BY <2>1, <2>2, EntryStep
<1>2. \A a \in Entries : attendance[a].state # "none" => attendance'[a].state # "none"
  <2>1. ASSUME NEW a \in Entries, NEW r \in Requests, CreateAttendance(r),
               attendance[a].state # "none"
        PROVE  attendance'[a].state # "none"
    BY <2>1 DEF CreateAttendance
  <2>2. ASSUME NEW a \in Entries, NEW r \in Requests, SaveCheckOut(r),
               attendance[a].state # "none"
        PROVE  attendance'[a].state # "none"
    BY <2>2 DEF SaveCheckOut, Entry
  <2> QED BY <2>1, <2>2, EntryStep
<1>3. ASSUME NEW r \in Requests, At(r, "check_in", "save"), At(r, "check_in", "save")',
             req'[r] = req[r]
      PROVE  attendance'[req[r].entry].state = "none"
  <2>1. req[r].entry \in Entries /\ attendance[req[r].entry].state = "none"
    BY <1>3 DEF RequestOK
  <2>2. ASSUME NEW q \in Requests, CreateAttendance(q)
        PROVE  attendance'[req[r].entry].state = "none"
    <3>1. q # r
      BY <1>3, <2>2 DEF CreateAttendance, GoAudit, At, Idle
    <3>2. req[q].entry # req[r].entry
      BY <1>3, <2>2, <3>1 DEF CreateAttendance
    <3> QED BY <2>1, <2>2, <3>2 DEF CreateAttendance
  <2>3. ASSUME NEW q \in Requests, SaveCheckOut(q)
        PROVE  attendance'[req[r].entry].state = "none"
    BY <2>1, <2>3 DEF SaveCheckOut, RequestOK
  <2> QED BY <2>1, <2>2, <2>3, EntryStep
<1>4. ASSUME NEW r \in Requests, NEW s \in Staff, NEW f \in Flats, NEW a \in Entries,
             StartCheckIn(r, s, f, a)
      PROVE  /\ req'[r].s = s /\ req'[r].f = f /\ req'[r].entry = a
             /\ attendance' = attendance /\ attendance[a].state = "none"
             /\ req'[r].op = "check_in"
             /\ \A q \in Requests : req[q].entry # a
  BY <1>4 DEF StartCheckIn, Fresh, Begin, Idle, db
<1>5. ASSUME NEW r \in Requests, NEW s \in Staff, NEW f \in Flats, NEW a \in Entries,
             StartCheckOut(r, s, f, a)
      PROVE  /\ req'[r].entry = a /\ req'[r].op = "check_out"
             /\ attendance' = attendance /\ attendance[a].state # "none"
  <2>1. attendance[a].state = "open"
    BY <1>5 DEF StartCheckOut, Open
  <2>2. req'[r] = [Idle EXCEPT !.op = "check_out", !.at = "save", !.s = s, !.f = f, !.entry = a]
    BY <1>5, Moves DEF StartCheckOut
  <2> QED BY <1>5, <2>1, <2>2 DEF StartCheckOut, Idle, db
<1>6. ASSUME NEW r \in Requests PROVE RequestOK(r)'
  <2>1. CASE req'[r] = req[r]
    BY <1>2, <1>3, <2>1 DEF RequestOK, At
  <2>2. ASSUME NEW s \in Staff, NEW f \in Flats, NEW a \in Entries,
               StartCheckIn(r, s, f, a)
        PROVE  RequestOK(r)'
    BY <1>4, <2>2 DEF RequestOK, At
  <2>3. ASSUME NEW s \in Staff, NEW f \in Flats, NEW a \in Entries,
               StartCheckOut(r, s, f, a)
        PROVE  RequestOK(r)'
    BY <1>5, <2>3 DEF RequestOK, At
  <2>4. CASE ~At(r, "check_in", "save")' /\ ~At(r, "check_out", "save")'
    BY <2>4 DEF RequestOK
  <2> QED BY <2>1, <2>2, <2>3, <2>4, RequestStep
<1>7. ASSUME NEW q \in Requests, NEW r \in Requests, q # r,
             At(q, "check_in", "save")', At(r, "check_in", "save")'
      PROVE  req'[q].entry # req'[r].entry
  <2>1. ASSUME NEW u \in Requests, NEW v \in Requests, u # v, NEW s \in Staff,
               NEW f \in Flats, NEW a \in Entries, StartCheckIn(u, s, f, a)
        PROVE  req'[u].entry # req'[v].entry
    <3>1. req'[u].entry = a /\ req[v].entry # a
      BY <1>4, <2>1
    <3>2. req'[v] = req[v]
      BY <2>1 DEF StartCheckIn, Begin
    <3> QED BY <3>1, <3>2
  <2>2. CASE req'[q] = req[q] /\ req'[r] = req[r]
    BY <1>7, <2>2 DEF At
  <2> QED BY <1>7, <2>1, <2>2, RequestStep
<1> QED BY <1>1, <1>6, <1>7

\* The crowd of open entries and check-ins grows only while nothing is open.
LEMMA CrowdKept == AInv /\ [Next]_vars => \A s \in Staff, f \in Flats : Crowd(s, f)'
<1> SUFFICES ASSUME AInv, [Next]_vars, NEW s \in Staff, NEW f \in Flats
             PROVE  Crowd(s, f)'
  OBVIOUS
<1> DEFINE O == Open(s, f)
           C == CheckingIn(s, f)
<1>1. /\ attendance \in [Entries -> Entry] /\ req = [r \in Requests |-> req[r]]
      /\ \A r \in Requests : RequestOK(r)
      /\ Crowd(s, f)
  BY DEF AInv
<1>2. /\ IsFiniteSet(Requests) /\ C \subseteq Requests /\ C' \subseteq Requests
      /\ IsFiniteSet(O)
  BY <1>1, FiniteAssumption DEF CheckingIn, Crowd
<1>3. /\ IsFiniteSet(C) /\ IsFiniteSet(C')
      /\ Cardinality(C) <= Cardinality(Requests)
  BY <1>2, FS_Subset
<1>4. Cardinality(C) \in Nat /\ Cardinality(O) \in Nat /\ Cardinality(Requests) \in Nat
  BY <1>2, <1>3, FS_CardinalityType
<1>5. ASSUME O' \subseteq O, C' \subseteq C PROVE Crowd(s, f)'
  <2>1. IsFiniteSet(O') /\ Cardinality(O') <= Cardinality(O)
        /\ Cardinality(C') <= Cardinality(C)
    BY <1>2, <1>3, <1>5, FS_Subset
  <2>2. Cardinality(C') \in Nat /\ Cardinality(O') \in Nat
    BY <1>3, <2>1, FS_CardinalityType
  <2>3. O' # {} => O # {}
    BY <1>5
  <2>4. O # {} => Cardinality(O) + Cardinality(C) <= Cardinality(Requests)
    BY <1>1 DEF Crowd
  <2>5. O' # {} => Cardinality(O') + Cardinality(C') <= Cardinality(Requests)
    BY <1>4, <2>1, <2>2, <2>3, <2>4
  <2> QED BY <2>1, <2>5 DEF Crowd
<1>6. ASSUME O' = {} PROVE Crowd(s, f)'
  BY <1>6, FS_EmptySet DEF Crowd
<1>7. ASSUME NEW r \in Requests, CreateAttendance(r) PROVE Crowd(s, f)'
  <2>1. /\ req[r].s \in Staff /\ req[r].f \in Flats /\ req[r].entry \in Entries
        /\ attendance[req[r].entry].state = "none"
    BY <1>1, <1>7 DEF CreateAttendance, RequestOK
  <2>2. C' = C \ {r}
    BY <1>1, <1>7 DEF CheckingIn, CreateAttendance, GoAudit, At, Idle
  <2>3. CASE r \in C
    <3>1. O' = O \cup {req[r].entry} /\ req[r].entry \notin O
      BY <1>1, <1>7, <2>1, <2>3 DEF Open, CheckingIn, CreateAttendance, Entry
    <3>2. IsFiniteSet(O') /\ Cardinality(O') = Cardinality(O) + 1
      BY <1>2, <3>1, FS_AddElement
    <3>3. Cardinality(C') = Cardinality(C) - 1
      BY <1>3, <2>2, <2>3, FS_RemoveElement
    <3>4. O = {} => Cardinality(O) = 0
      BY FS_EmptySet
    <3>5. O # {} => Cardinality(O) + Cardinality(C) <= Cardinality(Requests)
      BY <1>1 DEF Crowd
    <3>6. Cardinality(O') + Cardinality(C') <= Cardinality(Requests)
      BY <1>3, <1>4, <3>2, <3>3, <3>4, <3>5
    <3> QED BY <3>2, <3>6 DEF Crowd
  <2>4. CASE r \notin C
    <3>1. O' \subseteq O
      BY <1>1, <1>7, <2>1, <2>4 DEF Open, CheckingIn, CreateAttendance, Entry
    <3> QED BY <1>5, <2>2, <3>1
  <2> QED BY <2>3, <2>4
<1>8. ASSUME NEW r \in Requests, SaveCheckOut(r) PROVE Crowd(s, f)'
  <2>1. O' \subseteq O
    BY <1>1, <1>8 DEF Open, SaveCheckOut, RequestOK, Entry
  <2>2. C' \subseteq C
    BY <1>1, <1>8 DEF CheckingIn, SaveCheckOut, GoAudit, At, Idle
  <2> QED BY <1>5, <2>1, <2>2
<1>9. CASE attendance' = attendance
  <2>1. O' = O
    BY <1>9 DEF Open
  <2>2. CASE C' \subseteq C
    BY <1>5, <2>1, <2>2
  <2>3. CASE ~(C' \subseteq C)
    <3>1. PICK r \in Requests : r \in C' /\ r \notin C
      BY <1>2, <2>3
    <3>2. PICK t \in Staff, g \in Flats, a \in Entries : StartCheckIn(r, t, g, a)
      BY <1>1, <3>1, RequestStep DEF CheckingIn, At
    <3>3. t = s /\ g = f
      BY <1>1, <3>1, <3>2 DEF StartCheckIn, Begin, CheckingIn, Idle
    <3>4. O = {}
      BY <3>2, <3>3 DEF StartCheckIn
    <3> QED BY <1>6, <2>1, <3>4
  <2> QED BY <2>2, <2>3
<1> QED BY <1>7, <1>8, <1>9, EntryStep

LEMMA InitAInv == Init => AInv
<1> SUFFICES ASSUME Init PROVE AInv
  OBVIOUS
<1>1. attendance \in [Entries -> Entry]
  BY DEF Init, NoEntry, Entry
<1>2. \A r \in Requests : req[r].op = "none"
  BY DEF Init, Idle
<1>3. \A r \in Requests : RequestOK(r)
  BY <1>2 DEF RequestOK, At
<1>4. ASSUME NEW s \in Staff, NEW f \in Flats PROVE Crowd(s, f)
  <2>1. Open(s, f) = {}
    BY DEF Init, Open, NoEntry
  <2> QED BY <2>1, FS_EmptySet DEF Crowd
<1>5. req = [r \in Requests |-> req[r]]
  BY DEF Init
<1> QED BY <1>1, <1>2, <1>3, <1>4, <1>5 DEF AInv, At

\* The invariant of all reachable states, as far as attendance goes.
THEOREM AttendanceInvariance == Spec => []AInv
<1>1. AInv /\ [Next]_vars => AInv'
  BY EntriesKept, CrowdKept, RequestStep DEF AInv
<1> QED BY InitAInv, <1>1, PTL DEF Spec

\* No more entries of a staff member at a flat are open than requests are
\* served at once: only overlapping check-ins multiply them.
THEOREM OpenEntries == Spec => []OpenEntriesOverlap
<1>1. ASSUME AInv, NEW s \in Staff, NEW f \in Flats
      PROVE  Cardinality(Open(s, f)) <= Cardinality(Requests)
  <2>1. IsFiniteSet(CheckingIn(s, f))
    BY FS_Subset, FiniteAssumption DEF CheckingIn
  <2>2. /\ Cardinality(CheckingIn(s, f)) \in Nat /\ Cardinality(Requests) \in Nat
        /\ Cardinality(Open(s, f)) \in Nat
    BY <1>1, <2>1, FS_CardinalityType, FiniteAssumption DEF AInv, Crowd
  <2>3. CASE Open(s, f) = {}
    BY <2>2, <2>3, FS_EmptySet
  <2>4. CASE Open(s, f) # {}
    BY <1>1, <2>2, <2>4 DEF AInv, Crowd
  <2> QED BY <2>3, <2>4
<1>2. AInv => OpenEntriesOverlap
  BY <1>1 DEF OpenEntriesOverlap
<1> QED BY AttendanceInvariance, <1>2, PTL

-----------------------------------------------------------------------------
(* Reviews: the inductive invariant.                                       *)

\* The requests that have seen no review of the resident and are about to
\* push one.
Adding(s, by) == {r \in Requests : /\ At(r, "review", "save")
                                   /\ req[r].s = s /\ req[r].by = by
                                   /\ ReviewsOf(req[r].seen.reviews, by) = {}}

Mine(s, by) == ReviewsOf(staff[s].reviews, by)

\* A staff document, whatever the rating is.
StaffOK(s) == staff[s] \in [here : BOOLEAN, reviews : Seq(Review),
                            rating : {staff[s].rating}, wages : Nat]

ReviewOK(r) == At(r, "review", "save") =>
                 req[r].s \in Staff /\ req[r].by \in Residents /\ req[r].stars \in Stars

ReviewCrowd(s, by) ==
    /\ IsFiniteSet(Mine(s, by))
    /\ Mine(s, by) # {} =>
          Cardinality(Mine(s, by)) + Cardinality(Adding(s, by)) <= Cardinality(Requests)

RInv == /\ staff = [s \in Staff |-> staff[s]]
        /\ \A s \in Staff : StaffOK(s)
        /\ req = [r \in Requests |-> req[r]]
        /\ \A r \in Requests : ReviewOK(r)
        /\ \A s \in Staff, by \in Residents : ReviewCrowd(s, by)

-----------------------------------------------------------------------------
\* A pushed review is one more review of its author, and of nobody else.
LEMMA PushedReview ==
    ASSUME NEW reviews \in Seq(Review), NEW new \in Review, NEW by
    PROVE  /\ Append(reviews, new) \in Seq(Review)
           /\ ReviewsOf(Append(reviews, new), by) =
                ReviewsOf(reviews, by) \cup (IF new.by = by THEN {Len(reviews) + 1} ELSE {})
           /\ Len(reviews) + 1 \notin ReviewsOf(reviews, by)
  BY DEF ReviewsOf

Edited(reviews, i, stars) == [reviews EXCEPT ![i].stars = stars]

\* An edited review keeps its author.
LEMMA EditedReview ==
    ASSUME NEW reviews \in Seq(Review), NEW i, NEW stars \in Stars
    PROVE  /\ Edited(reviews, i, stars) \in Seq(Review)
           /\ \A by : ReviewsOf(Edited(reviews, i, stars), by) = ReviewsOf(reviews, by)
<1> DEFINE new == [reviews EXCEPT ![i].stars = stars]
<1>1. DOMAIN reviews = 1..Len(reviews) /\ Len(reviews) \in Nat
      /\ \A j \in DOMAIN reviews : reviews[j] \in Review
  OBVIOUS
<1>2. DOMAIN new = DOMAIN reviews
      /\ \A j \in DOMAIN reviews : new[j] = IF j = i THEN [reviews[j] EXCEPT !.stars = stars]
                                                      ELSE reviews[j]
  OBVIOUS
<1>3. \A j \in DOMAIN reviews : new[j] \in Review /\ new[j].by = reviews[j].by
  BY <1>1, <1>2 DEF Review
<1>4. new = [j \in 1..Len(reviews) |-> new[j]]
  BY <1>1, <1>2
<1>5. new \in Seq(Review)
  <2> HIDE DEF new
  <2>1. new \in [1..Len(reviews) -> Review]
    BY <1>1, <1>3, <1>4
  <2> QED BY <1>1, <2>1
<1>6. \A by : ReviewsOf(new, by) = ReviewsOf(reviews, by)
  <2> HIDE DEF new
  <2> QED BY <1>2, <1>3 DEF ReviewsOf
<1> QED BY <1>5, <1>6 DEF Edited

\* A step leaves the function of documents a function.
LEMMA StaffShape == RInv /\ [Next]_vars => staff' = [s \in Staff |-> staff'[s]]
<1> SUFFICES ASSUME RInv, [Next]_vars PROVE staff' = [s \in Staff |-> staff'[s]]
  OBVIOUS
<1>1. DOMAIN staff = Staff /\ staff = [s \in Staff |-> staff[s]]
  BY DEF RInv
<1>2. CASE staff' = staff
  BY <1>1, <1>2
<1>4. ASSUME NEW r \in Requests, NEW t \in Staff, CreateStaff(r, t)
      PROVE  staff' = [s \in Staff |-> staff'[s]]
  BY <1>1, <1>4 DEF CreateStaff
<1>5. ASSUME NEW r \in Requests, AddReview(r) \/ EditReview(r) \/ AddWage(r)
      PROVE  staff' = [s \in Staff |-> staff'[s]]
  BY <1>1, <1>5 DEF AddReview, EditReview, AddWage
<1>6. ASSUME NEW r \in Requests, Arrive(r) \/ Continue(r) \/ Abort(r)
      PROVE  \/ staff' = staff
             \/ \E t \in Staff : CreateStaff(r, t)
             \/ AddReview(r) \/ EditReview(r) \/ AddWage(r)
  BY <1>6 DEF Arrive, Continue, StartCheckIn, StartCheckOut, StartReview, StartWage,
     CreateAttendance, SaveCheckOut, RejectEdit, Audit, Abort, db
<1> QED BY <1>2, <1>4, <1>5, <1>6 DEF Next, vars

\* What a step does to the reviews of a staff member.
LEMMA StaffStep ==
    ASSUME RInv, [Next]_vars, NEW s \in Staff
    PROVE  /\ StaffOK(s)'
           /\ \/ \A by \in Residents : Mine(s, by)' = Mine(s, by)
              \/ \E r \in Requests : AddReview(r) /\ req[r].s = s
<1> USE DEF RInv
<1>1. staff[s] \in [here : BOOLEAN, reviews : Seq(Review), rating : {staff[s].rating}, wages : Nat]
      /\ DOMAIN staff = Staff
  BY DEF StaffOK
<1>2. ASSUME staff'[s] = staff[s]
      PROVE  StaffOK(s)' /\ \A by \in Residents : Mine(s, by)' = Mine(s, by)
  BY <1>1, <1>2 DEF StaffOK, Mine
<1>3. ASSUME NEW r \in Requests, CreateStaff(r, s)
      PROVE  StaffOK(s)' /\ \A by \in Residents : Mine(s, by)' = Mine(s, by)
  <2>1. staff'[s] = [staff[s] EXCEPT !.here = TRUE]
    BY <1>1, <1>3 DEF CreateStaff
  <2> QED BY <1>1, <2>1 DEF StaffOK, Mine
<1>4. ASSUME NEW r \in Requests, AddReview(r), req[r].s = s
      PROVE  StaffOK(s)'
  <2>1. [by |-> req[r].by, stars |-> req[r].stars] \in Review
    BY <1>4 DEF AddReview, ReviewOK, Review
  <2>2. /\ staff'[s].reviews = Append(staff[s].reviews,
                                      [by |-> req[r].by, stars |-> req[r].stars])
        /\ staff'[s] = [staff[s] EXCEPT !.reviews = staff'[s].reviews,
                                        !.rating = staff'[s].rating]
    BY <1>1, <1>4 DEF AddReview
  <2>3. staff'[s].reviews \in Seq(Review)
    BY <1>1, <2>1, <2>2, PushedReview
  <2> QED BY <1>1, <2>2, <2>3 DEF StaffOK
<1>5. ASSUME NEW r \in Requests, EditReview(r), req[r].s = s
      PROVE  StaffOK(s)' /\ \A by \in Residents : Mine(s, by)' = Mine(s, by)
  <2> DEFINE i == First(ReviewsOf(req[r].seen.reviews, req[r].by))
             stars == Written(req[r].seen.reviews[i].stars, req[r].stars,
                              staff[s].reviews[i].stars)
  <2>1. /\ staff'[s].reviews = Edited(staff[s].reviews, i, stars)
        /\ staff'[s] = [staff[s] EXCEPT !.reviews = staff'[s].reviews,
                                        !.rating = staff'[s].rating]
    BY <1>1, <1>5 DEF EditReview, Edited
  <2>2. CASE i \in DOMAIN staff[s].reviews
    <3>1. stars \in Stars
      <4>1. req[r].stars \in Stars
        BY <1>5 DEF EditReview, ReviewOK
      <4> HIDE DEF i
      <4>2. staff[s].reviews[i] \in Review
        BY <1>1, <2>2
      <4> QED BY <4>1, <4>2 DEF Written, Review
    <3>2. staff[s].reviews \in Seq(Review)
      BY <1>1
    <3> HIDE DEF i, stars
    <3>3. staff'[s].reviews \in Seq(Review)
          /\ \A by \in Residents : ReviewsOf(staff'[s].reviews, by) = ReviewsOf(staff[s].reviews, by)
      BY <2>1, <3>1, <3>2, EditedReview
    <3> QED BY <1>1, <2>1, <3>3 DEF StaffOK, Mine
  <2>3. CASE i \notin DOMAIN staff[s].reviews
    <3>1. staff'[s].reviews = staff[s].reviews
      BY <1>1, <2>1, <2>3 DEF Edited
    <3> QED BY <1>1, <2>1, <3>1 DEF StaffOK, Mine
  <2> QED BY <2>2, <2>3
<1>6. ASSUME NEW r \in Requests, AddWage(r), req[r].s = s
      PROVE  StaffOK(s)' /\ \A by \in Residents : Mine(s, by)' = Mine(s, by)
  <2>1. staff'[s] = [staff[s] EXCEPT !.wages = @ + 1]
    BY <1>1, <1>6 DEF AddWage
  <2>2. staff'[s] \in [here : BOOLEAN, reviews : Seq(Review), rating : {staff[s].rating},
                       wages : Nat]
    BY <1>1, <2>1
  <2>3. staff'[s].rating = staff[s].rating /\ staff'[s].reviews = staff[s].reviews
    BY <1>1, <2>1
  <2> QED BY <2>2, <2>3 DEF StaffOK, Mine
<1>7. ASSUME NEW r \in Requests, AddReview(r) \/ EditReview(r) \/ AddWage(r), req[r].s # s
      PROVE  staff'[s] = staff[s]
  BY <1>1, <1>7 DEF AddReview, EditReview, AddWage
<1>8. ASSUME NEW r \in Requests, NEW t \in Staff, CreateStaff(r, t), t # s
      PROVE  staff'[s] = staff[s]
  BY <1>1, <1>8 DEF CreateStaff
<1>9. CASE staff' = staff
  BY <1>2, <1>9
<1>10. ASSUME NEW r \in Requests, Arrive(r) \/ Continue(r) \/ Abort(r)
       PROVE  \/ staff' = staff
              \/ \E t \in Staff : CreateStaff(r, t)
              \/ AddReview(r) \/ EditReview(r) \/ AddWage(r)
  BY <1>10 DEF Arrive, Continue, StartCheckIn, StartCheckOut, StartReview, StartWage,
     CreateAttendance, SaveCheckOut, RejectEdit, Audit, Abort, db
<1>11. CASE UNCHANGED vars
  BY <1>9, <1>11 DEF vars
<1> QED BY <1>2, <1>3, <1>4, <1>5, <1>6, <1>7, <1>8, <1>9, <1>10, <1>11 DEF Next

LEMMA ReviewRequestsKept == RInv /\ [Next]_vars => \A r \in Requests : ReviewOK(r)'
<1> SUFFICES ASSUME RInv, [Next]_vars, NEW r \in Requests PROVE ReviewOK(r)'
  OBVIOUS
<1>1. req = [q \in Requests |-> req[q]] /\ ReviewOK(r)
  BY DEF RInv
<1>2. CASE req'[r] = req[r]
  BY <1>1, <1>2 DEF ReviewOK, At
<1>3. ASSUME NEW s \in Staff, NEW by \in Residents, NEW stars \in Stars,
             StartReview(r, s, by, stars)
      PROVE  ReviewOK(r)'
  <2>1. req'[r] = [Idle EXCEPT !.op = "review", !.at = "save", !.s = s, !.by = by,
                               !.stars = stars, !.seen = staff[s]]
    BY <1>1, <1>3, Moves DEF StartReview
  <2> QED BY <2>1 DEF ReviewOK, Idle
<1>4. CASE ~At(r, "review", "save")'
  BY <1>4 DEF ReviewOK
<1> QED BY <1>1, <1>2, <1>3, <1>4, RequestStep

\* The reviews of one resident, and the pushes under way, grow only while
\* there is no review of his.
LEMMA ReviewCrowdKept ==
    RInv /\ [Next]_vars => \A s \in Staff, by \in Residents : ReviewCrowd(s, by)'
<1> SUFFICES ASSUME RInv, [Next]_vars, NEW s \in Staff, NEW by \in Residents
             PROVE  ReviewCrowd(s, by)'
  OBVIOUS
<1> DEFINE M == Mine(s, by)
           A == Adding(s, by)
<1>1. /\ req = [r \in Requests |-> req[r]]
      /\ \A r \in Requests : ReviewOK(r)
      /\ ReviewCrowd(s, by) /\ StaffOK(s) /\ staff = [t \in Staff |-> staff[t]]
  BY DEF RInv
<1>2. /\ IsFiniteSet(Requests) /\ A \subseteq Requests /\ A' \subseteq Requests
      /\ IsFiniteSet(M)
  BY <1>1, FiniteAssumption DEF Adding, ReviewCrowd
<1>3. /\ IsFiniteSet(A) /\ IsFiniteSet(A')
      /\ Cardinality(A) <= Cardinality(Requests)
  BY <1>2, FS_Subset
<1>4. Cardinality(A) \in Nat /\ Cardinality(A') \in Nat /\ Cardinality(M) \in Nat
      /\ Cardinality(Requests) \in Nat
  BY <1>2, <1>3, FS_CardinalityType
<1>5. ASSUME M' = M, A' \subseteq A PROVE ReviewCrowd(s, by)'
  <2>1. Cardinality(A') <= Cardinality(A)
    BY <1>3, <1>5, FS_Subset
  <2>2. M # {} => Cardinality(M) + Cardinality(A) <= Cardinality(Requests)
    BY <1>1 DEF ReviewCrowd
  <2>3. M' # {} => Cardinality(M') + Cardinality(A') <= Cardinality(Requests)
    BY <1>4, <1>5, <2>1, <2>2
  <2> QED BY <1>2, <1>5, <2>3 DEF ReviewCrowd
<1>6. ASSUME M' = {} PROVE ReviewCrowd(s, by)'
  BY <1>6, FS_EmptySet DEF ReviewCrowd
<1>7. ASSUME NEW r \in Requests, r \in A', r \notin A
      PROVE  M = {} /\ \A q \in Requests : ~AddReview(q)
  <2>1. ~(req'[r] = req[r]) /\ At(r, "review", "save")'
    BY <1>7 DEF Adding, At
  <2>2. PICK t \in Staff, p \in Residents, stars \in Stars : StartReview(r, t, p, stars)
    BY <1>1, <2>1, RequestStep
  <2>3. req'[r] = [Idle EXCEPT !.op = "review", !.at = "save", !.s = t, !.by = p,
                               !.stars = stars, !.seen = staff[t]]
    BY <1>1, <2>2, Moves DEF StartReview
  <2>4. t = s /\ p = by /\ ReviewsOf(staff[t].reviews, p) = {}
    BY <1>7, <2>3 DEF Adding, Idle
  <2>5. ASSUME NEW q \in Requests, AddReview(q) PROVE FALSE
    <3>1. req'[q].at = "idle"
      BY <1>1, <2>5, Moves DEF AddReview
    <3>2. q # r
      BY <2>1, <3>1 DEF At
    <3> QED BY <1>1, <2>1, <2>5, <3>2 DEF AddReview, Finish
  <2> QED BY <2>4, <2>5 DEF Mine
<1>8. ASSUME NEW r \in Requests, AddReview(r), req[r].s = s, req[r].by = by
      PROVE  ReviewCrowd(s, by)'
  <2> DEFINE new == [by |-> by, stars |-> req[r].stars]
  <2>1. new \in Review /\ r \in A
    BY <1>1, <1>8 DEF AddReview, ReviewOK, Review, Adding
  <2>2. A' \subseteq A
    BY <1>2, <1>7, <1>8
  <2>3. r \notin A'
    <3>1. req'[r].at = "idle"
      BY <1>1, <1>8, Moves DEF AddReview
    <3> QED BY <3>1 DEF Adding, At
  <2>4. staff'[s].reviews = Append(staff[s].reviews, new)
    BY <1>1, <1>8 DEF AddReview, StaffOK
  <2>5. PICK n : M' = M \cup {n} /\ n \notin M
    <3>1. staff[s].reviews \in Seq(Review) /\ new.by = by
      BY <1>1 DEF StaffOK
    <3> HIDE DEF new
    <3> QED BY <2>1, <2>4, <3>1, PushedReview DEF Mine
  <2>6. IsFiniteSet(M') /\ Cardinality(M') = Cardinality(M) + 1
    BY <1>2, <2>5, FS_AddElement
  <2>7. Cardinality(A') <= Cardinality(A) - 1
    <3>1. A' \subseteq A \ {r}
      BY <2>2, <2>3
    <3>2. IsFiniteSet(A \ {r}) /\ Cardinality(A \ {r}) = Cardinality(A) - 1
      BY <1>3, <2>1, FS_RemoveElement
    <3> QED BY <3>1, <3>2, FS_Subset
  <2>8. M = {} => Cardinality(M) = 0
    BY FS_EmptySet
  <2>9. M # {} => Cardinality(M) + Cardinality(A) <= Cardinality(Requests)
    BY <1>1 DEF ReviewCrowd
  <2>10. Cardinality(M') + Cardinality(A') <= Cardinality(Requests)
    BY <1>3, <1>4, <2>6, <2>7, <2>8, <2>9
  <2> QED BY <2>6, <2>10 DEF ReviewCrowd
<1>9. ASSUME NEW r \in Requests, AddReview(r), req[r].s = s, req[r].by # by
      PROVE  ReviewCrowd(s, by)'
  <2> DEFINE new == [by |-> req[r].by, stars |-> req[r].stars]
  <2>1. new \in Review
    BY <1>1, <1>9 DEF AddReview, ReviewOK, Review
  <2>2. staff'[s].reviews = Append(staff[s].reviews, new)
    BY <1>1, <1>9 DEF AddReview, StaffOK
  <2>3. M' = M
    <3>1. staff[s].reviews \in Seq(Review) /\ new.by # by
      BY <1>1, <1>9 DEF StaffOK
    <3> HIDE DEF new
    <3>2. ReviewsOf(Append(staff[s].reviews, new), by) = ReviewsOf(staff[s].reviews, by) \cup {}
      BY <2>1, <3>1, PushedReview
    <3> QED BY <2>2, <3>2 DEF Mine
  <2>4. A' \subseteq A
    BY <1>2, <1>7, <1>9
  <2> QED BY <1>5, <2>3, <2>4
<1>10. CASE M' = M
  <2>1. CASE A' \subseteq A
    BY <1>5, <1>10, <2>1
  <2>2. CASE ~(A' \subseteq A)
    BY <1>2, <1>6, <1>7, <1>10, <2>2
  <2> QED BY <2>1, <2>2
<1> QED BY <1>8, <1>9, <1>10, StaffStep

LEMMA InitRInv == Init => RInv
<1> SUFFICES ASSUME Init PROVE RInv
  OBVIOUS
<1>1. ASSUME NEW s \in Staff PROVE StaffOK(s)
  BY DEF Init, NoStaff, StaffOK
<1>2. ASSUME NEW s \in Staff, NEW by \in Residents PROVE ReviewCrowd(s, by)
  <2>1. Mine(s, by) = {}
    BY DEF Init, NoStaff, Mine, ReviewsOf
  <2> QED BY <2>1, FS_EmptySet DEF ReviewCrowd
<1>3. \A r \in Requests : ReviewOK(r)
  BY DEF Init, Idle, ReviewOK, At
<1> QED BY <1>1, <1>2, <1>3 DEF Init, RInv

\* The invariant of all reachable states, as far as reviews go.
THEOREM ReviewInvariance == Spec => []RInv
<1>1. RInv /\ [Next]_vars => RInv'
  <2> SUFFICES ASSUME RInv, [Next]_vars PROVE RInv'
    OBVIOUS
  <2>1. req' = [r \in Requests |-> req'[r]]
    BY RequestStep DEF RInv
  <2>2. staff' = [s \in Staff |-> staff'[s]]
    BY StaffShape
  <2>3. \A s \in Staff : StaffOK(s)'
    BY StaffStep
  <2> QED BY <2>1, <2>2, <2>3, ReviewRequestsKept, ReviewCrowdKept DEF RInv
<1> QED BY InitRInv, <1>1, PTL DEF Spec

\* A resident has no more reviews of a staff member than requests are served
\* at once: only overlapping first reviews multiply them.
THEOREM SecondReviews == Spec => []SecondReviewsOverlap
<1>1. ASSUME RInv, NEW s \in Staff, NEW by \in Residents
      PROVE  Cardinality(ReviewsOf(staff[s].reviews, by)) <= Cardinality(Requests)
  <2>1. IsFiniteSet(Adding(s, by))
    BY FS_Subset, FiniteAssumption DEF Adding
  <2>2. /\ Cardinality(Adding(s, by)) \in Nat /\ Cardinality(Requests) \in Nat
        /\ Cardinality(Mine(s, by)) \in Nat
    BY <1>1, <2>1, FS_CardinalityType, FiniteAssumption DEF RInv, ReviewCrowd
  <2>3. CASE Mine(s, by) = {}
    BY <2>2, <2>3, FS_EmptySet DEF Mine
  <2>4. CASE Mine(s, by) # {}
    BY <1>1, <2>2, <2>4 DEF RInv, ReviewCrowd, Mine
  <2> QED BY <2>3, <2>4
<1>2. RInv => SecondReviewsOverlap
  BY <1>1 DEF SecondReviewsOverlap
<1> QED BY ReviewInvariance, <1>2, PTL

\* So neither open entries nor second reviews pile up.
THEOREM Repetitions == Spec => []RepetitionsOverlap
BY OpenEntries, SecondReviews, PTL DEF RepetitionsOverlap

-----------------------------------------------------------------------------
(* Ratings.  What a sum is does not matter here, only of what it is taken. *)

\* A review that is pushed onto the reviews as read makes the rating right.
LEMMA FreshAdd ==
    ASSUME RInv, NEW r \in Requests, AddReview(r), req[r].seen = staff[req[r].s]
    PROVE  staff'[req[r].s].rating = RatingOf(staff'[req[r].s].reviews)
<1> DEFINE s == req[r].s
           new == [by |-> req[r].by, stars |-> req[r].stars]
<1>1. s \in Staff /\ DOMAIN staff = Staff /\ StaffOK(s)
  BY DEF RInv, ReviewOK, AddReview
<1>2. /\ staff'[s].reviews = Append(staff[s].reviews, new)
      /\ staff'[s].rating = Written(staff[s].rating,
                                    RatingOf(Append(staff[s].reviews, new)), staff[s].rating)
  BY <1>1 DEF AddReview, StaffOK
<1>3. staff'[s].rating = RatingOf(Append(staff[s].reviews, new))
  BY <1>2 DEF Written
<1> QED BY <1>2, <1>3

\* So does an edit.
LEMMA FreshEdit ==
    ASSUME RInv, NEW r \in Requests, EditReview(r), req[r].seen = staff[req[r].s]
    PROVE  staff'[req[r].s].rating = RatingOf(staff'[req[r].s].reviews)
<1> DEFINE s == req[r].s
           i == First(ReviewsOf(staff[s].reviews, req[r].by))
<1>1. s \in Staff /\ DOMAIN staff = Staff /\ StaffOK(s)
  BY DEF RInv, ReviewOK, EditReview
<1>2. /\ staff'[s].reviews = Edited(staff[s].reviews, i,
                                    Written(staff[s].reviews[i].stars, req[r].stars,
                                            staff[s].reviews[i].stars))
      /\ staff'[s].rating = Written(staff[s].rating,
                                    EditedRating(staff[s], i, req[r].stars), staff[s].rating)
  BY <1>1 DEF EditReview, StaffOK, Edited
<1> HIDE DEF i
<1>3. /\ staff'[s].reviews = Edited(staff[s].reviews, i, req[r].stars)
      /\ staff'[s].rating = EditedRating(staff[s], i, req[r].stars)
  BY <1>2 DEF Written
<1> QED BY <1>3 DEF EditedRating, Edited

\* The step that ends the save of a review, and changes the document, is its own.
LEMMA SaveStep ==
    ASSUME RInv, [Next]_vars, NEW r \in Requests, At(r, "review", "save"),
           req'[r].at = "idle", staff' # staff
    PROVE  AddReview(r) \/ EditReview(r)
<1>1. PICK q \in Requests : Arrive(q) \/ Continue(q) \/ Abort(q)
  BY DEF Next, vars
<1>2. \E new : req' = [req EXCEPT ![q] = new]
  BY <1>1 DEF Arrive, Continue, CreateStaff, StartCheckIn, StartCheckOut, StartReview,
     StartWage, CreateAttendance, SaveCheckOut, AddReview, EditReview, RejectEdit, AddWage,
     Audit, Abort, Begin, Finish, GoAudit
<1>3. q = r
  BY <1>2 DEF At
<1>4. ~Arrive(r)
  BY DEF At, Arrive, CreateStaff, StartCheckIn, StartCheckOut, StartReview, StartWage,
     Begin, Idling
<1> QED
  BY <1>1, <1>3, <1>4 DEF Continue, At, CreateAttendance, SaveCheckOut, RejectEdit, AddWage,
     Audit, Abort, db

\* A review that is saved on the document as it was read makes the rating
\* right, whatever overlapping reviews had made of it.
THEOREM FreshReviews == Spec => FreshReviewCounts
<1> DEFINE Heals(r) == At(r, "review", "save") /\ staff'[req[r].s] # staff[req[r].s]
                          /\ req'[r].at = "idle" /\ req[r].seen = staff[req[r].s]
                       => staff'[req[r].s].rating = RatingOf(staff'[req[r].s].reviews)
<1>1. ASSUME RInv, [Next]_vars, NEW r \in Requests PROVE Heals(r)
  <2> SUFFICES ASSUME At(r, "review", "save"), staff'[req[r].s] # staff[req[r].s],
                      req'[r].at = "idle", req[r].seen = staff[req[r].s]
               PROVE  staff'[req[r].s].rating = RatingOf(staff'[req[r].s].reviews)
    OBVIOUS
  <2>1. AddReview(r) \/ EditReview(r)
    BY <1>1, SaveStep
  <2> QED BY <1>1, <2>1, FreshAdd, FreshEdit
<1>2. RInv /\ [Next]_vars => [\A r \in Requests : Heals(r)]_vars
  BY <1>1
<1> QED BY ReviewInvariance, <1>2, PTL DEF Spec, FreshReviewCounts

-----------------------------------------------------------------------------
(* What recalculateRating sums up.  The induction is one over a set, the   *)
(* numbers for which a fact holds.                                         *)

\* A set of natural numbers has a least element.
LEMMA Least ==
    ASSUME NEW T \in SUBSET Nat, T # {}
    PROVE  \E x \in T : \A y \in T : x <= y
<1> DEFINE R == OpToRel(<, Nat)
<1>1. IsWellFoundedOn(R, Nat)
  BY NatLessThanWellFounded
<1>2. R = {ss \in Nat \X Nat : ss[1] < ss[2]}
  BY Zenon DEF OpToRel
<1> HIDE DEF R
<1>3. PICK x \in T : \A y \in T : ~(<<y, x>> \in R)
  BY <1>1, WFMin
<1>4. ASSUME NEW y \in T, y < x PROVE <<y, x>> \in R
  <2>1. <<y, x>> \in Nat \X Nat /\ <<y, x>>[1] < <<y, x>>[2]
    BY <1>4
  <2> QED BY <1>2, <2>1
<1>5. ASSUME NEW y \in T PROVE x <= y
  <2>1. x \in Nat /\ y \in Nat /\ ~(y < x)
    BY <1>3, <1>4
  <2> QED BY <2>1
<1> QED BY <1>5

\* Induction, for what is said of the members of a set.
LEMMA SetInduction ==
    ASSUME NEW S \in SUBSET Nat, 0 \in S, \A n \in S : n + 1 \in S
    PROVE  \A n \in Nat : n \in S
<1> SUFFICES ASSUME Nat \ S # {} PROVE FALSE
  OBVIOUS
<1>1. PICK x \in Nat \ S : \A y \in Nat \ S : x <= y
  BY Least
<1>2. x - 1 \in Nat /\ x - 1 \notin S /\ (x - 1) + 1 = x
  BY <1>1
<1> QED BY <1>1, <1>2

\* A set of indices has its largest element, and Max finds it.
LEMMA MaxOf ==
    ASSUME NEW n \in Nat, NEW t \in SUBSET (1..n), t # {}
    PROVE  Max(t) \in t /\ \A i \in t : i <= Max(t)
<1> DEFINE Above == {m \in Nat : \A i \in t : i <= m}
<1>1. PICK m \in Above : \A k \in Above : m <= k
  <2>1. n \in Above
    OBVIOUS
  <2> QED BY <2>1, Least
<1>2. m \in t
  <2> SUFFICES ASSUME m \notin t PROVE FALSE
    OBVIOUS
  <2>1. ASSUME NEW i \in t PROVE i \in 1..n /\ i <= m - 1
    <3>1. i \in 1..n /\ i <= m /\ i # m /\ m \in Nat
      BY <1>1
    <3> QED BY <3>1
  <2>2. m \in Nat /\ m >= 1
    <3>1. PICK i \in t : TRUE
      OBVIOUS
    <3>2. i \in 1..n /\ i <= m - 1 /\ m \in Nat
      BY <1>1, <2>1
    <3> QED BY <3>2
  <2>3. m - 1 \in Above
    BY <2>1, <2>2
  <2> QED BY <1>1, <2>2, <2>3
<1>3. \E x \in t : \A y \in t : x >= y
  BY <1>1, <1>2
<1>4. Max(t) \in t /\ \A y \in t : Max(t) >= y
  BY <1>3, Zenon DEF Max
<1> QED BY <1>4

\* What recalculateRating sums up, after the reviews whose places are in t.
Fold(iter, reviews, n) ==
    [t \in SUBSET (1..n) |-> IF t = {} THEN 0 ELSE iter[t \ {Max(t)}] + reviews[Max(t)].stars]

LEMMA FoldExists ==
    ASSUME NEW reviews \in Seq(Review)
    PROVE  \E iter : iter = Fold(iter, reviews, Len(reviews))
<1> DEFINE S == {n \in Nat : n <= Len(reviews) => \E iter : iter = Fold(iter, reviews, n)}
<1>1. 0 \in S
  <2> DEFINE zero == [t \in SUBSET (1..0) |-> 0]
  <2>1. \A t \in SUBSET (1..0) : t = {}
    OBVIOUS
  <2>2. zero = Fold(zero, reviews, 0)
    BY <2>1 DEF Fold
  <2> QED BY <2>2
<1>2. ASSUME NEW n \in S PROVE n + 1 \in S
  <2> SUFFICES ASSUME n + 1 <= Len(reviews)
               PROVE  \E iter : iter = Fold(iter, reviews, n + 1)
    BY <1>2
  <2>1. PICK h : h = Fold(h, reviews, n)
    BY <1>2
  <2> DEFINE new == [t \in SUBSET (1..(n + 1)) |->
                       IF n + 1 \in t THEN h[t \ {n + 1}] + reviews[n + 1].stars ELSE h[t]]
  <2>2. ASSUME NEW t \in SUBSET (1..(n + 1)), n + 1 \in t
        PROVE  Max(t) = n + 1 /\ new[t \ {n + 1}] = h[t \ {n + 1}]
    <3>1. n + 1 \in Nat /\ t # {}
      BY <1>2, <2>2
    <3>2. Max(t) \in t /\ n + 1 <= Max(t)
      BY <2>2, <3>1, MaxOf
    <3>3. Max(t) = n + 1
      <4>1. n \in Nat /\ Max(t) \in 1..(n + 1)
        BY <1>2, <3>2
      <4> QED BY <3>2, <4>1
    <3>4. t \ {n + 1} \in SUBSET (1..(n + 1)) /\ n + 1 \notin t \ {n + 1}
      OBVIOUS
    <3> QED BY <3>3, <3>4
  <2>3. ASSUME NEW t \in SUBSET (1..(n + 1)), n + 1 \notin t, t # {}
        PROVE  h[t] = new[t \ {Max(t)}] + reviews[Max(t)].stars
    <3>1. t \in SUBSET (1..n)
      BY <2>3
    <3>2. h[t] = h[t \ {Max(t)}] + reviews[Max(t)].stars
      BY <2>1, <2>3, <3>1 DEF Fold
    <3>3. t \ {Max(t)} \in SUBSET (1..(n + 1)) /\ n + 1 \notin t \ {Max(t)}
      BY <2>3
    <3> QED BY <3>2, <3>3
  <2>4. h[{}] = 0
    BY <2>1 DEF Fold
  <2>5. new = Fold(new, reviews, n + 1)
    BY <2>2, <2>3, <2>4 DEF Fold
  <2> QED BY <2>5
<1> HIDE DEF S
<1>3. S \in SUBSET Nat
  BY DEF S
<1>4. Len(reviews) \in S
  BY <1>1, <1>2, <1>3, SetInduction
<1> QED BY <1>4 DEF S

\* The total of a rating is the last of the partial sums.
LEMMA PartialSums ==
    ASSUME NEW reviews \in Seq(Review)
    PROVE  \E sums : /\ sums[0] = 0
                     /\ \A n \in 0..(Len(reviews) - 1) :
                           sums[n + 1] = sums[n] + reviews[n + 1].stars
                     /\ RatingOf(reviews) = [count |-> Len(reviews), total |-> sums[Len(reviews)]]
<1> DEFINE fold == CHOOSE iter : iter =
              [t \in SUBSET DOMAIN reviews |->
                 IF t = {} THEN 0 ELSE iter[t \ {Max(t)}] + reviews[Max(t)].stars]
<1>1. FoldLeft(LAMBDA sum, review : sum + review.stars, 0, reviews) = fold[DOMAIN reviews]
  BY Zenon DEF FoldLeft, MapThenFoldSet
<1>2. DOMAIN reviews = 1..Len(reviews) /\ Len(reviews) \in Nat
  OBVIOUS
<1>3. fold = Fold(fold, reviews, Len(reviews))
  <2>1. fold = CHOOSE iter : iter = Fold(iter, reviews, Len(reviews))
    BY <1>2, Zenon DEF Fold
  <2> QED BY <2>1, FoldExists, Zenon
<1> HIDE DEF fold
<1> DEFINE sums == [n \in 0..Len(reviews) |-> fold[1..n]]
<1>4. sums[0] = 0
  BY <1>2, <1>3 DEF Fold
<1>5. ASSUME NEW n \in 0..(Len(reviews) - 1)
      PROVE  sums[n + 1] = sums[n] + reviews[n + 1].stars
  <2> DEFINE t == 1..(n + 1)
  <2>1. n \in Nat /\ n + 1 \in Nat /\ n + 1 <= Len(reviews)
    BY <1>2
  <2>2. t \in SUBSET (1..Len(reviews)) /\ n + 1 \in t /\ t \in SUBSET (1..(n + 1))
    BY <1>2, <2>1
  <2>3. Max(t) \in t /\ n + 1 <= Max(t)
    <3> HIDE DEF t
    <3> QED BY <2>1, <2>2, MaxOf
  <2>4. Max(t) = n + 1
    BY <2>1, <2>3
  <2>5. t \ {n + 1} = 1..n
    BY <2>1
  <2>6. fold[t] = fold[1..n] + reviews[n + 1].stars
    <3> HIDE DEF t
    <3> QED BY <1>3, <2>2, <2>4, <2>5 DEF Fold
  <2> QED BY <1>2, <2>1, <2>6
<1>6. RatingOf(reviews) = [count |-> Len(reviews), total |-> sums[Len(reviews)]]
  <2>1. sums[Len(reviews)] = fold[DOMAIN reviews]
    BY <1>2
  <2> QED BY <1>1, <2>1, Zenon DEF RatingOf
<1> QED BY <1>4, <1>5, <1>6

\* Stars are numbers.
LEMMA StarsCount == ASSUME NEW review \in Review PROVE review.stars \in Nat
<1>1. review.stars \in Stars
  BY DEF Review
<1>2. \A n \in Stars : n \in 1..5
  BY StarsAssumption
<1> QED BY <1>1, <1>2

\* A rating counts all reviews, and its total is a number.
LEMMA RatingType ==
    ASSUME NEW reviews \in Seq(Review)
    PROVE  RatingOf(reviews) \in Rating /\ RatingOf(reviews).count = Len(reviews)
<1>1. PICK sums : /\ sums[0] = 0
                  /\ \A n \in 0..(Len(reviews) - 1) :
                        sums[n + 1] = sums[n] + reviews[n + 1].stars
                  /\ RatingOf(reviews) = [count |-> Len(reviews), total |-> sums[Len(reviews)]]
  BY PartialSums
<1> DEFINE S == {n \in Nat : n <= Len(reviews) => sums[n] \in Nat}
<1>2. 0 \in S
  BY <1>1
<1>3. ASSUME NEW n \in S PROVE n + 1 \in S
  <2> SUFFICES ASSUME n + 1 <= Len(reviews) PROVE sums[n + 1] \in Nat
    BY <1>3
  <2>1. n \in 0..(Len(reviews) - 1) /\ sums[n] \in Nat /\ n + 1 \in 1..Len(reviews)
    BY <1>3
  <2>2. reviews[n + 1] \in Review
    BY <2>1
  <2>3. reviews[n + 1].stars \in Nat
    BY <2>2, StarsCount
  <2> QED BY <1>1, <2>1, <2>3
<1>4. S \in SUBSET Nat /\ Len(reviews) \in Nat
  OBVIOUS
<1> HIDE DEF S
<1>5. Len(reviews) \in S
  BY <1>2, <1>3, <1>4, SetInduction
<1>6. sums[Len(reviews)] \in Nat
  BY <1>4, <1>5 DEF S
<1> QED BY <1>1, <1>4, <1>6 DEF Rating

\* The rating of one review.
LEMMA RatingOfOne ==
    ASSUME NEW reviews \in Seq(Review), Len(reviews) = 1
    PROVE  RatingOf(reviews) = [count |-> 1, total |-> reviews[1].stars]
<1>1. PICK sums : /\ sums[0] = 0
                  /\ \A n \in 0..(Len(reviews) - 1) :
                        sums[n + 1] = sums[n] + reviews[n + 1].stars
                  /\ RatingOf(reviews) = [count |-> Len(reviews), total |-> sums[Len(reviews)]]
  BY PartialSums
<1>2. sums[0 + 1] = sums[0] + reviews[0 + 1].stars
  BY <1>1
<1>3. reviews[1].stars \in Nat
  <2>1. reviews[1] \in Review
    OBVIOUS
  <2> QED BY <2>1, StarsCount
<1> QED BY <1>1, <1>2, <1>3

\* The rating of none.
LEMMA RatingOfNone == RatingOf(<<>>) = [count |-> 0, total |-> 0]
<1>1. <<>> \in Seq(Review) /\ Len(<<>>) = 0
  OBVIOUS
<1> QED BY <1>1, PartialSums

-----------------------------------------------------------------------------
(* Types.                                                                  *)

TInv == TypeOK /\ \A r \in Requests : req[r].at = "audit" => req[r].op \in Op

\* A well-typed request in place of another.
LEMMA Moved ==
    ASSUME TInv, NEW r \in Requests, NEW new \in ReqState, req' = [req EXCEPT ![r] = new],
           new.at = "audit" => new.op \in Op
    PROVE  /\ req' \in [Requests -> ReqState]
           /\ \A q \in Requests : req'[q].at = "audit" => req'[q].op \in Op
<1>1. req \in [Requests -> ReqState]
  BY DEF TInv, TypeOK
<1>2. \A q \in Requests : req'[q] = IF q = r THEN new ELSE req[q]
  BY <1>1
<1>3. req' \in [Requests -> ReqState]
  BY <1>1
<1> QED BY <1>2, <1>3 DEF TInv

LEMMA EmptyTypes == NoStaff \in StaffDoc /\ Idle \in ReqState /\ NoEntry \in Entry
<1>1. NoStaff \in StaffDoc
  BY DEF NoStaff, StaffDoc, Rating
<1> QED BY <1>1 DEF Idle, ReqState, NoEntry, Entry

\* What a request becomes is well typed.
LEMMA RequestTypes ==
    ASSUME RInv, TInv, NEW r \in Requests, Arrive(r) \/ Continue(r) \/ Abort(r)
    PROVE  \E new \in ReqState : /\ req' = [req EXCEPT ![r] = new]
                                 /\ new.at = "audit" => new.op \in Op
<1>1. req[r] \in ReqState /\ (\A s \in Staff : staff[s] \in StaffDoc)
  BY DEF TInv, TypeOK
<1>2. ASSUME NEW s \in Staff, CreateStaff(r, s)
      PROVE  \E new \in ReqState : /\ req' = [req EXCEPT ![r] = new]
                                   /\ new.at = "audit" => new.op \in Op
  <2> DEFINE new == [Idle EXCEPT !.op = "create", !.at = "audit", !.s = s]
  <2>1. new \in ReqState /\ new.op \in Op
    BY EmptyTypes DEF Idle, ReqState, Op
  <2> QED BY <1>2, <2>1 DEF CreateStaff, Begin
<1>3. ASSUME NEW s \in Staff, NEW f \in Flats, NEW a \in Entries,
             StartCheckIn(r, s, f, a) \/ StartCheckOut(r, s, f, a)
      PROVE  \E new \in ReqState : /\ req' = [req EXCEPT ![r] = new]
                                   /\ new.at = "audit" => new.op \in Op
  <2> DEFINE new(op) == [Idle EXCEPT !.op = op, !.at = "save", !.s = s, !.f = f, !.entry = a]
  <2>1. \A op \in Op : new(op) \in ReqState /\ new(op).at = "save"
    BY EmptyTypes DEF Idle, ReqState, Op
  <2>2. "check_in" \in Op /\ "check_out" \in Op
    BY DEF Op
  <2> QED BY <1>3, <2>1, <2>2 DEF StartCheckIn, StartCheckOut, Begin
<1>4. ASSUME NEW s \in Staff, NEW by \in Residents, NEW stars \in Stars,
             StartReview(r, s, by, stars)
      PROVE  \E new \in ReqState : /\ req' = [req EXCEPT ![r] = new]
                                   /\ new.at = "audit" => new.op \in Op
  <2> DEFINE new == [Idle EXCEPT !.op = "review", !.at = "save", !.s = s, !.by = by,
                                 !.stars = stars, !.seen = staff[s]]
  <2>1. new \in ReqState /\ new.at = "save"
    BY <1>1, EmptyTypes DEF Idle, ReqState, Op
  <2> QED BY <1>4, <2>1 DEF StartReview, Begin
<1>5. ASSUME NEW s \in Staff, StartWage(r, s)
      PROVE  \E new \in ReqState : /\ req' = [req EXCEPT ![r] = new]
                                   /\ new.at = "audit" => new.op \in Op
  <2> DEFINE new == [Idle EXCEPT !.op = "wage", !.at = "save", !.s = s]
  <2>1. new \in ReqState /\ new.at = "save"
    BY EmptyTypes DEF Idle, ReqState, Op
  <2> QED BY <1>5, <2>1 DEF StartWage, Begin
<1>6. ASSUME CreateAttendance(r) \/ SaveCheckOut(r) \/ AddWage(r)
      PROVE  \E new \in ReqState : /\ req' = [req EXCEPT ![r] = new]
                                   /\ new.at = "audit" => new.op \in Op
  <2> DEFINE new == [Idle EXCEPT !.op = req[r].op, !.at = "audit", !.s = req[r].s]
  <2>1. req[r].op \in Op
    BY <1>6 DEF CreateAttendance, SaveCheckOut, AddWage, At, Op
  <2>2. new \in ReqState /\ new.op \in Op
    BY <1>1, <2>1, EmptyTypes DEF Idle, ReqState
  <2> QED BY <1>6, <2>2 DEF CreateAttendance, SaveCheckOut, AddWage, GoAudit
<1>7. ASSUME AddReview(r) \/ EditReview(r) \/ RejectEdit(r) \/ Audit(r) \/ Abort(r)
      PROVE  \E new \in ReqState : /\ req' = [req EXCEPT ![r] = new]
                                   /\ new.at = "audit" => new.op \in Op
  <2>1. Idle.at # "audit"
    BY DEF Idle
  <2> QED BY <1>7, <2>1, EmptyTypes DEF AddReview, EditReview, RejectEdit, Audit, Abort, Finish
<1> QED BY <1>2, <1>3, <1>4, <1>5, <1>6, <1>7 DEF Arrive, Continue

\* What is written into a staff document is well typed.
LEMMA StaffTypes ==
    ASSUME RInv, TInv, [Next]_vars, NEW s \in Staff
    PROVE  staff'[s].rating \in Rating
<1>1. \A t \in Staff : staff[t] \in StaffDoc /\ staff[t].rating \in Rating
  BY DEF TInv, TypeOK, StaffDoc
<1>2. DOMAIN staff = Staff /\ \A r \in Requests : req[r].seen.reviews \in Seq(Review)
  BY DEF TInv, TypeOK, ReqState, StaffDoc
<1>3. CASE staff' = staff
  BY <1>1, <1>3
<1>4. ASSUME NEW r \in Requests, NEW t \in Staff, CreateStaff(r, t)
      PROVE  staff'[s].rating \in Rating
  BY <1>1, <1>2, <1>4 DEF CreateStaff, StaffDoc
<1>5. ASSUME NEW r \in Requests, AddWage(r)
      PROVE  staff'[s].rating \in Rating
  BY <1>1, <1>2, <1>5 DEF AddWage, StaffDoc
<1>6. ASSUME NEW r \in Requests, AddReview(r)
      PROVE  staff'[s].rating \in Rating
  <2> DEFINE new == [by |-> req[r].by, stars |-> req[r].stars]
  <2>1. new \in Review
    BY <1>6 DEF RInv, ReviewOK, AddReview, Review
  <2>2. RatingOf(Append(req[r].seen.reviews, new)) \in Rating
    BY <1>2, <2>1, PushedReview, RatingType
  <2>3. \/ staff'[s].rating = staff[s].rating
        \/ staff'[s].rating = RatingOf(Append(req[r].seen.reviews, new))
    BY <1>1, <1>2, <1>6 DEF AddReview, Written, StaffDoc
  <2> QED BY <1>1, <2>2, <2>3
<1>7. ASSUME NEW r \in Requests, EditReview(r)
      PROVE  staff'[s].rating \in Rating
  <2> DEFINE i == First(ReviewsOf(req[r].seen.reviews, req[r].by))
  <2>1. req[r].stars \in Stars
    BY <1>7 DEF RInv, ReviewOK, EditReview
  <2>2. \/ staff'[s].rating = staff[s].rating
        \/ staff'[s].rating = EditedRating(req[r].seen, i, req[r].stars)
    BY <1>1, <1>2, <1>7 DEF EditReview, Written, StaffDoc
  <2> HIDE DEF i
  <2>3. EditedRating(req[r].seen, i, req[r].stars) \in Rating
    BY <1>2, <2>1, EditedReview, RatingType DEF EditedRating, Edited
  <2> QED BY <1>1, <2>2, <2>3
<1>8. ASSUME NEW r \in Requests, Arrive(r) \/ Continue(r) \/ Abort(r)
      PROVE  \/ staff' = staff
             \/ \E t \in Staff : CreateStaff(r, t)
             \/ AddReview(r) \/ EditReview(r) \/ AddWage(r)
  BY <1>8 DEF Arrive, Continue, StartCheckIn, StartCheckOut, StartReview, StartWage,
     CreateAttendance, SaveCheckOut, RejectEdit, Audit, Abort, db
<1> QED BY <1>3, <1>4, <1>5, <1>6, <1>7, <1>8 DEF Next, vars

\* Types are kept.
LEMMA TypeKept == RInv /\ RInv' /\ TInv /\ [Next]_vars => TInv'
<1> SUFFICES ASSUME RInv, RInv', TInv, [Next]_vars PROVE TInv'
  OBVIOUS
<1>1. staff' \in [Staff -> StaffDoc]
  <2>1. staff' = [s \in Staff |-> staff'[s]]
    BY DEF RInv
  <2>2. ASSUME NEW s \in Staff PROVE staff'[s] \in StaffDoc
    <3>1. staff'[s] \in [here : BOOLEAN, reviews : Seq(Review),
                         rating : {staff'[s].rating}, wages : Nat]
      BY DEF RInv, StaffOK
    <3>2. staff'[s].rating \in Rating
      BY StaffTypes
    <3> QED BY <3>1, <3>2 DEF StaffDoc
  <2> QED BY <2>1, <2>2
<1>2. /\ req' \in [Requests -> ReqState]
      /\ \A q \in Requests : req'[q].at = "audit" => req'[q].op \in Op
  <2>1. CASE UNCHANGED vars
    BY <2>1 DEF vars, TInv, TypeOK
  <2>2. CASE \E r \in Requests : Arrive(r) \/ Continue(r) \/ Abort(r)
    BY <2>2, RequestTypes, Moved
  <2> QED BY <2>1, <2>2 DEF Next
<1>3. attendance' \in [Entries -> Entry]
  <2>1. attendance \in [Entries -> Entry] /\ \A r \in Requests : req[r] \in ReqState
    BY DEF TInv, TypeOK
  <2>2. ASSUME NEW r \in Requests, CreateAttendance(r)
        PROVE  attendance' \in [Entries -> Entry]
    BY <2>1, <2>2 DEF CreateAttendance, Entry, ReqState
  <2>3. ASSUME NEW r \in Requests, SaveCheckOut(r)
        PROVE  attendance' \in [Entries -> Entry]
    BY <2>1, <2>3 DEF SaveCheckOut, Entry
  <2>4. CASE attendance' = attendance
    BY <2>1, <2>4
  <2>5. ASSUME NEW r \in Requests, Arrive(r) \/ Continue(r) \/ Abort(r)
        PROVE  attendance' = attendance \/ CreateAttendance(r) \/ SaveCheckOut(r)
    BY <2>5 DEF Arrive, Continue, CreateStaff, StartCheckIn, StartCheckOut, StartReview, StartWage,
       AddReview, EditReview, AddWage, RejectEdit, Audit, Abort, db
  <2> QED BY <2>2, <2>3, <2>4, <2>5 DEF Next, vars
<1>4. audited' \in [Staff -> SUBSET Op]
  <2>1. audited \in [Staff -> SUBSET Op]
    BY DEF TInv, TypeOK
  <2>2. ASSUME NEW r \in Requests, Audit(r) PROVE audited' \in [Staff -> SUBSET Op]
    <3>1. req[r].op \in Op
      BY <2>2 DEF Audit, TInv
    <3> QED BY <2>1, <2>2, <3>1 DEF Audit
  <2>3. CASE audited' = audited
    BY <2>1, <2>3
  <2>4. ASSUME NEW r \in Requests, Arrive(r) \/ Continue(r) \/ Abort(r)
        PROVE  audited' = audited \/ Audit(r)
    BY <2>4 DEF Arrive, Continue, CreateStaff, StartCheckIn, StartCheckOut, StartReview, StartWage,
       CreateAttendance, SaveCheckOut, AddReview, EditReview, AddWage, RejectEdit, Abort, db
  <2> QED BY <2>2, <2>3, <2>4 DEF Next, vars
<1>5. aborts' \in 0..MaxAborts
  <2>1. aborts \in 0..MaxAborts
    BY DEF TInv, TypeOK
  <2>2. ASSUME NEW r \in Requests, Abort(r) PROVE aborts' \in 0..MaxAborts
    BY <2>1, <2>2, BoundAssumption DEF Abort
  <2>3. CASE aborts' = aborts
    BY <2>1, <2>3
  <2>4. ASSUME NEW r \in Requests, Arrive(r) \/ Continue(r)
        PROVE  aborts' = aborts
    BY <2>4 DEF Arrive, Continue, CreateStaff, StartCheckIn, StartCheckOut, StartReview, StartWage,
       CreateAttendance, SaveCheckOut, AddReview, EditReview, AddWage, RejectEdit, Audit
  <2> QED BY <2>2, <2>3, <2>4 DEF Next, vars
<1> QED BY <1>1, <1>2, <1>3, <1>4, <1>5 DEF TInv, TypeOK

LEMMA InitTInv == Init => TInv
<1> SUFFICES ASSUME Init PROVE TInv
  OBVIOUS
<1>1. \A r \in Requests : req[r].at # "audit"
  BY DEF Init, Idle
<1>2. TypeOK
  BY EmptyTypes, BoundAssumption DEF Init, TypeOK
<1> QED BY <1>1, <1>2 DEF TInv

\* The types of all that is stored and of all that requests hold.
THEOREM TypeInvariance == Spec => []TInv
BY ReviewInvariance, InitTInv, TypeKept, PTL DEF Spec

\* Every variable of StaffDesk keeps its type, ratings included.
THEOREM TypeCorrect == Spec => []TypeOK
<1>1. TInv => TypeOK
  BY DEF TInv
<1> QED BY TypeInvariance, <1>1, PTL

-----------------------------------------------------------------------------
(* What a rating counts.                                                   *)

\* A rating that lags behind the reviews at most.
Counted(doc) == /\ doc.rating.count <= Len(doc.reviews)
                /\ Len(doc.reviews) <= 1 => doc.rating = RatingOf(doc.reviews)

\* What is stored has grown since a request read it.
Grown(old, new) == Len(old.reviews) <= Len(new.reviews) /\ old.wages <= new.wages

\* It only grows.
LEMMA GrownOn ==
    ASSUME NEW a, NEW b, NEW c, Grown(a, b), Grown(b, c),
           a.reviews \in Seq(Review), b.reviews \in Seq(Review), c.reviews \in Seq(Review),
           a.wages \in Nat, b.wages \in Nat, c.wages \in Nat
    PROVE  Grown(a, c)
<1>1. Len(a.reviews) \in Nat /\ Len(b.reviews) \in Nat /\ Len(c.reviews) \in Nat
  OBVIOUS
<1>2. Len(a.reviews) <= Len(b.reviews) /\ Len(b.reviews) <= Len(c.reviews)
      /\ a.wages <= b.wages /\ b.wages <= c.wages
  BY DEF Grown
<1>3. \A l, m, n \in Nat : l <= m /\ m <= n => l <= n
  OBVIOUS
<1>4. Len(a.reviews) <= Len(c.reviews) /\ a.wages <= c.wages
  BY <1>1, <1>2, <1>3, Zenon
<1> QED BY <1>4 DEF Grown

\* An edit is then saved only if nothing was pushed, and a first review that is
\* alone writes its rating.
SeenOK(r) == At(r, "review", "save") => Grown(req[r].seen, staff[req[r].s])
                                        /\ Counted(req[r].seen)

NInv == /\ \A s \in Staff : Counted(staff[s])
        /\ \A r \in Requests : SeenOK(r)

\* A pushed review is counted, or the rating stays behind.
LEMMA AddCounts ==
    ASSUME RInv, TInv, NInv, NEW r \in Requests, AddReview(r)
    PROVE  Counted(staff'[req[r].s]) /\ Grown(staff[req[r].s], staff'[req[r].s])
<1> DEFINE s == req[r].s
           seen == req[r].seen
           new == [by |-> req[r].by, stars |-> req[r].stars]
<1>1. s \in Staff /\ new \in Review /\ At(r, "review", "save")
  BY DEF RInv, ReviewOK, AddReview, Review
<1>2. staff[s] \in StaffDoc /\ seen \in StaffDoc /\ DOMAIN staff = Staff
  BY <1>1 DEF TInv, TypeOK, ReqState
<1>3. /\ staff'[s].reviews = Append(staff[s].reviews, new)
      /\ staff'[s].rating = Written(seen.rating, RatingOf(Append(seen.reviews, new)),
                                    staff[s].rating)
      /\ staff'[s].wages = staff[s].wages
  BY <1>1, <1>2 DEF AddReview, StaffDoc
<1>4. Grown(seen, staff[s]) /\ Counted(seen) /\ Counted(staff[s])
  BY <1>1 DEF NInv, SeenOK
<1> HIDE DEF s, seen, new
<1>5. /\ staff[s].reviews \in Seq(Review) /\ seen.reviews \in Seq(Review)
      /\ staff[s].wages \in Nat /\ staff[s].rating.count \in Nat
  BY <1>2 DEF StaffDoc, Rating
<1>6. /\ Append(seen.reviews, new) \in Seq(Review) /\ Append(staff[s].reviews, new) \in Seq(Review)
      /\ Len(Append(seen.reviews, new)) = Len(seen.reviews) + 1
      /\ Len(Append(staff[s].reviews, new)) = Len(staff[s].reviews) + 1
  BY <1>1, <1>5
<1>7. Len(seen.reviews) \in Nat /\ Len(staff[s].reviews) \in Nat
      /\ Len(seen.reviews) <= Len(staff[s].reviews)
  BY <1>4, <1>5 DEF Grown
<1>8. RatingOf(Append(seen.reviews, new)).count = Len(seen.reviews) + 1
  BY <1>6, RatingType
<1>9. staff'[s].rating.count <= Len(staff'[s].reviews)
  BY <1>3, <1>4, <1>5, <1>6, <1>7, <1>8 DEF Written, Counted
<1>10. ASSUME Len(staff'[s].reviews) <= 1
       PROVE  staff'[s].rating = RatingOf(staff'[s].reviews)
  <2>1. Len(seen.reviews) = 0 /\ Len(staff[s].reviews) = 0
    BY <1>3, <1>6, <1>7, <1>10
  <2>2. seen.reviews = <<>> /\ staff[s].reviews = <<>>
    BY <1>5, <2>1
  <2>3. seen.rating.count = 0
    BY <1>4, <2>1, <2>2, RatingOfNone DEF Counted
  <2>4. RatingOf(Append(seen.reviews, new)) # seen.rating
    BY <1>8, <2>1, <2>3
  <2> QED BY <1>3, <2>2, <2>4 DEF Written
<1>11. Grown(staff[s], staff'[s])
  BY <1>3, <1>5, <1>6, <1>7 DEF Grown
<1> QED BY <1>9, <1>10, <1>11 DEF Counted, s

\* An edit counts what it has read, and that is all there is.
LEMMA EditCounts ==
    ASSUME RInv, TInv, NInv, NEW r \in Requests, EditReview(r)
    PROVE  Counted(staff'[req[r].s]) /\ Grown(staff[req[r].s], staff'[req[r].s])
<1> DEFINE s == req[r].s
           seen == req[r].seen
           mine == ReviewsOf(seen.reviews, req[r].by)
           i == First(mine)
           stars == Written(seen.reviews[i].stars, req[r].stars, staff[s].reviews[i].stars)
<1>1. s \in Staff /\ req[r].stars \in Stars /\ At(r, "review", "save")
  BY DEF RInv, ReviewOK, EditReview
<1>2. staff[s] \in StaffDoc /\ seen \in StaffDoc /\ DOMAIN staff = Staff
  BY <1>1 DEF TInv, TypeOK, ReqState
<1>3. /\ staff'[s].reviews = Edited(staff[s].reviews, i, stars)
      /\ staff'[s].rating = Written(seen.rating, EditedRating(seen, i, req[r].stars),
                                    staff[s].rating)
      /\ staff'[s].wages = staff[s].wages
      /\ mine # {}
      /\ Version(staff[s]) = Version(seen)
  BY <1>1, <1>2 DEF EditReview, StaffDoc, Edited, SameVersion
<1>4. Grown(seen, staff[s]) /\ Counted(seen) /\ Counted(staff[s])
  BY <1>1 DEF NInv, SeenOK
<1>5. mine \subseteq DOMAIN seen.reviews
  BY DEF ReviewsOf
<1>6. Len(Edited(staff[s].reviews, i, stars)) = Len(staff[s].reviews)
  <2>1. staff[s].reviews \in Seq(Review)
    BY <1>2 DEF StaffDoc
  <2> HIDE DEF i, stars
  <2> QED BY <2>1 DEF Edited
<1> HIDE DEF s, seen, mine, i, stars
<1>7. /\ staff[s].reviews \in Seq(Review) /\ seen.reviews \in Seq(Review)
      /\ staff[s].wages \in Nat /\ seen.wages \in Nat /\ staff[s].rating.count \in Nat
  BY <1>2 DEF StaffDoc, Rating
<1>8. Len(seen.reviews) = Len(staff[s].reviews) /\ Len(seen.reviews) \in Nat
  BY <1>3, <1>4, <1>7 DEF Version, Grown
<1>9. /\ Edited(seen.reviews, i, req[r].stars) \in Seq(Review)
      /\ Len(Edited(seen.reviews, i, req[r].stars)) = Len(seen.reviews)
      /\ EditedRating(seen, i, req[r].stars) = RatingOf(Edited(seen.reviews, i, req[r].stars))
  <2>1. Edited(seen.reviews, i, req[r].stars) \in Seq(Review)
    BY <1>1, <1>7, EditedReview
  <2>2. Len(Edited(seen.reviews, i, req[r].stars)) = Len(seen.reviews)
    BY <1>7 DEF Edited
  <2> QED BY <2>1, <2>2 DEF EditedRating, Edited
<1>10. EditedRating(seen, i, req[r].stars).count = Len(staff[s].reviews)
  BY <1>8, <1>9, RatingType
<1>11. staff'[s].rating.count <= Len(staff'[s].reviews)
  BY <1>3, <1>4, <1>6, <1>8, <1>10 DEF Written, Counted
<1>12. ASSUME Len(staff'[s].reviews) <= 1
       PROVE  staff'[s].rating = RatingOf(staff'[s].reviews)
  <2>1. i = 1 /\ Len(seen.reviews) = 1 /\ Len(staff[s].reviews) = 1
    <3>0. Len(staff'[s].reviews) = Len(staff[s].reviews)
      BY <1>3, <1>6, Zenon
    <3>1. Len(seen.reviews) = 0 \/ Len(seen.reviews) = 1
      <4>1. Len(seen.reviews) <= 1 /\ Len(seen.reviews) \in Nat
        BY <1>8, <1>12, <3>0, Zenon
      <4>2. \A n \in Nat : n <= 1 => n = 0 \/ n = 1
        OBVIOUS
      <4> QED BY <4>1, <4>2, Zenon
    <3>2. DOMAIN seen.reviews = 1..Len(seen.reviews)
      BY <1>7
    <3>3. mine = {1} /\ Len(seen.reviews) = 1
      <4>1. mine # {}
        BY <1>3
      <4>2. 1..0 = {} /\ 1..1 = {1}
        OBVIOUS
      <4>3. Len(seen.reviews) = 1
        BY <1>5, <3>1, <3>2, <4>1, <4>2, Zenon
      <4>4. mine \subseteq {1}
        BY <1>5, <3>2, <4>2, <4>3, Zenon
      <4> QED BY <4>1, <4>3, <4>4
    <3>4. First({1}) = 1
      BY DEF First
    <3> QED BY <1>8, <3>3, <3>4 DEF i
  <2>2. seen.reviews[1] \in Review /\ staff[s].reviews[1] \in Review
    BY <1>7, <2>1
  <2>3. seen.rating = [count |-> 1, total |-> seen.reviews[1].stars]
        /\ staff[s].rating = [count |-> 1, total |-> staff[s].reviews[1].stars]
    BY <1>4, <1>7, <2>1, RatingOfOne DEF Counted
  <2>4. ASSUME NEW reviews \in Seq(Review), Len(reviews) = 1, NEW t \in Stars
        PROVE  Edited(reviews, 1, t)[1].stars = t
    <3>1. reviews[1] \in Review /\ 1 \in DOMAIN reviews
      BY <2>4
    <3>2. Edited(reviews, 1, t)[1] = [reviews[1] EXCEPT !.stars = t]
      BY <3>1 DEF Edited
    <3> QED BY <3>1, <3>2 DEF Review
  <2>5. EditedRating(seen, i, req[r].stars) = [count |-> 1, total |-> req[r].stars]
    BY <1>1, <1>7, <1>9, <2>1, <2>4, RatingOfOne
  <2>6. stars \in Stars /\ stars = Written(seen.reviews[1].stars, req[r].stars,
                                          staff[s].reviews[1].stars)
    BY <1>1, <2>1, <2>2 DEF Written, Review, stars
  <2>7. RatingOf(staff'[s].reviews) = [count |-> 1, total |-> stars]
    <3>1. Edited(staff[s].reviews, i, stars) \in Seq(Review)
      BY <1>7, <2>6, EditedReview
    <3>2. staff'[s].reviews = Edited(staff[s].reviews, 1, stars)
      BY <1>3, <2>1, Zenon
    <3>3. staff[s].reviews \in Seq(Review) /\ Len(staff[s].reviews) = 1 /\ stars \in Stars
      BY <1>7, <2>1, <2>6
    <3>4. Edited(staff[s].reviews, 1, stars)[1].stars = stars
      BY <2>4, <3>3
    <3>5. Len(Edited(staff[s].reviews, 1, stars)) = 1
      BY <1>6, <2>1
    <3>6. Edited(staff[s].reviews, 1, stars) \in Seq(Review)
      BY <2>1, <3>1
    <3> QED BY <3>2, <3>4, <3>5, <3>6, RatingOfOne
  <2>8. staff'[s].rating = [count |-> 1, total |-> stars]
    BY <1>3, <2>3, <2>5, <2>6 DEF Written
  <2> QED BY <2>7, <2>8
<1>13. Grown(staff[s], staff'[s])
  BY <1>3, <1>6, <1>7, <1>8 DEF Grown
<1> QED BY <1>11, <1>12, <1>13 DEF Counted, s

\* So no step makes a rating count too much, or takes anything back.
LEMMA EachStepCounts ==
    ASSUME RInv, TInv, NInv, [Next]_vars, NEW s \in Staff
    PROVE  Counted(staff'[s]) /\ Grown(staff[s], staff'[s])
<1>1. staff[s] \in StaffDoc /\ DOMAIN staff = Staff /\ Counted(staff[s])
  BY DEF TInv, TypeOK, NInv
<1>2. staff[s].reviews \in Seq(Review) /\ Len(staff[s].reviews) \in Nat /\ staff[s].wages \in Nat
  BY <1>1 DEF StaffDoc
<1>3. CASE staff'[s] = staff[s]
  BY <1>1, <1>2, <1>3 DEF Grown
<1>4. ASSUME NEW r \in Requests, NEW t \in Staff, CreateStaff(r, t)
      PROVE  Counted(staff'[s]) /\ Grown(staff[s], staff'[s])
  <2>1. /\ staff'[s].reviews = staff[s].reviews
        /\ staff'[s].rating = staff[s].rating
        /\ staff'[s].wages = staff[s].wages
    BY <1>1, <1>4 DEF CreateStaff, StaffDoc
  <2> QED BY <1>1, <1>2, <2>1 DEF Counted, Grown
<1>5. ASSUME NEW r \in Requests, AddWage(r)
      PROVE  Counted(staff'[s]) /\ Grown(staff[s], staff'[s])
  <2>1. /\ staff'[s].reviews = staff[s].reviews
        /\ staff'[s].rating = staff[s].rating
        /\ staff'[s].wages = staff[s].wages \/ staff'[s].wages = staff[s].wages + 1
    BY <1>1, <1>5 DEF AddWage, StaffDoc
  <2> QED BY <1>1, <1>2, <2>1 DEF Counted, Grown
<1>6. ASSUME NEW r \in Requests, AddReview(r) \/ EditReview(r)
      PROVE  Counted(staff'[s]) /\ Grown(staff[s], staff'[s])
  <2>1. CASE req[r].s = s
    BY <1>6, <2>1, AddCounts, EditCounts
  <2>2. CASE req[r].s # s
    <3>1. staff'[s] = staff[s]
      BY <1>1, <1>6, <2>2 DEF AddReview, EditReview
    <3> QED BY <1>3, <3>1
  <2> QED BY <2>1, <2>2
<1>7. ASSUME NEW r \in Requests, Arrive(r) \/ Continue(r) \/ Abort(r)
      PROVE  \/ staff' = staff
             \/ \E t \in Staff : CreateStaff(r, t)
             \/ AddReview(r) \/ EditReview(r) \/ AddWage(r)
  BY <1>7 DEF Arrive, Continue, StartCheckIn, StartCheckOut, StartReview, StartWage,
     CreateAttendance, SaveCheckOut, RejectEdit, Audit, Abort, db
<1> QED BY <1>3, <1>4, <1>5, <1>6, <1>7 DEF Next, vars

\* What a request has read stays what it relies on.
LEMMA SeenKept ==
    ASSUME RInv, TInv, NInv, [Next]_vars, NEW r \in Requests
    PROVE  SeenOK(r)'
<1> SUFFICES ASSUME At(r, "review", "save")'
             PROVE  Grown(req[r].seen, staff[req[r].s])' /\ Counted(req[r].seen)'
  BY DEF SeenOK
<1>1. req = [q \in Requests |-> req[q]]
  BY DEF RInv
<1>2. CASE req'[r] = req[r]
  <2>1. At(r, "review", "save") /\ req[r].s \in Staff
    BY <1>2 DEF At, RInv, ReviewOK
  <2>2. Grown(req[r].seen, staff[req[r].s]) /\ Counted(req[r].seen)
    BY <2>1 DEF NInv, SeenOK
  <2>3. Grown(staff[req[r].s], staff'[req[r].s])
    BY <2>1, EachStepCounts
  <2>4. /\ req[r].seen.reviews \in Seq(Review) /\ staff[req[r].s].reviews \in Seq(Review)
        /\ staff'[req[r].s].reviews \in Seq(Review)
        /\ req[r].seen.wages \in Nat /\ staff[req[r].s].wages \in Nat
        /\ staff'[req[r].s].wages \in Nat
    <3>1. req[r].seen \in StaffDoc /\ staff[req[r].s] \in StaffDoc
      BY <2>1 DEF TInv, TypeOK, ReqState
    <3>2. \A s \in Staff : staff'[s].reviews \in Seq(Review) /\ staff'[s].wages \in Nat
      <4>1. \A s \in Staff : StaffOK(s)'
        BY StaffStep
      <4> QED BY <4>1 DEF StaffOK
    <3>3. staff'[req[r].s].reviews \in Seq(Review) /\ staff'[req[r].s].wages \in Nat
      BY <2>1, <3>2
    <3> QED BY <3>1, <3>3 DEF StaffDoc
  <2>5. Grown(req[r].seen, staff'[req[r].s])
    BY <2>2, <2>3, <2>4, GrownOn
  <2>6. Counted(req[r].seen)'
    BY <1>2, <2>2 DEF Counted
  <2>7. Grown(req[r].seen, staff[req[r].s])'
    BY <1>2, <2>5 DEF Grown
  <2> QED BY <2>6, <2>7
<1>3. ASSUME NEW s \in Staff, NEW by \in Residents, NEW stars \in Stars,
             StartReview(r, s, by, stars)
      PROVE  Grown(req[r].seen, staff[req[r].s])' /\ Counted(req[r].seen)'
  <2>1. req'[r] = [Idle EXCEPT !.op = "review", !.at = "save", !.s = s, !.by = by,
                               !.stars = stars, !.seen = staff[s]]
    BY <1>1, <1>3, Moves DEF StartReview
  <2>2. req'[r].s = s /\ req'[r].seen = staff[s] /\ staff' = staff
    BY <1>3, <2>1 DEF Idle, StartReview, db
  <2>3. Grown(staff[s], staff'[s]) /\ Counted(staff[s])
    BY EachStepCounts DEF NInv
  <2> QED BY <2>2, <2>3
<1> QED BY <1>1, <1>2, <1>3, RequestStep

LEMMA InitNInv == Init => NInv
<1> SUFFICES ASSUME Init PROVE NInv
  OBVIOUS
<1>1. \A r \in Requests : ~At(r, "review", "save")
  BY DEF Init, Idle, At
<1>2. Counted(NoStaff)
  BY RatingOfNone DEF NoStaff, Counted
<1> QED BY <1>1, <1>2 DEF Init, NInv, SeenOK

THEOREM RatingInvariance == Spec => []NInv
<1>1. RInv /\ TInv /\ NInv /\ [Next]_vars => NInv'
  <2> SUFFICES ASSUME RInv, TInv, NInv, [Next]_vars PROVE NInv'
    OBVIOUS
  <2> QED BY EachStepCounts, SeenKept DEF NInv
<1> QED BY ReviewInvariance, TypeInvariance, InitNInv, <1>1, PTL DEF Spec

\* However reviews of a staff member overlap, the rating may miss some of them
\* and never counts one too many, and a single review is always counted right.
THEOREM Ratings == Spec => []RatingNeverOvercounts
<1>1. NInv => RatingNeverOvercounts
  BY DEF NInv, Counted, RatingNeverOvercounts
<1> QED BY RatingInvariance, <1>1, PTL
=============================================================================
