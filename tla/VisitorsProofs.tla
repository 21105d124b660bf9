--------------------------- MODULE VisitorsProofs ---------------------------
(***************************************************************************)
(* What is proved of Visitors for any visitors and any finite concurrency. *)
(***************************************************************************)
EXTENDS Visitors, Integers, FiniteSetTheorems, TLAPS

-----------------------------------------------------------------------------
(* The inductive invariant.                                                *)

\* The document tells its story in order, and the log and the notifications
\* do not run ahead of it.
DocumentOK(v) ==
    /\ visitor[v].status = "none" =>
          visitor[v].times = {} /\ logged[v] = {} /\ told[v] = {}
    /\ visitor[v].status = "approved" => Responded(v) /\ answer[v] = "approved"
    /\ visitor[v].status = "checked_in" => Entered(v)
    /\ visitor[v].status = "checked_out" => Exited(v)
    /\ Exited(v) => Entered(v)
    /\ Entered(v) => Responded(v) /\ window[v] # "early"
    /\ admitted[v] = IF Entered(v) THEN {"approved"} ELSE {}
    /\ "checked_in" \in logged[v] \cup told[v] => Entered(v)
    /\ "checked_out" \in logged[v] => Exited(v)
    /\ logged[v] \cap {"approved", "rejected", "pre_approved"} # {} => Responded(v)

\* What a handler has checked before it saves, and relies on when it saves.
DecidedOK(r) ==
    req[r].at = "save" =>
        \/ /\ req[r].op \in {"approved", "rejected"}
           /\ req[r].seen \in {"pending", "approved"}
           /\ req[r].next \in {"approved", "rejected", "left_at_gate"}
        \/ /\ req[r].op = "checked_in"
           /\ req[r].seen = "approved" /\ req[r].next = "checked_in"
           /\ Responded(req[r].v) /\ window[req[r].v] # "early"
           /\ req[r].heard = "approved"
        \/ /\ req[r].op = "checked_out"
           /\ req[r].seen = "checked_in" /\ req[r].next = "checked_out"
           /\ Entered(req[r].v)

\* What it has saved before it reports.
ReportsOK(r) ==
    req[r].at \in {"log", "notify"} =>
        /\ req[r].op \in {"approved", "rejected", "pre_approved"} => Responded(req[r].v)
        /\ req[r].op = "checked_in" => Entered(req[r].v)
        /\ req[r].op = "checked_out" => Exited(req[r].v)

RequestOK(r) ==
    /\ req[r].at # "idle" => req[r].v \in Visitors /\ req[r].op \in Op
    /\ req[r].at # "idle" => visitor[req[r].v].status # "none"
    /\ DecidedOK(r)
    /\ ReportsOK(r)

IInv == /\ TypeOK
        /\ \A v \in Visitors : DocumentOK(v)
        /\ \A r \in Requests : RequestOK(r)

\* The check-ins of v that have read and not saved.  While the status is
\* "approved" none has been saved since it was made so; once one has, no other
\* can begin, and those that were saved took their places from the others.
CheckingIn(v) == {r \in Requests : /\ req[r].at = "save" /\ req[r].op = "checked_in"
                                   /\ req[r].v = v}

Crowd(n, S) == n > 0 => n + Cardinality(S) <= Cardinality(Requests)

EInv == \A v \in Visitors : /\ visitor[v].status \in {"none", "approved"} => entries[v] = 0
                            /\ Crowd(entries[v], CheckingIn(v))

-----------------------------------------------------------------------------
\* An idle request is well typed.
LEMMA IdleType == Idle \in ReqState
  BY DEF Idle, ReqState, VisitorStatus, Answer

\* What a handler saves is a document with the old times and one more.
LEMMA SavedType ==
    ASSUME NEW d \in VisitorDoc, NEW q \in ReqState
    PROVE  /\ Saved(d, q) \in VisitorDoc
           /\ Saved(d, q).times = d.times \cup {TimeOf(q.op)}
           /\ Saved(d, q).status = IF q.next = q.seen THEN d.status ELSE q.next
           /\ TimeOf(q.op) \in Times
<1>1. TimeOf(q.op) \in Times
  BY DEF TimeOf, Times
<1> QED BY <1>1 DEF Saved, VisitorDoc, ReqState

\* Every step of every handler keeps every variable in its type.
LEMMA TypeKept == IInv /\ [Next]_vars => TypeOK'
<1> SUFFICES ASSUME IInv, [Next]_vars PROVE TypeOK'
  OBVIOUS
<1>a. TypeOK /\ \A r \in Requests : RequestOK(r)
  BY DEF IInv
<1> USE <1>a, IdleType, BoundAssumption DEF TypeOK, history
<1>1. ASSUME NEW r \in Requests, NEW v \in Visitors, NEW t \in {"delivery", "guest"},
             NEW w \in Window, PreApprove(r, v, t, w)
      PROVE  TypeOK'
  BY <1>1 DEF PreApprove, Begin, ReqState, VisitorStatus, Answer, VisitorDoc, Times, Op
<1>2. ASSUME NEW r \in Requests, NEW v \in Visitors, NEW t \in {"delivery", "guest"},
             CreateWalkIn(r, v, t)
      PROVE  TypeOK'
  BY <1>2 DEF CreateWalkIn, Begin, ReqState, VisitorStatus, Answer, VisitorDoc, Times, Op, Window
<1>3. ASSUME NEW r \in Requests, NEW v \in Visitors, NEW d \in VisitorStatus,
             StartRespond(r, v, d)
      PROVE  TypeOK'
  BY <1>3 DEF StartRespond, Begin, ReqState, VisitorStatus, Answer, Op, db
<1>4. ASSUME NEW r \in Requests, NEW v \in Visitors, NEW p \in BOOLEAN,
             StartCheckIn(r, v, p)
      PROVE  TypeOK'
  BY <1>4 DEF StartCheckIn, Begin, ReqState, VisitorStatus, Answer, Op, db
<1>5. ASSUME NEW r \in Requests, NEW v \in Visitors, StartCheckOut(r, v) PROVE TypeOK'
  BY <1>5 DEF StartCheckOut, Begin, ReqState, VisitorStatus, Answer, Op, db
<1>6. ASSUME NEW r \in Requests, Save(r) PROVE TypeOK'
  <2>1. Saved(visitor[req[r].v], req[r]) \in VisitorDoc
    BY <1>6, SavedType DEF Save, RequestOK
  <2>2. visitor' \in [Visitors -> VisitorDoc] /\ req' \in [Requests -> ReqState]
    BY <1>6, <2>1 DEF Save, Goto, ReqState
  <2>3. answer' \in [Visitors -> Answer]
    <3>1. req[r].op \in {"approved", "rejected"} => req[r].next \in Answer
      BY <1>6 DEF Save, RequestOK, DecidedOK, Answer
    <3> QED BY <1>6, <3>1 DEF Save, Remember
  <2>4. admitted' \in [Visitors -> SUBSET Answer]
    <3>1. req[r].heard \in Answer
      BY DEF ReqState
    <3> QED BY <1>6, <3>1 DEF Save, Remember
  <2>5. entries' \in [Visitors -> Nat]
    <3> DEFINE x == req[r].v
               n == IF Approves(visitor[x], visitor'[x]) THEN 0
                    ELSE IF req[r].op = "checked_in" THEN entries[x] + 1 ELSE entries[x]
    <3>1. x \in Visitors
      BY <1>6 DEF Save, RequestOK
    <3>2. n \in Nat
      BY <3>1
    <3>3. entries' = [entries EXCEPT ![x] = n]
      BY <1>6 DEF Save, Remember
    <3> HIDE DEF n, x
    <3> QED BY <3>2, <3>3
  <2> QED BY <1>6, <2>2, <2>3, <2>4, <2>5 DEF Save
<1>7. ASSUME NEW r \in Requests, Log(r) PROVE TypeOK'
  <2>1. req[r].op \in Op
    BY <1>7 DEF Log, RequestOK
  <2>2. logged' \in [Visitors -> SUBSET Op]
    BY <1>7, <2>1 DEF Log
  <2>3. CASE Goto(r, "notify")
    BY <1>7, <2>2, <2>3 DEF Log, Goto, ReqState
  <2>4. CASE Finish(r)
    BY <1>7, <2>2, <2>4 DEF Log, Finish
  <2> QED BY <1>7, <2>3, <2>4 DEF Log
<1>8. ASSUME NEW r \in Requests, Notify(r) PROVE TypeOK'
  BY <1>8 DEF Notify, Finish, Subject
<1>9. ASSUME NEW r \in Requests, Abort(r) PROVE TypeOK'
  BY <1>9 DEF Abort, Finish, db
<1>10. ASSUME NEW v \in Visitors, PassTime(v) PROVE TypeOK'
  BY <1>10 DEF PassTime, db, Window
<1>11. CASE UNCHANGED vars
  BY <1>11 DEF vars
<1> QED
  BY <1>1, <1>2, <1>3, <1>4, <1>5, <1>6, <1>7, <1>8, <1>9, <1>10, <1>11
     DEF Next, Arrive, Continue

\* What history makes of a save.
LEMMA Remembered ==
    ASSUME TypeOK, NEW r \in Requests, Save(r), NEW v \in Visitors
    PROVE  /\ req[r].v # v => UNCHANGED <<answer[v], admitted[v], entries[v]>>
           /\ req[r].v = v =>
                /\ answer'[v] = IF req[r].op \in {"approved", "rejected"} THEN req[r].next
                                ELSE answer[v]
                /\ admitted'[v] = IF req[r].op = "checked_in" THEN admitted[v] \cup {req[r].heard}
                                  ELSE admitted[v]
                /\ entries'[v] = IF Approves(visitor[v], visitor'[v]) THEN 0
                                 ELSE IF req[r].op = "checked_in" THEN entries[v] + 1
                                 ELSE entries[v]
BY DEF Save, Remember, TypeOK

-----------------------------------------------------------------------------
\* No step takes a document, a time of it, or the passing of its validFrom
\* back.
Lasts(v) == /\ visitor'[v].status # "none"
            /\ visitor[v].times \subseteq visitor'[v].times
            /\ window[v] # "early" => window'[v] # "early"

\* The database half of the argument: what a handler has checked may become
\* stale in `status`, but not in these.
LEMMA DocumentsLast ==
    ASSUME IInv, [Next]_vars, NEW v \in Visitors, visitor[v].status # "none"
    PROVE  Lasts(v)
<1>1. TypeOK
  BY DEF IInv
<1>2. ASSUME NEW r \in Requests, NEW x \in Visitors, NEW t, NEW w,
             PreApprove(r, x, t, w) \/ CreateWalkIn(r, x, t)
      PROVE  Lasts(v)
  <2>1. x # v
    BY <1>2 DEF PreApprove, CreateWalkIn
  <2> QED BY <1>1, <1>2, <2>1 DEF PreApprove, CreateWalkIn, Lasts, TypeOK
<1>3. CASE UNCHANGED <<visitor, window>>
  BY <1>3 DEF Lasts
<1>4. ASSUME NEW r \in Requests, Save(r) PROVE Lasts(v)
  <2>1. RequestOK(r) /\ req[r] \in ReqState
    BY <1>1 DEF IInv, TypeOK
  <2>2. CASE req[r].v = v
    <3>1. visitor'[v] = Saved(visitor[v], req[r]) /\ window' = window
      BY <1>1, <1>4, <2>2 DEF Save, TypeOK
    <3>2. /\ visitor'[v].times = visitor[v].times \cup {TimeOf(req[r].op)}
          /\ visitor'[v].status = IF req[r].next = req[r].seen THEN visitor[v].status
                                                               ELSE req[r].next
      BY <1>1, <2>1, <3>1, SavedType DEF TypeOK
    <3>3. req[r].next # "none"
      BY <2>1 DEF ReqState, VisitorStatus
    <3> QED BY <3>1, <3>2, <3>3 DEF Lasts
  <2>3. CASE req[r].v # v
    BY <1>1, <1>4, <2>3 DEF Save, TypeOK, Lasts
  <2> QED BY <2>2, <2>3
<1>5. ASSUME NEW x \in Visitors, PassTime(x) PROVE Lasts(v)
  BY <1>1, <1>5 DEF PassTime, TypeOK, Lasts, db
<1>6. ASSUME NEW r \in Requests,
             \/ \E x \in Visitors, d \in VisitorStatus : StartRespond(r, x, d)
             \/ \E x \in Visitors, p \in BOOLEAN : StartCheckIn(r, x, p)
             \/ \E x \in Visitors : StartCheckOut(r, x)
             \/ Log(r) \/ Notify(r) \/ Abort(r)
      PROVE  UNCHANGED <<visitor, window>>
  BY <1>6 DEF StartRespond, StartCheckIn, StartCheckOut, Log, Notify, Abort, db
<1>7. CASE UNCHANGED vars
  BY <1>3, <1>7 DEF vars
<1> QED
  BY <1>2, <1>3, <1>4, <1>5, <1>6, <1>7 DEF Next, Arrive, Continue

-----------------------------------------------------------------------------
\* A request that has ended claims nothing.
LEMMA IdleOK ==
    ASSUME NEW r \in Requests, req'[r] = Idle PROVE RequestOK(r)'
  BY DEF RequestOK, DecidedOK, ReportsOK, Idle

\* What is true of a request survives the steps of the others.
LEMMA OthersKept ==
    ASSUME IInv, [Next]_vars, NEW r \in Requests, req'[r] = req[r]
    PROVE  RequestOK(r)'
<1>1. RequestOK(r)
  BY DEF IInv
<1>2. CASE req[r].at = "idle"
  BY <1>2 DEF RequestOK, DecidedOK, ReportsOK
<1>3. CASE req[r].at # "idle"
  <2>1. PICK v \in Visitors : v = req[r].v /\ visitor[v].status # "none"
    BY <1>1, <1>3 DEF RequestOK
  <2>2. Lasts(v)
    BY <2>1, DocumentsLast
  <2> QED
    BY <1>1, <1>3, <2>1, <2>2
       DEF RequestOK, DecidedOK, ReportsOK, Lasts, Responded, Entered, Exited
<1> QED BY <1>2, <1>3

\* A request's own step leads it where it may be, and so does every step.
LEMMA RequestKept ==
    ASSUME IInv, [Next]_vars, NEW r \in Requests
    PROVE  RequestOK(r)'
<1>1. TypeOK /\ RequestOK(r)
  BY DEF IInv
<1>2. CASE req'[r] = req[r]
  BY <1>2, OthersKept
<1>3. CASE req'[r] = Idle
  BY <1>3, IdleOK
<1>4. ASSUME NEW v \in Visitors, NEW t, NEW w, PreApprove(r, v, t, w)
      PROVE  RequestOK(r)'
  BY <1>1, <1>4 DEF PreApprove, Begin, TypeOK, RequestOK, DecidedOK, ReportsOK, Op, Responded
<1>5. ASSUME NEW v \in Visitors, NEW t, CreateWalkIn(r, v, t) PROVE RequestOK(r)'
  BY <1>1, <1>5 DEF CreateWalkIn, Begin, TypeOK, RequestOK, DecidedOK, ReportsOK, Op
<1>6. ASSUME NEW v \in Visitors, NEW d \in VisitorStatus, StartRespond(r, v, d)
      PROVE  RequestOK(r)'
  BY <1>1, <1>6 DEF StartRespond, Begin, TypeOK, RequestOK, DecidedOK, ReportsOK, Op,
                    Decisions, db
<1>7. ASSUME NEW v \in Visitors, NEW p \in BOOLEAN, StartCheckIn(r, v, p)
      PROVE  RequestOK(r)'
  <2>1. Responded(v) /\ answer[v] = "approved"
    BY <1>7 DEF StartCheckIn, IInv, DocumentOK
  <2> QED
    BY <1>1, <1>7, <2>1 DEF StartCheckIn, Begin, TypeOK, RequestOK, DecidedOK, ReportsOK,
                            Op, db, Responded
<1>8. ASSUME NEW v \in Visitors, StartCheckOut(r, v) PROVE RequestOK(r)'
  <2>1. Entered(v)
    BY <1>8 DEF StartCheckOut, IInv, DocumentOK
  <2> QED
    BY <1>1, <1>8, <2>1 DEF StartCheckOut, Begin, TypeOK, RequestOK, DecidedOK, ReportsOK,
                            Op, db, Entered
<1>9. ASSUME Save(r) PROVE RequestOK(r)'
  <2>1. PICK v \in Visitors : v = req[r].v /\ visitor[v].status # "none"
    BY <1>1, <1>9 DEF Save, RequestOK
  <2>2. Lasts(v)
    BY <2>1, DocumentsLast
  <2>3. visitor'[v].times = visitor[v].times \cup {TimeOf(req[r].op)}
    BY <1>1, <1>9, <2>1, SavedType DEF Save, TypeOK
  <2>4. req'[r].at = "log" /\ req'[r].op = req[r].op /\ req'[r].v = v
    BY <1>1, <1>9, <2>1 DEF Save, Goto, TypeOK, ReqState
  <2>5. req[r].op \in {"approved", "rejected", "checked_in", "checked_out"}
    BY <1>1, <1>9 DEF Save, RequestOK, DecidedOK
  <2>6. /\ req[r].op \in {"approved", "rejected"} => Responded(v)'
        /\ req[r].op = "checked_in" => Entered(v)'
        /\ req[r].op = "checked_out" => Exited(v)'
    BY <2>3 DEF TimeOf, Responded, Entered, Exited
  <2> QED
    BY <1>1, <1>9, <2>1, <2>2, <2>4, <2>5, <2>6
       DEF RequestOK, DecidedOK, ReportsOK, Lasts, Op, Responded, Entered, Exited
<1>10. ASSUME Log(r) PROVE RequestOK(r)'
  <2>1. CASE req'[r] = [req[r] EXCEPT !.at = "notify"]
    BY <1>1, <1>10, <2>1 DEF Log, TypeOK, ReqState, RequestOK, DecidedOK, ReportsOK,
                             Responded, Entered, Exited
  <2> QED
    BY <1>1, <1>3, <1>10, <2>1 DEF Log, Goto, Finish, TypeOK
<1>11. ASSUME Notify(r) \/ Abort(r) PROVE req'[r] = Idle
  BY <1>1, <1>11 DEF Notify, Abort, Finish, TypeOK
<1>12. ASSUME NEW s \in Requests, s # r, Arrive(s) \/ Continue(s) \/ Abort(s)
       PROVE  req'[r] = req[r]
  BY <1>1, <1>12 DEF Arrive, Continue, PreApprove, CreateWalkIn, StartRespond, StartCheckIn,
     StartCheckOut, Save, Log, Notify, Abort, Begin, Goto, Finish, TypeOK
<1>13. ASSUME (\E v \in Visitors : PassTime(v)) \/ UNCHANGED vars
       PROVE  req'[r] = req[r]
  BY <1>13 DEF PassTime, vars
<1> QED
  BY <1>2, <1>3, <1>4, <1>5, <1>6, <1>7, <1>8, <1>9, <1>10, <1>11, <1>12, <1>13
     DEF Next, Arrive, Continue

-----------------------------------------------------------------------------
\* Every step keeps the story of a document in order.
LEMMA DocumentKept ==
    ASSUME IInv, [Next]_vars, NEW v \in Visitors
    PROVE  DocumentOK(v)'
<1>1. TypeOK /\ DocumentOK(v)
  BY DEF IInv
<1>2. CASE /\ visitor'[v] = visitor[v] /\ UNCHANGED <<window, logged, told>>
           /\ UNCHANGED <<answer[v], admitted[v]>>
  BY <1>1, <1>2 DEF DocumentOK, Responded, Entered, Exited
<1>3. ASSUME NEW r \in Requests, NEW x \in Visitors, NEW t, NEW w,
             PreApprove(r, x, t, w) \/ CreateWalkIn(r, x, t)
      PROVE  DocumentOK(v)'
  <2>1. CASE x = v
    <3>1. visitor[v].times = {} /\ logged[v] = {} /\ told[v] = {} /\ admitted[v] = {}
      BY <1>1, <1>3, <2>1 DEF PreApprove, CreateWalkIn, DocumentOK, Entered
    <3>2. logged' = logged /\ told' = told /\ admitted' = admitted
      BY <1>3 DEF PreApprove, CreateWalkIn, history
    <3>3. CASE PreApprove(r, x, t, w)
      <4>1. /\ visitor'[v].status = "approved" /\ visitor'[v].times = {"residentResponseAt"}
            /\ answer'[v] = "approved"
        BY <1>1, <2>1, <3>3 DEF PreApprove, TypeOK
      <4> QED BY <3>1, <3>2, <4>1 DEF DocumentOK, Responded, Entered, Exited
    <3>4. CASE CreateWalkIn(r, x, t)
      <4>1. visitor'[v].status = "pending" /\ visitor'[v].times = {}
        BY <1>1, <2>1, <3>4 DEF CreateWalkIn, TypeOK
      <4> QED BY <3>1, <3>2, <4>1 DEF DocumentOK, Responded, Entered, Exited
    <3> QED BY <1>3, <3>3, <3>4
  <2>2. CASE x # v
    <3>1. /\ visitor'[v] = visitor[v] /\ window'[v] = window[v] /\ answer'[v] = answer[v]
          /\ logged' = logged /\ told' = told /\ admitted' = admitted
      BY <1>1, <1>3, <2>2 DEF PreApprove, CreateWalkIn, TypeOK, history
    <3> QED BY <1>1, <3>1 DEF DocumentOK, Responded, Entered, Exited
  <2> QED BY <2>1, <2>2
<1>4. ASSUME NEW r \in Requests, Save(r) PROVE DocumentOK(v)'
  <2>1. RequestOK(r) /\ req[r] \in ReqState
    BY <1>1 DEF IInv, TypeOK
  <2>2. CASE req[r].v # v
    <3>1. visitor'[v] = visitor[v] /\ UNCHANGED <<window, logged, told>>
      BY <1>1, <1>4, <2>2 DEF Save, TypeOK
    <3>2. UNCHANGED <<answer[v], admitted[v]>>
      BY <1>1, <1>4, <2>2, Remembered
    <3> QED BY <1>2, <3>1, <3>2
  <2>3. CASE req[r].v = v
    <3>1. /\ visitor'[v].times = visitor[v].times \cup {TimeOf(req[r].op)}
          /\ visitor'[v].status = IF req[r].next = req[r].seen THEN visitor[v].status
                                                               ELSE req[r].next
          /\ UNCHANGED <<window, logged, told>>
      BY <1>1, <1>4, <2>1, <2>3, SavedType DEF Save, TypeOK
    <3>2. visitor[v].status # "none" /\ DecidedOK(r) /\ req[r].at = "save"
      BY <1>4, <2>1, <2>3 DEF Save, RequestOK
    <3>3. /\ answer'[v] = IF req[r].op \in {"approved", "rejected"} THEN req[r].next
                          ELSE answer[v]
          /\ admitted'[v] = IF req[r].op = "checked_in" THEN admitted[v] \cup {req[r].heard}
                            ELSE admitted[v]
      BY <1>1, <1>4, <2>3, Remembered
    <3>4. CASE req[r].op \in {"approved", "rejected"}
      <4>1. TimeOf(req[r].op) = "residentResponseAt"
        BY <3>4 DEF TimeOf
      <4>2. /\ req[r].next \in {"approved", "rejected", "left_at_gate"}
            /\ req[r].seen \in {"pending", "approved"}
        BY <3>2, <3>4 DEF DecidedOK
      <4>3. Responded(v)' /\ Entered(v)' = Entered(v) /\ Exited(v)' = Exited(v)
        BY <3>1, <4>1 DEF Responded, Entered, Exited
      <4> QED
        BY <1>1, <3>1, <3>2, <3>3, <3>4, <4>1, <4>2, <4>3 DEF DocumentOK
    <3>5. CASE req[r].op = "checked_in"
      <4>1. TimeOf(req[r].op) = "entryTime"
        BY <3>5 DEF TimeOf
      <4>2. /\ req[r].next = "checked_in" /\ req[r].seen = "approved"
            /\ Responded(v) /\ window[v] # "early" /\ req[r].heard = "approved"
        BY <2>3, <3>2, <3>5 DEF DecidedOK
      <4>3. Responded(v)' = Responded(v) /\ Entered(v)' /\ Exited(v)' = Exited(v)
        BY <3>1, <4>1 DEF Responded, Entered, Exited
      <4> QED
        BY <1>1, <3>1, <3>2, <3>3, <3>5, <4>1, <4>2, <4>3 DEF DocumentOK
    <3>6. CASE req[r].op = "checked_out"
      <4>1. TimeOf(req[r].op) = "exitTime"
        BY <3>6 DEF TimeOf
      <4>2. /\ req[r].next = "checked_out" /\ req[r].seen = "checked_in"
            /\ Entered(v)
        BY <2>3, <3>2, <3>6 DEF DecidedOK
      <4>3. Responded(v)' = Responded(v) /\ Entered(v)' = Entered(v) /\ Exited(v)'
        BY <3>1, <4>1 DEF Responded, Entered, Exited
      <4> QED
        BY <1>1, <3>1, <3>2, <3>3, <3>6, <4>1, <4>2, <4>3 DEF DocumentOK
    <3> QED BY <3>2, <3>4, <3>5, <3>6 DEF DecidedOK
  <2> QED BY <2>2, <2>3
<1>5. ASSUME NEW r \in Requests, Log(r) \/ Notify(r) PROVE DocumentOK(v)'
  <2>1. RequestOK(r)
    BY DEF IInv
  <2>2. visitor' = visitor /\ window' = window /\ answer' = answer /\ admitted' = admitted
    BY <1>5 DEF Log, Notify, history
  <2>3. CASE req[r].v # v
    <3>1. logged'[v] = logged[v] /\ told'[v] = told[v]
      BY <1>1, <1>5, <2>3 DEF Log, Notify, TypeOK
    <3> QED BY <1>1, <2>2, <3>1 DEF DocumentOK, Responded, Entered, Exited
  <2>4. CASE req[r].v = v
    <3>1. /\ visitor[v].status # "none" /\ ReportsOK(r)
          /\ req[r].at \in {"log", "notify"}
      BY <1>5, <2>1, <2>4 DEF Log, Notify, RequestOK
    <3>2. \/ logged'[v] = logged[v] \cup {req[r].op} /\ told'[v] = told[v]
          \/ /\ logged'[v] = logged[v]
             /\ told'[v] = told[v] \cup {IF req[r].op = "checked_in" THEN "checked_in"
                                                                     ELSE "new_request"}
      BY <1>1, <1>5, <2>4 DEF Log, Notify, TypeOK
    <3>3. /\ "checked_in" \in logged'[v] \cup told'[v] => Entered(v)
          /\ "checked_out" \in logged'[v] => Exited(v)
          /\ logged'[v] \cap {"approved", "rejected", "pre_approved"} # {} => Responded(v)
      BY <1>1, <2>4, <3>1, <3>2 DEF DocumentOK, ReportsOK
    <3> QED
      BY <1>1, <2>2, <3>1, <3>3 DEF DocumentOK, Responded, Entered, Exited
  <2> QED BY <2>3, <2>4
<1>6. ASSUME NEW x \in Visitors, PassTime(x) PROVE DocumentOK(v)'
  BY <1>1, <1>6 DEF PassTime, db, history, DocumentOK, TypeOK, Responded, Entered, Exited
<1>7. ASSUME NEW r \in Requests,
             \/ \E x \in Visitors, d \in VisitorStatus : StartRespond(r, x, d)
             \/ \E x \in Visitors, p \in BOOLEAN : StartCheckIn(r, x, p)
             \/ \E x \in Visitors : StartCheckOut(r, x)
             \/ Abort(r)
      PROVE  UNCHANGED <<visitor, window, logged, told, answer, admitted>>
  BY <1>7 DEF StartRespond, StartCheckIn, StartCheckOut, Abort, db, history
<1>8. CASE UNCHANGED vars
  BY <1>2, <1>8 DEF vars, history
<1> QED
  BY <1>2, <1>3, <1>4, <1>5, <1>6, <1>7, <1>8 DEF Next, Arrive, Continue

-----------------------------------------------------------------------------
\* How a crowd may change.
LEMMA CrowdStep ==
    ASSUME NEW n \in Nat, NEW m \in Nat, NEW S, NEW T,
           S \subseteq Requests, T \subseteq Requests, Crowd(n, S),
           \/ m = 0
           \/ m = n /\ T \subseteq S
           \/ m = n + 1 /\ \E r \in S : T \subseteq S \ {r}
    PROVE  Crowd(m, T)
<1>1. IsFiniteSet(S) /\ IsFiniteSet(T) /\ IsFiniteSet(Requests)
  BY FS_Subset, FiniteAssumption
<1>2. Cardinality(S) \in Nat /\ Cardinality(T) \in Nat /\ Cardinality(Requests) \in Nat
  BY <1>1, FS_CardinalityType
<1>3. CASE m = 0
  BY <1>3 DEF Crowd
<1>4. CASE m = n /\ T \subseteq S
  <2>1. Cardinality(T) <= Cardinality(S)
    BY <1>1, <1>4, FS_Subset
  <2> QED BY <1>2, <1>4, <2>1 DEF Crowd
<1>5. ASSUME NEW r \in S, m = n + 1, T \subseteq S \ {r} PROVE Crowd(m, T)
  <2>1. IsFiniteSet(S \ {r}) /\ Cardinality(S \ {r}) = Cardinality(S) - 1
    BY <1>1, FS_RemoveElement
  <2>2. Cardinality(T) <= Cardinality(S) - 1
    BY <1>5, <2>1, FS_Subset
  <2>3. Cardinality(S) <= Cardinality(Requests)
    BY <1>1, FS_Subset
  <2> QED BY <1>2, <1>5, <2>2, <2>3 DEF Crowd
<1> QED BY <1>3, <1>4, <1>5

\* What a step does to the entries of v, the check-ins on their way, and the
\* status that lets another begin.
EntryStep(v) ==
    \/ entries'[v] = 0
    \/ /\ entries'[v] = entries[v] /\ CheckingIn(v)' \subseteq CheckingIn(v)
       /\ visitor'[v].status \in {"none", "approved"} =>
             visitor[v].status \in {"none", "approved"}
    \/ /\ entries'[v] = entries[v] + 1 /\ visitor'[v].status \notin {"none", "approved"}
       /\ \E r \in CheckingIn(v) : CheckingIn(v)' \subseteq CheckingIn(v) \ {r}

LEMMA EntrySteps ==
    ASSUME IInv, [Next]_vars, NEW v \in Visitors,
           visitor[v].status \in {"none", "approved"} => entries[v] = 0
    PROVE  EntryStep(v)
<1>1. TypeOK
  BY DEF IInv
<1>2. ASSUME NEW r \in Requests, NEW x \in Visitors, NEW t, NEW w,
             PreApprove(r, x, t, w) \/ CreateWalkIn(r, x, t)
      PROVE  EntryStep(v)
  <2>1. entries' = entries
    BY <1>2 DEF PreApprove, CreateWalkIn, history
  <2>2. CASE x = v
    <3>1. visitor[v].status = "none"
      BY <1>2, <2>2 DEF PreApprove, CreateWalkIn
    <3> QED BY <2>1, <3>1 DEF EntryStep
  <2>3. CASE x # v
    <3>1. visitor'[v] = visitor[v]
      BY <1>1, <1>2, <2>3 DEF PreApprove, CreateWalkIn, TypeOK
    <3>2. /\ \A q \in Requests : q # r => req'[q] = req[q]
          /\ req'[r].at = "log"
      BY <1>1, <1>2 DEF PreApprove, CreateWalkIn, Begin, TypeOK
    <3>3. CheckingIn(v)' \subseteq CheckingIn(v)
      BY <3>2 DEF CheckingIn
    <3> QED BY <2>1, <3>1, <3>3 DEF EntryStep
  <2> QED BY <2>2, <2>3
<1>3. ASSUME NEW r \in Requests, NEW x \in Visitors, NEW p \in BOOLEAN, StartCheckIn(r, x, p)
      PROVE  EntryStep(v)
  <2>1. visitor' = visitor /\ entries' = entries
    BY <1>3 DEF StartCheckIn, db, history
  <2>2. CASE x = v
    <3>1. visitor[v].status = "approved"
      BY <1>3, <2>2 DEF StartCheckIn
    <3> QED BY <2>1, <3>1 DEF EntryStep
  <2>3. CASE x # v
    <3>1. /\ \A q \in Requests : q # r => req'[q] = req[q]
          /\ req'[r].v = x
      BY <1>1, <1>3 DEF StartCheckIn, Begin, TypeOK
    <3>2. CheckingIn(v)' \subseteq CheckingIn(v)
      BY <2>3, <3>1 DEF CheckingIn
    <3> QED BY <2>1, <3>2 DEF EntryStep
  <2> QED BY <2>2, <2>3
<1>4. ASSUME NEW r \in Requests, Save(r) PROVE EntryStep(v)
  <2>1. RequestOK(r) /\ req[r] \in ReqState
    BY <1>1 DEF IInv, TypeOK
  <2>2. /\ \A q \in Requests : q # r => req'[q] = req[q]
        /\ req'[r].at = "log" /\ req[r].at = "save"
    BY <1>1, <1>4 DEF Save, Goto, TypeOK, ReqState
  <2>3. CheckingIn(v)' \subseteq CheckingIn(v) \ {r}
    BY <2>2 DEF CheckingIn
  <2>4. CASE req[r].v # v
    <3>1. visitor'[v] = visitor[v] /\ entries'[v] = entries[v]
      BY <1>1, <1>4, <2>4, Remembered DEF Save, TypeOK
    <3> QED BY <2>3, <3>1 DEF EntryStep
  <2>5. CASE req[r].v = v
    <3>1. visitor'[v].status = IF req[r].next = req[r].seen THEN visitor[v].status
                                                            ELSE req[r].next
      BY <1>1, <1>4, <2>1, <2>5, SavedType DEF Save, TypeOK
    <3>2. entries'[v] = IF Approves(visitor[v], visitor'[v]) THEN 0
                        ELSE IF req[r].op = "checked_in" THEN entries[v] + 1
                        ELSE entries[v]
      BY <1>1, <1>4, <2>5, Remembered
    <3>3. DecidedOK(r)
      BY <2>1 DEF RequestOK
    <3>4. CASE req[r].op = "checked_in"
      <4>1. visitor'[v].status = "checked_in"
        BY <2>2, <3>1, <3>3, <3>4 DEF DecidedOK
      <4>2. entries'[v] = entries[v] + 1
        BY <3>2, <3>4, <4>1 DEF Approves
      <4>3. r \in CheckingIn(v)
        BY <2>2, <2>5, <3>4 DEF CheckingIn
      <4> QED BY <2>3, <4>1, <4>2, <4>3 DEF EntryStep
    <3>5. CASE req[r].op # "checked_in"
      <4>1. CASE Approves(visitor[v], visitor'[v])
        BY <3>2, <4>1 DEF EntryStep
      <4>2. CASE ~Approves(visitor[v], visitor'[v])
        <5>1. entries'[v] = entries[v]
          BY <3>2, <3>5, <4>2
        <5>2. visitor'[v].status # "none"
          <6>1. visitor[v].status # "none"
            BY <2>1, <2>2, <2>5 DEF RequestOK
          <6> QED BY <1>4, <6>1, DocumentsLast DEF Lasts
        <5>3. visitor'[v].status = "approved" => visitor[v].status = "approved"
          BY <4>2 DEF Approves
        <5> QED BY <2>3, <5>1, <5>2, <5>3 DEF EntryStep
      <4> QED BY <4>1, <4>2
    <3> QED BY <3>4, <3>5
  <2> QED BY <2>4, <2>5
<1>5. ASSUME NEW r \in Requests,
             \/ \E x \in Visitors, d \in VisitorStatus : StartRespond(r, x, d)
             \/ \E x \in Visitors : StartCheckOut(r, x)
             \/ Log(r) \/ Notify(r) \/ Abort(r)
      PROVE  EntryStep(v)
  <2>1. visitor' = visitor /\ entries' = entries
    BY <1>5 DEF StartRespond, StartCheckOut, Log, Notify, Abort, db, history
  <2>2. \A q \in Requests : q # r => req'[q] = req[q]
    BY <1>1, <1>5 DEF StartRespond, StartCheckOut, Log, Notify, Abort, Begin, Goto, Finish, TypeOK
  <2>3. req'[r].at # "save" \/ req'[r].op # "checked_in"
    <3>1. CASE \/ \E x \in Visitors, d \in VisitorStatus : StartRespond(r, x, d)
               \/ \E x \in Visitors : StartCheckOut(r, x)
      BY <1>1, <3>1 DEF StartRespond, StartCheckOut, Begin, TypeOK
    <3>2. CASE Log(r) \/ Notify(r) \/ Abort(r)
      BY <1>1, <3>2 DEF Log, Notify, Abort, Goto, Finish, Idle, TypeOK, ReqState
    <3> QED BY <1>5, <3>1, <3>2
  <2>4. CheckingIn(v)' \subseteq CheckingIn(v)
    BY <2>2, <2>3 DEF CheckingIn
  <2> QED BY <2>1, <2>4 DEF EntryStep
<1>6. ASSUME (\E x \in Visitors : PassTime(x)) \/ UNCHANGED vars PROVE EntryStep(v)
  <2>1. visitor' = visitor /\ entries' = entries /\ req' = req
    BY <1>6 DEF PassTime, db, vars, history
  <2> QED BY <2>1 DEF EntryStep, CheckingIn
<1> QED
  BY <1>2, <1>3, <1>4, <1>5, <1>6 DEF Next, Arrive, Continue

\* So the count keeps within the requests.
LEMMA EntriesKept ==
    ASSUME IInv, EInv, [Next]_vars, NEW v \in Visitors
    PROVE  /\ visitor'[v].status \in {"none", "approved"} => entries'[v] = 0
           /\ Crowd(entries'[v], CheckingIn(v)')
<1>1. entries[v] \in Nat /\ entries'[v] \in Nat
  BY TypeKept DEF IInv, TypeOK
<1>2. /\ visitor[v].status \in {"none", "approved"} => entries[v] = 0
      /\ Crowd(entries[v], CheckingIn(v))
  BY DEF EInv
<1>3. EntryStep(v)
  BY <1>2, EntrySteps
<1>4. CheckingIn(v) \subseteq Requests /\ CheckingIn(v)' \subseteq Requests
  BY DEF CheckingIn
<1>5. Crowd(entries'[v], CheckingIn(v)')
  BY <1>1, <1>2, <1>3, <1>4, CrowdStep DEF EntryStep
<1>6. visitor'[v].status \in {"none", "approved"} => entries'[v] = 0
  BY <1>2, <1>3 DEF EntryStep
<1> QED BY <1>5, <1>6

-----------------------------------------------------------------------------
(* The theorems.                                                           *)

\* The invariant holds of the empty database.
LEMMA InitIInv == Init => IInv
<1> SUFFICES ASSUME Init PROVE IInv
  OBVIOUS
<1>1. TypeOK
  BY IdleType, BoundAssumption
     DEF Init, TypeOK, NoVisitor, VisitorDoc, Times, Window, VisitorStatus, Answer
<1>2. \A v \in Visitors : DocumentOK(v)
  BY DEF Init, DocumentOK, NoVisitor, Responded, Entered, Exited
<1>3. \A r \in Requests : RequestOK(r)
  BY DEF Init, RequestOK, DecidedOK, ReportsOK, Idle
<1> QED BY <1>1, <1>2, <1>3 DEF IInv

\* The invariant is inductive.
THEOREM Invariance == Spec => []IInv
<1>1. IInv /\ [Next]_vars => IInv'
  BY TypeKept, DocumentKept, RequestKept DEF IInv
<1> QED BY InitIInv, <1>1, PTL DEF Spec

\* Every state is well typed: a stale save never writes a status outside the
\* schema's enum, nor turns a visitor into none.
THEOREM TypeCorrect == Spec => []TypeOK
<1>1. IInv => TypeOK
  BY DEF IInv
<1> QED BY Invariance, <1>1, PTL

\* Entries are counted right in every state.
THEOREM EntryInvariance == Spec => []EInv
<1>1. Init => EInv
  BY DEF Init, EInv, Crowd, NoVisitor
<1>2. IInv /\ EInv /\ [Next]_vars => EInv'
  BY EntriesKept DEF EInv
<1> QED BY Invariance, <1>1, <1>2, PTL DEF Spec

\* Whoever has an entry time was let in on a resident's approval, the last
\* answer that was stored when the guard's check-in read, after the pass became
\* valid, and no approval lets in more check-ins than overlap.
THEOREM EntriesAreApproved == Spec => []AdmittedByResident
<1>1. IInv /\ EInv => AdmittedByResident
  <2> SUFFICES ASSUME IInv, EInv, NEW v \in Visitors
               PROVE  /\ Entered(v) => admitted[v] = {"approved"} /\ window[v] # "early"
                      /\ entries[v] <= Cardinality(Requests)
    BY DEF AdmittedByResident
  <2>1. Entered(v) => admitted[v] = {"approved"} /\ window[v] # "early"
    BY DEF IInv, DocumentOK
  <2>2. IsFiniteSet(CheckingIn(v)) /\ IsFiniteSet(Requests)
    BY FS_Subset, FiniteAssumption DEF CheckingIn
  <2>3. Cardinality(CheckingIn(v)) \in Nat /\ Cardinality(Requests) \in Nat
    BY <2>2, FS_CardinalityType
  <2>4. entries[v] \in Nat /\ Crowd(entries[v], CheckingIn(v))
    BY DEF IInv, TypeOK, EInv
  <2> QED BY <2>1, <2>3, <2>4 DEF Crowd
<1> QED BY Invariance, EntryInvariance, <1>1, PTL

\* Entry, exit and status of a visit agree.
THEOREM VisitsAreConsistent == Spec => []VisitIsConsistent
<1>1. IInv => VisitIsConsistent
  BY DEF IInv, DocumentOK, VisitIsConsistent
<1> QED BY Invariance, <1>1, PTL

\* The log and the notifications never claim what did not happen.
THEOREM LogsAreTrue == Spec => []LogIsTrue
<1>1. IInv => LogIsTrue
  BY DEF IInv, DocumentOK, LogIsTrue
<1> QED BY Invariance, <1>1, PTL

\* So the visit can be told from the record.
THEOREM VisitsOnRecord == Spec => []VisitOnRecord
BY VisitsAreConsistent, LogsAreTrue, PTL DEF VisitOnRecord

\* A status that leaves the lifecycle was saved by a request that had read
\* another one.
THEOREM LifecycleUnlessStale == Spec => FreshSavesFollowLifecycle
<1> DEFINE Fresh(v) == \/ visitor'[v].status = visitor[v].status
                       \/ <<visitor[v].status, visitor'[v].status>> \in Lifecycle
                       \/ \E r \in Requests : /\ req[r].at = "save" /\ req'[r].at = "log"
                                              /\ req[r].v = v
                                              /\ req[r].seen # visitor[v].status
<1>1. IInv /\ [Next]_vars => \A v \in Visitors : Fresh(v)
  <2> SUFFICES ASSUME IInv, [Next]_vars, NEW v \in Visitors PROVE Fresh(v)
    OBVIOUS
  <2>1. TypeOK
    BY DEF IInv
  <2>2. ASSUME NEW r \in Requests, Save(r) PROVE Fresh(v)
    <3>1. CASE req[r].v # v
      BY <2>1, <2>2, <3>1 DEF Save, TypeOK
    <3>2. CASE req[r].v = v
      <4>1. visitor'[v].status = IF req[r].next = req[r].seen THEN visitor[v].status
                                                              ELSE req[r].next
        BY <2>1, <2>2, <3>2, SavedType DEF Save, TypeOK
      <4>2. req'[r].at = "log" /\ req[r].at = "save"
        BY <2>1, <2>2 DEF Save, Goto, TypeOK, ReqState
      <4>3. DecidedOK(r)
        BY DEF IInv, RequestOK
      <4>4. \/ req[r].next = req[r].seen
            \/ <<req[r].seen, req[r].next>> \in Lifecycle
        BY <4>2, <4>3 DEF DecidedOK, Lifecycle
      <4> QED BY <3>2, <4>1, <4>2, <4>4
    <3> QED BY <3>1, <3>2
  <2>3. ASSUME NEW r \in Requests, NEW x \in Visitors, NEW t, NEW w,
               PreApprove(r, x, t, w) \/ CreateWalkIn(r, x, t)
        PROVE  Fresh(v)
    BY <2>1, <2>3 DEF PreApprove, CreateWalkIn, TypeOK, Lifecycle
  <2>4. ASSUME NEW r \in Requests,
               \/ \E x \in Visitors, d \in VisitorStatus : StartRespond(r, x, d)
               \/ \E x \in Visitors, p \in BOOLEAN : StartCheckIn(r, x, p)
               \/ \E x \in Visitors : StartCheckOut(r, x)
               \/ Log(r) \/ Notify(r) \/ Abort(r)
        PROVE  visitor' = visitor
    BY <2>4 DEF StartRespond, StartCheckIn, StartCheckOut, Log, Notify, Abort, db
  <2>5. ASSUME (\E x \in Visitors : PassTime(x)) \/ UNCHANGED vars
        PROVE  visitor' = visitor
    BY <2>5 DEF PassTime, db, vars
  <2> QED BY <2>2, <2>3, <2>4, <2>5 DEF Next, Arrive, Continue
<1>2. IInv /\ [Next]_vars => [\A v \in Visitors : Fresh(v)]_vars
  BY <1>1
<1> QED BY Invariance, <1>2, PTL DEF Spec, FreshSavesFollowLifecycle
=============================================================================
