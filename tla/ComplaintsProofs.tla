-------------------------- MODULE ComplaintsProofs --------------------------
(***************************************************************************)
(* What is proved of Complaints for any complaints, comments and requests. *)
(***************************************************************************)
EXTENDS Complaints, TLAPS

-----------------------------------------------------------------------------
(* The inductive invariant.                                                *)

\* The times that a status needs.
TimesOf(c, status) == /\ status = "resolved" => Has(c, "resolvedAt")
                      /\ status = "closed" => Has(c, "closedAt")

\* The resolution or the closing that feedback waits for has happened.
Settled(c) == Has(c, "resolvedAt") \/ Has(c, "closedAt")

\* What the document and its reports say at any time.
DocumentOK(c) ==
    /\ TimesOf(c, complaint[c].status)
    /\ complaint[c].rated => Settled(c)
    /\ \A s \in told[c] : TimesOf(c, s)
    /\ told[c] \cap Comments \subseteq complaint[c].comments
    /\ "feedback" \in audited[c] => complaint[c].rated

\* What a request has read and still relies on when it saves, and what it has
\* stored before it reports.
RequestOK(r) ==
    /\ req[r].at # "idle" => req[r].c \in Complaints /\ req[r].op \in Op
    /\ req[r].at # "idle" => Doc(r).status # "none"
    /\ req[r].op = "comment" => req[r].comment \in Comments
    /\ At(r, "feedback", "save") =>
          Settled(req[r].c) /\ req[r].seen \in {"resolved", "closed"}
    /\ At(r, "feedback", "audit") => Doc(r).rated
    /\ At(r, "status", "audit") => TimesOf(req[r].c, req[r].next)
    /\ At(r, "status", "notify") => TimesOf(req[r].c, req[r].next)
    /\ At(r, "comment", "notify") => req[r].comment \in Doc(r).comments
    /\ req[r].at = "notify" => req[r].op \in {"status", "comment"}

IInv == /\ TypeOK
        /\ \A c \in Complaints : DocumentOK(c)
        /\ \A r \in Requests : RequestOK(r)

-----------------------------------------------------------------------------
\* An idle request is well typed, and relies on nothing.
LEMMA IdleType == Idle \in ReqState
  BY DEF Idle, ReqState, Status

LEMMA IdleOK == ASSUME NEW r \in Requests, req'[r] = Idle PROVE RequestOK(r)'
  BY DEF RequestOK, Idle, At

\* What a request saves is a complaint, when the comment is one.
LEMMA UpdatedType ==
    ASSUME NEW doc \in ComplaintDoc, NEW r \in Requests, req[r] \in ReqState
    PROVE  /\ Updated(doc, r) \in ComplaintDoc
           /\ Rated(doc, r) \in ComplaintDoc
  BY DEF Updated, Rated, TimeOf, ComplaintDoc, ReqState, Status, Times

\* Every step keeps every variable in its type.
LEMMA TypeKept == IInv /\ [Next]_vars => TypeOK'
<1> SUFFICES ASSUME IInv, [Next]_vars PROVE TypeOK'
  OBVIOUS
<1>a. TypeOK /\ \A r \in Requests : RequestOK(r)
  BY DEF IInv
<1> USE <1>a, IdleType, BoundAssumption DEF TypeOK
<1>0. ASSUME NEW r \in Requests, NEW c \in Complaints, NEW op \in Op, NEW next \in Status,
             NEW k \in Comments \cup {None}, NEW loud \in BOOLEAN,
             Read(r, c, op, next, k, loud)
      PROVE  TypeOK'
  <2>1. complaint[c].status \in Status
    BY <1>0 DEF Read, ComplaintDoc
  <2> QED BY <1>0, <2>1 DEF Read, db, ReqState
<1>1. ASSUME NEW r \in Requests, NEW c \in Complaints, CreateComplaint(r, c) PROVE TypeOK'
  <2>1. [Idle EXCEPT !.op = "create", !.at = "audit", !.c = c] \in ReqState
    BY DEF Idle, ReqState, Status, Op
  <2>2. complaint' \in [Complaints -> ComplaintDoc]
    BY <1>1 DEF CreateComplaint, ComplaintDoc, Status
  <2> QED BY <1>1, <2>1, <2>2 DEF CreateComplaint
<1>2. ASSUME NEW r \in Requests, RejectAssignee(r) PROVE TypeOK'
  BY <1>2 DEF RejectAssignee, Finish, db
<1>3. ASSUME NEW r \in Requests, SaveStatus(r) PROVE TypeOK'
  <2>1. req[r].c \in Complaints
    BY <1>3 DEF SaveStatus, At, RequestOK
  <2>2. Updated(complaint[req[r].c], r) \in ComplaintDoc
    BY <2>1, UpdatedType
  <2>3. complaint' \in [Complaints -> ComplaintDoc]
    BY <1>3, <2>1, <2>2 DEF SaveStatus
  <2> QED BY <1>3, <2>3 DEF SaveStatus, Goto, ReqState
<1>4. ASSUME NEW r \in Requests, SaveComment(r) PROVE TypeOK'
  <2>1. req[r].c \in Complaints /\ req[r].comment \in Comments
    BY <1>4 DEF SaveComment, At, RequestOK
  <2>2. complaint' \in [Complaints -> ComplaintDoc]
    BY <1>4, <2>1 DEF SaveComment, ComplaintDoc
  <2> QED BY <1>4, <2>2 DEF SaveComment, Goto, Finish, ReqState
<1>5. ASSUME NEW r \in Requests, SaveFeedback(r) PROVE TypeOK'
  <2>1. req[r].c \in Complaints
    BY <1>5 DEF SaveFeedback, At, RequestOK
  <2>2. Rated(complaint[req[r].c], r) \in ComplaintDoc
    BY <2>1, UpdatedType
  <2>3. complaint' \in [Complaints -> ComplaintDoc]
    BY <1>5, <2>1, <2>2 DEF SaveFeedback
  <2> QED BY <1>5, <2>3 DEF SaveFeedback, Goto, ReqState
<1>6. ASSUME NEW r \in Requests, Audit(r) PROVE TypeOK'
  <2>1. req[r].c \in Complaints /\ req[r].op \in Op
    BY <1>6 DEF Audit, RequestOK
  <2> QED BY <1>6, <2>1 DEF Audit, Goto, Finish, ReqState
<1>7. ASSUME NEW r \in Requests, Notify(r) PROVE TypeOK'
  <2>1. req[r].c \in Complaints /\ (req[r].op # "status" => req[r].comment \in Comments)
    BY <1>7 DEF Notify, RequestOK
  <2>2. req[r].next \in Status
    BY DEF ReqState
  <2> QED BY <1>7, <2>1, <2>2 DEF Notify, Finish
<1>8. ASSUME NEW r \in Requests, Abort(r) PROVE TypeOK'
  BY <1>8 DEF Abort, Finish, db
<1>9. ASSUME NEW r \in Requests, Arrive(r) PROVE TypeOK'
  BY <1>0, <1>1, <1>9 DEF Arrive, StartUpdate, StartComment, StartFeedback, Op, Status
<1>10. CASE UNCHANGED vars
  BY <1>10 DEF vars
<1> QED
  BY <1>2, <1>3, <1>4, <1>5, <1>6, <1>7, <1>8, <1>9, <1>10 DEF Next, Continue

\* A document only grows: times, comments and the rating stay, and so does
\* the document itself.
LEMMA DocumentGrows ==
    ASSUME IInv, [Next]_vars, NEW c \in Complaints
    PROVE  /\ complaint[c].times \subseteq complaint'[c].times
           /\ complaint[c].comments \subseteq complaint'[c].comments
           /\ complaint[c].rated => complaint'[c].rated
           /\ complaint[c].status # "none" => complaint'[c].status # "none"
<1>1. complaint[c] \in ComplaintDoc /\ complaint \in [Complaints -> ComplaintDoc]
      /\ req \in [Requests -> ReqState]
  BY DEF IInv, TypeOK
<1>2. CASE complaint'[c] = complaint[c]
  BY <1>2
<1>3. ASSUME NEW r \in Requests, CreateComplaint(r, c) PROVE complaint[c].status = "none"
             /\ complaint' = [complaint EXCEPT ![c].status = "open"]
  BY <1>3 DEF CreateComplaint
<1>4. ASSUME NEW r \in Requests, complaint'[c] = Updated(complaint[c], r)
      PROVE  /\ complaint[c].times \subseteq complaint'[c].times
             /\ complaint[c].comments \subseteq complaint'[c].comments
             /\ complaint[c].rated => complaint'[c].rated
             /\ complaint[c].status # "none" => complaint'[c].status # "none"
  BY <1>1, <1>4 DEF Updated, ComplaintDoc, ReqState, Status
<1>5. ASSUME NEW r \in Requests, complaint'[c] = Rated(complaint[c], r)
      PROVE  /\ complaint[c].times \subseteq complaint'[c].times
             /\ complaint[c].comments \subseteq complaint'[c].comments
             /\ complaint[c].rated => complaint'[c].rated
             /\ complaint[c].status # "none" => complaint'[c].status # "none"
  BY <1>1, <1>5 DEF Rated, ComplaintDoc
<1>6. ASSUME NEW r \in Requests, SaveComment(r)
      PROVE  /\ complaint[c].times \subseteq complaint'[c].times
             /\ complaint[c].comments \subseteq complaint'[c].comments
             /\ complaint[c].rated => complaint'[c].rated
             /\ complaint[c].status # "none" => complaint'[c].status # "none"
  BY <1>1, <1>6 DEF SaveComment, ComplaintDoc
<1>7. ASSUME NEW r \in Requests, SaveStatus(r)
      PROVE  complaint'[c] = complaint[c] \/ complaint'[c] = Updated(complaint[c], r)
  BY <1>1, <1>7 DEF SaveStatus
<1>8. ASSUME NEW r \in Requests, SaveFeedback(r)
      PROVE  complaint'[c] = complaint[c] \/ complaint'[c] = Rated(complaint[c], r)
  BY <1>1, <1>8 DEF SaveFeedback
<1>9. ASSUME NEW r \in Requests, Arrive(r)
      PROVE  complaint'[c] = complaint[c] \/ CreateComplaint(r, c)
  BY <1>1, <1>9 DEF Arrive, CreateComplaint, StartUpdate, StartComment, StartFeedback, Read, db
<1>10. ASSUME NEW r \in Requests, CreateComplaint(r, c)
       PROVE  /\ complaint[c].times \subseteq complaint'[c].times
              /\ complaint[c].comments \subseteq complaint'[c].comments
              /\ complaint[c].rated => complaint'[c].rated
              /\ complaint[c].status # "none" => complaint'[c].status # "none"
  BY <1>1, <1>3, <1>10 DEF ComplaintDoc
<1> QED
  BY <1>2, <1>4, <1>5, <1>6, <1>7, <1>8, <1>9, <1>10
     DEF Next, Continue, RejectAssignee, Audit, Notify, Abort, db, vars

\* A step keeps the status and its time, and the reports, in step.
LEMMA DocumentKept == IInv /\ [Next]_vars => \A c \in Complaints : DocumentOK(c)'
<1> SUFFICES ASSUME IInv, [Next]_vars, NEW c \in Complaints PROVE DocumentOK(c)'
  OBVIOUS
<1>1. DocumentOK(c) /\ \A r \in Requests : RequestOK(r)
  BY DEF IInv
<1>2. /\ complaint \in [Complaints -> ComplaintDoc]
      /\ told \in [Complaints -> SUBSET (Status \cup Comments)]
      /\ audited \in [Complaints -> SUBSET Op]
      /\ req \in [Requests -> ReqState]
      /\ complaint[c] \in ComplaintDoc
  BY DEF IInv, TypeOK
<1>3. /\ complaint[c].times \subseteq complaint'[c].times
      /\ complaint[c].comments \subseteq complaint'[c].comments
      /\ complaint[c].rated => complaint'[c].rated
  BY DocumentGrows
<1>4. CASE complaint'[c] = complaint[c] /\ told'[c] = told[c] /\ audited'[c] = audited[c]
  BY <1>1, <1>4 DEF DocumentOK, TimesOf, Settled, Has
<1>5. ASSUME told'[c] = told[c], audited'[c] = audited[c],
             TimesOf(c, complaint[c].status)', complaint'[c].rated => Settled(c)'
      PROVE  DocumentOK(c)'
  BY <1>1, <1>3, <1>5 DEF DocumentOK, TimesOf, Settled, Has
<1>6. ASSUME NEW r \in Requests, CreateComplaint(r, c) PROVE DocumentOK(c)'
  <2>1. complaint'[c] = [complaint[c] EXCEPT !.status = "open"]
        /\ told' = told /\ audited' = audited
    BY <1>2, <1>6 DEF CreateComplaint
  <2>2. TimesOf(c, complaint[c].status)' /\ (complaint'[c].rated => Settled(c)')
    BY <1>1, <1>2, <2>1 DEF DocumentOK, TimesOf, Settled, Has, ComplaintDoc
  <2> QED BY <1>5, <2>1, <2>2
<1>7. ASSUME NEW r \in Requests, SaveStatus(r), req[r].c = c PROVE DocumentOK(c)'
  <2>1. complaint'[c] = Updated(complaint[c], r) /\ told' = told /\ audited' = audited
    BY <1>2, <1>7 DEF SaveStatus
  <2>2. complaint'[c].times = complaint[c].times \cup TimeOf(req[r].next)
        /\ complaint'[c].rated = complaint[c].rated
        /\ complaint'[c].status \in {complaint[c].status, req[r].next}
    BY <1>2, <2>1 DEF Updated, ComplaintDoc
  <2>3. req[r].next = "resolved" => "resolvedAt" \in complaint'[c].times
    BY <2>2 DEF TimeOf
  <2>4. req[r].next = "closed" => "closedAt" \in complaint'[c].times
    BY <2>2 DEF TimeOf
  <2>5. TimesOf(c, complaint[c].status)' /\ (complaint'[c].rated => Settled(c)')
    BY <1>1, <1>3, <2>2, <2>3, <2>4 DEF DocumentOK, TimesOf, Settled, Has
  <2> QED BY <1>5, <2>1, <2>5
<1>8. ASSUME NEW r \in Requests, SaveComment(r), req[r].c = c PROVE DocumentOK(c)'
  <2>1. /\ complaint'[c].status = complaint[c].status
        /\ complaint'[c].rated = complaint[c].rated
        /\ told' = told /\ audited' = audited
    BY <1>2, <1>8 DEF SaveComment, ComplaintDoc
  <2> QED BY <1>1, <1>3, <1>5, <2>1 DEF DocumentOK, TimesOf, Settled, Has
<1>9. ASSUME NEW r \in Requests, SaveFeedback(r), req[r].c = c PROVE DocumentOK(c)'
  <2>1. complaint'[c] = Rated(complaint[c], r) /\ told' = told /\ audited' = audited
    BY <1>2, <1>9 DEF SaveFeedback
  <2>2. Settled(c)
    BY <1>1, <1>9 DEF SaveFeedback, RequestOK
  <2>3. \/ complaint'[c].status = complaint[c].status
        \/ complaint'[c].status = "closed" /\ "closedAt" \in complaint'[c].times
    BY <1>2, <2>1 DEF Rated, ComplaintDoc
  <2>4. TimesOf(c, complaint[c].status)' /\ Settled(c)'
    BY <1>1, <1>3, <2>2, <2>3 DEF DocumentOK, TimesOf, Settled, Has
  <2> QED BY <1>5, <2>1, <2>4
<1>10. ASSUME NEW r \in Requests, Audit(r), req[r].c = c PROVE DocumentOK(c)'
  <2>1. audited'[c] = audited[c] \cup {req[r].op} /\ complaint' = complaint /\ told' = told
    BY <1>2, <1>10 DEF Audit
  <2>2. req[r].op = "feedback" => complaint[c].rated
    BY <1>1, <1>10 DEF Audit, RequestOK, At, Doc
  <2> QED BY <1>1, <2>1, <2>2 DEF DocumentOK, TimesOf, Settled, Has
<1>11. ASSUME NEW r \in Requests, Notify(r), req[r].c = c PROVE DocumentOK(c)'
  <2>1. complaint' = complaint /\ audited' = audited
        /\ told'[c] = told[c] \cup {IF req[r].op = "status" THEN req[r].next ELSE req[r].comment}
    BY <1>2, <1>11 DEF Notify
  <2>2. CASE req[r].op = "status"
    <3>1. TimesOf(c, req[r].next) /\ req[r].next \notin Comments
      BY <1>1, <1>2, <1>11, <2>2, CommentAssumption DEF Notify, RequestOK, At, ReqState
    <3> QED BY <1>1, <2>1, <2>2, <3>1 DEF DocumentOK, TimesOf, Settled, Has
  <2>3. CASE req[r].op = "comment"
    <3>1. req[r].comment \in complaint[c].comments /\ req[r].comment \notin Status
      BY <1>1, <1>2, <1>11, <2>3, CommentAssumption DEF Notify, RequestOK, At, Doc
    <3>2. TimesOf(c, req[r].comment)
      BY <3>1 DEF TimesOf, Status
    <3> QED BY <1>1, <2>1, <2>3, <3>1, <3>2 DEF DocumentOK, TimesOf, Settled, Has
  <2> QED BY <1>1, <1>11, <2>2, <2>3 DEF Notify, RequestOK
<1>12. ASSUME NEW r \in Requests, Continue(r), req[r].c # c PROVE DocumentOK(c)'
  BY <1>2, <1>4, <1>12
     DEF Continue, RejectAssignee, SaveStatus, SaveComment, SaveFeedback, Audit, Notify, db
<1>13. ASSUME NEW r \in Requests, Continue(r), req[r].c = c PROVE DocumentOK(c)'
  BY <1>4, <1>7, <1>8, <1>9, <1>10, <1>11, <1>13 DEF Continue, RejectAssignee, db
<1>14. ASSUME NEW r \in Requests, Arrive(r) PROVE DocumentOK(c)'
  <2>1. ASSUME NEW d \in Complaints, d # c, CreateComplaint(r, d) PROVE DocumentOK(c)'
    BY <1>2, <1>4, <2>1 DEF CreateComplaint
  <2> QED
    BY <1>4, <1>6, <1>14, <2>1 DEF Arrive, StartUpdate, StartComment, StartFeedback, Read, db
<1>15. ASSUME NEW r \in Requests, Abort(r) PROVE DocumentOK(c)'
  BY <1>4, <1>15 DEF Abort, db
<1>16. CASE UNCHANGED vars
  BY <1>4, <1>16 DEF vars
<1> QED BY <1>12, <1>13, <1>14, <1>15, <1>16 DEF Next

\* What another request did leaves a request's grounds standing.
LEMMA RequestStands ==
    ASSUME IInv, [Next]_vars, NEW r \in Requests, req'[r] = req[r]
    PROVE  RequestOK(r)'
<1>1. RequestOK(r)
  BY DEF IInv
<1>2. CASE req[r].at = "idle"
  BY <1>1, <1>2 DEF RequestOK, At
<1>3. CASE req[r].at # "idle"
  <2>1. req[r].c \in Complaints
    BY <1>1, <1>3 DEF RequestOK
  <2>2. /\ complaint[req[r].c].times \subseteq complaint'[req[r].c].times
        /\ complaint[req[r].c].comments \subseteq complaint'[req[r].c].comments
        /\ complaint[req[r].c].rated => complaint'[req[r].c].rated
        /\ complaint[req[r].c].status # "none" => complaint'[req[r].c].status # "none"
    BY <2>1, DocumentGrows
  <2> QED BY <1>1, <2>2 DEF RequestOK, At, Doc, Settled, TimesOf, Has
<1> QED BY <1>2, <1>3

\* A request saves what it relies on, and reports what it has saved.
LEMMA RequestKept == IInv /\ [Next]_vars => \A r \in Requests : RequestOK(r)'
<1> SUFFICES ASSUME IInv, [Next]_vars, NEW r \in Requests PROVE RequestOK(r)'
  OBVIOUS
<1>1. RequestOK(r) /\ \A c \in Complaints : DocumentOK(c)
  BY DEF IInv
<1>2. /\ complaint \in [Complaints -> ComplaintDoc]
      /\ req \in [Requests -> ReqState]
      /\ req[r] \in ReqState
  BY DEF IInv, TypeOK
<1>3. CASE req'[r] = req[r]
  BY <1>3, RequestStands
<1>4. ASSUME NEW c \in Complaints, CreateComplaint(r, c) PROVE RequestOK(r)'
  <2>1. req'[r] = [Idle EXCEPT !.op = "create", !.at = "audit", !.c = c]
        /\ complaint'[c].status = "open"
    BY <1>2, <1>4 DEF CreateComplaint, ComplaintDoc
  <2> QED BY <2>1 DEF RequestOK, At, Doc, Idle, Op
<1>5. ASSUME NEW c \in Complaints, NEW op \in {"status", "comment"}, NEW next, NEW k,
             NEW loud, Read(r, c, op, next, k, loud), op = "comment" => k \in Comments
      PROVE  RequestOK(r)'
  <2>1. req'[r] = [op |-> op, at |-> "save", c |-> c, seen |-> complaint[c].status,
                   next |-> next, comment |-> k, loud |-> loud]
        /\ complaint' = complaint /\ complaint[c].status # "none"
    BY <1>2, <1>5 DEF Read, db
  <2> QED BY <1>5, <2>1 DEF RequestOK, At, Doc, Op
<1>6. ASSUME NEW c \in Complaints, StartFeedback(r, c) PROVE RequestOK(r)'
  <2>1. req'[r] = [op |-> "feedback", at |-> "save", c |-> c, seen |-> complaint[c].status,
                   next |-> "closed", comment |-> None, loud |-> FALSE]
        /\ complaint' = complaint /\ complaint[c].status \in {"resolved", "closed"}
    BY <1>2, <1>6 DEF StartFeedback, Read, db
  <2>2. Settled(c)
    BY <1>1, <2>1 DEF DocumentOK, TimesOf, Settled
  <2> QED BY <2>1, <2>2 DEF RequestOK, At, Doc, Op, Settled, Has
<1>7. ASSUME SaveStatus(r) PROVE RequestOK(r)'
  <2>1. req'[r] = [req[r] EXCEPT !.at = "audit"] /\ req[r].c \in Complaints
        /\ req[r].op = "status" /\ complaint'[req[r].c] = Updated(complaint[req[r].c], r)
    BY <1>1, <1>2, <1>7 DEF SaveStatus, Goto, At, RequestOK
  <2>2. complaint'[req[r].c].status # "none"
    BY <1>1, <1>7, <2>1, DocumentGrows DEF SaveStatus, At, RequestOK, Doc
  <2>3. TimeOf(req[r].next) \subseteq complaint'[req[r].c].times
    BY <1>2, <2>1 DEF Updated, ComplaintDoc
  <2>4. req[r].next = "resolved" => "resolvedAt" \in complaint'[req[r].c].times
    BY <2>3 DEF TimeOf
  <2>5. req[r].next = "closed" => "closedAt" \in complaint'[req[r].c].times
    BY <2>3 DEF TimeOf
  <2> QED BY <1>2, <2>1, <2>2, <2>4, <2>5 DEF RequestOK, At, Doc, TimesOf, Has, Op, ReqState
<1>8. ASSUME SaveComment(r) PROVE RequestOK(r)'
  <2>1. CASE ~req[r].loud
    BY <1>2, <1>8, <2>1, IdleOK DEF SaveComment, Finish
  <2>2. CASE req[r].loud
    <3>1. req'[r] = [req[r] EXCEPT !.at = "notify"] /\ req[r].c \in Complaints
          /\ req[r].op = "comment" /\ req[r].comment \in Comments
      BY <1>1, <1>2, <1>8, <2>2 DEF SaveComment, Goto, At, RequestOK
    <3>2. complaint'[req[r].c].status # "none"
          /\ req[r].comment \in complaint'[req[r].c].comments
      BY <1>1, <1>2, <1>8, <3>1 DEF SaveComment, At, RequestOK, Doc, ComplaintDoc
    <3> QED BY <1>2, <3>1, <3>2 DEF RequestOK, At, Doc, Op, ReqState
  <2> QED BY <1>2, <2>1, <2>2 DEF ReqState
<1>9. ASSUME SaveFeedback(r) PROVE RequestOK(r)'
  <2>1. req'[r] = [req[r] EXCEPT !.at = "audit"] /\ req[r].c \in Complaints
        /\ req[r].op = "feedback" /\ complaint'[req[r].c] = Rated(complaint[req[r].c], r)
    BY <1>1, <1>2, <1>9 DEF SaveFeedback, Goto, At, RequestOK
  <2>2. complaint'[req[r].c].status # "none"
    BY <1>1, <1>9, <2>1, DocumentGrows DEF SaveFeedback, At, RequestOK, Doc
  <2>3. complaint'[req[r].c].rated
    BY <1>2, <2>1 DEF Rated, ComplaintDoc
  <2> QED BY <1>2, <2>1, <2>2, <2>3 DEF RequestOK, At, Doc, Op, ReqState
<1>10. ASSUME Audit(r) PROVE RequestOK(r)'
  <2>1. CASE req[r].op # "status"
    BY <1>2, <1>10, <2>1, IdleOK DEF Audit, Finish
  <2>2. CASE req[r].op = "status"
    <3>1. req'[r] = [req[r] EXCEPT !.at = "notify"] /\ complaint' = complaint
      BY <1>2, <1>10, <2>2 DEF Audit, Goto
    <3> QED
      BY <1>1, <1>2, <1>10, <2>2, <3>1 DEF Audit, RequestOK, At, Doc, TimesOf, Has, ReqState
  <2> QED BY <2>1, <2>2
<1>11. ASSUME RejectAssignee(r) \/ Notify(r) \/ Abort(r) PROVE RequestOK(r)'
  BY <1>2, <1>11, IdleOK DEF RejectAssignee, Notify, Abort, Finish
<1>12. ASSUME NEW q \in Requests, q # r, Arrive(q) \/ Continue(q) \/ Abort(q)
       PROVE  req'[r] = req[r]
  BY <1>2, <1>12 DEF Arrive, CreateComplaint, StartUpdate, StartComment, StartFeedback, Read,
     Continue, RejectAssignee, SaveStatus, SaveComment, SaveFeedback, Audit, Notify, Abort,
     Goto, Finish
<1>13. ASSUME Arrive(r) PROVE RequestOK(r)'
  BY <1>4, <1>5, <1>6, <1>13 DEF Arrive, StartUpdate, StartComment
<1>14. ASSUME Continue(r) PROVE RequestOK(r)'
  BY <1>7, <1>8, <1>9, <1>10, <1>11, <1>14 DEF Continue
<1>15. CASE UNCHANGED vars
  BY <1>3, <1>15 DEF vars
<1> QED BY <1>3, <1>11, <1>12, <1>13, <1>14, <1>15 DEF Next

-----------------------------------------------------------------------------
LEMMA InitIInv == Init => IInv
<1> SUFFICES ASSUME Init PROVE IInv
  OBVIOUS
<1>1. TypeOK
  BY IdleType, BoundAssumption DEF Init, TypeOK, NoComplaint, ComplaintDoc
<1>2. ASSUME NEW c \in Complaints PROVE DocumentOK(c)
  BY DEF Init, DocumentOK, NoComplaint, TimesOf
<1>3. ASSUME NEW r \in Requests PROVE RequestOK(r)
  BY DEF Init, RequestOK, Idle, At
<1> QED BY <1>1, <1>2, <1>3 DEF IInv

\* The invariant of all reachable states.
THEOREM Invariance == Spec => []IInv
<1>1. IInv /\ [Next]_vars => IInv'
  BY TypeKept, DocumentKept, RequestKept DEF IInv
<1> QED BY InitIInv, <1>1, PTL DEF Spec

\* Every document, report and request is of its type.
THEOREM TypeCorrect == Spec => []TypeOK
<1>1. IInv => TypeOK
  BY DEF IInv
<1> QED BY Invariance, <1>1, PTL

\* Whatever saves overlap, the status a complaint shows has its time.
THEOREM StatusTimed == Spec => []StatusHasTime
<1>1. IInv => StatusHasTime
  BY DEF IInv, DocumentOK, TimesOf, StatusHasTime
<1> QED BY Invariance, <1>1, PTL

\* A rating is only ever stored on a complaint that has been resolved or closed.
THEOREM RatingWaits == Spec => []RatedAfterResolution
<1>1. IInv => RatedAfterResolution
  BY DEF IInv, DocumentOK, Settled, RatedAfterResolution
<1> QED BY Invariance, <1>1, PTL

\* So the times bear out the status and the rating.
THEOREM TimesBearOut == Spec => []TimesTellTheStory
BY StatusTimed, RatingWaits, PTL DEF TimesTellTheStory

\* What the resident is told and what is audited has been stored.
THEOREM ReportsAreTrue == Spec => []ToldIsTrue
<1>1. IInv => ToldIsTrue
  BY DEF IInv, DocumentOK, TimesOf, ToldIsTrue
<1> QED BY Invariance, <1>1, PTL

\* Feedback that is stored on a complaint as it was read closes it.
THEOREM FeedbackClosing == Spec => FeedbackCloses
<1>1. ASSUME IInv, Next, NEW r \in Requests, At(r, "feedback", "save"),
             req'[r].at = "audit"
      PROVE  complaint'[req[r].c].status = "closed" \/ req[r].seen # Doc(r).status
  <2>1. req \in [Requests -> ReqState] /\ complaint \in [Complaints -> ComplaintDoc]
    BY <1>1 DEF IInv, TypeOK
  <2>2. req[r].c \in Complaints /\ req[r].seen \in {"resolved", "closed"}
    BY <1>1 DEF IInv, RequestOK, At
  <2>3. SaveFeedback(r)
    <3>1. PICK q \in Requests : Arrive(q) \/ Continue(q) \/ Abort(q)
      BY <1>1 DEF Next
    <3>2. q = r
      BY <1>1, <2>1, <3>1 DEF At, Arrive, CreateComplaint, StartUpdate, StartComment,
         StartFeedback, Read, Continue, RejectAssignee, SaveStatus, SaveComment,
         SaveFeedback, Audit, Notify, Abort, Goto, Finish
    <3>3. ~Arrive(r) /\ ~Abort(r)
      BY <1>1, <2>1 DEF At, Arrive, CreateComplaint, StartUpdate, StartComment,
         StartFeedback, Read, Abort, Finish, Idling, Idle
    <3> QED
      BY <1>1, <3>1, <3>2, <3>3 DEF At, Continue, RejectAssignee, SaveStatus, SaveComment,
         Audit, Notify
  <2>4. complaint'[req[r].c] = Rated(complaint[req[r].c], r)
        /\ complaint[req[r].c] \in ComplaintDoc
    BY <2>1, <2>2, <2>3 DEF SaveFeedback
  <2>5. CASE req[r].seen = "resolved"
    BY <2>4, <2>5 DEF Rated, ComplaintDoc
  <2>6. CASE req[r].seen = "closed" /\ Doc(r).status = "closed"
    BY <2>4, <2>6 DEF Rated, ComplaintDoc, Doc
  <2> QED BY <2>2, <2>5, <2>6
<1>2. IInv /\ [Next]_vars =>
        [\A r \in Requests :
            At(r, "feedback", "save") /\ req'[r].at = "audit"
            => \/ complaint'[req[r].c].status = "closed"
               \/ req[r].seen # Doc(r).status]_vars
  BY <1>1
<1> QED BY Invariance, <1>2, PTL DEF Spec, FeedbackCloses
=============================================================================
