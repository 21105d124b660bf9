--------------------------- MODULE SecurityProofs ---------------------------
(***************************************************************************)
(* What is proved of the two models of security.controller.js: GuardDuty,  *)
(* for any guards, any concurrency and any number of shifts and scans, and *)
(* Alerts, for any alerts, responders and reports.                         *)
(***************************************************************************)
EXTENDS GuardDuty, Alerts, FiniteSetTheorems, TLAPS

-----------------------------------------------------------------------------
(* The inductive invariant.                                                *)

\* What a handler has checked, and still relies on when it saves or logs.
RequestOK(r) ==
    /\ req[r].at \notin {"idle", "entry"} => req[r].guard \in Guards
    /\ req[r].at = "entry" => req[r].checkpoint \in checkpoints
    /\ req[r].op = "checkpoint" <=> req[r].at = "entry"
    /\ req[r].op = "none" <=> req[r].at = "idle"
    /\ req[r].at = "log" => req[r].op = "patrol" /\ checkpoints # {}
    /\ req[r].at = "audit" => req[r].op \in ShiftAction
    /\ req[r].op = "patrol" => CheckedIn(req[r].guard) /\ req[r].seen # "off_duty"
    /\ req[r].at = "save" /\ req[r].op \in ShiftAction =>
          (req[r].op = "check_in" <=> req[r].seen = "off_duty")

IInv == /\ TypeOK
        /\ StatusFollowsLog
        /\ \A r \in Requests : RequestOK(r)

-----------------------------------------------------------------------------
\* An idle request is well typed.
LEMMA IdleType == Idle \in ReqState
  BY DEF Idle, ReqState, GuardStatus

\* A log that is appended to ends with what was appended, and keeps the rest.
LEMMA AppendLog ==
    ASSUME NEW s \in Seq(ShiftAction), NEW a \in ShiftAction
    PROVE  /\ Append(s, a) \in Seq(ShiftAction)
           /\ Append(s, a) # <<>>
           /\ Append(s, a)[Len(Append(s, a))] = a
           /\ \E i \in DOMAIN Append(s, a) : Append(s, a)[i] = a
           /\ (\E i \in DOMAIN s : s[i] = "check_in")
                => \E i \in DOMAIN Append(s, a) : Append(s, a)[i] = "check_in"
<1>1. /\ Len(Append(s, a)) = Len(s) + 1 /\ Len(s) \in Nat
      /\ DOMAIN Append(s, a) = 1..(Len(s) + 1) /\ DOMAIN s = 1..Len(s)
      /\ Append(s, a)[Len(s) + 1] = a
      /\ \A i \in 1..Len(s) : Append(s, a)[i] = s[i]
  OBVIOUS
<1>2. Append(s, a) \in Seq(ShiftAction) /\ Append(s, a) # <<>>
  BY <1>1
<1>3. Len(s) + 1 \in DOMAIN Append(s, a) /\ \A i \in 1..Len(s) : i \in DOMAIN Append(s, a)
  BY <1>1
<1> QED BY <1>1, <1>2, <1>3

\* Every step keeps every variable in its type.
LEMMA TypeKept == IInv /\ [Next]_vars => TypeOK'
<1> SUFFICES ASSUME IInv, [Next]_vars PROVE TypeOK'
  OBVIOUS
<1>a. TypeOK /\ \A r \in Requests : RequestOK(r)
  BY DEF IInv
<1> USE <1>a, IdleType, BoundAssumption DEF TypeOK
<1>1. ASSUME NEW r \in Requests, NEW g \in Guards, NEW a \in ShiftAction, StartShift(r, g, a)
      PROVE  TypeOK'
  BY <1>1 DEF StartShift, Read, db, places, ReqState, GuardDoc, ShiftAction
<1>2. ASSUME NEW r \in Requests, NEW g \in Guards, StartPatrol(r, g) PROVE TypeOK'
  BY <1>2 DEF StartPatrol, Read, db, places, ReqState, GuardDoc
<1>3. ASSUME NEW r \in Requests, SaveCheckIn(r) PROVE TypeOK'
  <2>1. req[r].guard \in Guards /\ guard[req[r].guard].shiftLogs \in Seq(ShiftAction)
    BY <1>3 DEF SaveCheckIn, At, RequestOK, GuardDoc
  <2>2. Append(guard[req[r].guard].shiftLogs, "check_in") \in Seq(ShiftAction)
    BY <2>1, AppendLog DEF ShiftAction
  <2> QED BY <1>3, <2>1, <2>2 DEF SaveCheckIn, Goto, ReqState, GuardDoc, GuardStatus, places
<1>4. ASSUME NEW r \in Requests, SaveCheckOut(r) PROVE TypeOK'
  <2>1. req[r].guard \in Guards /\ guard[req[r].guard].shiftLogs \in Seq(ShiftAction)
    BY <1>4 DEF SaveCheckOut, At, RequestOK, GuardDoc
  <2>2. Append(guard[req[r].guard].shiftLogs, "check_out") \in Seq(ShiftAction)
    BY <2>1, AppendLog DEF ShiftAction
  <2>3. (guard[req[r].guard].started /\ ~req[r].startedSeen) \in BOOLEAN
    OBVIOUS
  <2> QED
    BY <1>4, <2>1, <2>2, <2>3 DEF SaveCheckOut, Goto, ReqState, GuardDoc, GuardStatus,
         places
<1>5. ASSUME NEW r \in Requests, AuditShift(r) PROVE TypeOK'
  BY <1>5 DEF AuditShift, At, Finish, RequestOK, places
<1>6. ASSUME NEW r \in Requests, RejectScan(r) PROVE TypeOK'
  BY <1>6 DEF RejectScan, Finish, db, places
<1>7. ASSUME NEW r \in Requests, SavePatrol(r) PROVE TypeOK'
  <2>1. guard' \in [Guards -> GuardDoc]
    BY <1>7 DEF SavePatrol, GuardDoc, GuardStatus
  <2>2. req' \in [Requests -> ReqState]
    BY <1>7 DEF SavePatrol, Goto, ReqState
  <2> QED BY <1>7, <2>1, <2>2 DEF SavePatrol, places
<1>8. ASSUME NEW r \in Requests, LogPatrol(r) PROVE TypeOK'
  BY <1>8 DEF LogPatrol, At, Finish, RequestOK, places
<1>9. ASSUME NEW r \in Requests, Abort(r) PROVE TypeOK'
  BY <1>9 DEF Abort, Finish, db, places
<1>10. CASE UNCHANGED vars
  BY <1>10 DEF vars, db, places
<1>11. ASSUME NEW r \in Requests, NEW c \in Checkpoints, CreateCheckpoint(r, c)
       PROVE  TypeOK'
  BY <1>11 DEF CreateCheckpoint, Idle, ReqState, GuardStatus
<1>12. ASSUME NEW r \in Requests, AuditCheckpoint(r) PROVE TypeOK'
  BY <1>12 DEF AuditCheckpoint, At, Finish, RequestOK
<1> QED
  BY <1>1, <1>2, <1>3, <1>4, <1>5, <1>6, <1>7, <1>8, <1>9, <1>10, <1>11, <1>12
     DEF Next, Arrive, Install, Continue

\* Who has checked in has done so for ever.
LEMMA CheckedInKept ==
    ASSUME IInv, [Next]_vars, NEW g \in Guards, CheckedIn(g)
    PROVE  CheckedIn(g)'
<1>1. TypeOK
  BY DEF IInv
<1>2. CASE guard'[g].shiftLogs = guard[g].shiftLogs
  BY <1>2 DEF CheckedIn
<1>3. ASSUME NEW r \in Requests, SaveCheckIn(r) \/ SaveCheckOut(r) PROVE CheckedIn(g)'
  <2>1. CASE g # req[r].guard
    BY <1>1, <1>2, <1>3, <2>1 DEF SaveCheckIn, SaveCheckOut, TypeOK
  <2>2. CASE g = req[r].guard
    <3>1. PICK a \in ShiftAction : guard'[g].shiftLogs = Append(guard[g].shiftLogs, a)
      BY <1>1, <1>3, <2>2 DEF SaveCheckIn, SaveCheckOut, TypeOK, ShiftAction
    <3>2. guard[g].shiftLogs \in Seq(ShiftAction)
      BY <1>1 DEF TypeOK, GuardDoc
    <3>3. \E i \in DOMAIN guard[g].shiftLogs : guard[g].shiftLogs[i] = "check_in"
      BY DEF CheckedIn
    <3>4. \E i \in DOMAIN guard'[g].shiftLogs : guard'[g].shiftLogs[i] = "check_in"
      BY <3>1, <3>2, <3>3, AppendLog
    <3> QED BY <3>4 DEF CheckedIn
  <2> QED BY <2>1, <2>2
<1>4. ASSUME NEW r \in Requests, SavePatrol(r) PROVE CheckedIn(g)'
  BY <1>1, <1>2, <1>4 DEF SavePatrol, TypeOK, GuardDoc
<1>5. CASE guard' = guard
  BY <1>2, <1>5
<1> QED
  BY <1>3, <1>4, <1>5 DEF Next, Arrive, Install, Continue, vars, db, StartShift,
     StartPatrol, AuditShift, CreateCheckpoint, AuditCheckpoint, RejectScan, LogPatrol, Abort

\* No checkpoint is removed.
LEMMA CheckpointsKept == [Next]_vars => checkpoints \subseteq checkpoints'
  BY DEF Next, Arrive, Install, Continue, vars, db, places, StartShift, StartPatrol, AuditShift,
         SaveCheckIn, SaveCheckOut, SavePatrol, CreateCheckpoint, AuditCheckpoint, RejectScan,
         LogPatrol, Abort

\* The status and the last shift entry are saved together.
LEMMA StatusKept == IInv /\ [Next]_vars => StatusFollowsLog'
<1> SUFFICES ASSUME IInv, [Next]_vars, NEW g \in Guards PROVE
        /\ guard'[g].currentStatus = "on_duty" =>
              guard'[g].shiftLogs # <<>> /\ LastAction(g)' = "check_in"
        /\ guard'[g].currentStatus = "off_duty" =>
              guard'[g].shiftLogs = <<>> \/ LastAction(g)' = "check_out"
        /\ guard'[g].currentStatus = "on_patrol" \/ scans'[g] > 0
              => CheckedIn(g)' /\ checkpoints' # {}
  BY DEF StatusFollowsLog
<1>1. TypeOK /\ StatusFollowsLog /\ \A r \in Requests : RequestOK(r)
  BY DEF IInv
<1>2. /\ CheckedIn(g) => CheckedIn(g)'
      /\ checkpoints # {} => checkpoints' # {}
  BY CheckedInKept, CheckpointsKept
<1>3. CASE guard'[g] = guard[g] /\ scans'[g] = scans[g]
  BY <1>1, <1>2, <1>3 DEF StatusFollowsLog, LastAction
<1>4. ASSUME NEW r \in Requests, SaveCheckIn(r) \/ SaveCheckOut(r), g = req[r].guard
      PROVE  /\ scans' = scans
             /\ \E a \in ShiftAction :
                   /\ guard'[g].shiftLogs = Append(guard[g].shiftLogs, a)
                   /\ guard'[g].currentStatus = IF a = "check_in" THEN "on_duty"
                                                                  ELSE "off_duty"
  BY <1>1, <1>4 DEF SaveCheckIn, SaveCheckOut, TypeOK, ShiftAction
<1>5. ASSUME NEW r \in Requests, SaveCheckIn(r) \/ SaveCheckOut(r), g # req[r].guard
      PROVE  guard'[g] = guard[g] /\ scans' = scans
  BY <1>1, <1>5 DEF SaveCheckIn, SaveCheckOut, TypeOK
<1>6. ASSUME NEW a \in ShiftAction, scans' = scans,
             guard'[g].shiftLogs = Append(guard[g].shiftLogs, a),
             guard'[g].currentStatus = IF a = "check_in" THEN "on_duty" ELSE "off_duty"
      PROVE  /\ guard'[g].shiftLogs # <<>> /\ LastAction(g)' = a
             /\ a = "check_in" \/ a = "check_out"
             /\ scans'[g] > 0 => CheckedIn(g)' /\ checkpoints' # {}
  BY <1>1, <1>2, <1>6, AppendLog DEF TypeOK, GuardDoc, LastAction, StatusFollowsLog, ShiftAction
<1>7. ASSUME NEW r \in Requests, SavePatrol(r)
      PROVE  \/ guard'[g] = guard[g] /\ scans'[g] = scans[g]
             \/ guard'[g].currentStatus = "on_patrol" /\ CheckedIn(g) /\ checkpoints # {}
  BY <1>1, <1>7 DEF SavePatrol, At, TypeOK, GuardDoc, RequestOK
<1>8. ASSUME NEW r \in Requests, LogPatrol(r)
      PROVE  /\ guard'[g] = guard[g]
             /\ \/ scans'[g] = scans[g]
                \/ CheckedIn(g) /\ checkpoints # {}
  BY <1>1, <1>8 DEF LogPatrol, At, TypeOK, RequestOK
<1>9. CASE UNCHANGED <<guard, scans>>
  BY <1>3, <1>9
<1>10. CASE \E r \in Requests : SaveCheckIn(r) \/ SaveCheckOut(r)
  BY <1>3, <1>4, <1>5, <1>6, <1>10
<1>11. CASE \E r \in Requests : SavePatrol(r)
  BY <1>2, <1>3, <1>7, <1>11
<1>12. CASE \E r \in Requests : LogPatrol(r)
  BY <1>1, <1>2, <1>8, <1>12 DEF StatusFollowsLog, LastAction
<1> QED
  BY <1>9, <1>10, <1>11, <1>12 DEF Next, Arrive, Install, Continue, vars, db, StartShift,
     StartPatrol, AuditShift, CreateCheckpoint, AuditCheckpoint, RejectScan, Abort

\* What a request has checked survives until it uses it.
LEMMA RequestKept ==
    ASSUME IInv, [Next]_vars, NEW r \in Requests
    PROVE  RequestOK(r)'
<1>1. TypeOK /\ StatusFollowsLog /\ RequestOK(r)
  BY DEF IInv
<1>2. /\ \A g \in Guards : CheckedIn(g) => CheckedIn(g)'
      /\ checkpoints \subseteq checkpoints'
  BY CheckedInKept, CheckpointsKept
<1>3. CASE req'[r] = req[r]
  BY <1>1, <1>2, <1>3 DEF RequestOK, TypeOK, ReqState
<1>4. CASE req'[r] = Idle
  BY <1>4 DEF Idle, RequestOK, ShiftAction
<1>5. ASSUME NEW g \in Guards, NEW a \in ShiftAction, StartShift(r, g, a)
      PROVE  RequestOK(r)'
  BY <1>1, <1>5 DEF StartShift, Read, RequestOK, TypeOK, ShiftAction
<1>6. ASSUME NEW g \in Guards, StartPatrol(r, g) PROVE RequestOK(r)'
  <2>1. guard[g].currentStatus \in {"on_duty", "on_patrol"}
    BY <1>1, <1>6 DEF StartPatrol, TypeOK, GuardDoc, GuardStatus
  <2>2. ASSUME guard[g].currentStatus = "on_duty" PROVE CheckedIn(g)
    <3>1. guard[g].shiftLogs \in Seq(ShiftAction) /\ guard[g].shiftLogs # <<>>
          /\ LastAction(g) = "check_in"
      BY <1>1, <2>2 DEF StatusFollowsLog, TypeOK, GuardDoc
    <3>2. Len(guard[g].shiftLogs) \in DOMAIN guard[g].shiftLogs
      BY <3>1
    <3> QED BY <3>1, <3>2 DEF CheckedIn, LastAction
  <2>3. ASSUME guard[g].currentStatus = "on_patrol" PROVE CheckedIn(g)
    BY <1>1, <2>3 DEF StatusFollowsLog
  <2>4. CheckedIn(g)
    BY <2>1, <2>2, <2>3
  <2> QED BY <1>1, <1>2, <1>6, <2>4 DEF StartPatrol, Read, RequestOK, TypeOK, ShiftAction
<1>7. ASSUME SaveCheckIn(r) \/ SaveCheckOut(r) PROVE RequestOK(r)'
  <2>1. /\ req[r].at = "save" /\ req[r].op \in ShiftAction
        /\ req'[r] = [req[r] EXCEPT !.at = "audit"]
    BY <1>1, <1>7 DEF SaveCheckIn, SaveCheckOut, At, Goto, TypeOK, ShiftAction
  <2>2. /\ req'[r].at = "audit" /\ req'[r].op = req[r].op
        /\ req'[r].guard = req[r].guard
    BY <1>1, <2>1 DEF TypeOK, ReqState
  <2> QED BY <1>1, <2>1, <2>2 DEF RequestOK, ShiftAction
<1>8. ASSUME SavePatrol(r) PROVE RequestOK(r)'
  BY <1>1, <1>2, <1>8 DEF SavePatrol, At, Goto, RequestOK, TypeOK, ReqState, ShiftAction
<1>9. ASSUME NEW s \in Requests, s # r,
             \/ \E g \in Guards, a \in ShiftAction : StartShift(s, g, a)
             \/ \E g \in Guards : StartPatrol(s, g)
             \/ \E c \in Checkpoints : CreateCheckpoint(s, c)
             \/ SaveCheckIn(s) \/ SaveCheckOut(s) \/ SavePatrol(s)
      PROVE  req'[r] = req[r]
  BY <1>1, <1>9 DEF StartShift, StartPatrol, CreateCheckpoint, Read, SaveCheckIn, SaveCheckOut, SavePatrol,
     Goto, TypeOK
<1>10. ASSUME NEW s \in Requests, AuditShift(s) \/ AuditCheckpoint(s) \/ RejectScan(s)
                                       \/ LogPatrol(s) \/ Abort(s)
      PROVE  req'[r] = req[r] \/ req'[r] = Idle
  BY <1>1, <1>10 DEF AuditShift, AuditCheckpoint, RejectScan, LogPatrol, Abort, Finish, TypeOK
<1>11. CASE UNCHANGED vars
  BY <1>3, <1>11 DEF vars
<1>12. ASSUME NEW c \in Checkpoints, CreateCheckpoint(r, c) PROVE RequestOK(r)'
  BY <1>1, <1>12 DEF CreateCheckpoint, RequestOK, TypeOK, Idle, ShiftAction
<1> QED
  BY <1>3, <1>4, <1>5, <1>6, <1>7, <1>8, <1>9, <1>10, <1>11, <1>12
     DEF Next, Arrive, Install, Continue

\* The invariant holds before the first shift.
LEMMA InitIInv == Init => IInv
<1> SUFFICES ASSUME Init PROVE IInv
  OBVIOUS
<1>1. TypeOK
  BY IdleType, BoundAssumption DEF Init, TypeOK, GuardDoc, GuardStatus
<1>2. StatusFollowsLog
  BY DEF Init, StatusFollowsLog, CheckedIn
<1>3. \A r \in Requests : RequestOK(r)
  BY DEF Init, RequestOK, Idle, ShiftAction
<1> QED BY <1>1, <1>2, <1>3 DEF IInv

\* The invariant is inductive.
THEOREM Invariance == Spec => []IInv
<1>1. IInv /\ [Next]_vars => IInv'
  BY TypeKept, StatusKept, RequestKept DEF IInv
<1> QED BY InitIInv, <1>1, PTL DEF Spec

\* No handler saves a status outside the schema's enum.
THEOREM TypeCorrect == Spec => []TypeOK
<1>1. IInv => TypeOK
  BY DEF IInv
<1> QED BY Invariance, <1>1, PTL

\* The status agrees with the history of shifts, whatever overlaps.
THEOREM StatusIsHistory == Spec => []StatusFollowsLog
<1>1. IInv => StatusFollowsLog
  BY DEF IInv
<1> QED BY Invariance, <1>1, PTL

\* A save on the status as it was read logs no action twice in a row, except to
\* end a patrol that outlived its shift, and starts a patrol only on shift.
THEOREM ShiftsUnlessStale == Spec => FreshSavesFollowShifts
<1>1. IInv /\ [Next]_vars => [\A r \in Requests : LET g == req[r].guard IN
          /\ req[r].at = "save" /\ req'[r].at \in {"audit", "log"}
          /\ req[r].seen = guard[g].currentStatus
          => /\ req[r].op \in ShiftAction /\ guard[g].shiftLogs # <<>>
                  /\ LastAction(g) = req[r].op
               => req[r].op = "check_out" /\ guard[g].currentStatus = "on_patrol"
             /\ req[r].op = "patrol" /\ guard[g].currentStatus # "on_patrol"
               => LastAction(g) = "check_in"]_vars
  <2> SUFFICES ASSUME IInv, NEW r \in Requests, req[r].at = "save",
                      req[r].seen = guard[req[r].guard].currentStatus
               PROVE  /\ req[r].op \in ShiftAction /\ guard[req[r].guard].shiftLogs # <<>>
                           /\ LastAction(req[r].guard) = req[r].op
                        => req[r].op = "check_out" /\ req[r].seen = "on_patrol"
                      /\ req[r].op = "patrol" /\ req[r].seen # "on_patrol"
                        => LastAction(req[r].guard) = "check_in"
    OBVIOUS
  <2>1. /\ req[r].guard \in Guards /\ req[r].seen \in GuardStatus
        /\ req[r].op \in ShiftAction => (req[r].op = "check_in" <=> req[r].seen = "off_duty")
        /\ req[r].op = "patrol" => req[r].seen # "off_duty"
    BY DEF IInv, RequestOK, TypeOK, ReqState
  <2> QED BY <2>1 DEF IInv, StatusFollowsLog, ShiftAction, GuardStatus
<1> QED BY Invariance, <1>1, PTL DEF Spec, FreshSavesFollowShifts

\* A guard on patrol has a scan or one about to be stored, unless a request
\* died.
THEOREM PatrolsHaveScans == Spec => []PatrolHasScan
<1>1. Init => PatrolHasScan
  BY DEF Init, PatrolHasScan
<1>2. IInv /\ PatrolHasScan /\ [Next]_vars => PatrolHasScan'
  <2> SUFFICES ASSUME IInv, PatrolHasScan, [Next]_vars, aborts' = 0, NEW g \in Guards,
                      guard'[g].currentStatus = "on_patrol"
               PROVE  \/ scans'[g] > 0
                      \/ \E r \in Requests : At(r, "log")' /\ req'[r].guard = g
    BY DEF PatrolHasScan
  <2>1. TypeOK /\ \A r \in Requests : RequestOK(r)
    BY DEF IInv
  <2>2. ASSUME aborts = 0, guard[g].currentStatus = "on_patrol",
               scans[g] > 0 => scans'[g] > 0,
               \A r \in Requests : At(r, "log") /\ req[r].guard = g =>
                  (At(r, "log")' /\ req'[r].guard = g) \/ scans'[g] > 0
        PROVE  \/ scans'[g] > 0
               \/ \E r \in Requests : At(r, "log")' /\ req'[r].guard = g
    <3>1. CASE scans[g] > 0
      BY <2>1, <2>2, <3>1 DEF TypeOK
    <3>2. CASE \E r \in Requests : At(r, "log") /\ req[r].guard = g
      BY <2>2, <3>2
    <3> QED BY <2>2, <3>1, <3>2 DEF PatrolHasScan
  <2>3. ASSUME NEW r \in Requests, SavePatrol(r)
        PROVE  \/ scans'[g] > 0
               \/ \E s \in Requests : At(s, "log")' /\ req'[s].guard = g
    <3>1. CASE req[r].guard = g
      BY <2>1, <2>3, <3>1 DEF SavePatrol, Goto, At, TypeOK, ReqState
    <3>2. CASE req[r].guard # g
      <4>1. guard'[g] = guard[g] /\ scans' = scans /\ aborts = 0
        BY <2>1, <2>3, <3>2 DEF SavePatrol, TypeOK
      <4>2. \A s \in Requests : s # r => req'[s] = req[s]
        BY <2>1, <2>3 DEF SavePatrol, Goto, TypeOK
      <4> QED BY <2>1, <2>2, <2>3, <3>2, <4>1, <4>2 DEF At, TypeOK
    <3> QED BY <3>1, <3>2
  <2>4. ASSUME NEW r \in Requests, LogPatrol(r)
        PROVE  \/ scans'[g] > 0
               \/ \E s \in Requests : At(s, "log")' /\ req'[s].guard = g
    <3>1. guard' = guard /\ aborts = 0
      BY <2>4 DEF LogPatrol
    <3>2. CASE req[r].guard = g
      BY <2>1, <2>4, <3>2 DEF LogPatrol, TypeOK
    <3>3. CASE req[r].guard # g
      <4>1. \A s \in Requests : s # r => req'[s] = req[s]
        BY <2>1, <2>4 DEF LogPatrol, Finish, TypeOK
      <4>2. scans'[g] = scans[g]
        BY <2>1, <2>4, <3>3 DEF LogPatrol, TypeOK
      <4> QED BY <2>1, <2>2, <3>1, <3>3, <4>1, <4>2 DEF At, TypeOK
    <3> QED BY <3>2, <3>3
  <2>5. ASSUME NEW r \in Requests,
               \/ SaveCheckIn(r) \/ SaveCheckOut(r) \/ AuditShift(r) \/ RejectScan(r)
               \/ AuditCheckpoint(r) \/ Install(r)
        PROVE  \/ scans'[g] > 0
               \/ \E s \in Requests : At(s, "log")' /\ req'[s].guard = g
    <3>1. /\ guard'[g].currentStatus = guard[g].currentStatus
          /\ scans' = scans /\ aborts = 0
      <4>1. CASE guard' = guard
        BY <2>5, <4>1 DEF SaveCheckIn, SaveCheckOut, AuditShift, RejectScan, AuditCheckpoint,
           Install, CreateCheckpoint, db
      <4>2. CASE SaveCheckIn(r) \/ SaveCheckOut(r)
        <5>1. req[r].guard # g
          BY <2>1, <4>2 DEF SaveCheckIn, SaveCheckOut, TypeOK
        <5> QED BY <2>1, <4>2, <5>1 DEF SaveCheckIn, SaveCheckOut, TypeOK
      <4> QED BY <2>5, <4>1, <4>2 DEF AuditShift, RejectScan, AuditCheckpoint, Install,
             CreateCheckpoint, db
    <3>2. \A s \in Requests : req[s].at = "log" => req'[s] = req[s]
      BY <2>1, <2>5 DEF SaveCheckIn, SaveCheckOut, AuditShift, RejectScan, AuditCheckpoint,
         Install, CreateCheckpoint, At, Goto, Finish, TypeOK
    <3> QED BY <2>1, <2>2, <3>1, <3>2 DEF At, TypeOK
  <2>6. ASSUME NEW r \in Requests, Arrive(r)
        PROVE  \/ scans'[g] > 0
               \/ \E s \in Requests : At(s, "log")' /\ req'[s].guard = g
    <3>1. UNCHANGED <<guard, scans, aborts>>
      BY <2>6 DEF Arrive, StartShift, StartPatrol, db
    <3>2. \A s \in Requests : req[s].at = "log" => req'[s] = req[s]
      BY <2>1, <2>6 DEF Arrive, StartShift, StartPatrol, Read, At, TypeOK
    <3> QED BY <2>1, <2>2, <3>1, <3>2 DEF At, TypeOK
  <2>7. ASSUME NEW r \in Requests, Abort(r) PROVE FALSE
    BY <2>1, <2>7 DEF Abort, TypeOK
  <2>8. CASE UNCHANGED vars
    BY <2>1, <2>2, <2>8 DEF vars, db, At, TypeOK
  <2> QED
    BY <2>3, <2>4, <2>5, <2>6, <2>7, <2>8 DEF Next, Continue
<1> QED BY Invariance, <1>1, <1>2, PTL DEF Spec

-----------------------------------------------------------------------------
(* The audit entries, counted against the shift entries.                   *)

\* The requests that have saved a shift entry of g and not yet audited it.
Auditing(g) == {r \in Requests : At(r, "audit") /\ req[r].guard = g}

\* What ShiftsAreAudited says of one guard.
Balanced(g) ==
    /\ audits[g] + Cardinality(Auditing(g)) <= Len(guard[g].shiftLogs)
    /\ Len(guard[g].shiftLogs) <= audits[g] + Cardinality(Auditing(g)) + aborts

\* The requests on their way to an audit entry can be counted.
LEMMA AuditingCount ==
    ASSUME NEW g \in Guards
    PROVE  /\ IsFiniteSet(Auditing(g)) /\ Cardinality(Auditing(g)) \in Nat
           /\ IsFiniteSet(Auditing(g)') /\ Cardinality(Auditing(g)') \in Nat
  BY FiniteAssumption, FS_Subset, FS_CardinalityType DEF Auditing

\* What a step does to those requests.
LEMMA AuditingStep ==
    ASSUME IInv, NEW g \in Guards, NEW r \in Requests,
           \A s \in Requests : s # r => req'[s] = req[s]
    PROVE  /\ (r \in Auditing(g) <=> r \in Auditing(g)') => Auditing(g)' = Auditing(g)
           /\ r \notin Auditing(g) /\ r \in Auditing(g)'
                => Auditing(g)' = Auditing(g) \cup {r}
           /\ r \in Auditing(g) /\ r \notin Auditing(g)'
                => Auditing(g)' = Auditing(g) \ {r}
  BY DEF Auditing, At

\* A step leaves both counts alone, stores an entry and has it yet to audit,
\* audits one, or dies with at most one that it has not audited.
LEMMA BalanceKept ==
    ASSUME IInv, NEW g \in Guards, Balanced(g), [Next]_vars
    PROVE  Balanced(g)'
<1>1. TypeOK /\ \A r \in Requests : RequestOK(r)
  BY DEF IInv
<1>2. /\ IsFiniteSet(Auditing(g)) /\ Cardinality(Auditing(g)) \in Nat
      /\ IsFiniteSet(Auditing(g)') /\ Cardinality(Auditing(g)') \in Nat
  BY AuditingCount
<1>3. audits[g] \in Nat /\ aborts \in Nat /\ guard[g].shiftLogs \in Seq(ShiftAction)
      /\ Len(guard[g].shiftLogs) \in Nat
  BY <1>1, BoundAssumption DEF TypeOK, GuardDoc
<1>4. CASE /\ audits'[g] = audits[g] /\ guard'[g].shiftLogs = guard[g].shiftLogs
           /\ aborts' = aborts /\ Auditing(g)' = Auditing(g)
  BY <1>4 DEF Balanced
<1>5. ASSUME NEW r \in Requests, SaveCheckIn(r) \/ SaveCheckOut(r) PROVE Balanced(g)'
  <2>1. \A s \in Requests : s # r => req'[s] = req[s]
    BY <1>1, <1>5 DEF SaveCheckIn, SaveCheckOut, Goto, TypeOK
  <2>2. /\ audits' = audits /\ aborts' = aborts /\ r \notin Auditing(g)
        /\ req'[r].at = "audit" /\ req'[r].guard = req[r].guard
    BY <1>1, <1>5 DEF SaveCheckIn, SaveCheckOut, Goto, TypeOK, ReqState, Auditing, At
  <2>3. CASE req[r].guard = g
    <3>1. PICK a \in ShiftAction : guard'[g].shiftLogs = Append(guard[g].shiftLogs, a)
      BY <1>1, <1>5, <2>3 DEF SaveCheckIn, SaveCheckOut, TypeOK, ShiftAction
    <3>2. Len(guard'[g].shiftLogs) = Len(guard[g].shiftLogs) + 1
      BY <1>3, <3>1
    <3>3. Auditing(g)' = Auditing(g) \cup {r}
      BY <2>1, <2>2, <2>3, AuditingStep DEF Auditing, At
    <3>4. Cardinality(Auditing(g)') = Cardinality(Auditing(g)) + 1
      BY <1>2, <2>2, <3>3, FS_AddElement
    <3> QED BY <1>2, <1>3, <2>2, <3>2, <3>4 DEF Balanced
  <2>4. CASE req[r].guard # g
    <3>1. guard'[g] = guard[g]
      BY <1>1, <1>5, <2>4 DEF SaveCheckIn, SaveCheckOut, TypeOK
    <3>2. Auditing(g)' = Auditing(g)
      BY <2>1, <2>2, <2>4, AuditingStep DEF Auditing, At
    <3> QED BY <1>4, <2>2, <3>1, <3>2
  <2> QED BY <2>3, <2>4
<1>6. ASSUME NEW r \in Requests, AuditShift(r) PROVE Balanced(g)'
  <2>1. \A s \in Requests : s # r => req'[s] = req[s]
    BY <1>1, <1>6 DEF AuditShift, Finish, TypeOK
  <2>2. guard' = guard /\ aborts' = aborts /\ r \notin Auditing(g)'
    BY <1>1, <1>6 DEF AuditShift, Finish, TypeOK, Idle, Auditing, At
  <2>3. CASE req[r].guard = g
    <3>1. audits'[g] = audits[g] + 1 /\ r \in Auditing(g)
      BY <1>1, <1>6, <2>3 DEF AuditShift, TypeOK, Auditing
    <3>2. Cardinality(Auditing(g)') = Cardinality(Auditing(g)) - 1
      BY <1>2, <2>1, <2>2, <3>1, AuditingStep, FS_RemoveElement
    <3> QED BY <1>2, <1>3, <2>2, <3>1, <3>2 DEF Balanced
  <2>4. CASE req[r].guard # g
    <3>1. audits'[g] = audits[g] /\ r \notin Auditing(g)
      BY <1>1, <1>6, <2>4 DEF AuditShift, TypeOK, Auditing
    <3> QED BY <1>4, <2>1, <2>2, <3>1, AuditingStep
  <2> QED BY <2>3, <2>4
<1>7. ASSUME NEW r \in Requests, Abort(r) PROVE Balanced(g)'
  <2>1. \A s \in Requests : s # r => req'[s] = req[s]
    BY <1>1, <1>7 DEF Abort, Finish, TypeOK
  <2>2. guard' = guard /\ audits' = audits /\ aborts' = aborts + 1
        /\ r \notin Auditing(g)'
    BY <1>1, <1>7 DEF Abort, db, Finish, TypeOK, Idle, Auditing, At
  <2>3. CASE r \in Auditing(g)
    <3>1. Cardinality(Auditing(g)') = Cardinality(Auditing(g)) - 1
      BY <1>2, <2>1, <2>2, <2>3, AuditingStep, FS_RemoveElement
    <3> QED BY <1>2, <1>3, <2>2, <3>1 DEF Balanced
  <2>4. CASE r \notin Auditing(g)
    <3>1. Auditing(g)' = Auditing(g)
      BY <2>1, <2>2, <2>4, AuditingStep
    <3> QED BY <1>2, <1>3, <2>2, <3>1 DEF Balanced
  <2> QED BY <2>3, <2>4
<1>8. ASSUME NEW r \in Requests,
             \/ Arrive(r) \/ Install(r) \/ AuditCheckpoint(r)
             \/ RejectScan(r) \/ SavePatrol(r) \/ LogPatrol(r)
      PROVE  Balanced(g)'
  <2>1. audits' = audits /\ aborts' = aborts
        /\ guard'[g].shiftLogs = guard[g].shiftLogs
    <3>1. CASE SavePatrol(r)
      BY <1>1, <3>1 DEF SavePatrol, TypeOK, GuardDoc
    <3>2. CASE ~SavePatrol(r)
      BY <1>8, <3>2 DEF Arrive, StartShift, StartPatrol, Install, CreateCheckpoint,
         AuditCheckpoint, RejectScan, LogPatrol, db
    <3> QED BY <3>1, <3>2
  <2>2. \E q : q.at # "audit" /\ req' = [req EXCEPT ![r] = q]
    <3>1. CASE Arrive(r)
      BY <3>1 DEF Arrive, StartShift, StartPatrol, Read
    <3>2. CASE Install(r) \/ AuditCheckpoint(r) \/ RejectScan(r) \/ LogPatrol(r)
      BY <3>2 DEF Install, CreateCheckpoint, AuditCheckpoint, RejectScan, LogPatrol, Finish, Idle
    <3>3. CASE SavePatrol(r)
      BY <1>1, <3>3 DEF SavePatrol, Goto, TypeOK, ReqState
    <3> QED BY <1>8, <3>1, <3>2, <3>3
  <2>3. /\ \A s \in Requests : s # r => req'[s] = req[s]
        /\ req'[r].at # "audit"
    BY <1>1, <2>2 DEF TypeOK
  <2>4. req[r].at # "audit"
    BY <1>8 DEF Arrive, StartShift, StartPatrol, Install, CreateCheckpoint, AuditCheckpoint,
       RejectScan, SavePatrol, LogPatrol, At
  <2>5. Auditing(g)' = Auditing(g)
    BY <2>3, <2>4, AuditingStep DEF Auditing, At
  <2> QED BY <1>4, <2>1, <2>5
<1>9. CASE UNCHANGED vars
  BY <1>4, <1>9 DEF vars, db, Auditing, At
<1> QED BY <1>5, <1>6, <1>7, <1>8, <1>9 DEF Next, Continue

\* Every shift entry is audited once, but for those of requests on their way
\* there or dead.
THEOREM ShiftsAudited == Spec => []ShiftsAreAudited
<1>1. ASSUME Init, NEW g \in Guards PROVE Balanced(g)
  <2>1. Auditing(g) = {}
    BY <1>1 DEF Init, Idle, Auditing, At
  <2>2. Cardinality(Auditing(g)) = 0
    BY <2>1, FS_EmptySet
  <2>3. audits[g] = 0 /\ aborts = 0 /\ guard[g].shiftLogs = <<>>
    BY <1>1 DEF Init
  <2> QED BY <2>2, <2>3 DEF Balanced
<1>2. Init => ShiftsAreAudited
  BY <1>1 DEF Balanced, Auditing, ShiftsAreAudited
<1>3. IInv /\ ShiftsAreAudited /\ [Next]_vars => ShiftsAreAudited'
  BY BalanceKept DEF Balanced, Auditing, ShiftsAreAudited
<1> QED BY Invariance, <1>2, <1>3, PTL DEF Spec

-----------------------------------------------------------------------------
\* The status of a guard is backed by the shifts and the scans.
THEOREM StatusBacked == Spec => []StatusIsBacked
BY StatusIsHistory, PatrolsHaveScans, PTL DEF StatusIsBacked

-----------------------------------------------------------------------------
(* Alerts: the inductive invariant.                                        *)

\* What the place of a request says of the alert that it raised.
PlaceOK(a) ==
    /\ at[a] \in {"none", "find"} => found[a] = {}
    /\ at[a] \in {"none", "find", "notify"} => a \notin broadcast
    /\ at[a] = "notify" => lost[a] = {}

ProgressTypes == /\ told \in [Alerts -> SUBSET Responders]
                 /\ lost \in [Alerts -> SUBSET Responders]
                 /\ pushing \in [Alerts -> SUBSET Responders]

AlertInv == /\ AlertTypeOK /\ ProgressTypes
            /\ BroadcastMeansTold
            /\ \A a \in Alerts : PlaceOK(a)

\* What AlertInv says of one alert.
AlertOK(a) ==
    /\ at[a] \in Places
    /\ found[a] \subseteq Responders
    /\ told[a] \subseteq found[a]
    /\ lost[a] \subseteq found[a] \ told[a]
    /\ pushing[a] \subseteq told[a]
    /\ a \in trail => a \in broadcast
    /\ a \in broadcast => told[a] = found[a] /\ lost[a] = {}
    /\ a \notin broadcast => at[a] \notin {"audit", "done"}
    /\ PlaceOK(a)

\* The functions that AlertInv is about, by their domains alone.
Shapes == /\ at = [a \in Alerts |-> at[a]] /\ found = [a \in Alerts |-> found[a]]
          /\ told = [a \in Alerts |-> told[a]] /\ lost = [a \in Alerts |-> lost[a]]
          /\ pushing = [a \in Alerts |-> pushing[a]]
          /\ broadcast \subseteq Alerts /\ trail \subseteq Alerts
          /\ incident \in [Incidents -> {"none", "stored", "audited", "unaudited"}]

LEMMA AlertByAlert == AlertInv <=> Shapes /\ \A a \in Alerts : AlertOK(a)
<1>1. AlertInv => Shapes /\ \A a \in Alerts : AlertOK(a)
  BY DEF AlertInv, AlertTypeOK, ProgressTypes, BroadcastMeansTold, Shapes, AlertOK
<1>2. ASSUME Shapes, \A a \in Alerts : AlertOK(a) PROVE AlertInv
  <2>1. /\ at \in [Alerts -> Places] /\ found \in [Alerts -> SUBSET Responders]
    BY <1>2 DEF Shapes, AlertOK
  <2>2. ProgressTypes
    BY <1>2 DEF Shapes, AlertOK, ProgressTypes
  <2>3. AlertTypeOK
    BY <1>2, <2>1 DEF AlertTypeOK, Shapes, AlertOK
  <2> QED BY <1>2, <2>2, <2>3 DEF AlertInv, BroadcastMeansTold, AlertOK
<1> QED BY <1>1, <1>2

\* The steps of a request leave every function a function.
LEMMA ShapesKept == Shapes /\ [AlertNext]_alertVars => Shapes'
<1> SUFFICES ASSUME Shapes, [AlertNext]_alertVars PROVE Shapes'
  OBVIOUS
<1> USE DEF Shapes
<1>1. CASE UNCHANGED alertVars
  BY <1>1 DEF alertVars, progress, records
<1>2. ASSUME NEW a \in Alerts, Raise(a) \/ Find(a) \/ FindFails(a) \/ Broadcast(a) \/ Audit(a)
                               \/ AuditFails(a)
      PROVE  Shapes'
  BY <1>2 DEF Raise, Find, FindFails, Broadcast, Audit, AuditFails, Move, progress, records
<1>3. ASSUME NEW a \in Alerts, NEW u \in Responders, Tell(a, u) \/ Lose(a, u) \/ PushEnds(a, u)
      PROVE  Shapes'
  BY <1>3 DEF Tell, Lose, PushEnds, progress, records
<1>4. ASSUME NEW i \in Incidents, Report(i) \/ AuditReport(i) PROVE Shapes'
  BY <1>4 DEF Report, AuditReport, progress, records
<1>5. CASE Crash
  BY <1>5 DEF Crash, progress, records
<1> QED BY <1>1, <1>2, <1>3, <1>4, <1>5 DEF AlertNext, Answer

\* No step breaks what is said of an alert.
LEMMA AlertKept ==
    ASSUME Shapes, NEW a \in Alerts, AlertOK(a), [AlertNext]_alertVars
    PROVE  AlertOK(a)'
<1> USE DEF Shapes, PlaceOK
<1>1. CASE /\ at'[a] = at[a] /\ found'[a] = found[a] /\ told'[a] = told[a] /\ lost'[a] = lost[a]
           /\ pushing'[a] \subseteq pushing[a]
           /\ a \in broadcast' <=> a \in broadcast
           /\ a \in trail' <=> a \in trail
  BY <1>1 DEF AlertOK
<1>2. CASE Raise(a)
  BY <1>2 DEF Raise, Move, progress, records, AlertOK, Places
<1>3. CASE Find(a)
  <2>1. PICK users \in SUBSET Responders : found' = [found EXCEPT ![a] = users]
    BY <1>3 DEF Find
  <2>2. /\ at[a] = "find" /\ at'[a] = "notify" /\ found'[a] = users
        /\ UNCHANGED <<told, lost, pushing, broadcast, trail>>
    BY <1>3, <2>1 DEF Find, Move, records
  <2> QED BY <2>2 DEF AlertOK, Places
<1>4. CASE FindFails(a)
  BY <1>4 DEF FindFails, Move, progress, records, AlertOK, Places
<1>5. ASSUME NEW u \in Responders, Tell(a, u) PROVE AlertOK(a)'
  <2>1. /\ u \in found[a] \ (told[a] \cup lost[a])
        /\ told'[a] = told[a] \cup {u} /\ pushing'[a] = pushing[a] \cup {u}
        /\ UNCHANGED <<at, found, lost, broadcast, trail>>
    BY <1>5 DEF Tell, Storing, records
  <2> QED BY <2>1 DEF AlertOK
<1>6. ASSUME NEW u \in Responders, Lose(a, u) PROVE AlertOK(a)'
  <2>1. /\ u \in found[a] \ (told[a] \cup lost[a])
        /\ lost'[a] = lost[a] \cup {u} /\ at'[a] = "rejected"
        /\ UNCHANGED <<found, told, pushing, broadcast, trail>>
    BY <1>6 DEF Lose, Storing, records
  <2> QED BY <2>1 DEF AlertOK, Places
<1>7. ASSUME NEW u \in Responders, PushEnds(a, u) PROVE AlertOK(a)'
  <2>1. pushing'[a] \subseteq pushing[a] /\ UNCHANGED <<at, found, told, lost, broadcast, trail>>
    BY <1>7 DEF PushEnds, records
  <2> QED BY <1>1, <2>1
<1>8. CASE Broadcast(a)
  BY <1>8 DEF Broadcast, Move, Storing, progress, AlertOK, Places
<1>9. CASE Audit(a)
  BY <1>9 DEF Audit, Move, progress, AlertOK, Places
<1>10. CASE AuditFails(a)
  BY <1>10 DEF AuditFails, Move, progress, records, AlertOK, Places
<1>11. CASE Crash
  BY <1>11 DEF Crash, records, AlertOK, Places
<1>12. ASSUME NEW b \in Alerts, b # a, Raise(b) \/ Answer(b) PROVE AlertOK(a)'
  BY <1>1, <1>12 DEF Raise, Answer, Find, FindFails, Tell, Lose, PushEnds, Broadcast, Audit,
     AuditFails, Move, progress, records
<1>13. CASE UNCHANGED alertVars \/ \E i \in Incidents : Report(i) \/ AuditReport(i)
  BY <1>1, <1>13 DEF alertVars, progress, records, Report, AuditReport
<1> QED
  BY <1>2, <1>3, <1>4, <1>5, <1>6, <1>7, <1>8, <1>9, <1>10, <1>11, <1>12, <1>13
     DEF AlertNext, Answer

\* The inductive invariant of Alerts holds in every state.
THEOREM AlertInvariance == AlertSpec => []AlertInv
<1>1. AlertInit => AlertInv
  BY DEF AlertInit, AlertInv, AlertTypeOK, ProgressTypes, BroadcastMeansTold, PlaceOK, Places
<1>2. AlertInv /\ [AlertNext]_alertVars => AlertInv'
  <2>1. (Shapes /\ \A a \in Alerts : AlertOK(a)) /\ [AlertNext]_alertVars
          => (Shapes /\ \A a \in Alerts : AlertOK(a))'
    BY ShapesKept, AlertKept
  <2>2. AlertInv' <=> (Shapes /\ \A a \in Alerts : AlertOK(a))'
    BY AlertByAlert, PTL
  <2> QED BY <2>1, <2>2, AlertByAlert
<1> QED BY <1>1, <1>2, PTL DEF AlertSpec

\* Every variable of Alerts keeps its type, and only responders that were found
\* are told, or lost.
THEOREM AlertTypeCorrect == AlertSpec => []AlertTypeOK
<1>1. AlertInv => AlertTypeOK
  BY DEF AlertInv
<1> QED BY AlertInvariance, <1>1, PTL

\* The sockets and the audit trail have an alert only when all responders that
\* were found have their notification.
THEOREM BroadcastsAreTrue == AlertSpec => []BroadcastMeansTold
<1>1. AlertInv => BroadcastMeansTold
  BY DEF AlertInv
<1> QED BY AlertInvariance, <1>1, PTL

\* A request that was rejected before its broadcast, or that the crash ended.
Silent(a) == at[a] \in {"rejected", "gone"} /\ a \notin broadcast

\* What is kept of an alert.
Keeps(a) == (Silent(a) => Silent(a)') /\ told[a] \subseteq told'[a]

\* Such an alert stays out of the sockets and the audit trail for good; and no
\* notification is taken back.
THEOREM SilenceIsForGood == AlertSpec => [][\A a \in Alerts : Keeps(a)]_alertVars
<1>1. ASSUME AlertInv, [AlertNext]_alertVars, NEW a \in Alerts PROVE Keeps(a)
  <2>1. Shapes
    BY <1>1, AlertByAlert
  <2> USE <2>1 DEF Shapes, Silent, Keeps
  <2>2. ASSUME NEW b \in Alerts, Raise(b) \/ Answer(b) PROVE Keeps(a)
    BY <2>2 DEF Raise, Answer, Find, FindFails, Tell, Lose, PushEnds, Broadcast, Audit,
       AuditFails, Move, progress, records
  <2>3. CASE Crash
    BY <2>3 DEF Crash, records
  <2>4. CASE UNCHANGED alertVars \/ \E i \in Incidents : Report(i) \/ AuditReport(i)
    BY <2>4 DEF alertVars, progress, records, Report, AuditReport
  <2> QED BY <1>1, <2>2, <2>3, <2>4 DEF AlertNext
<1>2. AlertInv /\ [AlertNext]_alertVars => [\A a \in Alerts : Keeps(a)]_alertVars
  BY <1>1
<1> QED BY AlertInvariance, <1>2, PTL DEF AlertSpec
=============================================================================
