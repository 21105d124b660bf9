----------------------------- MODULE GuardDuty -----------------------------
(***************************************************************************)
(* Shifts and patrols: updateGuardShift, createPatrolCheckpoint and        *)
(* logPatrolCheckpoint of security.controller.js, served concurrently (a   *)
(* guard's telephone, a repeated tap, an admin who checks the guard out).  *)
(* The handlers read the Guard document and save it an await or more       *)
(* later.  save() writes the fields that differ from what was read, and    *)
(* appends to shiftLogs.                                                   *)
(***************************************************************************)
EXTENDS Naturals, Sequences, FiniteSets

CONSTANTS Guards,      \* the Guard documents
          Checkpoints, \* the PatrolCheckpoint documents there may be
          Requests,    \* the requests that are served concurrently
          MaxLogs,     \* bound on the shift entries of a guard
          MaxScans,    \* bound on the patrol logs of a guard
          MaxAborts,   \* bound on the requests that die half way
          None         \* absent

ASSUME BoundAssumption == MaxLogs \in Nat /\ MaxScans \in Nat /\ MaxAborts \in Nat
ASSUME FiniteAssumption == IsFiniteSet(Requests)
ASSUME NoneAssumption == None \notin Guards \cup Checkpoints

VARIABLES guard,       \* guard[g]: the document
          scans,       \* scans[g]: how many PatrolLogs g has
          audits,      \* audits[g]: how many audit entries about shifts of g
          checkpoints, \* the checkpoints that exist
          audited,     \* those that are in the audit trail
          req,         \* req[r]: where request r stands
          aborts

places == <<checkpoints, audited>>
db     == <<guard, scans, audits, places>>
vars   == <<db, req, aborts>>

GuardStatus == {"off_duty", "on_duty", "on_patrol"}
ShiftAction == {"check_in", "check_out"}

\* started: currentShiftStartedAt is set.
GuardDoc == [currentStatus : GuardStatus, started : BOOLEAN,
             shiftLogs : Seq(ShiftAction)]

\* seen, startedSeen: the document as the request has read it.
ReqState == [op : ShiftAction \cup {"patrol", "checkpoint", "none"},
             at : {"idle", "save", "audit", "log", "entry"},
             guard : Guards \cup {None}, checkpoint : Checkpoints \cup {None},
             seen : GuardStatus, startedSeen : BOOLEAN]

Idle == [op |-> "none", at |-> "idle", guard |-> None, checkpoint |-> None,
         seen |-> "off_duty", startedSeen |-> FALSE]

TypeOK == /\ guard \in [Guards -> GuardDoc]
          /\ scans \in [Guards -> Nat]
          /\ audits \in [Guards -> Nat]
          /\ audited \subseteq checkpoints /\ checkpoints \subseteq Checkpoints
          /\ req \in [Requests -> ReqState]
          /\ aborts \in 0..MaxAborts

\* The profile is upserted with its defaults when it is first needed.
Init == /\ guard = [g \in Guards |-> [currentStatus |-> "off_duty",
                                      started |-> FALSE, shiftLogs |-> <<>>]]
        /\ scans = [g \in Guards |-> 0]
        /\ audits = [g \in Guards |-> 0]
        /\ checkpoints = {} /\ audited = {}
        /\ req = [r \in Requests |-> Idle]
        /\ aborts = 0

-----------------------------------------------------------------------------
At(r, at) == req[r].at = at
Finish(r) == req' = [req EXCEPT ![r] = Idle]
Goto(r, at) == req' = [req EXCEPT ![r].at = at]

\* resolveGuardForShift, resolveCurrentGuard: the document is read.
Read(r, op, g) ==
    req' = [req EXCEPT ![r] = [op |-> op, at |-> "save", guard |-> g,
                               checkpoint |-> None, seen |-> guard[g].currentStatus,
                               startedSeen |-> guard[g].started]]

\* Fault: the status is not asked for.
StartShiftAnyTime(r, g, action) ==
    /\ At(r, "idle")
    /\ Len(guard[g].shiftLogs) < MaxLogs
    /\ Read(r, action, g)
    /\ UNCHANGED <<db, aborts>>

\* updateGuardShift: check-in is for guards off duty, check-out for the others.
StartShift(r, g, action) ==
    /\ At(r, "idle")
    /\ Len(guard[g].shiftLogs) < MaxLogs
    /\ action = "check_in" <=> guard[g].currentStatus = "off_duty"
    /\ Read(r, action, g)
    /\ UNCHANGED <<db, aborts>>

\* Faults: the action is saved as the status; no audit.
SaveCheckInAsStatus(r) ==
    /\ At(r, "save") /\ req[r].op = "check_in"
    /\ guard' = [guard EXCEPT ![req[r].guard] =
                   [currentStatus |-> "check_in", started |-> TRUE,
                    shiftLogs |-> Append(@.shiftLogs, "check_in")]]
    /\ Goto(r, "audit")
    /\ UNCHANGED <<scans, audits, places, aborts>>

SaveCheckInUnaudited(r) ==
    /\ At(r, "save") /\ req[r].op = "check_in"
    /\ guard' = [guard EXCEPT ![req[r].guard] =
                   [currentStatus |-> "on_duty", started |-> TRUE,
                    shiftLogs |-> Append(@.shiftLogs, "check_in")]]
    /\ Finish(r)
    /\ UNCHANGED <<scans, audits, places, aborts>>

\* guard.save() after a check-in.
SaveCheckIn(r) ==
    /\ At(r, "save") /\ req[r].op = "check_in"
    /\ guard' = [guard EXCEPT ![req[r].guard] =
                   [currentStatus |-> "on_duty", started |-> TRUE,
                    shiftLogs |-> Append(@.shiftLogs, "check_in")]]
    /\ Goto(r, "audit")
    /\ UNCHANGED <<scans, audits, places, aborts>>

\* Fault: the status is left as it is.
SaveCheckOutKeepsStatus(r) ==
    /\ At(r, "save") /\ req[r].op = "check_out"
    /\ guard' = [guard EXCEPT ![req[r].guard] =
                   [@ EXCEPT !.started = FALSE,
                             !.shiftLogs = Append(@, "check_out")]]
    /\ Goto(r, "audit")
    /\ UNCHANGED <<scans, audits, places, aborts>>

\* guard.save() after a check-out: a start that was not there is not removed.
SaveCheckOut(r) ==
    /\ At(r, "save") /\ req[r].op = "check_out"
    /\ guard' = [guard EXCEPT ![req[r].guard] =
                   [currentStatus |-> "off_duty",
                    started |-> @.started /\ ~req[r].startedSeen,
                    shiftLogs |-> Append(@.shiftLogs, "check_out")]]
    /\ Goto(r, "audit")
    /\ UNCHANGED <<scans, audits, places, aborts>>

\* auditService.record ends updateGuardShift.
AuditShift(r) ==
    /\ At(r, "audit")
    /\ audits' = [audits EXCEPT ![req[r].guard] = @ + 1]
    /\ Finish(r)
    /\ UNCHANGED <<guard, scans, places, aborts>>

\* createPatrolCheckpoint stores a checkpoint, and audits it.
CreateCheckpoint(r, c) ==
    /\ At(r, "idle")
    /\ c \notin checkpoints
    /\ checkpoints' = checkpoints \cup {c}
    /\ req' = [req EXCEPT ![r] = [Idle EXCEPT !.op = "checkpoint", !.at = "entry",
                                              !.checkpoint = c]]
    /\ UNCHANGED <<guard, scans, audits, audited, aborts>>

AuditCheckpoint(r) ==
    /\ At(r, "entry")
    /\ audited' = audited \cup {req[r].checkpoint}
    /\ Finish(r)
    /\ UNCHANGED <<guard, scans, audits, checkpoints, aborts>>

\* logPatrolCheckpoint: the guard must be on duty.
StartPatrol(r, g) ==
    /\ At(r, "idle")
    /\ scans[g] < MaxScans
    /\ guard[g].currentStatus # "off_duty"
    /\ Read(r, "patrol", g)
    /\ UNCHANGED <<db, aborts>>

\* The checkpoint is then looked up, and it or its QR token is not right.
RejectScan(r) ==
    /\ At(r, "save") /\ req[r].op = "patrol"
    /\ Finish(r)
    /\ UNCHANGED <<db, aborts>>

\* guard.save() after a scan of a checkpoint that was found: nothing is written
\* for who was on patrol.
SavePatrol(r) ==
    /\ At(r, "save") /\ req[r].op = "patrol"
    /\ checkpoints # {}
    /\ guard' = [guard EXCEPT ![req[r].guard].currentStatus =
                   IF req[r].seen = "on_patrol" THEN @ ELSE "on_patrol"]
    /\ Goto(r, "log")
    /\ UNCHANGED <<scans, audits, places, aborts>>

\* PatrolLog.create ends logPatrolCheckpoint.
LogPatrol(r) ==
    /\ At(r, "log")
    /\ scans' = [scans EXCEPT ![req[r].guard] = @ + 1]
    /\ Finish(r)
    /\ UNCHANGED <<guard, audits, places, aborts>>

\* The request dies at one of its awaits.
Abort(r) ==
    /\ ~At(r, "idle")
    /\ aborts < MaxAborts
    /\ aborts' = aborts + 1
    /\ Finish(r)
    /\ UNCHANGED db

Continue(r) == \/ SaveCheckIn(r)
               \/ SaveCheckOut(r)
               \/ AuditShift(r)
               \/ AuditCheckpoint(r)
               \/ RejectScan(r)
               \/ SavePatrol(r)
               \/ LogPatrol(r)

Arrive(r) == \E g \in Guards : \/ StartPatrol(r, g)
                               \/ \E a \in ShiftAction : StartShift(r, g, a)

Install(r) == \E c \in Checkpoints : CreateCheckpoint(r, c)

Next == \E r \in Requests : Arrive(r) \/ Install(r) \/ Continue(r) \/ Abort(r)

Spec == Init /\ [][Next]_vars

-----------------------------------------------------------------------------
(* Properties.                                                             *)

LastAction(g) == guard[g].shiftLogs[Len(guard[g].shiftLogs)]
CheckedIn(g)  == \E i \in DOMAIN guard[g].shiftLogs :
                    guard[g].shiftLogs[i] = "check_in"

\* The status agrees with the history of shifts however the handlers overlap:
\* on duty after a check-in, off duty after a check-out or before any shift,
\* and nobody patrols, or has patrolled, who never checked in, or without a
\* checkpoint.
StatusFollowsLog ==
    \A g \in Guards :
        /\ guard[g].currentStatus = "on_duty" =>
              guard[g].shiftLogs # <<>> /\ LastAction(g) = "check_in"
        /\ guard[g].currentStatus = "off_duty" =>
              guard[g].shiftLogs = <<>> \/ LastAction(g) = "check_out"
        /\ guard[g].currentStatus = "on_patrol" \/ scans[g] > 0
              => CheckedIn(g) /\ checkpoints # {}

\* The status is saved before the PatrolLog: a guard on patrol has a scan, or
\* one about to be stored; only a request that died leaves a patrol without.
PatrolHasScan ==
    aborts = 0 =>
        \A g \in Guards : guard[g].currentStatus = "on_patrol" =>
            \/ scans[g] > 0
            \/ \E r \in Requests : At(r, "log") /\ req[r].guard = g

\* Every shift entry is audited once: the entries without an audit are those
\* of requests on their way there, and of requests that died.
ShiftsAreAudited ==
    \A g \in Guards :
        LET pending == Cardinality({r \in Requests :
                                      At(r, "audit") /\ req[r].guard = g})
        IN /\ audits[g] + pending <= Len(guard[g].shiftLogs)
           /\ Len(guard[g].shiftLogs) <= audits[g] + pending + aborts

\* What the status and the shifts say of a guard is so, whatever overlaps.
StatusIsBacked == StatusFollowsLog /\ PatrolHasScan

\* Check-ins and check-outs alternate, and patrols are walked on shift: a save
\* on the status that the handler has read logs no action twice in a row,
\* except to end a patrol that outlived its shift, and puts nobody on patrol
\* who has checked out.  Stale saves do both.
FreshSavesFollowShifts ==
    [][\A r \in Requests : LET g == req[r].guard IN
          /\ req[r].at = "save" /\ req'[r].at \in {"audit", "log"}
          /\ req[r].seen = guard[g].currentStatus
          => /\ req[r].op \in ShiftAction /\ guard[g].shiftLogs # <<>>
                  /\ LastAction(g) = req[r].op
               => req[r].op = "check_out" /\ guard[g].currentStatus = "on_patrol"
             /\ req[r].op = "patrol" /\ guard[g].currentStatus # "on_patrol"
               => LastAction(g) = "check_in"]_vars
=============================================================================
