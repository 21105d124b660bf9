------------------------------- MODULE Alerts -------------------------------
(***************************************************************************)
(* security.controller.js, SOS alerts and incident reports.  raiseSosAlert *)
(* stores the alert, tells all responders at once, and only then sends it  *)
(* to the sockets of the society and into the audit trail.                 *)
(*                                                                         *)
(* The responders are told by as many promises under one Promise.all: the  *)
(* first that fails rejects the request, but the others go on.             *)
(***************************************************************************)
EXTENDS FiniteSets

CONSTANTS Alerts,     \* the alerts that are raised
          Responders, \* the active admins and guards there may be
          Incidents   \* the incident reports

VARIABLES at,        \* at[a]: where the request that raised alert a stands
          found,     \* found[a]: the responders that its query returned
          told,      \* told[a]: those with a Notification document
          lost,      \* lost[a]: those whose notification could not be stored
          pushing,   \* pushing[a]: those who are being sent a push message
          broadcast, \* the alerts that went to the sockets of the society
          trail,     \* the alerts in the audit trail
          incident   \* incident[i]: how far report i has come

progress  == <<found, told, lost, pushing>>
records   == <<broadcast, trail>>
alertVars == <<at, progress, records, incident>>

\* gone: the process crashed in between.  A request that was rejected has
\* answered with an error, and may still have notifications under way.
Places == {"none", "find", "notify", "audit", "done", "rejected", "gone"}

AlertTypeOK == /\ at \in [Alerts -> Places]
               /\ found \in [Alerts -> SUBSET Responders]
               /\ \A a \in Alerts : /\ told[a] \subseteq found[a]
                                    /\ lost[a] \subseteq found[a] \ told[a]
                                    /\ pushing[a] \subseteq told[a]
               /\ broadcast \subseteq Alerts
               /\ trail \subseteq broadcast
               /\ incident \in [Incidents -> {"none", "stored", "audited", "unaudited"}]

AlertInit == /\ at = [a \in Alerts |-> "none"]
             /\ found = [a \in Alerts |-> {}]
             /\ told = [a \in Alerts |-> {}]
             /\ lost = [a \in Alerts |-> {}]
             /\ pushing = [a \in Alerts |-> {}]
             /\ broadcast = {}
             /\ trail = {}
             /\ incident = [i \in Incidents |-> "none"]

-----------------------------------------------------------------------------
Move(a, from, to) == at[a] = from /\ at' = [at EXCEPT ![a] = to]

\* EmergencyAlert.create, for a flat of the society or for none.
Raise(a) ==
    /\ Move(a, "none", "find")
    /\ UNCHANGED <<progress, records, incident>>

\* User.find in notifySecurityResponders; all promises start.
Find(a) ==
    /\ Move(a, "find", "notify")
    /\ \E users \in SUBSET Responders : found' = [found EXCEPT ![a] = users]
    /\ UNCHANGED <<told, lost, pushing, records, incident>>

FindFails(a) ==
    /\ Move(a, "find", "rejected")
    /\ UNCHANGED <<progress, records, incident>>

\* Fault: one after the other, so that the first that fails is the last.
StoringWhileWell(a) == IF at[a] = "notify" THEN found[a] \ (told[a] \cup lost[a]) ELSE {}

\* The notifications of a that are being stored.
Storing(a) == IF at[a] \in {"notify", "rejected"} THEN found[a] \ (told[a] \cup lost[a]) ELSE {}

\* Notification.create for one responder, and pushToUser starts.
Tell(a, u) ==
    /\ u \in Storing(a)
    /\ told' = [told EXCEPT ![a] = @ \cup {u}]
    /\ pushing' = [pushing EXCEPT ![a] = @ \cup {u}]
    /\ UNCHANGED <<at, found, lost, records, incident>>

\* Notification.create fails, and with it the request.
Lose(a, u) ==
    /\ u \in Storing(a)
    /\ lost' = [lost EXCEPT ![a] = @ \cup {u}]
    /\ at' = [at EXCEPT ![a] = "rejected"]
    /\ UNCHANGED <<found, told, pushing, records, incident>>

\* Fault: a push message that fails counts as a notification that fails.
PushFailureCounts(a, u) ==
    /\ u \in pushing[a]
    /\ pushing' = [pushing EXCEPT ![a] = @ \ {u}]
    /\ lost' \in {lost, [lost EXCEPT ![a] = @ \cup {u}]}
    /\ UNCHANGED <<at, found, told, records, incident>>

\* pushToUser ends one way or the other; its error is caught.
PushEnds(a, u) ==
    /\ u \in pushing[a]
    /\ pushing' = [pushing EXCEPT ![a] = @ \ {u}]
    /\ UNCHANGED <<at, found, told, lost, records, incident>>

\* Fault: notifySecurityResponders is not awaited.
BroadcastAtOnce(a) ==
    /\ Move(a, "notify", "audit")
    /\ broadcast' = broadcast \cup {a}
    /\ UNCHANGED <<progress, trail, incident>>

\* emitSocietyEvent, when every promise has ended and none has failed.
Broadcast(a) ==
    /\ Storing(a) = {} /\ pushing[a] = {}
    /\ Move(a, "notify", "audit")
    /\ broadcast' = broadcast \cup {a}
    /\ UNCHANGED <<progress, trail, incident>>

\* auditService.record.
Audit(a) ==
    /\ Move(a, "audit", "done")
    /\ trail' = trail \cup {a}
    /\ UNCHANGED <<progress, broadcast, incident>>

AuditFails(a) ==
    /\ Move(a, "audit", "rejected")
    /\ UNCHANGED <<progress, records, incident>>

\* createIncidentReport.
Report(i) ==
    /\ incident[i] = "none"
    /\ incident' = [incident EXCEPT ![i] = "stored"]
    /\ UNCHANGED <<at, progress, records>>

AuditReport(i) ==
    /\ incident[i] = "stored"
    /\ \E result \in {"audited", "unaudited"} : incident' = [incident EXCEPT ![i] = result]
    /\ UNCHANGED <<at, progress, records>>

\* The process crashes: every request dies, and no restart takes one up.
Crash ==
    /\ at' = [a \in Alerts |-> IF at[a] \in {"none", "done"} THEN at[a] ELSE "gone"]
    /\ at' # at
    /\ pushing' = [a \in Alerts |-> {}]
    /\ incident' = [i \in Incidents |-> IF incident[i] = "stored" THEN "unaudited" ELSE incident[i]]
    /\ UNCHANGED <<found, told, lost, records>>

Answer(a) == \/ Find(a) \/ FindFails(a)
             \/ \E u \in Responders : Tell(a, u) \/ Lose(a, u) \/ PushEnds(a, u)
             \/ Broadcast(a)
             \/ Audit(a) \/ AuditFails(a)

AlertNext == \/ \E a \in Alerts : Raise(a) \/ Answer(a)
             \/ \E i \in Incidents : Report(i) \/ AuditReport(i)
             \/ Crash

\* The event loop serves every answer of the database, and the database and
\* the push service answer every call, if only with an error or a timeout.
Fairness == \A a \in Alerts :
    /\ WF_alertVars(Find(a) \/ FindFails(a))
    /\ \A u \in Responders : WF_alertVars(Tell(a, u) \/ Lose(a, u)) /\ WF_alertVars(PushEnds(a, u))
    /\ WF_alertVars(Broadcast(a))
    /\ WF_alertVars(Audit(a) \/ AuditFails(a))

AlertSpec == AlertInit /\ [][AlertNext]_alertVars

AlertFairSpec == AlertSpec /\ Fairness

-----------------------------------------------------------------------------
(* Properties.                                                             *)

\* What the sockets and the audit trail say is so: an alert is there only when
\* each responder that was found has his notification, and a request that told
\* only some of them is rejected, and stays out of both, for good.
BroadcastMeansTold ==
    \A a \in Alerts :
        /\ a \in broadcast => told[a] = found[a] /\ lost[a] = {}
        /\ a \notin broadcast => at[a] \notin {"audit", "done"}

\* One failure does not silence an alert for the others: each responder that
\* was found is told in the end, although the request may have been answered
\* with an error by then, unless his own notification fails or the process
\* crashes; and every alert that was raised comes to an answer.
EveryResponderIsTold ==
    /\ \A a \in Alerts, u \in Responders :
          u \in found[a] ~> u \in told[a] \cup lost[a] \/ at[a] = "gone"
    /\ \A a \in Alerts : at[a] = "find" ~> at[a] \in {"done", "rejected", "gone"}
=============================================================================
