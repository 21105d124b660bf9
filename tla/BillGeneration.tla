--------------------------- MODULE BillGeneration ---------------------------
(***************************************************************************)
(* generateBills of billing.controller.js: the monthly charge.  A request  *)
(* takes the flats as they are when it starts and bills them one by one,   *)
(* looking first for the bill of the period and creating it an await       *)
(* later.  Requests overlap (two admins, a repeated click, all flats and   *)
(* selected flats), die half way, and are made again to complete a period. *)
(* The unique index of models/Bill.js decides who creates a bill.          *)
(***************************************************************************)
EXTENDS Naturals

CONSTANTS AllFlats,  \* the flats there will ever be
          Periods,   \* billing periods, as the validator has trimmed them
          Requests,  \* the requests that are served concurrently
          MaxAborts, \* bound on the requests that die half way
          None       \* absent

ASSUME AbortsAssumption == MaxAborts \in Nat
ASSUME NoneAssumption == None \notin AllFlats \cup Periods

VARIABLES flats,    \* the Flat documents
          bills,    \* bills[p][f]: how many bills flat f has for period p
          reported, \* reported[p][f]: how many audit entries count that bill
          req,      \* req[r]: where request r stands
          aborts

vars == <<flats, bills, reported, req, aborts>>

\* todo: the flats still to visit; flat: the one whose bill was looked for and
\* not found; made, skipped: what the handler will answer.  History: chosen is
\* what Flat.find answered, before the flats that had a bill by then.
ReqState == [at : {"idle", "next", "create"}, period : Periods \cup {None},
             todo : SUBSET AllFlats, flat : AllFlats \cup {None},
             made : SUBSET AllFlats, skipped : SUBSET AllFlats,
             chosen : SUBSET AllFlats, before : SUBSET AllFlats]

Idle == [at |-> "idle", period |-> None, todo |-> {}, flat |-> None,
         made |-> {}, skipped |-> {}, chosen |-> {}, before |-> {}]

Counts == [Periods -> [AllFlats -> Nat]]

TypeOK == /\ flats \subseteq AllFlats
          /\ bills \in Counts
          /\ reported \in Counts
          /\ req \in [Requests -> ReqState]
          /\ \A r \in Requests : req[r].chosen \subseteq flats
          /\ aborts \in 0..MaxAborts

NoBills == [p \in Periods |-> [f \in AllFlats |-> 0]]

Init == /\ flats = {}
        /\ bills = NoBills
        /\ reported = NoBills
        /\ req = [r \in Requests |-> Idle]
        /\ aborts = 0

-----------------------------------------------------------------------------
Billed(p) == {f \in AllFlats : bills[p][f] > 0}
Finish(r) == req' = [req EXCEPT ![r] = Idle]

\* createFlat of society.controller.js.
CreateFlat(f) ==
    /\ f \notin flats
    /\ flats' = flats \cup {f}
    /\ UNCHANGED <<bills, reported, req, aborts>>

Begin(r, p, chosen) ==
    req' = [req EXCEPT ![r] = [Idle EXCEPT !.at = "next", !.period = p,
                                           !.todo = chosen, !.chosen = chosen,
                                           !.before = Billed(p)]]

\* Fault: the ids of the request are taken as they are.
StartUnchecked(r, p, ids) ==
    /\ req[r].at = "idle"
    /\ ids # {}
    /\ Begin(r, p, ids)
    /\ UNCHANGED <<flats, bills, reported, aborts>>

\* Flat.find: the flats of the filter that exist, or 404 when there are none.
StartGenerate(r, p, ids) ==
    /\ req[r].at = "idle"
    /\ flats \cap ids # {}
    /\ Begin(r, p, flats \cap ids)
    /\ UNCHANGED <<flats, bills, reported, aborts>>

\* Fault: the bill of any period counts.
ExistsForAnyPeriod(p, f) == \E q \in Periods : bills[q][f] > 0

\* Bill.findOne by flat and billing period.
Exists(p, f) == bills[p][f] > 0

\* A flat that has its bill is skipped.
SkipBilled(r, f) ==
    /\ req[r].at = "next"
    /\ f \in req[r].todo
    /\ Exists(req[r].period, f)
    /\ req' = [req EXCEPT ![r].todo = @ \ {f}, ![r].skipped = @ \cup {f}]
    /\ UNCHANGED <<flats, bills, reported, aborts>>

\* Fault: the bill is not looked for.
FindNothing(r, f) ==
    /\ req[r].at = "next"
    /\ f \in req[r].todo
    /\ req' = [req EXCEPT ![r].at = "create", ![r].flat = f]
    /\ UNCHANGED <<flats, bills, reported, aborts>>

\* The others are billed next.
FindMissing(r, f) ==
    /\ req[r].at = "next"
    /\ f \in req[r].todo
    /\ ~Exists(req[r].period, f)
    /\ req' = [req EXCEPT ![r].at = "create", ![r].flat = f]
    /\ UNCHANGED <<flats, bills, reported, aborts>>

\* Fault: there is no unique index.
NoKey(p, f) == TRUE

\* The unique index of Bill: society, flat and billing period.
KeyIsFree(p, f) == bills[p][f] = 0

Store(r, made) ==
    /\ req[r].at = "create"
    /\ KeyIsFree(req[r].period, req[r].flat)
    /\ bills' = [bills EXCEPT ![req[r].period][req[r].flat] = @ + 1]
    /\ req' = [req EXCEPT ![r].at = "next", ![r].flat = None,
                          ![r].todo = @ \ {req[r].flat}, ![r].made = made]
    /\ UNCHANGED <<flats, reported, aborts>>

\* Fault: the new bill is not pushed.
CreateUncounted(r) == Store(r, req[r].made)

\* Bill.create, and bills.push.
CreateBill(r) == Store(r, req[r].made \cup {req[r].flat})

\* Bill.create throws (E11000): the loop ends, nothing is audited.
Collide(r) ==
    /\ req[r].at = "create"
    /\ ~KeyIsFree(req[r].period, req[r].flat)
    /\ Finish(r)
    /\ UNCHANGED <<flats, bills, reported, aborts>>

\* auditService.record ends generateBills.
AuditGeneration(r) ==
    /\ req[r].at = "next"
    /\ req[r].todo = {}
    /\ reported' = [reported EXCEPT ![req[r].period] =
                      [f \in AllFlats |-> @[f] + IF f \in req[r].made THEN 1 ELSE 0]]
    /\ Finish(r)
    /\ UNCHANGED <<flats, bills, aborts>>

\* The request dies at one of its awaits.
Abort(r) ==
    /\ req[r].at # "idle"
    /\ aborts < MaxAborts
    /\ aborts' = aborts + 1
    /\ Finish(r)
    /\ UNCHANGED <<flats, bills, reported>>

Visit(r) == \E f \in AllFlats : SkipBilled(r, f) \/ FindMissing(r, f)

GenerateBills(r) == \/ \E p \in Periods, ids \in SUBSET AllFlats : StartGenerate(r, p, ids)
                    \/ Visit(r)
                    \/ CreateBill(r)
                    \/ Collide(r)
                    \/ AuditGeneration(r)

Next == \/ \E f \in AllFlats : CreateFlat(f)
        \/ \E r \in Requests : GenerateBills(r) \/ Abort(r)

Spec == Init /\ [][Next]_vars

-----------------------------------------------------------------------------
(* Properties.                                                             *)

\* No flat is charged twice for a period, whoever generates it and however
\* often.
OneBillPerFlat == \A p \in Periods, f \in AllFlats : bills[p][f] <= 1

Making(p, f) == {r \in Requests : req[r].period = p /\ f \in req[r].made}

\* A bill is reported by one generation at most: no audit entry counts a bill
\* of another request, and two never count the same bill.
ReportedOnce ==
    \A p \in Periods, f \in AllFlats :
        /\ reported[p][f] <= bills[p][f]
        /\ \A r \in Making(p, f) : /\ reported[p][f] < bills[p][f]
                                   /\ Making(p, f) = {r}

\* Charged once and counted once, however generations overlap and repeat.
ChargedAndReportedOnce == OneBillPerFlat /\ ReportedOnce

\* A generation is audited only when every flat it found at its start has a
\* bill for the period: those it has visited do, and it answers each of them
\* either as billed or as skipped.
GenerationCovers ==
    \A r \in Requests :
        LET visited == req[r].chosen \ req[r].todo
        IN /\ req[r].made \cup req[r].skipped = visited
           /\ req[r].made \cap req[r].skipped = {}
           /\ \A f \in visited : bills[req[r].period][f] > 0

\* Only an overlap makes create() throw: a generation that completes what an
\* earlier one has left undone is never stopped by the bills that one made.
CollisionIsARace ==
    [][\A r \in Requests :
          req[r].at = "create" /\ req'[r].at = "idle" /\ aborts' = aborts
          => req[r].flat \notin req[r].before]_vars

\* The bills that are not in any audit entry or in a request under way are
\* those of requests that died or collided: with neither, every bill is
\* accounted for.
NothingLost ==
    [][\A p \in Periods, f \in AllFlats :
          bills'[p][f] > 0 /\ reported'[p][f] = 0 /\ Making(p, f)' = {}
          => \/ bills[p][f] > 0 /\ reported[p][f] = 0 /\ Making(p, f) = {}
             \/ \E r \in Requests :
                   /\ req[r].at # "idle" /\ req'[r].at = "idle"
                   /\ aborts' > aborts \/ req[r].at = "create"]_vars
=============================================================================
