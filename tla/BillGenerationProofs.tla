------------------------ MODULE BillGenerationProofs ------------------------
(***************************************************************************)
(* What is proved of BillGeneration for any flats, any periods, and any    *)
(* number of generations that overlap, die, and are made again.            *)
(***************************************************************************)
EXTENDS BillGeneration, TLAPS

-----------------------------------------------------------------------------
(* The inductive invariant.                                                *)

\* What a request knows of the bills and still relies on: the flat it is about
\* to bill is on its list, and had no bill when the request began.
RequestOK(r) ==
    /\ req[r].at = "idle" => req[r] = Idle
    /\ req[r].at # "idle" => req[r].period \in Periods
    /\ req[r].todo \subseteq req[r].chosen
    /\ req[r].at = "create" =>
          req[r].flat \in req[r].todo /\ req[r].flat \notin req[r].before
    /\ req[r].at # "idle" => \A f \in req[r].before : bills[req[r].period][f] > 0

IInv == /\ TypeOK
        /\ OneBillPerFlat
        /\ ReportedOnce
        /\ GenerationCovers
        /\ \A r \in Requests : RequestOK(r)

-----------------------------------------------------------------------------
\* An idle request is well typed.
LEMMA IdleType == Idle \in ReqState
  BY DEF Idle, ReqState

\* A step of request r leaves the others where they are.
LEMMA OthersKept ==
    ASSUME TypeOK, NEW r \in Requests, GenerateBills(r) \/ Abort(r)
    PROVE  \A s \in Requests : s # r => req'[s] = req[s]
  BY DEF TypeOK, GenerateBills, Abort, Visit, StartGenerate, Begin, SkipBilled,
     FindMissing, CreateBill, Store, Collide, AuditGeneration, Finish

\* The bill of a flat and a period, once there, stays; only CreateBill adds one.
LEMMA BillsGrow ==
    ASSUME IInv, [Next]_vars, NEW p \in Periods, NEW f \in AllFlats
    PROVE  bills'[p][f] >= bills[p][f] /\ bills[p][f] \in Nat /\ bills'[p][f] \in Nat
<1>1. TypeOK /\ \A r \in Requests : RequestOK(r)
  BY DEF IInv
<1>2. CASE bills' = bills
  BY <1>1, <1>2 DEF TypeOK, Counts
<1>3. ASSUME NEW r \in Requests, CreateBill(r)
      PROVE  bills'[p][f] = bills[p][f] \/ bills'[p][f] = bills[p][f] + 1
  BY <1>1, <1>3 DEF CreateBill, Store, TypeOK, Counts
<1>4. CASE \E r \in Requests : CreateBill(r)
  BY <1>1, <1>3, <1>4 DEF TypeOK, Counts
<1> QED
  BY <1>2, <1>4 DEF Next, GenerateBills, Visit, vars, CreateFlat, StartGenerate,
     SkipBilled, FindMissing, Collide, AuditGeneration, Abort

\* Every step keeps every variable in its type.
LEMMA TypeKept == IInv /\ [Next]_vars => TypeOK'
<1> SUFFICES ASSUME IInv, [Next]_vars PROVE TypeOK'
  OBVIOUS
<1>a. TypeOK /\ \A r \in Requests : RequestOK(r)
  BY DEF IInv
<1> USE <1>a, IdleType, AbortsAssumption DEF TypeOK
<1>1. ASSUME NEW f \in AllFlats, CreateFlat(f) PROVE TypeOK'
  BY <1>1 DEF CreateFlat
<1>2. ASSUME NEW r \in Requests, NEW p \in Periods, NEW ids \in SUBSET AllFlats,
             StartGenerate(r, p, ids)
      PROVE  TypeOK'
  <2>1. req'[r] \in ReqState /\ req'[r].chosen \subseteq flats
    BY <1>2 DEF StartGenerate, Begin, Idle, ReqState, Billed
  <2> QED BY <1>2, <2>1 DEF StartGenerate, Begin
<1>3. ASSUME NEW r \in Requests, NEW f \in AllFlats, SkipBilled(r, f) \/ FindMissing(r, f)
      PROVE  TypeOK'
  <2>1. req'[r] \in ReqState /\ req'[r].chosen = req[r].chosen
    BY <1>3 DEF SkipBilled, FindMissing, ReqState
  <2> QED BY <1>3, <2>1 DEF SkipBilled, FindMissing
<1>4. ASSUME NEW r \in Requests, CreateBill(r) PROVE TypeOK'
  <2>1. req[r].period \in Periods /\ req[r].flat \in AllFlats
    BY <1>4 DEF CreateBill, Store, RequestOK, ReqState
  <2>2. req'[r] \in ReqState /\ req'[r].chosen = req[r].chosen
    BY <1>4, <2>1 DEF CreateBill, Store, ReqState
  <2>3. bills' \in Counts
    BY <1>4, <2>1 DEF CreateBill, Store, Counts
  <2> QED BY <1>4, <2>2, <2>3 DEF CreateBill, Store
<1>5. ASSUME NEW r \in Requests, Collide(r) \/ Abort(r) PROVE TypeOK'
  <2>1. /\ req' = [req EXCEPT ![r] = Idle] /\ UNCHANGED <<flats, bills, reported>>
        /\ aborts' \in 0..MaxAborts
    BY <1>5 DEF Collide, Abort, Finish
  <2>2. req' \in [Requests -> ReqState]
    BY <2>1
  <2>3. \A s \in Requests : req'[s].chosen \subseteq flats
    BY <2>1 DEF Idle
  <2> QED BY <2>1, <2>2, <2>3
<1>6. ASSUME NEW r \in Requests, AuditGeneration(r) PROVE TypeOK'
  <2>1. reported' \in Counts
    <3>1. /\ req[r].period \in Periods
          /\ reported' = [reported EXCEPT ![req[r].period] =
                  [f \in AllFlats |-> @[f] + IF f \in req[r].made THEN 1 ELSE 0]]
      BY <1>6 DEF AuditGeneration, RequestOK
    <3>2. \A p \in Periods, f \in AllFlats :
             reported'[p][f] = reported[p][f]
                + IF p = req[r].period /\ f \in req[r].made THEN 1 ELSE 0
      BY <3>1 DEF Counts
    <3>3. \A p \in Periods : reported'[p] \in [AllFlats -> Nat]
      BY <3>1 DEF Counts
    <3> QED BY <3>1, <3>3 DEF Counts
  <2> QED BY <1>6, <2>1 DEF AuditGeneration, Finish, Idle
<1>7. CASE UNCHANGED vars
  BY <1>7 DEF vars
<1> QED
  BY <1>1, <1>2, <1>3, <1>4, <1>5, <1>6, <1>7 DEF Next, GenerateBills, Visit

\* The unique index keeps a flat at one bill for a period.
LEMMA OneBillKept == IInv /\ [Next]_vars => OneBillPerFlat'
<1> SUFFICES ASSUME IInv, [Next]_vars, NEW p \in Periods, NEW f \in AllFlats
             PROVE  bills'[p][f] <= 1
  BY DEF OneBillPerFlat
<1>1. TypeOK /\ OneBillPerFlat /\ \A r \in Requests : RequestOK(r)
  BY DEF IInv
<1>2. CASE bills' = bills
  BY <1>1, <1>2 DEF OneBillPerFlat
<1>3. ASSUME NEW r \in Requests, CreateBill(r) PROVE bills'[p][f] <= 1
  BY <1>1, <1>3 DEF CreateBill, Store, KeyIsFree, TypeOK, Counts, OneBillPerFlat
<1> QED
  BY <1>2, <1>3 DEF Next, GenerateBills, Visit, vars, CreateFlat, StartGenerate,
     SkipBilled, FindMissing, Collide, AuditGeneration, Abort

\* What a request knows of the bills stays true, and its lists stay in step
\* with what it has visited.
LEMMA RequestKept ==
    ASSUME IInv, [Next]_vars, NEW r \in Requests
    PROVE  /\ RequestOK(r)'
           /\ LET visited == req'[r].chosen \ req'[r].todo
              IN /\ req'[r].made \cup req'[r].skipped = visited
                 /\ req'[r].made \cap req'[r].skipped = {}
                 /\ \A f \in visited : bills'[req'[r].period][f] > 0
<1> DEFINE Covers(q, b) ==
              LET visited == q.chosen \ q.todo
              IN /\ q.made \cup q.skipped = visited
                 /\ q.made \cap q.skipped = {}
                 /\ \A f \in visited : b[q.period][f] > 0
<1>1. TypeOK /\ RequestOK(r) /\ Covers(req[r], bills)
  BY DEF IInv, GenerationCovers
<1>2. \A p \in Periods, f \in AllFlats : bills[p][f] > 0 => bills'[p][f] > 0
  BY BillsGrow
<1>3. CASE req'[r] = Idle
  BY <1>3 DEF Idle, RequestOK
<1>4. CASE req'[r] = req[r]
  BY <1>1, <1>2, <1>4 DEF RequestOK, TypeOK, ReqState, Idle
<1>5. ASSUME NEW p \in Periods, NEW ids \in SUBSET AllFlats, StartGenerate(r, p, ids)
      PROVE  RequestOK(r)' /\ Covers(req'[r], bills')
  <2>1. /\ req'[r].at = "next" /\ req'[r].period = p
        /\ req'[r].todo = req'[r].chosen
        /\ req'[r].made = {} /\ req'[r].skipped = {}
        /\ req'[r].before = Billed(p)
        /\ bills' = bills
    BY <1>1, <1>5 DEF StartGenerate, Begin, Idle, TypeOK
  <2> QED BY <2>1 DEF RequestOK, Billed
<1>6. ASSUME NEW g \in AllFlats, SkipBilled(r, g)
      PROVE  RequestOK(r)' /\ Covers(req'[r], bills')
  <2>1. /\ req'[r].at = "next" /\ req'[r].period = req[r].period
        /\ req'[r].todo = req[r].todo \ {g} /\ req'[r].chosen = req[r].chosen
        /\ req'[r].made = req[r].made /\ req'[r].skipped = req[r].skipped \cup {g}
        /\ req'[r].before = req[r].before
        /\ bills' = bills /\ req[r].at = "next"
        /\ g \in req[r].todo /\ bills[req[r].period][g] > 0
    BY <1>1, <1>6 DEF SkipBilled, Exists, TypeOK, ReqState
  <2>2. RequestOK(r)'
    BY <1>1, <2>1 DEF RequestOK
  <2>3. g \in req[r].chosen /\ g \notin req[r].made
    BY <1>1, <2>1 DEF RequestOK
  <2>4. req'[r].chosen \ req'[r].todo = (req[r].chosen \ req[r].todo) \cup {g}
    BY <2>1, <2>3
  <2> QED BY <1>1, <2>1, <2>2, <2>3, <2>4
<1>7. ASSUME NEW g \in AllFlats, FindMissing(r, g)
      PROVE  RequestOK(r)' /\ Covers(req'[r], bills')
  <2>1. /\ req'[r].at = "create" /\ req'[r].period = req[r].period
        /\ req'[r].todo = req[r].todo /\ req'[r].chosen = req[r].chosen
        /\ req'[r].made = req[r].made /\ req'[r].skipped = req[r].skipped
        /\ req'[r].before = req[r].before /\ req'[r].flat = g
        /\ bills' = bills /\ req[r].at = "next"
        /\ g \in req[r].todo /\ ~(bills[req[r].period][g] > 0)
    BY <1>1, <1>7 DEF FindMissing, Exists, TypeOK, ReqState
  <2> QED BY <1>1, <2>1 DEF RequestOK
<1>8. ASSUME CreateBill(r)
      PROVE  RequestOK(r)' /\ Covers(req'[r], bills')
  <2>1. /\ req[r].at = "create" /\ req[r].period \in Periods
        /\ req[r].flat \in req[r].todo /\ req[r].flat \in AllFlats
        /\ req[r].before \subseteq AllFlats /\ req[r].chosen \subseteq AllFlats
    BY <1>1, <1>8 DEF CreateBill, Store, RequestOK, TypeOK, ReqState
  <2>2. /\ req'[r].at = "next" /\ req'[r].period = req[r].period
        /\ req'[r].todo = req[r].todo \ {req[r].flat}
        /\ req'[r].chosen = req[r].chosen
        /\ req'[r].made = req[r].made \cup {req[r].flat}
        /\ req'[r].skipped = req[r].skipped
        /\ req'[r].before = req[r].before
    BY <1>1, <1>8 DEF CreateBill, Store, TypeOK, ReqState
  <2>3. bills'[req[r].period][req[r].flat] > 0
    BY <1>1, <1>8, <2>1 DEF CreateBill, Store, TypeOK, Counts
  <2>4. RequestOK(r)'
    BY <1>1, <1>2, <2>1, <2>2 DEF RequestOK
  <2>5. req'[r].chosen \ req'[r].todo = (req[r].chosen \ req[r].todo) \cup {req[r].flat}
    BY <1>1, <2>1, <2>2 DEF RequestOK
  <2> QED BY <1>1, <1>2, <2>1, <2>2, <2>3, <2>4, <2>5
<1>9. ASSUME Collide(r) \/ AuditGeneration(r) \/ Abort(r) PROVE req'[r] = Idle
  BY <1>1, <1>9 DEF Collide, AuditGeneration, Abort, Finish, TypeOK
<1>10. ASSUME NEW s \in Requests, s # r, GenerateBills(s) \/ Abort(s)
       PROVE  req'[r] = req[r]
  BY <1>1, <1>10, OthersKept
<1>11. CASE UNCHANGED vars \/ \E f \in AllFlats : CreateFlat(f)
  BY <1>4, <1>11 DEF vars, CreateFlat
<1> QED
  BY <1>3, <1>4, <1>5, <1>6, <1>7, <1>8, <1>9, <1>10, <1>11 DEF Next, GenerateBills, Visit

\* A bill is pushed by the request that has created it, which reports it once
\* and forgets it.
LEMMA ReportedKept == IInv /\ [Next]_vars => ReportedOnce'
<1> SUFFICES ASSUME IInv, [Next]_vars, NEW p \in Periods, NEW f \in AllFlats
      PROVE  /\ reported'[p][f] <= bills'[p][f]
             /\ \A r \in Making(p, f)' : /\ reported'[p][f] < bills'[p][f]
                                         /\ Making(p, f)' = {r}
  BY DEF ReportedOnce
<1>1. /\ TypeOK /\ \A r \in Requests : RequestOK(r)
      /\ reported[p][f] \in Nat /\ bills[p][f] \in Nat
      /\ reported[p][f] <= bills[p][f]
      /\ \A r \in Making(p, f) : reported[p][f] < bills[p][f] /\ Making(p, f) = {r}
  BY DEF IInv, ReportedOnce, TypeOK, Counts
<1>2. ASSUME UNCHANGED <<bills, reported>>, Making(p, f)' \subseteq Making(p, f)
      PROVE  /\ reported'[p][f] <= bills'[p][f]
             /\ \A r \in Making(p, f)' : /\ reported'[p][f] < bills'[p][f]
                                         /\ Making(p, f)' = {r}
  BY <1>1, <1>2
<1>3. ASSUME NEW r \in Requests, UNCHANGED <<bills, reported>>,
             \A s \in Requests : s # r => req'[s] = req[s],
             req'[r].made = {} \/ (req'[r].made = req[r].made
                                     /\ req'[r].period = req[r].period)
      PROVE  Making(p, f)' \subseteq Making(p, f)
  BY <1>3 DEF Making
<1>4. ASSUME NEW r \in Requests, CreateBill(r)
      PROVE  /\ reported'[p][f] <= bills'[p][f]
             /\ \A s \in Making(p, f)' : /\ reported'[p][f] < bills'[p][f]
                                         /\ Making(p, f)' = {s}
  <2>1. /\ req[r].period \in Periods /\ req[r].flat \in AllFlats
        /\ bills[req[r].period][req[r].flat] = 0
        /\ bills' = [bills EXCEPT ![req[r].period][req[r].flat] = @ + 1]
        /\ reported' = reported
        /\ req'[r].made = req[r].made \cup {req[r].flat}
        /\ req'[r].period = req[r].period
    BY <1>1, <1>4 DEF CreateBill, Store, KeyIsFree, RequestOK, TypeOK, ReqState
  <2>2. \A s \in Requests : s # r => req'[s] = req[s]
    BY <1>1, <1>4, OthersKept DEF GenerateBills
  <2>3. CASE p = req[r].period /\ f = req[r].flat
    <3>1. reported[p][f] = 0 /\ Making(p, f) = {}
      BY <1>1, <2>1, <2>3
    <3>2. bills'[p][f] = 1
      BY <1>1, <2>1, <2>3 DEF TypeOK, Counts
    <3>3. Making(p, f)' = {r}
      BY <2>1, <2>2, <2>3, <3>1 DEF Making
    <3> QED BY <2>1, <3>1, <3>2, <3>3
  <2>4. CASE ~(p = req[r].period /\ f = req[r].flat)
    <3>1. bills'[p][f] = bills[p][f]
      BY <1>1, <2>1, <2>4 DEF TypeOK, Counts
    <3>2. Making(p, f)' = Making(p, f)
      BY <2>1, <2>2, <2>4 DEF Making
    <3> QED BY <1>1, <2>1, <3>1, <3>2
  <2> QED BY <2>3, <2>4
<1>5. ASSUME NEW r \in Requests, AuditGeneration(r)
      PROVE  /\ reported'[p][f] <= bills'[p][f]
             /\ \A s \in Making(p, f)' : /\ reported'[p][f] < bills'[p][f]
                                         /\ Making(p, f)' = {s}
  <2>1. /\ bills' = bills /\ req'[r].made = {}
        /\ req[r].period \in Periods
        /\ reported' = [reported EXCEPT ![req[r].period] =
                [g \in AllFlats |-> @[g] + IF g \in req[r].made THEN 1 ELSE 0]]
    BY <1>1, <1>5 DEF AuditGeneration, Finish, Idle, RequestOK, TypeOK
  <2>2. \A s \in Requests : s # r => req'[s] = req[s]
    BY <1>1, <1>5, OthersKept DEF GenerateBills
  <2>3. Making(p, f)' = Making(p, f) \ {r}
    BY <2>1, <2>2 DEF Making
  <2>4. CASE r \in Making(p, f)
    <3>1. reported'[p][f] = reported[p][f] + 1 /\ Making(p, f) = {r}
      BY <1>1, <2>1, <2>4 DEF TypeOK, Counts, Making
    <3> QED BY <1>1, <2>1, <2>3, <2>4, <3>1
  <2>5. CASE r \notin Making(p, f)
    <3>1. reported'[p][f] = reported[p][f]
      <4>1. CASE p = req[r].period
        BY <1>1, <2>1, <2>5, <4>1 DEF TypeOK, Counts, Making
      <4>2. CASE p # req[r].period
        BY <1>1, <2>1, <4>2 DEF TypeOK, Counts
      <4> QED BY <4>1, <4>2
    <3> QED BY <1>1, <2>1, <2>3, <2>5, <3>1
  <2> QED BY <2>4, <2>5
<1>6. ASSUME NEW r \in Requests, NEW q \in Periods, NEW ids \in SUBSET AllFlats,
             StartGenerate(r, q, ids)
      PROVE  Making(p, f)' \subseteq Making(p, f) /\ UNCHANGED <<bills, reported>>
  <2>1. req'[r].made = {} /\ UNCHANGED <<bills, reported>>
    BY <1>1, <1>6 DEF StartGenerate, Begin, Idle, TypeOK
  <2> QED BY <1>1, <1>3, <1>6, <2>1, OthersKept DEF GenerateBills
<1>7. ASSUME NEW r \in Requests, Visit(r)
      PROVE  Making(p, f)' \subseteq Making(p, f) /\ UNCHANGED <<bills, reported>>
  <2>1. /\ req'[r].made = req[r].made /\ req'[r].period = req[r].period
        /\ UNCHANGED <<bills, reported>>
    BY <1>1, <1>7 DEF Visit, SkipBilled, FindMissing, TypeOK, ReqState
  <2> QED BY <1>1, <1>3, <1>7, <2>1, OthersKept DEF GenerateBills
<1>8. ASSUME NEW r \in Requests, Collide(r) \/ Abort(r)
      PROVE  Making(p, f)' \subseteq Making(p, f) /\ UNCHANGED <<bills, reported>>
  <2>1. req'[r].made = {} /\ UNCHANGED <<bills, reported>>
    BY <1>1, <1>8 DEF Collide, Abort, Finish, Idle, TypeOK
  <2> QED BY <1>1, <1>3, <1>8, <2>1, OthersKept DEF GenerateBills
<1>9. CASE UNCHANGED vars \/ \E g \in AllFlats : CreateFlat(g)
  BY <1>1, <1>9 DEF vars, CreateFlat, Making
<1> QED
  BY <1>2, <1>4, <1>5, <1>6, <1>7, <1>8, <1>9 DEF Next, GenerateBills

\* The invariant holds of an empty database.
LEMMA InitIInv == Init => IInv
<1> SUFFICES ASSUME Init PROVE IInv
  OBVIOUS
<1>1. TypeOK
  BY IdleType, AbortsAssumption DEF Init, TypeOK, NoBills, Counts, Idle
<1>2. OneBillPerFlat /\ ReportedOnce /\ GenerationCovers
  BY DEF Init, NoBills, Idle, OneBillPerFlat, ReportedOnce, Making, GenerationCovers
<1>3. \A r \in Requests : RequestOK(r)
  BY DEF Init, Idle, RequestOK
<1> QED BY <1>1, <1>2, <1>3 DEF IInv

\* The invariant is inductive.
THEOREM Invariance == Spec => []IInv
<1>1. IInv /\ [Next]_vars => GenerationCovers' /\ \A r \in Requests : RequestOK(r)'
  BY RequestKept DEF GenerationCovers
<1>2. IInv /\ [Next]_vars => IInv'
  BY <1>1, TypeKept, OneBillKept, ReportedKept DEF IInv
<1> QED BY InitIInv, <1>2, PTL DEF Spec

\* Every variable keeps its type, and generations only visit flats that exist.
THEOREM TypeCorrect == Spec => []TypeOK
<1>1. IInv => TypeOK
  BY DEF IInv
<1> QED BY Invariance, <1>1, PTL

\* No flat is charged twice for a period.
THEOREM ChargedOnce == Spec => []OneBillPerFlat
<1>1. IInv => OneBillPerFlat
  BY DEF IInv
<1> QED BY Invariance, <1>1, PTL

\* No bill is reported by two generations.
THEOREM CountedOnce == Spec => []ReportedOnce
<1>1. IInv => ReportedOnce
  BY DEF IInv
<1> QED BY Invariance, <1>1, PTL

\* Each flat is charged once and each bill counted once.
THEOREM OnceOnly == Spec => []ChargedAndReportedOnce
BY ChargedOnce, CountedOnce, PTL DEF ChargedAndReportedOnce

\* What is audited is complete: every flat that was found has its bill.
THEOREM AuditedIsComplete == Spec => []GenerationCovers
<1>1. IInv => GenerationCovers
  BY DEF IInv
<1> QED BY Invariance, <1>1, PTL

\* Only a bill made during the generation can stop it.
THEOREM RerunsAreSafe == Spec => CollisionIsARace
<1>1. IInv /\ [Next]_vars =>
        [\A r \in Requests :
          req[r].at = "create" /\ req'[r].at = "idle" /\ aborts' = aborts
          => req[r].flat \notin req[r].before]_vars
  BY DEF IInv, RequestOK
<1> QED BY Invariance, <1>1, PTL DEF Spec, CollisionIsARace

-----------------------------------------------------------------------------
(* Bills that nobody accounts for.                                         *)

Lost(p, f) == bills[p][f] > 0 /\ reported[p][f] = 0 /\ Making(p, f) = {}

\* The request r ends with a bill made and not audited: it dies or collides.
Fails(r) == /\ req[r].at # "idle" /\ req'[r].at = "idle"
            /\ aborts' > aborts \/ req[r].at = "create"

\* A request that neither gains nor loses a bill keeps everybody's account.
LEMMA SameMaking ==
    ASSUME NEW r \in Requests, NEW p \in Periods, NEW f \in AllFlats,
           \A s \in Requests : s # r => req'[s] = req[s],
           \/ f \notin req[r].made
           \/ f \in req'[r].made /\ req'[r].period = req[r].period
           \/ req[r].period # p
    PROVE  Making(p, f) \subseteq Making(p, f)'
  BY DEF Making

\* A request that does not fail loses no bill.
LEMMA OnlyFailuresLose ==
    ASSUME IInv, [Next]_vars, NEW p \in Periods, NEW f \in AllFlats, Lost(p, f)'
    PROVE  Lost(p, f) \/ \E r \in Requests : Fails(r)
<1>1. /\ TypeOK /\ \A r \in Requests : RequestOK(r)
      /\ reported[p][f] \in Nat /\ bills[p][f] \in Nat
      /\ bills'[p][f] > 0 /\ reported'[p][f] = 0 /\ Making(p, f)' = {}
  BY DEF IInv, TypeOK, Counts, Lost
<1>2. ASSUME UNCHANGED <<bills, reported>>, Making(p, f) \subseteq Making(p, f)'
      PROVE  Lost(p, f)
  BY <1>1, <1>2 DEF Lost
<1>3. ASSUME NEW r \in Requests, NEW q \in Periods, NEW ids \in SUBSET AllFlats,
             StartGenerate(r, q, ids)
      PROVE  Lost(p, f)
  <2>1. f \notin req[r].made /\ UNCHANGED <<bills, reported>>
    BY <1>1, <1>3 DEF StartGenerate, RequestOK, Idle
  <2> QED BY <1>1, <1>2, <1>3, <2>1, SameMaking, OthersKept DEF GenerateBills
<1>4. ASSUME NEW r \in Requests, Visit(r)
      PROVE  Lost(p, f)
  <2>1. /\ req'[r].made = req[r].made /\ req'[r].period = req[r].period
        /\ UNCHANGED <<bills, reported>>
    BY <1>1, <1>4 DEF Visit, SkipBilled, FindMissing, TypeOK, ReqState
  <2> QED BY <1>1, <1>2, <1>4, <2>1, SameMaking, OthersKept DEF GenerateBills
<1>5. ASSUME NEW r \in Requests, CreateBill(r)
      PROVE  Lost(p, f)
  <2>1. /\ req[r].period \in Periods /\ req[r].flat \in AllFlats
        /\ bills' = [bills EXCEPT ![req[r].period][req[r].flat] = @ + 1]
        /\ reported' = reported
        /\ req'[r].made = req[r].made \cup {req[r].flat}
        /\ req'[r].period = req[r].period
    BY <1>1, <1>5 DEF CreateBill, Store, RequestOK, TypeOK, ReqState
  <2>2. ~(p = req[r].period /\ f = req[r].flat)
    BY <1>1, <2>1 DEF Making
  <2>3. bills'[p][f] = bills[p][f]
    BY <1>1, <2>1, <2>2 DEF TypeOK, Counts
  <2>4. Making(p, f) \subseteq Making(p, f)'
    BY <1>1, <1>5, <2>1, SameMaking, OthersKept DEF GenerateBills
  <2> QED BY <1>1, <2>1, <2>3, <2>4 DEF Lost
<1>6. ASSUME NEW r \in Requests, AuditGeneration(r)
      PROVE  Lost(p, f)
  <2>1. /\ bills' = bills /\ req[r].period \in Periods
        /\ reported' = [reported EXCEPT ![req[r].period] =
                [g \in AllFlats |-> @[g] + IF g \in req[r].made THEN 1 ELSE 0]]
    BY <1>6, <1>1 DEF AuditGeneration, RequestOK
  <2>2. CASE p = req[r].period
    <3>1. reported'[p][f] = reported[p][f] + IF f \in req[r].made THEN 1 ELSE 0
      BY <1>1, <2>1, <2>2 DEF TypeOK, Counts
    <3>2. f \notin req[r].made /\ reported[p][f] = 0
      BY <1>1, <3>1
    <3> QED BY <1>1, <1>6, <2>1, <3>2, SameMaking, OthersKept DEF GenerateBills, Lost
  <2>3. CASE p # req[r].period
    <3>1. reported'[p][f] = reported[p][f]
      BY <1>1, <2>1, <2>3 DEF TypeOK, Counts
    <3> QED BY <1>1, <1>6, <2>1, <2>3, <3>1, SameMaking, OthersKept DEF GenerateBills, Lost
  <2> QED BY <2>2, <2>3
<1>7. ASSUME NEW r \in Requests, Collide(r) \/ Abort(r)
      PROVE  Fails(r)
  <2>1. req'[r].at = "idle"
    BY <1>1, <1>7 DEF Collide, Abort, Finish, Idle, TypeOK
  <2> QED BY <1>1, <1>7, <2>1, AbortsAssumption DEF Collide, Abort, Fails, TypeOK
<1>8. CASE UNCHANGED vars \/ \E g \in AllFlats : CreateFlat(g)
  BY <1>1, <1>8 DEF vars, CreateFlat, Making, Lost
<1> QED
  BY <1>3, <1>4, <1>5, <1>6, <1>7, <1>8 DEF Next, GenerateBills

\* A bill that no audit entry counts is one of a request that died or collided.
THEOREM LossesAreFailures == Spec => NothingLost
<1>1. IInv /\ [Next]_vars =>
        [\A p \in Periods, f \in AllFlats :
          bills'[p][f] > 0 /\ reported'[p][f] = 0 /\ Making(p, f)' = {}
          => \/ bills[p][f] > 0 /\ reported[p][f] = 0 /\ Making(p, f) = {}
             \/ \E r \in Requests :
                   /\ req[r].at # "idle" /\ req'[r].at = "idle"
                   /\ aborts' > aborts \/ req[r].at = "create"]_vars
  BY OnlyFailuresLose DEF Lost, Fails
<1> QED BY Invariance, <1>1, PTL DEF Spec, NothingLost
=============================================================================
