--------------------------- MODULE AccountsProofs ---------------------------
(***************************************************************************)
(* What is proved of Accounts, for any users, flats and browsers, and any  *)
(* finite number of requests that are served at once.                      *)
(***************************************************************************)
EXTENDS Accounts, Integers, FiniteSetTheorems, TLAPS

-----------------------------------------------------------------------------
(* The inductive invariant.                                                *)

\* What a request keeps from one of its awaits to the next.
RequestOK(r) ==
    /\ req[r].at # "idle" => req[r].u \in Users
    /\ req[r].op \in {"register", "login", "logout"} => req[r].d \in Devices
    /\ req[r].at = "sign" => req[r].op # "logout"
    /\ req[r].at = "store" => req[r].token \in Token
    /\ req[r].at \in {"store", "answer"} /\ req[r].op # "logout"
          => req[r].token \in Token /\ req[r].token.user = req[r].u
    /\ req[r].at = "audit" /\ Cast(req[r].said) /\ req[r].home \in Flats
          => req[r].u \in tenants[req[r].home]

TInv == TypeOK /\ \A r \in Requests : RequestOK(r)

\* The saves under way that repeat what is done once.
Registering(u) == {r \in Requests : At(r, "register", "save") /\ req[r].u = u}
Adding(u)      == {r \in Requests : At(r, "device", "save") /\ req[r].u = u}

\* Once something is done, it and what is under way are no more than Requests.
Crowd(n, S) == n > 0 => n + Cardinality(S) <= Cardinality(Requests)

CInv == \A u \in Users : /\ registered[u] > 0 => account[u].password
                         /\ Crowd(registered[u], Registering(u))
                         /\ Crowd(account[u].devices, Adding(u))

-----------------------------------------------------------------------------
(* Types.                                                                  *)

LEMMA InitTInv == Init => TInv
<1> SUFFICES ASSUME Init PROVE TInv
  OBVIOUS
<1>1. Idle \in ReqState
  BY DEF Idle, ReqState, Homes, Answers
<1>2. Nobody \in UserDoc
  BY DEF Nobody, UserDoc, Homes
<1>3. TypeOK
  BY <1>1, <1>2, BoundAssumption DEF Init, TypeOK, Seconds
<1>4. \A r \in Requests : RequestOK(r)
  BY DEF Init, RequestOK, Idle
<1> QED BY <1>3, <1>4 DEF TInv

\* A step that leaves all but one request, and tenants only grow.
LEMMA RequestsKept ==
    ASSUME TInv, NEW q \in Requests, NEW X \in ReqState,
           req' = [req EXCEPT ![q] = X],
           \A f \in Flats : tenants[f] \subseteq tenants'[f],
           RequestOK(q)'
    PROVE  /\ req' \in [Requests -> ReqState]
           /\ \A r \in Requests : RequestOK(r)'
<1>1. req \in [Requests -> ReqState]
  BY DEF TInv, TypeOK
<1>2. ASSUME NEW r \in Requests, r # q PROVE RequestOK(r)'
  <2>1. req'[r] = req[r] /\ RequestOK(r)
    BY <1>1, <1>2 DEF TInv
  <2> QED BY <2>1 DEF RequestOK
<1> QED BY <1>1, <1>2

\* The records that the actions put in place of a request.
LEMMA Records ==
    ASSUME TInv, NEW r \in Requests
    PROVE  /\ Idle \in ReqState
           /\ \A at \in {"audit", "answer", "tenant"} : [req[r] EXCEPT !.at = at] \in ReqState
           /\ \A u \in Users, d \in Devices, t \in Homes :
                [Idle EXCEPT !.op = "register", !.at = "save", !.u = u, !.d = d, !.to = t,
                             !.knew = account[u].here, !.approved = account[u].approved,
                             !.home = account[u].home] \in ReqState
           /\ \A u \in Users, d \in Devices, op \in {"register", "login"} :
                [Idle EXCEPT !.op = op, !.at = "sign", !.u = u, !.d = d] \in ReqState
           /\ \A u \in Users, said \in Answers :
                [Idle EXCEPT !.op = "approve", !.at = "save", !.u = u, !.said = said,
                             !.approved = account[u].approved, !.home = account[u].home]
                  \in ReqState
           /\ \A u \in Users : [Idle EXCEPT !.op = "device", !.at = "save", !.u = u] \in ReqState
           /\ \A u \in Users, d \in Devices, at \in {"answer", "store"} :
                [Idle EXCEPT !.op = "logout", !.u = u, !.d = d, !.token = cookie[d],
                             !.at = at] \in ReqState
           /\ \A t \in Token : [req[r] EXCEPT !.at = "store", !.token = t] \in ReqState
<1> USE DEF ReqState, Idle, Homes, Answers
<1>1. req[r] \in ReqState
  BY DEF TInv, TypeOK
<1>2. \A d \in Devices : cookie[d] \in Token \cup {None}
  BY DEF TInv, TypeOK
<1>3. \A u \in Users : account[u].here \in BOOLEAN /\ account[u].approved \in BOOLEAN
                       /\ account[u].home \in Homes
  BY DEF TInv, TypeOK, UserDoc
<1>4. Idle \in ReqState
  OBVIOUS
<1>5. \A at \in {"audit", "answer", "tenant"} : [req[r] EXCEPT !.at = at] \in ReqState
  BY <1>1
<1>6. \A u \in Users, d \in Devices, t \in Homes :
         [Idle EXCEPT !.op = "register", !.at = "save", !.u = u, !.d = d, !.to = t,
                      !.knew = account[u].here, !.approved = account[u].approved,
                      !.home = account[u].home] \in ReqState
  BY <1>3
<1>7. \A u \in Users, d \in Devices, op \in {"register", "login"} :
         [Idle EXCEPT !.op = op, !.at = "sign", !.u = u, !.d = d] \in ReqState
  OBVIOUS
<1>8. \A u \in Users, said \in Answers :
         [Idle EXCEPT !.op = "approve", !.at = "save", !.u = u, !.said = said,
                      !.approved = account[u].approved, !.home = account[u].home] \in ReqState
  BY <1>3
<1>9. \A u \in Users : [Idle EXCEPT !.op = "device", !.at = "save", !.u = u] \in ReqState
  OBVIOUS
<1>10. \A u \in Users, d \in Devices, at \in {"answer", "store"} :
          [Idle EXCEPT !.op = "logout", !.u = u, !.d = d, !.token = cookie[d], !.at = at] \in ReqState
  BY <1>2
<1>11. \A t \in Token : [req[r] EXCEPT !.at = "store", !.token = t] \in ReqState
  BY <1>1
<1> QED BY <1>4, <1>5, <1>6, <1>7, <1>8, <1>9, <1>10, <1>11

LEMMA ArriveKeepsTInv == ASSUME TInv, NEW r \in Requests, Arrive(r) PROVE TInv'
<1>1. req \in [Requests -> ReqState] /\ cookie \in [Devices -> Token \cup {None}]
  BY DEF TInv, TypeOK
<1>2. ASSUME NEW X \in ReqState, Begin(r, X),
             X.u \in Users, X.at \in {"save", "sign", "store", "answer"},
             X.op \in {"register", "login", "logout"} => X.d \in Devices,
             X.at = "sign" => X.op # "logout",
             X.at = "store" => X.token \in Token,
             X.at \in {"store", "answer"} => X.op = "logout"
      PROVE  TInv'
  <2>1. req'[r] = X /\ tenants' = tenants /\ req' = [req EXCEPT ![r] = X]
    BY <1>1, <1>2 DEF Begin
  <2>2. RequestOK(r)'
    BY <1>2, <2>1 DEF RequestOK
  <2>3. req' \in [Requests -> ReqState] /\ \A q \in Requests : RequestOK(q)'
    BY <2>1, <2>2, RequestsKept
  <2> QED BY <1>2, <2>3 DEF TInv, TypeOK, Begin
<1> DEFINE R(u, d, t) == [Idle EXCEPT !.op = "register", !.at = "save", !.u = u, !.d = d, !.to = t,
                             !.knew = account[u].here, !.approved = account[u].approved,
                             !.home = account[u].home]
           L(u, d) == [Idle EXCEPT !.op = "login", !.at = "sign", !.u = u, !.d = d]
           G(u, d) == [Idle EXCEPT !.op = "logout", !.u = u, !.d = d, !.token = cookie[d],
                             !.at = IF cookie[d] = None THEN "answer" ELSE "store"]
           A(u, said) == [Idle EXCEPT !.op = "approve", !.at = "save", !.u = u, !.said = said,
                             !.approved = account[u].approved, !.home = account[u].home]
           P(u) == [Idle EXCEPT !.op = "device", !.at = "save", !.u = u]
<1>3. ASSUME NEW u \in Users, NEW d \in Devices, NEW t \in Homes, StartRegister(r, u, d, t)
      PROVE  TInv'
  <2>1. R(u, d, t) \in ReqState /\ Begin(r, R(u, d, t))
    BY <1>3, Records DEF StartRegister, ReadToRegister
  <2>2. R(u, d, t).u = u /\ R(u, d, t).at = "save" /\ R(u, d, t).d = d
    BY DEF Idle
  <2> QED BY <1>2, <2>1, <2>2
<1>4. ASSUME NEW u \in Users, NEW d \in Devices, StartLogin(r, u, d) PROVE TInv'
  <2>1. L(u, d) \in ReqState /\ Begin(r, L(u, d))
    BY <1>4, Records DEF StartLogin
  <2>2. L(u, d).u = u /\ L(u, d).at = "sign" /\ L(u, d).d = d /\ L(u, d).op = "login"
    BY DEF Idle
  <2> HIDE DEF L
  <2> QED BY <1>2, <2>1, <2>2
<1>5. ASSUME NEW u \in Users, NEW d \in Devices, StartLogout(r, u, d) PROVE TInv'
  <2>1. G(u, d) \in ReqState /\ Begin(r, G(u, d))
    BY <1>5, Records DEF StartLogout
  <2>2. /\ G(u, d).u = u /\ G(u, d).d = d /\ G(u, d).op = "logout" /\ G(u, d).token = cookie[d]
        /\ G(u, d).at = IF cookie[d] = None THEN "answer" ELSE "store"
    BY DEF Idle
  <2>3. G(u, d).at \in {"store", "answer"} /\ (G(u, d).at = "store" => G(u, d).token \in Token)
    BY <1>1, <2>2
  <2> HIDE DEF G
  <2> QED BY <1>2, <2>1, <2>2, <2>3
<1>6. ASSUME NEW u \in Users, NEW said \in Answers, StartApprove(r, u, said) PROVE TInv'
  <2>1. A(u, said) \in ReqState /\ Begin(r, A(u, said))
    BY <1>6, Records DEF StartApprove
  <2>2. A(u, said).u = u /\ A(u, said).at = "save" /\ A(u, said).op = "approve"
    BY DEF Idle
  <2> HIDE DEF A
  <2> QED BY <1>2, <2>1, <2>2
<1>7. ASSUME NEW u \in Users, StartDevice(r, u) PROVE TInv'
  <2>1. P(u) \in ReqState /\ Begin(r, P(u))
    BY <1>7, Records DEF StartDevice
  <2>2. P(u).u = u /\ P(u).at = "save" /\ P(u).op = "device"
    BY DEF Idle
  <2> HIDE DEF P
  <2> QED BY <1>2, <2>1, <2>2
<1> QED BY <1>3, <1>4, <1>5, <1>6, <1>7 DEF Arrive

\* What each save makes of the documents keeps their types.
LEMMA SavesKeepTypes ==
    ASSUME TInv, NEW r \in Requests,
           SaveRegister(r) \/ Store(r) \/ Pull(r) \/ SaveApproval(r) \/ PushDevice(r)
    PROVE  account' \in [Users -> UserDoc] /\ registered' \in [Users -> Nat]
<1> DEFINE u == req[r].u
<1>1. /\ account \in [Users -> UserDoc] /\ registered \in [Users -> Nat]
      /\ req[r] \in ReqState /\ RequestOK(r)
  BY DEF TInv, TypeOK
<1>2. CASE SaveRegister(r)
  <2>1. u \in Users
    BY <1>1, <1>2 DEF SaveRegister, At, RequestOK
  <2>2. Registration(r, account[u]) \in UserDoc
    <3>1. account[u] \in UserDoc /\ req[r].to \in Homes
      BY <1>1, <2>1 DEF ReqState
    <3> QED BY <3>1 DEF Registration, UserDoc
  <2> QED BY <1>1, <1>2, <2>1, <2>2 DEF SaveRegister
<1>3. CASE Store(r)
  <2>1. u \in Users /\ req[r].token.second \in Seconds
    BY <1>1, <1>3 DEF Store, RequestOK, Token
  <2>2. [account[u] EXCEPT !.tokens = @ \cup {req[r].token.second}] \in UserDoc
    BY <1>1, <2>1 DEF UserDoc
  <2> QED BY <1>1, <1>3, <2>1, <2>2 DEF Store
<1>4. CASE Pull(r)
  <2>1. u \in Users
    BY <1>1, <1>4 DEF Pull, At, RequestOK
  <2>2. [account[u] EXCEPT !.tokens = @ \ {req[r].token.second}] \in UserDoc
    BY <1>1, <2>1 DEF UserDoc
  <2> QED BY <1>1, <1>4, <2>1, <2>2 DEF Pull
<1>5. CASE SaveApproval(r)
  <2>1. u \in Users
    BY <1>1, <1>5 DEF SaveApproval, At, RequestOK
  <2>2. [account[u] EXCEPT !.approved = Cast(req[r].said)] \in UserDoc
    BY <1>1, <2>1 DEF UserDoc, ReqState, Cast
  <2> QED BY <1>1, <1>5, <2>1, <2>2 DEF SaveApproval
<1>6. CASE PushDevice(r)
  <2>1. u \in Users
    BY <1>1, <1>6 DEF PushDevice, At, RequestOK
  <2>2. [account[u] EXCEPT !.devices = @ + 1] \in UserDoc
    BY <1>1, <2>1 DEF UserDoc
  <2> QED BY <1>1, <1>6, <2>1, <2>2 DEF PushDevice
<1> QED BY <1>2, <1>3, <1>4, <1>5, <1>6

LEMMA ContinueKeepsTInv ==
    ASSUME TInv, NEW r \in Requests, Continue(r) \/ Abort(r) PROVE TInv'
<1>1. /\ req \in [Requests -> ReqState] /\ req[r] \in ReqState /\ RequestOK(r)
      /\ tenants \in [Flats -> SUBSET Users]
  BY DEF TInv, TypeOK
<1>2. /\ account' \in [Users -> UserDoc] /\ registered' \in [Users -> Nat]
      /\ tenants' \in [Flats -> SUBSET Users]
      /\ \A f \in Flats : tenants[f] \subseteq tenants'[f]
      /\ now' = now
      /\ aborts' \in 0..MaxAborts
  <2>1. CASE SaveRegister(r) \/ Store(r) \/ Pull(r) \/ SaveApproval(r) \/ PushDevice(r)
    BY <2>1, SavesKeepTypes DEF SaveRegister, Store, Pull, SaveApproval, PushDevice, TInv, TypeOK
  <2>2. CASE AddTenant(r)
    <3>1. req[r].u \in Users
      BY <1>1, <2>2 DEF AddTenant, At, RequestOK
    <3> QED BY <1>1, <2>2, <3>1 DEF AddTenant, TInv, TypeOK
  <2>3. CASE Collide(r) \/ Sign(r) \/ Answer(r) \/ AuditApproval(r)
    BY <2>3 DEF Collide, Sign, Answer, AuditApproval, TInv, TypeOK
  <2>4. CASE Abort(r)
    <3>1. aborts' \in 0..MaxAborts
      BY <2>4, BoundAssumption DEF Abort, TInv, TypeOK
    <3> QED BY <2>4, <3>1 DEF Abort, TInv, TypeOK
  <2> QED BY <2>1, <2>2, <2>3, <2>4 DEF Continue
<1>3. audited' \subseteq Users \X Homes
  <2>1. CASE AuditApproval(r)
    BY <1>1, <2>1 DEF AuditApproval, At, RequestOK, ReqState, TInv, TypeOK
  <2>2. CASE ~AuditApproval(r)
    BY <2>2 DEF Continue, SaveRegister, Collide, Sign, Store, Pull, Answer, SaveApproval,
       AddTenant, PushDevice, Abort, TInv, TypeOK
  <2> QED BY <2>1, <2>2
<1>4. cookie' \in [Devices -> Token \cup {None}]
  <2>1. CASE Answer(r)
    <3>1. req[r].op # "logout" => req[r].token \in Token
      BY <1>1, <2>1 DEF Answer, RequestOK
    <3> QED BY <2>1, <3>1 DEF Answer, TInv, TypeOK
  <2>2. CASE ~Answer(r)
    BY <2>2 DEF Continue, SaveRegister, Collide, Sign, Store, Pull, AuditApproval, SaveApproval,
       AddTenant, PushDevice, Abort, TInv, TypeOK
  <2> QED BY <2>1, <2>2
<1>5. \E X \in ReqState : req' = [req EXCEPT ![r] = X] /\ RequestOK(r)'
  <2>1. CASE SaveRegister(r)
    <3> DEFINE X == [Idle EXCEPT !.op = "register", !.at = "sign", !.u = req[r].u, !.d = req[r].d]
    <3>1. req[r].u \in Users /\ req[r].d \in Devices
      BY <1>1, <2>1 DEF SaveRegister, At, RequestOK
    <3>2. X \in ReqState
      BY <3>1, Records
    <3>3. req' = [req EXCEPT ![r] = X] /\ req'[r] = X
      BY <1>1, <2>1 DEF SaveRegister, GoSign
    <3>4. X.u = req[r].u /\ X.op = "register" /\ X.d = req[r].d /\ X.at = "sign"
      BY DEF Idle
    <3>5. RequestOK(r)'
      <4> HIDE DEF X
      <4> QED BY <3>1, <3>3, <3>4 DEF RequestOK
    <3> QED BY <3>2, <3>3, <3>5
  <2>2. CASE Sign(r)
    <3> DEFINE t == [user |-> req[r].u, second |-> now]
               X == [req[r] EXCEPT !.at = "store", !.token = t]
    <3>1. req[r].u \in Users /\ req[r].op # "logout" /\ t \in Token
      BY <1>1, <2>2 DEF Sign, RequestOK, Token, TInv, TypeOK
    <3>2. X \in ReqState
      BY <3>1, Records
    <3>3. req' = [req EXCEPT ![r] = X] /\ req'[r] = X
      BY <1>1, <2>2 DEF Sign
    <3>4. X.token = t /\ X.u = req[r].u /\ X.op = req[r].op /\ X.d = req[r].d /\ X.at = "store"
      BY <1>1 DEF ReqState
    <3>5. RequestOK(r)'
      <4> HIDE DEF X
      <4> QED BY <1>1, <3>1, <3>3, <3>4 DEF RequestOK
    <3> QED BY <3>2, <3>3, <3>5
  <2>3. CASE Store(r) \/ Pull(r)
    <3> DEFINE X == [req[r] EXCEPT !.at = "answer"]
    <3>1. req' = [req EXCEPT ![r] = X] /\ req'[r] = X /\ req[r].at = "store"
      BY <1>1, <2>3 DEF Store, Pull, Goto, At
    <3>2. X.token = req[r].token /\ X.u = req[r].u /\ X.op = req[r].op /\ X.d = req[r].d
          /\ X.at = "answer"
      BY <1>1 DEF ReqState
    <3>3. RequestOK(r)'
      <4> HIDE DEF X
      <4> QED BY <1>1, <3>1, <3>2 DEF RequestOK
    <3> QED BY <3>1, <3>3, Records
  <2>4. CASE SaveApproval(r)
    <3> DEFINE at == IF Cast(req[r].said) /\ req[r].home # None THEN "tenant" ELSE "audit"
               X == [req[r] EXCEPT !.at = at]
    <3>1. req' = [req EXCEPT ![r] = X] /\ req'[r] = X /\ req[r].at = "save"
          /\ req[r].op = "approve"
      BY <1>1, <2>4 DEF SaveApproval, Goto, At
    <3>2. X.u = req[r].u /\ X.op = req[r].op /\ X.at = at /\ X.said = req[r].said
          /\ X.home = req[r].home
      BY <1>1 DEF ReqState
    <3>3. at = "audit" /\ Cast(req[r].said) => req[r].home \notin Flats
      BY NoneAssumption
    <3>4. at \in {"tenant", "audit"}
      OBVIOUS
    <3>5. X \in ReqState
      BY <3>4, Records
    <3>6. RequestOK(r)'
      <4> HIDE DEF X, at
      <4> QED BY <1>1, <3>1, <3>2, <3>3, <3>4 DEF RequestOK
    <3> QED BY <3>1, <3>5, <3>6
  <2>5. CASE AddTenant(r)
    <3> DEFINE X == [req[r] EXCEPT !.at = "audit"]
    <3>1. req' = [req EXCEPT ![r] = X] /\ req'[r] = X /\ req[r].at = "tenant"
          /\ req[r].op = "approve"
      BY <1>1, <2>5 DEF AddTenant, Goto, At
    <3>2. X.u = req[r].u /\ X.op = req[r].op /\ X.at = "audit" /\ X.home = req[r].home
      BY <1>1 DEF ReqState
    <3>3. req[r].home \in Flats => req[r].u \in tenants'[req[r].home]
      BY <2>5 DEF AddTenant
    <3>4. RequestOK(r)'
      <4> HIDE DEF X
      <4> QED BY <1>1, <3>1, <3>2, <3>3 DEF RequestOK
    <3> QED BY <3>1, <3>4, Records
  <2>6. CASE Collide(r) \/ Answer(r) \/ AuditApproval(r) \/ PushDevice(r) \/ Abort(r)
    <3>1. req' = [req EXCEPT ![r] = Idle] /\ req'[r] = Idle
      BY <1>1, <2>6 DEF Collide, Answer, AuditApproval, PushDevice, Abort, Finish
    <3>2. RequestOK(r)'
      BY <3>1 DEF RequestOK, Idle
    <3> QED BY <3>1, <3>2, Records
  <2> QED BY <2>1, <2>2, <2>3, <2>4, <2>5, <2>6 DEF Continue
<1> QED BY <1>2, <1>3, <1>4, <1>5, RequestsKept DEF TInv, TypeOK

LEMMA NextKeepsTInv == TInv /\ [Next]_vars => TInv'
<1> SUFFICES ASSUME TInv, [Next]_vars PROVE TInv'
  OBVIOUS
<1>1. CASE UNCHANGED vars
  BY <1>1 DEF TInv, TypeOK, RequestOK, vars
<1>2. CASE Tick
  <2>1. now' \in Seconds
    BY <1>2, BoundAssumption DEF Tick, TInv, TypeOK, Seconds
  <2> QED BY <1>2, <2>1 DEF Tick, TInv, TypeOK, RequestOK
<1>3. ASSUME NEW u \in Users, PendingUser(u) PROVE TInv'
  <2>1. account' \in [Users -> UserDoc]
    BY <1>3 DEF PendingUser, TInv, TypeOK, UserDoc
  <2> QED BY <1>3, <2>1 DEF PendingUser, TInv, TypeOK, RequestOK
<1> QED BY <1>1, <1>2, <1>3, ArriveKeepsTInv, ContinueKeepsTInv DEF Next

\* The types, and what requests rely on, in every reachable state.
THEOREM TypedRequests == Spec => []TInv
BY InitTInv, NextKeepsTInv, PTL DEF Spec

\* Every variable of Accounts keeps its type.
THEOREM TypeCorrect == Spec => []TypeOK
<1>1. TInv => TypeOK
  BY DEF TInv
<1> QED BY TypedRequests, <1>1, PTL

-----------------------------------------------------------------------------
(* Sessions.                                                               *)

\* A session survives what is done on other browsers: its token leaves by a
\* logout that presents it, and enters by a login that signed it.
THEOREM Sessions == Spec => SessionsEndByLogout
<1> DEFINE Step == \A u \in Users, s \in Seconds :
             /\ s \in account[u].tokens /\ s \notin account'[u].tokens
                  => \E r \in Requests : Holds(r, u, s) /\ req[r].op = "logout"
             /\ s \notin account[u].tokens /\ s \in account'[u].tokens /\ s < now
                  => \E r \in Requests : Holds(r, u, s) /\ req[r].op # "logout"
<1>1. ASSUME TInv, [Next]_vars PROVE Step
  <2> SUFFICES ASSUME NEW u \in Users, NEW s \in Seconds
               PROVE  /\ s \in account[u].tokens /\ s \notin account'[u].tokens
                           => \E r \in Requests : Holds(r, u, s) /\ req[r].op = "logout"
                      /\ s \notin account[u].tokens /\ s \in account'[u].tokens
                           => \E r \in Requests : Holds(r, u, s) /\ req[r].op # "logout"
    OBVIOUS
  <2>1. account \in [Users -> UserDoc]
    BY <1>1 DEF TInv, TypeOK
  <2>2. ASSUME NEW r \in Requests, Store(r), s \notin account[u].tokens, s \in account'[u].tokens
        PROVE  Holds(r, u, s) /\ req[r].op # "logout"
    <3>1. req[r].token \in Token /\ req[r].token.user = req[r].u /\ req[r].op # "logout"
      BY <1>1, <2>2 DEF Store, TInv, RequestOK
    <3>2. req[r].u = u /\ req[r].token.second = s
      BY <2>1, <2>2 DEF Store, UserDoc
    <3>3. req[r].token = [user |-> u, second |-> s]
      BY <3>1, <3>2 DEF Token
    <3> QED BY <2>2, <3>1, <3>3 DEF Store, Holds
  <2>3. ASSUME NEW r \in Requests, Store(r) PROVE s \in account[u].tokens => s \in account'[u].tokens
    BY <2>1, <2>3 DEF Store, UserDoc
  <2>4. ASSUME NEW r \in Requests, Pull(r), s \in account[u].tokens, s \notin account'[u].tokens
        PROVE  Holds(r, u, s) /\ req[r].op = "logout"
    <3>1. req[r].token \in Token /\ req[r].op = "logout" /\ req[r].at = "store"
      BY <1>1, <2>4 DEF Pull, At, TInv, RequestOK
    <3>2. req[r].token.user = u /\ req[r].token.second = s
      BY <2>1, <2>4 DEF Pull, UserDoc
    <3>3. req[r].token = [user |-> u, second |-> s]
      BY <3>1, <3>2 DEF Token
    <3> QED BY <3>1, <3>3 DEF Holds
  <2>5. ASSUME NEW r \in Requests, Pull(r) PROVE s \in account'[u].tokens => s \in account[u].tokens
    BY <2>1, <2>5 DEF Pull, UserDoc
  <2>6. ASSUME NEW v \in Users, PendingUser(v) PROVE account'[u].tokens = account[u].tokens
    BY <2>1, <2>6 DEF PendingUser, UserDoc
  <2>7. ASSUME NEW r \in Requests, SaveRegister(r) PROVE account'[u].tokens = account[u].tokens
    BY <2>1, <2>7 DEF SaveRegister, Registration, UserDoc
  <2>8. ASSUME NEW r \in Requests, SaveApproval(r) \/ PushDevice(r)
        PROVE  account'[u].tokens = account[u].tokens
    BY <2>1, <2>8 DEF SaveApproval, PushDevice, UserDoc
  <2>9. ASSUME UNCHANGED vars \/ Tick PROVE account' = account
    BY <2>9 DEF vars, Tick
  <2>10. ASSUME NEW r \in Requests, Arrive(r) \/ Abort(r) PROVE account' = account
    BY <2>10 DEF Arrive, StartRegister, ReadToRegister, StartLogin, StartLogout, StartApprove,
       StartDevice, Begin, Abort
  <2>11. ASSUME NEW r \in Requests, Collide(r) \/ Sign(r) \/ Answer(r) \/ AddTenant(r) \/ AuditApproval(r)
         PROVE  account' = account
    BY <2>11 DEF Collide, Sign, Answer, AddTenant, AuditApproval
  <2> QED
    BY <1>1, <2>2, <2>3, <2>4, <2>5, <2>6, <2>7, <2>8, <2>9, <2>10, <2>11 DEF Next, Continue
<1>2. TInv /\ [Next]_vars => [Step]_vars
  BY <1>1
<1> QED BY TypedRequests, <1>2, PTL DEF Spec, SessionsEndByLogout

-----------------------------------------------------------------------------
(* Approval.                                                               *)

\* A step that leaves isApproved, the flat, the tenants and the approvals that
\* are between their two writes strands nobody.
LEMMA NobodyStranded ==
    ASSUME TInv, NEW u \in Users,
           account'[u].approved = account[u].approved,
           account'[u].home = account[u].home,
           \A f \in Flats : tenants[f] \subseteq tenants'[f],
           \A r \in Requests : At(r, "approve", "tenant") => req'[r] = req[r]
    PROVE  Stranded(u)' => Stranded(u)
BY DEF Stranded, At

LEMMA StrandedByStale ==
    ASSUME TInv, [Next]_vars, NEW u \in Users, ~Stranded(u), Stranded(u)'
    PROVE  \E r \in Requests : /\ req'[r] # req[r]
                               /\ \/ Stale(r)
                                  \/ At(r, "approve", "tenant") /\ aborts' > aborts
<1>1. /\ account \in [Users -> UserDoc] /\ req \in [Requests -> ReqState]
      /\ tenants \in [Flats -> SUBSET Users]
      /\ \A r \in Requests : RequestOK(r)
      /\ aborts \in Nat
  BY BoundAssumption DEF TInv, TypeOK
<1>2. ASSUME NEW r \in Requests, SaveRegister(r), req[r].u = u
      PROVE  Stale(r) /\ req'[r] # req[r]
  <2>1. req'[r] # req[r]
    <3>1. req[r].at = "save"
      BY <1>2 DEF SaveRegister, At
    <3>2. req'[r] = [Idle EXCEPT !.op = "register", !.at = "sign", !.u = req[r].u, !.d = req[r].d]
      BY <1>1, <1>2 DEF SaveRegister, GoSign
    <3>3. req'[r].at = "sign"
      BY <3>2 DEF Idle
    <3> QED BY <3>1, <3>3
  <2>2. account'[u].approved = IF req[r].approved THEN FALSE ELSE account[u].approved
    BY <1>1, <1>2 DEF SaveRegister, Registration, UserDoc
  <2>3. account'[u].approved
    BY DEF Stranded
  <2>4. req[r].approved # account[u].approved
    BY <1>1, <2>2, <2>3 DEF UserDoc, ReqState
  <2> QED BY <1>2, <2>1, <2>4 DEF Stale, SaveRegister
<1>3. ASSUME NEW r \in Requests, SaveApproval(r), req[r].u = u
      PROVE  Stale(r) /\ req'[r] # req[r]
  <2>1. At(r, "approve", "save") /\ req[r].at = "save" /\ req[r].op = "approve"
    BY <1>3 DEF SaveApproval, At
  <2> DEFINE at == IF Cast(req[r].said) /\ req[r].home # None THEN "tenant" ELSE "audit"
  <2>2. /\ req'[r].at = at /\ req'[r].op = "approve" /\ req'[r].u = u
        /\ req'[r].home = req[r].home
    BY <1>1, <1>3, <2>1 DEF SaveApproval, Goto, ReqState
  <2>3. /\ account'[u].approved = IF Cast(req[r].said) # req[r].approved THEN Cast(req[r].said)
                                  ELSE account[u].approved
        /\ account'[u].home = account[u].home
    BY <1>1, <1>3 DEF SaveApproval, UserDoc
  <2>4. SUFFICES ASSUME req[r].approved = account[u].approved, req[r].home = account[u].home
                 PROVE  FALSE
    <3>1. req'[r] # req[r]
      BY <2>1, <2>2
    <3> QED BY <1>3, <2>1, <2>4, <3>1 DEF Stale
  <2>5. Cast(req[r].said)
    BY <1>1, <2>3, <2>4 DEF Stranded, UserDoc, ReqState
  <2>6. PICK f \in Flats : account'[u].home = f /\ ~(At(r, "approve", "tenant")'
                             /\ req'[r].u = u /\ req'[r].home = f)
    BY DEF Stranded
  <2>7. req[r].home = f /\ f # None
    BY <2>3, <2>4, <2>6, NoneAssumption
  <2> QED BY <2>2, <2>5, <2>6, <2>7 DEF At
<1>4. ASSUME NEW r \in Requests, Abort(r)
      PROVE  At(r, "approve", "tenant") /\ aborts' > aborts /\ req'[r] # req[r]
  <2>1. At(r, "approve", "tenant")
    <3>1. \A q \in Requests : q # r => req'[q] = req[q]
      BY <1>1, <1>4 DEF Abort, Finish
    <3>2. ASSUME ~At(r, "approve", "tenant") PROVE Stranded(u)' => Stranded(u)
      BY <1>4, <3>1, <3>2, NobodyStranded DEF Abort
    <3> QED BY <3>2
  <2>2. req'[r].at = "idle" /\ req[r].at = "tenant"
    BY <1>1, <1>4, <2>1 DEF Abort, Finish, Idle, At
  <2> QED BY <1>1, <1>4, <2>1, <2>2 DEF Abort
<1>5. ASSUME NEW r \in Requests, AddTenant(r) PROVE FALSE
  <2>1. /\ \A f \in Flats : tenants[f] \subseteq tenants'[f]
        /\ req[r].home \in Flats => req[r].u \in tenants'[req[r].home]
        /\ account' = account
        /\ \A q \in Requests : q # r => req'[q] = req[q]
    BY <1>1, <1>5 DEF AddTenant, Goto
  <2> QED BY <2>1 DEF Stranded, At
<1>6. ASSUME NEW r \in Requests, SaveRegister(r) \/ SaveApproval(r), req[r].u # u PROVE FALSE
  <2>1. account'[u] = account[u] /\ tenants' = tenants
    BY <1>1, <1>6 DEF SaveRegister, SaveApproval
  <2>2. \A q \in Requests : At(q, "approve", "tenant") => req'[q] = req[q]
    BY <1>1, <1>6 DEF SaveRegister, SaveApproval, GoSign, Goto, At
  <2> QED BY <2>1, <2>2, NobodyStranded
<1>7. ASSUME NEW r \in Requests,
             \/ Collide(r) \/ Sign(r) \/ Store(r) \/ Pull(r) \/ Answer(r)
             \/ AuditApproval(r) \/ PushDevice(r) \/ Arrive(r)
      PROVE  FALSE
  <2>1. \A v \in Users : account'[v].approved = account[v].approved
                         /\ account'[v].home = account[v].home
    <3>1. CASE Store(r) \/ Pull(r) \/ PushDevice(r)
      BY <1>1, <3>1 DEF Store, Pull, PushDevice, UserDoc
    <3>2. CASE Collide(r) \/ Sign(r) \/ Answer(r) \/ AuditApproval(r) \/ Arrive(r)
      BY <3>2 DEF Collide, Sign, Answer, AuditApproval, Arrive, StartRegister, ReadToRegister,
         StartLogin, StartLogout, StartApprove, StartDevice, Begin
    <3> QED BY <1>7, <3>1, <3>2
  <2>2. tenants' = tenants /\ req[r].at # "tenant"
    BY <1>7 DEF Collide, Sign, Store, Pull, Answer, AuditApproval, PushDevice, Arrive, At,
       StartRegister, ReadToRegister, StartLogin, StartLogout, StartApprove, StartDevice, Begin
  <2>3. \A q \in Requests : q # r => req'[q] = req[q]
    BY <1>1, <1>7 DEF Collide, Sign, Store, Pull, Answer, AuditApproval, PushDevice, Arrive,
       StartRegister, ReadToRegister, StartLogin, StartLogout, StartApprove, StartDevice, Begin,
       Finish, Goto
  <2> QED BY <2>1, <2>2, <2>3, NobodyStranded DEF At
<1>8. ASSUME UNCHANGED vars \/ Tick \/ \E v \in Users : PendingUser(v) PROVE FALSE
  <2>1. account'[u].approved = account[u].approved /\ account'[u].home = account[u].home
    BY <1>1, <1>8 DEF vars, Tick, PendingUser, UserDoc
  <2>2. tenants' = tenants /\ req' = req
    BY <1>8 DEF vars, Tick, PendingUser
  <2> QED BY <2>1, <2>2, NobodyStranded
<1> QED
  BY <1>2, <1>3, <1>4, <1>5, <1>6, <1>7, <1>8 DEF Next, Continue

\* An approved resident is missing from his flat only after a crash or after a
\* save over what it had not seen, and what is audited as an approval has reached
\* the flat or was the text of a false.
THEOREM Approvals == Spec => ApprovalReachesFlat
<1>1. ASSUME TInv, [Next]_vars, NEW u \in Users, NEW f \in Flats,
             <<u, f>> \in audited' \ audited
      PROVE  u \in tenants[f] \/ \E r \in Requests : AuditsRejection(r, u)
  <2>1. PICK r \in Requests : AuditApproval(r)
    BY <1>1 DEF Next, vars, Tick, PendingUser, Arrive, Continue, Abort, Begin, StartRegister,
       ReadToRegister, StartLogin, StartLogout, StartApprove, StartDevice, SaveRegister, Collide,
       Sign, Store, Pull, Answer, SaveApproval, AddTenant, PushDevice
  <2>2. /\ Truthy(req[r].said) /\ req[r].u = u /\ req[r].home = f
        /\ At(r, "approve", "audit") /\ req[r].at = "audit"
    BY <1>1, <2>1 DEF AuditApproval, At
  <2>3. CASE Cast(req[r].said)
    BY <1>1, <2>2, <2>3 DEF TInv, RequestOK
  <2>4. CASE ~Cast(req[r].said)
    <3>1. req[r] \in ReqState /\ req'[r].at = "idle"
      BY <1>1, <2>1 DEF TInv, TypeOK, AuditApproval, Finish, Idle
    <3>2. req[r].said = "text of false"
      BY <2>2, <2>4, <3>1 DEF ReqState, Answers, Cast, Truthy
    <3> QED BY <2>2, <3>1, <3>2 DEF AuditsRejection
  <2> QED BY <2>3, <2>4
<1>2. TInv /\ [Next]_vars => [ApprovalStep]_vars
  BY <1>1, StrandedByStale DEF ApprovalStep
<1> QED BY TypedRequests, <1>2, PTL DEF Spec, ApprovalReachesFlat

-----------------------------------------------------------------------------
(* Repetitions.                                                            *)

\* How one crowd may change.
LEMMA CrowdStep ==
    ASSUME NEW n \in Nat, NEW m \in Nat, NEW S, NEW T,
           S \subseteq Requests, T \subseteq Requests, Crowd(n, S),
           \/ m = 0
           \/ m = n /\ T \subseteq S
           \/ m = n + 1 /\ \E r \in S : T \subseteq S \ {r}
    PROVE  Crowd(m, T)
<1>1. IsFiniteSet(S) /\ IsFiniteSet(T) /\ IsFiniteSet(Requests)
  BY FS_Subset, FiniteAssumption
<1>2. Cardinality(S) \in Nat /\ Cardinality(T) \in Nat /\ Cardinality(Requests) \in Nat
  BY <1>1, FS_CardinalityType
<1>3. CASE m = 0
  BY <1>3 DEF Crowd
<1>4. CASE m = n /\ T \subseteq S
  <2>1. Cardinality(T) <= Cardinality(S)
    BY <1>1, <1>4, FS_Subset
  <2> QED BY <1>2, <1>4, <2>1 DEF Crowd
<1>5. ASSUME NEW r \in S, m = n + 1, T \subseteq S \ {r} PROVE Crowd(m, T)
  <2>1. IsFiniteSet(S \ {r}) /\ Cardinality(S \ {r}) = Cardinality(S) - 1
    BY <1>1, FS_RemoveElement
  <2>2. Cardinality(T) <= Cardinality(S) - 1
    BY <1>5, <2>1, FS_Subset
  <2>3. Cardinality(S) <= Cardinality(Requests)
    BY <1>1, FS_Subset
  <2> QED BY <1>2, <1>5, <2>2, <2>3 DEF Crowd
<1> QED BY <1>3, <1>4, <1>5

\* A request that begins is known by its operation.
LEMMA Begun ==
    ASSUME TInv, NEW r \in Requests, NEW u \in Users
    PROVE  /\ \A d \in Devices, t \in Homes : StartRegister(r, u, d, t) => req'[r].op = "register"
           /\ \A d \in Devices : StartLogin(r, u, d) => req'[r].op = "login"
           /\ \A d \in Devices : StartLogout(r, u, d) => req'[r].op = "logout"
           /\ \A said \in Answers : StartApprove(r, u, said) => req'[r].op = "approve"
           /\ StartDevice(r, u) => req'[r].op = "device"
<1>1. req \in [Requests -> ReqState]
  BY DEF TInv, TypeOK
<1>2. \A d \in Devices, t \in Homes : StartRegister(r, u, d, t) => req'[r].op = "register"
  BY <1>1 DEF StartRegister, ReadToRegister, Begin, Idle
<1>3. \A d \in Devices : StartLogin(r, u, d) => req'[r].op = "login"
  BY <1>1 DEF StartLogin, Begin, Idle
<1>4. \A d \in Devices : StartLogout(r, u, d) => req'[r].op = "logout"
  BY <1>1 DEF StartLogout, Begin, Idle
<1>5. \A said \in Answers : StartApprove(r, u, said) => req'[r].op = "approve"
  BY <1>1 DEF StartApprove, Begin, Idle
<1>6. StartDevice(r, u) => req'[r].op = "device"
  BY <1>1 DEF StartDevice, Begin, Idle
<1> QED BY <1>2, <1>3, <1>4, <1>5, <1>6

\* What a request goes on to is not the read of a document.
LEMMA GoesOn ==
    ASSUME TInv, NEW r \in Requests,
           \/ Collide(r) \/ Sign(r) \/ Store(r) \/ Pull(r) \/ Answer(r) \/ SaveApproval(r)
           \/ AddTenant(r) \/ AuditApproval(r) \/ PushDevice(r) \/ Abort(r)
    PROVE  req'[r].at # "save"
<1>1. req \in [Requests -> ReqState]
  BY DEF TInv, TypeOK
<1>2. CASE Collide(r) \/ Answer(r) \/ AuditApproval(r) \/ PushDevice(r) \/ Abort(r)
  BY <1>1, <1>2 DEF Collide, Answer, AuditApproval, PushDevice, Abort, Finish, Idle
<1>3. CASE Store(r) \/ Pull(r) \/ AddTenant(r)
  BY <1>1, <1>3 DEF Store, Pull, AddTenant, Goto, ReqState
<1>4. CASE SaveApproval(r)
  BY <1>1, <1>4 DEF SaveApproval, Goto, ReqState
<1>5. CASE Sign(r)
  BY <1>1, <1>5 DEF Sign, ReqState
<1> QED BY <1>2, <1>3, <1>4, <1>5

\* The three ways the registrations of u change.
LEMMA RegistrationsStep ==
    ASSUME TInv, [Next]_vars, NEW u \in Users
    PROVE  \/ registered'[u] = registered[u] /\ Registering(u)' \subseteq Registering(u)
           \/ ~account[u].password /\ registered'[u] = registered[u]
           \/ /\ registered'[u] = registered[u] + 1
              /\ \E r \in Registering(u) : Registering(u)' \subseteq Registering(u) \ {r}
<1>1. req \in [Requests -> ReqState] /\ registered \in [Users -> Nat]
  BY DEF TInv, TypeOK
<1>2. CASE UNCHANGED vars \/ Tick \/ \E v \in Users : PendingUser(v)
  BY <1>2 DEF vars, Tick, PendingUser, Registering, At
<1>3. ASSUME NEW r \in Requests, NEW v \in Users, NEW d \in Devices, NEW t \in Homes,
             StartRegister(r, v, d, t)
      PROVE  \/ registered'[u] = registered[u] /\ Registering(u)' \subseteq Registering(u)
             \/ ~account[u].password /\ registered'[u] = registered[u]
  <2>1. registered' = registered /\ req'[r].u = v /\ \A q \in Requests : q # r => req'[q] = req[q]
    BY <1>1, <1>3 DEF StartRegister, ReadToRegister, Begin, Idle
  <2>2. CASE v = u
    BY <1>3, <2>1, <2>2 DEF StartRegister
  <2>3. CASE v # u
    BY <2>1, <2>3 DEF Registering, At
  <2> QED BY <2>2, <2>3
<1>4. ASSUME NEW r \in Requests, SaveRegister(r)
      PROVE  \/ registered'[u] = registered[u] /\ Registering(u)' \subseteq Registering(u)
             \/ /\ registered'[u] = registered[u] + 1
                /\ \E q \in Registering(u) : Registering(u)' \subseteq Registering(u) \ {q}
  <2>1. req'[r].at = "sign" /\ \A q \in Requests : q # r => req'[q] = req[q]
    BY <1>1, <1>4 DEF SaveRegister, GoSign, Idle
  <2>2. Registering(u)' \subseteq Registering(u) \ {r}
    BY <2>1 DEF Registering, At
  <2>3. CASE req[r].u = u
    <3>1. r \in Registering(u) /\ registered'[u] = registered[u] + 1
      BY <1>1, <1>4, <2>3 DEF Registering, SaveRegister
    <3> QED BY <2>2, <3>1
  <2>4. CASE req[r].u # u
    <3>1. registered'[u] = registered[u]
      BY <1>1, <1>4, <2>4 DEF SaveRegister
    <3> QED BY <2>2, <3>1
  <2> QED BY <2>3, <2>4
<1>5. ASSUME NEW r \in Requests, registered' = registered, req'[r].op # "register",
             \A q \in Requests : q # r => req'[q] = req[q]
      PROVE  registered'[u] = registered[u] /\ Registering(u)' \subseteq Registering(u)
  BY <1>5 DEF Registering, At
<1>6. ASSUME NEW r \in Requests, registered' = registered, req'[r].at # "save",
             \A q \in Requests : q # r => req'[q] = req[q]
      PROVE  registered'[u] = registered[u] /\ Registering(u)' \subseteq Registering(u)
  BY <1>6 DEF Registering, At
<1>7. ASSUME NEW r \in Requests, NEW v \in Users,
             \/ \E d \in Devices : StartLogin(r, v, d) \/ StartLogout(r, v, d)
             \/ \E said \in Answers : StartApprove(r, v, said)
             \/ StartDevice(r, v)
      PROVE  registered'[u] = registered[u] /\ Registering(u)' \subseteq Registering(u)
  <2>1. req'[r].op # "register"
    BY <1>7, Begun
  <2>2. registered' = registered /\ \A q \in Requests : q # r => req'[q] = req[q]
    BY <1>1, <1>7 DEF StartLogin, StartLogout, StartApprove, StartDevice, Begin
  <2> QED BY <1>5, <2>1, <2>2
<1>8. ASSUME NEW r \in Requests,
             \/ Collide(r) \/ Sign(r) \/ Store(r) \/ Pull(r) \/ Answer(r) \/ SaveApproval(r)
             \/ AddTenant(r) \/ AuditApproval(r) \/ PushDevice(r) \/ Abort(r)
      PROVE  registered'[u] = registered[u] /\ Registering(u)' \subseteq Registering(u)
  <2>1. req'[r].at # "save"
    BY <1>8, GoesOn
  <2>2. registered' = registered /\ \A q \in Requests : q # r => req'[q] = req[q]
    BY <1>1, <1>8 DEF Collide, Sign, Store, Pull, Answer, SaveApproval, AddTenant,
       AuditApproval, PushDevice, Abort, Goto, Finish
  <2> QED BY <1>6, <2>1, <2>2
<1> QED
  BY <1>2, <1>3, <1>4, <1>7, <1>8 DEF Next, Arrive, Continue

\* The three ways the push tokens of u change.
LEMMA DevicesStep ==
    ASSUME TInv, [Next]_vars, NEW u \in Users
    PROVE  LET devices == account[u].devices
           IN  \/ devices' = devices /\ Adding(u)' \subseteq Adding(u)
               \/ devices = 0 /\ devices' = 0
               \/ devices' = devices + 1 /\ \E r \in Adding(u) : Adding(u)' \subseteq Adding(u) \ {r}
<1> DEFINE devices == account[u].devices
<1>1. req \in [Requests -> ReqState] /\ account \in [Users -> UserDoc]
  BY DEF TInv, TypeOK
<1>2. CASE UNCHANGED vars \/ Tick \/ \E v \in Users : PendingUser(v)
  <2>1. devices' = devices
    BY <1>1, <1>2 DEF vars, Tick, PendingUser, UserDoc
  <2>2. req' = req
    BY <1>2 DEF vars, Tick, PendingUser
  <2> QED BY <2>1, <2>2 DEF Adding, At
<1>3. ASSUME NEW r \in Requests, NEW v \in Users, StartDevice(r, v)
      PROVE  \/ devices' = devices /\ Adding(u)' \subseteq Adding(u)
             \/ devices = 0 /\ devices' = 0
  <2>1. account' = account /\ req'[r].u = v /\ \A q \in Requests : q # r => req'[q] = req[q]
    BY <1>1, <1>3 DEF StartDevice, Begin, Idle
  <2>2. CASE v = u
    BY <1>3, <2>1, <2>2 DEF StartDevice
  <2>3. CASE v # u
    BY <2>1, <2>3 DEF Adding, At
  <2> QED BY <2>2, <2>3
<1>4. ASSUME NEW r \in Requests, PushDevice(r)
      PROVE  \/ devices' = devices /\ Adding(u)' \subseteq Adding(u)
             \/ devices' = devices + 1 /\ \E q \in Adding(u) : Adding(u)' \subseteq Adding(u) \ {q}
  <2>1. req'[r].at = "idle" /\ \A q \in Requests : q # r => req'[q] = req[q]
    BY <1>1, <1>4 DEF PushDevice, Finish, Idle
  <2>2. Adding(u)' \subseteq Adding(u) \ {r}
    BY <2>1 DEF Adding, At
  <2>3. CASE req[r].u = u
    <3>1. r \in Adding(u) /\ devices' = devices + 1
      BY <1>1, <1>4, <2>3 DEF Adding, PushDevice, UserDoc
    <3> QED BY <2>2, <3>1
  <2>4. CASE req[r].u # u
    <3>1. devices' = devices
      BY <1>1, <1>4, <2>4 DEF PushDevice
    <3> QED BY <2>2, <3>1
  <2> QED BY <2>3, <2>4
<1>5. ASSUME NEW r \in Requests, devices' = devices,
             req'[r].op # "device" \/ req'[r].at # "save",
             \A q \in Requests : q # r => req'[q] = req[q]
      PROVE  devices' = devices /\ Adding(u)' \subseteq Adding(u)
  BY <1>5 DEF Adding, At
<1>6. ASSUME NEW r \in Requests, NEW v \in Users,
             \/ \E d \in Devices : \/ \E t \in Homes : StartRegister(r, v, d, t)
                                   \/ StartLogin(r, v, d) \/ StartLogout(r, v, d)
             \/ \E said \in Answers : StartApprove(r, v, said)
      PROVE  devices' = devices /\ Adding(u)' \subseteq Adding(u)
  <2>1. req'[r].op # "device"
    BY <1>6, Begun
  <2>2. account' = account /\ \A q \in Requests : q # r => req'[q] = req[q]
    BY <1>1, <1>6 DEF StartRegister, ReadToRegister, StartLogin, StartLogout, StartApprove, Begin
  <2> QED BY <1>5, <2>1, <2>2
<1>7. ASSUME NEW r \in Requests, SaveRegister(r)
      PROVE  devices' = devices /\ Adding(u)' \subseteq Adding(u)
  <2>1. req'[r].at = "sign" /\ \A q \in Requests : q # r => req'[q] = req[q]
    BY <1>1, <1>7 DEF SaveRegister, GoSign, Idle
  <2>2. devices' = devices
    BY <1>1, <1>7 DEF SaveRegister, Registration, UserDoc
  <2> QED BY <1>5, <2>1, <2>2
<1>8. ASSUME NEW r \in Requests,
             \/ Collide(r) \/ Sign(r) \/ Store(r) \/ Pull(r) \/ Answer(r) \/ SaveApproval(r)
             \/ AddTenant(r) \/ AuditApproval(r) \/ Abort(r)
      PROVE  devices' = devices /\ Adding(u)' \subseteq Adding(u)
  <2>1. req'[r].at # "save"
    BY <1>8, GoesOn
  <2>2. devices' = devices
    <3>1. CASE Store(r) \/ Pull(r) \/ SaveApproval(r)
      BY <1>1, <3>1 DEF Store, Pull, SaveApproval, UserDoc
    <3> QED BY <1>8, <3>1 DEF Collide, Sign, Answer, AddTenant, AuditApproval, Abort
  <2>3. \A q \in Requests : q # r => req'[q] = req[q]
    BY <1>1, <1>8 DEF Collide, Sign, Store, Pull, Answer, SaveApproval, AddTenant,
       AuditApproval, Abort, Goto, Finish
  <2> QED BY <1>5, <2>1, <2>2, <2>3
<1> QED
  BY <1>2, <1>3, <1>4, <1>6, <1>7, <1>8 DEF Next, Arrive, Continue

\* A registration that is saved sets a password, and no step takes it away.
LEMMA PasswordKept ==
    ASSUME TInv, [Next]_vars, NEW u \in Users, registered[u] > 0 => account[u].password
    PROVE  registered'[u] > 0 => account'[u].password
<1>1. account \in [Users -> UserDoc] /\ registered \in [Users -> Nat]
  BY DEF TInv, TypeOK
<1>2. ASSUME NEW r \in Requests, SaveRegister(r)
      PROVE  registered'[u] > 0 => account'[u].password
  BY <1>1, <1>2 DEF SaveRegister, Registration, UserDoc
<1>3. ASSUME NEW r \in Requests, Store(r) \/ Pull(r) \/ SaveApproval(r) \/ PushDevice(r)
      PROVE  registered' = registered /\ account'[u].password = account[u].password
  BY <1>1, <1>3 DEF Store, Pull, SaveApproval, PushDevice, UserDoc
<1>4. ASSUME NEW v \in Users, PendingUser(v)
      PROVE  registered' = registered /\ account'[u].password = account[u].password
  BY <1>1, <1>4 DEF PendingUser, UserDoc
<1>5. ASSUME NEW r \in Requests, \/ Arrive(r) \/ Abort(r) \/ Collide(r) \/ Sign(r)
                                 \/ Answer(r) \/ AddTenant(r) \/ AuditApproval(r)
      PROVE  registered' = registered /\ account' = account
  BY <1>5 DEF Arrive, Abort, Collide, Sign, Answer, AddTenant, AuditApproval, StartRegister,
     ReadToRegister, StartLogin, StartLogout, StartApprove, StartDevice, Begin
<1>6. ASSUME UNCHANGED vars \/ Tick PROVE registered' = registered /\ account' = account
  BY <1>6 DEF vars, Tick
<1> QED BY <1>2, <1>3, <1>4, <1>5, <1>6 DEF Next, Continue

LEMMA InitCInv == Init => CInv
<1> SUFFICES ASSUME Init, NEW u \in Users
             PROVE  registered[u] = 0 /\ account[u].devices = 0
  BY DEF CInv, Crowd
<1> QED BY DEF Init, Nobody

\* Once done, what is done once and what will repeat it are no more than the
\* requests that are served at once.
THEOREM Crowds == Spec => []CInv
<1>1. TInv /\ CInv /\ [Next]_vars => CInv'
  <2> SUFFICES ASSUME TInv, CInv, [Next]_vars, NEW u \in Users
               PROVE  /\ registered'[u] > 0 => account'[u].password
                      /\ Crowd(registered'[u], Registering(u)')
                      /\ Crowd(account'[u].devices, Adding(u)')
    BY DEF CInv, Crowd
  <2>1. /\ registered[u] \in Nat /\ account[u].devices \in Nat
        /\ registered'[u] \in Nat /\ account'[u].devices \in Nat
    BY NextKeepsTInv DEF TInv, TypeOK, UserDoc
  <2>2. /\ registered[u] > 0 => account[u].password
        /\ Crowd(registered[u], Registering(u))
        /\ Crowd(account[u].devices, Adding(u))
    BY DEF CInv
  <2>3. registered'[u] > 0 => account'[u].password
    BY <2>2, PasswordKept
  <2>4. /\ Registering(u) \subseteq Requests /\ Registering(u)' \subseteq Requests
        /\ Adding(u) \subseteq Requests /\ Adding(u)' \subseteq Requests
    BY DEF Registering, Adding
  <2>5. Crowd(registered'[u], Registering(u)')
    <3>1. ~account[u].password => registered[u] = 0
      BY <2>1, <2>2
    <3> QED BY <2>1, <2>2, <2>4, <3>1, RegistrationsStep, CrowdStep
  <2>6. Crowd(account'[u].devices, Adding(u)')
    BY <2>1, <2>2, <2>4, DevicesStep, CrowdStep
  <2> QED BY <2>3, <2>5, <2>6
<1> QED BY InitCInv, TypedRequests, <1>1, PTL DEF Spec

\* Only overlapping requests take an account over, or store a push token twice.
THEOREM Repetitions == Spec => []RepetitionsOverlap
<1>1. TInv /\ CInv => RepetitionsOverlap
  <2> SUFFICES ASSUME TInv, CInv, NEW u \in Users
               PROVE  /\ registered[u] <= Cardinality(Requests)
                      /\ account[u].devices <= Cardinality(Requests)
    BY DEF RepetitionsOverlap
  <2>1. registered[u] \in Nat /\ account[u].devices \in Nat
    BY DEF TInv, TypeOK, UserDoc
  <2>2. Crowd(registered[u], Registering(u)) /\ Crowd(account[u].devices, Adding(u))
    BY DEF CInv
  <2>3. /\ IsFiniteSet(Registering(u)) /\ IsFiniteSet(Adding(u)) /\ IsFiniteSet(Requests)
    BY FS_Subset, FiniteAssumption DEF Registering, Adding
  <2>4. /\ Cardinality(Registering(u)) \in Nat /\ Cardinality(Adding(u)) \in Nat
        /\ Cardinality(Requests) \in Nat
    BY <2>3, FS_CardinalityType
  <2> QED BY <2>1, <2>2, <2>4 DEF Crowd
<1> QED BY TypedRequests, Crowds, <1>1, PTL
=============================================================================
