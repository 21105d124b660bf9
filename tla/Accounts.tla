------------------------------ MODULE Accounts ------------------------------
(***************************************************************************)
(* The accounts of residents: register, login, refreshToken and logout of  *)
(* auth.controller.js, updateMe and approveUser of user.controller.js,     *)
(* served concurrently over the User and Flat documents.                   *)
(*                                                                         *)
(* A request reads a document, awaits, and then saves the fields that it   *)
(* has changed (mongoose compares with what was read): tokens are pushed   *)
(* onto and pulled from the array that is there by then.                   *)
(***************************************************************************)
EXTENDS Naturals, FiniteSets

CONSTANTS Users,     \* the telephone numbers, each of one account
          Flats,     \* the flats of the society that the account names
          Elsewhere, \* a flat of another society
          Devices,   \* the browsers, each with one refresh cookie
          Requests,  \* the requests that are served concurrently
          MaxNow,    \* bound on the clock, in seconds
          MaxAborts, \* bound on the requests that die half way
          None       \* absent

ASSUME BoundAssumption == MaxNow \in Nat /\ MaxAborts \in Nat
ASSUME FiniteAssumption == IsFiniteSet(Requests)
ASSUME NoneAssumption == None \notin Users \cup Flats \cup Devices
ASSUME ElsewhereAssumption == Elsewhere \notin Flats \cup {None}

VARIABLES account,    \* account[u]: the User document
          tenants,    \* tenants[f]: tenantIds of a Flat document
          audited,    \* the approvals, <<user, flat>>, in the audit trail
          now,
          cookie,     \* cookie[d]: the refresh token that a browser holds
          registered, \* history: how many registrations of u were saved
          req,        \* req[r]: where request r stands
          aborts

vars == <<account, tenants, audited, now, cookie, registered, req, aborts>>

Seconds == 0..MaxNow
Homes   == Flats \cup {Elsewhere, None}

\* A refresh token is signed from the user and the second, and nothing else.
Token == [user : Users, second : Seconds]

\* tokens: the seconds of the refreshTokens; two of one second are equal, and
\* are pulled together.  devices: how often fcmTokens holds one push token.
UserDoc == [here : BOOLEAN, password : BOOLEAN, approved : BOOLEAN,
            home : Homes, tokens : SUBSET Seconds, devices : Nat]

\* An admin's answer, req.body.approved: true, false, or the text of a false
\* ("false", "0"), which isBoolean() lets through as it is.  The document stores
\* what mongoose casts it to; JavaScript takes any text but the empty for true.
Answers == {"true", "false", "text of false"}
Cast(answer)   == answer = "true"
Truthy(answer) == answer # "false"

Nobody == [here |-> FALSE, password |-> FALSE, approved |-> FALSE,
           home |-> None, tokens |-> {}, devices |-> 0]

\* knew, approved, home: the document as read.  to: the flat asked for;
\* said: the admin's answer.
ReqState == [op : {"none", "register", "login", "logout", "approve", "device"},
             at : {"idle", "save", "sign", "store", "answer", "tenant", "audit"},
             u : Users \cup {None}, d : Devices \cup {None},
             knew : BOOLEAN, approved : BOOLEAN, home : Homes,
             to : Homes, said : Answers, token : Token \cup {None}]

Idle == [op |-> "none", at |-> "idle", u |-> None, d |-> None, knew |-> FALSE,
         approved |-> FALSE, home |-> None, to |-> None, said |-> "false",
         token |-> None]

TypeOK == /\ account \in [Users -> UserDoc]
          /\ tenants \in [Flats -> SUBSET Users]
          /\ audited \subseteq Users \X Homes
          /\ now \in Seconds
          /\ cookie \in [Devices -> Token \cup {None}]
          /\ registered \in [Users -> Nat]
          /\ req \in [Requests -> ReqState]
          /\ aborts \in 0..MaxAborts

Init == /\ account = [u \in Users |-> Nobody]
        /\ tenants = [f \in Flats |-> {}]
        /\ audited = {}
        /\ now = 0
        /\ cookie = [d \in Devices |-> None]
        /\ registered = [u \in Users |-> 0]
        /\ req = [r \in Requests |-> Idle]
        /\ aborts = 0

-----------------------------------------------------------------------------
At(r, op, at) == req[r].op = op /\ req[r].at = at
Finish(r) == req' = [req EXCEPT ![r] = Idle]
Goto(r, at) == req' = [req EXCEPT ![r].at = at]

\* A request begins, and keeps what it needs of the document as read.
Begin(r, request) ==
    /\ req[r].at = "idle"
    /\ req' = [req EXCEPT ![r] = request]
    /\ UNCHANGED <<account, tenants, audited, now, cookie, registered, aborts>>

\* sendOtp creates the user of a number that has none.
PendingUser(u) ==
    /\ ~account[u].here
    /\ account' = [account EXCEPT ![u].here = TRUE]
    /\ UNCHANGED <<tenants, audited, now, cookie, registered, req, aborts>>

\* register reads the document of u, which may be there without a password.
ReadToRegister(r, u, d, to) ==
    Begin(r, [Idle EXCEPT !.op = "register", !.at = "save", !.u = u, !.d = d, !.to = to,
                          !.knew = account[u].here, !.approved = account[u].approved,
                          !.home = account[u].home])

\* Fault: an account with a password may be registered again.
StartRegisterAnyTime(r, u, d, to) == ReadToRegister(r, u, d, to)

StartRegister(r, u, d, to) == ~account[u].password /\ ReadToRegister(r, u, d, to)

\* What register stores: the flat if one is given that differs from the one as
\* read, and isApproved if the document as read was approved.
Registration(r, doc) ==
    [doc EXCEPT !.here = TRUE, !.password = TRUE,
                !.approved = IF req[r].approved THEN FALSE ELSE @,
                !.home = IF req[r].to \in {None, req[r].home} THEN @ ELSE req[r].to]

GoSign(r) == req' = [req EXCEPT ![r] = [Idle EXCEPT !.op = "register", !.at = "sign",
                                                    !.u = req[r].u, !.d = req[r].d]]

\* Fault: isApproved is not reset.
SaveRegisterKeepsApproval(r) ==
    LET u == req[r].u
    IN  /\ At(r, "register", "save")
        /\ req[r].knew \/ ~account[u].here
        /\ account' = [account EXCEPT ![u] = [Registration(r, @) EXCEPT !.approved = account[u].approved]]
        /\ registered' = [registered EXCEPT ![u] = @ + 1]
        /\ GoSign(r)
        /\ UNCHANGED <<tenants, audited, now, cookie, aborts>>

\* The first user.save() of register.
SaveRegister(r) ==
    LET u == req[r].u
    IN  /\ At(r, "register", "save")
        /\ req[r].knew \/ ~account[u].here
        /\ account' = [account EXCEPT ![u] = Registration(r, @)]
        /\ registered' = [registered EXCEPT ![u] = @ + 1]
        /\ GoSign(r)
        /\ UNCHANGED <<tenants, audited, now, cookie, aborts>>

\* The number is unique: two requests cannot both create its user.
Collide(r) ==
    /\ At(r, "register", "save")
    /\ ~req[r].knew /\ account[req[r].u].here
    /\ Finish(r)
    /\ UNCHANGED <<account, tenants, audited, now, cookie, registered, aborts>>

\* login compares the password of an account that has one.
StartLogin(r, u, d) ==
    /\ account[u].password
    /\ Begin(r, [Idle EXCEPT !.op = "login", !.at = "sign", !.u = u, !.d = d])

\* Fault: the second is rounded up.
SignLate(r) ==
    /\ req[r].at = "sign"
    /\ req' = [req EXCEPT ![r].at = "store",
                          ![r].token = [user |-> req[r].u, second |-> now + 1]]
    /\ UNCHANGED <<account, tenants, audited, now, cookie, registered, aborts>>

\* attachRefreshToken signs a token, when register or login comes to it.
Sign(r) ==
    /\ req[r].at = "sign"
    /\ req' = [req EXCEPT ![r].at = "store",
                          ![r].token = [user |-> req[r].u, second |-> now]]
    /\ UNCHANGED <<account, tenants, audited, now, cookie, registered, aborts>>

\* user.save() of attachRefreshToken: a $push.
Store(r) ==
    /\ req[r].at = "store" /\ req[r].op # "logout"
    /\ account' = [account EXCEPT ![req[r].u].tokens = @ \cup {req[r].token.second}]
    /\ Goto(r, "answer")
    /\ UNCHANGED <<tenants, audited, now, cookie, registered, aborts>>

\* logout of u, whose access token need not belong to the same account as the
\* cookie: the tabs of a browser share the cookie alone.
StartLogout(r, u, d) ==
    /\ account[u].password
    /\ Begin(r, [Idle EXCEPT !.op = "logout", !.u = u, !.d = d, !.token = cookie[d],
                             !.at = IF cookie[d] = None THEN "answer" ELSE "store"])

\* Fault: logout empties the array.
PullAll(r) ==
    /\ At(r, "logout", "store")
    /\ account' = [account EXCEPT ![req[r].u].tokens = {}]
    /\ Goto(r, "answer")
    /\ UNCHANGED <<tenants, audited, now, cookie, registered, aborts>>

\* The $pull of logout: the tokens of u that equal the cookie.
Pull(r) ==
    LET u == req[r].u
        token == req[r].token
    IN  /\ At(r, "logout", "store")
        /\ account' = IF token.user = u
                      THEN [account EXCEPT ![u].tokens = @ \ {token.second}]
                      ELSE account
        /\ Goto(r, "answer")
        /\ UNCHANGED <<tenants, audited, now, cookie, registered, aborts>>

\* The answer sets the cookie of the browser, or clears it.
Answer(r) ==
    /\ req[r].at = "answer"
    /\ cookie' = [cookie EXCEPT ![req[r].d] = IF req[r].op = "logout" THEN None ELSE req[r].token]
    /\ Finish(r)
    /\ UNCHANGED <<account, tenants, audited, now, registered, aborts>>

\* approveUser of an admin who sees u.
StartApprove(r, u, said) ==
    /\ account[u].here
    /\ Begin(r, [Idle EXCEPT !.op = "approve", !.at = "save", !.u = u, !.said = said,
                             !.approved = account[u].approved, !.home = account[u].home])

\* user.save() of approveUser writes isApproved, cast, if it differs from the one
\* as read, and then tests it; the flat is that of the document as read.
SaveApproval(r) ==
    /\ At(r, "approve", "save")
    /\ account' = IF Cast(req[r].said) # req[r].approved
                  THEN [account EXCEPT ![req[r].u].approved = Cast(req[r].said)]
                  ELSE account
    /\ Goto(r, IF Cast(req[r].said) /\ req[r].home # None THEN "tenant" ELSE "audit")
    /\ UNCHANGED <<tenants, audited, now, cookie, registered, aborts>>

\* Flat.updateOne: it finds no flat of another society.
AddTenant(r) ==
    /\ At(r, "approve", "tenant")
    /\ tenants' = [f \in Flats |-> IF f = req[r].home THEN tenants[f] \cup {req[r].u}
                                   ELSE tenants[f]]
    /\ Goto(r, "audit")
    /\ UNCHANGED <<account, audited, now, cookie, registered, aborts>>

\* The audit entry says user_approved if the answer itself, not cast, is truthy.
AuditApproval(r) ==
    /\ At(r, "approve", "audit")
    /\ audited' = IF Truthy(req[r].said)
                  THEN audited \cup {<<req[r].u, req[r].home>>}
                  ELSE audited
    /\ Finish(r)
    /\ UNCHANGED <<account, tenants, now, cookie, registered, aborts>>

\* updateMe with a push token that fcmTokens, as read, does not hold.
StartDevice(r, u) ==
    /\ account[u].password /\ account[u].devices = 0
    /\ Begin(r, [Idle EXCEPT !.op = "device", !.at = "save", !.u = u])

PushDevice(r) ==
    /\ At(r, "device", "save")
    /\ account' = [account EXCEPT ![req[r].u].devices = @ + 1]
    /\ Finish(r)
    /\ UNCHANGED <<tenants, audited, now, cookie, registered, aborts>>

\* The request dies at one of its awaits, or its answer is lost.
Abort(r) ==
    /\ req[r].at # "idle"
    /\ aborts < MaxAborts
    /\ aborts' = aborts + 1
    /\ Finish(r)
    /\ UNCHANGED <<account, tenants, audited, now, cookie, registered>>

Tick ==
    /\ now < MaxNow
    /\ now' = now + 1
    /\ UNCHANGED <<account, tenants, audited, cookie, registered, req, aborts>>

Arrive(r) == \E u \in Users :
    \/ \E d \in Devices : \/ \E to \in Homes : StartRegister(r, u, d, to)
                          \/ StartLogin(r, u, d)
                          \/ StartLogout(r, u, d)
    \/ \E said \in Answers : StartApprove(r, u, said)
    \/ StartDevice(r, u)

Continue(r) == \/ SaveRegister(r)
               \/ Collide(r)
               \/ Sign(r)
               \/ Store(r)
               \/ Pull(r)
               \/ Answer(r)
               \/ SaveApproval(r)
               \/ AddTenant(r)
               \/ AuditApproval(r)
               \/ PushDevice(r)

Next == \/ Tick
        \/ \E u \in Users : PendingUser(u)
        \/ \E r \in Requests : Arrive(r) \/ Continue(r) \/ Abort(r)

Spec == Init /\ [][Next]_vars

-----------------------------------------------------------------------------
(* Properties.                                                             *)

\* An approved user whose flat does not have him as a tenant, with no approval
\* under way that will add him.
Stranded(u) ==
    /\ account[u].approved
    /\ \E f \in Flats : /\ account[u].home = f
                        /\ u \notin tenants[f]
                        /\ ~\E r \in Requests : /\ At(r, "approve", "tenant")
                                                /\ req[r].u = u /\ req[r].home = f

\* The save of r would go over changes that r has not seen.
Stale(r) == /\ At(r, "register", "save") \/ At(r, "approve", "save")
            /\ LET doc == account[req[r].u]
               IN  <<req[r].approved, req[r].home>> # <<doc.approved, doc.home>>

\* The step is r's, which audits as an approval of u what was stored as a
\* rejection.
AuditsRejection(r, u) ==
    /\ At(r, "approve", "audit") /\ req'[r].at = "idle"
    /\ req[r].u = u /\ req[r].said = "text of false"

ApprovalStep ==
    /\ \A u \in Users : ~Stranded(u) /\ Stranded(u)' =>
          \E r \in Requests : /\ req'[r] # req[r]
                              /\ \/ Stale(r)
                                 \/ At(r, "approve", "tenant") /\ aborts' > aborts
    /\ \A u \in Users, f \in Flats :
          <<u, f>> \in audited' \ audited =>
             u \in tenants[f] \/ \E r \in Requests : AuditsRejection(r, u)

\* Approval reaches the flat although it is saved in two documents, one after
\* the other: a resident is stranded only by an approval that dies between the
\* two, or by a registration or an approval that saves over what it has not
\* seen; and no approval is audited before the flat has its tenant, but for an
\* answer that is the text of a false: it is stored as a rejection, adds no
\* tenant, and is audited as an approval all the same.
ApprovalReachesFlat == [][ApprovalStep]_vars

\* Only requests that overlap can repeat what is done once: a number is
\* registered, and a push token stored, no more often than requests are served
\* at once, however long the system runs.
RepetitionsOverlap ==
    \A u \in Users : /\ registered[u] <= Cardinality(Requests)
                     /\ account[u].devices <= Cardinality(Requests)

\* Request r is about to store the token of u and the second s, or to pull it.
Holds(r, u, s) == req[r].at = "store" /\ req[r].token = [user |-> u, second |-> s]

\* A session survives what is done on other browsers: its token leaves the
\* document only by a logout that presents the same token, and once it is out,
\* its second is over and no request has yet to store it, it works never again.
SessionsEndByLogout ==
    [][\A u \in Users, s \in Seconds :
         /\ s \in account[u].tokens /\ s \notin account'[u].tokens
              => \E r \in Requests : Holds(r, u, s) /\ req[r].op = "logout"
         /\ s \notin account[u].tokens /\ s \in account'[u].tokens /\ s < now
              => \E r \in Requests : Holds(r, u, s) /\ req[r].op # "logout"]_vars
=============================================================================
