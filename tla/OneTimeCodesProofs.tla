------------------------- MODULE OneTimeCodesProofs -------------------------
(***************************************************************************)
(* What is proved of OneTimeCodes for any numbers, any concurrency and any *)
(* number of codes and requests that die.                                  *)
(***************************************************************************)
EXTENDS OneTimeCodes, Integers, FiniteSetTheorems, TLAPS

-----------------------------------------------------------------------------
(* The inductive invariant.                                                *)

\* A request that has a code to store or to send.
Sending(r) == req[r].op \in {"send", "forgot"} /\ req[r].at \in {"save", "sms"}

\* The steps that a request can be at, and what it holds there.
RequestOK(r) ==
    /\ req[r].op = "none" <=> req[r].at = "idle"
    /\ req[r].at # "idle" => req[r].p \in Phones
    /\ req[r].op \in {"send", "forgot"} => /\ req[r].at \in {"save", "sms", "audit"}
                                           /\ req[r].code \in 1..lastCode
    /\ req[r].op = "send" => req[r].at # "audit"
    /\ req[r].op = "verify" => /\ req[r].at \in {"ask", "miss", "accept"}
                               /\ req[r].seen \in Codes
    /\ req[r].at = "accept" => req[r].code # NoCode

\* The number is known to have the code.
Has(p, c) == c \in received[p] \/ user[p].otp.code = c \/ provider[p] = c

\* A code is drawn once, for one number.
CodesApart ==
    /\ \A p \in Phones : \A c \in Codes : Has(p, c) => c <= lastCode
    /\ \A p, q \in Phones : \A c \in Codes : Has(p, c) /\ Has(q, c) => p = q
    /\ \A c \in used : c <= lastCode

\* A code that is still to be sent is nowhere but in the document of its number.
SendingOK(r) ==
    Sending(r) =>
        /\ req[r].code \notin used
        /\ \A q \in Phones : /\ req[r].code \notin received[q]
                             /\ provider[q] # req[r].code
                             /\ user[q].otp.code = req[r].code => q = req[r].p
        /\ \A s \in Requests : Sending(s) /\ req[s].code = req[r].code => s = r

\* A code that was accepted is known to nobody any more.
UsedOK == \A c \in used : \A q \in Phones : user[q].otp.code # c /\ provider[q] # c

\* A verification: what is typed in was received; a code that had been
\* accepted before is not the one in the document, so it does not get through.
VerifyOK(r) ==
    req[r].op = "verify" =>
        /\ req[r].code # NoCode => req[r].code \in received[req[r].p]
        /\ req[r].spent => /\ req[r].code # req[r].seen
                           /\ req[r].code \in used
                           /\ req[r].at # "accept"
        /\ req[r].at = "accept" => /\ req[r].code # NoCode
                                   /\ \A q \in Phones : provider[q] # req[r].code

\* attempts = n is explained by the tries of code c.
Backed(n, c) == n <= tries[c] \/ MaxTries <= tries[c]

\* attempts, and what a verification will write to it, are explained, unless
\* the code came in between.
AttemptsOK ==
    \A p \in Phones :
        LET otp == user[p].otp
        IN  otp.code # NoCode /\ otp.code \notin crowded => Backed(otp.attempts, otp.code)

CountOK(r) ==
    req[r].op = "verify" =>
        /\ user[req[r].p].otp.code \in {NoCode, req[r].seen} \cup crowded
        /\ req[r].seen \notin crowded =>
              /\ req[r].at = "ask" => Backed(req[r].attempts - 1, req[r].seen)
              /\ req[r].at = "miss" => Backed(req[r].attempts, req[r].seen)
        /\ req[r].attempts >= 1

\* A number that got a code has one stored, until it is verified.
StoredOK(p) == user[p].isVerified \/ user[p].otp.code # NoCode

\* MSG91's word for the latest code of p: it keeps the code until it sends a
\* reset code or confirms it.
Confirmable(p) ==
    \/ provider[p] = latest[p] \/ user[p].passwordReset # NoCode
    \/ user[p].isVerified \/ aborts # 0
    \/ \E r \in Requests : req[r].p = p /\ At(r, "verify", "accept")

\* A code is stored before it is sent.
SmsOK(r) ==
    req[r].at = "sms" => /\ req[r].op = "send" => StoredOK(req[r].p)
                         /\ req[r].op = "forgot" => user[req[r].p].passwordReset # NoCode

LatestOK == /\ \A p \in Phones : latest[p] # NoCode => StoredOK(p) /\ Confirmable(p)
            /\ \A r \in Requests : SmsOK(r)

RequestsOK == \A r \in Requests : RequestOK(r)

TInv == TypeOK /\ RequestsOK
UInv == CodesApart /\ UsedOK /\ \A r \in Requests : SendingOK(r) /\ VerifyOK(r)
KInv == AttemptsOK /\ \A r \in Requests : CountOK(r)

IInv == TInv /\ UInv /\ KInv /\ LatestOK

-----------------------------------------------------------------------------
\* An idle request is well typed, and so are the documents of Init.
LEMMA IdleType == Idle \in ReqState /\ NoUser \in UserDoc /\ NoOtp \in Otp
  BY DEF Idle, ReqState, NoUser, NoOtp, UserDoc, Otp, NoCode

\* The request of a step is in place after it, and the others stay so.
LEMMA RequestsKept ==
    ASSUME TInv, NEW r \in Requests, lastCode' \in Nat, lastCode' >= lastCode,
           DOMAIN req' = Requests, req'[r] \in ReqState, RequestOK(r)',
           \A s \in Requests : s # r => req'[s] = req[s],
           req' = [s \in Requests |-> req'[s]]
    PROVE  req' \in [Requests -> ReqState] /\ RequestsOK'
<1>1. req \in [Requests -> ReqState] /\ lastCode \in Nat
  BY BoundAssumption DEF TInv, TypeOK
<1>2. req' \in [Requests -> ReqState]
  <2>1. \A s \in Requests : req'[s] \in ReqState
    BY <1>1
  <2> QED BY <2>1
<1>3. ASSUME NEW s \in Requests PROVE RequestOK(s)'
  <2>1. CASE s = r
    BY <2>1
  <2>2. CASE s # r
    BY <1>1, <2>2 DEF RequestOK, TInv, RequestsOK
  <2> QED BY <2>1, <2>2
<1> QED BY <1>2, <1>3 DEF RequestsOK

\* A request that ends leaves the others in place.
LEMMA FinishKept ==
    ASSUME TInv, NEW r \in Requests, lastCode' = lastCode, Finish(r)
    PROVE  req' \in [Requests -> ReqState] /\ RequestsOK'
<1>1. lastCode \in Nat /\ Idle \in ReqState /\ req \in [Requests -> ReqState]
  BY BoundAssumption, IdleType DEF TInv, TypeOK
<1>2. req'[r] = Idle /\ DOMAIN req' = Requests /\ req' = [s \in Requests |-> req'[s]]
      /\ \A s \in Requests : s # r => req'[s] = req[s]
  BY <1>1 DEF Finish
<1>3. RequestOK(r)'
  BY <1>2 DEF RequestOK, Idle
<1> QED BY <1>1, <1>2, <1>3, RequestsKept

\* So does one that goes on in the same operation.
LEMMA GotoKept ==
    ASSUME TInv, NEW r \in Requests, lastCode' = lastCode, NEW CONSTANT a, Goto(r, a),
           \/ req[r].op = "send" /\ a = "sms"
           \/ req[r].op = "forgot" /\ a \in {"sms", "audit"}
           \/ req[r].op = "verify" /\ a = "miss"
           \/ req[r].op = "verify" /\ a = "accept" /\ req[r].code # NoCode
    PROVE  req' \in [Requests -> ReqState] /\ RequestsOK'
<1>1. lastCode \in Nat /\ req \in [Requests -> ReqState] /\ RequestOK(r)
  BY BoundAssumption DEF TInv, TypeOK, RequestsOK
<1>2. req'[r] = [req[r] EXCEPT !.at = a] /\ DOMAIN req' = Requests
      /\ req' = [s \in Requests |-> req'[s]]
      /\ \A s \in Requests : s # r => req'[s] = req[s]
  BY <1>1 DEF Goto
<1>3. /\ req'[r] \in ReqState /\ req'[r].at = a /\ req'[r].op = req[r].op
      /\ req'[r].p = req[r].p /\ req'[r].code = req[r].code /\ req'[r].seen = req[r].seen
  BY <1>1, <1>2 DEF ReqState
<1>4. RequestOK(r)'
  BY <1>1, <1>3 DEF RequestOK
<1> QED BY <1>1, <1>2, <1>3, <1>4, RequestsKept

\* Every step keeps every variable in its type, and every request in place.
LEMMA TypeKept == TInv /\ [Next]_vars => TInv'
<1> SUFFICES ASSUME TInv, [Next]_vars PROVE TypeOK' /\ RequestsOK'
  BY DEF TInv
<1>0. TypeOK /\ \A r \in Requests : RequestOK(r)
  BY DEF TInv, RequestsOK
<1> USE <1>0, BoundAssumption DEF TypeOK
<1>1. ASSUME NEW r \in Requests, NEW p \in Phones, NEW op \in {"send", "forgot"}, Draw(r, op, p)
      PROVE  TypeOK' /\ RequestsOK'
  <2>1. lastCode' \in 0..MaxCodes /\ lastCode' = lastCode + 1 /\ expired' \in 0..lastCode'
    BY <1>1 DEF Draw
  <2>2. lastCode + 1 \in Codes /\ user[p].here \in BOOLEAN
    BY <1>1 DEF Draw, Codes, UserDoc
  <2>3. /\ req'[r] = [op |-> op, at |-> "save", p |-> p, code |-> lastCode + 1,
                      seen |-> NoCode, attempts |-> 0, knew |-> user[p].here, spent |-> FALSE]
        /\ DOMAIN req' = Requests /\ req' = [s \in Requests |-> req'[s]]
        /\ \A s \in Requests : s # r => req'[s] = req[s]
    BY <1>1 DEF Draw, Idle
  <2>4. req'[r] \in ReqState /\ RequestOK(r)'
    BY <2>1, <2>2, <2>3 DEF ReqState, RequestOK
  <2>5. req' \in [Requests -> ReqState] /\ RequestsOK'
    <3>1. lastCode' \in Nat /\ lastCode' >= lastCode
      BY <2>1
    <3> QED BY <2>3, <2>4, <3>1, RequestsKept
  <2> QED BY <1>1, <2>1, <2>5 DEF Draw, history
<1>2. ASSUME NEW r \in Requests, SaveCode(r) PROVE TypeOK' /\ RequestsOK'
  <2>1. req' \in [Requests -> ReqState] /\ RequestsOK'
    BY <1>2, GotoKept DEF SaveCode, At, outside
  <2>2. req[r].p \in Phones /\ req[r].code \in Codes
    BY <1>2 DEF SaveCode, At, RequestOK, ReqState, Codes, NoCode
  <2>3. user' \in [Phones -> UserDoc]
    <3>1. [code |-> req[r].code, attempts |-> 0] \in Otp
      BY <2>2 DEF Otp
    <3>2. user' = [user EXCEPT ![req[r].p] =
                     [@ EXCEPT !.here = TRUE, !.otp = [code |-> req[r].code, attempts |-> 0]]]
      BY <1>2 DEF SaveCode
    <3> QED BY <3>1, <3>2 DEF UserDoc
  <2> QED BY <1>2, <2>1, <2>2, <2>3 DEF SaveCode, outside
<1>3. ASSUME NEW r \in Requests, Collide(r) PROVE TypeOK' /\ RequestsOK'
  BY <1>3, FinishKept DEF Collide, outside, history
<1>4. ASSUME NEW r \in Requests, SaveReset(r) PROVE TypeOK' /\ RequestsOK'
  <2>1. req' \in [Requests -> ReqState] /\ RequestsOK'
    BY <1>4, GotoKept DEF SaveReset, At, outside
  <2>2. user' \in [Phones -> UserDoc]
    BY <1>4 DEF SaveReset, UserDoc, ReqState
  <2> QED BY <1>4, <2>1, <2>2 DEF SaveReset, outside, history
<1>5. ASSUME NEW r \in Requests, Sms(r) PROVE TypeOK' /\ RequestsOK'
  <2>1. req[r].op \in {"send", "forgot"} /\ req[r].p \in Phones /\ req[r].code \in Codes
    <3>1. req[r] \in ReqState /\ RequestOK(r)
      OBVIOUS
    <3> QED BY <1>5, <3>1 DEF Sms, RequestOK, ReqState, Codes, NoCode
  <2>2. req' \in [Requests -> ReqState] /\ RequestsOK'
    BY <1>5, <2>1, GotoKept, FinishKept DEF Sms
  <2> QED BY <1>5, <2>1, <2>2 DEF Sms, history
<1>6. ASSUME NEW r \in Requests, SmsFails(r) PROVE TypeOK' /\ RequestsOK'
  BY <1>6, FinishKept DEF SmsFails, outside, history
<1>7. ASSUME NEW r \in Requests, Audit(r) PROVE TypeOK' /\ RequestsOK'
  <2>1. req[r].code \in Codes
    <3>1. RequestOK(r) /\ lastCode \in 0..MaxCodes /\ req[r] \in ReqState
      OBVIOUS
    <3> QED BY <1>7, <3>1 DEF Audit, RequestOK, Codes, ReqState
  <2> QED BY <1>7, <2>1, FinishKept DEF Audit, outside, history
<1>8. ASSUME NEW r \in Requests, NEW p \in Phones, NEW typed \in received[p] \cup {NoCode},
             StartVerify(r, p, typed)
      PROVE  TypeOK' /\ RequestsOK'
  <2>1. user[p].otp.code \in Codes /\ user[p].otp.attempts \in Nat
    <3>1. user[p] \in UserDoc
      OBVIOUS
    <3>2. user[p].otp.code \in Codes \cup {NoCode} /\ user[p].otp.attempts \in Nat
      BY <3>1 DEF UserDoc, Otp
    <3> QED BY <1>8, <3>2 DEF StartVerify, Pending, Codes, NoCode
  <2>2. typed \in Codes \cup {NoCode} /\ user[p].otp.code \in Codes
    BY <2>1, <1>8 DEF Codes
  <2>3. /\ req'[r] = [op |-> "verify",
                      at |-> IF user[p].otp.attempts + 1 > MaxTries THEN "miss" ELSE "ask",
                      p |-> p, code |-> typed, seen |-> user[p].otp.code,
                      attempts |-> user[p].otp.attempts + 1,
                      knew |-> TRUE, spent |-> typed \in used]
        /\ DOMAIN req' = Requests /\ req' = [s \in Requests |-> req'[s]]
        /\ \A s \in Requests : s # r => req'[s] = req[s]
    BY <1>8 DEF StartVerify
  <2>4. lastCode' \in Nat /\ lastCode' = lastCode /\ lastCode' >= lastCode
    BY <1>8 DEF StartVerify, outside
  <2>5. req'[r] \in ReqState /\ RequestOK(r)'
    BY <2>1, <2>2, <2>3, <2>4 DEF ReqState, RequestOK
  <2>6. req' \in [Requests -> ReqState] /\ RequestsOK'
    BY <2>3, <2>4, <2>5, RequestsKept
  <2> QED BY <1>8, <2>6 DEF StartVerify, outside, history
<1>9. ASSUME NEW r \in Requests, Confirm(r) \/ Mismatch(r) PROVE TypeOK' /\ RequestsOK'
  <2>1. req' \in [Requests -> ReqState] /\ RequestsOK'
    BY <1>9, GotoKept DEF Confirm, Mismatch, Match, At, outside
  <2>2. req[r].seen \in Codes /\ tries' \in [Codes -> Nat]
    <3>1. RequestOK(r) /\ lastCode \in 0..MaxCodes
      OBVIOUS
    <3>2. req[r].seen \in Codes
      BY <1>9, <3>1 DEF Confirm, Mismatch, At, RequestOK, Codes
    <3> QED BY <1>9, <3>2 DEF Confirm, Mismatch, Try
  <2>3. provider' \in [Phones -> Codes \cup {NoCode}]
    BY <1>9 DEF Confirm, Mismatch, outside
  <2> QED BY <1>9, <2>1, <2>2, <2>3 DEF Confirm, Mismatch, outside
<1>10. ASSUME NEW r \in Requests, SaveMiss(r) PROVE TypeOK' /\ RequestsOK'
  <2>1. user' \in [Phones -> UserDoc]
    <3>1. req[r].attempts \in Nat
      BY DEF ReqState
    <3>2. \A p \in Phones : user[p] \in UserDoc /\ user[p].otp \in Otp
      BY DEF UserDoc
    <3>3. \A p \in Phones : [user[p].otp EXCEPT !.attempts = req[r].attempts] \in Otp
      BY <3>1, <3>2 DEF Otp
    <3> QED BY <1>10, <3>2, <3>3 DEF SaveMiss, UserDoc
  <2> QED BY <1>10, <2>1, FinishKept DEF SaveMiss, outside, history
<1>11. ASSUME NEW r \in Requests, SaveAccept(r) PROVE TypeOK' /\ RequestsOK'
  <2>1. user' \in [Phones -> UserDoc]
    BY <1>11, IdleType DEF SaveAccept, UserDoc
  <2>2. req[r].code \in Codes
    BY <1>11 DEF SaveAccept, At, RequestOK, ReqState
  <2> QED BY <1>11, <2>1, <2>2, FinishKept DEF SaveAccept, outside
<1>12. ASSUME NEW r \in Requests, Abort(r) PROVE TypeOK' /\ RequestsOK'
  BY <1>12, FinishKept DEF Abort, outside, history
<1>13. CASE Expire
  BY <1>13 DEF Expire, history, RequestOK, RequestsOK
<1>14. CASE UNCHANGED vars
  BY <1>14 DEF vars, outside, history, RequestOK, RequestsOK
<1> QED
  BY <1>1, <1>2, <1>3, <1>4, <1>5, <1>6, <1>7, <1>8, <1>9, <1>10, <1>11, <1>12, <1>13, <1>14
     DEF Next, Arrive, Continue, StartSend, StartForgot

\* In place, spelled out.
LEMMA InPlace ==
    ASSUME TInv, NEW r \in Requests
    PROVE  /\ lastCode \in Nat /\ req \in [Requests -> ReqState]
           /\ req[r].op = "none" <=> req[r].at = "idle"
           /\ req[r].at # "idle" => req[r].p \in Phones
           /\ req[r].op \in {"send", "forgot", "verify", "none"}
           /\ req[r].op \in {"send", "forgot"} => req[r].code \in Codes /\ req[r].code <= lastCode
           /\ req[r].at = "sms" => req[r].op \in {"send", "forgot"}
           /\ req[r].op = "verify" => req[r].seen \in Codes
           /\ req[r].at = "accept" => req[r].op = "verify" /\ req[r].code \in Codes
           /\ NoCode \notin Codes
<1>1. RequestOK(r) /\ req \in [Requests -> ReqState] /\ lastCode \in 0..MaxCodes
  BY DEF TInv, TypeOK, RequestsOK
<1>2. lastCode \in Nat /\ \A c \in 1..lastCode : c \in Codes /\ c <= lastCode
  BY <1>1, BoundAssumption DEF Codes
<1>3. req[r] \in ReqState
  BY <1>1
<1> QED BY <1>1, <1>2, <1>3 DEF RequestOK, ReqState, Codes, NoCode

\* A step that moves no code keeps all that is said of codes.
LEMMA QuietKept ==
    ASSUME UInv, \A p \in Phones : user'[p].otp.code = user[p].otp.code,
           received' = received, provider' = provider, used' = used, lastCode' = lastCode,
           NEW r \in Requests, \A s \in Requests : s # r => req'[s] = req[s],
           req'[r].op \in {"send", "forgot"} /\ req'[r].at \in {"save", "sms"} =>
              Sending(r) /\ req'[r].code = req[r].code /\ req'[r].p = req[r].p,
           VerifyOK(r)'
    PROVE  UInv'
<1>1. CodesApart'
  BY DEF UInv, CodesApart, Has
<1>2. UsedOK'
  BY DEF UInv, UsedOK
<1>3. ASSUME NEW s \in Requests PROVE VerifyOK(s)'
  BY DEF UInv, VerifyOK
<1>4. ASSUME NEW s \in Requests PROVE SendingOK(s)'
  BY DEF UInv, SendingOK, Sending
<1> QED BY <1>1, <1>2, <1>3, <1>4 DEF UInv

\* Every step keeps what is said of codes.
LEMMA CodesKept == TInv /\ UInv /\ [Next]_vars => UInv'
<1> SUFFICES ASSUME TInv, UInv, [Next]_vars PROVE UInv'
  OBVIOUS
<1>0. /\ req \in [Requests -> ReqState] /\ user \in [Phones -> UserDoc]
      /\ provider \in [Phones -> Codes \cup {NoCode}] /\ received \in [Phones -> SUBSET Codes]
      /\ lastCode \in Nat /\ used \subseteq Codes /\ NoCode \notin Codes
      /\ \A c \in Codes : c \in Nat
  BY BoundAssumption DEF TInv, TypeOK, Codes, NoCode
<1>1. ASSUME NEW r \in Requests, NEW p \in Phones, NEW op \in {"send", "forgot"}, Draw(r, op, p)
      PROVE  UInv'
  <2>1. /\ lastCode' = lastCode + 1 /\ UNCHANGED <<user, received, provider, used>>
        /\ req'[r].op = op /\ req'[r].code = lastCode + 1 /\ req'[r].p = p
        /\ \A s \in Requests : s # r => req'[s] = req[s]
        /\ lastCode + 1 \in Codes
    BY <1>0, <1>1, BoundAssumption DEF Draw, history, Idle, Codes
  <2>2. CodesApart'
    BY <1>0, <2>1 DEF UInv, CodesApart, Has
  <2>3. UsedOK'
    BY <2>1 DEF UInv, UsedOK
  <2>4. ASSUME NEW s \in Requests PROVE VerifyOK(s)'
    BY <2>1 DEF UInv, VerifyOK
  <2>5. ASSUME NEW s \in Requests PROVE SendingOK(s)'
    BY <1>0, <2>1, InPlace DEF UInv, CodesApart, Has, SendingOK, Sending
  <2> QED BY <2>2, <2>3, <2>4, <2>5 DEF UInv
<1>2. ASSUME NEW r \in Requests, SaveCode(r) PROVE UInv'
  <2>1. /\ UNCHANGED <<lastCode, received, provider, used>>
        /\ user'[req[r].p].otp.code = req[r].code
        /\ \A q \in Phones : q # req[r].p => user'[q].otp.code = user[q].otp.code
        /\ req'[r] = [req[r] EXCEPT !.at = "sms"]
        /\ \A s \in Requests : s # r => req'[s] = req[s]
        /\ Sending(r) /\ req[r].p \in Phones /\ req[r].code \in Codes /\ req[r].code <= lastCode
        /\ req[r] \in ReqState
    BY <1>0, <1>2, InPlace DEF SaveCode, outside, At, Goto, Sending
  <2>2. CodesApart'
    BY <1>0, <2>1 DEF UInv, CodesApart, SendingOK, Has
  <2>3. UsedOK'
    BY <2>1 DEF UInv, UsedOK, SendingOK
  <2>4. ASSUME NEW s \in Requests PROVE VerifyOK(s)'
    BY <2>1, <1>2 DEF UInv, VerifyOK, SaveCode, At, Goto
  <2>5. ASSUME NEW s \in Requests PROVE SendingOK(s)'
    <3>1. CASE s = r
      BY <2>1, <3>1 DEF UInv, SendingOK, Sending, ReqState
    <3>2. CASE s # r
      <4>1. Sending(s) => req[s].code # req[r].code
        BY <2>1, <3>2 DEF UInv, SendingOK
      <4>2. ASSUME NEW t \in Requests, Sending(t)' PROVE Sending(t) /\ req'[t].code = req[t].code
        BY <2>1, <4>2 DEF Sending, ReqState
      <4> QED BY <2>1, <3>2, <4>1, <4>2 DEF UInv, SendingOK, Sending
    <3> QED BY <3>1, <3>2
  <2> QED BY <2>2, <2>3, <2>4, <2>5 DEF UInv
<1>3. ASSUME NEW r \in Requests, Sms(r) PROVE UInv'
  <2>1. /\ UNCHANGED <<lastCode, user, used>>
        /\ provider' = [provider EXCEPT ![req[r].p] = req[r].code]
        /\ received' = [received EXCEPT ![req[r].p] = @ \cup {req[r].code}]
        /\ req'[r].op # "verify" /\ req'[r].at # "sms" /\ req'[r].at # "save"
        /\ \A s \in Requests : s # r => req'[s] = req[s]
        /\ Sending(r) /\ req[r].p \in Phones /\ req[r].code \in Codes /\ req[r].code <= lastCode
    <3>1. req[r].op \in {"send", "forgot"} /\ req[r].at = "sms" /\ req[r] \in ReqState
      BY <1>0, <1>3, InPlace DEF Sms
    <3>2. req'[r].op # "verify" /\ req'[r].at \in {"idle", "audit"}
      BY <1>0, <1>3, <3>1 DEF Sms, Goto, Finish, Idle, ReqState
    <3>3. \A s \in Requests : s # r => req'[s] = req[s]
      BY <1>0, <1>3 DEF Sms, Goto, Finish
    <3> QED BY <1>0, <1>3, <3>1, <3>2, <3>3, InPlace DEF Sms, history, Sending
  <2>2. CodesApart'
    BY <1>0, <2>1 DEF UInv, CodesApart, SendingOK, Has
  <2>3. UsedOK'
    BY <1>0, <2>1 DEF UInv, UsedOK, SendingOK
  <2>4. ASSUME NEW s \in Requests PROVE VerifyOK(s)'
    BY <1>0, <2>1, InPlace DEF UInv, VerifyOK, SendingOK, CodesApart, Has
  <2>5. ASSUME NEW s \in Requests PROVE SendingOK(s)'
    BY <1>0, <2>1, InPlace DEF UInv, SendingOK, Sending
  <2> QED BY <2>2, <2>3, <2>4, <2>5 DEF UInv
<1>4. ASSUME NEW r \in Requests, Confirm(r) PROVE UInv'
  <2>1. /\ UNCHANGED <<lastCode, user, received, used>>
        /\ req[r].p \in Phones /\ req[r].op = "verify" /\ Match(r)
        /\ provider' = [provider EXCEPT ![req[r].p] = IF @ = req[r].code THEN NoCode ELSE @]
        /\ req'[r] = [req[r] EXCEPT !.at = "accept"]
        /\ \A s \in Requests : s # r => req'[s] = req[s]
    BY <1>0, <1>4, InPlace DEF Confirm, At, Goto
  <2>2. req[r] \in ReqState /\ req[r].code \in Codes /\ ~req[r].spent
    BY <1>0, <2>1 DEF UInv, UsedOK, VerifyOK, Match, ReqState
  <2>3. CodesApart'
    BY <1>0, <2>1 DEF UInv, CodesApart, Has
  <2>4. UsedOK'
    BY <1>0, <2>1 DEF UInv, UsedOK
  <2>5. \A q \in Phones : provider'[q] # req[r].code
    BY <1>0, <2>1, <2>2 DEF UInv, VerifyOK, CodesApart, Has
  <2>6. ASSUME NEW s \in Requests PROVE VerifyOK(s)'
    BY <1>0, <2>1, <2>2, <2>5, InPlace DEF UInv, VerifyOK, ReqState
  <2>7. ASSUME NEW s \in Requests PROVE SendingOK(s)'
    BY <1>0, <2>1, <2>2, InPlace DEF UInv, SendingOK, Sending, ReqState
  <2> QED BY <2>3, <2>4, <2>6, <2>7 DEF UInv
<1>5. ASSUME NEW r \in Requests, SaveAccept(r) PROVE UInv'
  <2>1. /\ UNCHANGED <<lastCode, received, provider>>
        /\ req[r].p \in Phones /\ req[r].code \in Codes
        /\ used' = used \cup {req[r].code}
        /\ user'[req[r].p].otp.code = NoCode
        /\ \A q \in Phones : q # req[r].p => user'[q] = user[q]
        /\ req'[r].op = "none"
        /\ \A s \in Requests : s # r => req'[s] = req[s]
        /\ req[r].op = "verify" /\ req[r].at = "accept"
    BY <1>0, <1>5, InPlace DEF SaveAccept, outside, At, Finish, Idle, NoOtp
  <2>2. /\ req[r].code \in received[req[r].p]
        /\ \A q \in Phones : provider[q] # req[r].code
    BY <1>0, <2>1 DEF UInv, VerifyOK
  <2>3. CodesApart'
    BY <1>0, <2>1, <2>2 DEF UInv, CodesApart, Has
  <2>4. UsedOK'
    BY <1>0, <2>1, <2>2 DEF UInv, UsedOK, CodesApart, Has
  <2>5. ASSUME NEW s \in Requests PROVE VerifyOK(s)'
    BY <1>0, <2>1 DEF UInv, VerifyOK
  <2>6. ASSUME NEW s \in Requests PROVE SendingOK(s)'
    BY <1>0, <2>1, <2>2, InPlace DEF UInv, SendingOK, Sending
  <2> QED BY <2>3, <2>4, <2>5, <2>6 DEF UInv
<1>6. ASSUME NEW r \in Requests, NEW p \in Phones, NEW typed \in received[p] \cup {NoCode},
             StartVerify(r, p, typed)
      PROVE  UInv'
  <2>1. /\ UNCHANGED <<user, lastCode, received, provider, used>>
        /\ \A s \in Requests : s # r => req'[s] = req[s]
        /\ req'[r].op = "verify" /\ req'[r].p = p /\ req'[r].code = typed
        /\ req'[r].at # "accept" /\ req'[r].seen = user[p].otp.code
        /\ req'[r].spent = (typed \in used)
    BY <1>0, <1>6 DEF StartVerify, outside, history
  <2>2. VerifyOK(r)'
    BY <2>1 DEF UInv, UsedOK, VerifyOK
  <2> QED BY <2>1, <2>2, QuietKept
<1>7. ASSUME NEW r \in Requests, Mismatch(r) PROVE UInv'
  <2>1. /\ UNCHANGED <<user, lastCode, received, provider, used>>
        /\ \A s \in Requests : s # r => req'[s] = req[s]
        /\ req[r].op = "verify" /\ req'[r] = [req[r] EXCEPT !.at = "miss"]
    BY <1>0, <1>7 DEF Mismatch, outside, At, Goto
  <2>2. req[r] \in ReqState
    BY <1>0
  <2>3. VerifyOK(r)' /\ req'[r].op = "verify"
    BY <2>1, <2>2 DEF UInv, VerifyOK, ReqState
  <2> QED BY <2>1, <2>3, QuietKept
<1>8. ASSUME NEW r \in Requests, SaveReset(r) PROVE UInv'
  <2>1. /\ UNCHANGED <<lastCode, received, provider, used>>
        /\ \A p \in Phones : user'[p].otp.code = user[p].otp.code
        /\ \A s \in Requests : s # r => req'[s] = req[s]
        /\ Sending(r) /\ req'[r] = [req[r] EXCEPT !.at = "sms"]
    BY <1>0, <1>8 DEF SaveReset, outside, history, At, Goto, Sending, UserDoc
  <2>2. req[r] \in ReqState /\ req[r].op = "forgot"
    BY <1>0, <1>8 DEF SaveReset, At
  <2>3. VerifyOK(r)' /\ req'[r].code = req[r].code /\ req'[r].p = req[r].p
    BY <2>1, <2>2 DEF VerifyOK, ReqState
  <2> QED BY <2>1, <2>3, QuietKept
<1>9. ASSUME NEW r \in Requests,
             \/ Collide(r) \/ SmsFails(r) \/ Audit(r) \/ SaveMiss(r) \/ Abort(r)
      PROVE  UInv'
  <2>1. /\ UNCHANGED <<lastCode, received, provider, used>>
        /\ \A p \in Phones : user'[p].otp.code = user[p].otp.code
        /\ Finish(r)
    <3>1. CASE SaveMiss(r)
      <4>1. \A p \in Phones : user[p] \in UserDoc /\ user[p].otp \in Otp
        BY <1>0 DEF UserDoc
      <4>2. \A p \in Phones : user'[p].otp.code = user[p].otp.code
        BY <1>0, <3>1, <4>1 DEF SaveMiss, UserDoc, Otp
      <4> QED BY <3>1, <4>2 DEF SaveMiss, outside, history
    <3>2. CASE Collide(r) \/ SmsFails(r) \/ Audit(r) \/ Abort(r)
      BY <3>2 DEF Collide, SmsFails, Audit, Abort, outside, history
    <3> QED BY <1>9, <3>1, <3>2
  <2>2. req'[r].op = "none" /\ \A s \in Requests : s # r => req'[s] = req[s]
    BY <1>0, <2>1 DEF Finish, Idle
  <2>3. VerifyOK(r)'
    BY <2>2 DEF VerifyOK
  <2> QED BY <2>1, <2>2, <2>3, QuietKept
<1>10. CASE Expire \/ UNCHANGED vars
  <2>1. UNCHANGED <<user, lastCode, received, provider, used, req>>
    BY <1>10 DEF Expire, vars, outside, history
  <2> QED
    BY <2>1 DEF UInv, CodesApart, Has, UsedOK, SendingOK, Sending, VerifyOK
<1> QED
  BY <1>1, <1>2, <1>3, <1>4, <1>5, <1>6, <1>7, <1>8, <1>9, <1>10
     DEF Next, Arrive, Continue, StartSend, StartForgot

\* A step that changes no stored otp keeps what is said of attempts.
LEMMA CountsKept ==
    ASSUME TInv, KInv, \A p \in Phones : user'[p].otp = user[p].otp, crowded' = crowded,
           \A c \in Codes : tries'[c] \in Nat /\ tries'[c] >= tries[c],
           NEW r \in Requests, \A s \in Requests : s # r => req'[s] = req[s], CountOK(r)'
    PROVE  KInv'
<1>0. /\ req \in [Requests -> ReqState] /\ user \in [Phones -> UserDoc]
      /\ tries \in [Codes -> Nat] /\ MaxTries \in Nat
  BY BoundAssumption DEF TInv, TypeOK
<1>1. ASSUME NEW n \in Int, NEW c \in Codes, Backed(n, c) PROVE Backed(n, c)'
  BY <1>0, <1>1 DEF Backed
<1>2. AttemptsOK'
  <2>1. \A p \in Phones : user[p].otp.code \in Codes \cup {NoCode} /\ user[p].otp.attempts \in Int
    BY <1>0 DEF UserDoc, Otp
  <2> QED BY <1>1, <2>1 DEF KInv, AttemptsOK
<1>3. ASSUME NEW s \in Requests, s # r PROVE CountOK(s)'
  <2>1. req[s] \in ReqState
    BY <1>0
  <2>2. req[s].op = "verify" => req[s].p \in Phones /\ req[s].seen \in Codes
    BY <2>1, InPlace
  <2>3. req[s].attempts \in Int /\ req[s].attempts - 1 \in Int
    BY <2>1 DEF ReqState
  <2> QED BY <1>1, <1>3, <2>2, <2>3 DEF KInv, CountOK
<1> QED BY <1>2, <1>3 DEF KInv

\* Every step keeps what is said of attempts.
LEMMA AttemptsKept == TInv /\ KInv /\ [Next]_vars => KInv'
<1> SUFFICES ASSUME TInv, KInv, [Next]_vars PROVE KInv'
  OBVIOUS
<1>0. /\ req \in [Requests -> ReqState] /\ user \in [Phones -> UserDoc]
      /\ tries \in [Codes -> Nat] /\ MaxTries \in Nat /\ NoCode \notin Codes
      /\ \A p \in Phones : /\ user[p].otp.code \in Codes \cup {NoCode}
                           /\ user[p].otp.attempts \in Nat
  BY BoundAssumption DEF TInv, TypeOK, UserDoc, Otp, Codes, NoCode
<1>1. ASSUME NEW r \in Requests, NEW p \in Phones, NEW typed \in received[p] \cup {NoCode},
             StartVerify(r, p, typed)
      PROVE  KInv'
  <2>1. /\ UNCHANGED <<user, crowded, tries>>
        /\ \A s \in Requests : s # r => req'[s] = req[s]
        /\ req'[r].p = p /\ req'[r].seen = user[p].otp.code
        /\ req'[r].attempts = user[p].otp.attempts + 1
        /\ req'[r].at \in {"miss", "ask"}
        /\ req'[r].at = "miss" => user[p].otp.attempts + 1 > MaxTries
        /\ user[p].otp.code # NoCode
    BY <1>0, <1>1 DEF StartVerify, history, Pending
  <2>2. user[p].otp.code \notin crowded => Backed(user[p].otp.attempts, user[p].otp.code)
    BY <2>1 DEF KInv, AttemptsOK
  <2>3. CountOK(r)'
    BY <1>0, <2>1, <2>2 DEF CountOK, Backed
  <2> QED BY <1>0, <2>1, <2>3, CountsKept
<1>2. ASSUME NEW r \in Requests, Confirm(r) \/ Mismatch(r) PROVE KInv'
  <2>1. /\ UNCHANGED <<user, crowded>>
        /\ req[r].op = "verify" /\ req[r].at = "ask"
        /\ req[r] \in ReqState /\ req[r].seen \in Codes
        /\ tries' = [tries EXCEPT ![req[r].seen] = @ + 1]
        /\ \A s \in Requests : s # r => req'[s] = req[s]
        /\ \/ req'[r] = [req[r] EXCEPT !.at = "accept"]
           \/ req'[r] = [req[r] EXCEPT !.at = "miss"]
    BY <1>0, <1>2, InPlace DEF Confirm, Mismatch, At, Goto, Try
  <2>2. \A c \in Codes : tries'[c] \in Nat /\ tries'[c] >= tries[c]
    BY <1>0, <2>1
  <2>3. /\ req'[r].p = req[r].p /\ req'[r].seen = req[r].seen /\ req'[r].at # "ask"
        /\ req'[r].attempts = req[r].attempts /\ req[r].attempts \in Nat
    BY <2>1 DEF ReqState
  <2>4. /\ user[req[r].p].otp.code \in {NoCode, req[r].seen} \cup crowded
        /\ req[r].seen \notin crowded => Backed(req[r].attempts - 1, req[r].seen)
        /\ req[r].attempts >= 1
    BY <2>1 DEF KInv, CountOK
  <2>5. tries'[req[r].seen] = tries[req[r].seen] + 1
    BY <1>0, <2>1
  <2>6. CountOK(r)'
    BY <1>0, <2>1, <2>3, <2>4, <2>5 DEF CountOK, Backed
  <2> QED BY <2>1, <2>2, <2>6, CountsKept
<1>3. ASSUME NEW r \in Requests, SaveCode(r) PROVE KInv'
  <2>1. /\ req[r].p \in Phones /\ req[r].code \in Codes
        /\ user'[req[r].p].otp = [code |-> req[r].code, attempts |-> 0]
        /\ \A q \in Phones : q # req[r].p => user'[q] = user[q]
        /\ crowded' = IF Verifying(req[r].p) THEN crowded \cup {req[r].code} ELSE crowded
        /\ \A s \in Requests : s # r => req'[s] = req[s]
        /\ req'[r].op = "send" /\ tries' = tries
    BY <1>0, <1>3, InPlace DEF SaveCode, At, Goto, ReqState
  <2>2. \A n, c : Backed(n, c) = Backed(n, c)'
    BY <2>1 DEF Backed
  <2>3. AttemptsOK'
    <3>1. Backed(0, req[r].code)
      BY <1>0, <2>1 DEF Backed
    <3> QED BY <2>1, <2>2, <3>1 DEF KInv, AttemptsOK
  <2>4. ASSUME NEW s \in Requests PROVE CountOK(s)'
    <3>1. CASE s = r
      BY <2>1, <3>1 DEF CountOK
    <3>2. CASE s # r /\ req[s].op = "verify" /\ req[s].p = req[r].p
      <4>1. req[r].code \in crowded'
        BY <2>1, <3>2 DEF Verifying
      <4> QED BY <2>1, <2>2, <3>2, <4>1 DEF KInv, CountOK
    <3>3. CASE s # r /\ req[s].op = "verify" /\ req[s].p # req[r].p
      <4>1. req[s].p \in Phones
        BY <1>0, <3>3, InPlace
      <4> QED BY <2>1, <2>2, <3>3, <4>1 DEF KInv, CountOK
    <3>4. CASE s # r /\ req[s].op # "verify"
      BY <2>1, <3>4 DEF CountOK
    <3> QED BY <3>1, <3>2, <3>3, <3>4
  <2> QED BY <2>3, <2>4 DEF KInv
<1>4. ASSUME NEW r \in Requests, SaveMiss(r) PROVE KInv'
  <2>1. /\ req[r].p \in Phones /\ req[r].op = "verify" /\ req[r].at = "miss"
        /\ \A s \in Requests : s # r => req'[s] = req[s]
        /\ req'[r].op = "none" /\ UNCHANGED <<tries, crowded>>
    BY <1>0, <1>4, InPlace DEF SaveMiss, At, Finish, Idle, history
  <2>2. /\ \A q \in Phones : user'[q].otp.code = user[q].otp.code
        /\ user'[req[r].p].otp.attempts = req[r].attempts
        /\ \A q \in Phones : q # req[r].p => user'[q] = user[q]
    <3>1. \A q \in Phones : user[q] \in UserDoc /\ user[q].otp \in Otp
      BY <1>0 DEF UserDoc
    <3> QED BY <1>0, <1>4, <2>1, <3>1 DEF SaveMiss, UserDoc, Otp
  <2>3. \A n, c : Backed(n, c) = Backed(n, c)'
    BY <2>1 DEF Backed
  <2>4. AttemptsOK'
    BY <2>1, <2>2, <2>3 DEF KInv, AttemptsOK, CountOK
  <2>5. ASSUME NEW s \in Requests PROVE CountOK(s)'
    <3>1. CASE s # r /\ req[s].op = "verify"
      <4>1. req[s].p \in Phones
        BY <1>0, <3>1, InPlace
      <4> QED BY <2>1, <2>2, <2>3, <3>1, <4>1 DEF KInv, CountOK
    <3>2. CASE s = r \/ req[s].op # "verify"
      BY <2>1, <3>2 DEF CountOK
    <3> QED BY <3>1, <3>2
  <2> QED BY <2>4, <2>5 DEF KInv
<1>5. ASSUME NEW r \in Requests, SaveAccept(r) PROVE KInv'
  <2>1. /\ req[r].p \in Phones
        /\ user'[req[r].p].otp.code = NoCode
        /\ \A q \in Phones : q # req[r].p => user'[q] = user[q]
        /\ \A s \in Requests : s # r => req'[s] = req[s]
        /\ req'[r].op = "none" /\ UNCHANGED <<tries, crowded>>
    BY <1>0, <1>5, InPlace DEF SaveAccept, At, Finish, Idle, NoOtp
  <2>2. \A n, c : Backed(n, c) = Backed(n, c)'
    BY <2>1 DEF Backed
  <2>3. AttemptsOK'
    BY <2>1, <2>2 DEF KInv, AttemptsOK
  <2>4. ASSUME NEW s \in Requests PROVE CountOK(s)'
    <3>1. CASE s # r /\ req[s].op = "verify"
      <4>1. req[s].p \in Phones
        BY <1>0, <3>1, InPlace
      <4> QED BY <2>1, <2>2, <3>1, <4>1 DEF KInv, CountOK
    <3>2. CASE s = r \/ req[s].op # "verify"
      BY <2>1, <3>2 DEF CountOK
    <3> QED BY <3>1, <3>2
  <2> QED BY <2>3, <2>4 DEF KInv
<1>6. ASSUME NEW r \in Requests, \A p \in Phones : user'[p].otp = user[p].otp,
             UNCHANGED <<tries, crowded>>, \A s \in Requests : s # r => req'[s] = req[s],
             req'[r].op # "verify"
      PROVE  KInv'
  <2>1. CountOK(r)'
    BY <1>6 DEF CountOK
  <2> QED BY <1>0, <1>6, <2>1, CountsKept
<1>8. ASSUME NEW r \in Requests, NEW p \in Phones, NEW op \in {"send", "forgot"}, Draw(r, op, p)
      PROVE  KInv'
  <2>1. req'[r].op # "verify"
    BY <1>0, <1>8 DEF Draw, Idle
  <2> QED BY <1>0, <1>6, <1>8, <2>1 DEF Draw, history
<1>9. ASSUME NEW r \in Requests, SaveReset(r) PROVE KInv'
  <2>1. req'[r].op # "verify"
    BY <1>0, <1>9 DEF SaveReset, At, Goto, ReqState
  <2>2. \A p \in Phones : user'[p].otp = user[p].otp
    BY <1>0, <1>9 DEF SaveReset, UserDoc
  <2> QED BY <1>0, <1>6, <1>9, <2>1, <2>2 DEF SaveReset, Goto, history
<1>10. ASSUME NEW r \in Requests, Sms(r) PROVE KInv'
  <2>1. req[r] \in ReqState /\ req[r].op # "verify"
    BY <1>0, <1>10, InPlace DEF Sms
  <2>2. req'[r].op # "verify" /\ \A s \in Requests : s # r => req'[s] = req[s]
    BY <1>0, <1>10, <2>1 DEF Sms, Goto, Finish, Idle, ReqState
  <2> QED BY <1>0, <1>6, <1>10, <2>2 DEF Sms, history
<1>11. ASSUME NEW r \in Requests, Collide(r) \/ SmsFails(r) \/ Audit(r) \/ Abort(r) PROVE KInv'
  <2>1. Finish(r) /\ UNCHANGED <<user, tries, crowded>>
    BY <1>11 DEF Collide, SmsFails, Audit, Abort, history
  <2>2. req'[r].op # "verify" /\ \A s \in Requests : s # r => req'[s] = req[s]
    BY <1>0, <2>1 DEF Finish, Idle
  <2> QED BY <1>6, <2>1, <2>2
<1>7. CASE Expire \/ UNCHANGED vars
  <2>1. UNCHANGED <<user, tries, crowded, req>>
    BY <1>7 DEF Expire, vars, outside, history
  <2> QED BY <2>1 DEF KInv, AttemptsOK, CountOK, Backed
<1> QED
  BY <1>1, <1>2, <1>3, <1>4, <1>5, <1>7, <1>8, <1>9, <1>10, <1>11
     DEF Next, Arrive, Continue, StartSend, StartForgot

\* What is stored for p stays, in the way that matters here.
Stays(p) == /\ StoredOK(p) => StoredOK(p)'
            /\ user[p].passwordReset # NoCode => user'[p].passwordReset # NoCode
            /\ user[p].isVerified => user'[p].isVerified

\* No step takes it away.
LEMMA DocumentStays == ASSUME TInv, [Next]_vars, NEW p \in Phones PROVE Stays(p)
<1>0. /\ user \in [Phones -> UserDoc] /\ user[p].otp \in Otp /\ user[p] \in UserDoc
      /\ NoCode \notin Codes
  BY DEF TInv, TypeOK, Codes, NoCode, UserDoc
<1>1. ASSUME NEW r \in Requests, SaveCode(r) PROVE Stays(p)
  <2>1. req[r].code # NoCode /\ req[r].p \in Phones
    BY <1>1, InPlace DEF SaveCode, At
  <2>2. CASE p = req[r].p
    BY <1>0, <1>1, <2>1, <2>2 DEF SaveCode, Stays, StoredOK, UserDoc
  <2>3. CASE p # req[r].p
    BY <1>0, <1>1, <2>3 DEF SaveCode, Stays, StoredOK
  <2> QED BY <2>2, <2>3
<1>2. ASSUME NEW r \in Requests, SaveReset(r) PROVE Stays(p)
  <2>1. req[r].code # NoCode
    BY <1>2, InPlace DEF SaveReset, At
  <2> QED BY <1>0, <1>2, <2>1 DEF SaveReset, Stays, StoredOK, UserDoc
<1>3. ASSUME NEW r \in Requests, SaveMiss(r) PROVE Stays(p)
  BY <1>0, <1>3 DEF SaveMiss, Stays, StoredOK, UserDoc, Otp
<1>4. ASSUME NEW r \in Requests, SaveAccept(r) PROVE Stays(p)
  BY <1>0, <1>4 DEF SaveAccept, Stays, StoredOK, UserDoc
<1>5. CASE UNCHANGED user
  BY <1>5 DEF Stays, StoredOK
<1> QED
  BY <1>1, <1>2, <1>3, <1>4, <1>5 DEF Next, Arrive, Continue, StartSend, StartForgot, Draw,
     Collide, Sms, SmsFails, Audit, StartVerify, Confirm, Mismatch, Abort, Expire, vars

\* Every step keeps what is said of the codes that are about to be sent.
LEMMA SmsKept == TInv /\ LatestOK /\ [Next]_vars => \A r \in Requests : SmsOK(r)'
<1> SUFFICES ASSUME TInv, LatestOK, [Next]_vars, NEW s \in Requests, req'[s].at = "sms"
             PROVE  /\ req'[s].op = "send" => StoredOK(req[s].p)'
                    /\ req'[s].op = "forgot" => user'[req'[s].p].passwordReset # NoCode
  BY DEF SmsOK, StoredOK
<1>0. /\ req \in [Requests -> ReqState] /\ user \in [Phones -> UserDoc] /\ NoCode \notin Codes
      /\ req[s] \in ReqState /\ req[s].at = "sms" => req[s].p \in Phones
  BY InPlace DEF TInv, TypeOK, Codes, NoCode
<1>1. CASE req'[s] = req[s]
  <2>1. Stays(req[s].p) /\ SmsOK(s)
    BY <1>0, <1>1, DocumentStays DEF LatestOK
  <2> QED BY <1>1, <2>1 DEF SmsOK, Stays, StoredOK
<1>2. CASE SaveCode(s)
  <2>1. req[s].code # NoCode /\ req[s].p \in Phones
    BY <1>2, InPlace DEF SaveCode, At
  <2> QED BY <1>0, <1>2, <2>1 DEF SaveCode, At, Goto, ReqState, StoredOK, UserDoc
<1>3. CASE SaveReset(s)
  <2>1. req[s].code # NoCode /\ req[s].p \in Phones
    BY <1>3, InPlace DEF SaveReset, At
  <2> QED BY <1>0, <1>3, <2>1 DEF SaveReset, At, Goto, ReqState, UserDoc
<1>4. CASE req'[s] # req[s] /\ ~SaveCode(s) /\ ~SaveReset(s)
  <2>1. \A r \in Requests : SaveCode(r) \/ SaveReset(r) => r = s
    BY <1>0, <1>4 DEF SaveCode, SaveReset, Goto
  <2>2. ASSUME NEW r \in Requests, NEW a, Goto(r, a), a # "sms" PROVE req'[s].at # "sms"
    BY <1>0, <1>4, <2>2 DEF Goto, ReqState
  <2>3. ASSUME NEW r \in Requests, Finish(r) PROVE req'[s].at # "sms"
    BY <1>0, <1>4, <2>3 DEF Finish, Idle
  <2>4. ASSUME NEW r \in Requests, Confirm(r) \/ Mismatch(r) \/ Sms(r) PROVE req'[s].at # "sms"
    BY <2>2, <2>3, <2>4 DEF Confirm, Mismatch, Sms
  <2>5. ASSUME NEW r \in Requests, NEW p \in Phones, NEW op \in {"send", "forgot"}, Draw(r, op, p)
        PROVE  req'[s].at # "sms"
    BY <1>0, <1>4, <2>5 DEF Draw, Idle
  <2>6. ASSUME NEW r \in Requests, NEW p \in Phones, NEW typed \in received[p] \cup {NoCode},
               StartVerify(r, p, typed)
        PROVE  req'[s].at # "sms"
    BY <1>0, <1>4, <2>6 DEF StartVerify
  <2>7. ASSUME NEW r \in Requests,
               \/ Collide(r) \/ SmsFails(r) \/ Audit(r) \/ SaveMiss(r) \/ SaveAccept(r) \/ Abort(r)
        PROVE  req'[s].at # "sms"
    BY <2>3, <2>7 DEF Collide, SmsFails, Audit, SaveMiss, SaveAccept, Abort
  <2>8. ~Expire /\ ~UNCHANGED vars
    BY <1>4 DEF Expire, vars
  <2> QED
    BY <1>4, <2>1, <2>4, <2>5, <2>6, <2>7, <2>8 DEF Next, Arrive, Continue, StartSend, StartForgot
<1> QED BY <1>1, <1>2, <1>3, <1>4

\* Every step keeps the latest code confirmable.
LEMMA LatestKept == TInv /\ LatestOK /\ [Next]_vars => LatestOK'
<1> SUFFICES ASSUME TInv, LatestOK, [Next]_vars, NEW p \in Phones, latest'[p] # NoCode
             PROVE  StoredOK(p)' /\ Confirmable(p)'
  BY SmsKept DEF LatestOK
<1>0. /\ req \in [Requests -> ReqState] /\ user \in [Phones -> UserDoc] /\ NoCode \notin Codes
      /\ provider \in [Phones -> Codes \cup {NoCode}] /\ latest \in [Phones -> Codes \cup {NoCode}]
      /\ aborts \in Nat /\ Stays(p)
  BY DocumentStays, BoundAssumption DEF TInv, TypeOK, Codes, NoCode
<1>1. ASSUME NEW r \in Requests, Sms(r) PROVE StoredOK(p)' /\ Confirmable(p)'
  <2>1. SmsOK(r) /\ req[r].at = "sms" /\ req[r].op \in {"send", "forgot"} /\ req[r].p \in Phones
    BY <1>1, InPlace DEF LatestOK, Sms
  <2>2. CASE p = req[r].p
    <3>1. user' = user /\ aborts' = aborts /\ provider'[p] = req[r].code
      BY <1>0, <1>1, <2>2 DEF Sms
    <3>2. CASE req[r].op = "send"
      BY <1>0, <1>1, <2>1, <2>2, <3>1, <3>2 DEF Sms, SmsOK, StoredOK, Confirmable
    <3>3. CASE req[r].op = "forgot"
      <4>1. StoredOK(p)
        BY <1>0, <1>1, <2>1, <2>2, <3>3 DEF Sms, LatestOK
      <4> QED BY <2>1, <2>2, <3>1, <3>3, <4>1 DEF SmsOK, StoredOK, Confirmable
    <3> QED BY <2>1, <3>2, <3>3
  <2>3. CASE p # req[r].p
    <3>1. UNCHANGED <<user, aborts>> /\ provider'[p] = provider[p] /\ latest'[p] = latest[p]
          /\ \A s \in Requests : s # r => req'[s] = req[s]
      BY <1>0, <1>1, <2>3 DEF Sms, Goto, Finish
    <3>2. StoredOK(p) /\ Confirmable(p)
      BY <3>1 DEF LatestOK
    <3> QED BY <2>1, <3>1, <3>2 DEF StoredOK, Confirmable, At
  <2> QED BY <2>2, <2>3
<1>2. CASE UNCHANGED <<latest, provider, aborts>>
           /\ \A s \in Requests : At(s, "verify", "accept") => req'[s] = req[s]
  <2>1. StoredOK(p) /\ Confirmable(p)
    BY <1>2 DEF LatestOK
  <2> QED BY <1>0, <1>2, <2>1 DEF Stays, Confirmable, At
<1>3. ASSUME NEW r \in Requests, Confirm(r) PROVE StoredOK(p)' /\ Confirmable(p)'
  <2>1. /\ UNCHANGED <<latest, aborts, user>> /\ req[r].op = "verify" /\ req[r].at = "ask"
        /\ req'[r] = [req[r] EXCEPT !.at = "accept"]
        /\ \A s \in Requests : s # r => req'[s] = req[s]
        /\ provider'[p] = provider[p] \/ p = req[r].p
    BY <1>0, <1>3 DEF Confirm, At, Goto
  <2>2. StoredOK(p) /\ Confirmable(p)
    BY <2>1 DEF LatestOK
  <2>3. At(r, "verify", "accept")' /\ req'[r].p = req[r].p
    <3>1. req[r] \in ReqState
      BY <1>0
    <3> QED BY <2>1, <3>1 DEF At, ReqState
  <2> QED BY <1>0, <2>1, <2>2, <2>3 DEF Stays, Confirmable, At
<1>4. ASSUME NEW r \in Requests, SaveAccept(r) PROVE StoredOK(p)' /\ Confirmable(p)'
  <2>1. /\ UNCHANGED <<latest, aborts, provider>>
        /\ \A s \in Requests : s # r => req'[s] = req[s]
    BY <1>0, <1>4 DEF SaveAccept, Finish, outside
  <2>2. StoredOK(p) /\ Confirmable(p)
    BY <2>1 DEF LatestOK
  <2>3. CASE p = req[r].p
    <3>1. user'[p].isVerified
      BY <1>0, <1>4, <2>3 DEF SaveAccept, UserDoc
    <3> QED BY <3>1 DEF StoredOK, Confirmable
  <2>4. CASE p # req[r].p
    BY <1>0, <2>1, <2>2, <2>4 DEF Stays, Confirmable, At
  <2> QED BY <2>3, <2>4
<1>5. ASSUME NEW r \in Requests, Abort(r) PROVE StoredOK(p)' /\ Confirmable(p)'
  <2>1. latest' = latest /\ aborts' # 0
    BY <1>0, <1>5 DEF Abort, outside
  <2>2. StoredOK(p)
    BY <2>1 DEF LatestOK
  <2> QED BY <1>0, <2>1, <2>2 DEF Stays, Confirmable
<1>6. CASE \/ Expire \/ UNCHANGED vars
           \/ \E r \in Requests :
                \/ \E op \in {"send", "forgot"}, q \in Phones : Draw(r, op, q)
                \/ \E q \in Phones : \E typed \in received[q] \cup {NoCode} : StartVerify(r, q, typed)
                \/ SaveCode(r) \/ SaveReset(r) \/ Collide(r) \/ SmsFails(r) \/ Audit(r)
                \/ Mismatch(r) \/ SaveMiss(r)
  <2>1. UNCHANGED <<latest, provider, aborts>>
    BY <1>6 DEF Expire, vars, Draw, StartVerify, SaveCode, SaveReset, Collide, SmsFails, Audit,
       Mismatch, SaveMiss, outside
  <2>2. \A s \in Requests : At(s, "verify", "accept") => req'[s] = req[s]
    BY <1>0, <1>6, InPlace DEF Expire, vars, Draw, StartVerify, SaveCode, SaveReset, Collide,
       SmsFails, Audit, Mismatch, SaveMiss, At, Goto, Finish
  <2> QED BY <1>2, <2>1, <2>2
<1> QED
  BY <1>1, <1>3, <1>4, <1>5, <1>6 DEF Next, Arrive, Continue, StartSend, StartForgot

-----------------------------------------------------------------------------
(* The theorems.                                                           *)

\* The inductive invariant holds in every state.
THEOREM Invariance == Spec => []IInv
<1>1. Init => IInv
  <2> SUFFICES ASSUME Init PROVE IInv
    OBVIOUS
  <2> USE DEF Init
  <2>1. TInv
    BY IdleType, BoundAssumption DEF TInv, TypeOK, RequestsOK, RequestOK, Idle, Codes, NoCode
  <2>2. \A c \in Codes : c # NoCode
    BY BoundAssumption DEF Codes, NoCode
  <2>3. UInv
    BY <2>2 DEF UInv, CodesApart, Has, UsedOK, SendingOK, Sending, VerifyOK, Idle, NoUser, NoOtp
  <2>4. KInv
    BY DEF KInv, AttemptsOK, CountOK, Idle, NoUser, NoOtp
  <2>5. LatestOK
    BY DEF LatestOK, SmsOK, Idle
  <2> QED BY <2>1, <2>3, <2>4, <2>5 DEF IInv
<1>2. IInv /\ [Next]_vars => IInv'
  BY TypeKept, CodesKept, AttemptsKept, LatestKept DEF IInv
<1> QED BY <1>1, <1>2, PTL DEF Spec

\* Every variable keeps its type.
THEOREM TypeCorrect == Spec => []TypeOK
<1>1. IInv => TypeOK
  BY DEF IInv, TInv
<1> QED BY Invariance, <1>1, PTL

\* A code works once: an acceptance of a code that had been accepted before the
\* request began does not happen, whether it is MSG91 or the document that
\* remembers the code.
THEOREM CodesWorkOnce == Spec => AcceptedOnce
<1>1. IInv /\ [Next]_vars =>
        [\A r \in Requests : req[r].at = "accept" /\ used' # used => ~req[r].spent]_vars
  <2> SUFFICES ASSUME IInv, NEW r \in Requests, req[r].at = "accept" PROVE ~req[r].spent
    OBVIOUS
  <2>1. req[r].op = "verify" /\ VerifyOK(r)
    BY InPlace DEF IInv, UInv
  <2> QED BY <2>1 DEF VerifyOK
<1> QED BY Invariance, <1>1, PTL DEF Spec, AcceptedOnce

\* A code that refuses further tries has been tried MaxTries times.
THEOREM LockedOnlyByTries == Spec => []LockedOutByTries
<1>1. IInv => LockedOutByTries
  <2> SUFFICES ASSUME IInv, NEW p \in Phones, user[p].otp.code # NoCode,
                      user[p].otp.code \notin crowded, user[p].otp.attempts >= MaxTries
               PROVE  tries[user[p].otp.code] >= MaxTries
    BY DEF LockedOutByTries
  <2>1. Backed(user[p].otp.attempts, user[p].otp.code)
    BY DEF IInv, KInv, AttemptsOK
  <2>2. user[p].otp \in Otp /\ tries \in [Codes -> Nat]
    BY DEF IInv, TInv, TypeOK, UserDoc
  <2>3. user[p].otp.attempts \in Nat /\ tries[user[p].otp.code] \in Nat
    BY <2>2 DEF Otp
  <2> QED BY <2>1, <2>3, BoundAssumption DEF Backed
<1> QED BY Invariance, <1>1, PTL

\* The last code that reached a telephone works, whatever order the saves and
\* the messages came in.
THEOREM LatestCodes == Spec => []LatestCodeWorks
<1>1. IInv => LatestCodeWorks
  <2> SUFFICES ASSUME IInv, NEW p \in Phones, aborts = 0, Quiet(p), latest[p] # NoCode,
                      ~user[p].isVerified
               PROVE  /\ user[p].otp.code # NoCode
                      /\ provider[p] = latest[p] \/ user[p].passwordReset # NoCode
    BY DEF LatestCodeWorks
  <2>1. StoredOK(p) /\ Confirmable(p)
    BY DEF IInv, LatestOK
  <2> QED BY <2>1 DEF StoredOK, Confirmable, Quiet
<1> QED BY Invariance, <1>1, PTL

-----------------------------------------------------------------------------
(* How often a code can be tried.  First the numbers: induction and        *)
(* recursion for what is said of the members of a set, the binomial        *)
(* coefficients of choose, and sums.                                       *)

\* A set of natural numbers has a least element.
LEMMA Least ==
    ASSUME NEW T \in SUBSET Nat, T # {}
    PROVE  \E x \in T : \A y \in T : x <= y
<1> DEFINE R == OpToRel(<, Nat)
<1>1. IsWellFoundedOn(R, Nat)
  BY NatLessThanWellFounded
<1>2. R = {ss \in Nat \X Nat : ss[1] < ss[2]}
  BY Zenon DEF OpToRel
<1> HIDE DEF R
<1>3. PICK x \in T : \A y \in T : ~(<<y, x>> \in R)
  BY <1>1, WFMin
<1>4. ASSUME NEW y \in T, y < x PROVE <<y, x>> \in R
  <2>1. <<y, x>> \in Nat \X Nat /\ <<y, x>>[1] < <<y, x>>[2]
    BY <1>4
  <2> QED BY <1>2, <2>1
<1>5. ASSUME NEW y \in T PROVE x <= y
  <2>1. x \in Nat /\ y \in Nat /\ ~(y < x)
    BY <1>3, <1>4
  <2> QED BY <2>1
<1> QED BY <1>5

\* Induction, for what is said of the members of a set.
LEMMA SetInduction ==
    ASSUME NEW S \in SUBSET Nat, 0 \in S, \A n \in S : n + 1 \in S
    PROVE  \A n \in Nat : n \in S
<1> SUFFICES ASSUME Nat \ S # {} PROVE FALSE
  OBVIOUS
<1>1. PICK x \in Nat \ S : \A y \in Nat \ S : x <= y
  BY Least
<1>2. x - 1 \in Nat /\ x - 1 \notin S /\ (x - 1) + 1 = x
  BY <1>1
<1> QED BY <1>1, <1>2

\* h follows g from b, up to N.
Follows(h, g, b, N) ==
    /\ h \in [0..N -> Nat]
    /\ h[0] = b
    /\ \A k \in Nat : k < N => h[k+1] = g[<<k, h[k]>>]

\* What is started and continued for each number exists for all of them: the
\* sequences and the functions by recursion that are used below.
LEMMA Recursion ==
    ASSUME NEW g \in [Nat \X Nat -> Nat], NEW b \in Nat
    PROVE  \E s \in [Nat -> Nat] : s[0] = b /\ \A k \in Nat : s[k+1] = g[<<k, s[k]>>]
<1> DEFINE S == {N \in Nat : \E h \in [0..N -> Nat] : Follows(h, g, b, N)}
<1>1. 0 \in S
  <2>1. [i \in 0..0 |-> b] \in [0..0 -> Nat] /\ [i \in 0..0 |-> b][0] = b
    OBVIOUS
  <2>2. Follows([i \in 0..0 |-> b], g, b, 0)
    BY <2>1 DEF Follows
  <2> QED BY <2>1, <2>2
<1>2. ASSUME NEW N \in S PROVE N + 1 \in S
  <2>1. PICK h \in [0..N -> Nat] : Follows(h, g, b, N)
    OBVIOUS
  <2> DEFINE e == [i \in 0..(N+1) |-> IF i = N + 1 THEN g[<<N, h[N]>>] ELSE h[i]]
  <2>2. h[N] \in Nat /\ <<N, h[N]>> \in Nat \X Nat
    OBVIOUS
  <2>3. g[<<N, h[N]>>] \in Nat
    BY <2>2
  <2>4. e \in [0..(N+1) -> Nat] /\ e[0] = b
    BY <2>1, <2>3 DEF Follows
  <2>5. ASSUME NEW k \in Nat, k < N + 1 PROVE e[k+1] = g[<<k, e[k]>>]
    <3>1. CASE k = N
      <4>1. e[N+1] = g[<<N, h[N]>>] /\ e[N] = h[N]
        OBVIOUS
      <4> QED BY <3>1, <4>1
    <3>2. CASE k < N
      BY <2>1, <3>2 DEF Follows
    <3> QED BY <2>5, <3>1, <3>2
  <2>6. Follows(e, g, b, N + 1)
    BY <2>4, <2>5 DEF Follows
  <2>7. N \in Nat /\ N + 1 \in Nat
    OBVIOUS
  <2> HIDE DEF e
  <2> QED BY <2>4, <2>6, <2>7
<1>3. \A N \in Nat : N \in S
  <2> HIDE DEF S
  <2>1. S \in SUBSET Nat
    BY DEF S
  <2> QED BY <1>1, <1>2, <2>1, SetInduction
<1> DEFINE hh == [N \in Nat |-> CHOOSE h \in [0..N -> Nat] : Follows(h, g, b, N)]
           s  == [N \in Nat |-> hh[N][N]]
<1>4. ASSUME NEW N \in Nat PROVE Follows(hh[N], g, b, N)
  BY <1>3
<1> HIDE DEF hh
<1>5. ASSUME NEW N \in Nat PROVE hh[N+1][N] = hh[N][N]
  <2>1. Follows(hh[N], g, b, N) /\ Follows(hh[N+1], g, b, N+1)
    BY <1>4
  <2> DEFINE T == {k \in Nat : k <= N => hh[N+1][k] = hh[N][k]}
  <2>2. 0 \in T
    BY <2>1 DEF Follows
  <2>3. ASSUME NEW k \in T PROVE k + 1 \in T
    <3> SUFFICES ASSUME k + 1 <= N PROVE hh[N+1][k+1] = hh[N][k+1]
      OBVIOUS
    <3>1. k < N /\ k < N + 1 /\ k \in Nat /\ hh[N+1][k] = hh[N][k]
      OBVIOUS
    <3> QED BY <2>1, <3>1 DEF Follows
  <2>4. \A k \in Nat : k \in T
    <3> HIDE DEF T
    <3>1. T \in SUBSET Nat
      BY DEF T
    <3> QED BY <2>2, <2>3, <3>1, SetInduction
  <2> QED BY <2>4
<1>6. s \in [Nat -> Nat] /\ s[0] = b
  BY <1>4 DEF Follows
<1>7. ASSUME NEW k \in Nat PROVE s[k+1] = g[<<k, s[k]>>]
  <2>1. Follows(hh[k+1], g, b, k+1) /\ k < k + 1
    BY <1>4
  <2>2. hh[k+1][k+1] = g[<<k, hh[k+1][k]>>]
    BY <2>1 DEF Follows
  <2> QED BY <1>5, <2>2
<1> QED BY <1>6, <1>7

\* The factorial of the community modules is the function its definition says.
LEMMA FactorialDef ==
    /\ factorial \in [Nat -> Nat]
    /\ factorial[0] = 1
    /\ \A n \in Nat : factorial[n+1] = (n+1) * factorial[n]
<1> DEFINE g == [z \in Nat \X Nat |-> (z[1] + 1) * z[2]]
<1>1. g \in [Nat \X Nat -> Nat]
  OBVIOUS
<1>2. PICK s \in [Nat -> Nat] : s[0] = 1 /\ \A k \in Nat : s[k+1] = g[<<k, s[k]>>]
  <2> HIDE DEF g
  <2>1. 1 \in Nat
    OBVIOUS
  <2> QED BY <1>1, <2>1, Recursion, Zenon
<1>3. ASSUME NEW k \in Nat PROVE s[k+1] = (k+1) * s[k]
  BY <1>2
<1>4. s = [n \in Nat |-> IF n = 0 THEN 1 ELSE n * s[n-1]]
  <2>1. ASSUME NEW n \in Nat, n # 0 PROVE s[n] = n * s[n-1]
    <3>1. n - 1 \in Nat /\ (n - 1) + 1 = n
      BY <2>1
    <3> QED BY <1>3, <3>1
  <2> QED BY <1>2, <2>1
<1>5. factorial = [n \in Nat |-> IF n = 0 THEN 1 ELSE n * factorial[n-1]]
  <2> DEFINE P(f) == f = [n \in Nat |-> IF n = 0 THEN 1 ELSE n * f[n-1]]
  <2>1. P(s)
    BY <1>4
  <2>2. factorial = CHOOSE f : P(f)
    BY Zenon DEF factorial
  <2> HIDE DEF P
  <2>3. P(factorial)
    BY <2>1, <2>2, Zenon
  <2> QED BY <2>3 DEF P
<1> DEFINE T == {n \in Nat : factorial[n] \in Nat}
<1>6. ASSUME NEW n \in Nat PROVE factorial[n+1] = (n+1) * factorial[n]
  <2>1. n + 1 \in Nat /\ n + 1 # 0 /\ (n + 1) - 1 = n
    OBVIOUS
  <2> QED BY <1>5, <2>1
<1>7. factorial[0] = 1
  BY <1>5
<1>8. \A n \in Nat : n \in T
  <2>1. 0 \in T
    BY <1>7
  <2>2. ASSUME NEW n \in T PROVE n + 1 \in T
    BY <1>6
  <2>3. T \in SUBSET Nat
    OBVIOUS
  <2> HIDE DEF T
  <2> QED BY <2>1, <2>2, <2>3, SetInduction
<1>9. \A n \in Nat : factorial[n] \in Nat
  BY <1>8
<1>10. factorial \in [Nat -> Nat]
  <2> DEFINE e == [n \in Nat |-> IF n = 0 THEN 1 ELSE n * factorial[n-1]]
  <2>1. factorial = e /\ DOMAIN e = Nat
    BY <1>5
  <2>2. factorial = [n \in DOMAIN factorial |-> factorial[n]]
    BY <1>5, Zenon
  <2> QED BY <1>9, <2>1, <2>2
<1> QED BY <1>6, <1>7, <1>10

\* Exact division.
LEMMA Exact == ASSUME NEW q \in Nat, NEW d \in Nat, d > 0 PROVE (q * d) \div d = q
  OBVIOUS

\* The factorials divide each other as the binomial coefficients want it, and
\* these add up to the next ones.
Parts(n, k) == factorial[k] * factorial[n-k]

\* Factorials, and their products, can be divided by.
LEMMA FactorialsPositive == \A n \in Nat : factorial[n] \in Nat /\ factorial[n] > 0
<1> DEFINE P == {n \in Nat : factorial[n] > 0}
<1>1. 0 \in P
  BY FactorialDef
<1>2. ASSUME NEW n \in P PROVE n + 1 \in P
  <2>1. n + 1 > 0 /\ factorial[n] > 0 /\ factorial[n] \in Nat
        /\ factorial[n+1] = (n+1) * factorial[n]
    BY FactorialDef
  <2> QED BY <2>1
<1>3. P \in SUBSET Nat
  OBVIOUS
<1>4. \A n \in Nat : n \in P
  <2> HIDE DEF P
  <2> QED BY <1>1, <1>2, <1>3, SetInduction
<1> QED BY <1>4, FactorialDef

\* So can what a binomial coefficient is divided by.
LEMMA PartsPositive ==
    ASSUME NEW n \in Nat, NEW k \in 0..n
    PROVE  Parts(n, k) \in Nat /\ Parts(n, k) > 0
<1>1. k \in Nat /\ n - k \in Nat
  OBVIOUS
<1>2. factorial[k] \in Nat /\ factorial[k] > 0 /\ factorial[n-k] \in Nat /\ factorial[n-k] > 0
  BY FactorialsPositive, <1>1
<1> QED BY <1>2 DEF Parts

\* If n! is divided without remainder for k - 1 and for k, then (n+1)! is for k,
\* and the quotients add up.
LEMMA PartsAdd ==
    ASSUME NEW n \in Nat, NEW k \in 1..n, NEW q1 \in Nat, NEW q2 \in Nat,
           factorial[n] = q1 * Parts(n, k-1), factorial[n] = q2 * Parts(n, k)
    PROVE  factorial[n+1] = (q1 + q2) * Parts(n+1, k)
<1> DEFINE a == factorial[k-1]
           b == factorial[n-k]
           m == n - k + 1
<1>1. a \in Nat /\ b \in Nat /\ m \in Nat /\ k \in Nat /\ n \in Nat
  <2>1. k - 1 \in Nat /\ n - k \in Nat /\ m \in Nat /\ k \in Nat
    OBVIOUS
  <2> QED BY <2>1, FactorialsPositive
<1>2. factorial[k] = k * a
  <2>1. k - 1 \in Nat /\ (k - 1) + 1 = k
    OBVIOUS
  <2> QED BY <2>1, FactorialDef
<1>3. factorial[n-(k-1)] = m * b /\ factorial[(n+1)-k] = m * b
  <2>1. n - k \in Nat /\ n - (k - 1) = (n - k) + 1 /\ (n + 1) - k = (n - k) + 1
    OBVIOUS
  <2> QED BY <2>1, FactorialDef
<1>4. factorial[n] = q1 * (a * (m * b)) /\ factorial[n] = q2 * ((k * a) * b)
  BY <1>2, <1>3 DEF Parts
<1>5. factorial[n+1] = (k + m) * factorial[n]
  BY FactorialDef
<1>6. factorial[n+1] = (q1 + q2) * ((k * a) * (m * b))
  <2> HIDE DEF a, b, m
  <2>1. k * (q1 * (a * (m * b))) = q1 * ((k * a) * (m * b))
    BY <1>1
  <2>2. m * (q2 * ((k * a) * b)) = q2 * ((k * a) * (m * b))
    BY <1>1
  <2>3. factorial[n] \in Nat
    BY FactorialDef
  <2>4. (k + m) * factorial[n] = k * factorial[n] + m * factorial[n]
    BY <1>1, <2>3
  <2> DEFINE z == (k * a) * (m * b)
  <2>5. (q1 + q2) * z = q1 * z + q2 * z
    BY <1>1
  <2> QED BY <1>4, <1>5, <2>1, <2>2, <2>4, <2>5
<1>7. Parts(n+1, k) = (k * a) * (m * b)
  BY <1>2, <1>3 DEF Parts
<1> HIDE DEF a, b, m
<1> QED BY <1>6, <1>7

\* choose divides without remainder.
LEMMA FactorialsDivide ==
    \A n \in Nat : \A k \in 0..n : choose(n, k) \in Nat /\ factorial[n] = choose(n, k) * Parts(n, k)
<1>1. ASSUME NEW n \in Nat, NEW k \in 0..n, NEW q \in Nat, factorial[n] = q * Parts(n, k)
      PROVE  choose(n, k) = q
  <2>1. choose(n, k) = (q * Parts(n, k)) \div Parts(n, k)
    BY <1>1 DEF choose, Parts
  <2> QED BY <2>1, PartsPositive, Exact
<1> DEFINE T == {n \in Nat : \A k \in 0..n : \E q \in Nat : factorial[n] = q * Parts(n, k)}
<1>2. 0 \in T
  <2>1. factorial[0] = 1 * Parts(0, 0)
    BY FactorialDef DEF Parts
  <2> QED BY <2>1
<1>3. ASSUME NEW n \in T PROVE n + 1 \in T
  <2> SUFFICES ASSUME NEW k \in 0..(n+1) PROVE \E q \in Nat : factorial[n+1] = q * Parts(n+1, k)
    OBVIOUS
  <2>1. CASE k = 0 \/ k = n + 1
    <3>1. factorial[n+1] \in Nat /\ factorial[0] = 1
      BY FactorialDef
    <3>2. n + 1 - 0 = n + 1 /\ n + 1 - (n + 1) = 0
      OBVIOUS
    <3>3. factorial[n+1] = 1 * Parts(n+1, k)
      BY <2>1, <3>1, <3>2 DEF Parts
    <3> QED BY <3>3
  <2>2. CASE k \in 1..n
    <3>1. k \in 0..n /\ k - 1 \in 0..n
      BY <2>2
    <3>2. PICK q1 \in Nat : factorial[n] = q1 * Parts(n, k-1)
      BY <3>1
    <3>3. PICK q2 \in Nat : factorial[n] = q2 * Parts(n, k)
      BY <3>1
    <3>4. factorial[n+1] = (q1 + q2) * Parts(n+1, k) /\ q1 + q2 \in Nat
      BY <2>2, <3>2, <3>3, PartsAdd
    <3> QED BY <3>4
  <2> QED BY <2>1, <2>2
<1>4. \A n \in Nat : n \in T
  <2>1. T \in SUBSET Nat
    OBVIOUS
  <2> HIDE DEF T
  <2> QED BY <1>2, <1>3, <2>1, SetInduction
<1> QED BY <1>1, <1>4

\* Pascal's rule.
LEMMA Pascal ==
    /\ \A n \in Nat : choose(n, 0) = 1 /\ choose(n, n) = 1
    /\ \A n, k \in Nat : k <= n => choose(n, k) \in Nat
    /\ \A n, k \in Nat : 1 <= k /\ k <= n => choose(n+1, k) = choose(n, k-1) + choose(n, k)
<1>1. ASSUME NEW n \in Nat PROVE choose(n, 0) = 1 /\ choose(n, n) = 1
  <2>1. factorial[n] = choose(n, 0) * Parts(n, 0) /\ factorial[n] = choose(n, n) * Parts(n, n)
        /\ choose(n, 0) \in Nat /\ choose(n, n) \in Nat
    BY FactorialsDivide
  <2>2. Parts(n, 0) = factorial[n] /\ Parts(n, n) = factorial[n]
    <3>1. n - 0 = n /\ n - n = 0
      OBVIOUS
    <3>2. factorial[n] \in Nat /\ factorial[0] = 1
      BY FactorialDef
    <3>3. factorial[0] * factorial[n] = factorial[n] /\ factorial[n] * factorial[0] = factorial[n]
      BY <3>2
    <3> QED BY <3>1, <3>3 DEF Parts
  <2>3. factorial[n] \in Nat /\ factorial[n] > 0
    BY FactorialsPositive
  <2>4. \A c, f \in Nat : f > 0 /\ f = c * f => c = 1
    <3> SUFFICES ASSUME NEW c \in Nat, NEW f \in Nat, f > 0, f = c * f PROVE c = 1
      OBVIOUS
    <3>1. (c * f) \div f = c /\ (1 * f) \div f = 1
      BY Exact
    <3> QED BY <3>1
  <2> QED BY <2>1, <2>2, <2>3, <2>4
<1>2. ASSUME NEW n \in Nat, NEW k \in Nat, 1 <= k, k <= n
      PROVE  choose(n+1, k) = choose(n, k-1) + choose(n, k)
  <2>1. k \in 0..n /\ k - 1 \in 0..n /\ k \in 1..n /\ k \in 0..(n+1) /\ n + 1 \in Nat
    BY <1>2
  <2>2. /\ choose(n, k-1) \in Nat /\ factorial[n] = choose(n, k-1) * Parts(n, k-1)
        /\ choose(n, k) \in Nat /\ factorial[n] = choose(n, k) * Parts(n, k)
        /\ choose(n+1, k) \in Nat /\ factorial[n+1] = choose(n+1, k) * Parts(n+1, k)
    BY <2>1, FactorialsDivide
  <2> DEFINE c == choose(n+1, k)
             d == choose(n, k-1) + choose(n, k)
             z == Parts(n+1, k)
  <2>3. c * z = d * z /\ c \in Nat /\ d \in Nat
    BY <2>1, <2>2, PartsAdd
  <2>4. z \in Nat /\ z > 0
    BY <2>1, PartsPositive
  <2> HIDE DEF c, d, z
  <2>5. (c * z) \div z = c /\ (d * z) \div z = d
    BY <2>3, <2>4, Exact
  <2>6. c = d
    BY <2>3, <2>5
  <2> QED BY <2>6 DEF c, d
<1>3. ASSUME NEW n \in Nat, NEW k \in Nat, k <= n PROVE choose(n, k) \in Nat
  BY <1>3, FactorialsDivide
<1> QED BY <1>1, <1>2, <1>3

\* The multisets of less than N members of 0..m+1: what N requests can leave
\* behind with m levels above theirs.
B(N, m) == IF N = 0 THEN 0 ELSE choose(m + N, N - 1)

\* B is a binomial coefficient, and follows Pascal's rule.
LEMMA BRules ==
    /\ \A N, m \in Nat : B(N, m) \in Nat
    /\ \A m \in Nat : B(0, m) = 0
    /\ \A N \in Nat : B(N, 0) = N
    /\ \A N, m \in Nat : B(N+1, m+1) = B(N+1, m) + B(N, m+1)
    /\ \A m \in Nat : B(1, m) = 1
<1>1. ASSUME NEW N \in Nat, NEW m \in Nat PROVE B(N, m) \in Nat
  <2>1. CASE N = 0
    BY <2>1 DEF B
  <2>2. CASE N # 0
    <3>1. N - 1 \in Nat /\ m + N \in Nat /\ N - 1 <= m + N
      BY <2>2
    <3> QED BY <2>2, <3>1, Pascal DEF B
  <2> QED BY <2>1, <2>2
<1>2. ASSUME NEW m \in Nat PROVE B(0, m) = 0
  BY DEF B
<1>3. ASSUME NEW m \in Nat PROVE B(1, m) = 1
  <2>1. B(1, m) = choose(m + 1, 0)
    BY DEF B
  <2> QED BY <2>1, Pascal
<1>4. ASSUME NEW N \in Nat, NEW m \in Nat PROVE B(N+1, m+1) = B(N+1, m) + B(N, m+1)
  <2>1. CASE N = 0
    BY <1>2, <1>3, <2>1
  <2>2. CASE N # 0
    <3> DEFINE k == m + N + 1
    <3>1. /\ k \in Nat /\ 1 <= N /\ N <= k /\ N + 1 # 0 /\ (N + 1) - 1 = N
          /\ (m + 1) + (N + 1) = k + 1 /\ m + (N + 1) = k /\ (m + 1) + N = k
      BY <2>2
    <3>2. B(N+1, m+1) = choose(k+1, N) /\ B(N+1, m) = choose(k, N) /\ B(N, m+1) = choose(k, N-1)
      BY <2>2, <3>1 DEF B
    <3>3. choose(k+1, N) = choose(k, N-1) + choose(k, N)
          /\ choose(k, N-1) \in Nat /\ choose(k, N) \in Nat
      <4> HIDE DEF k
      <4>1. N - 1 \in Nat /\ N - 1 <= k
        BY <3>1
      <4> QED BY <3>1, <4>1, Pascal
    <3> HIDE DEF k
    <3> QED BY <3>2, <3>3
  <2> QED BY <2>1, <2>2
<1>5. ASSUME NEW N \in Nat PROVE B(N, 0) = N
  <2> DEFINE T == {i \in Nat : B(i+1, 0) = i + 1}
  <2>1. 0 \in T
    BY <1>3
  <2>2. ASSUME NEW i \in T PROVE i + 1 \in T
    <3>1. /\ (i + 1) + 1 # 0 /\ ((i + 1) + 1) - 1 = i + 1 /\ 0 + ((i + 1) + 1) = (i + 1) + 1
          /\ i + 1 # 0 /\ (i + 1) - 1 = i /\ 0 + (i + 1) = i + 1 /\ i \in Nat /\ i + 1 \in Nat
          /\ 1 <= i + 1 /\ i + 1 <= i + 1
      OBVIOUS
    <3>2. B((i+1)+1, 0) = choose((i+1)+1, i+1) /\ B(i+1, 0) = choose(i+1, i)
      BY <3>1 DEF B
    <3>3. choose((i+1)+1, i+1) = choose(i+1, i) + choose(i+1, i+1) /\ choose(i+1, i+1) = 1
      BY <3>1, Pascal
    <3> QED BY <3>2, <3>3
  <2>3. T \in SUBSET Nat
    OBVIOUS
  <2>4. \A i \in Nat : i \in T
    <3> HIDE DEF T
    <3> QED BY <2>1, <2>2, <2>3, SetInduction
  <2>5. CASE N = 0
    BY <1>2, <2>5
  <2>6. CASE N # 0
    <3>1. N - 1 \in Nat /\ (N - 1) + 1 = N
      BY <2>6
    <3>2. N - 1 \in T
      <4> HIDE DEF T
      <4> QED BY <2>4, <3>1
    <3> QED BY <3>1, <3>2
  <2> QED BY <2>5, <2>6
<1> QED BY <1>1, <1>2, <1>3, <1>4, <1>5

\* B grows in both arguments, and is as large as its first one.
LEMMA BGrows ==
    /\ \A N, m \in Nat : B(N, m) <= B(N+1, m) /\ B(N, m) <= B(N, m+1)
    /\ \A N, K, m \in Nat : N <= K => B(N, m) <= B(K, m)
    /\ \A N, m \in Nat : N + 1 <= B(N+1, m)
<1>1. ASSUME NEW N \in Nat, NEW m \in Nat PROVE B(N, m) <= B(N+1, m)
  <2>1. CASE m = 0
    BY <2>1, BRules
  <2>2. CASE m # 0
    <3>1. m - 1 \in Nat /\ (m - 1) + 1 = m /\ N + 1 \in Nat
      BY <2>2
    <3>2. PICK k \in Nat : m = k + 1
      BY <3>1
    <3>3. B(N+1, k+1) = B(N+1, k) + B(N, k+1)
      BY BRules
    <3>4. B(N+1, k) \in Nat /\ B(N, k+1) \in Nat
      BY <3>1, <3>2, BRules
    <3>5. B(N, k+1) <= B(N+1, k+1)
      BY <3>3, <3>4
    <3> QED BY <3>2, <3>5
  <2> QED BY <2>1, <2>2
<1>2. ASSUME NEW N \in Nat, NEW m \in Nat PROVE B(N, m) <= B(N, m+1)
  <2>1. CASE N = 0
    BY <2>1, BRules
  <2>2. CASE N # 0
    <3>1. N - 1 \in Nat /\ (N - 1) + 1 = N /\ m + 1 \in Nat
      BY <2>2
    <3>2. PICK k \in Nat : N = k + 1
      BY <3>1
    <3>3. B(k+1, m+1) = B(k+1, m) + B(k, m+1)
      BY BRules
    <3>4. B(k+1, m) \in Nat /\ B(k, m+1) \in Nat
      BY <3>1, <3>2, BRules
    <3>5. B(k+1, m) <= B(k+1, m+1)
      BY <3>3, <3>4
    <3> QED BY <3>2, <3>5
  <2> QED BY <2>1, <2>2
<1>3. ASSUME NEW N \in Nat, NEW K \in Nat, NEW m \in Nat, N <= K PROVE B(N, m) <= B(K, m)
  <2> DEFINE T == {i \in Nat : B(N, m) <= B(N + i, m)}
  <2>1. 0 \in T
    BY BRules
  <2>2. ASSUME NEW i \in T PROVE i + 1 \in T
    <3>1. N + i \in Nat /\ N + (i + 1) = (N + i) + 1 /\ N + (i + 1) \in Nat
      OBVIOUS
    <3>2. B(N + i, m) <= B(N + (i + 1), m)
      BY <1>1, <3>1
    <3>3. B(N, m) \in Nat /\ B(N + i, m) \in Nat /\ B(N + (i + 1), m) \in Nat
      BY <3>1, BRules
    <3> QED BY <3>2, <3>3
  <2>3. T \in SUBSET Nat
    OBVIOUS
  <2>4. K - N \in T
    <3>1. K - N \in Nat
      BY <1>3
    <3> HIDE DEF T
    <3> QED BY <2>1, <2>2, <2>3, <3>1, SetInduction
  <2>5. N + (K - N) = K
    OBVIOUS
  <2> QED BY <2>4, <2>5
<1>4. ASSUME NEW N \in Nat, NEW m \in Nat PROVE N + 1 <= B(N+1, m)
  <2> DEFINE T == {i \in Nat : N + 1 <= B(N+1, i)}
  <2>1. 0 \in T
    <3>1. B(N+1, 0) = N + 1
      BY BRules
    <3> QED BY <3>1
  <2>2. ASSUME NEW i \in T PROVE i + 1 \in T
    <3>1. B(N+1, i) <= B(N+1, i+1) /\ B(N+1, i) \in Nat /\ B(N+1, i+1) \in Nat
      BY <1>2, BRules
    <3> QED BY <3>1
  <2>3. T \in SUBSET Nat
    OBVIOUS
  <2>4. m \in T
    <3> HIDE DEF T
    <3> QED BY <2>1, <2>2, <2>3, SetInduction
  <2> QED BY <2>4
<1> QED BY <1>1, <1>2, <1>3, <1>4

-----------------------------------------------------------------------------
\* The sum of f[1] to f[t].
Sums(f) == CHOOSE s \in [Nat -> Nat] : s[0] = 0 /\ \A k \in Nat : s[k+1] = s[k] + f[k+1]
Sum(f, t) == Sums(f)[t]

\* The sums exist, and each is the one before and one term more.
LEMMA SumRules ==
    ASSUME NEW f \in [Nat -> Nat]
    PROVE  /\ \A t \in Nat : Sum(f, t) \in Nat
           /\ Sum(f, 0) = 0
           /\ \A t \in Nat : Sum(f, t+1) = Sum(f, t) + f[t+1]
<1> DEFINE g == [z \in Nat \X Nat |-> z[2] + f[z[1] + 1]]
<1>1. g \in [Nat \X Nat -> Nat] /\ 0 \in Nat
  OBVIOUS
<1>2. PICK s \in [Nat -> Nat] : s[0] = 0 /\ \A k \in Nat : s[k+1] = g[<<k, s[k]>>]
  <2> HIDE DEF g
  <2> QED BY <1>1, Recursion, Zenon
<1>3. \A k \in Nat : s[k+1] = s[k] + f[k+1]
  BY <1>2
<1>4. /\ Sums(f) \in [Nat -> Nat] /\ Sums(f)[0] = 0
      /\ \A k \in Nat : Sums(f)[k+1] = Sums(f)[k] + f[k+1]
  BY <1>2, <1>3, Zenon DEF Sums
<1> QED BY <1>4 DEF Sum

\* The sum says only what f is on 1..t.
LEMMA SumSame ==
    ASSUME NEW f \in [Nat -> Nat], NEW g \in [Nat -> Nat], NEW t \in Nat,
           \A x \in 1..t : f[x] = g[x]
    PROVE  Sum(f, t) = Sum(g, t)
<1> DEFINE T == {i \in Nat : i <= t => Sum(f, i) = Sum(g, i)}
<1>1. 0 \in T
  BY SumRules
<1>2. ASSUME NEW i \in T PROVE i + 1 \in T
  <2>1. Sum(f, i+1) = Sum(f, i) + f[i+1] /\ Sum(g, i+1) = Sum(g, i) + g[i+1] /\ i \in Nat
    BY SumRules
  <2>2. i + 1 <= t => i <= t /\ i + 1 \in 1..t
    BY <2>1
  <2> QED BY <2>1, <2>2
<1>3. T \in SUBSET Nat
  OBVIOUS
<1>4. t \in T
  <2> HIDE DEF T
  <2> QED BY <1>1, <1>2, <1>3, SetInduction
<1> QED BY <1>4

\* It grows, and not where f is 0.
LEMMA SumGrows ==
    ASSUME NEW f \in [Nat -> Nat], NEW v \in Nat, NEW t \in Nat, v <= t
    PROVE  /\ Sum(f, v) <= Sum(f, t)
           /\ (\A x \in (v+1)..t : f[x] = 0) => Sum(f, t) = Sum(f, v)
<1> DEFINE T == {i \in Nat : v <= i => /\ Sum(f, v) <= Sum(f, i)
                                       /\ (\A x \in (v+1)..i : f[x] = 0) => Sum(f, i) = Sum(f, v)}
<1>0. \A i \in Nat : Sum(f, i) \in Nat
  BY SumRules
<1>1. 0 \in T
  BY <1>0
<1>2. ASSUME NEW i \in T PROVE i + 1 \in T
  <2>1. Sum(f, i+1) = Sum(f, i) + f[i+1] /\ i \in Nat /\ f[i+1] \in Nat
        /\ Sum(f, i) \in Nat /\ Sum(f, v) \in Nat /\ Sum(f, i+1) \in Nat
    BY SumRules
  <2>2. CASE v <= i
    <3>1. Sum(f, v) <= Sum(f, i+1)
      BY <2>1, <2>2
    <3>2. ASSUME \A x \in (v+1)..(i+1) : f[x] = 0 PROVE Sum(f, i+1) = Sum(f, v)
      <4>1. i + 1 \in (v+1)..(i+1) /\ \A x \in (v+1)..i : x \in (v+1)..(i+1)
        BY <2>1, <2>2
      <4> QED BY <2>1, <2>2, <3>2, <4>1
    <3> QED BY <2>1, <3>1, <3>2
  <2>3. CASE v = i + 1
    BY <2>1, <2>3
  <2>4. CASE ~(v <= i + 1)
    BY <2>1, <2>4
  <2> QED BY <2>1, <2>2, <2>3, <2>4
<1>3. T \in SUBSET Nat
  OBVIOUS
<1>4. t \in T
  <2> HIDE DEF T
  <2> QED BY <1>1, <1>2, <1>3, SetInduction
<1> QED BY <1>4

\* The levels above v can hold less than B(N+1, M-v) together.
LEMMA TailBound ==
    ASSUME NEW f \in [Nat -> Nat], NEW N \in Nat, NEW M \in Nat, NEW v \in Nat, v <= M,
           \A x \in (v+1)..(M+1) : f[x] <= B(N, M+1-x),
           \A x \in Nat : x > M + 1 => f[x] = 0,
           NEW t \in Nat, v <= t
    PROVE  Sum(f, t) + 1 <= Sum(f, v) + B(N+1, M-v)
<1>0. \A i \in Nat : Sum(f, i) \in Nat /\ Sum(f, i+1) = Sum(f, i) + f[i+1] /\ f[i+1] \in Nat
  BY SumRules
<1>1. \A i \in Nat : B(N, i) \in Nat /\ B(N+1, i) \in Nat /\ B(N+1, i) >= 1
  <2> TAKE i \in Nat
  <2>1. N + 1 \in Nat
    OBVIOUS
  <2>2. B(N, i) \in Nat /\ B(N+1, i) \in Nat /\ N + 1 <= B(N+1, i)
    BY <2>1, BRules, BGrows
  <2> QED BY <2>2
<1> DEFINE T == {i \in Nat : v + i <= M =>
                   Sum(f, v + i) + B(N+1, M-(v+i)) <= Sum(f, v) + B(N+1, M-v)}
<1>2. 0 \in T
  <2>1. v + 0 = v /\ M - v \in Nat
    OBVIOUS
  <2>2. B(N+1, M-v) \in Nat /\ Sum(f, v) \in Nat
    BY <1>0, <1>1, <2>1
  <2> QED BY <2>1, <2>2
<1>3. ASSUME NEW i \in T PROVE i + 1 \in T
  <2> SUFFICES ASSUME v + (i + 1) <= M
               PROVE  Sum(f, v + (i+1)) + B(N+1, M-(v+(i+1))) <= Sum(f, v) + B(N+1, M-v)
    OBVIOUS
  <2> DEFINE j == v + i
             m == M - (v + (i + 1))
  <2>1. /\ j \in Nat /\ m \in Nat /\ j + 1 \in (v+1)..(M+1) /\ v + (i + 1) = j + 1
        /\ M - (v + i) = m + 1 /\ M + 1 - (j + 1) = m + 1 /\ M - v \in Nat /\ v + i <= M
    OBVIOUS
  <2>2. Sum(f, j) + B(N+1, m+1) <= Sum(f, v) + B(N+1, M-v)
    BY <2>1
  <2>3. f[j+1] <= B(N, m+1)
    BY <2>1
  <2>4. B(N+1, m+1) = B(N+1, m) + B(N, m+1)
    BY <2>1, BRules
  <2>5. /\ Sum(f, j+1) = Sum(f, j) + f[j+1] /\ f[j+1] \in Nat /\ Sum(f, j) \in Nat
        /\ Sum(f, v) \in Nat /\ B(N+1, M-v) \in Nat /\ B(N+1, m) \in Nat /\ B(N, m+1) \in Nat
    BY <1>0, <1>1, <2>1
  <2>6. Sum(f, v + (i+1)) = Sum(f, j+1)
    BY <2>1
  <2> HIDE DEF j
  <2>7. Sum(f, j+1) + B(N+1, m) <= Sum(f, v) + B(N+1, M-v)
    <3> HIDE DEF m
    <3> QED BY <2>2, <2>3, <2>4, <2>5
  <2> QED BY <2>6, <2>7
<1>4. \A i \in Nat : i \in T
  <2>1. T \in SUBSET Nat
    OBVIOUS
  <2> HIDE DEF T
  <2> QED BY <1>2, <1>3, <2>1, SetInduction
<1>5. ASSUME NEW u \in Nat, v <= u, u <= M
      PROVE  Sum(f, u) + B(N+1, M-u) <= Sum(f, v) + B(N+1, M-v)
  <2>1. u - v \in Nat /\ v + (u - v) = u
    BY <1>5
  <2>2. u - v \in T
    <3> HIDE DEF T
    <3> QED BY <1>4, <2>1
  <2> QED BY <1>5, <2>1, <2>2
<1>6. CASE t <= M
  <2>1. Sum(f, t) + B(N+1, M-t) <= Sum(f, v) + B(N+1, M-v)
    BY <1>5, <1>6
  <2>2. M - t \in Nat /\ M - v \in Nat
    BY <1>6
  <2>3. /\ B(N+1, M-t) >= 1 /\ Sum(f, t) \in Nat /\ Sum(f, v) \in Nat
        /\ B(N+1, M-t) \in Nat /\ B(N+1, M-v) \in Nat
    BY <1>0, <1>1, <2>2
  <2> QED BY <2>1, <2>3
<1>7. CASE t > M
  <2>1. Sum(f, M) + B(N+1, M-M) <= Sum(f, v) + B(N+1, M-v)
    BY <1>5
  <2>2. M - M = 0 /\ M + 1 \in (v+1)..(M+1) /\ M + 1 - (M + 1) = 0 /\ M - v \in Nat
    OBVIOUS
  <2>3. f[M+1] <= N /\ B(N+1, 0) = N + 1
    BY <2>2, BRules
  <2>4. Sum(f, M+1) + 1 <= Sum(f, v) + B(N+1, M-v)
    <3>1. Sum(f, M+1) = Sum(f, M) + f[M+1] /\ f[M+1] \in Nat /\ Sum(f, M) \in Nat
          /\ B(N+1, M-v) \in Nat /\ Sum(f, v) \in Nat
      BY <1>0, <1>1, <2>2
    <3>2. Sum(f, M) + (N + 1) <= Sum(f, v) + B(N+1, M-v)
      BY <2>1, <2>2, <2>3
    <3> QED BY <2>3, <3>1, <3>2
  <2>5. Sum(f, t) = Sum(f, M+1)
    <3>1. M + 1 <= t /\ M + 1 \in Nat
      BY <1>7
    <3>2. \A x \in ((M+1)+1)..t : f[x] = 0
      OBVIOUS
    <3> QED BY <3>1, <3>2, SumGrows
  <2> QED BY <2>4, <2>5
<1> QED BY <1>6, <1>7

-----------------------------------------------------------------------------
(* Then the rank of the counts that are stored and on their way.           *)

\* Verifications W are on their way, and att[s] is what s will write to attempts,
\* in which a is stored.  Above: the requests that will not write less than x.
\* Low: those that are allowed to compare.
Above(W, att, x) == {s \in Requests : s \in W => att[s] >= x}
Low(W, att) == {s \in W : att[s] <= MaxTries}

\* The rank of it.  Reading a and being allowed to compare raises it by 1,
\* writing att[s] does not lower it, and it has a bound: that bounds the number
\* of comparisons, however reads and writes are mixed.
Levels(W, att) ==
    [x \in Nat |-> IF x \in 1..(MaxTries+1)
                     THEN B(Cardinality(Above(W, att, x)), MaxTries + 1 - x) ELSE 0]
Rank(W, att, a) == Cardinality(Low(W, att)) + Sum(Levels(W, att), a + 1)

\* The sizes of sets of requests.
LEMMA Sizes ==
    ASSUME NEW S \in SUBSET Requests
    PROVE  /\ IsFiniteSet(S) /\ Cardinality(S) \in Nat /\ Cardinality(S) <= Cardinality(Requests)
           /\ \A T \in SUBSET S : Cardinality(T) <= Cardinality(S)
           /\ \A s \in Requests : s \notin S => Cardinality(S \cup {s}) = Cardinality(S) + 1
           /\ \A s \in S : Cardinality(S \ {s}) = Cardinality(S) - 1
<1>1. IsFiniteSet(S) /\ Cardinality(S) <= Cardinality(Requests)
  BY FiniteAssumption, FS_Subset
<1>2. Cardinality(S) \in Nat
  BY <1>1, FS_CardinalityType
<1>3. \A T \in SUBSET S : Cardinality(T) <= Cardinality(S)
  BY <1>1, FS_Subset
<1>4. \A s \in Requests : s \notin S => Cardinality(S \cup {s}) = Cardinality(S) + 1
  BY <1>1, FS_AddElement
<1>5. \A s \in S : Cardinality(S \ {s}) = Cardinality(S) - 1
  BY <1>1, FS_RemoveElement
<1> QED BY <1>1, <1>2, <1>3, <1>4, <1>5

\* What the levels are.
LEMMA LevelsType ==
    ASSUME NEW W \in SUBSET Requests, NEW att \in [Requests -> Nat]
    PROVE  /\ Levels(W, att) \in [Nat -> Nat]
           /\ \A x \in 1..(MaxTries+1) :
                 Levels(W, att)[x] = B(Cardinality(Above(W, att, x)), MaxTries + 1 - x)
           /\ \A x \in Nat : x > MaxTries + 1 => Levels(W, att)[x] = 0
           /\ Cardinality(Low(W, att)) \in Nat
<1> DEFINE e(x) == IF x \in 1..(MaxTries+1)
                     THEN B(Cardinality(Above(W, att, x)), MaxTries + 1 - x) ELSE 0
<1>1. ASSUME NEW x \in Nat PROVE e(x) \in Nat
  <2>1. CASE x \in 1..(MaxTries+1)
    <3>1. MaxTries + 1 - x \in Nat
      BY <2>1, BoundAssumption
    <3>2. Above(W, att, x) \in SUBSET Requests
      BY DEF Above
    <3>3. Cardinality(Above(W, att, x)) \in Nat
      BY <3>2, Sizes
    <3> QED BY <2>1, <3>1, <3>3, BRules
  <2>2. CASE x \notin 1..(MaxTries+1)
    BY <2>2
  <2> QED BY <2>1, <2>2
<1>2. Levels(W, att) = [x \in Nat |-> e(x)]
  BY DEF Levels
<1>3. \A x \in 1..(MaxTries+1) : e(x) = B(Cardinality(Above(W, att, x)), MaxTries + 1 - x)
  OBVIOUS
<1>4. \A x \in Nat : x > MaxTries + 1 => e(x) = 0
  BY BoundAssumption
<1>5. \A x \in 1..(MaxTries+1) : x \in Nat
  BY BoundAssumption
<1>6. Low(W, att) \in SUBSET Requests
  BY DEF Low
<1> HIDE DEF e
<1> QED BY <1>1, <1>2, <1>3, <1>4, <1>5, <1>6, Sizes

\* A rank is a natural number.
LEMMA RankType ==
    ASSUME NEW W \in SUBSET Requests, NEW att \in [Requests -> Nat], NEW a \in Nat
    PROVE  Rank(W, att, a) \in Nat
<1>1. Levels(W, att) \in [Nat -> Nat] /\ Cardinality(Low(W, att)) \in Nat
  BY LevelsType
<1>2. Sum(Levels(W, att), a + 1) \in Nat
  <2>1. a + 1 \in Nat
    OBVIOUS
  <2> QED BY <1>1, <2>1, SumRules
<1> QED BY <1>1, <1>2 DEF Rank

\* Only what W will write is in the rank.
LEMMA RankSame ==
    ASSUME NEW W \in SUBSET Requests, NEW att \in [Requests -> Nat],
           NEW atu \in [Requests -> Nat], NEW a \in Nat,
           \A s \in W : att[s] = atu[s]
    PROVE  Rank(W, att, a) = Rank(W, atu, a)
<1>1. Low(W, att) = Low(W, atu)
  BY DEF Low
<1>2. \A x \in Nat : Above(W, att, x) = Above(W, atu, x)
  BY DEF Above
<1>3. Levels(W, att) = Levels(W, atu)
  BY <1>2 DEF Levels
<1> QED BY <1>1, <1>3 DEF Rank

\* A code that nobody counted yet has rank B(n, MaxTries) at least, whatever the
\* verifications of older codes will write.
LEMMA RankFresh ==
    ASSUME NEW W \in SUBSET Requests, NEW att \in [Requests -> Nat],
           \A s \in W : att[s] >= 1
    PROVE  Rank(W, att, 0) >= B(Cardinality(Requests), MaxTries)
<1> DEFINE L == Levels(W, att)
<1>1. 1 \in 1..(MaxTries+1) /\ MaxTries + 1 - 1 = MaxTries
  BY BoundAssumption
<1>2. Above(W, att, 1) = Requests
  BY DEF Above
<1>3. L \in [Nat -> Nat] /\ L[1] = B(Cardinality(Requests), MaxTries)
  BY <1>1, <1>2, LevelsType
<1>4. Sum(L, 0 + 1) = Sum(L, 0) + L[0 + 1] /\ Sum(L, 0) = 0
  <2> HIDE DEF L
  <2> QED BY <1>3, SumRules
<1>5. Cardinality(Low(W, att)) \in Nat /\ L[1] \in Nat
  BY <1>3, LevelsType
<1>6. Rank(W, att, 0) = Cardinality(Low(W, att)) + Sum(L, 0 + 1)
  BY DEF Rank
<1> HIDE DEF L
<1> QED BY <1>3, <1>4, <1>5, <1>6

\* A request that reads a raises the rank by 1 if it may compare.
LEMMA RankRead ==
    ASSUME NEW W \in SUBSET Requests, NEW att \in [Requests -> Nat],
           NEW atu \in [Requests -> Nat], NEW a \in Nat,
           NEW r \in Requests, r \notin W, atu[r] = a + 1, \A s \in W : att[s] = atu[s]
    PROVE  Rank(W \cup {r}, atu, a) = Rank(W, att, a) + (IF a + 1 <= MaxTries THEN 1 ELSE 0)
<1> DEFINE V == W \cup {r}
<1>0. V \in SUBSET Requests /\ a + 1 \in Nat
  OBVIOUS
<1>1. ASSUME NEW x \in 1..(a+1) PROVE Levels(V, atu)[x] = Levels(W, att)[x]
  <2>1. Above(V, atu, x) = Above(W, att, x)
    BY DEF Above
  <2>2. x \in Nat
    OBVIOUS
  <2> QED BY <2>1, <2>2 DEF Levels
<1>2. Levels(V, atu) \in [Nat -> Nat] /\ Levels(W, att) \in [Nat -> Nat]
  BY <1>0, LevelsType
<1>3. Sum(Levels(V, atu), a + 1) = Sum(Levels(W, att), a + 1)
  BY <1>0, <1>1, <1>2, SumSame
<1>4. Low(V, atu) = IF a + 1 <= MaxTries THEN Low(W, att) \cup {r} ELSE Low(W, att)
  BY BoundAssumption DEF Low
<1>5. r \notin Low(W, att) /\ Low(W, att) \in SUBSET Requests
  BY DEF Low
<1>6. Cardinality(Low(W, att) \cup {r}) = Cardinality(Low(W, att)) + 1
  BY <1>5, Sizes
<1>7. Cardinality(Low(W, att)) \in Nat /\ Sum(Levels(W, att), a + 1) \in Nat
  BY <1>0, <1>2, LevelsType, SumRules
<1> QED BY <1>3, <1>4, <1>6, <1>7 DEF Rank

\* A request that writes what it counted, over whatever is stored by then, does
\* not lower the rank, because all that was ever above is still above.
LEMMA RankSave ==
    ASSUME NEW W \in SUBSET Requests, NEW att \in [Requests -> Nat], NEW a \in Nat,
           NEW r \in W, att[r] >= 1
    PROVE  Rank(W \ {r}, att, att[r]) >= Rank(W, att, a)
<1> DEFINE V == W \ {r}
           v == att[r]
           L == Levels(W, att)
           K == Levels(V, att)
           M == MaxTries
<1>0. /\ V \in SUBSET Requests /\ v \in Nat /\ v >= 1 /\ M \in Nat /\ a + 1 \in Nat /\ v + 1 \in Nat
      /\ L \in [Nat -> Nat] /\ K \in [Nat -> Nat]
      /\ Cardinality(Low(W, att)) \in Nat /\ Cardinality(Low(V, att)) \in Nat
  <2>1. V \in SUBSET Requests /\ v \in Nat /\ v >= 1 /\ M \in Nat /\ a + 1 \in Nat /\ v + 1 \in Nat
    BY BoundAssumption
  <2> HIDE DEF V
  <2> QED BY <2>1, LevelsType
<1>1. ASSUME NEW x \in Nat, x <= v PROVE K[x] = L[x]
  <2>1. Above(V, att, x) = Above(W, att, x)
    BY <1>1 DEF Above
  <2> QED BY <2>1 DEF Levels
<1>2. /\ \A i \in Nat : Sum(L, i) \in Nat /\ Sum(K, i) \in Nat
      /\ Sum(K, v) = Sum(L, v) /\ Sum(K, v+1) = Sum(K, v) + K[v+1] /\ K[v+1] \in Nat
  <2>1. \A x \in 1..v : K[x] = L[x]
    <3>1. \A x \in 1..v : x \in Nat /\ x <= v
      BY <1>0
    <3> HIDE DEF K, L, v
    <3> QED BY <1>1, <3>1
  <2> HIDE DEF K, L, v
  <2> QED BY <1>0, <2>1, SumRules, SumSame
<1>3. CASE v > M
  <2>1. Low(V, att) = Low(W, att)
    BY <1>0, <1>3 DEF Low
  <2>2. Sum(L, a+1) <= Sum(L, v)
    <3>1. CASE a + 1 <= v
      <4> HIDE DEF K, L, v
      <4> QED BY <1>0, <3>1, SumGrows
    <3>2. CASE v <= a + 1
      <4>1. \A x \in (v+1)..(a+1) : L[x] = 0
        <5>1. \A x \in (v+1)..(a+1) : x \in Nat /\ x > M + 1
          BY <1>0, <1>3
        <5> QED BY <5>1, LevelsType
      <4> HIDE DEF K, L, v
      <4>2. Sum(L, a+1) = Sum(L, v)
        BY <1>0, <3>2, <4>1, SumGrows
      <4> QED BY <1>0, <1>2, <4>2
    <3> QED BY <1>0, <3>1, <3>2
  <2> HIDE DEF K, L, v, V
  <2>3. Sum(K, v+1) >= Sum(L, a+1)
    BY <1>0, <1>2, <2>2
  <2>4. Rank(V, att, v) >= Rank(W, att, a)
    BY <1>0, <1>2, <2>1, <2>3 DEF Rank, K, L
  <2> QED BY <2>4 DEF v, V
<1>4. CASE v <= M
  <2> DEFINE N == Cardinality(Above(W, att, v+1))
  <2>1. N \in Nat /\ \A x \in (v+1)..(M+1) : L[x] <= B(N, M+1-x)
    <3>1. N \in Nat
      BY Sizes DEF Above
    <3>2. ASSUME NEW x \in (v+1)..(M+1) PROVE L[x] <= B(N, M+1-x)
      <4>1. x \in 1..(MaxTries+1) /\ M + 1 - x \in Nat /\ x \in Nat /\ x >= v + 1
        BY <1>0
      <4>2. Above(W, att, x) \in SUBSET Above(W, att, v+1) /\ Above(W, att, v+1) \in SUBSET Requests
        BY <1>0, <4>1 DEF Above
      <4>3. Cardinality(Above(W, att, x)) <= N /\ Cardinality(Above(W, att, x)) \in Nat
        <5>1. Above(W, att, x) \in SUBSET Requests
          BY <4>2
        <5> QED BY <4>2, <5>1, Sizes
      <4>4. L[x] = B(Cardinality(Above(W, att, x)), M + 1 - x)
        BY <4>1, LevelsType
      <4> HIDE DEF N, L, v, M
      <4> QED BY <3>1, <4>1, <4>3, <4>4, BGrows
    <3> QED BY <3>1, <3>2
  <2>2. K[v+1] = B(N+1, M-v)
    <3>1. Above(V, att, v+1) = Above(W, att, v+1) \cup {r}
      BY <1>0 DEF Above
    <3>2. r \notin Above(W, att, v+1) /\ Above(W, att, v+1) \in SUBSET Requests /\ r \in Requests
      BY <1>0 DEF Above
    <3>3. Cardinality(Above(V, att, v+1)) = N + 1
      BY <3>1, <3>2, Sizes
    <3>4. v + 1 \in 1..(MaxTries+1) /\ MaxTries + 1 - (v + 1) = M - v
      BY <1>0, <1>4
    <3> HIDE DEF V, v
    <3> QED BY <1>0, <3>3, <3>4, LevelsType
  <2>3. \A t \in Nat : v <= t => Sum(L, t) + 1 <= Sum(L, v) + B(N+1, M-v)
    <3>1. \A x \in Nat : x > M + 1 => L[x] = 0
      BY LevelsType
    <3> HIDE DEF N, L, v, M
    <3> QED BY <1>0, <1>4, <2>1, <3>1, TailBound
  <2>4. Sum(L, a+1) + 1 <= Sum(K, v+1)
    <3> HIDE DEF N, L, K, v, M
    <3>1. CASE v <= a + 1
      BY <1>0, <1>2, <2>2, <2>3, <3>1
    <3>2. CASE a + 1 <= v
      <4>1. Sum(L, a+1) <= Sum(L, v)
        BY <1>0, <3>2, SumGrows
      <4>2. Sum(L, v) + 1 <= Sum(L, v) + B(N+1, M-v)
        BY <1>0, <2>3
      <4> QED BY <1>0, <1>2, <2>2, <4>1, <4>2
    <3> QED BY <1>0, <3>1, <3>2
  <2>5. Low(V, att) = Low(W, att) \ {r} /\ r \in Low(W, att)
    BY <1>0, <1>4 DEF Low
  <2>6. Cardinality(Low(V, att)) = Cardinality(Low(W, att)) - 1
    <3>1. Low(W, att) \in SUBSET Requests
      BY DEF Low
    <3> QED BY <2>5, <3>1, Sizes
  <2> HIDE DEF N, L, K, v, M, V
  <2>7. Rank(V, att, v) >= Rank(W, att, a)
    BY <1>0, <1>2, <2>4, <2>6 DEF Rank, K, L
  <2> QED BY <2>7 DEF v, V
<1> QED BY <1>0, <1>3, <1>4

\* The rank is below B(n+1, MaxTries).
LEMMA RankBound ==
    ASSUME NEW W \in SUBSET Requests, NEW att \in [Requests -> Nat], NEW a \in Nat
    PROVE  Rank(W, att, a) + 1 <= B(Cardinality(Requests) + 1, MaxTries)
<1> DEFINE L == Levels(W, att)
           M == MaxTries
           n == Cardinality(Requests)
           f == [x \in Nat |-> IF x = M + 1 THEN n ELSE L[x]]
<1>0. M \in Nat /\ n \in Nat /\ L \in [Nat -> Nat] /\ f \in [Nat -> Nat]
  <2>1. n \in Nat
    BY Sizes
  <2> QED BY <2>1, BoundAssumption, LevelsType
<1>1. ASSUME NEW x \in 1..(M+1) PROVE Cardinality(Above(W, att, x)) \in Nat
        /\ Cardinality(Above(W, att, x)) <= n
  <2>1. Above(W, att, x) \in SUBSET Requests
    BY DEF Above
  <2> QED BY <2>1, Sizes
<1>2. ASSUME NEW x \in (0+1)..(M+1) PROVE f[x] <= B(n, M+1-x)
  <2>1. CASE x = M + 1
    <3>1. f[x] = n /\ M + 1 - x = 0 /\ B(n, 0) = n
      BY <1>0, <2>1, BRules
    <3> QED BY <1>0, <3>1
  <2>2. CASE x # M + 1
    <3>1. x \in 1..(M+1) /\ M + 1 - x \in Nat /\ x \in Nat
      BY <1>0
    <3>2. f[x] = B(Cardinality(Above(W, att, x)), M + 1 - x)
      BY <2>2, <3>1, LevelsType
    <3> HIDE DEF f, M, n, L
    <3> QED BY <1>0, <1>1, <3>1, <3>2, BGrows
  <2> QED BY <2>1, <2>2
<1>3. ASSUME NEW x \in Nat, x > M + 1 PROVE f[x] = 0
  <2>1. L[x] = 0
    BY <1>3, LevelsType
  <2>2. x # M + 1
    BY <1>0, <1>3
  <2> HIDE DEF L
  <2> QED BY <2>1, <2>2
<1>4. Sum(f, M+1) + 1 <= Sum(f, 0) + B(n + 1, M - 0)
  <2>1. 0 \in Nat /\ 0 <= M /\ M + 1 \in Nat /\ 0 <= M + 1
    BY <1>0
  <2> HIDE DEF f, M, n, L
  <2> QED BY <1>0, <1>2, <1>3, <2>1, TailBound
<1>5. Sum(f, M+1) = Sum(L, M+1) + Cardinality(Low(W, att))
  <2>1. Sum(f, M) = Sum(L, M)
    <3>1. \A x \in 1..M : f[x] = L[x]
      BY <1>0
    <3> HIDE DEF f, M, n, L
    <3> QED BY <1>0, <3>1, SumSame
  <2>2. Sum(f, M+1) = Sum(f, M) + f[M+1] /\ Sum(L, M+1) = Sum(L, M) + L[M+1]
        /\ Sum(L, M) \in Nat /\ Sum(L, M+1) \in Nat
    <3> HIDE DEF f, M, n, L
    <3> QED BY <1>0, SumRules
  <2>3. L[M+1] = Cardinality(Above(W, att, M+1))
    <3>1. M + 1 \in 1..(M+1) /\ M + 1 - (M + 1) = 0
      BY <1>0
    <3>2. L[M+1] = B(Cardinality(Above(W, att, M+1)), 0)
      BY <3>1, LevelsType
    <3> QED BY <1>1, <3>1, <3>2, BRules
  <2>4. Cardinality(Above(W, att, M+1)) + Cardinality(Low(W, att)) = n
    <3>1. Above(W, att, M+1) \cup Low(W, att) = Requests /\ Above(W, att, M+1) \cap Low(W, att) = {}
      BY BoundAssumption DEF Above, Low
    <3>2. IsFiniteSet(Above(W, att, M+1)) /\ IsFiniteSet(Low(W, att))
      <4>1. Above(W, att, M+1) \in SUBSET Requests /\ Low(W, att) \in SUBSET Requests
        BY DEF Above, Low
      <4> QED BY <4>1, Sizes
    <3>3. n = Cardinality(Above(W, att, M+1)) + Cardinality(Low(W, att)) - Cardinality({})
      BY <3>1, <3>2, FS_Union
    <3>4. Cardinality({}) = 0 /\ Cardinality(Above(W, att, M+1)) \in Nat
          /\ Cardinality(Low(W, att)) \in Nat
      BY <3>2, FS_EmptySet, FS_CardinalityType
    <3> QED BY <3>3, <3>4
  <2>5. f[M+1] = n
    BY <1>0
  <2>6. Cardinality(Above(W, att, M+1)) \in Nat /\ Cardinality(Low(W, att)) \in Nat
    <3>1. M + 1 \in 1..(M+1)
      BY <1>0
    <3> QED BY <1>1, <3>1, LevelsType
  <2> HIDE DEF f, M, n, L
  <2> QED BY <1>0, <2>1, <2>2, <2>3, <2>4, <2>5, <2>6
<1>6. Sum(L, a+1) <= Sum(L, M+1)
  <2>1. a + 1 \in Nat /\ M + 1 \in Nat /\ \A i \in Nat : Sum(L, i) \in Nat
    <3> HIDE DEF L
    <3> QED BY <1>0, SumRules
  <2>2. CASE a + 1 <= M + 1
    <3> HIDE DEF f, M, n, L
    <3> QED BY <1>0, <2>1, <2>2, SumGrows
  <2>3. CASE a + 1 > M + 1
    <3>1. \A x \in ((M+1)+1)..(a+1) : L[x] = 0
      BY <1>0, LevelsType
    <3> HIDE DEF f, M, n, L
    <3>2. M + 1 <= a + 1
      BY <1>0, <2>3
    <3>3. Sum(L, a+1) = Sum(L, M+1)
      BY <1>0, <2>1, <3>1, <3>2, SumGrows
    <3> QED BY <2>1, <3>3
  <2> QED BY <1>0, <2>1, <2>2, <2>3
<1>7. Sum(f, 0) = 0
  <2> HIDE DEF f
  <2> QED BY <1>0, SumRules
<1>8. /\ Sum(L, a+1) \in Nat /\ Sum(L, M+1) \in Nat /\ Cardinality(Low(W, att)) \in Nat
      /\ M - 0 = M /\ B(n+1, M) \in Nat
  <2>1. Cardinality(Low(W, att)) \in Nat
    BY LevelsType
  <2> HIDE DEF f, M, n, L
  <2>2. a + 1 \in Nat /\ M + 1 \in Nat /\ n + 1 \in Nat /\ M - 0 = M
    BY <1>0
  <2> QED BY <1>0, <2>1, <2>2, SumRules, BRules
<1>9. Rank(W, att, a) = Cardinality(Low(W, att)) + Sum(L, a + 1)
  BY DEF Rank
<1>10. Rank(W, att, a) + 1 <= B(n + 1, M)
  <2> HIDE DEF f, M, n, L
  <2> QED BY <1>4, <1>5, <1>6, <1>7, <1>8, <1>9
<1> QED BY <1>10

-----------------------------------------------------------------------------
(* And what the steps do to it.                                            *)

\* What each request will write.
Attempts == [s \in Requests |-> req[s].attempts]

\* The verifications of p that are being served, those of D left out.
Waiting(p, D) == {s \in Requests \ D : req[s].op = "verify" /\ req[s].p = p}

\* Those of code c: about to compare; forgotten, though they were allowed to.
Asking(c) == {s \in Requests : At(s, "verify", "ask") /\ req[s].seen = c}
Spent(c, D) == {s \in D : req[s].op = "verify" /\ req[s].seen = c /\ req[s].attempts <= MaxTries}

\* The tries of c, with those that are certain to come; the rank of the document
\* of p when the requests of D are forgotten.
Tried(c) == tries[c] + Cardinality(Asking(c))
RankOf(p, D) == Rank(Waiting(p, D), Attempts, user[p].otp.attempts)

\* The code that is stored for p has been tried as often as its rank says at the
\* most.  This holds whichever set D of requests is forgotten, if those that may
\* compare are counted back: so it survives that one of them dies.
LiveOK(p) ==
    \A c \in Codes : user[p].otp.code = c =>
      \A D \in SUBSET Requests :
         Tried(c) + B(Cardinality(Requests), MaxTries)
           <= aborts + Cardinality(Spent(c, D)) + RankOf(p, D)

\* No code, stored or not, was tried more often than ranks can grow.
BoundOK(c) ==
    Tried(c) + B(Cardinality(Requests), MaxTries) + 1
      <= aborts + B(Cardinality(Requests) + 1, MaxTries)

\* A code that was not stored yet was not tried.
Unseen(c) == /\ tries[c] = 0
             /\ \A p \in Phones : user[p].otp.code # c
             /\ \A s \in Requests : req[s].op = "verify" => req[s].seen # c

\* Codes that are drawn later, or still to be saved, are such codes.
FreshOK == /\ \A c \in Codes : c > lastCode => Unseen(c)
           /\ \A r \in Requests : At(r, "send", "save") => Unseen(req[r].code)

\* A code is tried for its number.
SeenOK(r) == req[r].op = "verify" =>
                \A q \in Phones : user[q].otp.code = req[r].seen => q = req[r].p

\* The strengthening of TriesBounded that is inductive, with IInv.
FInv == /\ FreshOK
        /\ \A r \in Requests : SeenOK(r)
        /\ \A p \in Phones : LiveOK(p)
        /\ \A c \in Codes : BoundOK(c)

\* What the numbers are.
Sized ==
    /\ aborts \in Nat /\ Attempts \in [Requests -> Nat] /\ user \in [Phones -> UserDoc]
    /\ \A p \in Phones : /\ user[p].otp.attempts \in Nat
                         /\ user[p].otp.code \in Codes \cup {NoCode}
    /\ \A c \in Codes : /\ Tried(c) \in Nat /\ tries[c] \in Nat
                        /\ Cardinality(Asking(c)) \in Nat
    /\ \A c \in Codes : \A D \in SUBSET Requests : Cardinality(Spent(c, D)) \in Nat
    /\ \A p \in Phones : \A D \in SUBSET Requests :
          Waiting(p, D) \in SUBSET Requests /\ RankOf(p, D) \in Nat
    /\ \A i \in Nat : B(Cardinality(Requests), i) \in Nat /\ B(Cardinality(Requests)+1, i) \in Nat

\* Well typed, all of these are numbers.
LEMMA SizedNow == TInv => Sized
<1> SUFFICES ASSUME TInv PROVE Sized
  OBVIOUS
<1>1. TypeOK /\ MaxAborts \in Nat
  BY BoundAssumption DEF TInv
<1>2. aborts \in Nat /\ tries \in [Codes -> Nat] /\ req \in [Requests -> ReqState]
      /\ user \in [Phones -> UserDoc]
  BY <1>1 DEF TypeOK
<1>3. Attempts \in [Requests -> Nat]
  BY <1>2 DEF Attempts, ReqState
<1>4. ASSUME NEW p \in Phones
      PROVE  user[p].otp.attempts \in Nat /\ user[p].otp.code \in Codes \cup {NoCode}
  <2>1. user[p] \in UserDoc
    BY <1>2
  <2>2. user[p].otp \in Otp
    BY <2>1 DEF UserDoc
  <2> QED BY <2>2 DEF Otp
<1>5. ASSUME NEW c \in Codes
      PROVE  Tried(c) \in Nat /\ tries[c] \in Nat /\ Cardinality(Asking(c)) \in Nat
  <2>1. Asking(c) \in SUBSET Requests
    BY DEF Asking
  <2>2. Cardinality(Asking(c)) \in Nat
    BY <2>1, Sizes
  <2> QED BY <1>2, <2>2 DEF Tried
<1>6. ASSUME NEW c \in Codes, NEW D \in SUBSET Requests PROVE Cardinality(Spent(c, D)) \in Nat
  <2>1. Spent(c, D) \in SUBSET Requests
    BY DEF Spent
  <2> QED BY <2>1, Sizes
<1>7. ASSUME NEW p \in Phones, NEW D \in SUBSET Requests
      PROVE  Waiting(p, D) \in SUBSET Requests /\ RankOf(p, D) \in Nat
  <2>1. Waiting(p, D) \in SUBSET Requests
    BY DEF Waiting
  <2> QED BY <1>3, <1>4, <2>1, RankType DEF RankOf
<1>8. ASSUME NEW i \in Nat
      PROVE  B(Cardinality(Requests), i) \in Nat /\ B(Cardinality(Requests)+1, i) \in Nat
  <2>1. Cardinality(Requests) \in Nat
    BY Sizes
  <2>2. Cardinality(Requests) + 1 \in Nat
    BY <2>1
  <2> QED BY <2>1, <2>2, BRules
<1> QED BY <1>2, <1>3, <1>4, <1>5, <1>6, <1>7, <1>8 DEF Sized

\* They still are after a step.
LEMMA SizedNext == TInv' => Sized'
  BY SizedNow, PTL

\* A step that is none of p's business.
LEMMA LiveFrame ==
    ASSUME TInv, TInv', NEW p \in Phones, LiveOK(p),
           user'[p].otp = user[p].otp, aborts' >= aborts,
           \A c \in Codes : user[p].otp.code = c =>
              /\ Tried(c)' <= Tried(c)
              /\ \A s \in Requests :
                   /\ req'[s].op = "verify" /\ req'[s].p = p <=> req[s].op = "verify" /\ req[s].p = p
                   /\ req'[s].op = "verify" /\ req'[s].seen = c
                        <=> req[s].op = "verify" /\ req[s].seen = c
                   /\ req[s].op = "verify" /\ (req[s].p = p \/ req[s].seen = c)
                        => req'[s].attempts = req[s].attempts
    PROVE  LiveOK(p)'
<1> SUFFICES ASSUME NEW c \in Codes, user'[p].otp.code = c, NEW D \in SUBSET Requests
             PROVE  Tried(c)' + B(Cardinality(Requests), MaxTries)
                      <= aborts' + Cardinality(Spent(c, D)') + RankOf(p, D)'
  BY DEF LiveOK
<1> USE SizedNow, SizedNext DEF Sized
<1>1. Tried(c) + B(Cardinality(Requests), MaxTries)
        <= aborts + Cardinality(Spent(c, D)) + RankOf(p, D)
  BY DEF LiveOK
<1>2. Spent(c, D)' = Spent(c, D)
  BY DEF Spent
<1>3. RankOf(p, D)' = RankOf(p, D)
  <2>1. Waiting(p, D)' = Waiting(p, D)
    BY DEF Waiting
  <2>2. \A s \in Waiting(p, D) : Attempts'[s] = Attempts[s]
    BY DEF Waiting, Attempts
  <2>3. Attempts \in [Requests -> Nat] /\ Attempts' \in [Requests -> Nat]
        /\ Waiting(p, D) \in SUBSET Requests /\ user[p].otp.attempts \in Nat
    OBVIOUS
  <2>4. Rank(Waiting(p, D), Attempts, user[p].otp.attempts)
          = Rank(Waiting(p, D), Attempts', user[p].otp.attempts)
    BY <2>2, <2>3, RankSame
  <2> QED BY <2>1, <2>4 DEF RankOf
<1>4. Tried(c)' <= Tried(c)
  OBVIOUS
<1> QED BY <1>1, <1>2, <1>3, <1>4, BoundAssumption

\* A verification that dies is among those forgotten: that it compared nothing,
\* or the request that died, makes up for it.
LEMMA LiveDropped ==
    ASSUME TInv, TInv', NEW r \in Requests, req[r].op = "verify", Finish(r),
           UNCHANGED <<user, tries>>,
           (req[r].at = "ask" /\ aborts' = aborts) \/ aborts' = aborts + 1,
           NEW p \in Phones, LiveOK(p)
    PROVE  LiveOK(p)'
<1> SUFFICES ASSUME NEW c \in Codes, user'[p].otp.code = c, NEW D \in SUBSET Requests
             PROVE  Tried(c)' + B(Cardinality(Requests), MaxTries)
                      <= aborts' + Cardinality(Spent(c, D)') + RankOf(p, D)'
  BY DEF LiveOK
<1> DEFINE E == D \cup {r}
<1>0. /\ E \in SUBSET Requests
      /\ req'[r] = Idle /\ \A s \in Requests : s # r => req'[s] = req[s]
      /\ Idle.op = "none"
  <2>1. req \in [Requests -> ReqState]
    BY DEF TInv, TypeOK
  <2> QED BY <2>1 DEF Finish, Idle
<1>1. Tried(c) + B(Cardinality(Requests), MaxTries)
        <= aborts + Cardinality(Spent(c, E)) + RankOf(p, E)
  BY <1>0 DEF LiveOK
<1>2. RankOf(p, D)' = RankOf(p, E)
  <2>1. Waiting(p, D)' = Waiting(p, E)
    BY <1>0 DEF Waiting
  <2>2. \A s \in Waiting(p, E) : Attempts'[s] = Attempts[s]
    BY <1>0 DEF Waiting, Attempts
  <2>3. Attempts \in [Requests -> Nat] /\ Attempts' \in [Requests -> Nat]
        /\ Waiting(p, E) \in SUBSET Requests /\ user[p].otp.attempts \in Nat
    BY <1>0, SizedNow, SizedNext DEF Sized
  <2>4. Rank(Waiting(p, E), Attempts, user[p].otp.attempts)
          = Rank(Waiting(p, E), Attempts', user[p].otp.attempts)
    BY <2>2, <2>3, RankSame
  <2> QED BY <2>1, <2>4 DEF RankOf
<1>3. Spent(c, D)' = Spent(c, E) \ {r} /\ Spent(c, E) \in SUBSET Requests
  BY <1>0 DEF Spent
<1>4. Asking(c)' = Asking(c) \ {r} /\ Asking(c) \in SUBSET Requests
  BY <1>0 DEF Asking, At
<1>5. tries'[c] = tries[c]
  OBVIOUS
<1>6. /\ r \notin Spent(c, E) => Cardinality(Spent(c, D)') = Cardinality(Spent(c, E))
      /\ Cardinality(Spent(c, E)) <= Cardinality(Spent(c, D)') + 1
      /\ Cardinality(Spent(c, E)) \in Nat /\ Cardinality(Spent(c, D)') \in Nat
  <2>1. Cardinality(Spent(c, E)) \in Nat
    BY <1>3, Sizes
  <2>2. CASE r \in Spent(c, E)
    <3>1. Cardinality(Spent(c, E) \ {r}) = Cardinality(Spent(c, E)) - 1
      BY <1>3, <2>2, Sizes
    <3>2. Cardinality(Spent(c, E) \ {r}) \in Nat
      BY <1>3, Sizes
    <3> QED BY <1>3, <2>1, <2>2, <3>1, <3>2
  <2>3. CASE r \notin Spent(c, E)
    BY <1>3, <2>1, <2>3
  <2> QED BY <2>2, <2>3
<1>7. /\ r \notin Asking(c) => Tried(c)' = Tried(c)
      /\ r \in Asking(c) => Tried(c)' + 1 = Tried(c)
      /\ Tried(c) \in Nat /\ Tried(c)' \in Nat
  <2>1. tries[c] \in Nat /\ Tried(c) \in Nat /\ Tried(c)' \in Nat /\ Cardinality(Asking(c)) \in Nat
    BY SizedNow, SizedNext DEF Sized
  <2>2. CASE r \in Asking(c)
    <3>1. Cardinality(Asking(c)') = Cardinality(Asking(c)) - 1
      BY <1>4, <2>2, Sizes
    <3> QED BY <1>5, <2>1, <2>2, <3>1 DEF Tried
  <2>3. CASE r \notin Asking(c)
    BY <1>4, <1>5, <2>1, <2>3 DEF Tried
  <2> QED BY <2>2, <2>3
<1>8. r \in Spent(c, E) => r \in Asking(c) \/ aborts' = aborts + 1
  BY DEF Spent, Asking, At
<1>9. aborts \in Nat /\ aborts' \in Nat /\ RankOf(p, E) \in Nat
       /\ B(Cardinality(Requests), MaxTries) \in Nat
  BY <1>0, SizedNow, SizedNext, BoundAssumption DEF Sized
<1> HIDE DEF E
<1> QED BY <1>1, <1>2, <1>6, <1>7, <1>8, <1>9

\* A failed verification that is saved is counted in the document from then on,
\* and the rank of the document is not lower for it.
LEMMA LiveSaved ==
    ASSUME TInv, TInv', KInv, NEW r \in Requests, SaveMiss(r),
           NEW p \in Phones, p = req[r].p, LiveOK(p)
    PROVE  LiveOK(p)'
<1> SUFFICES ASSUME NEW c \in Codes, user'[p].otp.code = c, NEW D \in SUBSET Requests
             PROVE  Tried(c)' + B(Cardinality(Requests), MaxTries)
                      <= aborts' + Cardinality(Spent(c, D)') + RankOf(p, D)'
  BY DEF LiveOK
<1> DEFINE E == D \ {r}
           W == Waiting(p, E)
<1>0. /\ req[r].op = "verify" /\ req[r].at = "miss" /\ UNCHANGED <<tries, aborts>>
      /\ req'[r] = Idle /\ \A s \in Requests : s # r => req'[s] = req[s]
      /\ Idle.op = "none" /\ Idle.at = "idle" /\ req[r].attempts >= 1
  <2>1. req \in [Requests -> ReqState] /\ CountOK(r)
    BY DEF TInv, TypeOK, KInv
  <2> QED BY <2>1 DEF SaveMiss, Finish, Idle, At, CountOK, history
<1>1. user[p].otp.code = c /\ user'[p].otp.attempts = req[r].attempts
  <2>1. user[p] \in UserDoc /\ user \in [Phones -> UserDoc]
    BY DEF TInv, TypeOK
  <2>2. user'[p].otp = [user[p].otp EXCEPT !.attempts = req[r].attempts]
    BY <2>1 DEF SaveMiss, UserDoc
  <2>3. user[p].otp \in Otp
    BY <2>1 DEF UserDoc
  <2> QED BY <2>2, <2>3 DEF Otp
<1>2. Tried(c) + B(Cardinality(Requests), MaxTries)
        <= aborts + Cardinality(Spent(c, E)) + RankOf(p, E)
  BY <1>1 DEF LiveOK
<1>3. Spent(c, D)' = Spent(c, E)
  BY <1>0 DEF Spent
<1>4. Tried(c)' = Tried(c)
  <2>1. Asking(c)' = Asking(c)
    BY <1>0 DEF Asking, At
  <2> QED BY <1>0, <2>1 DEF Tried
<1>5. RankOf(p, D)' >= RankOf(p, E)
  <2>1. Waiting(p, D)' = W \ {r} /\ r \in W
    BY <1>0 DEF Waiting
  <2>2. \A s \in W \ {r} : Attempts'[s] = Attempts[s]
    BY <1>0 DEF Waiting, Attempts
  <2>3. Attempts \in [Requests -> Nat] /\ Attempts' \in [Requests -> Nat]
        /\ W \in SUBSET Requests /\ W \ {r} \in SUBSET Requests /\ user[p].otp.attempts \in Nat
    BY SizedNow, SizedNext DEF Sized
  <2>4. Attempts[r] = req[r].attempts /\ Attempts[r] >= 1 /\ Attempts[r] \in Nat
    BY <1>0, <2>3 DEF Attempts
  <2> HIDE DEF W
  <2>5. Rank(W \ {r}, Attempts, Attempts[r]) >= Rank(W, Attempts, user[p].otp.attempts)
    BY <2>1, <2>3, <2>4, RankSave
  <2>6. Rank(W \ {r}, Attempts, Attempts[r]) = Rank(W \ {r}, Attempts', Attempts[r])
    BY <2>2, <2>3, <2>4, RankSame
  <2> QED BY <1>1, <2>1, <2>4, <2>5, <2>6 DEF RankOf, W
<1>6. aborts \in Nat /\ RankOf(p, E) \in Nat /\ RankOf(p, D)' \in Nat
      /\ B(Cardinality(Requests), MaxTries) \in Nat /\ Tried(c) \in Nat
      /\ Cardinality(Spent(c, E)) \in Nat
  BY SizedNow, SizedNext, BoundAssumption DEF Sized
<1> HIDE DEF E
<1> QED BY <1>0, <1>2, <1>3, <1>4, <1>5, <1>6

\* A verification that begins raises the rank, or is among those forgotten.
LEMMA LiveRead ==
    ASSUME TInv, TInv', NEW r \in Requests, NEW p \in Phones, NEW typed,
           StartVerify(r, p, typed), LiveOK(p)
    PROVE  LiveOK(p)'
<1> SUFFICES ASSUME NEW c \in Codes, user'[p].otp.code = c, NEW D \in SUBSET Requests
             PROVE  Tried(c)' + B(Cardinality(Requests), MaxTries)
                      <= aborts' + Cardinality(Spent(c, D)') + RankOf(p, D)'
  BY DEF LiveOK
<1> DEFINE a == user[p].otp.attempts
           one == IF a + 1 <= MaxTries THEN 1 ELSE 0
           W == Waiting(p, D)
<1>0. /\ req[r].op = "none" /\ req[r].at = "idle" /\ UNCHANGED <<tries, aborts, user>>
      /\ req'[r].op = "verify" /\ req'[r].p = p /\ req'[r].seen = c /\ req'[r].attempts = a + 1
      /\ req'[r].at = IF a + 1 > MaxTries THEN "miss" ELSE "ask"
      /\ \A s \in Requests : s # r => req'[s] = req[s]
      /\ user[p].otp.code = c /\ a \in Nat /\ MaxTries \in Nat
  <2>1. req \in [Requests -> ReqState] /\ UNCHANGED <<tries, aborts, user>>
    BY DEF TInv, TypeOK, StartVerify, history
  <2>2. req[r].at = "idle" /\ req[r].op = "none"
    BY InPlace DEF StartVerify
  <2>3. a \in Nat /\ MaxTries \in Nat
    BY SizedNow, BoundAssumption DEF Sized
  <2> QED BY <2>1, <2>2, <2>3 DEF StartVerify
<1>1. Tried(c) + B(Cardinality(Requests), MaxTries)
        <= aborts + Cardinality(Spent(c, D)) + RankOf(p, D)
  BY <1>0 DEF LiveOK
<1>2. Tried(c)' = Tried(c) + one
  <2>1. Asking(c)' = IF a + 1 <= MaxTries THEN Asking(c) \cup {r} ELSE Asking(c)
    BY <1>0 DEF Asking, At
  <2>2. Asking(c) \in SUBSET Requests /\ r \notin Asking(c)
    BY <1>0 DEF Asking, At
  <2>3. Cardinality(Asking(c) \cup {r}) = Cardinality(Asking(c)) + 1
    BY <2>2, Sizes
  <2>4. Cardinality(Asking(c)) \in Nat /\ tries[c] \in Nat
    BY SizedNow DEF Sized
  <2> HIDE DEF a
  <2> QED BY <1>0, <2>1, <2>3, <2>4 DEF Tried
<1>3. CASE r \in D
  <2>1. Spent(c, D)' = IF a + 1 <= MaxTries THEN Spent(c, D) \cup {r} ELSE Spent(c, D)
    BY <1>0, <1>3 DEF Spent
  <2>2. Spent(c, D) \in SUBSET Requests /\ r \notin Spent(c, D)
    BY <1>0 DEF Spent
  <2>3. Cardinality(Spent(c, D) \cup {r}) = Cardinality(Spent(c, D)) + 1
    BY <2>2, Sizes
  <2>4. Cardinality(Spent(c, D)') = Cardinality(Spent(c, D)) + one
    <3>1. Cardinality(Spent(c, D)) \in Nat
      BY SizedNow DEF Sized
    <3> HIDE DEF a
    <3> QED BY <2>1, <2>3, <3>1
  <2>5. RankOf(p, D)' = RankOf(p, D)
    <3>1. Waiting(p, D)' = W
      BY <1>0, <1>3 DEF Waiting
    <3>2. \A s \in W : Attempts'[s] = Attempts[s]
      BY <1>0, <1>3 DEF Waiting, Attempts
    <3>3. Attempts \in [Requests -> Nat] /\ Attempts' \in [Requests -> Nat] /\ W \in SUBSET Requests
      BY SizedNow, SizedNext DEF Sized
    <3> HIDE DEF W
    <3>4. Rank(W, Attempts, a) = Rank(W, Attempts', a)
      BY <1>0, <3>2, <3>3, RankSame
    <3> QED BY <1>0, <3>1, <3>4 DEF RankOf, W
  <2>6. aborts \in Nat /\ RankOf(p, D) \in Nat /\ one \in Nat /\ Tried(c) \in Nat
        /\ B(Cardinality(Requests), MaxTries) \in Nat /\ Cardinality(Spent(c, D)) \in Nat
    BY SizedNow, BoundAssumption DEF Sized
  <2> HIDE DEF one
  <2> QED BY <1>0, <1>1, <1>2, <2>4, <2>5, <2>6
<1>4. CASE r \notin D
  <2>1. Spent(c, D)' = Spent(c, D)
    BY <1>0, <1>4 DEF Spent
  <2>2. RankOf(p, D)' = RankOf(p, D) + one
    <3>1. Waiting(p, D)' = W \cup {r} /\ r \notin W
      BY <1>0, <1>4 DEF Waiting
    <3>2. \A s \in W : Attempts[s] = Attempts'[s]
      BY <1>0 DEF Waiting, Attempts
    <3>3. Attempts \in [Requests -> Nat] /\ Attempts' \in [Requests -> Nat] /\ W \in SUBSET Requests
      BY SizedNow, SizedNext DEF Sized
    <3>4. Attempts'[r] = a + 1
      BY <1>0 DEF Attempts
    <3> HIDE DEF W, a
    <3>5. Rank(W \cup {r}, Attempts', a) = Rank(W, Attempts, a) + one
      BY <1>0, <3>1, <3>2, <3>3, <3>4, RankRead
    <3> HIDE DEF one
    <3>6. user'[p].otp.attempts = a
      BY <1>0 DEF a
    <3> QED BY <1>0, <3>1, <3>5, <3>6 DEF RankOf, W, a
  <2>3. aborts \in Nat /\ RankOf(p, D) \in Nat /\ one \in Nat /\ Tried(c) \in Nat
        /\ B(Cardinality(Requests), MaxTries) \in Nat /\ Cardinality(Spent(c, D)) \in Nat
    BY SizedNow, BoundAssumption DEF Sized
  <2> HIDE DEF one
  <2> QED BY <1>0, <1>1, <1>2, <2>1, <2>2, <2>3
<1> QED BY <1>3, <1>4

\* A code that is stored has not been tried, and its rank is the least there is.
LEMMA LiveStored ==
    ASSUME TInv, TInv', KInv, FreshOK, NEW r \in Requests, SaveCode(r),
           NEW p \in Phones, p = req[r].p
    PROVE  LiveOK(p)'
<1> SUFFICES ASSUME NEW c \in Codes, user'[p].otp.code = c, NEW D \in SUBSET Requests
             PROVE  Tried(c)' + B(Cardinality(Requests), MaxTries)
                      <= aborts' + Cardinality(Spent(c, D)') + RankOf(p, D)'
  BY DEF LiveOK
<1> DEFINE W == Waiting(p, D)'
<1>0. /\ req[r].op = "send" /\ req[r].at = "save" /\ UNCHANGED <<tries, aborts>>
      /\ user'[p].otp = [code |-> req[r].code, attempts |-> 0] /\ c = req[r].code
      /\ req'[r].op = "send" /\ \A s \in Requests : s # r => req'[s] = req[s]
  <2>1. req \in [Requests -> ReqState] /\ user \in [Phones -> UserDoc]
    BY DEF TInv, TypeOK
  <2>2. user'[p].otp = [code |-> req[r].code, attempts |-> 0]
    BY <2>1 DEF SaveCode, UserDoc
  <2>3. req[r] \in ReqState
    BY <2>1
  <2> QED BY <2>1, <2>2, <2>3 DEF SaveCode, At, Goto, ReqState
<1>1. Unseen(c)
  BY <1>0 DEF FreshOK, At
<1>2. Tried(c)' = 0
  <2>1. Asking(c)' = {}
    BY <1>0, <1>1 DEF Unseen, Asking, At
  <2> QED BY <1>0, <1>1, <2>1, FS_EmptySet DEF Tried, Unseen
<1>3. RankOf(p, D)' >= B(Cardinality(Requests), MaxTries)
  <2>1. Attempts' \in [Requests -> Nat] /\ W \in SUBSET Requests
    BY SizedNext DEF Sized
  <2>2. ASSUME NEW s \in W PROVE Attempts'[s] >= 1
    <3>1. s \in Requests /\ req'[s].op = "verify"
      BY DEF Waiting
    <3>2. req'[s] = req[s] /\ CountOK(s)
      BY <1>0, <3>1 DEF KInv
    <3> QED BY <3>1, <3>2 DEF CountOK, Attempts
  <2> HIDE DEF W
  <2>3. Rank(W, Attempts', 0) >= B(Cardinality(Requests), MaxTries)
    BY <2>1, <2>2, RankFresh
  <2> QED BY <1>0, <2>3 DEF RankOf, W
<1>4. aborts' \in Nat /\ RankOf(p, D)' \in Nat /\ Cardinality(Spent(c, D)') \in Nat
      /\ B(Cardinality(Requests), MaxTries) \in Nat
  BY SizedNow, SizedNext, BoundAssumption DEF Sized
<1> QED BY <1>2, <1>3, <1>4

\* A step that is about no verification and stores no code.
Aside == /\ \A p \in Phones : user'[p].otp = user[p].otp
         /\ tries' = tries /\ aborts' >= aborts
         /\ \A s \in Requests : req[s].op = "verify" \/ req'[s].op = "verify" => req'[s] = req[s]

\* A verification that dies.
Dies(r) == /\ req[r].op = "verify" /\ Finish(r) /\ UNCHANGED <<user, tries>>
           /\ (req[r].at = "ask" /\ aborts' = aborts) \/ aborts' = aborts + 1

\* What a step is to the counting of tries.
LEMMA Kinds ==
    ASSUME TInv, [Next]_vars
    PROVE  \/ Aside
           \/ \E r \in Requests :
                \/ SaveCode(r) \/ Confirm(r) \/ Mismatch(r) \/ SaveMiss(r) \/ SaveAccept(r) \/ Dies(r)
                \/ \E p \in Phones : \E typed \in received[p] \cup {NoCode} : StartVerify(r, p, typed)
<1>0. req \in [Requests -> ReqState] /\ user \in [Phones -> UserDoc] /\ aborts \in Nat
  BY SizedNow DEF Sized, TInv, TypeOK
<1>1. ASSUME NEW r \in Requests, NEW p \in Phones, NEW op \in {"send", "forgot"}, Draw(r, op, p)
      PROVE  Aside
  <2>1. /\ UNCHANGED <<user, tries, aborts>> /\ req'[r].op = op /\ req[r].op = "none"
        /\ \A s \in Requests : s # r => req'[s] = req[s]
    BY <1>0, <1>1, InPlace DEF Draw, Idle, history
  <2> QED BY <1>0, <2>1 DEF Aside
<1>2. ASSUME NEW r \in Requests, Collide(r) \/ Audit(r) PROVE Aside
  <2>1. /\ UNCHANGED <<user, tries, aborts>> /\ req'[r].op = "none" /\ req[r].op # "verify"
        /\ \A s \in Requests : s # r => req'[s] = req[s]
    <3>1. RequestOK(r)
      BY DEF TInv, RequestsOK
    <3> QED BY <1>0, <1>2, <3>1 DEF Collide, Audit, At, Finish, Idle, history, RequestOK
  <2> QED BY <1>0, <2>1 DEF Aside
<1>3. ASSUME NEW r \in Requests, Sms(r) PROVE Aside
  <2>1. req[r] \in ReqState /\ req[r].op \in {"send", "forgot"}
    BY <1>0, <1>3, InPlace DEF Sms
  <2>2. /\ UNCHANGED <<user, tries, aborts>> /\ req'[r].op # "verify"
        /\ \A s \in Requests : s # r => req'[s] = req[s]
    BY <1>0, <1>3, <2>1 DEF Sms, Finish, Goto, Idle, history, ReqState
  <2> QED BY <1>0, <2>1, <2>2 DEF Aside
<1>4. ASSUME NEW r \in Requests, SaveReset(r) PROVE Aside
  <2>1. /\ UNCHANGED <<tries, aborts>> /\ req'[r].op # "verify" /\ req[r].op # "verify"
        /\ \A s \in Requests : s # r => req'[s] = req[s]
    BY <1>0, <1>4 DEF SaveReset, At, Goto, history, ReqState
  <2>2. \A p \in Phones : user'[p].otp = user[p].otp
    BY <1>0, <1>4 DEF SaveReset, UserDoc
  <2> QED BY <1>0, <2>1, <2>2 DEF Aside
<1>5. ASSUME NEW r \in Requests, SmsFails(r) \/ Abort(r) PROVE Aside \/ Dies(r)
  <2>1. /\ UNCHANGED <<user, tries>> /\ Finish(r) /\ req'[r].op = "none"
        /\ (aborts' = aborts /\ req[r].at \in {"sms", "ask"}) \/ aborts' = aborts + 1
        /\ \A s \in Requests : s # r => req'[s] = req[s]
    BY <1>0, <1>5 DEF SmsFails, Abort, Finish, Idle, history
  <2>2. CASE req[r].op = "verify"
    <3>1. req[r].at # "sms"
      BY <2>2, InPlace
    <3> QED BY <2>1, <2>2, <3>1 DEF Dies
  <2>3. CASE req[r].op # "verify"
    BY <1>0, <2>1, <2>3 DEF Aside
  <2> QED BY <2>2, <2>3
<1>6. CASE Expire \/ UNCHANGED vars
  BY <1>0, <1>6 DEF Expire, vars, history, Aside
<1> QED
  BY <1>1, <1>2, <1>3, <1>4, <1>5, <1>6 DEF Next, Arrive, Continue, StartSend, StartForgot

\* A code to be stored is an old one of the same request, or new.
NewOrKept ==
    /\ lastCode \in Nat /\ lastCode' \in Nat /\ lastCode' >= lastCode
    /\ \A s \in Requests : At(s, "send", "save")' =>
          req'[s] = req[s] \/ (req'[s].code \in Codes /\ req'[s].code > lastCode)

\* Every step is so.
LEMMA Drawn == ASSUME TInv, [Next]_vars PROVE NewOrKept
<1>0. req \in [Requests -> ReqState] /\ lastCode \in Nat /\ MaxCodes \in Nat
  BY BoundAssumption DEF TInv, TypeOK
<1>1. ASSUME NEW r \in Requests, NEW p \in Phones, NEW op \in {"send", "forgot"}, Draw(r, op, p)
      PROVE  NewOrKept
  <2>1. lastCode + 1 \in Codes
    BY <1>0, <1>1 DEF Draw, Codes
  <2>2. req'[r].code = lastCode + 1 /\ \A s \in Requests : s # r => req'[s] = req[s]
    BY <1>0, <1>1 DEF Draw, Idle
  <2>3. lastCode' = lastCode + 1
    BY <1>1 DEF Draw
  <2>4. req'[r].code \in Codes /\ req'[r].code > lastCode
    BY <1>0, <2>1, <2>2
  <2> QED BY <1>0, <2>2, <2>3, <2>4 DEF NewOrKept
<1>2. ASSUME NEW r \in Requests, \A s \in Requests : s # r => req'[s] = req[s],
             req'[r].at # "save", lastCode' = lastCode
      PROVE  NewOrKept
  BY <1>0, <1>2 DEF At, NewOrKept
<1>3. ASSUME NEW r \in Requests, NEW a, Goto(r, a), a # "save", lastCode' = lastCode
      PROVE  NewOrKept
  <2>1. req'[r].at # "save" /\ \A s \in Requests : s # r => req'[s] = req[s]
    BY <1>0, <1>3 DEF Goto, ReqState
  <2> QED BY <1>2, <1>3, <2>1
<1>4. ASSUME NEW r \in Requests, Finish(r), lastCode' = lastCode
      PROVE  NewOrKept
  <2>1. req'[r].at # "save" /\ \A s \in Requests : s # r => req'[s] = req[s]
    BY <1>0, <1>4 DEF Finish, Idle
  <2> QED BY <1>2, <1>4, <2>1
<1>5. ASSUME NEW r \in Requests, NEW p \in Phones, NEW typed, StartVerify(r, p, typed)
      PROVE  NewOrKept
  <2>1. req'[r].at # "save" /\ \A s \in Requests : s # r => req'[s] = req[s]
    BY <1>0, <1>5 DEF StartVerify
  <2> QED BY <1>2, <1>5, <2>1 DEF StartVerify, outside
<1>6. ASSUME NEW r \in Requests, SaveCode(r) \/ SaveReset(r) \/ Confirm(r) \/ Mismatch(r)
      PROVE  NewOrKept
  <2>1. Goto(r, "sms") \/ Goto(r, "accept") \/ Goto(r, "miss")
    BY <1>6 DEF SaveCode, SaveReset, Confirm, Mismatch
  <2>2. lastCode' = lastCode
    BY <1>6 DEF SaveCode, SaveReset, Confirm, Mismatch, outside
  <2> QED BY <1>3, <2>1, <2>2
<1>7. ASSUME NEW r \in Requests, Sms(r)
      PROVE  NewOrKept
  <2>1. Goto(r, "audit") \/ Finish(r)
    BY <1>7 DEF Sms
  <2> QED BY <1>3, <1>4, <1>7, <2>1 DEF Sms
<1>8. ASSUME NEW r \in Requests,
             Collide(r) \/ SmsFails(r) \/ Audit(r) \/ SaveMiss(r) \/ SaveAccept(r) \/ Abort(r)
      PROVE  NewOrKept
  <2>1. Finish(r) /\ lastCode' = lastCode
    BY <1>8 DEF Collide, SmsFails, Audit, SaveMiss, SaveAccept, Abort, outside
  <2> QED BY <1>4, <2>1
<1>9. CASE Expire \/ UNCHANGED vars
  <2>1. lastCode' = lastCode /\ req' = req
    BY <1>9 DEF Expire, vars, outside
  <2> QED BY <1>0, <2>1 DEF NewOrKept
<1> QED
  BY <1>0, <1>1, <1>5, <1>6, <1>7, <1>8, <1>9 DEF Next, Arrive, Continue, StartSend, StartForgot

\* A code stays untried in a step that neither stores it nor tries it.
LEMMA UnseenKept ==
    ASSUME NEW c \in Codes, Unseen(c), tries'[c] = tries[c],
           \A p \in Phones : user'[p].otp.code \in {user[p].otp.code, NoCode},
           \A s \in Requests : req'[s].op = "verify" =>
              req[s].op = "verify" /\ req'[s].seen = req[s].seen
    PROVE  Unseen(c)'
<1>1. c # NoCode
  BY DEF Codes, NoCode
<1> QED BY <1>1 DEF Unseen

\* What a step leaves alone, when it stores no code and begins no verification.
LEMMA Settled ==
    ASSUME TInv, [Next]_vars,
           \/ Aside
           \/ \E r \in Requests : Confirm(r) \/ Mismatch(r) \/ SaveMiss(r) \/ SaveAccept(r) \/ Dies(r)
    PROVE  /\ \A p \in Phones : user'[p].otp.code \in {user[p].otp.code, NoCode}
           /\ \A s \in Requests : req'[s].op = "verify" =>
                 /\ req[s].op = "verify" /\ req'[s].seen = req[s].seen /\ req'[s].p = req[s].p
                 /\ req'[s].attempts = req[s].attempts
           /\ \A c \in Codes : Unseen(c) => tries'[c] = tries[c]
           /\ \A c \in Codes : Tried(c)' <= Tried(c)
           /\ aborts' >= aborts
<1>0. /\ req \in [Requests -> ReqState] /\ user \in [Phones -> UserDoc] /\ aborts \in Nat
      /\ tries \in [Codes -> Nat]
      /\ \A c \in Codes : /\ tries[c] \in Nat /\ Tried(c) \in Nat
                          /\ Asking(c) \in SUBSET Requests /\ Cardinality(Asking(c)) \in Nat
  BY SizedNow DEF Sized, TInv, TypeOK, Asking
<1>1. ASSUME NEW c \in Codes, tries'[c] = tries[c], Asking(c)' \in SUBSET Asking(c)
      PROVE  Tried(c)' <= Tried(c)
  <2>1. Asking(c) \in SUBSET Requests /\ Asking(c)' \in SUBSET Requests
    BY <1>0, <1>1
  <2>2. Cardinality(Asking(c)') <= Cardinality(Asking(c)) /\ Cardinality(Asking(c)') \in Nat
    BY <1>1, <2>1, Sizes
  <2> QED BY <1>0, <1>1, <2>2 DEF Tried
<1>2. CASE Aside
  <2>1. ASSUME NEW c \in Codes PROVE Tried(c)' <= Tried(c)
    <3>1. Asking(c)' \in SUBSET Asking(c) /\ tries'[c] = tries[c]
      BY <1>2 DEF Aside, Asking, At
    <3> QED BY <1>1, <3>1
  <2> QED BY <1>2, <2>1 DEF Aside
<1>3. ASSUME NEW r \in Requests, SaveMiss(r) \/ SaveAccept(r) \/ Dies(r)
      PROVE  /\ \A s \in Requests : req'[s].op = "verify" => req'[s] = req[s]
             /\ tries' = tries /\ \A c \in Codes : Tried(c)' <= Tried(c)
             /\ aborts' >= aborts
  <2>1. /\ tries' = tries /\ req'[r].op = "none" /\ req'[r].at = "idle"
        /\ \A s \in Requests : s # r => req'[s] = req[s]
        /\ aborts' = aborts \/ aborts' = aborts + 1
    BY <1>0, <1>3 DEF SaveMiss, SaveAccept, Dies, Finish, Idle, history
  <2>2. ASSUME NEW c \in Codes PROVE Tried(c)' <= Tried(c)
    <3>1. Asking(c)' \in SUBSET Asking(c)
      BY <2>1 DEF Asking, At
    <3> QED BY <1>1, <2>1, <3>1
  <2> QED BY <1>0, <2>1, <2>2
<1>4. ASSUME NEW r \in Requests, SaveMiss(r) PROVE \A p \in Phones : user'[p].otp.code = user[p].otp.code
  BY <1>0, <1>4 DEF SaveMiss, UserDoc, Otp
<1>5. ASSUME NEW r \in Requests, SaveAccept(r)
      PROVE  \A p \in Phones : user'[p].otp.code \in {user[p].otp.code, NoCode}
  BY <1>0, <1>5 DEF SaveAccept, UserDoc, NoOtp
<1>6. ASSUME NEW r \in Requests, Confirm(r) \/ Mismatch(r)
      PROVE  /\ user' = user /\ aborts' = aborts
             /\ \A s \in Requests : req'[s].op = "verify" =>
                 /\ req[s].op = "verify" /\ req'[s].seen = req[s].seen /\ req'[s].p = req[s].p
                 /\ req'[s].attempts = req[s].attempts
             /\ \A c \in Codes : Unseen(c) => tries'[c] = tries[c]
             /\ \A c \in Codes : Tried(c)' <= Tried(c)
  <2>1. req[r] \in ReqState /\ req[r].op = "verify" /\ req[r].at = "ask" /\ req[r].seen \in Codes
    BY <1>0, <1>6, InPlace DEF Confirm, Mismatch, At
  <2>2. /\ req'[r].op = "verify" /\ req'[r].seen = req[r].seen /\ req'[r].p = req[r].p
        /\ req'[r].attempts = req[r].attempts /\ req'[r].at # "ask"
        /\ \A s \in Requests : s # r => req'[s] = req[s]
        /\ user' = user /\ aborts' = aborts
        /\ tries' = [tries EXCEPT ![req[r].seen] = @ + 1]
    BY <1>0, <1>6, <2>1 DEF Confirm, Mismatch, Goto, Try, ReqState
  <2>3. ASSUME NEW c \in Codes PROVE /\ Unseen(c) => tries'[c] = tries[c]
                                     /\ Tried(c)' <= Tried(c)
    <3>1. CASE c = req[r].seen
      <4>1. ~Unseen(c)
        BY <2>1, <3>1 DEF Unseen
      <4>2. Asking(c)' = Asking(c) \ {r} /\ r \in Asking(c)
        BY <2>1, <2>2, <3>1 DEF Asking, At
      <4>3. Cardinality(Asking(c)') = Cardinality(Asking(c)) - 1
        BY <1>0, <4>2, Sizes
      <4>4. tries'[c] = tries[c] + 1
        BY <1>0, <2>2, <3>1
      <4> QED BY <1>0, <4>1, <4>3, <4>4 DEF Tried
    <3>2. CASE c # req[r].seen
      <4>1. tries'[c] = tries[c]
        BY <1>0, <2>2, <3>2
      <4>2. Asking(c)' \in SUBSET Asking(c)
        BY <2>2, <3>2 DEF Asking, At
      <4> QED BY <1>1, <4>1, <4>2
    <3> QED BY <3>1, <3>2
  <2>4. \A s \in Requests : req'[s].op = "verify" =>
           /\ req[s].op = "verify" /\ req'[s].seen = req[s].seen /\ req'[s].p = req[s].p
           /\ req'[s].attempts = req[s].attempts
    BY <2>1, <2>2
  <2> QED BY <2>2, <2>3, <2>4
<1>7. ASSUME NEW r \in Requests, Dies(r) PROVE user' = user
  BY <1>7 DEF Dies
<1> QED BY <1>0, <1>2, <1>3, <1>4, <1>5, <1>6, <1>7

\* Codes stay untried until they are stored.
LEMMA FreshKept == TInv /\ UInv /\ FreshOK /\ [Next]_vars => FreshOK'
<1> SUFFICES ASSUME TInv, UInv, FreshOK, [Next]_vars PROVE FreshOK'
  OBVIOUS
<1>0. NewOrKept /\ \A r \in Requests : req[r].op = "send" => req[r].code \in Codes /\ req[r].code <= lastCode
  BY Drawn, InPlace
<1>1. ASSUME \A c \in Codes :
               /\ Unseen(c)
               /\ \/ c > lastCode
                  \/ \E s \in Requests : At(s, "send", "save") /\ req'[s] = req[s] /\ req[s].code = c
               => Unseen(c)'
      PROVE  FreshOK'
  <2>1. ASSUME NEW c \in Codes, c > lastCode' PROVE Unseen(c)'
    <3>1. c > lastCode
      BY <1>0, <2>1 DEF NewOrKept, Codes
    <3> QED BY <1>1, <2>1, <3>1 DEF FreshOK
  <2>2. ASSUME NEW s \in Requests, At(s, "send", "save")' , NEW c, c = req'[s].code PROVE Unseen(c)'
    <3>1. CASE req'[s] = req[s]
      <4>1. At(s, "send", "save")
        BY <2>2, <3>1 DEF At
      <4>2. Unseen(c) /\ c \in Codes
        BY <1>0, <2>2, <3>1, <4>1 DEF FreshOK, At
      <4> QED BY <1>1, <2>2, <3>1, <4>1, <4>2
    <3>2. CASE req'[s].code \in Codes /\ req'[s].code > lastCode
      BY <1>1, <2>2, <3>2 DEF FreshOK
    <3> QED BY <1>0, <2>2, <3>1, <3>2 DEF NewOrKept
  <2>3. ASSUME NEW s \in Requests, At(s, "send", "save")' PROVE Unseen(req[s].code)'
    BY <2>2, <2>3 DEF Unseen
  <2> QED BY <2>1, <2>3 DEF FreshOK
<1>2. CASE \/ Aside
           \/ \E r \in Requests : Confirm(r) \/ Mismatch(r) \/ SaveMiss(r) \/ SaveAccept(r) \/ Dies(r)
  <2>1. ASSUME NEW c \in Codes, Unseen(c) PROVE Unseen(c)'
    BY <1>2, <2>1, Settled, UnseenKept
  <2> QED BY <1>1, <2>1
<1>3. ASSUME NEW r \in Requests, SaveCode(r) PROVE FreshOK'
  <2>0. req \in [Requests -> ReqState] /\ user \in [Phones -> UserDoc]
    BY DEF TInv, TypeOK
  <2>1. /\ req[r].op = "send" /\ req[r].at = "save" /\ tries' = tries
        /\ req'[r].op = "send" /\ req'[r] # req[r]
        /\ \A s \in Requests : s # r => req'[s] = req[s]
    BY <1>3, <2>0 DEF SaveCode, At, Goto, ReqState
  <2>2. \A p \in Phones : user'[p].otp.code \in {user[p].otp.code, req[r].code}
    BY <1>3, <2>0 DEF SaveCode, UserDoc
  <2>3. ASSUME NEW c \in Codes, Unseen(c),
               \/ c > lastCode
               \/ \E s \in Requests : At(s, "send", "save") /\ req'[s] = req[s] /\ req[s].code = c
        PROVE  Unseen(c)'
    <3>1. c # req[r].code
      <4>1. CASE c > lastCode
        BY <1>0, <2>1, <4>1 DEF NewOrKept, Codes
      <4>2. CASE \E s \in Requests : At(s, "send", "save") /\ req'[s] = req[s] /\ req[s].code = c
        <5>1. PICK s \in Requests : At(s, "send", "save") /\ req'[s] = req[s] /\ req[s].code = c
          BY <4>2
        <5>2. Sending(s) /\ Sending(r) /\ SendingOK(r) /\ s # r
          BY <2>1, <5>1 DEF Sending, At, UInv
        <5> QED BY <5>1, <5>2 DEF SendingOK
      <4> QED BY <2>3, <4>1, <4>2
    <3> QED BY <2>1, <2>2, <2>3, <3>1 DEF Unseen
  <2> QED BY <1>1, <2>3
<1>4. ASSUME NEW r \in Requests, NEW p \in Phones, NEW typed, StartVerify(r, p, typed) PROVE FreshOK'
  <2>0. req \in [Requests -> ReqState]
    BY DEF TInv, TypeOK
  <2>1. /\ user' = user /\ tries' = tries /\ req'[r].seen = user[p].otp.code
        /\ \A s \in Requests : s # r => req'[s] = req[s]
    BY <1>4, <2>0 DEF StartVerify, history
  <2>2. ASSUME NEW c \in Codes, Unseen(c) PROVE Unseen(c)'
    BY <2>1, <2>2 DEF Unseen
  <2> QED BY <1>1, <2>2
<1> QED BY <1>2, <1>3, <1>4, Kinds

\* A code is tried for the number that it was drawn for.
LEMMA SeenKept ==
    TInv /\ UInv /\ FreshOK /\ (\A r \in Requests : SeenOK(r)) /\ [Next]_vars
      => \A r \in Requests : SeenOK(r)'
<1> SUFFICES ASSUME TInv, UInv, FreshOK, \A r \in Requests : SeenOK(r), [Next]_vars,
                    NEW s \in Requests, req'[s].op = "verify",
                    NEW q \in Phones, user'[q].otp.code = req'[s].seen
             PROVE  q = req'[s].p
  BY DEF SeenOK
<1>0. req \in [Requests -> ReqState] /\ user \in [Phones -> UserDoc]
  BY DEF TInv, TypeOK
<1>1. CASE \/ Aside
           \/ \E r \in Requests : Confirm(r) \/ Mismatch(r) \/ SaveMiss(r) \/ SaveAccept(r) \/ Dies(r)
  <2>1. /\ user'[q].otp.code \in {user[q].otp.code, NoCode}
        /\ req[s].op = "verify" /\ req'[s].seen = req[s].seen /\ req'[s].p = req[s].p
    BY <1>1, Settled
  <2>2. req[s].seen \in Codes /\ NoCode \notin Codes
    BY <2>1, InPlace
  <2> QED BY <2>1, <2>2 DEF SeenOK
<1>2. ASSUME NEW r \in Requests, SaveCode(r) PROVE q = req'[s].p
  <2>1. /\ At(r, "send", "save") /\ req'[r].op = "send"
        /\ \A t \in Requests : t # r => req'[t] = req[t]
    BY <1>0, <1>2 DEF SaveCode, At, Goto, ReqState
  <2>2. user'[q].otp.code \in {user[q].otp.code, req[r].code}
    BY <1>0, <1>2 DEF SaveCode, UserDoc
  <2>3. req'[s] = req[s] /\ Unseen(req[r].code)
    BY <2>1 DEF FreshOK
  <2> QED BY <2>2, <2>3 DEF SeenOK, Unseen
<1>3. ASSUME NEW r \in Requests, NEW p \in Phones, NEW typed, StartVerify(r, p, typed)
      PROVE  q = req'[s].p
  <2>1. /\ user' = user /\ req'[r].seen = user[p].otp.code /\ req'[r].p = p
        /\ \A t \in Requests : t # r => req'[t] = req[t]
    BY <1>0, <1>3 DEF StartVerify
  <2>2. CASE s = r
    <3>1. user[p].otp.code \in Codes
      <4>1. user[p].otp.code \in Codes \cup {NoCode}
        BY SizedNow DEF Sized
      <4> QED BY <1>3, <4>1 DEF StartVerify, Pending
    <3> QED BY <2>1, <2>2, <3>1 DEF UInv, CodesApart, Has
  <2>3. CASE s # r
    BY <2>1, <2>3 DEF SeenOK
  <2> QED BY <2>2, <2>3
<1> QED BY <1>1, <1>2, <1>3, Kinds

\* The rank of what is stored keeps up with the tries.
LEMMA LiveKept == IInv /\ FInv /\ [Next]_vars => \A p \in Phones : LiveOK(p)'
<1> SUFFICES ASSUME IInv, FInv, [Next]_vars, NEW p \in Phones PROVE LiveOK(p)'
  OBVIOUS
<1>0. /\ TInv /\ UInv /\ KInv /\ TInv' /\ LiveOK(p) /\ FreshOK
      /\ req \in [Requests -> ReqState] /\ user \in [Phones -> UserDoc]
      /\ \A c \in Codes : Tried(c) \in Nat
      /\ aborts \in Nat
  <2>1. TInv /\ UInv /\ KInv /\ LiveOK(p) /\ FreshOK
    BY DEF IInv, FInv
  <2>2. TInv'
    BY <2>1, TypeKept
  <2> QED BY <2>1, <2>2, SizedNow DEF Sized, TInv, TypeOK
<1>1. CASE Aside
  <2>1. ASSUME NEW c \in Codes PROVE Tried(c)' <= Tried(c)
    BY <1>0, <1>1, Settled
  <2>2. ASSUME NEW c \in Codes, user[p].otp.code = c
        PROVE  /\ Tried(c)' <= Tried(c)
               /\ \A s \in Requests :
                   /\ req'[s].op = "verify" /\ req'[s].p = p <=> req[s].op = "verify" /\ req[s].p = p
                   /\ req'[s].op = "verify" /\ req'[s].seen = c
                        <=> req[s].op = "verify" /\ req[s].seen = c
                   /\ req[s].op = "verify" /\ (req[s].p = p \/ req[s].seen = c)
                        => req'[s].attempts = req[s].attempts
    BY <1>1, <2>1 DEF Aside
  <2>3. user'[p].otp = user[p].otp /\ aborts' >= aborts
    BY <1>1 DEF Aside
  <2> QED BY <1>0, <2>2, <2>3, LiveFrame
<1>2. ASSUME NEW r \in Requests, Confirm(r) \/ Mismatch(r) PROVE LiveOK(p)'
  <2>1. /\ user' = user /\ aborts' = aborts
        /\ \A s \in Requests : /\ req'[s].op = req[s].op /\ req'[s].p = req[s].p
                               /\ req'[s].seen = req[s].seen /\ req'[s].attempts = req[s].attempts
    BY <1>0, <1>2 DEF Confirm, Mismatch, Goto, ReqState
  <2>2. \A c \in Codes : Tried(c)' <= Tried(c)
    BY <1>0, <1>2, Settled
  <2> QED BY <1>0, <2>1, <2>2, LiveFrame
<1>3. ASSUME NEW r \in Requests, Dies(r) PROVE LiveOK(p)'
  BY <1>0, <1>3, LiveDropped DEF Dies
<1>4. ASSUME NEW r \in Requests, SaveMiss(r) \/ SaveAccept(r), p # req[r].p PROVE LiveOK(p)'
  <2>1. /\ user'[p] = user[p] /\ aborts' = aborts /\ req[r].op = "verify"
        /\ req'[r].op = "none" /\ \A s \in Requests : s # r => req'[s] = req[s]
    BY <1>0, <1>4 DEF SaveMiss, SaveAccept, At, Finish, Idle
  <2>2. \A c \in Codes : Tried(c)' <= Tried(c)
    BY <1>0, <1>4, Settled
  <2>3. user[p].otp.code # req[r].seen
    BY <1>4, <2>1 DEF FInv, SeenOK
  <2>4. ASSUME NEW c \in Codes, user[p].otp.code = c, NEW s \in Requests
        PROVE  /\ req'[s].op = "verify" /\ req'[s].p = p <=> req[s].op = "verify" /\ req[s].p = p
               /\ req'[s].op = "verify" /\ req'[s].seen = c
                        <=> req[s].op = "verify" /\ req[s].seen = c
               /\ req[s].op = "verify" /\ (req[s].p = p \/ req[s].seen = c)
                        => req'[s].attempts = req[s].attempts
    BY <1>4, <2>1, <2>3, <2>4
  <2> QED BY <1>0, <2>1, <2>2, <2>4, LiveFrame
<1>5. ASSUME NEW r \in Requests, SaveMiss(r), p = req[r].p PROVE LiveOK(p)'
  BY <1>0, <1>5, LiveSaved
<1>6. ASSUME NEW r \in Requests, SaveAccept(r), p = req[r].p PROVE LiveOK(p)'
  <2>1. user'[p].otp.code = NoCode
    BY <1>0, <1>6 DEF SaveAccept, UserDoc, NoOtp
  <2> QED BY <2>1 DEF LiveOK, Codes, NoCode
<1>7. ASSUME NEW r \in Requests, SaveCode(r), p # req[r].p PROVE LiveOK(p)'
  <2>1. /\ user'[p] = user[p] /\ aborts' = aborts /\ req[r].op = "send" /\ tries' = tries
        /\ req'[r].op = "send" /\ \A s \in Requests : s # r => req'[s] = req[s]
    BY <1>0, <1>7 DEF SaveCode, At, Goto, ReqState
  <2>2. ASSUME NEW c \in Codes PROVE Tried(c)' <= Tried(c)
    <3>1. Asking(c)' = Asking(c)
      BY <2>1 DEF Asking, At
    <3> QED BY <1>0, <2>1, <3>1 DEF Tried
  <2>3. ASSUME NEW c \in Codes, user[p].otp.code = c, NEW s \in Requests
        PROVE  /\ req'[s].op = "verify" /\ req'[s].p = p <=> req[s].op = "verify" /\ req[s].p = p
               /\ req'[s].op = "verify" /\ req'[s].seen = c
                        <=> req[s].op = "verify" /\ req[s].seen = c
               /\ req[s].op = "verify" /\ (req[s].p = p \/ req[s].seen = c)
                        => req'[s].attempts = req[s].attempts
    BY <2>1
  <2> QED BY <1>0, <2>1, <2>2, <2>3, LiveFrame
<1>8. ASSUME NEW r \in Requests, SaveCode(r), p = req[r].p PROVE LiveOK(p)'
  BY <1>0, <1>8, LiveStored
<1>9. ASSUME NEW r \in Requests, NEW typed, NEW q \in Phones, StartVerify(r, q, typed) PROVE LiveOK(p)'
  <2>1. CASE q = p
    BY <1>0, <1>9, <2>1, LiveRead
  <2>2. CASE q # p
    <3>1. /\ user' = user /\ aborts' = aborts /\ tries' = tries /\ req[r].op = "none"
          /\ req'[r].p = q /\ req'[r].seen = user[q].otp.code
          /\ \A s \in Requests : s # r => req'[s] = req[s]
      <4>1. req[r].op = "none"
        BY <1>0, <1>9, InPlace DEF StartVerify
      <4> QED BY <1>0, <1>9, <4>1 DEF StartVerify, history
    <3>2. ASSUME NEW c \in Codes, user[p].otp.code = c PROVE c # user[q].otp.code
      BY <1>0, <2>2, <3>2 DEF UInv, CodesApart, Has
    <3>3. ASSUME NEW c \in Codes, user[p].otp.code = c PROVE Tried(c)' <= Tried(c)
      <4>1. Asking(c)' = Asking(c)
        BY <3>1, <3>2, <3>3 DEF Asking, At
      <4> QED BY <1>0, <3>1, <4>1 DEF Tried
    <3>4. ASSUME NEW c \in Codes, user[p].otp.code = c, NEW s \in Requests
          PROVE  /\ req'[s].op = "verify" /\ req'[s].p = p <=> req[s].op = "verify" /\ req[s].p = p
                 /\ req'[s].op = "verify" /\ req'[s].seen = c
                          <=> req[s].op = "verify" /\ req[s].seen = c
                 /\ req[s].op = "verify" /\ (req[s].p = p \/ req[s].seen = c)
                          => req'[s].attempts = req[s].attempts
      BY <2>2, <3>1, <3>2, <3>4
    <3> QED BY <1>0, <3>1, <3>3, <3>4, LiveFrame
  <2> QED BY <2>1, <2>2
<1> QED BY <1>0, <1>1, <1>2, <1>3, <1>4, <1>5, <1>6, <1>7, <1>8, <1>9, Kinds

\* No step lets a code be tried too often.
LEMMA BoundKept ==
    IInv /\ FInv /\ (\A p \in Phones : LiveOK(p)') /\ [Next]_vars => \A c \in Codes : BoundOK(c)'
<1> SUFFICES ASSUME IInv, FInv, \A p \in Phones : LiveOK(p)', [Next]_vars, NEW c \in Codes
             PROVE  BoundOK(c)'
  OBVIOUS
<1>0. /\ TInv /\ TInv' /\ BoundOK(c)
      /\ req \in [Requests -> ReqState] /\ user \in [Phones -> UserDoc]
  <2>1. TInv /\ BoundOK(c)
    BY DEF IInv, FInv
  <2> QED BY <2>1, TypeKept DEF TInv, TypeOK
<1>1. /\ Tried(c) \in Nat /\ Tried(c)' \in Nat /\ aborts \in Nat /\ aborts' \in Nat
      /\ B(Cardinality(Requests), MaxTries) \in Nat /\ B(Cardinality(Requests)+1, MaxTries) \in Nat
  BY <1>0, SizedNow, SizedNext, BoundAssumption DEF Sized
<1>2. ASSUME Tried(c)' <= Tried(c), aborts' >= aborts PROVE BoundOK(c)'
  BY <1>0, <1>1, <1>2 DEF BoundOK
<1>3. CASE \/ Aside
           \/ \E r \in Requests : Confirm(r) \/ Mismatch(r) \/ SaveMiss(r) \/ SaveAccept(r) \/ Dies(r)
  BY <1>0, <1>2, <1>3, Settled
<1>4. ASSUME NEW r \in Requests, SaveCode(r) PROVE BoundOK(c)'
  <2>1. /\ aborts' = aborts /\ req[r].op = "send" /\ tries' = tries
        /\ req'[r].op = "send" /\ \A s \in Requests : s # r => req'[s] = req[s]
    BY <1>0, <1>4 DEF SaveCode, At, Goto, ReqState
  <2>2. Asking(c)' = Asking(c)
    BY <2>1 DEF Asking, At
  <2> QED BY <1>1, <1>2, <2>1, <2>2 DEF Tried
<1>5. ASSUME NEW r \in Requests, NEW p \in Phones, NEW typed, StartVerify(r, p, typed)
      PROVE  BoundOK(c)'
  <2>1. /\ user' = user /\ aborts' = aborts /\ tries' = tries
        /\ req'[r].seen = user[p].otp.code
        /\ \A s \in Requests : s # r => req'[s] = req[s]
    BY <1>0, <1>5 DEF StartVerify, history
  <2>2. CASE c = user[p].otp.code
    <3>1. Tried(c)' + B(Cardinality(Requests), MaxTries)
            <= aborts' + Cardinality(Spent(c, {})') + RankOf(p, {})'
      <4>1. {} \in SUBSET Requests /\ LiveOK(p)' /\ user'[p].otp.code = c
        BY <2>1, <2>2
      <4> QED BY <4>1 DEF LiveOK
    <3>2. Cardinality(Spent(c, {})') = 0
      <4>1. Spent(c, {})' = {}
        BY DEF Spent
      <4> QED BY <4>1, FS_EmptySet
    <3>3. RankOf(p, {})' + 1 <= B(Cardinality(Requests) + 1, MaxTries) /\ RankOf(p, {})' \in Nat
      <4>1. Attempts' \in [Requests -> Nat] /\ Waiting(p, {})' \in SUBSET Requests
            /\ user'[p].otp.attempts \in Nat /\ RankOf(p, {})' \in Nat
        BY <1>0, SizedNext DEF Sized
      <4> QED BY <4>1, RankBound DEF RankOf
    <3> QED BY <1>1, <3>1, <3>2, <3>3 DEF BoundOK
  <2>3. CASE c # user[p].otp.code
    <3>1. req[r].op # "verify"
      BY <1>0, <1>5, InPlace DEF StartVerify
    <3>2. Asking(c)' = Asking(c)
      BY <2>1, <2>3, <3>1 DEF Asking, At
    <3> QED BY <1>1, <1>2, <2>1, <3>2 DEF Tried
  <2> QED BY <2>2, <2>3
<1> QED BY <1>3, <1>4, <1>5, <1>0, Kinds

\* What lies between the least rank and its bound is a binomial coefficient.
LEMMA RankRange ==
    /\ Cardinality(Requests) \in Nat
    /\ B(Cardinality(Requests)+1, MaxTries)
         = choose(MaxTries + Cardinality(Requests), Cardinality(Requests))
             + B(Cardinality(Requests), MaxTries)
    /\ B(Cardinality(Requests), MaxTries) \in Nat
    /\ choose(MaxTries + Cardinality(Requests), Cardinality(Requests)) \in Nat \ {0}
<1> DEFINE n == Cardinality(Requests)
           m == MaxTries - 1
<1>1. n \in Nat /\ m \in Nat /\ MaxTries = m + 1
  <2>1. n \in Nat
    BY Sizes
  <2> QED BY <2>1, BoundAssumption
<1>2. B(n+1, m) = choose(MaxTries + n, n)
  <2>1. n + 1 # 0 /\ (n + 1) - 1 = n /\ m + (n + 1) = MaxTries + n
    BY <1>1
  <2> HIDE DEF n, m
  <2> QED BY <2>1 DEF B
<1>3. B(n+1, m) \in Nat \ {0} /\ B(n, MaxTries) \in Nat
  <2> HIDE DEF n, m
  <2>1. n + 1 \in Nat /\ MaxTries \in Nat
    BY <1>1
  <2>2. B(n+1, m) \in Nat /\ B(n, MaxTries) \in Nat /\ n + 1 <= B(n+1, m)
    BY <1>1, <2>1, BRules, BGrows
  <2> QED BY <1>1, <2>2
<1>4. B(n+1, MaxTries) = B(n+1, m) + B(n, MaxTries)
  <2> HIDE DEF n, m
  <2> QED BY <1>1, BRules
<1> QED BY <1>1, <1>2, <1>3, <1>4

\* The counting of tries is right in every state.
THEOREM TriesInvariance == Spec => []FInv
<1>1. Init => FInv
  <2> SUFFICES ASSUME Init PROVE FInv
    OBVIOUS
  <2>1. \A c \in Codes : c # NoCode
    BY DEF Codes, NoCode
  <2>2. FreshOK
    BY <2>1 DEF Init, FreshOK, Unseen, At, Idle, NoUser, NoOtp
  <2>3. \A r \in Requests : SeenOK(r)
    BY DEF Init, SeenOK, Idle
  <2>4. \A p \in Phones : LiveOK(p)
    BY <2>1 DEF Init, LiveOK, NoUser, NoOtp
  <2>5. ASSUME NEW c \in Codes PROVE BoundOK(c)
    <3>1. Asking(c) = {}
      BY DEF Init, Asking, At, Idle
    <3>2. Tried(c) = 0 /\ aborts = 0
      BY <3>1, FS_EmptySet DEF Init, Tried
    <3> QED BY <3>2, RankRange DEF BoundOK
  <2> QED BY <2>2, <2>3, <2>4, <2>5 DEF FInv
<1>2. IInv /\ FInv /\ [Next]_vars => FInv'
  <2> SUFFICES ASSUME IInv, FInv, [Next]_vars PROVE FInv'
    OBVIOUS
  <2>1. FreshOK' /\ \A r \in Requests : SeenOK(r)'
    BY FreshKept, SeenKept DEF IInv, FInv
  <2>2. \A p \in Phones : LiveOK(p)'
    BY LiveKept
  <2>3. \A c \in Codes : BoundOK(c)'
    BY <2>2, BoundKept
  <2> QED BY <2>1, <2>2, <2>3 DEF FInv
<1> QED BY <1>1, <1>2, Invariance, PTL DEF Spec

\* Overlapping verifications lose attempts, but not all of them: n requests at a
\* time, for any n, try a code less than choose(MaxTries + n, n) times, and once
\* more for each request that dies.
THEOREM TriesAreBounded == Spec => []TriesBounded
<1>1. IInv /\ FInv => TriesBounded
  <2> SUFFICES ASSUME IInv, FInv, NEW c \in Codes
               PROVE  tries[c] < choose(MaxTries + Cardinality(Requests), Cardinality(Requests)) + aborts
    BY DEF TriesBounded
  <2>1. BoundOK(c) /\ TInv
    BY DEF IInv, FInv
  <2>2. /\ tries[c] \in Nat /\ Cardinality(Asking(c)) \in Nat /\ aborts \in Nat
        /\ Tried(c) = tries[c] + Cardinality(Asking(c))
    BY <2>1, SizedNow DEF Sized, Tried
  <2> QED BY <2>1, <2>2, RankRange DEF BoundOK
<1> QED BY <1>1, Invariance, TriesInvariance, PTL

\* Without overlaps the limit of the code is what it seems to be: requests that
\* are served one at a time try a code MaxTries times at the most, and once more
\* for each of them that dies before it has saved its count.
THEOREM LimitHoldsAlone ==
    ASSUME Cardinality(Requests) = 1
    PROVE  Spec => [](\A c \in Codes : tries[c] <= MaxTries + aborts)
<1>1. choose(MaxTries + 1, 1) = MaxTries + 1
  <2> DEFINE T == {i \in Nat : choose(i + 1, 1) = i + 1}
  <2>1. 0 \in T
    BY Pascal
  <2>2. ASSUME NEW i \in T PROVE i + 1 \in T
    <3>1. i \in Nat /\ i + 1 \in Nat /\ 1 <= i + 1 /\ 1 - 1 = 0
      OBVIOUS
    <3>2. choose((i + 1) + 1, 1) = choose(i + 1, 1 - 1) + choose(i + 1, 1)
      BY <3>1, Pascal
    <3>3. choose(i + 1, 1 - 1) = 1
      BY <3>1, Pascal
    <3> QED BY <3>2, <3>3
  <2>3. T \in SUBSET Nat
    OBVIOUS
  <2>4. MaxTries \in T
    <3> HIDE DEF T
    <3> QED BY <2>1, <2>2, <2>3, BoundAssumption, SetInduction
  <2> QED BY <2>4
<1>2. TInv /\ TriesBounded => \A c \in Codes : tries[c] <= MaxTries + aborts
  <2> SUFFICES ASSUME TInv, TriesBounded, NEW c \in Codes PROVE tries[c] <= MaxTries + aborts
    OBVIOUS
  <2>1. tries[c] < choose(MaxTries + 1, 1) + aborts
    BY DEF TriesBounded
  <2>2. tries[c] \in Nat /\ aborts \in Nat /\ MaxTries \in Nat
    BY SizedNow, BoundAssumption DEF Sized
  <2> QED BY <1>1, <2>1, <2>2
<1>3. IInv => TInv
  BY DEF IInv
<1> QED BY <1>2, <1>3, Invariance, TriesAreBounded, PTL
=============================================================================
