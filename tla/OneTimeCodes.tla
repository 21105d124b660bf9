---------------------------- MODULE OneTimeCodes ----------------------------
(***************************************************************************)
(* auth.controller.js, the part that sends codes: sendOtp, verifyOtp and   *)
(* forgotPassword, served concurrently.  A code is kept hashed in the User *)
(* document and sent by MSG91, which keeps the last code it sent to a      *)
(* number; a verification is accepted if either knows the code.            *)
(*                                                                         *)
(* save() writes the fields that a request has changed: sendOtp replaces   *)
(* the whole otp, a failed verification writes otp.attempts alone, into    *)
(* whatever otp there is by then, and an accepted one removes the otp.     *)
(***************************************************************************)
EXTENDS Naturals, FiniteSets, Combinatorics

CONSTANTS Phones,      \* the numbers
          Requests,    \* the requests that are served concurrently
          MaxTries,    \* how often a code may be tried (5 in the code)
          MaxAttempts, \* bound on what attempts counts, refusals included
          MaxCodes,    \* bound on the codes that are generated
          MaxAborts,   \* bound on the requests that die half way
          None         \* absent

ASSUME BoundAssumption ==
    /\ MaxTries \in Nat /\ MaxAttempts \in Nat /\ MaxCodes \in Nat /\ MaxAborts \in Nat
    /\ MaxTries >= 1
ASSUME FiniteAssumption == IsFiniteSet(Requests)
ASSUME NoneAssumption == None \notin Phones

VARIABLES user,      \* user[p]: the document
          lastCode,  \* the codes generated so far are 1..lastCode
          expired,   \* those of 1..expired are past their ten minutes
          provider,  \* provider[p]: what MSG91 would confirm, 0 for nothing
          received,  \* received[p]: the codes that reached the telephone
          latest,    \* latest[p]: the last of them that sendOtp sent
          audited,   \* the codes whose reset request is audited
          used,      \* history: the codes that were accepted
          tries,     \* history: tries[c]: how often code c was tried
          crowded,   \* history: the codes that were stored during a verification
          req,       \* req[r]: where request r stands
          aborts

history == <<used, tries, crowded>>
outside == <<lastCode, expired, provider, received, latest>>
vars == <<user, outside, audited, history, req, aborts>>

\* A code stands for its hash: generateOtp draws a new one each time.
Codes == 1..MaxCodes
NoCode == 0

\* What may be typed in: a code that was received, or anything else.
Typed == Codes \cup {NoCode}

Otp     == [code : Codes \cup {NoCode}, attempts : Nat]
UserDoc == [here : BOOLEAN, isVerified : BOOLEAN, otp : Otp,
            passwordReset : Codes \cup {NoCode}]

NoOtp  == [code |-> NoCode, attempts |-> 0]
NoUser == [here |-> FALSE, isVerified |-> FALSE, otp |-> NoOtp, passwordReset |-> NoCode]

\* code: the one to send, or the one typed in; seen: the code in the document
\* as read; attempts: what will be stored; knew: the user was there when read.
\* History: spent, the code had been accepted when the request began.
ReqState == [op : {"none", "send", "forgot", "verify"},
             at : {"idle", "save", "sms", "audit", "ask", "miss", "accept"},
             p : Phones \cup {None}, code : Codes \cup {NoCode},
             seen : Codes \cup {NoCode}, attempts : Nat, knew : BOOLEAN,
             spent : BOOLEAN]

Idle == [op |-> "none", at |-> "idle", p |-> None, code |-> NoCode, seen |-> NoCode,
         attempts |-> 0, knew |-> FALSE, spent |-> FALSE]

TypeOK == /\ user \in [Phones -> UserDoc]
          /\ lastCode \in 0..MaxCodes
          /\ expired \in 0..lastCode
          /\ provider \in [Phones -> Codes \cup {NoCode}]
          /\ received \in [Phones -> SUBSET Codes]
          /\ latest \in [Phones -> Codes \cup {NoCode}]
          /\ audited \subseteq Codes
          /\ used \subseteq Codes
          /\ tries \in [Codes -> Nat]
          /\ crowded \subseteq Codes
          /\ req \in [Requests -> ReqState]
          /\ aborts \in 0..MaxAborts

Init == /\ user = [p \in Phones |-> NoUser]
        /\ lastCode = 0
        /\ expired = 0
        /\ provider = [p \in Phones |-> NoCode]
        /\ received = [p \in Phones |-> {}]
        /\ latest = [p \in Phones |-> NoCode]
        /\ audited = {}
        /\ used = {}
        /\ tries = [c \in Codes |-> 0]
        /\ crowded = {}
        /\ req = [r \in Requests |-> Idle]
        /\ aborts = 0

-----------------------------------------------------------------------------
At(r, op, at) == req[r].op = op /\ req[r].at = at
Finish(r) == req' = [req EXCEPT ![r] = Idle]
Goto(r, at) == req' = [req EXCEPT ![r].at = at]

\* A request draws a code and reads the document.
Draw(r, op, p) ==
    /\ req[r].at = "idle"
    /\ lastCode < MaxCodes
    /\ lastCode' = lastCode + 1
    /\ req' = [req EXCEPT ![r] = [Idle EXCEPT !.op = op, !.at = "save", !.p = p,
                                              !.code = lastCode + 1, !.knew = user[p].here]]
    /\ UNCHANGED <<user, expired, provider, received, latest, audited, history, aborts>>

StartSend(r, p) == Draw(r, "send", p)

\* A verification of p is being served.
Verifying(p) == \E r \in Requests : req[r].op = "verify" /\ req[r].p = p

\* Faults: attempts is left as it is, or unset.
SaveCodeOnly(r) ==
    LET p == req[r].p
    IN  /\ At(r, "send", "save")
        /\ req[r].knew \/ ~user[p].here
        /\ user' = [user EXCEPT ![p].here = TRUE, ![p].otp.code = req[r].code]
        /\ crowded' = IF Verifying(p) THEN crowded \cup {req[r].code} ELSE crowded
        /\ Goto(r, "sms")
        /\ UNCHANGED <<outside, audited, used, tries, aborts>>

SaveCodeUncounted(r) ==
    /\ At(r, "send", "save")
    /\ req[r].knew \/ ~user[req[r].p].here
    /\ user' = [user EXCEPT ![req[r].p].here = TRUE,
                            ![req[r].p].otp = [code |-> req[r].code, attempts |-> None]]
    /\ Goto(r, "sms")
    /\ UNCHANGED <<outside, audited, history, aborts>>

\* user.save() of sendOtp: the otp is replaced, in a document that was there
\* or that is created now.
SaveCode(r) ==
    LET p == req[r].p
    IN  /\ At(r, "send", "save")
        /\ req[r].knew \/ ~user[p].here
        /\ user' = [user EXCEPT ![p].here = TRUE,
                                ![p].otp = [code |-> req[r].code, attempts |-> 0]]
        /\ crowded' = IF Verifying(p) THEN crowded \cup {req[r].code} ELSE crowded
        /\ Goto(r, "sms")
        /\ UNCHANGED <<outside, audited, used, tries, aborts>>

\* The number is unique: two first requests cannot both create the user.
Collide(r) ==
    /\ At(r, "send", "save")
    /\ ~req[r].knew /\ user[req[r].p].here
    /\ Finish(r)
    /\ UNCHANGED <<user, outside, audited, history, aborts>>

\* forgotPassword is for users that exist.
StartForgot(r, p) == user[p].here /\ Draw(r, "forgot", p)

\* user.save() of forgotPassword.
SaveReset(r) ==
    /\ At(r, "forgot", "save")
    /\ user' = [user EXCEPT ![req[r].p].passwordReset = req[r].code]
    /\ Goto(r, "sms")
    /\ UNCHANGED <<outside, audited, history, aborts>>

\* MSG91 sends the code and keeps it in place of the one it had.
Sms(r) ==
    LET p == req[r].p
    IN  /\ req[r].at = "sms"
        /\ provider' = [provider EXCEPT ![p] = req[r].code]
        /\ received' = [received EXCEPT ![p] = @ \cup {req[r].code}]
        /\ latest' = IF req[r].op = "send" THEN [latest EXCEPT ![p] = req[r].code] ELSE latest
        /\ IF req[r].op = "send" THEN Finish(r) ELSE Goto(r, "audit")
        /\ UNCHANGED <<user, lastCode, expired, audited, history, aborts>>

\* MSG91 cannot be reached, or is not configured: the handler throws, and a
\* verification has then compared nothing and counted nothing.
SmsFails(r) ==
    /\ req[r].at \in {"sms", "ask"}
    /\ Finish(r)
    /\ UNCHANGED <<user, outside, audited, history, aborts>>

\* auditService.record ends forgotPassword.
Audit(r) ==
    /\ req[r].at = "audit"
    /\ audited' = audited \cup {req[r].code}
    /\ Finish(r)
    /\ UNCHANGED <<user, outside, history, aborts>>

-----------------------------------------------------------------------------
(* verifyOtp.                                                              *)

\* A code is there and has not expired.
Pending(p) == user[p].otp.code # NoCode /\ user[p].otp.code > expired

\* verifyOtp reads the document and counts the attempt in it; beyond MaxTries
\* it refuses without a comparison.
StartVerify(r, p, typed) ==
    LET otp == user[p].otp
    IN  /\ req[r].at = "idle"
        /\ Pending(p)
        /\ otp.attempts < MaxAttempts
        /\ req' = [req EXCEPT ![r] =
             [op |-> "verify", at |-> IF otp.attempts + 1 > MaxTries THEN "miss" ELSE "ask",
              p |-> p, code |-> typed, seen |-> otp.code, attempts |-> otp.attempts + 1,
              knew |-> TRUE, spent |-> typed \in used]]
        /\ UNCHANGED <<user, outside, audited, history, aborts>>

Try(r) == tries' = [tries EXCEPT ![req[r].seen] = @ + 1]

\* localMatch, or MSG91 confirms: it does so once for the code it keeps.
Match(r) == req[r].code # NoCode /\ req[r].code \in {req[r].seen, provider[req[r].p]}

Confirm(r) ==
    LET p == req[r].p
    IN  /\ At(r, "verify", "ask")
        /\ Match(r)
        /\ provider' = [provider EXCEPT ![p] = IF @ = req[r].code THEN NoCode ELSE @]
        /\ Try(r)
        /\ Goto(r, "accept")
        /\ UNCHANGED <<user, lastCode, expired, received, latest, audited, used, crowded, aborts>>

Mismatch(r) ==
    /\ At(r, "verify", "ask")
    /\ ~Match(r)
    /\ Try(r)
    /\ Goto(r, "miss")
    /\ UNCHANGED <<user, outside, audited, used, crowded, aborts>>

\* Faults: the attempt is not saved; the otp is removed.
MissUnsaved(r) ==
    /\ At(r, "verify", "miss")
    /\ Finish(r)
    /\ UNCHANGED <<user, outside, audited, history, aborts>>

SaveMissAndRemove(r) ==
    /\ At(r, "verify", "miss")
    /\ user' = [user EXCEPT ![req[r].p].otp = NoOtp]
    /\ Finish(r)
    /\ UNCHANGED <<outside, audited, history, aborts>>

\* user.save() after a failed or a refused verification.
SaveMiss(r) ==
    /\ At(r, "verify", "miss")
    /\ user' = [user EXCEPT ![req[r].p].otp.attempts = req[r].attempts]
    /\ Finish(r)
    /\ UNCHANGED <<outside, audited, history, aborts>>

\* Fault: the otp stays.
SaveAcceptKeepsOtp(r) ==
    /\ At(r, "verify", "accept")
    /\ user' = [user EXCEPT ![req[r].p].isVerified = TRUE]
    /\ used' = used \cup {req[r].code}
    /\ Finish(r)
    /\ UNCHANGED <<outside, audited, tries, crowded, aborts>>

\* user.save() after an accepted verification.
SaveAccept(r) ==
    /\ At(r, "verify", "accept")
    /\ user' = [user EXCEPT ![req[r].p].isVerified = TRUE, ![req[r].p].otp = NoOtp]
    /\ used' = used \cup {req[r].code}
    /\ Finish(r)
    /\ UNCHANGED <<outside, audited, tries, crowded, aborts>>

-----------------------------------------------------------------------------
\* The request dies at one of its awaits.
Abort(r) ==
    /\ req[r].at # "idle"
    /\ aborts < MaxAborts
    /\ aborts' = aborts + 1
    /\ Finish(r)
    /\ UNCHANGED <<user, outside, audited, history>>

\* Ten minutes pass for the oldest code that has not expired.
Expire ==
    /\ expired < lastCode
    /\ expired' = expired + 1
    /\ UNCHANGED <<user, lastCode, provider, received, latest, audited, history, req, aborts>>

Arrive(r) == \E p \in Phones :
    \/ StartSend(r, p)
    \/ StartForgot(r, p)
    \/ \E typed \in received[p] \cup {NoCode} : StartVerify(r, p, typed)

Continue(r) == \/ SaveCode(r)
               \/ Collide(r)
               \/ SaveReset(r)
               \/ Sms(r)
               \/ SmsFails(r)
               \/ Audit(r)
               \/ Confirm(r)
               \/ Mismatch(r)
               \/ SaveMiss(r)
               \/ SaveAccept(r)

Next == Expire \/ \E r \in Requests : Arrive(r) \/ Continue(r) \/ Abort(r)

Spec == Init /\ [][Next]_vars

-----------------------------------------------------------------------------
(* Properties.                                                             *)

\* A code works once: no request accepts a code that had been accepted when
\* the request began.  Only verifications that overlap can both accept it.
AcceptedOnce ==
    [][\A r \in Requests :
          req[r].at = "accept" /\ used' # used => ~req[r].spent]_vars

\* attempts is counted on the document as read, so overlapping tries are lost;
\* but not all of them: a try leaves a multiset of pending counts behind that
\* never comes back, and so n requests at once can try a code
\* choose(MaxTries + n, n) - 1 times at the most, MaxTries if n is 1.
TriesBounded ==
    \A c \in Codes :
        tries[c] < choose(MaxTries + Cardinality(Requests), Cardinality(Requests)) + aborts

\* Nobody is locked out by tries he did not make: a code refuses further tries
\* only after MaxTries of them, unless it was stored while an older one was
\* being verified, which then counts against the new code.
LockedOutByTries ==
    \A p \in Phones :
        LET otp == user[p].otp
        IN  otp.code # NoCode /\ otp.code \notin crowded /\ otp.attempts >= MaxTries
              => tries[otp.code] >= MaxTries

Quiet(p) == \A r \in Requests : req[r].p # p

\* The last code that a telephone received through sendOtp works as long as
\* the stored one can be tried, although saves and messages of two sendOtp may
\* come in different orders, and the message of a newer code may fail: some
\* code is stored, and MSG91 still confirms this one, unless it has been asked
\* for a reset code.
LatestCodeWorks ==
    \A p \in Phones :
        aborts = 0 /\ Quiet(p) /\ latest[p] # NoCode /\ ~user[p].isVerified
          => /\ user[p].otp.code # NoCode
             /\ provider[p] = latest[p] \/ user[p].passwordReset # NoCode
=============================================================================
