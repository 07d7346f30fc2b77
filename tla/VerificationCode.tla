-------------------------- MODULE VerificationCode --------------------------
(* Codes mailed to one address (createVerificationCode, verifyVerificationCode
   and confirmVerificationCode of connectors/userService.ts), for one purpose:
   to register or verify an address at once (mutations/user/emailLogin.ts,
   verifyEmail.ts), or to be confirmed first and then reset a password
   (confirmVerificationCode.ts, resetPassword.ts).

   Codes are read without a lock and their states written later, all of them in
   one transaction, whatever they are by then. *)
EXTENDS Naturals

CONSTANTS
  MaxCode,   \* how many codes are sent
  Request,   \* requests at once
  MaxStops   \* requests that fail half-way

VARIABLES
  purpose,   \* "verify" or "reset"
  codes,     \* state of each code sent, in the order they were sent
  aged,      \* codes beyond their expiredAt
  request,   \* per request: step, its code, the codes it read
  uses,      \* per code: accounts made or verified, passwords set by it (0, 1, more)
  crossed,   \* two requests were under way at once
  stops

codeVars == <<purpose, codes, aged, request, uses, crossed, stops>>

Code == 1..MaxCode
Idle == [step |-> "idle", code |-> 0, read |-> {}]
Sent == {c \in Code : codes[c] # "none"}

Init ==
  /\ purpose \in {"verify", "reset"}
  /\ codes = [c \in Code |-> "none"]
  /\ aged = {}
  /\ request = [r \in Request |-> Idle]
  /\ uses = [c \in Code |-> 0]
  /\ crossed = FALSE /\ stops = 0

\* sendVerificationCode; the earlier codes stay as they are.
SendCode ==
  \E c \in Code :
    /\ codes[c] = "none" /\ \A d \in 1..(c - 1) : codes[d] # "none"
    /\ codes' = [codes EXCEPT ![c] = "active"]
    /\ UNCHANGED <<purpose, aged, request, uses, crossed, stops>>

Expire ==
  \E c \in Sent \ aged :
    /\ aged' = aged \cup {c}
    /\ UNCHANGED <<purpose, codes, request, uses, crossed, stops>>

Start(r, c, step, read) ==
  /\ request' = [request EXCEPT ![r] = [step |-> step, code |-> c, read |-> read]]
  /\ crossed' = (crossed \/ \E o \in Request \ {r} : request[o].step # "idle")
  /\ UNCHANGED <<purpose, aged, uses, stops>>

\* A code found beyond its time is marked, unless it was retired before.
RefuseExpired(r, c) ==
  /\ request[r] = Idle
  /\ c \in Sent \cap aged
  /\ IF purpose = "verify" THEN codes[c] \notin {"inactive", "used"}
                           ELSE codes[c] = "active"
  /\ codes' = [codes EXCEPT ![c] = "expired"]
  /\ crossed' = (crossed \/ \E o \in Request \ {r} : request[o].step # "idle")
  /\ UNCHANGED <<purpose, aged, request, uses, stops>>

\* verifyVerificationCode lets everything but retired codes pass.
Verifiable(c) == codes[c] \notin {"inactive", "used"}

Verify(r, c) ==
  /\ purpose = "verify" /\ request[r] = Idle
  /\ c \in Sent \ aged /\ Verifiable(c)
  /\ Start(r, c, "retire", Sent)
  /\ UNCHANGED codes

Retired_ActiveOnly(read) == {d \in read : codes[d] = "verified"}

\* The codes whose state is written: all that were read.
Retired(read) == read

\* One transaction: the code becomes s, the others are retired.
MarkAll(r, s) ==
  LET q == request[r] IN
    codes' = [d \in Code |->
      IF d \notin Retired(q.read) \cup ({q.code} \cap q.read) THEN codes[d]
      ELSE IF d = q.code THEN s ELSE "inactive"]

RetireVerified(r) ==
  /\ request[r].step = "retire"
  /\ MarkAll(r, "used")
  /\ request' = [request EXCEPT ![r].step = "account"]
  /\ UNCHANGED <<purpose, aged, uses, crossed, stops>>

\* The account is made, or its address marked as verified.
UseVerified(r) ==
  /\ request[r].step = "account"
  /\ uses' = [uses EXCEPT ![request[r].code] = IF @ < 2 THEN @ + 1 ELSE @]
  /\ request' = [request EXCEPT ![r] = Idle]
  /\ UNCHANGED <<purpose, codes, aged, crossed, stops>>

ConfirmCode(r, c) ==
  /\ purpose = "reset" /\ request[r] = Idle
  /\ c \in Sent \ aged /\ codes[c] = "active"
  /\ Start(r, c, "list", {})
  /\ UNCHANGED codes

\* confirmVerificationCode reads the active codes anew.
ListActive(r) ==
  /\ request[r].step = "list"
  /\ request' = [request EXCEPT ![r].step = "confirm", ![r].read = {c \in Sent : codes[c] = "active"}]
  /\ UNCHANGED <<purpose, codes, aged, uses, crossed, stops>>

MarkVerified(r) ==
  /\ request[r].step = "confirm"
  /\ MarkAll(r, "verified")
  /\ request' = [request EXCEPT ![r] = Idle]
  /\ UNCHANGED <<purpose, aged, uses, crossed, stops>>

\* resetPassword: the time of a confirmed code is not looked at.
ResetPassword(r, c) ==
  /\ purpose = "reset" /\ request[r] = Idle
  /\ codes[c] = "verified"
  /\ Start(r, c, "change", {})
  /\ UNCHANGED codes

ChangePassword(r) ==
  /\ request[r].step = "change"
  /\ uses' = [uses EXCEPT ![request[r].code] = IF @ < 2 THEN @ + 1 ELSE @]
  /\ request' = [request EXCEPT ![r].step = "mark"]
  /\ UNCHANGED <<purpose, codes, aged, crossed, stops>>

MarkUsed_Verified == "verified"

\* What resetPassword makes of the code.
MarkUsed == "used"

MarkReset(r) ==
  /\ request[r].step = "mark"
  /\ codes' = [codes EXCEPT ![request[r].code] = MarkUsed]
  /\ request' = [request EXCEPT ![r] = Idle]
  /\ UNCHANGED <<purpose, aged, uses, crossed, stops>>

Stop(r) ==
  /\ request[r].step # "idle" /\ stops < MaxStops
  /\ stops' = stops + 1
  /\ request' = [request EXCEPT ![r] = Idle]
  /\ UNCHANGED <<purpose, codes, aged, uses, crossed>>

Next ==
  \/ SendCode \/ Expire
  \/ \E r \in Request :
       \/ \E c \in Code : RefuseExpired(r, c) \/ Verify(r, c) \/ ConfirmCode(r, c)
                            \/ ResetPassword(r, c)
       \/ RetireVerified(r) \/ UseVerified(r) \/ ListActive(r) \/ MarkVerified(r)
       \/ ChangePassword(r) \/ MarkReset(r) \/ Stop(r)

Spec == Init /\ [][Next]_codeVars

-----------------------------------------------------------------------------
(* States and steps are those of the code. *)
TypeOK ==
  /\ \A c \in Code : codes[c] \in {"none", "active", "verified", "used", "inactive", "expired"}
  /\ \A r \in Request : request[r].step \in
       {"idle", "retire", "account", "list", "confirm", "change", "mark"}

(* A code does its work once (userService.ts:1385-1415, resetPassword.ts:41-80),
   unless two requests overlapped or one was cut off before it marked the code. *)
CodeWorksOnce == ~crossed /\ stops = 0 => \A c \in Code : uses[c] <= 1

(* When a code has registered or verified an address, none sent before it works
   any more (userService.ts:1399-1415), unless two requests overlapped. *)
OlderCodesAreRetired ==
  purpose = "verify" /\ ~crossed =>
    \A c \in Code : uses[c] > 0 => \A d \in 1..c : codes[d] \in {"used", "inactive"}
=============================================================================
