------------------------------ MODULE Accounts ------------------------------
(***************************************************************************)
(* The sign-in of one customer (customer-auth.service.ts): passwords, the  *)
(* failed-login counter, one-time codes and the single refresh token that  *)
(* the customer row holds.  Every handler reads, decides on what it read,  *)
(* and writes in statements of their own; the calls interleave there.      *)
(*                                                                         *)
(* A call makes at most one code and at most one refresh token, so both    *)
(* have the name of their call.  Passwords are right or wrong: their       *)
(* values do not matter.  Two tokens signed in the same second are equal   *)
(* in the code; the model keeps them apart.                                *)
(***************************************************************************)
EXTENDS Naturals, FiniteSets

CONSTANTS Calls,      \* requests, each used once
          LockLimit,  \* wrong passwords that lock the account (5 in the code)
          NoSession

ASSUME AccountsAssumption == NoSession \notin Calls /\ LockLimit \in Nat

VARIABLES account,  \* the customer row
          codes,    \* customer_otps, by the call that made the code
          stage,    \* call -> where its handler is
          asked,    \* call -> what it asks for, and the row it read
          wrong,    \* wrong passwords since the counter was reset (not in the code)
          endings,  \* logouts, resets and changes of the password so far (not in the code)
          raced     \* what overlapping calls may have confused (not in the code)

accountVars == <<account, codes, stage, asked, wrong, endings, raced>>

CodeTypes == {"PHONE_LOGIN", "EMAIL_VERIFY", "PASSWORD_RESET"}
Ops == {"login", "refresh", "verify", "forgot", "reset", "change"}
Account == [failed : Nat, locked : BOOLEAN, verified : BOOLEAN,
            session : Calls \cup {NoSession}]
Blank == [op |-> "none", right |-> FALSE, code |-> NoSession, seen |-> [failed |-> 0,
          locked |-> FALSE, verified |-> FALSE, session |-> NoSession], began |-> 0]

AccountsTypeOK ==
  /\ account \in Account
  /\ codes \in [Calls -> [type : CodeTypes \cup {"none"},
                          state : {"live", "expired", "used", "deleted"}]]
  /\ stage \in [Calls -> {"idle", "read", "marked", "create", "grant", "done", "refused"}]
  /\ asked \in [Calls -> [op : Ops \cup {"none"}, right : BOOLEAN, code : Calls \cup {NoSession},
                         seen : Account, began : Nat]]
  /\ wrong \in Nat /\ endings \in Nat
  /\ raced \in [codes : SUBSET Calls, counter : BOOLEAN, resets : BOOLEAN, sessions : SUBSET Calls]

\* register leaves an account whose address is not verified yet.
AccountsInit ==
  /\ account \in {[failed |-> 0, locked |-> FALSE, verified |-> v, session |-> NoSession] : v \in BOOLEAN}
  /\ codes = [c \in Calls |-> [type |-> "none", state |-> "deleted"]]
  /\ stage = [c \in Calls |-> "idle"]
  /\ asked = [c \in Calls |-> Blank]
  /\ wrong = 0 /\ endings = 0
  /\ raced = [codes |-> {}, counter |-> FALSE, resets |-> FALSE, sessions |-> {}]

Working(c) == stage[c] \notin {"idle", "done", "refused"}
Others(c) == {d \in Calls \ {c} : Working(d)}
LoggingIn(c) == {d \in Others(c) : asked[d].op = "login"}

Begin(c, op, right, code) ==
  /\ stage[c] = "idle"
  /\ stage' = [stage EXCEPT ![c] = "read"]
  /\ asked' = [asked EXCEPT ![c] = [op |-> op, right |-> right, code |-> code, seen |-> account,
                                  began |-> endings]]

Move(c, place) == stage' = [stage EXCEPT ![c] = place]

\* A write of the failed-login counter; another login under way works on a counter of before.
CounterWritten(c, n) ==
  /\ wrong' = IF n = 0 THEN 0 ELSE wrong + 1
  /\ raced' = [raced EXCEPT !.counter = LoggingIn(c) # {} \/ (@ /\ n # 0)]

------------------------------------------------------------------------------
(* login and refresh.                                                      *)

Login(c, right) ==
  /\ ~account.locked
  /\ Begin(c, "login", right, NoSession)
  /\ UNCHANGED <<account, codes, wrong, endings, raced>>

\* Mutant of LoginRefused: the counter is not taken from the row that was read.
LoginRefusedForgets(c) ==
  /\ stage[c] = "read" /\ asked[c].op = "login" /\ ~asked[c].right
  /\ account' = [account EXCEPT !.failed = 1, !.locked = @ \/ 1 >= LockLimit]
  /\ CounterWritten(c, 1)
  /\ Move(c, "refused")
  /\ UNCHANGED <<codes, asked, endings>>

LoginRefused(c) ==
  LET attempts == asked[c].seen.failed + 1
  IN /\ stage[c] = "read" /\ asked[c].op = "login" /\ ~asked[c].right
     /\ account' = [account EXCEPT !.failed = attempts, !.locked = @ \/ attempts >= LockLimit]
     /\ CounterWritten(c, attempts)
     /\ Move(c, "refused")
     /\ UNCHANGED <<codes, asked, endings>>

\* Right password, address not verified: the codes are deleted, a fresh one is sent.
LoginUnverified(c) ==
  /\ stage[c] = "read" /\ asked[c].op = "login" /\ asked[c].right /\ ~asked[c].seen.verified
  /\ codes' = [k \in Calls |-> IF codes[k].type = "EMAIL_VERIFY"
                               THEN [codes[k] EXCEPT !.state = "deleted"] ELSE codes[k]]
  /\ Move(c, "create")
  /\ UNCHANGED <<account, asked, wrong, endings, raced>>

LoginGranted(c) ==
  /\ stage[c] = "read" /\ asked[c].op = "login" /\ asked[c].right /\ asked[c].seen.verified
  /\ account' = [account EXCEPT !.session = c, !.failed = 0, !.locked = FALSE]
  /\ CounterWritten(c, 0)
  /\ Move(c, "done")
  /\ UNCHANGED <<codes, asked, endings>>

LockExpires ==
  /\ account.locked
  /\ account' = [account EXCEPT !.locked = FALSE]
  /\ UNCHANGED <<codes, stage, asked, wrong, endings, raced>>

\* The cookie is the token of the row; any other is refused.
Refresh(c) ==
  /\ account.session # NoSession
  /\ Begin(c, "refresh", TRUE, NoSession)
  /\ UNCHANGED <<account, codes, wrong, endings, raced>>

\* The last write of refresh and of the two verifications.
SessionGranted(c) ==
  /\ \/ stage[c] = "read" /\ asked[c].op = "refresh"
     \/ stage[c] = "grant"
  /\ account' = [account EXCEPT !.session = c]
  /\ Move(c, "done")
  /\ UNCHANGED <<codes, asked, wrong, endings, raced>>

\* A session is ended for good, except by a call that began before and grants one after.
Ended(c) ==
  /\ endings' = endings + 1
  /\ raced' = [raced EXCEPT !.sessions = @ \cup Others(c)]

Logout(c) ==
  /\ stage[c] = "idle" /\ account.session # NoSession
  /\ account' = [account EXCEPT !.session = NoSession]
  /\ Move(c, "done")
  /\ Ended(c)
  /\ UNCHANGED <<codes, asked, wrong>>

------------------------------------------------------------------------------
(* One-time codes.                                                         *)

Live(k) == codes[k].state = "live"

CodeMade(c, type) == codes' = [codes EXCEPT ![c] = [type |-> type, state |-> "live"]]

RequestOtp(c, type) ==
  /\ stage[c] = "idle" /\ type \in {"PHONE_LOGIN", "EMAIL_VERIFY"}
  /\ CodeMade(c, type)
  /\ Move(c, "done")
  /\ UNCHANGED <<account, asked, wrong, endings, raced>>

ForgotPassword(c) ==
  /\ stage[c] = "idle"
  /\ codes' = [k \in Calls |-> IF codes[k].type = "PASSWORD_RESET" /\ codes[k].state # "used"
                               THEN [codes[k] EXCEPT !.state = "used"] ELSE codes[k]]
  /\ stage' = [stage EXCEPT ![c] = "create"]
  /\ asked' = [asked EXCEPT ![c].op = "forgot"]
  /\ raced' = [raced EXCEPT !.resets = @ \/ \E d \in Others(c) : asked[d].op = "forgot"]
  /\ UNCHANGED <<account, wrong, endings>>

CreateCode(c) ==
  /\ stage[c] = "create"
  /\ CodeMade(c, IF asked[c].op = "forgot" THEN "PASSWORD_RESET" ELSE "EMAIL_VERIFY")
  /\ Move(c, "done")
  /\ UNCHANGED <<account, asked, wrong, endings, raced>>

\* Mutant of CodeExpires: a state no handler knows.
CodeRevoked(k) ==
  /\ Live(k)
  /\ codes' = [codes EXCEPT ![k].state = "revoked"]
  /\ UNCHANGED <<account, stage, asked, wrong, endings, raced>>

CodeExpires(k) ==
  /\ Live(k)
  /\ codes' = [codes EXCEPT ![k].state = "expired"]
  /\ UNCHANGED <<account, stage, asked, wrong, endings, raced>>

\* verifyOtp, verifyEmailOtp and resetPassword begin by finding the code.
FindCode(c, k) ==
  /\ Live(k)
  /\ Begin(c, IF codes[k].type = "PASSWORD_RESET" THEN "reset" ELSE "verify", TRUE, k)
  /\ raced' = [raced EXCEPT !.codes =
       IF \E d \in Others(c) : stage[d] = "read" /\ asked[d].code = k THEN @ \cup {k} ELSE @]
  /\ UNCHANGED <<account, codes, wrong, endings>>

\* Mutant of MarkUsed: the code is left as it is.
MarkUsedForgotten(c) ==
  /\ stage[c] = "read" /\ asked[c].code # NoSession
  /\ Move(c, "marked")
  /\ UNCHANGED <<account, codes, asked, wrong, endings, raced>>

\* An update by id: of a code that was deleted meanwhile it fails.
MarkUsed(c) ==
  LET k == asked[c].code
  IN /\ stage[c] = "read" /\ k # NoSession
     /\ IF codes[k].state = "deleted"
        THEN Move(c, "refused") /\ UNCHANGED codes
        ELSE Move(c, "marked") /\ codes' = [codes EXCEPT ![k].state = "used"]
     /\ UNCHANGED <<account, asked, wrong, endings, raced>>

\* verifyEmailOtp writes emailVerified before it grants the session; verifyOtp writes nothing here.
Verified(c) ==
  /\ stage[c] = "marked" /\ asked[c].op = "verify"
  /\ account' = IF codes[asked[c].code].type = "EMAIL_VERIFY"
                THEN [account EXCEPT !.verified = TRUE] ELSE account
  /\ Move(c, "grant")
  /\ UNCHANGED <<codes, asked, wrong, endings, raced>>

\* Mutant of PasswordReset: the refresh token survives.
PasswordResetKeepsSession(c) ==
  /\ stage[c] = "marked" /\ asked[c].op = "reset"
  /\ account' = [account EXCEPT !.failed = 0, !.locked = FALSE]
  /\ Move(c, "done")
  /\ endings' = endings + 1 /\ wrong' = 0
  /\ raced' = [raced EXCEPT !.sessions = @ \cup Others(c), !.counter = LoggingIn(c) # {}]
  /\ UNCHANGED <<codes, asked>>

PasswordReset(c) ==
  /\ stage[c] = "marked" /\ asked[c].op = "reset"
  /\ account' = [account EXCEPT !.session = NoSession, !.failed = 0, !.locked = FALSE]
  /\ Move(c, "done")
  /\ endings' = endings + 1 /\ wrong' = 0
  /\ raced' = [raced EXCEPT !.sessions = @ \cup Others(c), !.counter = LoggingIn(c) # {}]
  /\ UNCHANGED <<codes, asked>>

ChangePassword(c) ==
  /\ Begin(c, "change", TRUE, NoSession)
  /\ UNCHANGED <<account, codes, wrong, endings, raced>>

PasswordChanged(c) ==
  /\ stage[c] = "read" /\ asked[c].op = "change"
  /\ account' = [account EXCEPT !.session = NoSession]
  /\ Move(c, "done")
  /\ Ended(c)
  /\ UNCHANGED <<codes, asked, wrong>>

\* The process dies, or the database refuses the next statement.
CallLost(c) ==
  /\ Working(c)
  /\ Move(c, "refused")
  /\ UNCHANGED <<account, codes, asked, wrong, endings, raced>>

AccountsNext ==
  \/ \E c \in Calls : \/ \E right \in BOOLEAN : Login(c, right)
                      \/ LoginRefused(c) \/ LoginUnverified(c) \/ LoginGranted(c)
                      \/ Refresh(c) \/ SessionGranted(c) \/ Logout(c)
                      \/ \E type \in CodeTypes : RequestOtp(c, type)
                      \/ ForgotPassword(c) \/ CreateCode(c)
                      \/ \E k \in Calls : FindCode(c, k)
                      \/ MarkUsed(c) \/ Verified(c) \/ PasswordReset(c)
                      \/ ChangePassword(c) \/ PasswordChanged(c) \/ CallLost(c)
  \/ \E k \in Calls : CodeExpires(k)
  \/ LockExpires

AccountsSpec == AccountsInit /\ [][AccountsNext]_accountVars

------------------------------------------------------------------------------
(* Properties.                                                             *)

CodeAcceptedOnce ==
  \A k \in Calls \ raced.codes :
    Cardinality({c \in Calls : asked[c].code = k /\ stage[c] \in {"marked", "grant", "done"}}) <= 1

OneLiveResetCode ==
  raced.resets \/ Cardinality({k \in Calls : codes[k].type = "PASSWORD_RESET" /\ Live(k)}) <= 1

\* A one-time code opens one session, or resets the password once, unless two calls found it
\* before either had marked it.  And at most one code can reset the password, unless two
\* requests for one overlapped between the statement that spends the codes and the one that
\* makes one.
CodesSpentOnce == CodeAcceptedOnce /\ OneLiveResetCode

\* The counter of failed logins, which locks the account, is the number of wrong passwords
\* since it was reset, unless logins overlapped: each writes the number it read plus one.
FailedLoginsCounted == raced.counter \/ account.failed = wrong

\* A logout, a reset and a change of the password end the session for good: a session that is
\* live was granted by a call that began after the last of them, or that overlapped one.
EndedSessionsStayEnded ==
  LET s == account.session
  IN s # NoSession /\ s \notin raced.sessions => asked[s].began = endings
=============================================================================
