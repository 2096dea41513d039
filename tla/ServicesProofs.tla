--------------------------- MODULE ServicesProofs ---------------------------
(***************************************************************************)
(* What the modules of one record keep, for every number of calls: the     *)
(* sign-in of a customer (Accounts), reviews, a staff account, attendance, *)
(* the claims of a device, the payroll and the rate limit of an address.   *)
(* Each part stands alone; no lemma of one is used in another, but for the *)
(* first.  The last part is about all of them side by side.                *)
(*                                                                         *)
(* Most properties have one shape: "at most one", unless calls overlapped. *)
(* The invariants say what a call under way knows to be still true because *)
(* the module recorded no overlap since it looked.                         *)
(***************************************************************************)
EXTENDS MCServices, LoyaltyProofs

\* A set has at most one element if any two of its elements are equal.
LEMMA AtMostOne ==
  ASSUME NEW S, \A a, b \in S : a = b
  PROVE  Cardinality(S) <= 1
<1>1. CASE S = {}
  BY <1>1, FS_EmptySet
<1>2. CASE S # {}
  <2>1. PICK a : S = {a}
    BY <1>2
  <2>2. QED BY <2>1, FS_Singleton
<1>3. QED BY <1>1, <1>2

------------------------------------------------------------------------------
(* Accounts: types.                                                        *)

Codes == [Calls -> [type : CodeTypes \cup {"none"}, state : {"live", "expired", "used", "deleted"}]]
Stages == [Calls -> {"idle", "read", "marked", "create", "grant", "done", "refused"}]
Asked == [Calls -> [op : Ops \cup {"none"}, right : BOOLEAN, code : Calls \cup {NoSession},
                    seen : Account, began : Nat]]
Raced == [codes : SUBSET Calls, counter : BOOLEAN, resets : BOOLEAN, sessions : SUBSET Calls]

LEMMA AccountsTypes ==
  AccountsTypeOK <=> /\ account \in Account /\ codes \in Codes /\ stage \in Stages
                     /\ asked \in Asked /\ wrong \in Nat /\ endings \in Nat /\ raced \in Raced
BY DEF AccountsTypeOK, Codes, Stages, Asked, Raced

LEMMA AccountUpdates ==
  ASSUME NEW a \in Account, NEW s \in Calls \cup {NoSession}, NEW n \in Nat, NEW b \in BOOLEAN
  PROVE  /\ [a EXCEPT !.session = s] \in Account
         /\ [a EXCEPT !.locked = b] \in Account
         /\ [a EXCEPT !.verified = b] \in Account
         /\ [a EXCEPT !.failed = n, !.locked = b] \in Account
         /\ [a EXCEPT !.session = s, !.failed = n, !.locked = b] \in Account
BY DEF Account

LEMMA RacedUpdates ==
  ASSUME NEW r \in Raced, NEW S \in SUBSET Calls, NEW b \in BOOLEAN
  PROVE  /\ [r EXCEPT !.sessions = @ \cup S] \in Raced
         /\ [r EXCEPT !.codes = S] \in Raced
         /\ [r EXCEPT !.resets = b] \in Raced
         /\ [r EXCEPT !.counter = b] \in Raced
         /\ [r EXCEPT !.sessions = @ \cup S, !.counter = b] \in Raced
BY DEF Raced

LEMMA CodesUpdates ==
  ASSUME codes \in Codes, NEW k \in Calls
  PROVE  /\ [codes EXCEPT ![k].state = "expired"] \in Codes
         /\ [codes EXCEPT ![k].state = "used"] \in Codes
         /\ \A c \in CodeTypes : [codes EXCEPT ![k] = [type |-> c, state |-> "live"]] \in Codes
BY DEF Codes

LEMMA MoveType ==
  ASSUME stage \in Stages, NEW c \in Calls,
         NEW where \in {"idle", "read", "marked", "create", "grant", "done", "refused"}, Move(c, where)
  PROVE  stage' \in Stages /\ stage' = [stage EXCEPT ![c] = where]
BY DEF Move, Stages

LEMMA CounterWrittenType ==
  ASSUME AccountsTypeOK, NEW c \in Calls, NEW n \in Nat, CounterWritten(c, n)
  PROVE  raced' \in Raced /\ wrong' \in Nat
<1>1. raced \in Raced /\ wrong \in Nat
  BY DEF AccountsTypeOK, Raced
<1>2. (LoggingIn(c) # {} \/ (raced.counter /\ n # 0)) \in BOOLEAN
  BY Zenon
<1>3. raced' = [raced EXCEPT !.counter = (LoggingIn(c) # {} \/ (raced.counter /\ n # 0))]
  BY Zenon DEF CounterWritten
<1>4. raced' \in Raced
  BY <1>1, <1>2, <1>3, RacedUpdates
<1>5. QED BY <1>1, <1>4 DEF CounterWritten

LEMMA BeginType ==
  ASSUME AccountsTypeOK, NEW c \in Calls, NEW op \in Ops, NEW right \in BOOLEAN,
         NEW code \in Calls \cup {NoSession}, Begin(c, op, right, code)
  PROVE  stage' \in Stages /\ asked' \in Asked
<1>1. [op |-> op, right |-> right, code |-> code, seen |-> account, began |-> endings]
        \in [op : Ops \cup {"none"}, right : BOOLEAN, code : Calls \cup {NoSession},
             seen : Account, began : Nat]
  BY DEF AccountsTypeOK
<1>2. asked' \in Asked
  BY <1>1 DEF Begin, AccountsTypeOK, Asked
<1>3. QED BY <1>2 DEF Begin, AccountsTypeOK, Stages

LEMMA EndedType ==
  ASSUME AccountsTypeOK, NEW c \in Calls, Ended(c)
  PROVE  endings' \in Nat /\ raced' \in Raced
<1>1. raced \in Raced /\ endings \in Nat /\ Others(c) \in SUBSET Calls
  BY AccountsTypes DEF Others
<1>2. [raced EXCEPT !.sessions = @ \cup Others(c)] \in Raced
  BY <1>1, RacedUpdates
<1>3. QED BY <1>1, <1>2 DEF Ended

LEMMA InitAccountsType == AccountsInit => AccountsTypeOK
<1> SUFFICES ASSUME AccountsInit PROVE AccountsTypeOK
  OBVIOUS
<1>1. account \in Account
  <2>1. PICK v \in BOOLEAN :
          account = [failed |-> 0, locked |-> FALSE, verified |-> v, session |-> NoSession]
    BY DEF AccountsInit
  <2>2. QED BY <2>1 DEF Account
<1>2. codes \in Codes /\ stage \in Stages /\ asked \in Asked
  BY DEF AccountsInit, Codes, Stages, Asked, Blank, Account
<1>3. raced \in Raced /\ wrong \in Nat /\ endings \in Nat
  BY DEF AccountsInit, Raced
<1>4. QED BY <1>1, <1>2, <1>3, AccountsTypes

LEMMA NextAccountsType == AccountsTypeOK /\ [AccountsNext]_accountVars => AccountsTypeOK'
<1> SUFFICES ASSUME AccountsTypeOK, [AccountsNext]_accountVars PROVE AccountsTypeOK'
  OBVIOUS
<1>0. /\ account \in Account /\ codes \in Codes /\ stage \in Stages
      /\ asked \in Asked /\ wrong \in Nat /\ endings \in Nat /\ raced \in Raced
  BY AccountsTypes
<1> USE <1>0
<1>q. ASSUME /\ account' \in Account /\ codes' \in Codes /\ stage' \in Stages
             /\ asked' \in Asked /\ wrong' \in Nat /\ endings' \in Nat /\ raced' \in Raced
      PROVE  AccountsTypeOK'
  BY <1>q DEF AccountsTypeOK, Codes, Stages, Asked, Raced
<1>2. ASSUME NEW c \in Calls, NEW right \in BOOLEAN, Login(c, right) PROVE AccountsTypeOK'
  BY <1>q, <1>2, BeginType DEF Login, Ops
<1>3. ASSUME NEW c \in Calls, LoginRefused(c) PROVE AccountsTypeOK'
  <2> DEFINE n == asked[c].seen.failed + 1
  <2>1. n \in Nat
    BY DEF Asked, Account
  <2>2. (account.locked \/ n >= LockLimit) \in BOOLEAN
    BY Zenon
  <2>3. account' = [account EXCEPT !.failed = n, !.locked = (account.locked \/ n >= LockLimit)]
    BY <1>3, Zenon DEF LoginRefused
  <2>4. account' \in Account
    BY <2>1, <2>2, <2>3, AccountUpdates
  <2>5. CounterWritten(c, n) /\ Move(c, "refused") /\ UNCHANGED <<codes, asked, endings>>
    BY <1>3 DEF LoginRefused
  <2> HIDE DEF n
  <2>6. QED BY <1>q, <2>1, <2>4, <2>5, CounterWrittenType, MoveType
<1>4. ASSUME NEW c \in Calls, LoginUnverified(c) PROVE AccountsTypeOK'
  <2>1. codes' \in Codes
    BY <1>4 DEF LoginUnverified, Codes
  <2>2. QED BY <1>q, <1>4, <2>1, MoveType DEF LoginUnverified
<1>5. ASSUME NEW c \in Calls, LoginGranted(c) PROVE AccountsTypeOK'
  <2>1. account' \in Account
    BY <1>5, AccountUpdates DEF LoginGranted
  <2>2. QED BY <1>q, <1>5, <2>1, MoveType, CounterWrittenType DEF LoginGranted
<1>6. ASSUME NEW c \in Calls, Refresh(c) PROVE AccountsTypeOK'
  BY <1>q, <1>6, BeginType DEF Refresh, Ops
<1>7. ASSUME NEW c \in Calls, SessionGranted(c) PROVE AccountsTypeOK'
  BY <1>q, <1>7, MoveType, AccountUpdates DEF SessionGranted
<1>8. ASSUME NEW c \in Calls, Logout(c) PROVE AccountsTypeOK'
  BY <1>q, <1>8, MoveType, AccountUpdates, EndedType DEF Logout
<1>9. ASSUME NEW c \in Calls, NEW type \in CodeTypes, RequestOtp(c, type) PROVE AccountsTypeOK'
  BY <1>q, <1>9, MoveType, CodesUpdates DEF RequestOtp, CodeMade
<1>10. ASSUME NEW c \in Calls, ForgotPassword(c) PROVE AccountsTypeOK'
  <2>1. codes' \in Codes
    BY <1>10 DEF ForgotPassword, Codes
  <2>2. asked' \in Asked /\ stage' \in Stages
    BY <1>10 DEF ForgotPassword, Asked, Stages, Ops
  <2>3. (raced.resets \/ \E d \in Others(c) : asked[d].op = "forgot") \in BOOLEAN
    BY Zenon
  <2>4. raced' = [raced EXCEPT !.resets = (raced.resets \/ \E d \in Others(c) : asked[d].op = "forgot")]
    BY <1>10, Zenon DEF ForgotPassword
  <2>5. raced' \in Raced
    BY <2>3, <2>4, RacedUpdates
  <2>6. QED BY <1>q, <1>10, <2>1, <2>2, <2>5 DEF ForgotPassword
<1>11. ASSUME NEW c \in Calls, CreateCode(c) PROVE AccountsTypeOK'
  BY <1>q, <1>11, MoveType, CodesUpdates DEF CreateCode, CodeMade, CodeTypes
<1>12. ASSUME NEW c \in Calls, NEW k \in Calls, FindCode(c, k) PROVE AccountsTypeOK'
  <2>1. raced' \in Raced
    <3>1. raced.codes \cup {k} \in SUBSET Calls /\ raced.codes \in SUBSET Calls
      BY DEF Raced
    <3>2. \E S \in SUBSET Calls : raced' = [raced EXCEPT !.codes = S]
      BY <1>12, <3>1 DEF FindCode
    <3>3. QED BY <3>2, RacedUpdates
  <2>2. QED BY <1>q, <1>12, <2>1, BeginType DEF FindCode, Ops
<1>13. ASSUME NEW c \in Calls, MarkUsed(c) PROVE AccountsTypeOK'
  <2>1. asked[c].code \in Calls
    BY <1>13 DEF MarkUsed, Asked
  <2>2. codes' \in Codes
    BY <1>13, <2>1, CodesUpdates DEF MarkUsed
  <2>3. stage' \in Stages
    BY <1>13, MoveType DEF MarkUsed
  <2>4. QED BY <1>q, <1>13, <2>2, <2>3 DEF MarkUsed
<1>14. ASSUME NEW c \in Calls, Verified(c) PROVE AccountsTypeOK'
  <2>1. account' \in Account
    BY <1>14, AccountUpdates DEF Verified
  <2>2. QED BY <1>q, <1>14, <2>1, MoveType DEF Verified
<1>15. ASSUME NEW c \in Calls, PasswordReset(c) PROVE AccountsTypeOK'
  <2>1. account' \in Account
    BY <1>15, AccountUpdates DEF PasswordReset
  <2>2. (LoggingIn(c) # {}) \in BOOLEAN /\ Others(c) \in SUBSET Calls
    BY DEF Others
  <2>3. raced' = [raced EXCEPT !.sessions = @ \cup Others(c), !.counter = (LoggingIn(c) # {})]
    BY <1>15, Zenon DEF PasswordReset
  <2>4. raced' \in Raced
    BY <2>2, <2>3, RacedUpdates
  <2>5. QED BY <1>q, <1>15, <2>1, <2>4, MoveType DEF PasswordReset
<1>16. ASSUME NEW c \in Calls, ChangePassword(c) PROVE AccountsTypeOK'
  BY <1>q, <1>16, BeginType DEF ChangePassword, Ops
<1>17. ASSUME NEW c \in Calls, PasswordChanged(c) PROVE AccountsTypeOK'
  BY <1>q, <1>17, MoveType, AccountUpdates, EndedType DEF PasswordChanged
<1>18. ASSUME NEW c \in Calls, CallLost(c) PROVE AccountsTypeOK'
  BY <1>q, <1>18, MoveType DEF CallLost
<1>19. ASSUME NEW k \in Calls, CodeExpires(k) PROVE AccountsTypeOK'
  BY <1>q, <1>19, CodesUpdates DEF CodeExpires
<1>20. CASE LockExpires
  BY <1>q, <1>20, AccountUpdates DEF LockExpires
<1>21. CASE UNCHANGED accountVars
  BY <1>q, <1>21 DEF accountVars
<1>22. QED
  BY <1>2, <1>3, <1>4, <1>5, <1>6, <1>7, <1>8, <1>9, <1>10, <1>11, <1>12, <1>13, <1>14,
     <1>15, <1>16, <1>17, <1>18, <1>19, <1>20, <1>21 DEF AccountsNext

------------------------------------------------------------------------------
(* Accounts: sessions.                                                     *)

\* A call under way began after the last end of a session, or overlapped it.
\* Only forgotPassword works without having read the row: it makes a code and no session.
Fresh ==
  \A c \in Calls : Working(c) =>
    IF asked[c].op = "forgot" THEN stage[c] = "create"
                              ELSE c \in raced.sessions \/ asked[c].began = endings

SessionInv == AccountsTypeOK /\ Fresh /\ EndedSessionsStayEnded

\* A call that begins has the row and the number of endings of now.
LEMMA BeginSession ==
  ASSUME SessionInv, AccountsTypeOK', NEW c \in Calls, NEW op \in Ops \ {"forgot"}, NEW right, NEW code,
         Begin(c, op, right, code), UNCHANGED <<account, endings>>, raced'.sessions = raced.sessions
  PROVE  SessionInv'
<1>1. /\ asked'[c].began = endings /\ asked'[c].op = op
      /\ \A d \in Calls \ {c} : asked'[d] = asked[d] /\ stage'[d] = stage[d]
  BY DEF Begin, SessionInv, AccountsTypeOK
<1>2. Fresh'
  BY <1>1 DEF SessionInv, Fresh, Working
<1>3. EndedSessionsStayEnded'
  BY <1>1 DEF SessionInv, EndedSessionsStayEnded, AccountsTypeOK, Account
<1>4. QED BY <1>2, <1>3 DEF SessionInv

\* A call that goes on, and leaves the session as it is or opens one of its own.
LEMMA StepSession ==
  ASSUME SessionInv, AccountsTypeOK', NEW c \in Calls, NEW where, Move(c, where),
         Working(c) \/ where \in {"idle", "done", "refused"}, asked[c].op # "forgot" \/ where = "done" \/ where = "refused",
         UNCHANGED <<asked, endings>>, raced'.sessions = raced.sessions,
         \/ account'.session = account.session
         \/ account'.session = c /\ Working(c) /\ asked[c].op # "forgot"
  PROVE  SessionInv'
<1>1. stage'[c] = where /\ \A d \in Calls \ {c} : stage'[d] = stage[d]
  BY DEF Move, SessionInv, AccountsTypeOK
<1>2. Fresh'
  BY <1>1 DEF SessionInv, Fresh, Working
<1>3. EndedSessionsStayEnded'
  BY DEF SessionInv, Fresh, EndedSessionsStayEnded
<1>4. QED BY <1>2, <1>3 DEF SessionInv

\* A step that ends the session: every other call under way overlaps it.
LEMMA EndSession ==
  ASSUME SessionInv, AccountsTypeOK', NEW c \in Calls, Move(c, "done"), UNCHANGED asked,
         account'.session = NoSession, raced'.sessions = raced.sessions \cup Others(c)
  PROVE  SessionInv'
<1>1. stage'[c] = "done" /\ \A d \in Calls \ {c} : stage'[d] = stage[d]
  BY DEF Move, SessionInv, AccountsTypeOK
<1>2. Fresh'
  BY <1>1 DEF SessionInv, Fresh, Working, Others
<1>3. EndedSessionsStayEnded'
  BY DEF EndedSessionsStayEnded
<1>4. QED BY <1>2, <1>3 DEF SessionInv

LEMMA NextSessionInv == SessionInv /\ [AccountsNext]_accountVars => SessionInv'
<1> SUFFICES ASSUME SessionInv, [AccountsNext]_accountVars PROVE SessionInv'
  OBVIOUS
<1>0. AccountsTypeOK /\ AccountsTypeOK' /\ account \in Account /\ raced \in Raced
  BY NextAccountsType DEF SessionInv, AccountsTypeOK, Raced
<1> USE <1>0
<1>a. \A b : [raced EXCEPT !.counter = b].sessions = raced.sessions
  BY DEF Raced
<1>1. ASSUME NEW c \in Calls, NEW right \in BOOLEAN, Login(c, right) PROVE SessionInv'
  BY <1>1, BeginSession DEF Login, Ops
<1>2. ASSUME NEW c \in Calls, NEW n, CounterWritten(c, n) PROVE raced'.sessions = raced.sessions
  BY <1>2, <1>a, Zenon DEF CounterWritten
<1>3. ASSUME NEW c \in Calls, LoginRefused(c) PROVE SessionInv'
  <2>1. /\ Working(c) /\ asked[c].op = "login" /\ Move(c, "refused") /\ UNCHANGED <<asked, endings>>
        /\ CounterWritten(c, asked[c].seen.failed + 1)
    BY <1>3 DEF LoginRefused, Working
  <2>2. account'.session = account.session
    BY <1>3 DEF LoginRefused, Account
  <2>3. QED BY <1>2, <2>1, <2>2, StepSession
<1>4. ASSUME NEW c \in Calls, LoginUnverified(c) PROVE SessionInv'
  BY <1>4, StepSession DEF LoginUnverified, Working
<1>5. ASSUME NEW c \in Calls, LoginGranted(c) PROVE SessionInv'
  <2>1. /\ Working(c) /\ asked[c].op = "login" /\ Move(c, "done") /\ UNCHANGED <<asked, endings>>
        /\ CounterWritten(c, 0)
    BY <1>5 DEF LoginGranted, Working
  <2>2. account'.session = c
    BY <1>5 DEF LoginGranted, Account
  <2>3. QED BY <1>2, <2>1, <2>2, StepSession
<1>6. ASSUME NEW c \in Calls, Refresh(c) \/ ChangePassword(c) PROVE SessionInv'
  BY <1>6, BeginSession DEF Refresh, ChangePassword, Ops
<1>7. ASSUME NEW c \in Calls, SessionGranted(c) PROVE SessionInv'
  <2>1. Working(c) /\ asked[c].op # "forgot" /\ Move(c, "done") /\ UNCHANGED <<asked, endings, raced>>
    BY <1>7 DEF SessionGranted, Working, SessionInv, Fresh
  <2>2. account'.session = c
    BY <1>7 DEF SessionGranted, Account
  <2>3. QED BY <2>1, <2>2, StepSession
<1>8. ASSUME NEW c \in Calls, Logout(c) PROVE SessionInv'
  BY <1>8, EndSession DEF Logout, Ended, Account, Raced
<1>9. ASSUME NEW c \in Calls, NEW type \in CodeTypes, RequestOtp(c, type) PROVE SessionInv'
  BY <1>9, StepSession DEF RequestOtp
<1>10. ASSUME NEW c \in Calls, ForgotPassword(c) PROVE SessionInv'
  <2>1. /\ stage[c] = "idle" /\ stage' = [stage EXCEPT ![c] = "create"]
        /\ asked' = [asked EXCEPT ![c].op = "forgot"] /\ UNCHANGED <<account, endings>>
    BY <1>10 DEF ForgotPassword
  <2>2. raced'.sessions = raced.sessions
    BY <1>10 DEF ForgotPassword, Raced
  <2>3. /\ stage'[c] = "create" /\ asked'[c].op = "forgot"
        /\ \A d \in Calls : asked'[d].began = asked[d].began
        /\ \A d \in Calls \ {c} : asked'[d] = asked[d] /\ stage'[d] = stage[d]
    BY <2>1 DEF AccountsTypeOK
  <2>4. Fresh'
    BY <2>1, <2>2, <2>3 DEF SessionInv, Fresh, Working
  <2>5. EndedSessionsStayEnded'
    BY <2>1, <2>2, <2>3 DEF SessionInv, EndedSessionsStayEnded, Account
  <2>6. QED BY <2>4, <2>5 DEF SessionInv
<1>11. ASSUME NEW c \in Calls, CreateCode(c) PROVE SessionInv'
  BY <1>11, StepSession DEF CreateCode
<1>12. ASSUME NEW c \in Calls, NEW k \in Calls, FindCode(c, k) PROVE SessionInv'
  <2>1. raced'.sessions = raced.sessions
    BY <1>12 DEF FindCode, Raced
  <2>2. QED BY <1>12, <2>1, BeginSession DEF FindCode, Ops
<1>13. ASSUME NEW c \in Calls, MarkUsed(c) PROVE SessionInv'
  <2>1. Working(c) /\ asked[c].op # "forgot" /\ UNCHANGED <<account, asked, endings, raced>>
    BY <1>13 DEF MarkUsed, Working, SessionInv, Fresh
  <2>2. Move(c, "refused") \/ Move(c, "marked")
    BY <1>13 DEF MarkUsed
  <2>3. QED BY <2>1, <2>2, StepSession
<1>14. ASSUME NEW c \in Calls, Verified(c) PROVE SessionInv'
  <2>1. account'.session = account.session
    BY <1>14 DEF Verified, Account
  <2>2. QED BY <1>14, <2>1, StepSession DEF Verified, Working
<1>15. ASSUME NEW c \in Calls, PasswordReset(c) PROVE SessionInv'
  <2>1. raced'.sessions = raced.sessions \cup Others(c)
    BY <1>15 DEF PasswordReset, Raced
  <2>2. account'.session = NoSession
    BY <1>15 DEF PasswordReset, Account
  <2>3. QED BY <1>15, <2>1, <2>2, EndSession DEF PasswordReset
<1>16. ASSUME NEW c \in Calls, PasswordChanged(c) PROVE SessionInv'
  BY <1>16, EndSession DEF PasswordChanged, Ended, Account, Raced
<1>17. ASSUME NEW c \in Calls, CallLost(c) PROVE SessionInv'
  BY <1>17, StepSession DEF CallLost
<1>18. ASSUME UNCHANGED <<stage, asked, endings, raced>>, account'.session = account.session
       PROVE  SessionInv'
  BY <1>18 DEF SessionInv, Fresh, Working, EndedSessionsStayEnded
<1>19. ASSUME NEW k \in Calls, CodeExpires(k) PROVE SessionInv'
  BY <1>18, <1>19 DEF CodeExpires
<1>20. CASE LockExpires
  BY <1>18, <1>20 DEF LockExpires, Account
<1>21. CASE UNCHANGED accountVars
  BY <1>18, <1>21 DEF accountVars
<1>22. QED
  BY <1>1, <1>3, <1>4, <1>5, <1>6, <1>7, <1>8, <1>9, <1>10, <1>11, <1>12, <1>13, <1>14,
     <1>15, <1>16, <1>17, <1>19, <1>20, <1>21 DEF AccountsNext

\* Sessions that were ended by a logout, a reset or a change of the password stay ended.
THEOREM SessionsStayEnded == AccountsSpec => []EndedSessionsStayEnded
<1>1. AccountsInit => SessionInv
  <2> SUFFICES ASSUME AccountsInit PROVE SessionInv
    OBVIOUS
  <2>1. account.session = NoSession /\ \A c \in Calls : ~Working(c)
    BY DEF AccountsInit, Working
  <2>2. QED BY <2>1, InitAccountsType DEF SessionInv, Fresh, EndedSessionsStayEnded
<1>2. SessionInv => EndedSessionsStayEnded
  BY DEF SessionInv
<1>3. QED BY <1>1, <1>2, NextSessionInv, PTL DEF AccountsSpec

------------------------------------------------------------------------------
(* Accounts: the counter of failed logins.                                 *)

\* While no logins overlapped, the counter and what each login has read of it are the number of
\* wrong passwords.
CounterInv ==
  raced.counter \/ /\ account.failed = wrong
                   /\ \A c \in Calls : stage[c] = "read" /\ asked[c].op = "login"
                                       => asked[c].seen.failed = wrong

\* Where a call that begins and a call that moves stand.
LEMMA BeginStep ==
  ASSUME AccountsTypeOK, NEW c \in Calls, NEW op \in Ops, NEW right, NEW code, Begin(c, op, right, code)
  PROVE  /\ stage[c] = "idle" /\ stage'[c] = "read"
         /\ asked'[c].op = op /\ asked'[c].code = code /\ asked'[c].seen = account
         /\ \A d \in Calls \ {c} : stage'[d] = stage[d] /\ asked'[d] = asked[d]
<1> DEFINE new == [op |-> op, right |-> right, code |-> code, seen |-> account, began |-> endings]
<1>1. new.op = op /\ new.code = code /\ new.seen = account
  OBVIOUS
<1> HIDE DEF new
<1>2. asked' = [asked EXCEPT ![c] = new]
  BY DEF Begin, new
<1>3. asked'[c] = new /\ \A d \in Calls \ {c} : asked'[d] = asked[d]
  BY <1>2 DEF AccountsTypeOK
<1>4. stage[c] = "idle" /\ stage'[c] = "read" /\ \A d \in Calls \ {c} : stage'[d] = stage[d]
  BY DEF Begin, AccountsTypeOK
<1>5. QED BY <1>1, <1>3, <1>4

LEMMA MoveStep ==
  ASSUME AccountsTypeOK, NEW c \in Calls, NEW where, Move(c, where)
  PROVE  stage'[c] = where /\ \A d \in Calls \ {c} : stage'[d] = stage[d]
BY DEF Move, AccountsTypeOK

LEMMA NextCounterInv == AccountsTypeOK /\ CounterInv /\ [AccountsNext]_accountVars => CounterInv'
<1> SUFFICES ASSUME AccountsTypeOK, CounterInv, [AccountsNext]_accountVars PROVE CounterInv'
  OBVIOUS
<1>0. /\ account \in Account /\ raced \in Raced /\ wrong \in Nat
  BY AccountsTypes
<1> USE <1>0
\* A step that leaves the counter and begins no login.
<1>s. ASSUME raced'.counter = raced.counter, wrong' = wrong, account'.failed = account.failed,
             \A c \in Calls : stage'[c] = "read" /\ asked'[c].op = "login"
                              => stage[c] = "read" /\ asked[c].op = "login" /\ asked'[c].seen = asked[c].seen
      PROVE  CounterInv'
  BY <1>s DEF CounterInv
<1>b. ASSUME NEW c \in Calls, NEW op \in Ops, NEW right, NEW code, Begin(c, op, right, code),
             UNCHANGED <<account, wrong>>, raced'.counter = raced.counter
      PROVE  CounterInv'
  BY <1>b, BeginStep DEF CounterInv
<1>m. ASSUME NEW c \in Calls, NEW where, Move(c, where), where # "read", UNCHANGED <<asked, wrong>>,
             account'.failed = account.failed, raced'.counter = raced.counter
      PROVE  CounterInv'
  BY <1>s, <1>m, MoveStep
<1>r. \A S : [raced EXCEPT !.sessions = S].counter = raced.counter
  BY DEF Raced
\* A write of the counter: it is not confused only if nobody else is logging in.
<1>w. ASSUME NEW c \in Calls, NEW where, Move(c, where), where # "read", UNCHANGED asked,
             raced'.counter \/ (LoggingIn(c) = {} /\ account'.failed = wrong')
      PROVE  CounterInv'
  <2>1. \A d \in Calls : stage'[d] = "read" => d # c /\ stage[d] = "read"
    BY <1>w, MoveStep
  <2>2. \A d \in Calls : stage'[d] = "read" /\ asked'[d].op = "login" => d \in LoggingIn(c)
    BY <1>w, <2>1 DEF LoggingIn, Others, Working
  <2>3. QED BY <1>w, <2>2 DEF CounterInv
<1>c. ASSUME NEW c \in Calls, NEW n \in Nat, CounterWritten(c, n)
      PROVE  /\ wrong' = IF n = 0 THEN 0 ELSE wrong + 1
             /\ raced'.counter = (LoggingIn(c) # {} \/ (raced.counter /\ n # 0))
  BY <1>c DEF CounterWritten, Raced
<1>1. ASSUME NEW c \in Calls, NEW right \in BOOLEAN, Login(c, right) PROVE CounterInv'
  BY <1>1, <1>b DEF Login, Ops
<1>2. ASSUME NEW c \in Calls, LoginRefused(c) PROVE CounterInv'
  <2> DEFINE n == asked[c].seen.failed + 1
  <2>1. n \in Nat /\ n # 0 /\ (asked[c].seen.failed = wrong => n = wrong + 1)
    BY DEF AccountsTypeOK, Account
  <2>2. account'.failed = n
    BY <1>2 DEF LoginRefused, Account
  <2>3. CounterWritten(c, n) /\ Move(c, "refused") /\ UNCHANGED asked
    BY <1>2 DEF LoginRefused
  <2>4. ~raced.counter => asked[c].seen.failed = wrong
    BY <1>2 DEF LoginRefused, CounterInv
  <2> HIDE DEF n
  <2>5. wrong' = wrong + 1 /\ raced'.counter = (LoggingIn(c) # {} \/ raced.counter)
    BY <1>c, <2>1, <2>3
  <2>6. raced'.counter \/ (LoggingIn(c) = {} /\ account'.failed = wrong')
    BY <2>1, <2>2, <2>4, <2>5
  <2>7. QED BY <1>w, <2>3, <2>6
<1>3. ASSUME NEW c \in Calls, LoginUnverified(c) PROVE CounterInv'
  BY <1>3, <1>m DEF LoginUnverified
<1>4. ASSUME NEW c \in Calls, LoginGranted(c) PROVE CounterInv'
  <2>1. account'.failed = 0
    BY <1>4 DEF LoginGranted, Account
  <2>2. CounterWritten(c, 0) /\ Move(c, "done") /\ UNCHANGED asked
    BY <1>4 DEF LoginGranted
  <2>3. wrong' = 0 /\ raced'.counter = (LoggingIn(c) # {})
    BY <1>c, <2>2
  <2>4. QED BY <1>w, <2>1, <2>2, <2>3
<1>5. ASSUME NEW c \in Calls, Refresh(c) \/ ChangePassword(c) PROVE CounterInv'
  BY <1>5, <1>b DEF Refresh, ChangePassword, Ops
<1>6. ASSUME NEW c \in Calls, SessionGranted(c) PROVE CounterInv'
  <2>1. account'.failed = account.failed
    BY <1>6 DEF SessionGranted, Account
  <2>2. QED BY <1>6, <2>1, <1>m DEF SessionGranted
<1>7. ASSUME NEW c \in Calls, Logout(c) \/ PasswordChanged(c) PROVE CounterInv'
  <2>1. account'.failed = account.failed
    BY <1>7 DEF Logout, PasswordChanged, Account
  <2>2. raced'.counter = raced.counter
    BY <1>7, <1>r DEF Logout, PasswordChanged, Ended
  <2>3. QED BY <1>7, <2>1, <2>2, <1>m DEF Logout, PasswordChanged
<1>8. ASSUME NEW c \in Calls, NEW type \in CodeTypes, RequestOtp(c, type) PROVE CounterInv'
  BY <1>8, <1>m DEF RequestOtp
<1>9. ASSUME NEW c \in Calls, ForgotPassword(c) PROVE CounterInv'
  <2>1. raced'.counter = raced.counter
    BY <1>9 DEF ForgotPassword, Raced
  <2>2. stage'[c] = "create" /\ \A d \in Calls \ {c} : stage'[d] = stage[d] /\ asked'[d] = asked[d]
    BY <1>9 DEF ForgotPassword, AccountsTypeOK
  <2>3. QED BY <1>9, <1>s, <2>1, <2>2 DEF ForgotPassword
<1>10. ASSUME NEW c \in Calls, CreateCode(c) PROVE CounterInv'
  BY <1>10, <1>m DEF CreateCode
<1>11. ASSUME NEW c \in Calls, NEW k \in Calls, FindCode(c, k) PROVE CounterInv'
  <2>1. raced'.counter = raced.counter
    BY <1>11 DEF FindCode, Raced
  <2>2. QED BY <1>11, <1>b, <2>1 DEF FindCode, Ops
<1>12. ASSUME NEW c \in Calls, MarkUsed(c) PROVE CounterInv'
  <2>1. (Move(c, "refused") \/ Move(c, "marked")) /\ UNCHANGED <<account, asked, wrong, raced>>
    BY <1>12 DEF MarkUsed
  <2>2. QED BY <1>m, <2>1
<1>13. ASSUME NEW c \in Calls, Verified(c) PROVE CounterInv'
  <2>1. account'.failed = account.failed
    BY <1>13 DEF Verified, Account
  <2>2. QED BY <1>13, <2>1, <1>m DEF Verified
<1>14. ASSUME NEW c \in Calls, PasswordReset(c) PROVE CounterInv'
  <2>1. account'.failed = 0 /\ wrong' = 0
    BY <1>14 DEF PasswordReset, Account
  <2>2. raced'.counter = (LoggingIn(c) # {})
    BY <1>14 DEF PasswordReset, Raced
  <2>3. QED BY <1>14, <1>w, <2>1, <2>2 DEF PasswordReset
<1>15. ASSUME NEW c \in Calls, CallLost(c) PROVE CounterInv'
  BY <1>15, <1>m DEF CallLost
<1>16. ASSUME NEW k \in Calls, CodeExpires(k) PROVE CounterInv'
  BY <1>16, <1>s DEF CodeExpires
<1>17. CASE LockExpires
  <2>1. account'.failed = account.failed
    BY <1>17 DEF LockExpires, Account
  <2>2. QED BY <1>17, <2>1, <1>s DEF LockExpires
<1>18. CASE UNCHANGED accountVars
  BY <1>18 DEF accountVars, CounterInv
<1>19. QED
  BY <1>1, <1>2, <1>3, <1>4, <1>5, <1>6, <1>7, <1>8, <1>9, <1>10, <1>11, <1>12, <1>13, <1>14,
     <1>15, <1>16, <1>17, <1>18 DEF AccountsNext

\* The counter that locks an account is the number of wrong passwords unless logins overlapped.
THEOREM FailedLoginsStayCounted == AccountsSpec => []FailedLoginsCounted
<1>1. AccountsInit => AccountsTypeOK /\ CounterInv
  <2> SUFFICES ASSUME AccountsInit PROVE AccountsTypeOK /\ CounterInv
    OBVIOUS
  <2>1. account.failed = wrong /\ \A c \in Calls : stage[c] = "idle"
    BY DEF AccountsInit
  <2>2. QED BY <2>1, InitAccountsType DEF CounterInv
<1>2. CounterInv => FailedLoginsCounted
  BY DEF CounterInv, FailedLoginsCounted
<1>3. QED BY <1>1, <1>2, NextAccountsType, NextCounterInv, PTL DEF AccountsSpec

------------------------------------------------------------------------------
(* Accounts: one-time codes.                                               *)

Accepted(c) == stage[c] \in {"marked", "grant", "done"}
Using(c, k) == asked[c].code = k /\ (stage[c] = "read" \/ Accepted(c))
Making(c) == stage[c] = "create" /\ asked[c].op = "forgot"
LiveReset(k) == codes[k].type = "PASSWORD_RESET" /\ Live(k)

\* Only a call that found a code has one, and a code that was made stays made.
CodesMade ==
  /\ \A c \in Calls : stage[c] \in {"idle", "create"} \/ asked[c].op \in {"login", "refresh", "change"}
                      => asked[c].code = NoSession
  /\ \A k \in Calls : Live(k) \/ (\E c \in Calls : asked[c].code = k) => stage[k] = "done"

\* A code that was not found twice is used by one call, and dead once that has marked it.
UseInv ==
  \A k \in Calls \ raced.codes :
    /\ \A c, d \in Calls : Using(c, k) /\ Using(d, k) => c = d
    /\ \A c \in Calls : asked[c].code = k /\ Accepted(c) => ~Live(k)

\* While requests for a reset do not overlap, the one under way has spent all the codes.
ResetInv ==
  raced.resets \/ /\ \A c, d \in Calls : Making(c) /\ Making(d) => c = d
                  /\ \A c, k \in Calls : Making(c) => ~LiveReset(k)
                  /\ \A j, k \in Calls : LiveReset(j) /\ LiveReset(k) => j = k

CodeInv == CodesMade /\ UseInv /\ ResetInv

LEMMA NextCodeInv == AccountsTypeOK /\ CodeInv /\ [AccountsNext]_accountVars => CodeInv'
<1> SUFFICES ASSUME AccountsTypeOK, CodeInv, [AccountsNext]_accountVars PROVE CodeInv'
  OBVIOUS
<1>0. codes \in Codes /\ raced \in Raced /\ NoSession \notin Calls
  BY AccountsTypes, AccountsAssumption
<1> USE <1>0
\* A step that finds no code, makes none, and revives none.
<1>m. ASSUME NEW c \in Calls, NEW where \in {"done", "refused", "marked", "grant", "create"}, Move(c, where),
             stage[c] # "done", asked' = asked,
             raced'.codes = raced.codes, raced'.resets = raced.resets,
             \A k \in Calls : codes'[k].type = codes[k].type /\ (Live(k)' => Live(k)),
             where = "create" => asked[c].op = "login",
             where \in {"done", "marked", "grant"} /\ asked[c].code # NoSession =>
               (stage[c] = "read" /\ ~Live(asked[c].code)') \/ Accepted(c)
      PROVE  CodeInv'
  <2>1. stage'[c] = where /\ \A d \in Calls \ {c} : stage'[d] = stage[d]
    BY <1>m, MoveStep
  <2>2. CodesMade'
    BY <1>m, <2>1 DEF CodeInv, CodesMade
  <2>3. \A d, k \in Calls : Using(d, k)' => Using(d, k)
    BY <1>m, <2>1 DEF Using, Accepted
  <2>4. \A d \in Calls : asked[d].code \in Calls /\ Accepted(d)' => Accepted(d) \/ ~Live(asked[d].code)'
    BY <1>m, <2>1 DEF Accepted
  <2>5. UseInv'
    BY <1>m, <2>3, <2>4 DEF CodeInv, UseInv
  <2>6. \A d \in Calls : Making(d)' => Making(d)
    BY <1>m, <2>1 DEF Making
  <2>7. \A k \in Calls : LiveReset(k)' => LiveReset(k)
    BY <1>m DEF LiveReset
  <2>8. ResetInv'
    BY <1>m, <2>6, <2>7 DEF CodeInv, ResetInv
  <2>9. QED BY <2>2, <2>5, <2>8 DEF CodeInv
\* A step that leaves codes and calls as they are.
<1>s. ASSUME UNCHANGED <<stage, asked, raced>>, \A k \in Calls : codes'[k].type = codes[k].type /\ (Live(k)' => Live(k))
      PROVE  CodeInv'
  <2>1. \A c, k \in Calls : /\ Using(c, k)' <=> Using(c, k)
                            /\ Making(c)' <=> Making(c)
                            /\ Accepted(c)' <=> Accepted(c)
                            /\ LiveReset(k)' => LiveReset(k)
    BY <1>s DEF Using, Making, Accepted, LiveReset
  <2>2. CodesMade'
    BY <1>s DEF CodeInv, CodesMade
  <2>3. UseInv'
    BY <1>s, <2>1 DEF CodeInv, UseInv
  <2>4. ResetInv'
    BY <1>s, <2>1 DEF CodeInv, ResetInv
  <2>5. QED BY <2>2, <2>3, <2>4 DEF CodeInv
\* A call that begins without a code.
<1>b. ASSUME NEW c \in Calls, NEW op \in {"login", "refresh", "change"}, NEW right,
             Begin(c, op, right, NoSession), UNCHANGED <<codes, raced>>
      PROVE  CodeInv'
  <2>1. /\ stage[c] = "idle" /\ stage'[c] = "read" /\ asked'[c].op = op /\ asked'[c].code = NoSession
        /\ \A d \in Calls \ {c} : stage'[d] = stage[d] /\ asked'[d] = asked[d]
    BY <1>b, BeginStep DEF Ops
  <2>2. \A d, k \in Calls : /\ Using(d, k)' => Using(d, k)
                            /\ Making(d)' => Making(d)
                            /\ asked'[d].code = k => asked[d].code = k /\ stage'[d] = stage[d]
                            /\ LiveReset(k)' <=> LiveReset(k)
                            /\ Live(k)' <=> Live(k)
    BY <1>b, <2>1 DEF Using, Making, LiveReset, Live, Accepted
  <2>3. CodesMade'
    BY <2>1, <2>2 DEF CodeInv, CodesMade
  <2>4. UseInv'
    BY <1>b, <2>2 DEF CodeInv, UseInv, Accepted
  <2>5. ResetInv'
    BY <1>b, <2>2 DEF CodeInv, ResetInv
  <2>6. QED BY <2>3, <2>4, <2>5 DEF CodeInv
\* A call that makes a code.
<1>c. ASSUME NEW c \in Calls, NEW type, CodeMade(c, type), Move(c, "done"), UNCHANGED <<asked, raced>>,
             stage[c] \in {"idle", "create"}, type = "PASSWORD_RESET" => Making(c)
      PROVE  CodeInv'
  <2>1. stage'[c] = "done" /\ \A d \in Calls \ {c} : stage'[d] = stage[d]
    BY <1>c, MoveStep
  <2>2. codes'[c].type = type /\ codes'[c].state = "live" /\ \A k \in Calls \ {c} : codes'[k] = codes[k]
    BY <1>c DEF CodeMade, Codes
  <2>3. asked[c].code = NoSession /\ ~Live(c) /\ \A d \in Calls : asked[d].code # c
    BY <1>c DEF CodeInv, CodesMade
  <2>4. CodesMade'
    BY <1>c, <2>1, <2>2, <2>3 DEF CodeInv, CodesMade, Live
  <2>5. UseInv'
    BY <1>c, <2>1, <2>2, <2>3 DEF CodeInv, UseInv, Using, Accepted, Live
  <2>6. \A d \in Calls : Making(d)' => Making(d) /\ d # c
    BY <1>c, <2>1 DEF Making
  <2>7. \A k \in Calls : LiveReset(k)' => LiveReset(k) \/ (k = c /\ Making(c))
    BY <1>c, <2>2 DEF LiveReset, Live
  <2>8. ResetInv'
    BY <1>c, <2>6, <2>7 DEF CodeInv, ResetInv
  <2>9. QED BY <2>4, <2>5, <2>8 DEF CodeInv
<1>1. ASSUME NEW c \in Calls, NEW right \in BOOLEAN, Login(c, right) PROVE CodeInv'
  BY <1>1, <1>b DEF Login
<1>2. ASSUME NEW c \in Calls, LoginRefused(c) PROVE CodeInv'
  <2>1. raced'.codes = raced.codes /\ raced'.resets = raced.resets
    BY <1>2 DEF LoginRefused, CounterWritten, Raced
  <2>2. QED BY <1>2, <1>m, <2>1 DEF LoginRefused, Live
<1>3. ASSUME NEW c \in Calls, LoginUnverified(c) PROVE CodeInv'
  <2>1. \A k \in Calls : codes'[k].type = codes[k].type /\ (Live(k)' => Live(k))
    BY <1>3 DEF LoginUnverified, Live, Codes
  <2>2. QED BY <1>3, <1>m, <2>1 DEF LoginUnverified
<1>4. ASSUME NEW c \in Calls, LoginGranted(c) PROVE CodeInv'
  <2>1. raced'.codes = raced.codes /\ raced'.resets = raced.resets
    BY <1>4 DEF LoginGranted, CounterWritten, Raced
  <2>2. asked[c].code = NoSession
    BY <1>4 DEF LoginGranted, CodeInv, CodesMade
  <2>3. QED BY <1>4, <1>m, <2>1, <2>2 DEF LoginGranted, Live
<1>5. ASSUME NEW c \in Calls, Refresh(c) \/ ChangePassword(c) PROVE CodeInv'
  BY <1>5, <1>b DEF Refresh, ChangePassword
<1>6. ASSUME NEW c \in Calls, SessionGranted(c) PROVE CodeInv'
  <2>1. asked[c].code = NoSession \/ Accepted(c)
    BY <1>6 DEF SessionGranted, CodeInv, CodesMade, Accepted
  <2>2. stage[c] # "done"
    BY <1>6 DEF SessionGranted
  <2>3. QED BY <1>6, <1>m, <2>1, <2>2 DEF SessionGranted, Live
<1>7. ASSUME NEW c \in Calls, Logout(c) \/ PasswordChanged(c) PROVE CodeInv'
  <2>1. raced'.codes = raced.codes /\ raced'.resets = raced.resets
    BY <1>7 DEF Logout, PasswordChanged, Ended, Raced
  <2>2. asked[c].code = NoSession /\ stage[c] # "done"
    BY <1>7 DEF Logout, PasswordChanged, CodeInv, CodesMade
  <2>3. QED BY <1>7, <1>m, <2>1, <2>2 DEF Logout, PasswordChanged, Live
<1>8. ASSUME NEW c \in Calls, NEW type \in CodeTypes, RequestOtp(c, type) PROVE CodeInv'
  BY <1>8, <1>c DEF RequestOtp
<1>9. ASSUME NEW c \in Calls, ForgotPassword(c) PROVE CodeInv'
  <2>1. /\ stage[c] = "idle" /\ stage'[c] = "create" /\ asked'[c].op = "forgot" /\ asked'[c].code = asked[c].code
        /\ \A d \in Calls \ {c} : stage'[d] = stage[d] /\ asked'[d] = asked[d]
    BY <1>9 DEF ForgotPassword, AccountsTypeOK
  <2>2. \A k \in Calls : codes'[k].type = codes[k].type /\ (Live(k)' => Live(k)) /\ ~LiveReset(k)'
    BY <1>9 DEF ForgotPassword, LiveReset, Live, Codes
  <2>3. raced'.codes = raced.codes
    BY <1>9 DEF ForgotPassword, Raced
  <2>4. raced'.resets = (raced.resets \/ \E d \in Others(c) : asked[d].op = "forgot")
    BY <1>9 DEF ForgotPassword, Raced
  <2>5. \A d \in Calls : asked'[d].code = asked[d].code
    BY <2>1
  <2>6. CodesMade'
    BY <2>1, <2>2, <2>5 DEF CodeInv, CodesMade
  <2>7. \A d, k \in Calls : (Using(d, k)' => Using(d, k)) /\ (Accepted(d)' => Accepted(d))
    BY <2>1, <2>5 DEF Using, Accepted
  <2>8. UseInv'
    BY <2>2, <2>3, <2>5, <2>7 DEF CodeInv, UseInv
  <2>9. ASSUME NEW d \in Calls \ {c}, Making(d)' PROVE d \in Others(c) /\ asked[d].op = "forgot"
    <3>1. stage[d] = "create" /\ asked[d].op = "forgot"
      BY <2>1, <2>9 DEF Making
    <3>2. QED BY <3>1 DEF Others, Working
  <2>10. ResetInv'
    <3>1. ASSUME ~raced'.resets, NEW d \in Calls, Making(d)' PROVE d = c
      BY <2>4, <2>9, <3>1
    <3>2. QED BY <2>2, <3>1 DEF ResetInv
  <2>11. QED BY <2>6, <2>8, <2>10 DEF CodeInv
<1>10. ASSUME NEW c \in Calls, CreateCode(c) PROVE CodeInv'
  BY <1>10, <1>c DEF CreateCode, Making
<1>11. ASSUME NEW c \in Calls, NEW k \in Calls, FindCode(c, k) PROVE CodeInv'
  <2> DEFINE op == IF codes[k].type = "PASSWORD_RESET" THEN "reset" ELSE "verify"
  <2>1. op \in Ops /\ op \notin {"login", "refresh", "change", "forgot"}
    BY DEF Ops
  <2>2. Live(k) /\ Begin(c, op, TRUE, k) /\ UNCHANGED <<account, codes, wrong, endings>>
    BY <1>11 DEF FindCode
  <2> HIDE DEF op
  <2>3. /\ stage[c] = "idle" /\ stage'[c] = "read" /\ asked'[c].op = op /\ asked'[c].code = k
        /\ \A d \in Calls \ {c} : stage'[d] = stage[d] /\ asked'[d] = asked[d]
    BY <2>1, <2>2, BeginStep
  <2>4. /\ raced'.resets = raced.resets
        /\ raced'.codes = IF \E d \in Others(c) : stage[d] = "read" /\ asked[d].code = k
                          THEN raced.codes \cup {k} ELSE raced.codes
    BY <1>11 DEF FindCode, Raced
  <2>5. \A j \in Calls : (Live(j)' <=> Live(j)) /\ (LiveReset(j)' <=> LiveReset(j))
    BY <2>2 DEF Live, LiveReset
  <2>6. CodesMade'
    BY <2>1, <2>2, <2>3, <2>5 DEF CodeInv, CodesMade
  <2>7. \A d, j \in Calls : Using(d, j)' => Using(d, j) \/ (d = c /\ j = k)
    BY <2>3 DEF Using, Accepted
  <2>8. \A d \in Calls : Accepted(d)' => d # c /\ Accepted(d) /\ asked'[d] = asked[d]
    BY <2>3 DEF Accepted
  <2>9. \A d \in Calls \ {c} : Using(d, k) => k \in raced'.codes
    <3>1. ASSUME NEW d \in Calls \ {c}, Using(d, k), k \notin raced.codes PROVE k \in raced'.codes
      <4>1. ~Accepted(d)
        BY <2>2, <3>1 DEF CodeInv, UseInv, Using
      <4>2. stage[d] = "read" /\ asked[d].code = k /\ d \in Others(c)
        BY <3>1, <4>1 DEF Using, Others, Working
      <4>3. QED BY <2>4, <4>2
    <3>2. QED BY <2>4, <3>1
  <2>10. UseInv'
    BY <2>4, <2>5, <2>7, <2>8, <2>9 DEF CodeInv, UseInv
  <2>11. \A d \in Calls : Making(d)' => Making(d)
    BY <2>1, <2>3 DEF Making
  <2>12. ResetInv'
    BY <2>4, <2>5, <2>11 DEF CodeInv, ResetInv
  <2>13. QED BY <2>6, <2>10, <2>12 DEF CodeInv
<1>12. ASSUME NEW c \in Calls, MarkUsed(c) PROVE CodeInv'
  <2>1. stage[c] = "read" /\ asked[c].code # NoSession /\ UNCHANGED <<asked, raced>>
    BY <1>12 DEF MarkUsed
  <2>2. asked[c].code \in Calls
    BY <2>1 DEF AccountsTypeOK
  <2>3. CASE codes[asked[c].code].state = "deleted"
    BY <1>12, <1>m, <2>1, <2>3 DEF MarkUsed, Live
  <2>4. CASE codes[asked[c].code].state # "deleted"
    <3>1. Move(c, "marked") /\ codes' = [codes EXCEPT ![asked[c].code].state = "used"]
      BY <1>12, <2>4 DEF MarkUsed
    <3>2. /\ \A k \in Calls : codes'[k].type = codes[k].type /\ (Live(k)' => Live(k))
          /\ ~Live(asked[c].code)'
      BY <2>1, <2>2, <3>1 DEF Live, Codes
    <3>3. QED BY <1>m, <2>1, <3>1, <3>2
  <2>5. QED BY <2>3, <2>4
<1>13. ASSUME NEW c \in Calls, Verified(c) PROVE CodeInv'
  BY <1>13, <1>m DEF Verified, Live, Accepted
<1>14. ASSUME NEW c \in Calls, PasswordReset(c) PROVE CodeInv'
  <2>1. raced'.codes = raced.codes /\ raced'.resets = raced.resets
    BY <1>14 DEF PasswordReset, Raced
  <2>2. QED BY <1>14, <1>m, <2>1 DEF PasswordReset, Live, Accepted
<1>15. ASSUME NEW c \in Calls, CallLost(c) PROVE CodeInv'
  BY <1>15, <1>m DEF CallLost, Working, Live
<1>16. ASSUME NEW k \in Calls, CodeExpires(k) PROVE CodeInv'
  <2>1. \A j \in Calls : codes'[j].type = codes[j].type /\ (Live(j)' => Live(j))
    BY <1>16 DEF CodeExpires, Live, Codes
  <2>2. QED BY <1>16, <1>s, <2>1 DEF CodeExpires
<1>17. CASE LockExpires
  BY <1>17, <1>s DEF LockExpires, Live
<1>18. CASE UNCHANGED accountVars
  BY <1>18, <1>s DEF accountVars, Live
<1>19. QED
  BY <1>1, <1>2, <1>3, <1>4, <1>5, <1>6, <1>7, <1>8, <1>9, <1>10, <1>11, <1>12, <1>13, <1>14,
     <1>15, <1>16, <1>17, <1>18 DEF AccountsNext

\* A one-time code is accepted once, and one code at most can reset the password, unless calls
\* overlapped.
THEOREM CodesStaySpentOnce == AccountsSpec => []CodesSpentOnce
<1>1. AccountsInit => AccountsTypeOK /\ CodeInv
  <2> SUFFICES ASSUME AccountsInit PROVE AccountsTypeOK /\ CodeInv
    OBVIOUS
  <2>1. \A c \in Calls : stage[c] = "idle" /\ asked[c].code = NoSession /\ ~Live(c)
    BY DEF AccountsInit, Blank, Live
  <2>2. CodesMade /\ UseInv /\ ResetInv
    BY <2>1, AccountsAssumption DEF CodesMade, UseInv, ResetInv, Using, Accepted, Making, LiveReset
  <2>3. QED BY <2>2, InitAccountsType DEF CodeInv
<1>2. CodeInv => CodesSpentOnce
  <2>1. UseInv => CodeAcceptedOnce
    <3> SUFFICES ASSUME UseInv, NEW k \in Calls \ raced.codes
                 PROVE  Cardinality({c \in Calls : asked[c].code = k /\ stage[c] \in {"marked", "grant", "done"}}) <= 1
      BY DEF CodeAcceptedOnce
    <3>1. QED BY AtMostOne DEF UseInv, Using, Accepted
  <2>2. ResetInv => OneLiveResetCode
    <3> SUFFICES ASSUME ResetInv, ~raced.resets
                 PROVE  Cardinality({k \in Calls : codes[k].type = "PASSWORD_RESET" /\ Live(k)}) <= 1
      BY DEF OneLiveResetCode
    <3>1. QED BY AtMostOne DEF ResetInv, LiveReset
  <2>3. QED BY <2>1, <2>2 DEF CodeInv, CodesSpentOnce
<1>3. QED BY <1>1, <1>2, NextAccountsType, NextCodeInv, PTL DEF AccountsSpec

------------------------------------------------------------------------------
(* Reviews.                                                                *)

Task == [step : {"idle", "submit", "withdraw", "moderate", "toggle", "done"},
         review : ReviewRow, of : SUBSET ReviewCalls,
         status : ReviewStatuses \cup {"none"}, featured : {"absent", "yes", "no"}]
Crossed == [submissions : BOOLEAN, toggles : BOOLEAN]

LEMMA ReviewsTypes ==
  ReviewsTypeOK <=> /\ reviews \in [ReviewCalls -> ReviewRow] /\ task \in [ReviewCalls -> Task]
                    /\ crossed \in Crossed /\ restored \subseteq ReviewCalls
                    /\ insisted \subseteq ReviewCalls
BY DEF ReviewsTypeOK, Task, Crossed

LEMMA ReviewRows ==
  /\ NoReview \in ReviewRow /\ [status |-> "PENDING", featured |-> FALSE] \in ReviewRow
  /\ \A row \in ReviewRow : [row EXCEPT !.status = "deleted"] \in ReviewRow
  /\ \A row \in ReviewRow, b \in BOOLEAN : [row EXCEPT !.featured = b] \in ReviewRow
BY DEF NoReview, ReviewRow, ReviewStatuses

LEMMA CrossedUpdates ==
  ASSUME NEW x \in Crossed, NEW b \in BOOLEAN
  PROVE  [x EXCEPT !.submissions = b] \in Crossed /\ [x EXCEPT !.toggles = b] \in Crossed
BY DEF Crossed

\* A handler that begins has the row it read; one that ends has nothing; the others stay.
LEMMA TakeStep ==
  ASSUME ReviewsTypeOK, NEW c \in ReviewCalls, NEW step \in {"withdraw", "moderate", "toggle"},
         NEW r \in ReviewCalls, NEW status \in ReviewStatuses \cup {"none"},
         NEW featured \in {"absent", "yes", "no"}, Take(c, step, r, status, featured)
  PROVE  /\ task' \in [ReviewCalls -> Task]
         /\ task[c] = Idle /\ Exists(r)
         /\ task'[c] = [step |-> step, review |-> reviews[r], of |-> {r},
                        status |-> status, featured |-> featured]
         /\ \A d \in ReviewCalls \ {c} : task'[d] = task[d]
<1>1. [step |-> step, review |-> reviews[r], of |-> {r}, status |-> status, featured |-> featured] \in Task
  BY DEF ReviewsTypeOK, Task
<1>2. QED BY <1>1, ReviewsTypes DEF Take

LEMMA FinishStep ==
  ASSUME ReviewsTypeOK, NEW c \in ReviewCalls, Finish(c)
  PROVE  /\ task' \in [ReviewCalls -> Task]
         /\ task'[c].step = "done" /\ task'[c].of = {}
         /\ \A d \in ReviewCalls \ {c} : task'[d] = task[d]
<1>1. [Idle EXCEPT !.step = "done"] \in Task
  BY ReviewRows DEF Idle, Task
<1>2. QED BY <1>1, ReviewsTypes DEF Finish, Idle

LEMMA SubmitStep ==
  ASSUME ReviewsTypeOK, NEW c \in ReviewCalls, task' = [task EXCEPT ![c].step = "submit"]
  PROVE  /\ task' \in [ReviewCalls -> Task]
         /\ task'[c].step = "submit" /\ task'[c].of = task[c].of
         /\ \A d \in ReviewCalls \ {c} : task'[d] = task[d]
BY ReviewsTypes DEF Task

LEMMA NextReviewsType == ReviewsTypeOK /\ [ReviewsNext]_reviewVars => ReviewsTypeOK'
<1> SUFFICES ASSUME ReviewsTypeOK, [ReviewsNext]_reviewVars PROVE ReviewsTypeOK'
  OBVIOUS
<1>0. /\ reviews \in [ReviewCalls -> ReviewRow] /\ task \in [ReviewCalls -> Task]
      /\ crossed \in Crossed /\ restored \subseteq ReviewCalls /\ insisted \subseteq ReviewCalls
  BY ReviewsTypes
<1> USE <1>0
<1>q. ASSUME /\ reviews' \in [ReviewCalls -> ReviewRow] /\ task' \in [ReviewCalls -> Task]
             /\ crossed' \in Crossed /\ restored' \subseteq ReviewCalls /\ insisted' \subseteq ReviewCalls
      PROVE  ReviewsTypeOK'
  BY <1>q DEF ReviewsTypeOK, Task, Crossed
<1>1. ASSUME NEW c \in ReviewCalls, CreateReview(c) PROVE ReviewsTypeOK'
  <2>1. (crossed.submissions \/ Doing("submit") # {}) \in BOOLEAN
    BY Zenon
  <2>2. crossed' \in Crossed
    BY <1>1, <2>1, CrossedUpdates DEF CreateReview
  <2>3. QED BY <1>q, <1>1, <2>2, SubmitStep DEF CreateReview
<1>2. ASSUME NEW c \in ReviewCalls, ReviewInserted(c) PROVE ReviewsTypeOK'
  BY <1>q, <1>2, FinishStep, ReviewRows DEF ReviewInserted
<1>3. ASSUME NEW c \in ReviewCalls, ReviewCallLost(c) PROVE ReviewsTypeOK'
  BY <1>q, <1>3, FinishStep DEF ReviewCallLost
<1>4. ASSUME NEW c \in ReviewCalls, NEW r \in ReviewCalls, DeleteOwn(c, r) \/ AdminDelete(c, r)
      PROVE  ReviewsTypeOK'
  BY <1>q, <1>4, TakeStep DEF DeleteOwn, AdminDelete
<1>5. ASSUME NEW c \in ReviewCalls, NEW r \in ReviewCalls, ReviewDeleted(c, r) PROVE ReviewsTypeOK'
  BY <1>q, <1>5, FinishStep, ReviewRows DEF ReviewDeleted
<1>6. ASSUME NEW c \in ReviewCalls, NEW r \in ReviewCalls, NEW status \in ReviewStatuses,
             NEW featured \in {"absent", "yes", "no"}, Moderate(c, r, status, featured)
      PROVE  ReviewsTypeOK'
  <2>1. (crossed.toggles \/ On(r, "toggle") # {}) \in BOOLEAN
    BY Zenon
  <2>2. crossed' \in Crossed
    BY <1>6, <2>1, CrossedUpdates DEF Moderate
  <2>3. QED BY <1>q, <1>6, <2>2, TakeStep DEF Moderate
<1>7. ASSUME NEW c \in ReviewCalls, NEW r \in ReviewCalls, Moderated(c, r) PROVE ReviewsTypeOK'
  <2>1. Featured(task[c]) \in BOOLEAN
    BY DEF Featured, Task, ReviewRow
  <2>2. Exists(r) => [status |-> task[c].status, featured |-> Featured(task[c])] \in ReviewRow
    BY <2>1 DEF Task, ReviewRow
  <2>3. reviews' \in [ReviewCalls -> ReviewRow]
    BY <1>7, <2>2 DEF Moderated
  <2>4. QED BY <1>q, <1>7, <2>3, FinishStep DEF Moderated
<1>8. ASSUME NEW c \in ReviewCalls, NEW r \in ReviewCalls, ToggleFeatured(c, r) PROVE ReviewsTypeOK'
  <2>1. (crossed.toggles \/ On(r, "moderate") # {}) \in BOOLEAN
    BY Zenon
  <2>2. crossed' \in Crossed
    BY <1>8, <2>1, CrossedUpdates DEF ToggleFeatured
  <2>3. QED BY <1>q, <1>8, <2>2, TakeStep DEF ToggleFeatured
<1>9. ASSUME NEW c \in ReviewCalls, NEW r \in ReviewCalls, Toggled(c, r) PROVE ReviewsTypeOK'
  <2>1. (~task[c].review.featured) \in BOOLEAN
    BY Zenon
  <2>2. reviews' \in [ReviewCalls -> ReviewRow]
    BY <1>9, <2>1, ReviewRows DEF Toggled
  <2>3. QED BY <1>q, <1>9, <2>2, FinishStep DEF Toggled
<1>10. CASE UNCHANGED reviewVars
  BY <1>q, <1>10 DEF reviewVars
<1>11. QED
  BY <1>1, <1>2, <1>3, <1>4, <1>5, <1>6, <1>7, <1>8, <1>9, <1>10 DEF ReviewsNext

\* A call that has not inserted has no review, and no handler works on one that is not there.
Inserted ==
  /\ \A c \in ReviewCalls : task[c].step \in {"idle", "submit"} => reviews[c].status = "none"
  /\ \A c \in ReviewCalls : \A r \in task[c].of : reviews[r].status # "none"

\* Without crossings, a review that is being toggled is approved or gone, and nobody moderates it.
ToggleInv ==
  /\ Inserted
  /\ \A c \in Doing("moderate") : task[c].status \in ReviewStatuses
  /\ crossed.toggles \/ \A r \in ReviewCalls : On(r, "toggle") # {} =>
       On(r, "moderate") = {} /\ reviews[r].status \in {"APPROVED", "deleted"}
  /\ FeaturedIsApproved

\* Without crossings, one call at most submits, and nothing is open meanwhile.
SubmitInv ==
  crossed.submissions \/
    /\ \A c, d \in Doing("submit") : c = d
    /\ Doing("submit") # {} => \A r \in ReviewCalls \ restored : ~Open(r)
    /\ \A r, s \in ReviewCalls \ restored : Open(r) /\ Open(s) => r = s

LEMMA NextInserted == ReviewsTypeOK /\ ToggleInv /\ [ReviewsNext]_reviewVars => Inserted'
<1> SUFFICES ASSUME ReviewsTypeOK, Inserted, ToggleInv, [ReviewsNext]_reviewVars PROVE Inserted'
  BY DEF ToggleInv
<1>0. reviews \in [ReviewCalls -> ReviewRow] /\ task \in [ReviewCalls -> Task]
  BY ReviewsTypes
<1> USE <1>0
<1>1. ASSUME NEW c \in ReviewCalls, CreateReview(c) PROVE Inserted'
  BY <1>1, SubmitStep DEF CreateReview, Inserted, Idle
<1>2. ASSUME NEW c \in ReviewCalls, ReviewInserted(c) PROVE Inserted'
  <2>1. reviews'[c].status = "PENDING" /\ \A r \in ReviewCalls \ {c} : reviews'[r] = reviews[r]
    BY <1>2 DEF ReviewInserted
  <2>2. QED BY <1>2, <2>1, FinishStep DEF ReviewInserted, Inserted
<1>3. ASSUME NEW c \in ReviewCalls, ReviewCallLost(c) PROVE Inserted'
  BY <1>3, FinishStep DEF ReviewCallLost, Inserted
\* A handler of a review that exists: the review is not of a call that has yet to insert.
<1>t. ASSUME NEW c \in ReviewCalls, NEW step \in {"withdraw", "moderate", "toggle"},
             NEW r \in ReviewCalls, NEW status \in ReviewStatuses \cup {"none"},
             NEW featured \in {"absent", "yes", "no"}, Take(c, step, r, status, featured),
             UNCHANGED reviews
      PROVE  Inserted'
  <2> DEFINE taken == [step |-> step, review |-> reviews[r], of |-> {r},
                       status |-> status, featured |-> featured]
  <2>a. taken.step = step /\ taken.of = {r}
    OBVIOUS
  <2> HIDE DEF taken
  <2>b. Exists(r) /\ task'[c] = taken /\ \A d \in ReviewCalls \ {c} : task'[d] = task[d]
    BY <1>t DEF Take, taken
  <2>1. task'[c].step = step /\ task'[c].of = {r} /\ Exists(r) /\ \A d \in ReviewCalls \ {c} : task'[d] = task[d]
    BY <2>a, <2>b
  <2>2. reviews[r].status # "none"
    BY <2>1 DEF Exists, ReviewStatuses
  <2>3. \A d \in ReviewCalls : task'[d].step \in {"idle", "submit"} => reviews'[d].status = "none"
    BY <1>t, <2>1 DEF Inserted
  <2>4. \A d \in ReviewCalls : \A s \in task'[d].of : reviews'[s].status # "none"
    BY <1>t, <2>1, <2>2 DEF Inserted
  <2>5. QED BY <2>3, <2>4 DEF Inserted
\* The write half of a handler leaves no review without a status.
<1>w. ASSUME NEW c \in ReviewCalls, Finish(c),
             \A r \in ReviewCalls : reviews'[r] = reviews[r] \/ (reviews[r].status # "none" /\ reviews'[r].status # "none")
      PROVE  Inserted'
  <2>1. /\ task'[c].step = "done" /\ task'[c].of = {}
        /\ \A d \in ReviewCalls \ {c} : task'[d] = task[d] /\ task[d].of \subseteq ReviewCalls
    BY <1>w, FinishStep DEF Task
  <2>2. \A d \in ReviewCalls : task'[d].step \in {"idle", "submit"} => reviews'[d].status = "none"
    BY <1>w, <2>1 DEF Inserted
  <2>3. \A d \in ReviewCalls : \A s \in task'[d].of : reviews'[s].status # "none"
    BY <1>w, <2>1 DEF Inserted
  <2>4. QED BY <2>2, <2>3 DEF Inserted
<1>4. ASSUME NEW c \in ReviewCalls, NEW r \in ReviewCalls, DeleteOwn(c, r) \/ AdminDelete(c, r)
      PROVE  Inserted'
  BY <1>4, <1>t DEF DeleteOwn, AdminDelete
<1>5. ASSUME NEW c \in ReviewCalls, NEW r \in ReviewCalls, ReviewDeleted(c, r) PROVE Inserted'
  <2>1. \A s \in ReviewCalls : reviews'[s] = reviews[s] \/ (reviews[s].status # "none" /\ reviews'[s].status # "none")
    BY <1>5 DEF ReviewDeleted, Inserted, ReviewRow
  <2>2. QED BY <1>5, <2>1, <1>w DEF ReviewDeleted
<1>6. ASSUME NEW c \in ReviewCalls, NEW r \in ReviewCalls, NEW status \in ReviewStatuses,
             NEW featured \in {"absent", "yes", "no"}, Moderate(c, r, status, featured)
      PROVE  Inserted'
  BY <1>6, <1>t DEF Moderate
<1>7. ASSUME NEW c \in ReviewCalls, NEW r \in ReviewCalls, Moderated(c, r) PROVE Inserted'
  <2>1. task[c].status \in ReviewStatuses
    BY <1>7 DEF Moderated, ToggleInv, Doing
  <2>2. \A s \in ReviewCalls : reviews'[s] = reviews[s] \/ (reviews[s].status # "none" /\ reviews'[s].status # "none")
    BY <1>7, <2>1 DEF Moderated, Exists, ReviewStatuses
  <2>3. QED BY <1>7, <2>2, <1>w DEF Moderated
<1>8. ASSUME NEW c \in ReviewCalls, NEW r \in ReviewCalls, ToggleFeatured(c, r) PROVE Inserted'
  BY <1>8, <1>t DEF ToggleFeatured
<1>9. ASSUME NEW c \in ReviewCalls, NEW r \in ReviewCalls, Toggled(c, r) PROVE Inserted'
  <2>1. \A s \in ReviewCalls : reviews'[s] = reviews[s] \/ (reviews[s].status # "none" /\ reviews'[s].status # "none")
    BY <1>9 DEF Toggled, Exists, ReviewRow, ReviewStatuses
  <2>2. QED BY <1>9, <2>1, <1>w DEF Toggled
<1>10. CASE UNCHANGED reviewVars
  BY <1>10 DEF reviewVars, Inserted
<1>11. QED
  BY <1>1, <1>2, <1>3, <1>4, <1>5, <1>6, <1>7, <1>8, <1>9, <1>10 DEF ReviewsNext

\* The handlers on a review after a step: those of before, without one that ended and with one
\* that began.
LEMMA HandlersAfterFinish ==
  ASSUME ReviewsTypeOK, NEW c \in ReviewCalls, Finish(c)
  PROVE  /\ \A step \in {"submit", "moderate", "toggle"} : Doing(step)' = Doing(step) \ {c}
         /\ \A step \in {"moderate", "toggle"} : \A r \in ReviewCalls : On(r, step)' = On(r, step) \ {c}
         /\ \A d \in ReviewCalls \ {c} : task'[d] = task[d]
<1>1. /\ task'[c].step = "done"
      /\ \A d \in ReviewCalls \ {c} : task'[d] = task[d]
  BY FinishStep
<1>2. QED BY <1>1 DEF Doing, On

LEMMA HandlersAfterTake ==
  ASSUME ReviewsTypeOK, NEW c \in ReviewCalls, NEW step \in {"withdraw", "moderate", "toggle"},
         NEW r \in ReviewCalls, NEW status, NEW featured, Take(c, step, r, status, featured)
  PROVE  /\ Doing("submit")' = Doing("submit")
         /\ Doing("moderate")' = IF step = "moderate" THEN Doing("moderate") \cup {c} ELSE Doing("moderate")
         /\ \A s \in ReviewCalls, other \in {"moderate", "toggle"} :
              On(s, other)' = IF s = r /\ other = step THEN On(s, other) \cup {c} ELSE On(s, other)
         /\ task'[c].status = status /\ task'[c].featured = featured
         /\ \A d \in ReviewCalls \ {c} : task'[d] = task[d]
<1> DEFINE taken == [step |-> step, review |-> reviews[r], of |-> {r},
                     status |-> status, featured |-> featured]
<1>1. taken.step = step /\ taken.of = {r} /\ taken.status = status /\ taken.featured = featured
  OBVIOUS
<1> HIDE DEF taken
<1>2. /\ task[c] = Idle /\ task'[c] = taken
      /\ \A d \in ReviewCalls \ {c} : task'[d] = task[d]
  BY ReviewsTypes DEF Take, taken
<1>3. task[c].step = "idle"
  BY <1>2 DEF Idle
<1>4. Doing("submit")' = Doing("submit")
  BY <1>1, <1>2, <1>3 DEF Doing
<1>5. Doing("moderate")' = IF step = "moderate" THEN Doing("moderate") \cup {c} ELSE Doing("moderate")
  BY <1>1, <1>2, <1>3 DEF Doing
<1>6. \A s \in ReviewCalls, other \in {"moderate", "toggle"} :
        On(s, other)' = IF s = r /\ other = step THEN On(s, other) \cup {c} ELSE On(s, other)
  BY <1>1, <1>2, <1>3 DEF Doing, On
<1>7. QED BY <1>1, <1>2, <1>4, <1>5, <1>6

LEMMA NextToggleInv == ReviewsTypeOK /\ ToggleInv /\ [ReviewsNext]_reviewVars => ToggleInv'
<1> SUFFICES ASSUME ReviewsTypeOK, ToggleInv, [ReviewsNext]_reviewVars PROVE ToggleInv'
  OBVIOUS
<1>0. reviews \in [ReviewCalls -> ReviewRow] /\ task \in [ReviewCalls -> Task] /\ crossed \in Crossed
  BY ReviewsTypes
<1> USE <1>0
<1>i. Inserted /\ Inserted'
  BY NextInserted DEF ToggleInv
\* A step that begins no moderation and no toggle, changes one review and ends one handler.
<1>s. ASSUME NEW c \in ReviewCalls, Finish(c), UNCHANGED crossed,
             \A r \in ReviewCalls :
               \/ reviews'[r] = reviews[r] /\ (r \in insisted => r \in insisted')
               \/ reviews'[r].status \in {"PENDING", "REJECTED"}
                  /\ (reviews'[r].featured => r \in insisted')
                  /\ (crossed.toggles \/ On(r, "toggle") = {})
               \/ reviews'[r].status \in {"APPROVED", "deleted"}
      PROVE  ToggleInv'
  <2>1. /\ Doing("moderate")' = Doing("moderate") \ {c}
        /\ \A r \in ReviewCalls : On(r, "moderate")' = On(r, "moderate") \ {c} /\ On(r, "toggle")' = On(r, "toggle") \ {c}
        /\ \A d \in ReviewCalls \ {c} : task'[d] = task[d]
    BY <1>s, HandlersAfterFinish
  <2>2. FeaturedIsApproved'
    BY <1>s DEF ToggleInv, FeaturedIsApproved, Exists, ReviewStatuses
  <2>3. \A d \in Doing("moderate")' : d \in Doing("moderate") /\ task'[d] = task[d]
    BY <2>1 DEF Doing
  <2>4. crossed'.toggles \/ \A r \in ReviewCalls : On(r, "toggle")' # {} =>
          On(r, "moderate")' = {} /\ reviews'[r].status \in {"APPROVED", "deleted"}
    BY <1>s, <2>1 DEF ToggleInv
  <2>5. QED BY <1>i, <2>2, <2>3, <2>4 DEF ToggleInv
<1>1. ASSUME NEW c \in ReviewCalls, CreateReview(c) PROVE ToggleInv'
  <2>1. /\ task'[c].step = "submit" /\ task[c] = Idle /\ UNCHANGED <<reviews, insisted>>
        /\ \A d \in ReviewCalls \ {c} : task'[d] = task[d]
    BY <1>1, SubmitStep DEF CreateReview
  <2>2. task[c].step = "idle"
    BY <2>1 DEF Idle
  <2>3. /\ Doing("moderate")' = Doing("moderate")
        /\ \A r \in ReviewCalls : On(r, "moderate")' = On(r, "moderate") /\ On(r, "toggle")' = On(r, "toggle")
    BY <2>1, <2>2 DEF On, Doing
  <2>4. \A d \in Doing("moderate") : task'[d] = task[d]
    BY <2>1, <2>2 DEF Doing
  <2>5. crossed'.toggles = crossed.toggles
    BY <1>1 DEF CreateReview, Crossed
  <2>6. QED BY <1>i, <2>1, <2>3, <2>4, <2>5 DEF ToggleInv, FeaturedIsApproved, Exists
<1>2. ASSUME NEW c \in ReviewCalls, ReviewInserted(c) PROVE ToggleInv'
  <2>1. reviews[c].status = "none"
    BY <1>2, <1>i DEF ReviewInserted, Inserted
  <2>2. crossed.toggles \/ On(c, "toggle") = {}
    BY <2>1 DEF ToggleInv
  <2>3. /\ reviews'[c].status = "PENDING" /\ ~reviews'[c].featured
        /\ \A r \in ReviewCalls \ {c} : reviews'[r] = reviews[r]
    BY <1>2 DEF ReviewInserted
  <2>4. UNCHANGED insisted
    BY <1>2 DEF ReviewInserted
  <2>5. QED BY <1>2, <1>s, <2>2, <2>3, <2>4 DEF ReviewInserted
<1>3. ASSUME NEW c \in ReviewCalls, ReviewCallLost(c) PROVE ToggleInv'
  BY <1>3, <1>s DEF ReviewCallLost
<1>4. ASSUME NEW c \in ReviewCalls, NEW r \in ReviewCalls, DeleteOwn(c, r) \/ AdminDelete(c, r)
      PROVE  ToggleInv'
  <2>1. Take(c, "withdraw", r, "none", "absent") /\ UNCHANGED <<reviews, crossed, insisted>>
    BY <1>4 DEF DeleteOwn, AdminDelete
  <2>2. /\ Doing("moderate")' = Doing("moderate")
        /\ \A s \in ReviewCalls : On(s, "moderate")' = On(s, "moderate") /\ On(s, "toggle")' = On(s, "toggle")
        /\ \A d \in ReviewCalls \ {c} : task'[d] = task[d]
    BY <2>1, HandlersAfterTake
  <2>3. \A d \in Doing("moderate") : task'[d] = task[d]
    BY <2>1, <2>2 DEF Doing, Take, Idle
  <2>4. QED BY <1>i, <2>1, <2>2, <2>3 DEF ToggleInv, FeaturedIsApproved, Exists
<1>5. ASSUME NEW c \in ReviewCalls, NEW r \in ReviewCalls, ReviewDeleted(c, r) PROVE ToggleInv'
  <2>1. /\ reviews'[r].status = "deleted"
        /\ \A s \in ReviewCalls \ {r} : reviews'[s] = reviews[s]
    BY <1>5 DEF ReviewDeleted, ReviewRow
  <2>2. QED BY <1>5, <1>s, <2>1 DEF ReviewDeleted
<1>6. ASSUME NEW c \in ReviewCalls, NEW r \in ReviewCalls, NEW status \in ReviewStatuses,
             NEW featured \in {"absent", "yes", "no"}, Moderate(c, r, status, featured)
      PROVE  ToggleInv'
  <2>1. Take(c, "moderate", r, status, featured) /\ UNCHANGED <<reviews, insisted>>
    BY <1>6 DEF Moderate
  <2>2. /\ Doing("moderate")' = Doing("moderate") \cup {c}
        /\ \A s \in ReviewCalls \ {r} : On(s, "moderate")' = On(s, "moderate")
        /\ \A s \in ReviewCalls : On(s, "toggle")' = On(s, "toggle")
        /\ task'[c].status = status /\ task'[c].featured = featured
        /\ \A d \in ReviewCalls \ {c} : task'[d] = task[d]
    BY <2>1, HandlersAfterTake
  <2>3. crossed'.toggles = (crossed.toggles \/ On(r, "toggle") # {})
    BY <1>6 DEF Moderate, Crossed
  <2>4. \A d \in Doing("moderate")' : task'[d].status \in ReviewStatuses
    BY <2>1, <2>2 DEF ToggleInv, Doing
  <2>5. FeaturedIsApproved'
    BY <2>1, <2>3 DEF ToggleInv, FeaturedIsApproved, Exists
  <2>6. crossed'.toggles \/ \A s \in ReviewCalls : On(s, "toggle")' # {} =>
          On(s, "moderate")' = {} /\ reviews'[s].status \in {"APPROVED", "deleted"}
    BY <2>1, <2>2, <2>3 DEF ToggleInv
  <2>7. QED BY <1>i, <2>4, <2>5, <2>6 DEF ToggleInv
<1>7. ASSUME NEW c \in ReviewCalls, NEW r \in ReviewCalls, Moderated(c, r) PROVE ToggleInv'
  <2>1. c \in Doing("moderate") /\ c \in On(r, "moderate")
    BY <1>7 DEF Moderated, Doing, On
  <2>2. task[c].status \in ReviewStatuses
    BY <2>1 DEF ToggleInv
  <2>3. crossed.toggles \/ On(r, "toggle") = {}
    BY <2>1 DEF ToggleInv
  <2>4. \A s \in ReviewCalls \ {r} : reviews'[s] = reviews[s] /\ (s \in insisted => s \in insisted')
    BY <1>7 DEF Moderated
  <2>5. CASE ~Exists(r)
    <3>1. UNCHANGED <<reviews, insisted>>
      BY <1>7, <2>5 DEF Moderated
    <3>2. QED BY <1>7, <1>s, <3>1 DEF Moderated
  <2>6. CASE Exists(r)
    <3>1. reviews'[r].status = task[c].status /\ (reviews'[r].featured <=> Featured(task[c]))
      BY <1>7, <2>6 DEF Moderated
    <3>2. task[c].featured = "yes" /\ task[c].status # "APPROVED" => r \in insisted'
      BY <1>7, <2>6 DEF Moderated
    <3>3. task[c].status = "APPROVED" \/ (Featured(task[c]) => r \in insisted')
      BY <3>2 DEF Featured
    <3>4. QED BY <1>7, <1>s, <2>2, <2>3, <2>4, <3>1, <3>3 DEF Moderated, ReviewStatuses
  <2>7. QED BY <2>5, <2>6
<1>8. ASSUME NEW c \in ReviewCalls, NEW r \in ReviewCalls, ToggleFeatured(c, r) PROVE ToggleInv'
  <2>1. /\ Take(c, "toggle", r, "none", "absent") /\ UNCHANGED <<reviews, insisted>>
        /\ reviews[r].status = "APPROVED"
    BY <1>8 DEF ToggleFeatured
  <2>2. /\ Doing("moderate")' = Doing("moderate")
        /\ \A s \in ReviewCalls : On(s, "moderate")' = On(s, "moderate")
        /\ \A s \in ReviewCalls \ {r} : On(s, "toggle")' = On(s, "toggle")
        /\ \A d \in ReviewCalls \ {c} : task'[d] = task[d]
    BY <2>1, HandlersAfterTake
  <2>3. crossed'.toggles = (crossed.toggles \/ On(r, "moderate") # {})
    BY <1>8 DEF ToggleFeatured, Crossed
  <2>4. \A d \in Doing("moderate") : task'[d] = task[d]
    BY <2>1, <2>2 DEF Doing, Take, Idle
  <2>5. FeaturedIsApproved'
    BY <2>1, <2>3 DEF ToggleInv, FeaturedIsApproved, Exists
  <2>6. crossed'.toggles \/ \A s \in ReviewCalls : On(s, "toggle")' # {} =>
          On(s, "moderate")' = {} /\ reviews'[s].status \in {"APPROVED", "deleted"}
    BY <2>1, <2>2, <2>3 DEF ToggleInv
  <2>7. QED BY <1>i, <2>2, <2>4, <2>5, <2>6 DEF ToggleInv
<1>9. ASSUME NEW c \in ReviewCalls, NEW r \in ReviewCalls, Toggled(c, r) PROVE ToggleInv'
  <2>1. c \in On(r, "toggle")
    BY <1>9 DEF Toggled, Doing, On
  <2>2. \A s \in ReviewCalls :
          \/ reviews'[s] = reviews[s]
          \/ s = r /\ Exists(r) /\ reviews'[s].status = reviews[r].status
    BY <1>9 DEF Toggled, ReviewRow
  <2>3. CASE ~crossed.toggles
    <3>1. Exists(r) => reviews[r].status = "APPROVED"
      BY <2>1, <2>3 DEF ToggleInv, Exists, ReviewStatuses
    <3>2. QED BY <1>9, <1>s, <2>2, <3>1 DEF Toggled
  <2>4. CASE crossed.toggles
    <3>1. Doing("moderate")' = Doing("moderate") \ {c} /\ \A d \in ReviewCalls \ {c} : task'[d] = task[d]
      BY <1>9, HandlersAfterFinish DEF Toggled
    <3>2. \A d \in Doing("moderate")' : d \in Doing("moderate") /\ task'[d] = task[d]
      BY <3>1 DEF Doing
    <3>3. crossed'.toggles
      BY <1>9, <2>4 DEF Toggled
    <3>4. QED BY <1>i, <3>2, <3>3 DEF ToggleInv, FeaturedIsApproved
  <2>5. QED BY <2>3, <2>4
<1>10. CASE UNCHANGED reviewVars
  <2>1. UNCHANGED <<reviews, task, crossed, insisted>>
    BY <1>10 DEF reviewVars
  <2>2. Doing("moderate")' = Doing("moderate") /\ \A r \in ReviewCalls, step \in {"moderate", "toggle"} : On(r, step)' = On(r, step)
    BY <2>1 DEF Doing, On
  <2>3. QED BY <1>i, <2>1, <2>2 DEF ToggleInv, FeaturedIsApproved, Exists
<1>11. QED
  BY <1>1, <1>2, <1>3, <1>4, <1>5, <1>6, <1>7, <1>8, <1>9, <1>10 DEF ReviewsNext

LEMMA NextSubmitInv ==
  ReviewsTypeOK /\ ToggleInv /\ SubmitInv /\ [ReviewsNext]_reviewVars => SubmitInv'
<1> SUFFICES ASSUME ReviewsTypeOK, ToggleInv, SubmitInv, [ReviewsNext]_reviewVars PROVE SubmitInv'
  OBVIOUS
<1>0. reviews \in [ReviewCalls -> ReviewRow] /\ task \in [ReviewCalls -> Task] /\ crossed \in Crossed
  BY ReviewsTypes
<1> USE <1>0
\* A step that begins no submission and opens no review that was not open.
<1>s. ASSUME Doing("submit")' \subseteq Doing("submit"), crossed'.submissions = crossed.submissions,
             \A r \in ReviewCalls : Open(r)' /\ r \notin restored' => Open(r) /\ r \notin restored
      PROVE  SubmitInv'
  BY <1>s DEF SubmitInv
<1>t. ASSUME NEW c \in ReviewCalls, NEW step \in {"withdraw", "moderate", "toggle"}, NEW r \in ReviewCalls,
             NEW status, NEW featured, Take(c, step, r, status, featured),
             UNCHANGED <<reviews, restored>>, crossed'.submissions = crossed.submissions
      PROVE  SubmitInv'
  <2>1. Doing("submit")' = Doing("submit")
    BY <1>t, HandlersAfterTake
  <2>2. QED BY <1>s, <1>t, <2>1 DEF Open
<1>w. ASSUME NEW c \in ReviewCalls, Finish(c), UNCHANGED crossed,
             \A r \in ReviewCalls : Open(r)' /\ r \notin restored' => Open(r) /\ r \notin restored
      PROVE  SubmitInv'
  <2>1. Doing("submit")' = Doing("submit") \ {c}
    BY <1>w, HandlersAfterFinish
  <2>2. QED BY <1>s, <1>w, <2>1
<1>1. ASSUME NEW c \in ReviewCalls, CreateReview(c) PROVE SubmitInv'
  <2>1. (\A r \in ReviewCalls : ~Open(r)) /\ UNCHANGED <<reviews, restored>>
    BY <1>1 DEF CreateReview
  <2>2. Doing("submit")' = Doing("submit") \cup {c}
    BY <1>1, SubmitStep DEF CreateReview, Doing
  <2>3. crossed'.submissions = (crossed.submissions \/ Doing("submit") # {})
    BY <1>1 DEF CreateReview, Crossed
  <2>4. QED BY <2>1, <2>2, <2>3 DEF SubmitInv, Open
<1>2. ASSUME NEW c \in ReviewCalls, ReviewInserted(c) PROVE SubmitInv'
  <2>1. c \in Doing("submit") /\ UNCHANGED <<crossed, restored>>
    BY <1>2 DEF ReviewInserted, Doing
  <2>2. Doing("submit")' = Doing("submit") \ {c}
    BY <1>2, HandlersAfterFinish DEF ReviewInserted
  <2>3. \A r \in ReviewCalls \ {c} : reviews'[r] = reviews[r]
    BY <1>2 DEF ReviewInserted
  <2>4. QED BY <2>1, <2>2, <2>3 DEF SubmitInv, Open
<1>3. ASSUME NEW c \in ReviewCalls, ReviewCallLost(c) PROVE SubmitInv'
  BY <1>3, <1>w DEF ReviewCallLost, Open
<1>4. ASSUME NEW c \in ReviewCalls, NEW r \in ReviewCalls, DeleteOwn(c, r) \/ AdminDelete(c, r)
      PROVE  SubmitInv'
  BY <1>4, <1>t DEF DeleteOwn, AdminDelete
<1>5. ASSUME NEW c \in ReviewCalls, NEW r \in ReviewCalls, ReviewDeleted(c, r) PROVE SubmitInv'
  <2>1. reviews'[r].status = "deleted" /\ \A s \in ReviewCalls \ {r} : reviews'[s] = reviews[s]
    BY <1>5 DEF ReviewDeleted, ReviewRow
  <2>2. QED BY <1>5, <1>w, <2>1 DEF ReviewDeleted, Open
<1>6. ASSUME NEW c \in ReviewCalls, NEW r \in ReviewCalls, NEW status \in ReviewStatuses,
             NEW featured \in {"absent", "yes", "no"}, Moderate(c, r, status, featured)
      PROVE  SubmitInv'
  <2>1. crossed'.submissions = crossed.submissions
    BY <1>6 DEF Moderate, Crossed
  <2>2. QED BY <1>6, <1>t, <2>1 DEF Moderate
<1>7. ASSUME NEW c \in ReviewCalls, NEW r \in ReviewCalls, Moderated(c, r) PROVE SubmitInv'
  <2>1. task[c].status \in ReviewStatuses
    BY <1>7 DEF Moderated, ToggleInv, Doing
  <2>2. /\ \A s \in ReviewCalls \ {r} : reviews'[s] = reviews[s]
        /\ reviews'[r] = reviews[r] \/ (Exists(r) /\ reviews'[r].status = task[c].status)
        /\ restored \subseteq restored'
        /\ reviews[r].status = "REJECTED" /\ task[c].status # "REJECTED" => r \in restored'
    BY <1>7 DEF Moderated
  <2>3. \A s \in ReviewCalls : Open(s)' /\ s \notin restored' => Open(s) /\ s \notin restored
    BY <2>1, <2>2 DEF Open, Exists, ReviewStatuses
  <2>4. QED BY <1>7, <1>w, <2>3 DEF Moderated
<1>8. ASSUME NEW c \in ReviewCalls, NEW r \in ReviewCalls, ToggleFeatured(c, r) PROVE SubmitInv'
  <2>1. crossed'.submissions = crossed.submissions
    BY <1>8 DEF ToggleFeatured, Crossed
  <2>2. QED BY <1>8, <1>t, <2>1 DEF ToggleFeatured
<1>9. ASSUME NEW c \in ReviewCalls, NEW r \in ReviewCalls, Toggled(c, r) PROVE SubmitInv'
  <2>1. \A s \in ReviewCalls : reviews'[s].status = reviews[s].status
    BY <1>9 DEF Toggled, ReviewRow
  <2>2. QED BY <1>9, <1>w, <2>1 DEF Toggled, Open
<1>10. CASE UNCHANGED reviewVars
  BY <1>10, <1>s DEF reviewVars, Doing, Open
<1>11. QED
  BY <1>1, <1>2, <1>3, <1>4, <1>5, <1>6, <1>7, <1>8, <1>9, <1>10 DEF ReviewsNext

LEMMA InitReviewsType == ReviewsInit => ReviewsTypeOK
<1>1. Idle \in Task
  BY ReviewRows DEF Idle, Task
<1>2. QED BY <1>1, ReviewRows, ReviewsTypes DEF ReviewsInit, Crossed

\* One open review of a thing and, but for a flag a moderation asked for, only approved ones
\* featured, unless handlers overlapped.
THEOREM ReviewsStayModerated == ReviewsSpec => []ReviewsModerated
<1>1. ReviewsInit => ReviewsTypeOK /\ ToggleInv /\ SubmitInv
  <2> SUFFICES ASSUME ReviewsInit PROVE ReviewsTypeOK /\ ToggleInv /\ SubmitInv
    OBVIOUS
  <2>1. ReviewsTypeOK
    BY InitReviewsType
  <2>2. \A c \in ReviewCalls : reviews[c].status = "none" /\ task[c].step = "idle" /\ task[c].of = {}
    BY DEF ReviewsInit, NoReview, Idle
  <2>3. QED
    BY <2>1, <2>2 DEF ToggleInv, SubmitInv, Inserted, Doing, On, FeaturedIsApproved, Exists, Open,
                      ReviewStatuses
<1>2. ToggleInv /\ SubmitInv => ReviewsModerated
  <2>1. SubmitInv => OneOpenReview
    BY AtMostOne DEF SubmitInv, OneOpenReview
  <2>2. QED BY <2>1 DEF ToggleInv, ReviewsModerated
<1>3. QED
  BY <1>1, <1>2, NextReviewsType, NextToggleInv, NextSubmitInv, PTL DEF ReviewsSpec

------------------------------------------------------------------------------
(* Staff accounts.                                                         *)

StaffJob == [step : {"idle", "read", "done", "failed"}, op : StaffOps \cup {"none"},
             row : StaffRow, token : SUBSET StaffCalls, began : Nat]
Tokens == [StaffCalls -> {"none", "live", "expired", "revoked"}]
SignOffs == [count : Nat, crossed : SUBSET StaffCalls]

LEMMA StaffTypes ==
  StaffTypeOK <=> /\ staff \in StaffRow /\ meant \in StaffRow /\ tokens \in Tokens
                  /\ job \in [StaffCalls -> StaffJob] /\ contested \subseteq Columns
                  /\ doubled \subseteq StaffCalls /\ signOffs \in SignOffs
BY DEF StaffTypeOK, StaffJob, Tokens, SignOffs

\* What a call sets: its own columns, whatever the row.
LEMMA SetInColumns ==
  ASSUME NEW c \in StaffCalls, NEW row \in StaffRow, NEW other \in StaffRow
  PROVE  /\ SetIn(row, c) \in StaffRow
         /\ \A column \in ColumnsOf(job[c].op) : SetIn(row, c)[column] = SetIn(other, c)[column]
         /\ \A column \in Columns \ ColumnsOf(job[c].op) : SetIn(row, c)[column] = row[column]
         /\ ColumnsOf(job[c].op) \subseteq Columns
BY DEF SetIn, StaffRow, ColumnsOf, Columns

\* Where a step leaves the calls.
LEMMA JobSteps ==
  ASSUME StaffTypeOK, NEW c \in StaffCalls, NEW step \in {"done", "failed"},
         job' = [job EXCEPT ![c].step = step]
  PROVE  /\ job' \in [StaffCalls -> StaffJob]
         /\ job'[c].step = step /\ job'[c].op = job[c].op /\ job'[c].token = job[c].token
         /\ job'[c].began = job[c].began
         /\ \A d \in StaffCalls \ {c} : job'[d] = job[d]
BY StaffTypes DEF StaffJob

LEMMA ReadStep ==
  ASSUME StaffTypeOK, NEW c \in StaffCalls, NEW op \in StaffOps, NEW token \in SUBSET StaffCalls,
         StaffRead(c, op, token)
  PROVE  /\ job' \in [StaffCalls -> StaffJob] /\ job[c] = NoJob
         /\ job'[c].step = "read" /\ job'[c].op = op /\ job'[c].row = staff
         /\ job'[c].token = token /\ job'[c].began = signOffs.count
         /\ \A d \in StaffCalls \ {c} : job'[d] = job[d]
<1> DEFINE new == [step |-> "read", op |-> op, row |-> staff, token |-> token, began |-> signOffs.count]
<1>1. /\ new.step = "read" /\ new.op = op /\ new.row = staff
      /\ new.token = token /\ new.began = signOffs.count
  OBVIOUS
<1>2. new \in StaffJob
  BY StaffTypes DEF StaffJob, SignOffs
<1> HIDE DEF new
<1>3. job[c] = NoJob /\ job' = [job EXCEPT ![c] = new]
  BY DEF StaffRead, new
<1>4. job' \in [StaffCalls -> StaffJob] /\ job'[c] = new /\ \A d \in StaffCalls \ {c} : job'[d] = job[d]
  BY <1>2, <1>3, StaffTypes
<1>5. QED BY <1>1, <1>3, <1>4

LEMMA RowWrittenType ==
  ASSUME StaffTypeOK, NEW c \in StaffCalls, RowWritten(c)
  PROVE  staff' \in StaffRow /\ meant' \in StaffRow /\ contested' \subseteq Columns
<1>1. job[c].row \in StaffRow /\ staff \in StaffRow /\ meant \in StaffRow /\ contested \subseteq Columns
  BY StaffTypes DEF StaffJob
<1>2. QED BY <1>1, SetInColumns DEF RowWritten

LEMMA RevokedType == StaffTypeOK => Revoked \in Tokens
BY StaffTypes DEF Revoked, Tokens

LEMMA SignedOffType ==
  ASSUME StaffTypeOK, NEW c \in StaffCalls, SignedOff(c)
  PROVE  /\ signOffs' \in SignOffs /\ signOffs'.count = signOffs.count + 1
         /\ signOffs'.crossed = signOffs.crossed \cup Busy(c)
<1>1. signOffs \in SignOffs /\ Busy(c) \subseteq StaffCalls
  BY StaffTypes DEF Busy
<1>2. QED BY <1>1 DEF SignedOff, SignOffs

LEMMA NextStaffType == StaffTypeOK /\ [StaffNext]_staffVars => StaffTypeOK'
<1> SUFFICES ASSUME StaffTypeOK, [StaffNext]_staffVars PROVE StaffTypeOK'
  OBVIOUS
<1>0. /\ staff \in StaffRow /\ meant \in StaffRow /\ tokens \in Tokens
      /\ job \in [StaffCalls -> StaffJob] /\ contested \subseteq Columns
      /\ doubled \subseteq StaffCalls /\ signOffs \in SignOffs
  BY StaffTypes
<1> USE <1>0
<1>q. ASSUME /\ staff' \in StaffRow /\ meant' \in StaffRow /\ tokens' \in Tokens
             /\ job' \in [StaffCalls -> StaffJob] /\ contested' \subseteq Columns
             /\ doubled' \subseteq StaffCalls /\ signOffs' \in SignOffs
      PROVE  StaffTypeOK'
  BY <1>q DEF StaffTypeOK, StaffJob, Tokens, SignOffs
<1>1. ASSUME NEW c \in StaffCalls, NEW op \in StaffOps, NEW token \in SUBSET StaffCalls,
             StaffRead(c, op, token), doubled' \subseteq StaffCalls
      PROVE  StaffTypeOK'
  <2>1. job' \in [StaffCalls -> StaffJob]
    BY <1>1, ReadStep
  <2>2. QED BY <1>q, <1>1, <2>1 DEF StaffRead
<1>2. ASSUME NEW c \in StaffCalls, StaffLogin(c) PROVE StaffTypeOK'
  BY <1>1, <1>2 DEF StaffLogin, StaffOps
<1>3. ASSUME NEW c \in StaffCalls, StaffLogout(c) PROVE StaffTypeOK'
  BY <1>q, <1>3, JobSteps, RevokedType, SignedOffType DEF StaffLogout
<1>4. ASSUME NEW c \in StaffCalls, StaffRollback(c) PROVE StaffTypeOK'
  BY <1>q, <1>4, JobSteps DEF StaffRollback
<1>5. ASSUME NEW c \in StaffCalls, NEW t \in StaffCalls, StaffRefresh(c, t) PROVE StaffTypeOK'
  BY <1>1, <1>5 DEF StaffRefresh, StaffOps
<1>6. ASSUME NEW c \in StaffCalls, NEW op \in StaffOps, StaffUpdate(c, op) PROVE StaffTypeOK'
  BY <1>1, <1>6 DEF StaffUpdate
<1>7. ASSUME NEW c \in StaffCalls, StaffLoginCommit(c) PROVE StaffTypeOK'
  <2>1. tokens' \in Tokens
    BY <1>7 DEF StaffLoginCommit, Tokens
  <2>2. QED BY <1>q, <1>7, <2>1, JobSteps, RowWrittenType DEF StaffLoginCommit
<1>8. ASSUME NEW c \in StaffCalls, StaffRefreshCommit(c) PROVE StaffTypeOK'
  <2>1. tokens' \in Tokens
    BY <1>8 DEF StaffRefreshCommit, Tokens
  <2>2. QED BY <1>q, <1>8, <2>1, JobSteps DEF StaffRefreshCommit
<1>9. ASSUME NEW c \in StaffCalls, StaffUpdateCommit(c) PROVE StaffTypeOK'
  <2>1. staff' \in StaffRow /\ meant' \in StaffRow /\ contested' \subseteq Columns
    BY <1>9, RowWrittenType DEF StaffUpdateCommit
  <2>2. job' \in [StaffCalls -> StaffJob]
    BY <1>9, JobSteps DEF StaffUpdateCommit
  <2>3. tokens' \in Tokens /\ signOffs' \in SignOffs
    BY <1>9, RevokedType, SignedOffType DEF StaffUpdateCommit
  <2>4. QED BY <1>q, <1>9, <2>1, <2>2, <2>3 DEF StaffUpdateCommit
<1>10. ASSUME NEW t \in StaffCalls, TokenExpires(t) PROVE StaffTypeOK'
  BY <1>q, <1>10 DEF TokenExpires, Tokens
<1>11. CASE UNCHANGED staffVars
  BY <1>q, <1>11 DEF staffVars
<1>12. QED
  BY <1>2, <1>3, <1>4, <1>5, <1>6, <1>7, <1>8, <1>9, <1>10, <1>11 DEF StaffNext

\* Every handler that may write the row holds the columns that are not contested as they are.
RowInv ==
  /\ RowIsMeant
  /\ \A c \in StaffCalls : job[c].step = "read" /\ job[c].op # "refresh" =>
       \A column \in Columns \ contested : job[c].row[column] = staff[column]

Exchanging(c, t) == job[c].op = "refresh" /\ job[c].step \in {"read", "done"} /\ t \in job[c].token

\* A token that was found live by one refresh only is gone once that refresh is done.
TokenInv ==
  /\ \A c \in StaffCalls : job[c].step \in {"idle", "read"} => tokens[c] = "none"
  /\ \A c \in StaffCalls : \A t \in job[c].token : tokens[t] # "none" /\ job[c].token = {t}
  /\ \A t \in StaffCalls \ doubled :
       /\ \A c, d \in StaffCalls : Exchanging(c, t) /\ Exchanging(d, t) => c = d
       /\ \A c \in StaffCalls : Exchanging(c, t) /\ job[c].step = "done" => tokens[t] # "live"

\* A handler under way that overlapped no end of the sessions began after the last one.
SignOffInv ==
  /\ \A c \in StaffCalls \ signOffs.crossed : job[c].step = "read" => job[c].began = signOffs.count
  /\ SignedOffStaysOff

LEMMA NextRowInv == StaffTypeOK /\ RowInv /\ [StaffNext]_staffVars => RowInv'
<1> SUFFICES ASSUME StaffTypeOK, RowInv, [StaffNext]_staffVars PROVE RowInv'
  OBVIOUS
<1>0. staff \in StaffRow /\ meant \in StaffRow /\ job \in [StaffCalls -> StaffJob] /\ contested \subseteq Columns
  BY StaffTypes
<1> USE <1>0
\* A call that reads has the row of now.
<1>1. ASSUME NEW c \in StaffCalls, NEW op \in StaffOps, NEW token \in SUBSET StaffCalls, StaffRead(c, op, token)
      PROVE  RowInv'
  <2>1. job'[c].row = staff /\ \A d \in StaffCalls \ {c} : job'[d] = job[d]
    BY <1>1, ReadStep
  <2>2. UNCHANGED <<staff, meant, contested>>
    BY <1>1 DEF StaffRead
  <2>3. QED BY <2>1, <2>2 DEF RowInv, RowIsMeant
\* A call that ends and writes nothing.
<1>2. ASSUME NEW c \in StaffCalls, NEW step \in {"done", "failed"}, job' = [job EXCEPT ![c].step = step],
             UNCHANGED <<staff, meant, contested>>
      PROVE  RowInv'
  <2>1. job'[c].step = step /\ \A d \in StaffCalls \ {c} : job'[d] = job[d]
    BY <1>2, JobSteps
  <2>2. QED BY <1>2, <2>1 DEF RowInv, RowIsMeant
\* A call that writes the row it read: its own columns are contested if another holds the old ones.
<1>3. ASSUME NEW c \in StaffCalls, job[c].step = "read", job[c].op # "refresh",
             job' = [job EXCEPT ![c].step = "done"], RowWritten(c)
      PROVE  RowInv'
  <2>1. job'[c].step = "done" /\ \A d \in StaffCalls \ {c} : job'[d] = job[d]
    BY <1>3, JobSteps
  <2>2. CASE ~Dirty(c)
    BY <1>2, <1>3, <2>2 DEF RowWritten
  <2>3. CASE Dirty(c)
    <3> DEFINE own == ColumnsOf(job[c].op)
    <3>1. /\ staff' = SetIn(job[c].row, c) /\ meant' = SetIn(meant, c)
          /\ contested' = IF Holders(c) = {} THEN contested \ own ELSE contested \cup own
      BY <1>3, <2>3 DEF RowWritten
    <3>2. job[c].row \in StaffRow
      BY DEF StaffJob
    <3>3. \A column \in own : staff'[column] = meant'[column]
      BY <3>1, <3>2, SetInColumns
    <3>4. \A column \in Columns \ own : staff'[column] = job[c].row[column] /\ meant'[column] = meant[column]
      BY <3>1, <3>2, SetInColumns
    <3>5. \A column \in Columns \ contested : job[c].row[column] = staff[column] /\ staff[column] = meant[column]
      BY <1>3 DEF RowInv, RowIsMeant
    <3> HIDE DEF own
    <3>6. RowIsMeant'
      BY <3>1, <3>3, <3>4, <3>5 DEF RowIsMeant
    <3>7. ASSUME NEW d \in StaffCalls, job'[d].step = "read", job'[d].op # "refresh",
                 NEW column \in Columns \ contested'
          PROVE  job'[d].row[column] = staff'[column]
      <4>1. d # c /\ job'[d] = job[d]
        BY <2>1, <3>7
      <4>2. d \in Holders(c)
        BY <3>7, <4>1 DEF Holders, Busy
      <4>3. column \in Columns \ contested /\ column \notin own
        BY <3>1, <3>7, <4>2
      <4>4. job[d].row[column] = staff[column]
        BY <3>7, <4>1, <4>3 DEF RowInv
      <4>5. QED BY <3>4, <3>5, <4>1, <4>3, <4>4
    <3>8. QED BY <3>6, <3>7 DEF RowInv
  <2>4. QED BY <2>2, <2>3
<1>4. ASSUME NEW c \in StaffCalls, StaffLogin(c) PROVE RowInv'
  BY <1>1, <1>4 DEF StaffLogin, StaffOps
<1>5. ASSUME NEW c \in StaffCalls, StaffLogout(c) PROVE RowInv'
  BY <1>2, <1>5 DEF StaffLogout
<1>6. ASSUME NEW c \in StaffCalls, StaffRollback(c) PROVE RowInv'
  BY <1>2, <1>6 DEF StaffRollback
<1>7. ASSUME NEW c \in StaffCalls, NEW t \in StaffCalls, StaffRefresh(c, t) PROVE RowInv'
  BY <1>1, <1>7 DEF StaffRefresh, StaffOps
<1>8. ASSUME NEW c \in StaffCalls, NEW op \in StaffOps, StaffUpdate(c, op) PROVE RowInv'
  BY <1>1, <1>8 DEF StaffUpdate
<1>9. ASSUME NEW c \in StaffCalls, StaffLoginCommit(c) PROVE RowInv'
  BY <1>3, <1>9 DEF StaffLoginCommit
<1>10. ASSUME NEW c \in StaffCalls, StaffRefreshCommit(c) PROVE RowInv'
  BY <1>2, <1>10 DEF StaffRefreshCommit
<1>11. ASSUME NEW c \in StaffCalls, StaffUpdateCommit(c) PROVE RowInv'
  BY <1>3, <1>11 DEF StaffUpdateCommit
<1>12. ASSUME NEW t \in StaffCalls, TokenExpires(t) PROVE RowInv'
  BY <1>12 DEF TokenExpires, RowInv, RowIsMeant
<1>13. CASE UNCHANGED staffVars
  BY <1>13 DEF staffVars, RowInv, RowIsMeant
<1>14. QED
  BY <1>4, <1>5, <1>6, <1>7, <1>8, <1>9, <1>10, <1>11, <1>12, <1>13 DEF StaffNext

LEMMA NextTokenInv == StaffTypeOK /\ TokenInv /\ [StaffNext]_staffVars => TokenInv'
<1> SUFFICES ASSUME StaffTypeOK, TokenInv, [StaffNext]_staffVars PROVE TokenInv'
  OBVIOUS
<1>0. tokens \in Tokens /\ job \in [StaffCalls -> StaffJob] /\ doubled \subseteq StaffCalls
  BY StaffTypes
<1> USE <1>0
\* A step of one call that exchanges nothing new, and makes no token live but its own.
<1>s. ASSUME NEW c \in StaffCalls, job'[c].step \notin {"idle", "read"},
             \A d \in StaffCalls \ {c} : job'[d] = job[d],
             job'[c].op = job[c].op, job'[c].token = job[c].token,
             job'[c].step = "failed" \/ job[c].op # "refresh" \/ job[c].step = "done",
             job[c].step \in {"idle", "read"}, doubled' = doubled,
             \A t \in StaffCalls \ {c} : (tokens'[t] = "none" <=> tokens[t] = "none")
                                         /\ (tokens'[t] = "live" => tokens[t] = "live")
      PROVE  TokenInv'
  <2>1. tokens[c] = "none" /\ \A d \in StaffCalls : c \notin job[d].token
    BY <1>s DEF TokenInv
  <2>2. \A d \in StaffCalls : job'[d].step \in {"idle", "read"} => tokens'[d] = "none"
    BY <1>s DEF TokenInv
  <2>3. \A d \in StaffCalls : job'[d].token = job[d].token
    BY <1>s
  <2>4. \A d \in StaffCalls : \A t \in job'[d].token : tokens'[t] # "none" /\ job'[d].token = {t}
    BY <1>s, <2>1, <2>3 DEF TokenInv, StaffJob
  <2>5. \A d, t \in StaffCalls : Exchanging(d, t)' => Exchanging(d, t) /\ d # c
    BY <1>s DEF Exchanging
  <2>6. \A t \in StaffCalls : (\E d \in StaffCalls : Exchanging(d, t)) => t # c
    BY <2>1 DEF Exchanging
  <2>7. QED BY <1>s, <2>2, <2>4, <2>5, <2>6 DEF TokenInv
<1>e. ASSUME NEW c \in StaffCalls, NEW step \in {"done", "failed"}, job' = [job EXCEPT ![c].step = step],
             step = "failed" \/ job[c].op # "refresh", job[c].step \in {"idle", "read"}, doubled' = doubled,
             \A t \in StaffCalls \ {c} : (tokens'[t] = "none" <=> tokens[t] = "none")
                                         /\ (tokens'[t] = "live" => tokens[t] = "live")
      PROVE  TokenInv'
  <2>1. /\ job'[c].step = step /\ job'[c].op = job[c].op /\ job'[c].token = job[c].token
        /\ \A d \in StaffCalls \ {c} : job'[d] = job[d]
    BY <1>e, JobSteps
  <2>2. QED BY <1>s, <1>e, <2>1
<1>r. \A t \in StaffCalls : (Revoked[t] = "none" <=> tokens[t] = "none") /\ Revoked[t] # "live"
  BY DEF Revoked
<1>i. ASSUME NEW c \in StaffCalls, job[c] = NoJob PROVE job[c].step = "idle" /\ job[c].op = "none"
  BY <1>i DEF NoJob
\* A call that reads and is no refresh.
<1>1. ASSUME NEW c \in StaffCalls, NEW op \in StaffOps \ {"refresh"}, StaffRead(c, op, {}), doubled' = doubled
      PROVE  TokenInv'
  <2>1. /\ job[c] = NoJob /\ job'[c].op = op /\ job'[c].token = {}
        /\ \A d \in StaffCalls \ {c} : job'[d] = job[d]
    BY <1>1, ReadStep
  <2>2. tokens' = tokens
    BY <1>1 DEF StaffRead
  <2>3. tokens[c] = "none"
    BY <1>i, <2>1 DEF TokenInv
  <2>4. \A d, t \in StaffCalls : Exchanging(d, t)' => Exchanging(d, t) /\ d # c
    BY <2>1 DEF Exchanging
  <2>5. QED BY <1>1, <2>1, <2>2, <2>3, <2>4 DEF TokenInv
<1>2. ASSUME NEW c \in StaffCalls, StaffLogin(c) PROVE TokenInv'
  BY <1>1, <1>2 DEF StaffLogin, StaffOps
<1>3. ASSUME NEW c \in StaffCalls, StaffLogout(c) PROVE TokenInv'
  BY <1>e, <1>i, <1>r, <1>3 DEF StaffLogout
<1>4. ASSUME NEW c \in StaffCalls, StaffRollback(c) PROVE TokenInv'
  BY <1>e, <1>4 DEF StaffRollback
<1>5. ASSUME NEW c \in StaffCalls, NEW t \in StaffCalls, StaffRefresh(c, t) PROVE TokenInv'
  <2>1. /\ tokens[t] = "live" /\ tokens' = tokens
        /\ doubled' = IF \E d \in Busy(c) : job[d].token = {t} THEN doubled \cup {t} ELSE doubled
    BY <1>5 DEF StaffRefresh, StaffRead
  <2>2. /\ job[c] = NoJob /\ job'[c].op = "refresh" /\ job'[c].token = {t} /\ job'[c].step = "read"
        /\ \A d \in StaffCalls \ {c} : job'[d] = job[d]
    BY <1>5, ReadStep DEF StaffRefresh, StaffOps
  <2>3. tokens[c] = "none"
    BY <1>i, <2>2 DEF TokenInv
  <2>4. \A d, s \in StaffCalls : Exchanging(d, s)' => Exchanging(d, s) \/ (d = c /\ s = t)
    BY <2>2 DEF Exchanging
  <2>5. \A d \in StaffCalls \ {c} : Exchanging(d, t) => t \in doubled'
    <3>1. ASSUME NEW d \in StaffCalls \ {c}, Exchanging(d, t), t \notin doubled PROVE t \in doubled'
      <4>1. job[d].step = "read" /\ job[d].token = {t}
        BY <2>1, <3>1 DEF TokenInv, Exchanging
      <4>2. QED BY <2>1, <4>1 DEF Busy
    <3>2. QED BY <2>1, <3>1
  <2>6. \A d \in StaffCalls : \A s \in job'[d].token : tokens'[s] # "none" /\ job'[d].token = {s}
    BY <2>1, <2>2 DEF TokenInv
  <2>7. \A s \in StaffCalls \ doubled' : \A a, b \in StaffCalls : Exchanging(a, s)' /\ Exchanging(b, s)' => a = b
    BY <2>1, <2>4, <2>5 DEF TokenInv
  <2>8. \A s \in StaffCalls \ doubled' : \A a \in StaffCalls : Exchanging(a, s)' /\ job'[a].step = "done" => tokens'[s] # "live"
    BY <2>1, <2>2, <2>4 DEF TokenInv
  <2>9. QED BY <2>1, <2>2, <2>3, <2>6, <2>7, <2>8 DEF TokenInv
<1>6. ASSUME NEW c \in StaffCalls, NEW op \in StaffOps, StaffUpdate(c, op) PROVE TokenInv'
  BY <1>1, <1>6 DEF StaffUpdate, StaffOps
<1>7. ASSUME NEW c \in StaffCalls, StaffLoginCommit(c) PROVE TokenInv'
  <2>1. \A t \in StaffCalls \ {c} : tokens'[t] = tokens[t]
    BY <1>7 DEF StaffLoginCommit, Tokens
  <2>2. QED BY <1>e, <1>7, <2>1 DEF StaffLoginCommit
<1>8. ASSUME NEW c \in StaffCalls, StaffRefreshCommit(c) PROVE TokenInv'
  <2>1. /\ job[c].step = "read" /\ job[c].op = "refresh" /\ doubled' = doubled
        /\ tokens'[c] = "live"
        /\ \A t \in StaffCalls \ {c} : tokens'[t] = IF t \in job[c].token THEN "revoked" ELSE tokens[t]
    BY <1>8 DEF StaffRefreshCommit
  <2>2. /\ job'[c].step = "done" /\ job'[c].op = job[c].op /\ job'[c].token = job[c].token
        /\ \A d \in StaffCalls \ {c} : job'[d] = job[d]
    BY <1>8, JobSteps DEF StaffRefreshCommit
  <2>3. tokens[c] = "none" /\ \A d \in StaffCalls : c \notin job[d].token
    BY <2>1 DEF TokenInv
  <2>4. \A d \in StaffCalls : job'[d].step \in {"idle", "read"} => tokens'[d] = "none"
    <3>1. ASSUME NEW d \in StaffCalls, job'[d].step \in {"idle", "read"} PROVE tokens'[d] = "none"
      <4>1. d # c /\ tokens[d] = "none"
        BY <2>2, <3>1 DEF TokenInv
      <4>2. d \notin job[c].token
        BY <4>1 DEF TokenInv
      <4>3. QED BY <2>1, <4>1, <4>2
    <3>2. QED BY <3>1
  <2>5. \A d \in StaffCalls : \A t \in job'[d].token : tokens'[t] # "none" /\ job'[d].token = {t}
    <3>1. \A d \in StaffCalls : job'[d].token = job[d].token /\ job[d].token \subseteq StaffCalls
      BY <2>2 DEF StaffJob
    <3>2. QED BY <2>1, <2>3, <3>1 DEF TokenInv
  <2>6. \A d, t \in StaffCalls : Exchanging(d, t)' <=> Exchanging(d, t)
    BY <2>1, <2>2 DEF Exchanging
  <2>7. \A t \in StaffCalls \ doubled' : \A d \in StaffCalls : Exchanging(d, t)' /\ job'[d].step = "done" => tokens'[t] # "live"
    BY <2>1, <2>2, <2>3, <2>6 DEF TokenInv, Exchanging
  <2>8. QED BY <2>1, <2>4, <2>5, <2>6, <2>7 DEF TokenInv
<1>9. ASSUME NEW c \in StaffCalls, StaffUpdateCommit(c) PROVE TokenInv'
  <2>1. \A t \in StaffCalls \ {c} : (tokens'[t] = "none" <=> tokens[t] = "none")
                                    /\ (tokens'[t] = "live" => tokens[t] = "live")
    BY <1>9, <1>r DEF StaffUpdateCommit
  <2>2. QED BY <1>e, <1>9, <2>1 DEF StaffUpdateCommit
<1>10. ASSUME NEW t \in StaffCalls, TokenExpires(t) PROVE TokenInv'
  <2>1. tokens[t] = "live" /\ tokens'[t] = "expired" /\ \A s \in StaffCalls \ {t} : tokens'[s] = tokens[s]
    BY <1>10 DEF TokenExpires, Tokens
  <2>2. UNCHANGED <<job, doubled>>
    BY <1>10 DEF TokenExpires
  <2>3. \A d \in StaffCalls : job[d].token \subseteq StaffCalls
    BY DEF StaffJob
  <2>4. QED BY <2>1, <2>2, <2>3 DEF TokenInv, Exchanging
<1>11. CASE UNCHANGED staffVars
  BY <1>11 DEF staffVars, TokenInv, Exchanging
<1>12. QED
  BY <1>2, <1>3, <1>4, <1>5, <1>6, <1>7, <1>8, <1>9, <1>10, <1>11 DEF StaffNext

LEMMA NextSignOffInv == StaffTypeOK /\ SignOffInv /\ [StaffNext]_staffVars => SignOffInv'
<1> SUFFICES ASSUME StaffTypeOK, SignOffInv, [StaffNext]_staffVars PROVE SignOffInv'
  OBVIOUS
<1>0. tokens \in Tokens /\ job \in [StaffCalls -> StaffJob] /\ signOffs \in SignOffs
  BY StaffTypes
<1> USE <1>0
<1>1. ASSUME NEW c \in StaffCalls, NEW op \in StaffOps, NEW token \in SUBSET StaffCalls, StaffRead(c, op, token)
      PROVE  SignOffInv'
  <2>1. job'[c].began = signOffs.count /\ \A d \in StaffCalls \ {c} : job'[d] = job[d]
    BY <1>1, ReadStep
  <2>2. QED BY <1>1, <2>1 DEF StaffRead, SignOffInv, SignedOffStaysOff
\* A call that ends: the token that it makes live is its own.
<1>2. ASSUME NEW c \in StaffCalls, NEW step \in {"done", "failed"}, job' = [job EXCEPT ![c].step = step],
             signOffs' = signOffs, job[c].step = "read" \/ tokens'[c] # "live",
             \A t \in StaffCalls \ {c} : tokens'[t] = "live" => tokens[t] = "live"
      PROVE  SignOffInv'
  <2>1. job'[c].step = step /\ job'[c].began = job[c].began /\ \A d \in StaffCalls \ {c} : job'[d] = job[d]
    BY <1>2, JobSteps
  <2>2. QED BY <1>2, <2>1 DEF SignOffInv, SignedOffStaysOff
\* A call that ends the sessions.
<1>3. ASSUME NEW c \in StaffCalls, job' = [job EXCEPT ![c].step = "done"], tokens' = Revoked, SignedOff(c)
      PROVE  SignOffInv'
  <2>1. job'[c].step = "done" /\ \A d \in StaffCalls \ {c} : job'[d] = job[d]
    BY <1>3, JobSteps
  <2>2. signOffs'.crossed = signOffs.crossed \cup Busy(c)
    BY <1>3, SignedOffType
  <2>3. \A t \in StaffCalls : tokens'[t] # "live"
    BY <1>3 DEF Revoked
  <2>4. QED BY <2>1, <2>2, <2>3 DEF SignOffInv, SignedOffStaysOff, Busy
<1>4. ASSUME NEW c \in StaffCalls, StaffLogin(c) PROVE SignOffInv'
  BY <1>1, <1>4 DEF StaffLogin, StaffOps
<1>5. ASSUME NEW c \in StaffCalls, StaffLogout(c) PROVE SignOffInv'
  BY <1>3, <1>5 DEF StaffLogout
<1>6. ASSUME NEW c \in StaffCalls, StaffRollback(c) PROVE SignOffInv'
  BY <1>2, <1>6 DEF StaffRollback
<1>7. ASSUME NEW c \in StaffCalls, NEW t \in StaffCalls, StaffRefresh(c, t) PROVE SignOffInv'
  BY <1>1, <1>7 DEF StaffRefresh, StaffOps
<1>8. ASSUME NEW c \in StaffCalls, NEW op \in StaffOps, StaffUpdate(c, op) PROVE SignOffInv'
  BY <1>1, <1>8 DEF StaffUpdate
<1>9. ASSUME NEW c \in StaffCalls, StaffLoginCommit(c) PROVE SignOffInv'
  <2>1. \A t \in StaffCalls \ {c} : tokens'[t] = tokens[t]
    BY <1>9 DEF StaffLoginCommit, Tokens
  <2>2. QED BY <1>2, <1>9, <2>1 DEF StaffLoginCommit
<1>10. ASSUME NEW c \in StaffCalls, StaffRefreshCommit(c) PROVE SignOffInv'
  <2>1. \A t \in StaffCalls \ {c} : tokens'[t] = "live" => tokens[t] = "live"
    BY <1>10 DEF StaffRefreshCommit
  <2>2. QED BY <1>2, <1>10, <2>1 DEF StaffRefreshCommit
<1>11. ASSUME NEW c \in StaffCalls, StaffUpdateCommit(c) PROVE SignOffInv'
  BY <1>2, <1>3, <1>11 DEF StaffUpdateCommit
<1>12. ASSUME NEW t \in StaffCalls, TokenExpires(t) PROVE SignOffInv'
  BY <1>12 DEF TokenExpires, Tokens, SignOffInv, SignedOffStaysOff
<1>13. CASE UNCHANGED staffVars
  BY <1>13 DEF staffVars, SignOffInv, SignedOffStaysOff
<1>14. QED
  BY <1>4, <1>5, <1>6, <1>7, <1>8, <1>9, <1>10, <1>11, <1>12, <1>13 DEF StaffNext

LEMMA InitStaffType == StaffInit => StaffTypeOK
BY DEF StaffInit, StaffTypeOK, NoJob, NoStaffRow, StaffRow

\* What calls that do not overlap did to a staff account stays, and happens once.
THEOREM StaffAccountStaysKept == StaffSpec => []StaffAccountKept
<1>1. StaffInit => StaffTypeOK /\ RowInv /\ TokenInv /\ SignOffInv
  <2> SUFFICES ASSUME StaffInit PROVE StaffTypeOK /\ RowInv /\ TokenInv /\ SignOffInv
    OBVIOUS
  <2>1. StaffTypeOK
    BY InitStaffType
  <2>2. \A c \in StaffCalls : job[c].step = "idle" /\ job[c].token = {} /\ tokens[c] = "none"
    BY DEF StaffInit, NoJob
  <2>3. RowInv
    BY <2>2 DEF StaffInit, RowInv, RowIsMeant
  <2>4. TokenInv
    BY <2>2 DEF TokenInv, Exchanging
  <2>5. QED BY <2>1, <2>2, <2>3, <2>4 DEF SignOffInv, SignedOffStaysOff
<1>2. RowInv /\ TokenInv /\ SignOffInv => StaffAccountKept
  <2>1. TokenInv => ExchangedOnce
    <3> SUFFICES ASSUME TokenInv, NEW t \in StaffCalls \ doubled
                 PROVE  Cardinality({c \in StaffCalls : job[c].op = "refresh" /\ job[c].step = "done"
                                                        /\ t \in job[c].token}) <= 1
      BY DEF ExchangedOnce
    <3>1. QED BY AtMostOne DEF TokenInv, Exchanging
  <2>2. QED BY <2>1 DEF RowInv, SignOffInv, StaffAccountKept
<1>3. QED
  BY <1>1, <1>2, NextStaffType, NextRowInv, NextTokenInv, NextSignOffInv, PTL DEF StaffSpec

------------------------------------------------------------------------------
(* Attendance.                                                             *)

PunchState == [step : {"idle", "in", "found", "out", "ended"}, record : SUBSET Punches]

LEMMA AttendanceTypes ==
  AttendanceTypeOK <=> /\ today \in 1..Days /\ sheet \in [Punches -> SheetRow]
                       /\ punch \in [Punches -> PunchState]
                       /\ crossedIn \subseteq Punches /\ crossedOut \subseteq Punches
BY DEF AttendanceTypeOK, PunchState

\* The row of a clock-in, and the row of a clock-out.
LEMMA SheetRows ==
  ASSUME today \in 1..Days, NEW row \in SheetRow
  PROVE  /\ [state |-> "open", day |-> today, outs |-> 0,
             entry |-> Cardinality({r \in Punches : sheet[r] # NoEntry}) + 1] \in SheetRow
         /\ [row EXCEPT !.state = "closed", !.outs = @ + 1] \in SheetRow
<1>1. today \in 0..Days
  BY AttendanceAssumption
<1>2. IsFiniteSet({r \in Punches : sheet[r] # NoEntry})
  BY AttendanceAssumption, FS_Subset
<1>3. Cardinality({r \in Punches : sheet[r] # NoEntry}) \in Nat
  BY <1>2, FS_CardinalityType
<1>4. row.outs + 1 \in Nat
  BY DEF SheetRow
<1>5. \A n \in Nat : [row EXCEPT !.state = "closed", !.outs = n] \in SheetRow
  BY DEF SheetRow
<1> DEFINE entry == Cardinality({r \in Punches : sheet[r] # NoEntry}) + 1
<1>6. entry \in Nat
  BY <1>3
<1> HIDE DEF entry
<1>7. [state |-> "open", day |-> today, outs |-> 0, entry |-> entry] \in SheetRow
  BY <1>1, <1>6 DEF SheetRow
<1>8. QED BY <1>4, <1>5, <1>7 DEF entry

LEMMA NextAttendanceType == AttendanceTypeOK /\ [AttendanceNext]_attendanceVars => AttendanceTypeOK'
<1> SUFFICES ASSUME AttendanceTypeOK, [AttendanceNext]_attendanceVars PROVE AttendanceTypeOK'
  OBVIOUS
<1>0. /\ today \in 1..Days /\ sheet \in [Punches -> SheetRow] /\ punch \in [Punches -> PunchState]
      /\ crossedIn \subseteq Punches /\ crossedOut \subseteq Punches
  BY AttendanceTypes
<1> USE <1>0
<1>q. ASSUME /\ today' \in 1..Days /\ sheet' \in [Punches -> SheetRow]
             /\ punch' \in [Punches -> PunchState]
             /\ crossedIn' \subseteq Punches /\ crossedOut' \subseteq Punches
      PROVE  AttendanceTypeOK'
  BY <1>q DEF AttendanceTypeOK, PunchState
<1>t. ASSUME NEW c \in Punches, NEW step \in {"in", "ended"}, To(c, step)
      PROVE  punch' \in [Punches -> PunchState]
  BY <1>t DEF To, PunchState
<1>1. CASE Midnight
  BY <1>q, <1>1, AttendanceAssumption DEF Midnight
<1>2. ASSUME NEW c \in Punches, ClockIn(c) PROVE AttendanceTypeOK'
  <2>1. crossedIn' \subseteq Punches
    BY <1>2 DEF ClockIn, At
  <2>2. QED BY <1>q, <1>t, <1>2, <2>1 DEF ClockIn
<1>3. ASSUME NEW c \in Punches, ClockedInWritten(c) PROVE AttendanceTypeOK'
  <2>1. sheet[c] \in SheetRow
    OBVIOUS
  <2>2. sheet' \in [Punches -> SheetRow]
    BY <1>3, <2>1, SheetRows DEF ClockedInWritten
  <2>3. QED BY <1>q, <1>t, <1>3, <2>2 DEF ClockedInWritten
<1>4. ASSUME NEW c \in Punches, NEW r \in Punches, FindToday(c, r) PROVE AttendanceTypeOK'
  BY <1>q, <1>4 DEF FindToday, PunchState
<1>5. ASSUME NEW c \in Punches, NEW r \in Punches, ClockOut(c, r) PROVE AttendanceTypeOK'
  BY <1>q, <1>5 DEF ClockOut, PunchState
<1>6. ASSUME NEW c \in Punches, NEW r \in Punches, ClockedOutWritten(c, r) PROVE AttendanceTypeOK'
  <2>1. sheet' = [sheet EXCEPT ![r] = [sheet[r] EXCEPT !.state = "closed", !.outs = @ + 1]]
    BY <1>6 DEF ClockedOutWritten
  <2>2. [sheet[r] EXCEPT !.state = "closed", !.outs = @ + 1] \in SheetRow
    BY SheetRows
  <2>3. sheet' \in [Punches -> SheetRow]
    BY <2>1, <2>2
  <2>4. QED BY <1>q, <1>t, <1>6, <2>3 DEF ClockedOutWritten
<1>7. ASSUME NEW c \in Punches, PunchFails(c) PROVE AttendanceTypeOK'
  BY <1>q, <1>t, <1>7 DEF PunchFails
<1>8. CASE UNCHANGED attendanceVars
  BY <1>q, <1>8 DEF attendanceVars
<1>9. QED
  BY <1>1, <1>2, <1>3, <1>4, <1>5, <1>6, <1>7, <1>8 DEF AttendanceNext

ClockingIn(c) == punch[c].step = "in"
ClockingOut(c, r) == punch[c] = [step |-> "out", record |-> {r}]
OpenRow(r) == sheet[r].state = "open"

\* A clock-in under way that overlaps no other one found nothing open today, and nobody else
\* is clocking in while a record of today that overlapped nothing is open.
InInv ==
  /\ \A r \in Punches : sheet[r].day <= today
  /\ \A c, d \in Punches : ClockingIn(c) /\ ClockingIn(d) /\ c \notin crossedIn => c = d
  /\ \A c, r \in Punches : ClockingIn(c) /\ OpenRow(r) /\ sheet[r].day = today => {c, r} \subseteq crossedIn
  /\ OpenAlone

\* A record whose clock-outs did not overlap is closed by the only one under way.
OutInv ==
  /\ \A r \in Punches : OpenRow(r) => sheet[r].outs = 0
  /\ \A c, r \in Punches : ClockingOut(c, r) /\ r \notin crossedOut =>
       sheet[r].outs = 0 /\ \A d \in Punches : ClockingOut(d, r) => d = c
  /\ ClosedOnce

\* Where a step leaves a call, and where the others stay.
LEMMA Steps ==
  ASSUME AttendanceTypeOK, NEW c \in Punches, NEW step, To(c, step)
  PROVE  /\ punch'[c].step = step /\ \A d \in Punches \ {c} : punch'[d] = punch[d]
BY DEF To, AttendanceTypeOK

LEMMA NextInInv ==
  AttendanceTypeOK /\ InInv /\ [AttendanceNext]_attendanceVars => InInv'
<1> SUFFICES ASSUME AttendanceTypeOK, InInv, [AttendanceNext]_attendanceVars PROVE InInv'
  OBVIOUS
<1>0. AttendanceTypeOK'
  BY NextAttendanceType
<1>d. today \in Int /\ \A r \in Punches : sheet[r].day \in Int
  BY DEF AttendanceTypeOK, SheetRow
\* A step that opens no record and starts no clock-in.
<1>s. ASSUME UNCHANGED <<today, crossedIn>>, \A c \in Punches : ClockingIn(c)' => ClockingIn(c),
             \A r \in Punches : sheet'[r].day = sheet[r].day /\ (OpenRow(r)' => OpenRow(r))
      PROVE  InInv'
  BY <1>s DEF InInv, OpenAlone, OpenRow
<1>1. CASE Midnight
  <2>1. today' = today + 1 /\ UNCHANGED <<sheet, punch, crossedIn>>
    BY <1>1 DEF Midnight
  <2>2. \A r \in Punches : sheet[r].day <= today /\ sheet'[r].day # today'
    BY <1>d, <2>1 DEF InInv
  <2>3. \A r \in Punches : sheet'[r].day <= today'
    BY <1>d, <2>1, <2>2
  <2>4. QED BY <2>1, <2>2, <2>3 DEF InInv, ClockingIn, OpenRow, OpenAlone
<1>2. ASSUME NEW c \in Punches, ClockIn(c) PROVE InInv'
  <2>1. ClockedIn = {} /\ UNCHANGED <<today, sheet>>
    BY <1>2 DEF ClockIn
  <2>2. crossedIn \subseteq crossedIn' /\ \A d \in Punches : ClockingIn(d) => {c, d} \subseteq crossedIn'
    BY <1>2 DEF ClockIn, At, ClockingIn
  <2>3. \A d \in Punches \ {c} : punch'[d] = punch[d]
    BY <1>2, Steps DEF ClockIn
  <2>4. \A a, b \in Punches : ClockingIn(a)' /\ ClockingIn(b)' /\ a \notin crossedIn' => a = b
    BY <2>2, <2>3 DEF InInv, ClockingIn
  <2>5. \A r \in Punches : ~(OpenRow(r)' /\ sheet'[r].day = today')
    BY <2>1 DEF ClockedIn, OpenRow
  <2>6. QED BY <2>1, <2>2, <2>4, <2>5 DEF InInv, OpenAlone
<1>3. ASSUME NEW c \in Punches, ClockedInWritten(c) PROVE InInv'
  <2>1. ClockingIn(c) /\ UNCHANGED <<today, crossedIn>>
    BY <1>3 DEF ClockedInWritten, ClockingIn
  <2>2. /\ sheet'[c].day = today /\ \A r \in Punches \ {c} : sheet'[r] = sheet[r]
    BY <1>3 DEF ClockedInWritten, AttendanceTypeOK
  <2>3. ~ClockingIn(c)' /\ \A d \in Punches \ {c} : punch'[d] = punch[d]
    BY <1>3, Steps DEF ClockedInWritten, ClockingIn
  <2>4. \A r \in Punches : sheet'[r].day <= today'
    BY <1>d, <2>1, <2>2 DEF InInv
  <2>5. \A a, r \in Punches : ClockingIn(a)' /\ OpenRow(r)' /\ sheet'[r].day = today' => {a, r} \subseteq crossedIn'
    BY <2>1, <2>2, <2>3 DEF InInv, ClockingIn, OpenRow
  <2>6. OpenAlone'
    BY <2>1, <2>2 DEF InInv, OpenAlone, OpenRow
  <2>7. QED BY <2>1, <2>3, <2>4, <2>5, <2>6 DEF InInv, ClockingIn
<1>4. ASSUME NEW c \in Punches, NEW r \in Punches, FindToday(c, r) PROVE InInv'
  BY <1>s, <1>4 DEF FindToday, ClockingIn, OpenRow, AttendanceTypeOK
<1>5. ASSUME NEW c \in Punches, NEW r \in Punches, ClockOut(c, r) PROVE InInv'
  BY <1>s, <1>5 DEF ClockOut, ClockingIn, OpenRow, AttendanceTypeOK
<1>6. ASSUME NEW c \in Punches, NEW r \in Punches, ClockedOutWritten(c, r) PROVE InInv'
  <2>1. \A s \in Punches : sheet'[s].day = sheet[s].day /\ (OpenRow(s)' => OpenRow(s))
    BY <1>6 DEF ClockedOutWritten, OpenRow, AttendanceTypeOK, SheetRow
  <2>2. \A d \in Punches : ClockingIn(d)' => ClockingIn(d)
    BY <1>6, Steps DEF ClockedOutWritten, ClockingIn
  <2>3. QED BY <1>s, <1>6, <2>1, <2>2 DEF ClockedOutWritten
<1>7. ASSUME NEW c \in Punches, PunchFails(c) PROVE InInv'
  <2>1. \A d \in Punches : ClockingIn(d)' => ClockingIn(d)
    BY <1>7, Steps DEF PunchFails, ClockingIn
  <2>2. QED BY <1>s, <1>7, <2>1 DEF PunchFails, OpenRow
<1>8. CASE UNCHANGED attendanceVars
  BY <1>s, <1>8 DEF attendanceVars, ClockingIn, OpenRow
<1>9. QED
  BY <1>1, <1>2, <1>3, <1>4, <1>5, <1>6, <1>7, <1>8 DEF AttendanceNext

LEMMA NextOutInv ==
  AttendanceTypeOK /\ OutInv /\ [AttendanceNext]_attendanceVars => OutInv'
<1> SUFFICES ASSUME AttendanceTypeOK, OutInv, [AttendanceNext]_attendanceVars PROVE OutInv'
  OBVIOUS
\* A step that starts no clock-out and writes none.
<1>s. ASSUME crossedOut' = crossedOut, \A c, r \in Punches : ClockingOut(c, r)' => ClockingOut(c, r),
             \A r \in Punches : sheet'[r] = sheet[r] \/ sheet'[r].outs = 0
      PROVE  OutInv'
  BY <1>s DEF OutInv, ClosedOnce, OpenRow
<1>1. CASE Midnight
  BY <1>s, <1>1 DEF Midnight, ClockingOut
<1>2. ASSUME NEW c \in Punches, ClockIn(c) PROVE OutInv'
  <2>1. \A d, r \in Punches : ClockingOut(d, r)' => ClockingOut(d, r)
    BY <1>2, Steps DEF ClockIn, ClockingOut
  <2>2. QED BY <1>s, <1>2, <2>1 DEF ClockIn
<1>3. ASSUME NEW c \in Punches, ClockedInWritten(c) PROVE OutInv'
  <2>1. \A d, r \in Punches : ClockingOut(d, r)' => ClockingOut(d, r)
    BY <1>3, Steps DEF ClockedInWritten, ClockingOut
  <2>2. \A r \in Punches : sheet'[r] = sheet[r] \/ sheet'[r].outs = 0
    BY <1>3 DEF ClockedInWritten, AttendanceTypeOK
  <2>3. QED BY <1>s, <1>3, <2>1, <2>2 DEF ClockedInWritten
<1>4. ASSUME NEW c \in Punches, NEW r \in Punches, FindToday(c, r) PROVE OutInv'
  <2>1. \A d, s \in Punches : ClockingOut(d, s)' => ClockingOut(d, s)
    BY <1>4 DEF FindToday, ClockingOut, AttendanceTypeOK
  <2>2. QED BY <1>s, <1>4, <2>1 DEF FindToday
<1>5. ASSUME NEW c \in Punches, NEW r \in Punches, ClockOut(c, r) PROVE OutInv'
  <2>1. OpenRow(r) /\ ~ClockingOut(c, r) /\ UNCHANGED sheet
    BY <1>5 DEF ClockOut, OpenRow, ClockingOut, NoPunch
  <2>2. punch'[c] = [step |-> "out", record |-> {r}] /\ \A d \in Punches \ {c} : punch'[d] = punch[d]
    BY <1>5 DEF ClockOut, AttendanceTypeOK
  <2>3. crossedOut \subseteq crossedOut' /\ \A d \in Punches : ClockingOut(d, r) => r \in crossedOut'
    BY <1>5 DEF ClockOut, At, ClockingOut
  <2>4. \A d, s \in Punches : ClockingOut(d, s)' => ClockingOut(d, s) \/ (d = c /\ s = r)
    BY <2>2 DEF ClockingOut
  <2>5. ASSUME NEW d \in Punches, NEW s \in Punches, ClockingOut(d, s)', s \notin crossedOut'
        PROVE  sheet'[s].outs = 0 /\ \A e \in Punches : ClockingOut(e, s)' => e = d
    <3>1. CASE s = r
      BY <2>1, <2>3, <2>4, <2>5, <3>1 DEF OutInv
    <3>2. CASE s # r
      BY <2>1, <2>3, <2>4, <2>5, <3>2 DEF OutInv
    <3>3. QED BY <3>1, <3>2
  <2>6. QED BY <2>1, <2>3, <2>5 DEF OutInv, ClosedOnce, OpenRow
<1>6. ASSUME NEW c \in Punches, NEW r \in Punches, ClockedOutWritten(c, r) PROVE OutInv'
  <2>1. ClockingOut(c, r) /\ crossedOut' = crossedOut
    BY <1>6 DEF ClockedOutWritten, ClockingOut
  <2>2. /\ sheet'[r].state = "closed" /\ sheet'[r].outs = sheet[r].outs + 1
        /\ \A s \in Punches \ {r} : sheet'[s] = sheet[s]
    BY <1>6 DEF ClockedOutWritten, AttendanceTypeOK, SheetRow
  <2>3. \A d, s \in Punches : ClockingOut(d, s)' => ClockingOut(d, s) /\ d # c
    BY <1>6, Steps DEF ClockedOutWritten, ClockingOut
  <2>4. QED BY <2>1, <2>2, <2>3 DEF OutInv, ClosedOnce, OpenRow
<1>7. ASSUME NEW c \in Punches, PunchFails(c) PROVE OutInv'
  <2>1. \A d, s \in Punches : ClockingOut(d, s)' => ClockingOut(d, s)
    BY <1>7, Steps DEF PunchFails, ClockingOut
  <2>2. QED BY <1>s, <1>7, <2>1 DEF PunchFails
<1>8. CASE UNCHANGED attendanceVars
  BY <1>s, <1>8 DEF attendanceVars, ClockingOut
<1>9. QED
  BY <1>1, <1>2, <1>3, <1>4, <1>5, <1>6, <1>7, <1>8 DEF AttendanceNext

LEMMA InitAttendanceType == AttendanceInit => AttendanceTypeOK
BY AttendanceAssumption DEF AttendanceInit, AttendanceTypeOK, SheetRow, NoEntry, NoPunch

\* The only open record of its day, and hours written once, unless calls overlapped.
THEOREM AttendanceStaysKept == AttendanceSpec => []AttendanceKept
<1>1. AttendanceInit => AttendanceTypeOK /\ InInv /\ OutInv
  <2> SUFFICES ASSUME AttendanceInit PROVE AttendanceTypeOK /\ InInv /\ OutInv
    OBVIOUS
  <2>1. AttendanceTypeOK
    BY InitAttendanceType
  <2>2. \A r \in Punches : ~ClockingIn(r) /\ ~OpenRow(r) /\ sheet[r].day = 0 /\ sheet[r].outs = 0
    BY DEF AttendanceInit, ClockingIn, OpenRow, NoEntry, NoPunch
  <2>3. \A c, r \in Punches : ~ClockingOut(c, r)
    BY DEF AttendanceInit, ClockingOut, NoPunch
  <2>4. InInv
    BY <2>2 DEF InInv, OpenAlone, OpenRow, AttendanceInit
  <2>5. OutInv
    BY <2>2, <2>3 DEF OutInv, ClosedOnce
  <2>6. QED BY <2>1, <2>4, <2>5
<1>2. InInv /\ OutInv => AttendanceKept
  BY DEF InInv, OutInv, AttendanceKept
<1>3. QED
  BY <1>1, <1>2, NextAttendanceType, NextInInv, NextOutInv, PTL DEF AttendanceSpec

------------------------------------------------------------------------------
(* Devices.                                                                *)

Claiming(c) == desk[c].step = "claim"

\* The claims that count: neither filed side by side nor reopened.
Regular == ActiveClaims \ (rushed \cup reopened)

\* While a claim is being filed there is no other that counts, and no other is being filed
\* unless both are marked.
ClaimInv ==
  /\ DevicesTypeOK
  /\ \A c \in DeskCalls : Claiming(c) => Regular = {}
  /\ \A c, d \in DeskCalls : Claiming(c) /\ Claiming(d) /\ c \notin rushed => c = d
  /\ \A j, k \in Regular : j = k

Dates == 0..NoDate
ClaimRow == [status : ClaimStatuses \cup {"none"}, sale : Dates, made : Dates]
DeskState == [step : {"idle", "claim", "page", "ended"}, claim : SUBSET DeskCalls,
              shown : ClaimStatuses \cup {"none"}, sale : Dates]
Device == [status : DeviceStatuses \cup {"none"}, soldAt : Dates]

LEMMA DevicesTypes ==
  DevicesTypeOK <=> /\ month \in 0..LastMonth /\ device \in Device
                    /\ claims \in [DeskCalls -> ClaimRow] /\ desk \in [DeskCalls -> DeskState]
                    /\ rushed \subseteq DeskCalls /\ reopened \subseteq DeskCalls
BY DEF DevicesTypeOK, Device, ClaimRow, DeskState, Dates

LEMMA MonthsAreDates ==
  /\ NoDate \in Dates /\ \A m \in 0..LastMonth : m \in Dates
  /\ \A m \in 0..LastMonth : m < LastMonth => m + 1 \in 0..LastMonth
BY DevicesAssumption DEF Dates, NoDate

LEMMA NextDevicesType == DevicesTypeOK /\ [DevicesNext]_deviceVars => DevicesTypeOK'
<1> SUFFICES ASSUME DevicesTypeOK, [DevicesNext]_deviceVars PROVE DevicesTypeOK'
  OBVIOUS
<1>0. /\ month \in 0..LastMonth /\ device \in Device
      /\ claims \in [DeskCalls -> ClaimRow] /\ desk \in [DeskCalls -> DeskState]
      /\ rushed \subseteq DeskCalls /\ reopened \subseteq DeskCalls
  BY DevicesTypes
<1> USE <1>0, MonthsAreDates
<1>q. ASSUME /\ month' \in 0..LastMonth /\ device' \in Device
             /\ claims' \in [DeskCalls -> ClaimRow] /\ desk' \in [DeskCalls -> DeskState]
             /\ rushed' \subseteq DeskCalls /\ reopened' \subseteq DeskCalls
      PROVE  DevicesTypeOK'
  BY <1>q DEF DevicesTypeOK, Device, ClaimRow, DeskState, Dates
<1>1. CASE Register
  BY <1>q, <1>1 DEF Register, Device, DeviceStatuses
<1>2. CASE MarkSold
  BY <1>q, <1>2 DEF MarkSold, Device, DeviceStatuses
<1>3. CASE MonthPasses
  BY <1>q, <1>3 DEF MonthPasses
<1>4. ASSUME NEW status \in {"SOLD", "RETURNED", "SCRAPPED"}, UpdateDeviceStatus(status)
      PROVE  DevicesTypeOK'
  BY <1>q, <1>4 DEF UpdateDeviceStatus, Device, DeviceStatuses
<1>e. ASSUME NEW c \in DeskCalls, DeskEnds(c) PROVE desk' \in [DeskCalls -> DeskState]
  BY <1>e DEF DeskEnds, DeskState
<1>5. ASSUME NEW c \in DeskCalls, Claim(c) PROVE DevicesTypeOK'
  <2>1. [NoDesk EXCEPT !.step = "claim", !.sale = device.soldAt] \in DeskState
    BY DEF NoDesk, DeskState, Device
  <2>2. rushed' \subseteq DeskCalls
    BY <1>5 DEF Claim
  <2>3. QED BY <1>q, <1>5, <2>1, <2>2 DEF Claim
<1>6. ASSUME NEW c \in DeskCalls, ClaimInserted(c) PROVE DevicesTypeOK'
  <2>1. [status |-> "PENDING", sale |-> desk[c].sale, made |-> month] \in ClaimRow
    BY DEF ClaimRow, DeskState, ClaimStatuses
  <2>2. QED BY <1>q, <1>e, <1>6, <2>1 DEF ClaimInserted
<1>7. ASSUME NEW c \in DeskCalls, NEW k \in DeskCalls, ShowClaim(c, k) PROVE DevicesTypeOK'
  <2>1. [NoDesk EXCEPT !.step = "page", !.claim = {k}, !.shown = claims[k].status] \in DeskState
    BY DEF NoDesk, DeskState, ClaimRow
  <2>2. QED BY <1>q, <1>7, <2>1 DEF ShowClaim
<1>8. ASSUME NEW c \in DeskCalls, NEW k \in DeskCalls, NEW status \in ClaimStatuses, Resolve(c, k, status)
      PROVE  DevicesTypeOK'
  <2>1. claims' \in [DeskCalls -> ClaimRow] /\ reopened' \subseteq DeskCalls
    BY <1>8 DEF Resolve, ClaimRow
  <2>2. QED BY <1>q, <1>e, <1>8, <2>1 DEF Resolve
<1>9. ASSUME NEW c \in DeskCalls, DeskLost(c) PROVE DevicesTypeOK'
  BY <1>q, <1>e, <1>9 DEF DeskLost
<1>10. CASE UNCHANGED deviceVars
  BY <1>q, <1>10 DEF deviceVars
<1>11. QED
  BY <1>1, <1>2, <1>3, <1>4, <1>5, <1>6, <1>7, <1>8, <1>9, <1>10 DEF DevicesNext

\* A step that files nothing and makes no claim active that was not.
LEMMA ClaimsShrink ==
  ASSUME ClaimInv, DevicesTypeOK', rushed' = rushed, Regular' \subseteq Regular,
         \A c \in DeskCalls : Claiming(c)' => Claiming(c)
  PROVE  ClaimInv'
BY DEF ClaimInv

LEMMA NextClaimInv == ClaimInv /\ [DevicesNext]_deviceVars => ClaimInv'
<1> SUFFICES ASSUME ClaimInv, [DevicesNext]_deviceVars PROVE ClaimInv'
  OBVIOUS
<1>0. DevicesTypeOK /\ DevicesTypeOK'
  BY NextDevicesType DEF ClaimInv
<1> USE <1>0
<1>a. ASSUME UNCHANGED <<claims, rushed, reopened>> PROVE Regular' = Regular
  BY <1>a DEF Regular, ActiveClaims
<1>1. CASE Register \/ MarkSold \/ MonthPasses
  BY <1>1, <1>a, ClaimsShrink DEF Register, MarkSold, MonthPasses, Claiming
<1>2. ASSUME NEW status \in {"SOLD", "RETURNED", "SCRAPPED"}, UpdateDeviceStatus(status)
      PROVE  ClaimInv'
  BY <1>2, <1>a, ClaimsShrink DEF UpdateDeviceStatus, Claiming
<1>3. ASSUME NEW c \in DeskCalls, Claim(c) PROVE ClaimInv'
  <2>1. ActiveClaims = {} /\ UNCHANGED claims
    BY <1>3 DEF Claim, Eligible
  <2>2. Regular' = {}
    BY <2>1 DEF Regular, ActiveClaims
  <2>3. rushed \subseteq rushed'
    BY <1>3 DEF Claim
  <2>4. \A d \in DeskCalls \ {c} : Claiming(d)' <=> Claiming(d)
    BY <1>3 DEF Claim, Claiming, DevicesTypeOK
  <2>5. \A d \in DeskCalls \ {c} : Claiming(d) => c \in rushed' /\ d \in rushed'
    BY <1>3 DEF Claim, Claiming, NoDesk
  <2>6. QED BY <2>2, <2>3, <2>4, <2>5 DEF ClaimInv
<1>4. ASSUME NEW c \in DeskCalls, ClaimInserted(c) PROVE ClaimInv'
  <2>1. Claiming(c) /\ UNCHANGED <<rushed, reopened>>
    BY <1>4 DEF ClaimInserted, Claiming
  <2>2. ~Claiming(c)' /\ \A d \in DeskCalls \ {c} : Claiming(d)' <=> Claiming(d)
    BY <1>4 DEF ClaimInserted, DeskEnds, Claiming, DevicesTypeOK
  <2>3. \A k \in DeskCalls \ {c} : claims'[k] = claims[k]
    BY <1>4 DEF ClaimInserted, DevicesTypeOK
  <2>4. Regular = {}
    BY <2>1 DEF ClaimInv
  <2>5. Regular' \subseteq {c} \ rushed
    BY <2>1, <2>3, <2>4 DEF Regular, ActiveClaims
  <2>6. QED BY <2>1, <2>2, <2>5 DEF ClaimInv
<1>5. ASSUME NEW c \in DeskCalls, NEW k \in DeskCalls, ShowClaim(c, k) PROVE ClaimInv'
  <2>1. \A d \in DeskCalls : Claiming(d)' => Claiming(d)
    BY <1>5 DEF ShowClaim, Claiming, DevicesTypeOK, NoDesk
  <2>2. QED BY <1>5, <2>1, <1>a, ClaimsShrink DEF ShowClaim
<1>6. ASSUME NEW c \in DeskCalls, NEW k \in DeskCalls, NEW status \in ClaimStatuses, Resolve(c, k, status)
      PROVE  ClaimInv'
  <2>1. \A d \in DeskCalls : Claiming(d)' => Claiming(d)
    BY <1>6 DEF Resolve, DeskEnds, Claiming, DevicesTypeOK
  <2>2. /\ claims'[k].status = status /\ \A j \in DeskCalls \ {k} : claims'[j] = claims[j]
        /\ reopened \subseteq reopened' /\ rushed' = rushed
        /\ status \in Active /\ claims[k].status \notin Active => k \in reopened'
    BY <1>6 DEF Resolve, DevicesTypeOK
  <2>3. Regular' \subseteq Regular
    BY <2>2 DEF Regular, ActiveClaims
  <2>4. QED BY <2>1, <2>2, <2>3, ClaimsShrink
<1>7. ASSUME NEW c \in DeskCalls, DeskLost(c) PROVE ClaimInv'
  <2>1. \A d \in DeskCalls : Claiming(d)' => Claiming(d)
    BY <1>7 DEF DeskLost, DeskEnds, Claiming, DevicesTypeOK
  <2>2. QED BY <1>7, <2>1, <1>a, ClaimsShrink DEF DeskLost
<1>8. CASE UNCHANGED deviceVars
  BY <1>8, <1>a, ClaimsShrink DEF deviceVars, Claiming
<1>9. QED
  BY <1>1, <1>2, <1>3, <1>4, <1>5, <1>6, <1>7, <1>8 DEF DevicesNext

LEMMA InitDevicesType == DevicesInit => DevicesTypeOK
BY DevicesAssumption DEF DevicesInit, DevicesTypeOK, NoClaim, NoDesk, NoDate, DeviceStatuses

\* A device has at most one active claim, but for those filed side by side or reopened by a
\* page that was out of date.
THEOREM OneClaimStaysActive == DevicesSpec => []OneActiveClaim
<1>1. DevicesInit => ClaimInv
  <2> SUFFICES ASSUME DevicesInit PROVE ClaimInv
    OBVIOUS
  <2>1. DevicesTypeOK
    BY InitDevicesType
  <2>2. Regular = {} /\ \A c \in DeskCalls : ~Claiming(c)
    BY DEF DevicesInit, Regular, ActiveClaims, Active, NoClaim, NoDesk, Claiming
  <2>3. QED BY <2>1, <2>2 DEF ClaimInv
<1>2. ClaimInv => OneActiveClaim
  BY AtMostOne DEF ClaimInv, OneActiveClaim, Regular
<1>3. QED BY <1>1, <1>2, NextClaimInv, PTL DEF DevicesSpec

------------------------------------------------------------------------------
(* Payroll.                                                                *)

\* A row whose amounts add up with a salary of the past, beside such a salary.
Explained(row, salaries) ==
  /\ row.base \in salaries
  /\ \E s \in salaries : row.netPay = s + row.commission - row.deductions

\* The status that the handler of an operation relies on, in a log.
Has(l, s) == \E k \in DOMAIN l : l[k] = s
Needs(op) == IF op = "pay" THEN "APPROVED" ELSE "DRAFT"

\* What a handler carries: a row explained by the past, and, when it is about to update
\* a payroll, the status it read is one that the payroll had.
Carried ==
  \A r \in PayrollCalls : place[r] \in {"reading", "checked"} =>
    /\ work[r] \in Work /\ Explained(work[r].row, past)
    /\ place[r] = "reading" => work[r].op = "calculate"
    /\ work[r].op \in {"create", "recalculate"} => work[r].row.status = "DRAFT"
    /\ work[r].op \in {"recalculate", "adjust", "approve", "pay"} =>
         work[r].period \in Created /\ Has(log[work[r].period], Needs(work[r].op))

\* A row has its status in its log, and amounts explained by the past.
Rows == /\ \A p \in Created : Explained(payroll[p], past) /\ Has(log[p], payroll[p].status)
        /\ \A p \in Periods \ Created : log[p] = <<>>

PayrollInv == PayrollTypeOK /\ salary \in past /\ Carried /\ Rows

LEMMA Appending ==
  ASSUME NEW l \in Seq(PayrollStatuses), NEW s \in PayrollStatuses
  PROVE  /\ Append(l, s) \in Seq(PayrollStatuses)
         /\ Has(Append(l, s), s)
         /\ \A x : Has(l, x) => Has(Append(l, s), x)
<1>1. /\ Append(l, s) \in Seq(PayrollStatuses)
      /\ Len(l) + 1 \in DOMAIN Append(l, s) /\ Append(l, s)[Len(l) + 1] = s
      /\ \A k \in DOMAIN l : k \in DOMAIN Append(l, s) /\ Append(l, s)[k] = l[k]
  OBVIOUS
<1>2. QED BY <1>1 DEF Has

\* What the handlers compute is a row, explained by the salary it is computed from.
LEMMA ComputedRow ==
  ASSUME NEW s \in Salaries, NEW c \in Nat, NEW d \in Nat
  PROVE  /\ Computed("DRAFT", s, c, d) \in PayrollRow
         /\ Computed("DRAFT", s, c, d).status = "DRAFT"
         /\ \A salaries : s \in salaries => Explained(Computed("DRAFT", s, c, d), salaries)
<1>1. s \in Int /\ s + c - d \in Int
  BY SalariesAssumption
<1>2. QED BY <1>1 DEF Computed, PayrollRow, PayrollStatuses, Explained

LEMMA ExplainedGrows ==
  ASSUME NEW row, NEW old, NEW new, old \subseteq new, Explained(row, old)
  PROVE  Explained(row, new)
BY DEF Explained

LEMMA CreatedRows ==
  ASSUME PayrollTypeOK
  PROVE  \A p \in Created : p \in Periods /\ payroll[p] \in PayrollRow
BY DEF PayrollTypeOK, Created

LEMMA RowsAreCreated == \A row \in PayrollRow : row # NoPayroll
BY DEF PayrollRow, NoPayroll, PayrollStatuses

LEMMA InitPayrollInv == PayrollInit => PayrollInv
<1> SUFFICES ASSUME PayrollInit PROVE PayrollInv
  OBVIOUS
<1>1. PayrollTypeOK
  BY DEF PayrollInit, PayrollTypeOK
<1>2. Carried /\ Rows
  BY DEF PayrollInit, Carried, Rows, Created
<1>3. QED BY <1>1, <1>2 DEF PayrollInit, PayrollInv

LEMMA UpdateStep ==
  ASSUME PayrollInv, NEW s \in Salaries, UpdateEmployee(s)
  PROVE  PayrollInv'
<1>1. PayrollTypeOK' /\ salary' \in past' /\ past \subseteq past'
  BY DEF UpdateEmployee, PayrollInv, PayrollTypeOK
<1>2. Created' = Created /\ UNCHANGED <<payroll, log, place, work>>
  BY DEF UpdateEmployee, Created
<1>3. Carried' /\ Rows'
  BY <1>1, <1>2, ExplainedGrows DEF PayrollInv, Carried, Rows
<1>4. QED BY <1>1, <1>3 DEF PayrollInv

------------------------------------------------------------------------------
(* A read half: the handler goes on with a call, or it is refused.         *)

LEMMA PayrollReadStep ==
  ASSUME PayrollInv, NEW r \in PayrollCalls, NEW where \in {"reading", "checked"}, NEW c \in Work,
         UNCHANGED <<salary, past, payroll, log>>,
         \/ place' = [place EXCEPT ![r] = where] /\ work' = [work EXCEPT ![r] = c]
         \/ place' = [place EXCEPT ![r] = "refused"] /\ work' = work,
         place'[r] # "refused" =>
           /\ Explained(c.row, past)
           /\ where = "reading" => c.op = "calculate"
           /\ c.op \in {"create", "recalculate"} => c.row.status = "DRAFT"
           /\ c.op \in {"recalculate", "adjust", "approve", "pay"} =>
                c.period \in Created /\ Has(log[c.period], Needs(c.op))
  PROVE  PayrollInv'
<1>1. PayrollTypeOK'
  BY DEF PayrollInv, PayrollTypeOK
<1>2. Created' = Created
  BY DEF Created
<1>3. ASSUME NEW q \in PayrollCalls, q # r
      PROVE  place'[q] = place[q] /\ work'[q] = work[q]
  BY <1>3 DEF PayrollInv, PayrollTypeOK
<1>4. \/ place'[r] = where /\ work'[r] = c /\ place'[r] # "refused"
      \/ place'[r] = "refused"
  BY DEF PayrollInv, PayrollTypeOK
<1>5. Carried'
  BY <1>2, <1>3, <1>4 DEF PayrollInv, Carried
<1>6. Rows' /\ salary' \in past'
  BY <1>2 DEF PayrollInv, Rows
<1>7. QED BY <1>1, <1>5, <1>6 DEF PayrollInv

LEMMA CalculateStep ==
  ASSUME PayrollInv, NEW r \in PayrollCalls, NEW p \in Periods, Calculate(r, p)
  PROVE  PayrollInv'
<1> DEFINE row == Computed("DRAFT", salary, 0, Withheld[salary])
           c == [op |-> "calculate", period |-> p, row |-> row]
<1>1. salary \in Salaries /\ salary \in past /\ Withheld[salary] \in Nat
  BY WithheldAssumption DEF PayrollInv, PayrollTypeOK
<1>2. row \in PayrollRow /\ Explained(row, past)
  BY <1>1, ComputedRow
<1>3. /\ place' = [place EXCEPT ![r] = "reading"] /\ work' = [work EXCEPT ![r] = c]
      /\ UNCHANGED <<salary, past, payroll, log>>
  BY DEF Calculate
<1> HIDE DEF row
<1>4. c \in Work /\ c.row = row /\ c.op = "calculate"
  BY <1>2 DEF Work
<1> HIDE DEF c
<1>5. QED BY <1>2, <1>3, <1>4, PayrollReadStep

\* The read halves that end in "checked", with the row that each goes on with.
LEMMA CheckStep ==
  ASSUME PayrollInv, NEW r \in PayrollCalls, NEW p \in Periods, NEW row \in PayrollRow,
         NEW op \in {"create", "recalculate", "adjust", "approve", "pay"},
         NEW accepted \in BOOLEAN, ReadPayroll(r, op, p, row, accepted),
         Explained(row, past),
         op \in {"create", "recalculate"} => row.status = "DRAFT",
         accepted /\ op # "create" => p \in Created /\ payroll[p].status = Needs(op)
  PROVE  PayrollInv'
<1> DEFINE c == [op |-> op, period |-> p, row |-> row]
<1>1. c \in Work /\ c.row = row /\ c.op = op /\ c.period = p
  BY DEF Work
<1>2. accepted /\ op # "create" => p \in Created /\ Has(log[p], Needs(op))
  BY DEF PayrollInv, Rows
<1>3. /\ IF accepted
         THEN place' = [place EXCEPT ![r] = "checked"] /\ work' = [work EXCEPT ![r] = c]
         ELSE place' = [place EXCEPT ![r] = "refused"] /\ work' = work
      /\ UNCHANGED <<salary, past, payroll, log>>
  BY DEF ReadPayroll
<1> HIDE DEF c
<1>4. place'[r] # "refused" => accepted
  BY <1>3 DEF PayrollInv, PayrollTypeOK
<1>5. QED BY <1>1, <1>2, <1>3, <1>4, PayrollReadStep

LEMMA FindExistingStep ==
  ASSUME PayrollInv, NEW r \in PayrollCalls, NEW commission \in Amounts,
         FindExisting(r, commission)
  PROVE  PayrollInv'
<1> DEFINE p == work[r].period
           old == work[r].row
           op == IF p \in Created THEN "recalculate" ELSE "create"
           row == Computed("DRAFT", old.base, commission, old.deductions)
           accepted == p \in Created => payroll[p].status = "DRAFT"
<1>1. work[r] \in Work /\ Explained(old, past)
  BY DEF FindExisting, PayrollInv, Carried
<1>2. p \in Periods /\ old \in PayrollRow
  BY <1>1 DEF Work
<1>3. old.base \in Salaries /\ old.base \in past /\ old.deductions \in Nat /\ commission \in Nat
  BY <1>1, <1>2, AmountsAssumption DEF PayrollRow, Explained
<1>4. row \in PayrollRow /\ row.status = "DRAFT" /\ Explained(row, past)
  BY <1>3, ComputedRow
<1>5. ReadPayroll(r, op, p, row, accepted)
  BY DEF FindExisting
<1>6. op \in {"create", "recalculate"} /\ accepted \in BOOLEAN
  OBVIOUS
<1>7. accepted /\ op # "create" => p \in Created /\ payroll[p].status = Needs(op)
  BY DEF Needs
<1> HIDE DEF p, row, op, accepted
<1>8. QED BY <1>2, <1>4, <1>5, <1>6, <1>7, CheckStep

LEMMA AdjustStep ==
  ASSUME PayrollInv, NEW r \in PayrollCalls, NEW p \in Created,
         NEW x \in Amounts \cup {Same}, NEW y \in Amounts \cup {Same}, Adjust(r, p, x, y)
  PROVE  PayrollInv'
<1> DEFINE old == payroll[p]
           row == Computed("DRAFT", old.base, Given(x, old.commission),
                           Given(y, old.deductions))
           accepted == old.status = "DRAFT"
<1>1. p \in Periods /\ old \in PayrollRow /\ Explained(old, past)
  BY CreatedRows DEF PayrollInv, Rows
<1>2. /\ old.base \in Salaries /\ old.base \in past
      /\ Given(x, old.commission) \in Nat /\ Given(y, old.deductions) \in Nat
  BY <1>1, AmountsAssumption DEF PayrollRow, Explained, Given
<1>3. row \in PayrollRow /\ row.status = "DRAFT" /\ Explained(row, past)
  BY <1>2, ComputedRow
<1>4. ReadPayroll(r, "adjust", p, row, accepted)
  BY DEF Adjust
<1>5. accepted \in BOOLEAN /\ (accepted => payroll[p].status = Needs("adjust"))
  BY DEF Needs
<1> HIDE DEF row, accepted
<1>6. QED BY <1>1, <1>3, <1>4, <1>5, CheckStep

LEMMA StatusCheckStep ==
  ASSUME PayrollInv, NEW r \in PayrollCalls, NEW p \in Periods, Approve(r, p) \/ MarkPaid(r, p)
  PROVE  PayrollInv'
<1>1. p \in Created /\ payroll[p] \in PayrollRow /\ Explained(payroll[p], past)
  BY CreatedRows DEF Approve, MarkPaid, PayrollInv, Rows
<1>2. CASE Approve(r, p)
  <2>1. ReadPayroll(r, "approve", p, payroll[p], payroll[p].status = "DRAFT")
    BY <1>2 DEF Approve
  <2>2. QED BY <1>1, <2>1, CheckStep DEF Needs
<1>3. CASE MarkPaid(r, p)
  <2>1. ReadPayroll(r, "pay", p, payroll[p], payroll[p].status = "APPROVED")
    BY <1>3 DEF MarkPaid
  <2>2. QED BY <1>1, <2>1, CheckStep DEF Needs
<1>4. QED BY <1>2, <1>3

------------------------------------------------------------------------------
(* The write halves.                                                       *)

Moved == log' = log \/ PayrollWorkflow!Next

\* A handler ends and touches no payroll.
LEMMA QuietStep ==
  ASSUME PayrollInv, NEW r \in PayrollCalls, NEW how \in {"done", "refused", "lost"},
         PayrollAnswer(r, how), UNCHANGED <<payroll, log>>
  PROVE  PayrollInv' /\ Moved
<1>1. PayrollTypeOK' /\ Created' = Created
  BY DEF PayrollAnswer, PayrollInv, PayrollTypeOK, Created
<1>2. \A q \in PayrollCalls : place'[q] \in {"reading", "checked"} => place'[q] = place[q]
  BY DEF PayrollAnswer, PayrollInv, PayrollTypeOK
<1>3. Carried'
  BY <1>1, <1>2 DEF PayrollAnswer, PayrollInv, Carried
<1>4. QED BY <1>1, <1>3 DEF PayrollAnswer, PayrollInv, Rows, Moved

\* A handler ends with a new row for a month; the log of the month may grow.
LEMMA StoreStep ==
  ASSUME PayrollInv, NEW r \in PayrollCalls, NEW p \in Periods, NEW row \in PayrollRow,
         NEW l \in Seq(PayrollStatuses),
         PayrollAnswer(r, "done"), payroll' = [payroll EXCEPT ![p] = row], log' = [log EXCEPT ![p] = l],
         Explained(row, past), Has(l, row.status), \A s : Has(log[p], s) => Has(l, s)
  PROVE  PayrollInv'
<1>1. PayrollTypeOK'
  BY DEF PayrollAnswer, PayrollInv, PayrollTypeOK
<1>2. \A q \in Periods : /\ payroll'[q] = IF q = p THEN row ELSE payroll[q]
                         /\ log'[q] = IF q = p THEN l ELSE log[q]
  BY DEF PayrollInv, PayrollTypeOK
<1>3. Created' = Created \cup {p}
  BY <1>2, RowsAreCreated DEF Created
<1>4. \A q \in PayrollCalls : place'[q] \in {"reading", "checked"} => place'[q] = place[q]
  BY DEF PayrollAnswer, PayrollInv, PayrollTypeOK
<1>5. \A q \in Periods : \A s : Has(log[q], s) => Has(log'[q], s)
  BY <1>2
<1>6. Carried'
  <2>1. UNCHANGED <<past, work>>
    BY DEF PayrollAnswer
  <2>2. ASSUME NEW q \in PayrollCalls, place'[q] \in {"reading", "checked"}
        PROVE  /\ work[q] \in Work /\ Explained(work[q].row, past)
               /\ place'[q] = "reading" => work[q].op = "calculate"
               /\ work[q].op \in {"create", "recalculate"} => work[q].row.status = "DRAFT"
               /\ work[q].op \in {"recalculate", "adjust", "approve", "pay"} =>
                    work[q].period \in Created' /\ Has(log'[work[q].period], Needs(work[q].op))
    <3>1. place'[q] = place[q]
      BY <1>4, <2>2
    <3>2. work[q].op \in {"recalculate", "adjust", "approve", "pay"} =>
            work[q].period \in Created /\ Has(log[work[q].period], Needs(work[q].op))
      BY <2>2, <3>1 DEF PayrollInv, Carried
    <3>3. \A u \in Created : u \in Periods /\ u \in Created'
      BY <1>3 DEF Created
    <3>4. QED BY <1>5, <2>2, <3>1, <3>2, <3>3 DEF PayrollInv, Carried
  <2>3. QED BY <2>1, <2>2 DEF Carried
<1>7. Rows'
  BY <1>2, <1>3 DEF PayrollAnswer, PayrollInv, Rows
<1>8. QED BY <1>1, <1>6, <1>7 DEF PayrollAnswer, PayrollInv

\* ... and when a status is logged that the month had reason for, the workflow moves.
LEMMA LogStep ==
  ASSUME PayrollInv, NEW p \in Periods, NEW s \in PayrollStatuses,
         Has(log[p], IF s = "PAID" THEN "APPROVED" ELSE "DRAFT"),
         log' = [log EXCEPT ![p] = Append(@, s)]
  PROVE  PayrollWorkflow!Move(p)
<1>1. /\ s \in {"DRAFT", "APPROVED"} => s \in Transitions["DRAFT"]
      /\ "PAID" \in Transitions["APPROVED"]
  BY DEF Transitions, PayrollStatuses
<1>2. \E k \in DOMAIN log[p] : s \in Transitions[log[p][k]]
  BY <1>1 DEF Has, PayrollStatuses
<1>3. QED BY <1>2 DEF PayrollWorkflow!Move

LEMMA WriteStep ==
  ASSUME PayrollInv, NEW r \in PayrollCalls,
         \/ CreateCommit(r) \/ RecalculateCommit(r) \/ AdjustPayrollCommit(r)
         \/ ApproveCommit(r) \/ PaidCommit(r) \/ PayrollCallLost(r)
  PROVE  PayrollInv' /\ Moved
<1> DEFINE p == work[r].period
           row == work[r].row
           op == work[r].op
<1>1. CASE PayrollCallLost(r)
  BY <1>1, QuietStep DEF PayrollCallLost
<1> SUFFICES ASSUME ~ PayrollCallLost(r) PROVE PayrollInv' /\ Moved
  BY <1>1
<1>2. /\ work[r] \in Work /\ Explained(row, past)
      /\ op \in {"create", "recalculate"} => row.status = "DRAFT"
      /\ op \in {"recalculate", "adjust", "approve", "pay"} =>
           p \in Created /\ Has(log[p], Needs(op))
  BY DEF CreateCommit, RecalculateCommit, AdjustPayrollCommit, ApproveCommit, PaidCommit, PayrollChecked,
         PayrollInv, Carried
<1>3. p \in Periods /\ row \in PayrollRow /\ log[p] \in Seq(PayrollStatuses)
  BY <1>2 DEF Work, PayrollInv, PayrollTypeOK
<1>4. p \in Created => /\ payroll[p] \in PayrollRow /\ Explained(payroll[p], past)
                       /\ Has(log[p], payroll[p].status)
  BY CreatedRows DEF PayrollInv, Rows
<1>5. \A s \in PayrollStatuses : /\ Append(log[p], s) \in Seq(PayrollStatuses)
                          /\ Has(Append(log[p], s), s)
                          /\ \A x : Has(log[p], x) => Has(Append(log[p], s), x)
  BY <1>3, Appending
<1>6. {"DRAFT", "APPROVED", "PAID"} \subseteq PayrollStatuses
  BY DEF PayrollStatuses
<1>7. CASE CreateCommit(r)
  <2>1. CASE p \in Created
    BY <1>7, <2>1, QuietStep DEF CreateCommit
  <2>2. CASE p \notin Created
    <3>1. /\ PayrollAnswer(r, "done") /\ payroll' = [payroll EXCEPT ![p] = row]
          /\ log' = [log EXCEPT ![p] = Append(log[p], "DRAFT")] /\ row.status = "DRAFT"
      BY <1>2, <1>7, <2>2 DEF CreateCommit, PayrollChecked, Store, Log
    <3>2. PayrollInv'
      <4> HIDE DEF p, row
      <4>1. QED BY <1>2, <1>3, <1>5, <1>6, <3>1, StoreStep
    <3>3. log[p] = <<>>
      BY <1>3, <2>2 DEF PayrollInv, Rows
    <3>4. PayrollWorkflow!Open(p)
      BY <3>1, <3>3 DEF PayrollWorkflow!Open
    <3>5. QED BY <1>3, <3>2, <3>4 DEF Moved, PayrollWorkflow!Next
  <2>3. QED BY <2>1, <2>2
<1>8. CASE RecalculateCommit(r)
  <2>1. /\ PayrollAnswer(r, "done") /\ payroll' = [payroll EXCEPT ![p] = row]
        /\ log' = [log EXCEPT ![p] = Append(log[p], "DRAFT")] /\ row.status = "DRAFT"
        /\ Has(log[p], "DRAFT")
    BY <1>2, <1>8 DEF RecalculateCommit, PayrollChecked, Store, Log, Needs
  <2>2. PayrollInv' /\ PayrollWorkflow!Move(p)
    <3> HIDE DEF p, row
    <3>1. QED BY <1>2, <1>3, <1>5, <1>6, <2>1, StoreStep, LogStep
  <2>3. QED BY <1>3, <2>2 DEF Moved, PayrollWorkflow!Next
<1>9. CASE AdjustPayrollCommit(r)
  <2> DEFINE new == [payroll[p] EXCEPT !.commission = row.commission,
                                       !.deductions = row.deductions,
                                       !.netPay = row.netPay]
  <2>1. p \in Created /\ PayrollAnswer(r, "done") /\ payroll' = [payroll EXCEPT ![p] = new]
        /\ log' = log
    BY <1>2, <1>9 DEF AdjustPayrollCommit, PayrollChecked, Store
  <2>2. new \in PayrollRow /\ new.status = payroll[p].status /\ new.base = payroll[p].base
        /\ new.netPay = row.netPay /\ new.commission = row.commission
        /\ new.deductions = row.deductions
    BY <1>3, <1>4, <2>1 DEF PayrollRow
  <2>3. Explained(new, past)
    BY <1>2, <1>4, <2>1, <2>2 DEF Explained
  <2>4. log' = [log EXCEPT ![p] = log[p]]
    BY <1>3, <2>1 DEF PayrollInv, PayrollTypeOK
  <2>5. PayrollInv'
    <3> HIDE DEF p, row, new
    <3>1. QED BY <1>3, <1>4, <2>1, <2>2, <2>3, <2>4, StoreStep
  <2>6. QED BY <2>1, <2>5 DEF Moved
<1>10. ASSUME NEW s \in {"APPROVED", "PAID"}, p \in Created, PayrollAnswer(r, "done"),
              payroll' = [payroll EXCEPT ![p] = [payroll[p] EXCEPT !.status = s]],
              log' = [log EXCEPT ![p] = Append(log[p], s)],
              IF s = "PAID" THEN Has(log[p], "APPROVED") ELSE Has(log[p], "DRAFT")
       PROVE  PayrollInv' /\ Moved
  <2> DEFINE new == [payroll[p] EXCEPT !.status = s]
  <2>1. s \in PayrollStatuses
    BY DEF PayrollStatuses
  <2>2. new \in PayrollRow /\ new.status = s /\ Explained(new, past)
    BY <1>4, <1>10, <2>1 DEF PayrollRow, Explained
  <2>3. payroll' = [payroll EXCEPT ![p] = new]
    BY <1>10
  <2>4. PayrollInv' /\ PayrollWorkflow!Move(p)
    <3> HIDE DEF p, row, new
    <3>1. QED BY <1>3, <1>5, <1>10, <2>1, <2>2, <2>3, StoreStep, LogStep DEF Needs
  <2>5. QED BY <1>3, <2>4 DEF Moved, PayrollWorkflow!Next
<1>11. CASE ApproveCommit(r)
  BY <1>2, <1>10, <1>11 DEF ApproveCommit, PayrollChecked, Store, Log, Needs
<1>12. CASE PaidCommit(r)
  BY <1>2, <1>10, <1>12 DEF PaidCommit, PayrollChecked, Store, Log, Needs
<1>13. QED BY <1>7, <1>8, <1>9, <1>11, <1>12

------------------------------------------------------------------------------

LEMMA NextPayrollInv == PayrollInv /\ [PayrollNext]_payrollVars => PayrollInv' /\ Moved
<1> SUFFICES ASSUME PayrollInv, [PayrollNext]_payrollVars PROVE PayrollInv' /\ Moved
  OBVIOUS
<1>1. ASSUME NEW s \in Salaries, UpdateEmployee(s)
      PROVE  PayrollInv' /\ Moved
  BY <1>1, UpdateStep DEF UpdateEmployee, Moved
<1>2. ASSUME NEW r \in PayrollCalls, NEW p \in Periods,
             Calculate(r, p) \/ Approve(r, p) \/ MarkPaid(r, p)
      PROVE  PayrollInv' /\ Moved
  BY <1>2, CalculateStep, StatusCheckStep DEF Calculate, Approve, MarkPaid, ReadPayroll, Moved
<1>3. ASSUME NEW r \in PayrollCalls, NEW p \in Created, NEW c \in Amounts \cup {Same},
             NEW d \in Amounts \cup {Same}, Adjust(r, p, c, d)
      PROVE  PayrollInv' /\ Moved
  BY <1>3, AdjustStep DEF Adjust, ReadPayroll, Moved
<1>4. ASSUME NEW r \in PayrollCalls, NEW c \in Amounts, FindExisting(r, c)
      PROVE  PayrollInv' /\ Moved
  BY <1>4, FindExistingStep DEF FindExisting, ReadPayroll, Moved
<1>5. CASE UNCHANGED payrollVars
  <2>1. UNCHANGED <<salary, past, payroll, log, place, work>>
    BY <1>5 DEF payrollVars
  <2>2. QED BY <2>1 DEF PayrollInv, PayrollTypeOK, Carried, Rows, Created, Moved
<1>6. QED BY <1>1, <1>2, <1>3, <1>4, <1>5, WriteStep DEF PayrollNext

LEMMA PayrollInvariant == PayrollSpec => []PayrollInv
<1>1. PayrollInv /\ [PayrollNext]_payrollVars => PayrollInv'
  BY NextPayrollInv
<1>2. QED BY <1>1, InitPayrollInv, PTL DEF PayrollSpec

\* Type correctness of payrolls, logs and handlers.
THEOREM PayrollTypeCorrect == PayrollSpec => []PayrollTypeOK
<1>1. PayrollInv => PayrollTypeOK
  BY DEF PayrollInv
<1>2. QED BY <1>1, PayrollInvariant, PTL

\* However calculations, adjustments and raises interleave, a net pay is the sum of a
\* salary the employee had, the commission beside it and the deductions beside it.
THEOREM NetPayStaysExplained == PayrollSpec => []NetPayExplained
<1>1. PayrollInv => NetPayExplained
  BY DEF PayrollInv, Rows, Explained, NetPayExplained
<1>2. QED BY <1>1, PayrollInvariant, PTL

\* However handlers race on stale reads, the payrolls implement Workflow: none is paid
\* that was never approved.
THEOREM PayrollsImplementWorkflow == PayrollSpec => LogFollowsWorkflow
<1>1. PayrollInit => PayrollWorkflow!Init
  BY DEF PayrollInit, PayrollWorkflow!Init
<1>2. PayrollInv /\ [PayrollNext]_payrollVars => [PayrollWorkflow!Next]_log
  BY NextPayrollInv DEF Moved
<1>3. QED
  BY <1>1, <1>2, PayrollInvariant, PTL
  DEF PayrollSpec, LogFollowsWorkflow, PayrollWorkflow!Spec

------------------------------------------------------------------------------
(* Throttle: types.                                                        *)

Command == [step : {"idle", "incr", "expire", "counted", "failed"}, seen : Nat, tick : 0..LastTick]
Keys == [count : Nat, ends : Nat]

LEMMA ClockType ==
  ASSUME ThrottleTypeOK
  PROVE  clock \in Nat /\ clock \in 0..LastTick /\ LastTick \in Nat /\ 0 \in 0..LastTick
<1>1. clock \in 1..LastTick /\ LastTick \in Nat
  BY ThrottleAssumption DEF ThrottleTypeOK
<1>2. QED BY <1>1

LEMMA CommandUpdates ==
  ASSUME ThrottleTypeOK, NEW v \in Visits, NEW w \in Windows
  PROVE  /\ visit[v] \in [Windows -> Command] /\ visit[v][w] \in Command
         /\ \A x \in Command :
              [visit EXCEPT ![v][w] = x] \in [Visits -> [Windows -> Command]]
         /\ \A s \in {"idle", "incr", "expire", "counted", "failed"} :
              [visit EXCEPT ![v][w].step = s] \in [Visits -> [Windows -> Command]]
<1>1. visit \in [Visits -> [Windows -> Command]]
  BY DEF ThrottleTypeOK, Command
<1>2. ASSUME NEW x \in Command
      PROVE  [visit EXCEPT ![v][w] = x] \in [Visits -> [Windows -> Command]]
  BY <1>1
<1>3. ASSUME NEW s \in {"idle", "incr", "expire", "counted", "failed"}
      PROVE  [visit EXCEPT ![v][w].step = s] \in [Visits -> [Windows -> Command]]
  <2>1. [visit[v][w] EXCEPT !.step = s] \in Command
    BY <1>1 DEF Command
  <2>2. [visit EXCEPT ![v][w].step = s] = [visit EXCEPT ![v][w] = [visit[v][w] EXCEPT !.step = s]]
    BY <1>1
  <2>3. QED BY <1>2, <2>1, <2>2
<1>4. QED BY <1>1, <1>2, <1>3

\* Only the command of v in w is written.
CommandIs(v, w, x) == visit' = [visit EXCEPT ![v][w] = x]
CommandSteps(v, w, s) == visit' = [visit EXCEPT ![v][w].step = s]
OthersKept(v, w) == \A u \in Visits, y \in Windows : u # v \/ y # w => visit'[u][y] = visit[u][y]

LEMMA CommandWritten ==
  ASSUME ThrottleTypeOK, NEW v \in Visits, NEW w \in Windows, NEW x, CommandIs(v, w, x)
  PROVE  visit'[v][w] = x /\ OthersKept(v, w)
<1>1. visit \in [Visits -> [Windows -> Command]]
  BY DEF ThrottleTypeOK, Command
<1>2. QED BY <1>1 DEF CommandIs, OthersKept

LEMMA StepWritten ==
  ASSUME ThrottleTypeOK, NEW v \in Visits, NEW w \in Windows, NEW s, CommandSteps(v, w, s)
  PROVE  /\ visit'[v][w].step = s /\ OthersKept(v, w)
         /\ visit'[v][w].seen = visit[v][w].seen /\ visit'[v][w].tick = visit[v][w].tick
<1>1. visit \in [Visits -> [Windows -> Command]] /\ visit[v][w] \in Command
  BY DEF ThrottleTypeOK, Command
<1>2. CommandIs(v, w, [visit[v][w] EXCEPT !.step = s])
  BY <1>1 DEF CommandIs, CommandSteps
<1>3. OthersKept(v, w) /\ visit'[v][w] = [visit[v][w] EXCEPT !.step = s]
  BY <1>2, CommandWritten
<1>4. QED BY <1>1, <1>3 DEF Command

LEMMA CounterUpdates ==
  ASSUME ThrottleTypeOK, NEW w \in Windows
  PROVE  /\ [counter EXCEPT ![w].count = @ + 1] \in [Windows -> Keys]
         /\ [counter EXCEPT ![w].ends = clock + Length[w]] \in [Windows -> Keys]
         /\ counter[w].count \in Nat /\ counter[w].ends \in Nat
<1>1. counter \in [Windows -> Keys] /\ clock \in Nat /\ Length[w] \in Nat
  BY ClockType, ThrottleAssumption DEF ThrottleTypeOK, Keys
<1>2. counter[w].count \in Nat /\ counter[w].ends \in Nat /\ clock + Length[w] \in Nat
  BY <1>1 DEF Keys
<1>3. QED BY <1>1, <1>2 DEF Keys

LEMMA InitThrottleType == ThrottleInit => ThrottleTypeOK
<1> SUFFICES ASSUME ThrottleInit PROVE ThrottleTypeOK
  OBVIOUS
<1>1. 0 \in 0..LastTick /\ clock \in 1..LastTick
  BY ThrottleAssumption DEF ThrottleInit
<1>2. NoCommand \in Command /\ NoCounter \in Keys
  BY <1>1 DEF NoCommand, Command, NoCounter, Keys
<1>3. visit \in [Visits -> [Windows -> Command]] /\ counter \in [Windows -> Keys]
  BY <1>2 DEF ThrottleInit
<1>4. QED BY <1>1, <1>3 DEF ThrottleInit, ThrottleTypeOK, Command, Keys

LEMMA NextThrottleType == ThrottleTypeOK /\ [ThrottleNext]_throttleVars => ThrottleTypeOK'
<1> SUFFICES ASSUME ThrottleTypeOK, [ThrottleNext]_throttleVars PROVE ThrottleTypeOK'
  OBVIOUS
<1>t. ThrottleTypeOK <=>
        /\ clock \in 1..LastTick /\ counter \in [Windows -> Keys]
        /\ visit \in [Visits -> [Windows -> Command]]
        /\ verdict \in [Visits -> {"none", "admitted", "refused", "failed open"}]
        /\ lapsed \subseteq Windows
  BY DEF ThrottleTypeOK, Keys, Command
<1>p. (clock \in 1..LastTick /\ counter \in [Windows -> Keys]
        /\ visit \in [Visits -> [Windows -> Command]]
        /\ verdict \in [Visits -> {"none", "admitted", "refused", "failed open"}]
        /\ lapsed \subseteq Windows)' => ThrottleTypeOK'
  BY DEF ThrottleTypeOK, Keys, Command
<1>c. clock \in 0..LastTick /\ clock \in Nat /\ 0 \in 0..LastTick
  BY ClockType
<1>1. CASE Tick
  <2>1. NoCounter \in Keys
    BY DEF NoCounter, Keys
  <2>2. clock + 1 \in 1..LastTick
    BY <1>1, <1>c, ThrottleAssumption DEF Tick
  <2>3. counter' \in [Windows -> Keys]
    BY <1>1, <1>t, <2>1 DEF Tick
  <2>4. QED BY <1>1, <1>t, <1>p, <2>2, <2>3 DEF Tick
<1>2. ASSUME NEW v \in Visits, Use(v) PROVE ThrottleTypeOK'
  <2>1. [NoCommand EXCEPT !.step = "incr"] \in Command
    BY <1>c DEF NoCommand, Command
  <2>2. QED BY <1>2, <1>t, <1>p, <2>1 DEF Use
<1>3. ASSUME NEW v \in Visits, Decide(v) PROVE ThrottleTypeOK'
  BY <1>3, <1>t, <1>p DEF Decide
<1>4. ASSUME NEW v \in Visits, FailOpen(v) PROVE ThrottleTypeOK'
  BY <1>4, <1>t, <1>p DEF FailOpen
<1>5. ASSUME NEW v \in Visits, NEW w \in Windows, Incr(v, w) PROVE ThrottleTypeOK'
  <2>1. counter' \in [Windows -> Keys]
    BY <1>5, CounterUpdates DEF Incr, Increment
  <2>2. counter'[w].count \in Nat
    BY <2>1 DEF Keys
  <2>3. [step |-> IF counter'[w].count = 1 THEN "expire" ELSE "counted",
         seen |-> counter'[w].count, tick |-> clock] \in Command
    BY <1>c, <2>2 DEF Command
  <2>4. visit' \in [Visits -> [Windows -> Command]]
    BY <1>5, <2>3, CommandUpdates DEF Incr
  <2>5. QED BY <1>5, <1>t, <1>p, <2>1, <2>4 DEF Incr
<1>6. ASSUME NEW v \in Visits, NEW w \in Windows, Expire(v, w) PROVE ThrottleTypeOK'
  <2>1. counter' \in [Windows -> Keys]
    BY <1>6, CounterUpdates DEF Expire, SetLife
  <2>2. visit' \in [Visits -> [Windows -> Command]]
    BY <1>6, CommandUpdates DEF Expire
  <2>3. QED BY <1>6, <1>t, <1>p, <2>1, <2>2 DEF Expire
<1>7. ASSUME NEW v \in Visits, NEW w \in Windows, CommandFails(v, w) PROVE ThrottleTypeOK'
  <2>1. [step |-> "failed", seen |-> 0, tick |-> clock] \in Command
    BY <1>c DEF Command
  <2>2. counter' \in [Windows -> Keys]
    BY <1>7, <1>t, CounterUpdates DEF CommandFails, Increment, SetLife
  <2>3. visit' \in [Visits -> [Windows -> Command]]
    <3>1. /\ [visit EXCEPT ![v][w].step = "failed"] \in [Visits -> [Windows -> Command]]
          /\ [visit EXCEPT ![v][w] = [step |-> "failed", seen |-> 0, tick |-> clock]]
               \in [Visits -> [Windows -> Command]]
      BY <2>1, CommandUpdates
    <3>2. QED BY <1>7, <3>1 DEF CommandFails
  <2>4. QED BY <1>7, <1>t, <1>p, <2>2, <2>3 DEF CommandFails
<1>8. CASE UNCHANGED throttleVars
  BY <1>8, <1>t, <1>p DEF throttleVars
<1>9. QED BY <1>1, <1>2, <1>3, <1>4, <1>5, <1>6, <1>7, <1>8 DEF ThrottleNext

------------------------------------------------------------------------------
(* Throttle: no stretch as long as a window admits more than twice the     *)
(* limit.  A number that the counter of w gave to two requests was given   *)
(* in two of its lives, and three lives do not fit in one window.          *)

Seen(v, w) == visit[v][w].seen
TickOf(v, w) == visit[v][w].tick

\* Two requests, or three, that got the same number from the counter.
SameNumber(u, v, w) == u # v /\ Seen(u, w) = Seen(v, w) /\ Seen(u, w) > 0
Earlier(u, v, w, t) == TickOf(u, w) + Length[w] <= t \/ TickOf(v, w) + Length[w] <= t

\* A command that was not answered has no number; what was counted was counted by now.
Numbered(w) ==
  \A v \in Visits : /\ TickOf(v, w) <= clock
                    /\ visit[v][w].step \in {"idle", "incr"} => Seen(v, w) = 0 /\ TickOf(v, w) = 0
                    /\ visit[v][w].step \in {"expire", "counted"} => Seen(v, w) > 0

\* A number that the counter has not given since it began was given a window ago, and what
\* the counter gave before it began, a window before it ends.
Spaced(w) ==
  /\ \A u, v \in Visits : SameNumber(u, v, w) /\ Seen(u, w) > counter[w].count
                            => Earlier(u, v, w, clock)
  /\ counter[w].ends # 0 =>
       /\ \A u, v \in Visits : SameNumber(u, v, w) => Earlier(u, v, w, counter[w].ends)
       /\ \A u \in Visits : Seen(u, w) > counter[w].count => TickOf(u, w) + Length[w] <= counter[w].ends

\* Of three requests with one number two are a window apart.
ThirdIsLater(w) ==
  \A u, v, x \in Visits : SameNumber(u, v, w) /\ SameNumber(v, x, w) /\ u # x =>
    \E a, b \in {u, v, x} : TickOf(a, w) + Length[w] <= TickOf(b, w)

\* A verdict was reached with the numbers there are.
Judged ==
  \A v \in Visits : \A w \in Windows : verdict[v] \in {"admitted", "refused"} => visit[v][w].step = "counted"
VerdictIsNumbers ==
  \A v \in Visits : verdict[v] \in {"admitted", "refused"} => (verdict[v] = "admitted" <=> Within(v))

Lives(w) == Numbered(w) /\ Spaced(w) /\ ThirdIsLater(w)

LEMMA ThrottleRanges ==
  ASSUME ThrottleTypeOK, NEW w \in Windows
  PROVE  /\ \A v \in Visits : Seen(v, w) \in Nat /\ TickOf(v, w) \in Nat /\ TickOf(v, w) \in 0..LastTick
         /\ clock \in Nat /\ Length[w] \in Nat \ {0} /\ Limit[w] \in Nat
         /\ counter[w].count \in Nat /\ counter[w].ends \in Nat
<1>1. \A v \in Visits : visit[v][w] \in Command
  BY CommandUpdates
<1>2. \A v \in Visits : Seen(v, w) \in Nat /\ TickOf(v, w) \in 0..LastTick
  BY <1>1 DEF Seen, TickOf, Command
<1>3. clock \in Nat /\ Length[w] \in Nat \ {0} /\ Limit[w] \in Nat
  BY ClockType, ThrottleAssumption
<1>4. \A n \in 0..LastTick : n \in Nat
  OBVIOUS
<1>5. QED BY <1>2, <1>3, <1>4, CounterUpdates

\* The numbers of w stay: a request begins or is decided, a command fails before it is done,
\* the time to live is set, or another window is counted.
KeepsNumbers(w) ==
  /\ clock' = clock
  /\ counter'[w].count = counter[w].count
  /\ counter'[w].ends \in {counter[w].ends, clock + Length[w]}
  /\ \A v \in Visits :
       /\ Seen(v, w)' = Seen(v, w) /\ TickOf(v, w)' = TickOf(v, w)
       /\ visit'[v][w].step \in {"idle", "incr"} => visit[v][w].step \in {"idle", "incr"}
       /\ visit'[v][w].step \in {"expire", "counted"} => visit[v][w].step \in {"expire", "counted"}

LEMMA NumbersKept ==
  ASSUME ThrottleTypeOK, NEW w \in Windows, Lives(w), KeepsNumbers(w)
  PROVE  Lives(w)'
<1> DEFINE seen(v) == Seen(v, w)
           tick(v) == TickOf(v, w)
           length == Length[w]
           count == counter[w].count
           ends == counter[w].ends
           ends2 == counter'[w].ends
<1>1. /\ clock \in Nat /\ length \in Nat \ {0} /\ count \in Nat /\ ends \in Nat
      /\ \A v \in Visits : seen(v) \in Nat /\ tick(v) \in Nat
  BY ThrottleRanges
<1>2. \A v \in Visits : tick(v) <= clock
  BY DEF Lives, Numbered
<1>3. Numbered(w)'
  BY DEF Lives, Numbered, KeepsNumbers
<1>4. ThirdIsLater(w)'
  BY DEF Lives, ThirdIsLater, SameNumber, KeepsNumbers
<1>5. ASSUME NEW u \in Visits, NEW v \in Visits
      PROVE  /\ SameNumber(u, v, w)' <=> SameNumber(u, v, w)
             /\ Seen(u, w)' = seen(u) /\ TickOf(u, w)' = tick(u)
             /\ \A t : Earlier(u, v, w, t) <=> (tick(u) + length <= t \/ tick(v) + length <= t)
             /\ Earlier(u, v, w, clock)' <=> Earlier(u, v, w, clock)
             /\ Earlier(u, v, w, counter[w].ends)' <=> Earlier(u, v, w, ends2)
  BY DEF KeepsNumbers, SameNumber, Earlier
<1>6. counter'[w].count = count /\ ends2 \in {ends, clock + length}
  BY DEF KeepsNumbers
<1>7. CASE ends2 = ends
  <2>1. Spaced(w)'
    BY <1>5, <1>6, <1>7 DEF Lives, Spaced
  <2>2. QED BY <1>3, <1>4, <2>1 DEF Lives
<1>8. CASE ends2 = clock + length
  <2>1. \A u \in Visits : tick(u) + length <= ends2
    BY <1>1, <1>2, <1>8
  <2>2. Spaced(w)'
    BY <1>5, <1>6, <2>1 DEF Lives, Spaced
  <2>3. QED BY <1>3, <1>4, <2>2 DEF Lives
<1>9. QED BY <1>6, <1>7, <1>8

\* Request v is counted in w, and gets the number, or no answer.
Counts(v, w) ==
  /\ clock' = clock /\ visit[v][w].step = "incr"
  /\ counter'[w].count = counter[w].count + 1 /\ counter'[w].ends = counter[w].ends
  /\ \A u \in Visits \ {v} : visit'[u][w] = visit[u][w]
  /\ visit'[v][w].tick = clock
  /\ \/ visit'[v][w].step = "failed" /\ visit'[v][w].seen = 0
     \/ visit'[v][w].step \in {"expire", "counted"} /\ visit'[v][w].seen = counter'[w].count

LEMMA NumberGiven ==
  ASSUME ThrottleTypeOK, NEW w \in Windows, NEW x \in Visits, Lives(w), Counts(x, w)
  PROVE  Lives(w)'
<1> DEFINE length == Length[w]
           count == counter[w].count
           ends == counter[w].ends
<1>1. /\ clock \in Nat /\ length \in Nat \ {0} /\ count \in Nat /\ ends \in Nat
      /\ \A v \in Visits : Seen(v, w) \in Nat /\ TickOf(v, w) \in Nat /\ TickOf(v, w) <= clock
  BY ThrottleRanges DEF Lives, Numbered
<1>2. /\ \A v \in Visits \ {x} : Seen(v, w)' = Seen(v, w) /\ TickOf(v, w)' = TickOf(v, w)
      /\ Seen(x, w)' \in {0, count + 1} /\ TickOf(x, w)' = clock
      /\ Seen(x, w) = 0
  BY DEF Counts, Seen, TickOf, Lives, Numbered
<1>3. clock' = clock /\ counter'[w].count = count + 1 /\ counter'[w].ends = ends
  BY DEF Counts
<1>4. Numbered(w)'
  <2> SUFFICES ASSUME NEW v \in Visits
               PROVE  /\ TickOf(v, w)' <= clock
                      /\ visit'[v][w].step \in {"idle", "incr"} => Seen(v, w)' = 0 /\ TickOf(v, w)' = 0
                      /\ visit'[v][w].step \in {"expire", "counted"} => Seen(v, w)' > 0
    BY <1>3 DEF Numbered
  <2>1. CASE v = x
    BY <1>1, <1>2, <2>1 DEF Counts, Seen
  <2>2. CASE v # x
    BY <1>1, <1>2, <2>2 DEF Counts, Lives, Numbered
  <2>3. QED BY <2>1, <2>2
\* What shares its number with x was numbered before the counter began.
<1>5. ASSUME NEW u \in Visits \ {x}, Seen(u, w) = Seen(x, w)', Seen(u, w) > 0
      PROVE  Seen(u, w) > count /\ (ends # 0 => TickOf(u, w) + length <= ends)
  BY <1>1, <1>2, <1>5 DEF Lives, Spaced
<1>6. ASSUME NEW u \in Visits \ {x}, NEW v \in Visits \ {x}
      PROVE  /\ SameNumber(u, v, w)' <=> SameNumber(u, v, w)
             /\ \A t : Earlier(u, v, w, t) <=> (TickOf(u, w) + length <= t \/ TickOf(v, w) + length <= t)
             /\ Earlier(u, v, w, clock)' <=> Earlier(u, v, w, clock)
             /\ Earlier(u, v, w, counter[w].ends)' <=> Earlier(u, v, w, ends)
  BY <1>2, <1>3 DEF SameNumber, Earlier
<1>7. Spaced(w)'
  <2>1. ASSUME NEW u \in Visits, NEW v \in Visits, SameNumber(u, v, w)', Seen(u, w)' > count + 1
        PROVE  Earlier(u, v, w, clock)'
    <3>1. u # x /\ v # x
      BY <1>1, <1>2, <2>1 DEF SameNumber
    <3>2. SameNumber(u, v, w) /\ Seen(u, w) > count
      BY <1>1, <1>2, <1>6, <2>1, <3>1
    <3>3. QED BY <1>6, <3>1, <3>2 DEF Lives, Spaced
  <2>2. ASSUME NEW u \in Visits, NEW v \in Visits, SameNumber(u, v, w)', ends # 0
        PROVE  Earlier(u, v, w, counter[w].ends)'
    <3>1. CASE u # x /\ v # x
      BY <1>6, <2>2, <3>1 DEF Lives, Spaced
    <3>2. CASE u = x
      <4>1. v # x /\ Seen(v, w) = Seen(x, w)' /\ Seen(v, w) > 0
        BY <1>2, <2>2, <3>2 DEF SameNumber
      <4>2. TickOf(v, w)' + length <= ends
        BY <1>2, <1>5, <2>2, <4>1
      <4>3. QED BY <1>3, <4>2 DEF Earlier
    <3>3. CASE v = x
      <4>1. u # x /\ Seen(u, w) = Seen(x, w)' /\ Seen(u, w) > 0
        BY <1>2, <2>2, <3>3 DEF SameNumber
      <4>2. TickOf(u, w)' + length <= ends
        BY <1>2, <1>5, <2>2, <4>1
      <4>3. QED BY <1>3, <4>2 DEF Earlier
    <3>4. QED BY <3>1, <3>2, <3>3
  <2>3. ASSUME NEW u \in Visits, ends # 0, Seen(u, w)' > count + 1
        PROVE  TickOf(u, w)' + length <= ends
    <3>1. u # x /\ Seen(u, w) > count
      BY <1>1, <1>2, <2>3
    <3>2. QED BY <1>2, <2>3, <3>1 DEF Lives, Spaced
  <2>4. QED BY <1>3, <2>1, <2>2, <2>3 DEF Spaced
<1>8. ThirdIsLater(w)'
  <2> SUFFICES ASSUME NEW u \in Visits, NEW v \in Visits, NEW y \in Visits,
                      SameNumber(u, v, w)', SameNumber(v, y, w)', u # y
               PROVE  \E a, b \in {u, v, y} : TickOf(a, w)' + length <= TickOf(b, w)'
    BY DEF ThirdIsLater
  <2>1. CASE u # x /\ v # x /\ y # x
    <3>1. SameNumber(u, v, w) /\ SameNumber(v, y, w)
      BY <1>6, <2>1
    <3>2. PICK a, b \in {u, v, y} : TickOf(a, w) + length <= TickOf(b, w)
      BY <3>1 DEF Lives, ThirdIsLater
    <3>3. TickOf(a, w)' = TickOf(a, w) /\ TickOf(b, w)' = TickOf(b, w)
      BY <1>2, <2>1
    <3>4. QED BY <3>2, <3>3
  \* Two others have the number of x: one of them is a window before now.
  <2>2. ASSUME NEW a \in Visits \ {x}, NEW b \in Visits \ {x}, a # b, Seen(a, w) = Seen(b, w),
               Seen(a, w) = Seen(x, w)', Seen(a, w) > 0
        PROVE  TickOf(a, w)' + length <= TickOf(x, w)' \/ TickOf(b, w)' + length <= TickOf(x, w)'
    <3>1. SameNumber(a, b, w) /\ Seen(a, w) > count
      BY <1>5, <2>2 DEF SameNumber
    <3>2. Earlier(a, b, w, clock)
      BY <3>1 DEF Lives, Spaced
    <3>3. QED BY <1>2, <3>2 DEF Earlier
  <2>3. Seen(u, w)' = Seen(v, w)' /\ Seen(v, w)' = Seen(y, w)' /\ Seen(u, w)' > 0 /\ u # v /\ v # y
    BY DEF SameNumber
  <2>4. CASE u = x
    BY <1>2, <2>2, <2>3, <2>4
  <2>5. CASE v = x
    BY <1>2, <2>2, <2>3, <2>5
  <2>6. CASE y = x
    BY <1>2, <2>2, <2>3, <2>6
  <2>7. QED BY <2>1, <2>4, <2>5, <2>6
<1>9. QED BY <1>4, <1>7, <1>8 DEF Lives

LEMMA KeyDropped ==
  ASSUME ThrottleTypeOK, NEW w \in Windows, Lives(w), Tick
  PROVE  Lives(w)'
<1> DEFINE length == Length[w]
           count == counter[w].count
           ends == counter[w].ends
<1>1. /\ clock \in Nat /\ length \in Nat \ {0} /\ count \in Nat /\ ends \in Nat
      /\ \A v \in Visits : Seen(v, w) \in Nat /\ TickOf(v, w) \in Nat
  BY ThrottleRanges
<1>2. /\ clock' = clock + 1 /\ visit' = visit
      /\ counter'[w] = IF ends = clock' THEN NoCounter ELSE counter[w]
  BY DEF Tick
<1>3. ASSUME NEW u \in Visits, NEW v \in Visits
      PROVE  /\ SameNumber(u, v, w)' <=> SameNumber(u, v, w)
             /\ Seen(u, w)' = Seen(u, w) /\ TickOf(u, w)' = TickOf(u, w)
             /\ Earlier(u, v, w, clock) => Earlier(u, v, w, clock)'
             /\ Earlier(u, v, w, ends) /\ ends = clock' => Earlier(u, v, w, clock)'
             /\ counter'[w] = counter[w] => (Earlier(u, v, w, counter[w].ends)' <=> Earlier(u, v, w, ends))
  BY <1>1, <1>2 DEF SameNumber, Earlier, Seen, TickOf
<1>4. Numbered(w)'
  <2>1. \A v \in Visits : TickOf(v, w) <= clock => TickOf(v, w) <= clock'
    BY <1>1, <1>2
  <2>2. QED BY <1>2, <1>3, <2>1 DEF Lives, Numbered
<1>5. ThirdIsLater(w)'
  BY <1>3 DEF Lives, ThirdIsLater
<1>6. Spaced(w)'
  <2>1. CASE ends = clock'
    <3>1. ends # 0 /\ counter'[w].ends = 0
      BY <1>1, <1>2, <2>1 DEF NoCounter
    <3>2. QED BY <1>3, <2>1, <3>1 DEF Lives, Spaced
  <2>2. CASE ends # clock'
    BY <1>2, <1>3, <2>2 DEF Lives, Spaced
  <2>3. QED BY <2>1, <2>2
<1>7. QED BY <1>4, <1>5, <1>6 DEF Lives

------------------------------------------------------------------------------
(* Throttle: a client is refused only when it was busy.  A counter that    *)
(* was given its time to live in the tick it was made counts what came     *)
(* within one window.                                                      *)

\* The first tick of the counter of w, if it did not lapse.
Began(w) == IF counter[w].ends = 0 THEN clock ELSE counter[w].ends - Length[w]
CountedSince(w, first) == {v \in Visits : TickOf(v, w) >= first}

\* The one request that made a counter sets its time to live.
OneSetsLife(w) ==
  /\ counter[w].count = 0 => counter[w].ends = 0
  /\ counter[w].ends # 0 => /\ clock < counter[w].ends /\ counter[w].ends <= clock + Length[w]
                            /\ counter[w].ends - Length[w] >= 1
  /\ \A v \in Visits : visit[v][w].step = "expire" => counter[w].count > 0 /\ counter[w].ends = 0
  /\ \A u, v \in Visits : visit[u][w].step = "expire" /\ visit[v][w].step = "expire" => u = v

\* Every number it gives counts a request of the window that ends.
CountsVisits(w) ==
  w \notin lapsed =>
    /\ counter[w].count <= Cardinality(CountedSince(w, Began(w)))
    /\ \A v \in Visits : Seen(v, w) > 0 => Seen(v, w) <= Cardinality(CountedUpTo(w, TickOf(v, w)))

BusyKey(w) == OneSetsLife(w) /\ CountsVisits(w)

LEMMA CountedSets ==
  ASSUME ThrottleTypeOK, NEW w \in Windows, NEW t
  PROVE  /\ IsFiniteSet(CountedSince(w, t)) /\ Cardinality(CountedSince(w, t)) \in Nat
         /\ IsFiniteSet(CountedUpTo(w, t)) /\ Cardinality(CountedUpTo(w, t)) \in Nat
<1>1. CountedSince(w, t) \in SUBSET Visits /\ CountedUpTo(w, t) \in SUBSET Visits
  BY DEF CountedSince, CountedUpTo, CountedFrom
<1>2. QED BY <1>1, ThrottleAssumption, FS_Subset, FS_CardinalityType

\* Nothing is counted in w, and no command of it is now to set the time to live.
KeepsKey(w) ==
  /\ clock' = clock /\ counter'[w] = counter[w] /\ lapsed' = lapsed
  /\ \A v \in Visits : /\ visit'[v][w].seen = visit[v][w].seen /\ visit'[v][w].tick = visit[v][w].tick
                       /\ visit'[v][w].step = "expire" => visit[v][w].step = "expire"

LEMMA SameCounted ==
  ASSUME NEW w \in Windows, \A v \in Visits : visit'[v][w].tick = visit[v][w].tick
  PROVE  \A t : CountedSince(w, t)' = CountedSince(w, t) /\ CountedUpTo(w, t)' = CountedUpTo(w, t)
BY DEF CountedSince, CountedUpTo, CountedFrom, TickOf

LEMMA KeyKept ==
  ASSUME NEW w \in Windows, BusyKey(w), KeepsKey(w)
  PROVE  BusyKey(w)'
<1>1. OneSetsLife(w)'
  BY DEF BusyKey, OneSetsLife, KeepsKey
<1>2. Began(w)' = Began(w)
  BY DEF Began, KeepsKey
<1>3. ASSUME NEW t PROVE /\ CountedSince(w, t)' = CountedSince(w, t)
                         /\ CountedUpTo(w, t)' = CountedUpTo(w, t)
  BY SameCounted DEF KeepsKey
<1>4. CountsVisits(w)'
  BY <1>2, <1>3 DEF BusyKey, CountsVisits, KeepsKey, Seen, TickOf
<1>5. QED BY <1>1, <1>4 DEF BusyKey

LEMMA KeyCounts ==
  ASSUME ThrottleTypeOK, NEW w \in Windows, NEW x \in Visits, Lives(w), BusyKey(w), Counts(x, w),
         lapsed' = lapsed, visit'[x][w].step = "expire" => counter[w].count = 0
  PROVE  BusyKey(w)'
<1> DEFINE length == Length[w]
           count == counter[w].count
           ends == counter[w].ends
           b == Began(w)
<1>1. /\ clock \in Nat /\ length \in Nat \ {0} /\ count \in Nat /\ ends \in Nat
      /\ \A v \in Visits : Seen(v, w) \in Nat /\ TickOf(v, w) \in Nat /\ TickOf(v, w) <= clock
      /\ clock >= 1
  <2>1. clock \in 1..LastTick /\ LastTick \in Nat
    BY ClockType DEF ThrottleTypeOK
  <2>2. QED BY <2>1, ThrottleRanges DEF Lives, Numbered
<1>2. /\ \A v \in Visits \ {x} : visit'[v][w] = visit[v][w] /\ Seen(v, w)' = Seen(v, w) /\ TickOf(v, w)' = TickOf(v, w)
      /\ Seen(x, w)' \in {0, count + 1} /\ TickOf(x, w)' = clock /\ TickOf(x, w) = 0
  BY DEF Counts, Seen, TickOf, Lives, Numbered
<1>3. clock' = clock /\ counter'[w].count = count + 1 /\ counter'[w].ends = ends
  BY DEF Counts
<1>4. OneSetsLife(w)'
  <2>1. ASSUME NEW v \in Visits, visit'[v][w].step = "expire"
        PROVE  ends = 0 /\ (v = x \/ visit[v][w].step = "expire") /\ (v = x => count = 0)
    BY <1>2, <2>1 DEF BusyKey, OneSetsLife
  <2>2. ASSUME NEW u \in Visits, NEW v \in Visits, visit'[u][w].step = "expire", visit'[v][w].step = "expire"
        PROVE  u = v
    <3>1. CASE count = 0
      <4>1. \A y \in Visits : visit[y][w].step # "expire"
        BY <1>1, <3>1 DEF BusyKey, OneSetsLife
      <4>2. QED BY <2>1, <2>2, <4>1
    <3>2. CASE count # 0
      <4>1. visit[u][w].step = "expire" /\ visit[v][w].step = "expire"
        BY <2>1, <2>2, <3>2
      <4>2. QED BY <4>1 DEF BusyKey, OneSetsLife
    <3>3. QED BY <3>1, <3>2
  <2>3. count + 1 > 0
    BY <1>1
  <2>4. ends # 0 => clock < ends /\ ends <= clock + length /\ ends - length >= 1
    BY DEF BusyKey, OneSetsLife
  <2>5. QED BY <1>3, <2>1, <2>2, <2>3, <2>4 DEF OneSetsLife
<1>5. CountsVisits(w)'
  <2> SUFFICES ASSUME w \notin lapsed
               PROVE  /\ counter'[w].count <= Cardinality(CountedSince(w, Began(w)))'
                      /\ \A v \in Visits : Seen(v, w)' > 0 =>
                           Seen(v, w)' <= Cardinality(CountedUpTo(w, TickOf(v, w))')
    BY DEF CountsVisits
  <2>1. Began(w)' = b /\ b \in Int /\ 1 <= b /\ b <= clock /\ clock - length + 1 <= b
    <3>1. Began(w)' = b
      BY <1>3 DEF Began
    <3>2. ends # 0 => clock < ends /\ ends <= clock + length /\ ends - length >= 1
      BY DEF BusyKey, OneSetsLife
    <3>3. b = IF ends = 0 THEN clock ELSE ends - length
      BY DEF Began
    <3> HIDE DEF b
    <3>4. QED BY <1>1, <3>1, <3>2, <3>3
  <2> DEFINE before == CountedSince(w, b)
             since == CountedSince(w, Began(w))'
             upTo == CountedUpTo(w, clock)'
  <2>2. since = before \cup {x} /\ x \notin before
    BY <1>1, <1>2, <2>1 DEF CountedSince
  <2>3. IsFiniteSet(before) /\ Cardinality(before) \in Nat
    BY CountedSets
  <2>4. count <= Cardinality(before)
    BY DEF BusyKey, CountsVisits
  <2>5. Cardinality(since) = Cardinality(before) + 1
    BY <2>2, <2>3, FS_AddElement
  <2>6. since \subseteq upTo
    <3> SUFFICES ASSUME NEW v \in Visits, TickOf(v, w)' >= b PROVE v \in upTo
      BY <2>1 DEF CountedSince
    <3>1. TickOf(v, w)' \in Nat /\ TickOf(v, w)' <= clock
      BY <1>1, <1>2
    <3>2. TickOf(v, w)' \in (clock - length + 1)..(clock - length + 1 + length - 1) /\ TickOf(v, w)' # 0
      BY <1>1, <2>1, <3>1
    <3>3. QED BY <1>3, <3>2 DEF CountedUpTo, CountedFrom, TickOf
  <2>7. IsFiniteSet(upTo) /\ Cardinality(since) <= Cardinality(upTo)
    <3>1. upTo \in SUBSET Visits
      BY DEF CountedUpTo, CountedFrom
    <3>2. QED BY <2>6, <3>1, ThrottleAssumption, FS_Subset
  <2>8. ASSUME NEW v \in Visits, Seen(v, w)' > 0
        PROVE  Seen(v, w)' <= Cardinality(CountedUpTo(w, TickOf(v, w))')
    <3>1. CASE v = x
      <4>1. Seen(v, w)' = count + 1 /\ CountedUpTo(w, TickOf(v, w))' = upTo
        BY <1>2, <1>3, <2>8, <3>1 DEF CountedUpTo, CountedFrom
      <4>2. Cardinality(upTo) \in Nat
        BY <2>7, FS_CardinalityType
      <4> HIDE DEF upTo, since, before
      <4>3. QED BY <1>1, <2>3, <2>4, <2>5, <2>7, <4>1, <4>2
    <3>2. CASE v # x
      <4> DEFINE t == TickOf(v, w)
                 old == CountedUpTo(w, t)
                 new == CountedUpTo(w, TickOf(v, w))'
      <4>1. Seen(v, w)' = Seen(v, w) /\ TickOf(v, w)' = t
        BY <1>2, <3>2
      <4>2. Seen(v, w) <= Cardinality(old)
        BY <2>8, <4>1 DEF BusyKey, CountsVisits
      <4>3. old \subseteq new
        BY <1>2, <4>1 DEF CountedUpTo, CountedFrom, TickOf
      <4>4. IsFiniteSet(new) /\ Cardinality(old) <= Cardinality(new)
        <5>1. new \in SUBSET Visits
          BY DEF CountedUpTo, CountedFrom
        <5>2. QED BY <4>3, <5>1, ThrottleAssumption, FS_Subset
      <4>5. Cardinality(old) \in Nat /\ Cardinality(new) \in Nat
        BY <4>4, CountedSets, FS_CardinalityType
      <4> HIDE DEF old, new
      <4>6. QED BY <1>1, <4>1, <4>2, <4>4, <4>5 DEF new
    <3>3. QED BY <3>1, <3>2
  <2>9. count + 1 <= Cardinality(since)
    BY <1>1, <2>3, <2>4, <2>5
  <2>10. QED BY <1>3, <2>8, <2>9
<1>6. QED BY <1>4, <1>5 DEF BusyKey

LEMMA KeySetsLife ==
  ASSUME ThrottleTypeOK, NEW w \in Windows, NEW x \in Visits, BusyKey(w),
         clock' = clock, lapsed' = lapsed, visit[x][w].step = "expire",
         counter'[w].count = counter[w].count, counter'[w].ends = clock + Length[w],
         visit'[x][w].step # "expire",
         \A v \in Visits : visit'[v][w].seen = visit[v][w].seen /\ visit'[v][w].tick = visit[v][w].tick,
         \A v \in Visits \ {x} : visit'[v][w].step = visit[v][w].step
  PROVE  BusyKey(w)'
<1>1. clock \in Nat /\ Length[w] \in Nat \ {0} /\ counter[w].count \in Nat /\ clock >= 1
  <2>1. clock \in 1..LastTick /\ LastTick \in Nat
    BY ClockType DEF ThrottleTypeOK
  <2>2. QED BY <2>1, ThrottleRanges
<1>2. counter[w].ends = 0 /\ counter[w].count > 0 /\ \A v \in Visits : visit'[v][w].step # "expire"
  BY DEF BusyKey, OneSetsLife
<1>3. OneSetsLife(w)'
  BY <1>1, <1>2 DEF OneSetsLife
<1>4. Began(w)' = Began(w)
  BY <1>1, <1>2 DEF Began
<1>5. ASSUME NEW t PROVE /\ CountedSince(w, t)' = CountedSince(w, t)
                         /\ CountedUpTo(w, t)' = CountedUpTo(w, t)
  BY SameCounted
<1>6. CountsVisits(w)'
  BY <1>4, <1>5 DEF BusyKey, CountsVisits, Seen, TickOf
<1>7. QED BY <1>3, <1>6 DEF BusyKey

LEMMA KeyTicks ==
  ASSUME ThrottleTypeOK, NEW w \in Windows, BusyKey(w), Tick
  PROVE  BusyKey(w)'
<1> DEFINE count == counter[w].count
           ends == counter[w].ends
<1>1. clock \in Nat /\ Length[w] \in Nat \ {0} /\ count \in Nat /\ ends \in Nat
  BY ThrottleRanges
<1>2. /\ clock' = clock + 1 /\ visit' = visit
      /\ counter'[w] = IF ends = clock' THEN NoCounter ELSE counter[w]
      /\ lapsed \subseteq lapsed' /\ (w \notin lapsed' => count = 0 \/ ends # 0)
  BY <1>1 DEF Tick
<1>3. OneSetsLife(w)'
  <2>1. CASE ends = clock'
    <3>1. \A v \in Visits : visit'[v][w].step # "expire"
      BY <1>1, <1>2, <2>1 DEF BusyKey, OneSetsLife
    <3>2. QED BY <1>2, <2>1, <3>1 DEF OneSetsLife, NoCounter
  <2>2. CASE ends # clock'
    <3>1. counter'[w] = counter[w]
      BY <1>2, <2>2
    <3>2. ends # 0 => clock' < ends /\ ends <= clock' + Length[w] /\ ends - Length[w] >= 1
      BY <1>1, <1>2, <2>2 DEF BusyKey, OneSetsLife
    <3>3. QED BY <1>2, <3>1, <3>2 DEF BusyKey, OneSetsLife
  <2>3. QED BY <2>1, <2>2
<1>4. ASSUME NEW t PROVE /\ CountedSince(w, t)' = CountedSince(w, t)
                         /\ CountedUpTo(w, t)' = CountedUpTo(w, t)
  BY <1>2, SameCounted
<1>5. CountsVisits(w)'
  <2> SUFFICES ASSUME w \notin lapsed'
               PROVE  /\ counter'[w].count <= Cardinality(CountedSince(w, Began(w)))'
                      /\ \A v \in Visits : Seen(v, w)' > 0 =>
                           Seen(v, w)' <= Cardinality(CountedUpTo(w, TickOf(v, w))')
    BY DEF CountsVisits
  <2>1. \A v \in Visits : Seen(v, w)' > 0 => Seen(v, w)' <= Cardinality(CountedUpTo(w, TickOf(v, w))')
    BY <1>2, <1>4 DEF BusyKey, CountsVisits, Seen, TickOf
  <2>2. counter'[w].count <= Cardinality(CountedSince(w, Began(w)))'
    <3>1. CASE ends # 0 /\ ends # clock'
      BY <1>2, <1>4, <3>1 DEF BusyKey, CountsVisits, Began
    <3>2. CASE counter'[w].count = 0
      <4>1. IsFiniteSet(CountedSince(w, Began(w))')
        <5>1. CountedSince(w, Began(w))' \in SUBSET Visits
          BY DEF CountedSince
        <5>2. QED BY <5>1, ThrottleAssumption, FS_Subset
      <4>2. Cardinality(CountedSince(w, Began(w))') \in Nat
        BY <4>1, FS_CardinalityType
      <4>3. QED BY <3>2, <4>2
    <3>3. QED BY <1>2, <3>1, <3>2 DEF NoCounter
  <2>3. QED BY <2>1, <2>2
<1>6. QED BY <1>3, <1>5 DEF BusyKey

------------------------------------------------------------------------------
(* Throttle: the steps.                                                    *)

\* Request x sets the time to live of w.
SetsLife(x, w) ==
  /\ clock' = clock /\ lapsed' = lapsed /\ visit[x][w].step = "expire"
  /\ counter'[w].count = counter[w].count /\ counter'[w].ends = clock + Length[w]
  /\ visit'[x][w].step \in {"counted", "failed"}
  /\ \A v \in Visits : visit'[v][w].seen = visit[v][w].seen /\ visit'[v][w].tick = visit[v][w].tick
  /\ \A v \in Visits \ {x} : visit'[v][w].step = visit[v][w].step
IsCounted(x, w) ==
  Counts(x, w) /\ lapsed' = lapsed /\ (visit'[x][w].step = "expire" => counter[w].count = 0)

\* What the end of command v of window w leaves of it: its step s alone is written.
LEMMA CommandEnds ==
  ASSUME ThrottleTypeOK, NEW v \in Visits, NEW w \in Windows, NEW s \in {"counted", "failed"},
         CommandSteps(v, w, s), visit[v][w].step \in {"incr", "expire"},
         s = "counted" => visit[v][w].step = "expire",
         clock' = clock, lapsed' = lapsed, counter' = counter \/ (SetLife(w) /\ visit[v][w].step = "expire")
  PROVE  KeepsNumbers(w) /\ (KeepsKey(w) \/ SetsLife(v, w))
<1>1. /\ visit'[v][w].step = s /\ OthersKept(v, w)
      /\ visit'[v][w].seen = visit[v][w].seen /\ visit'[v][w].tick = visit[v][w].tick
  BY StepWritten
<1>2. \A u \in Visits \ {v} : visit'[u][w] = visit[u][w]
  BY <1>1 DEF OthersKept
<1>3. counter[w] \in Keys
  BY DEF ThrottleTypeOK, Keys
<1>4. \/ counter'[w] = counter[w]
      \/ /\ counter'[w].count = counter[w].count /\ counter'[w].ends = clock + Length[w]
         /\ visit[v][w].step = "expire"
  <2>1. CASE counter' = counter
    BY <2>1
  <2>2. CASE SetLife(w) /\ visit[v][w].step = "expire"
    <3>1. counter'[w] = [counter[w] EXCEPT !.ends = clock + Length[w]]
      BY <2>2 DEF SetLife, ThrottleTypeOK
    <3>2. QED BY <1>3, <2>2, <3>1 DEF Keys
  <2>3. QED BY <2>1, <2>2
<1>5. \A u \in Visits : visit'[u][w].seen = visit[u][w].seen /\ visit'[u][w].tick = visit[u][w].tick
  BY <1>1, <1>2
<1>6. ASSUME NEW u \in Visits
      PROVE  /\ visit'[u][w].step \in {"idle", "incr"} => visit[u][w].step \in {"idle", "incr"}
             /\ visit'[u][w].step \in {"expire", "counted"} => visit[u][w].step \in {"expire", "counted"}
             /\ visit'[u][w].step = "expire" => visit[u][w].step = "expire"
  <2>1. CASE u = v
    BY <1>1, <2>1
  <2>2. CASE u # v
    BY <1>2, <2>2
  <2>3. QED BY <2>1, <2>2
<1>7. KeepsNumbers(w)
  BY <1>4, <1>5, <1>6 DEF KeepsNumbers, Seen, TickOf
<1>8. CASE counter'[w] = counter[w]
  BY <1>5, <1>6, <1>7, <1>8 DEF KeepsKey
<1>9. CASE /\ counter'[w].count = counter[w].count /\ counter'[w].ends = clock + Length[w]
           /\ visit[v][w].step = "expire"
  BY <1>1, <1>2, <1>5, <1>7, <1>9 DEF SetsLife
<1>10. QED BY <1>4, <1>8, <1>9

\* What a step of the gateway is for a window.
LEMMA WindowSteps ==
  ASSUME ThrottleTypeOK, [ThrottleNext]_throttleVars, NEW w \in Windows
  PROVE  \/ Tick
         \/ \E x \in Visits : IsCounted(x, w)
         \/ KeepsNumbers(w) /\ (KeepsKey(w) \/ \E x \in Visits : SetsLife(x, w))
<1> DEFINE Unmoved == KeepsNumbers(w) /\ KeepsKey(w)
<1>1. ASSUME NEW v \in Visits, Use(v) PROVE Unmoved
  <2>1. \A u \in Visits : u # v => visit'[u][w] = visit[u][w]
    BY <1>1 DEF Use, ThrottleTypeOK
  <2>2. visit[v][w] = NoCommand /\ visit'[v][w] = [NoCommand EXCEPT !.step = "incr"]
    BY <1>1 DEF Use, ThrottleTypeOK, Started
  <2>3. QED BY <1>1, <2>1, <2>2 DEF Use, KeepsNumbers, KeepsKey, Seen, TickOf, NoCommand
<1>2. ASSUME UNCHANGED <<clock, counter, visit, lapsed>> PROVE Unmoved
  BY <1>2 DEF KeepsNumbers, KeepsKey, Seen, TickOf
<1>3. ASSUME NEW v \in Visits, NEW z \in Windows, z # w, Incr(v, z) \/ Expire(v, z) \/ CommandFails(v, z)
      PROVE  Unmoved
  <2>1. \A u \in Visits : visit'[u][w] = visit[u][w]
    <3>1. (\E x : CommandIs(v, z, x)) \/ (\E s : CommandSteps(v, z, s))
      BY <1>3 DEF Incr, Expire, CommandFails, CommandIs, CommandSteps
    <3>2. OthersKept(v, z)
      BY <3>1, CommandWritten, StepWritten
    <3>3. QED BY <1>3, <3>2 DEF OthersKept
  <2>2. counter'[w] = counter[w] /\ clock' = clock /\ lapsed' = lapsed
    BY <1>3 DEF Incr, Expire, CommandFails, Increment, SetLife, ThrottleTypeOK
  <2>3. QED BY <2>1, <2>2 DEF KeepsNumbers, KeepsKey, Seen, TickOf
<1>4. ASSUME NEW v \in Visits, NEW x, CommandIs(v, w, x), visit[v][w].step = "incr", Increment(w),
             clock' = clock, lapsed' = lapsed,
             \/ x = [step |-> "failed", seen |-> 0, tick |-> clock]
             \/ x = [step |-> IF counter'[w].count = 1 THEN "expire" ELSE "counted",
                     seen |-> counter'[w].count, tick |-> clock]
      PROVE  IsCounted(v, w)
  <2>1. counter'[w] = [counter[w] EXCEPT !.count = @ + 1] /\ counter[w] \in Keys
    BY <1>4 DEF Increment, ThrottleTypeOK, Keys
  <2>2. /\ counter'[w].count = counter[w].count + 1 /\ counter'[w].ends = counter[w].ends
        /\ counter[w].count \in Nat
    BY <2>1 DEF Keys
  <2>3. visit'[v][w] = x /\ OthersKept(v, w)
    BY <1>4, CommandWritten
  <2>4. \A u \in Visits \ {v} : visit'[u][w] = visit[u][w]
    BY <2>3 DEF OthersKept
  <2>5. CASE x = [step |-> "failed", seen |-> 0, tick |-> clock]
    BY <1>4, <2>2, <2>3, <2>4, <2>5 DEF IsCounted, Counts
  <2>6. CASE x = [step |-> IF counter'[w].count = 1 THEN "expire" ELSE "counted",
                  seen |-> counter'[w].count, tick |-> clock]
    BY <1>4, <2>2, <2>3, <2>4, <2>6 DEF IsCounted, Counts
  <2>7. QED BY <1>4, <2>5, <2>6
<1>5. ASSUME NEW v \in Visits, Incr(v, w) PROVE IsCounted(v, w)
  BY <1>4, <1>5 DEF Incr, CommandIs
<1>6. ASSUME NEW v \in Visits, Expire(v, w) PROVE KeepsNumbers(w) /\ (KeepsKey(w) \/ SetsLife(v, w))
  <2>1. CommandSteps(v, w, "counted")
    BY <1>6 DEF Expire, CommandSteps
  <2>2. QED BY <1>6, <2>1, CommandEnds DEF Expire
<1>7. ASSUME NEW v \in Visits, CommandFails(v, w)
      PROVE  IsCounted(v, w) \/ (KeepsNumbers(w) /\ (KeepsKey(w) \/ SetsLife(v, w)))
  <2>1. clock' = clock /\ lapsed' = lapsed
    BY <1>7 DEF CommandFails
  <2>2. CASE visit[v][w].step = "incr" /\ Increment(w)
             /\ visit' = [visit EXCEPT ![v][w] = [step |-> "failed", seen |-> 0, tick |-> clock]]
    BY <1>4, <2>1, <2>2 DEF CommandIs
  <2>3. CASE /\ visit[v][w].step \in {"incr", "expire"}
             /\ visit' = [visit EXCEPT ![v][w].step = "failed"]
             /\ counter' = counter \/ (SetLife(w) /\ visit[v][w].step = "expire")
    <3>1. CommandSteps(v, w, "failed")
      BY <2>3 DEF CommandSteps
    <3>2. QED BY <2>1, <2>3, <3>1, CommandEnds
  <2>4. QED BY <1>7, <2>2, <2>3 DEF CommandFails
<1>8. ASSUME NEW v \in Visits, Decide(v) \/ FailOpen(v) PROVE Unmoved
  BY <1>2, <1>8 DEF Decide, FailOpen
<1>9. CASE UNCHANGED throttleVars
  BY <1>2, <1>9 DEF throttleVars
<1>10. QED
  BY <1>1, <1>3, <1>5, <1>6, <1>7, <1>8, <1>9 DEF ThrottleNext

ThrottleInv == /\ ThrottleTypeOK /\ Judged /\ VerdictIsNumbers
               /\ \A w \in Windows : Lives(w) /\ BusyKey(w)

LEMMA NextWindows ==
  ASSUME ThrottleTypeOK, [ThrottleNext]_throttleVars, NEW w \in Windows, Lives(w), BusyKey(w)
  PROVE  Lives(w)' /\ BusyKey(w)'
<1>1. CASE Tick
  BY <1>1, KeyDropped, KeyTicks
<1>2. ASSUME NEW x \in Visits, IsCounted(x, w) PROVE Lives(w)' /\ BusyKey(w)'
  BY <1>2, NumberGiven, KeyCounts DEF IsCounted
<1>3. CASE KeepsNumbers(w) /\ KeepsKey(w)
  BY <1>3, NumbersKept, KeyKept
<1>4. ASSUME NEW x \in Visits, KeepsNumbers(w), SetsLife(x, w) PROVE Lives(w)' /\ BusyKey(w)'
  BY <1>4, NumbersKept, KeySetsLife DEF SetsLife
<1>5. QED BY <1>1, <1>2, <1>3, <1>4, WindowSteps

LEMMA NextJudged ==
  ASSUME ThrottleTypeOK, Judged, VerdictIsNumbers, [ThrottleNext]_throttleVars
  PROVE  Judged' /\ VerdictIsNumbers'
<1> DEFINE judged(v) == verdict[v] \in {"admitted", "refused"}
<1>1. ASSUME NEW v \in Visits, judged(v) PROVE visit'[v] = visit[v]
  <2>0. \A w \in Windows : visit[v][w].step = "counted"
    BY <1>1 DEF Judged
  <2>q. visit \in [Visits -> [Windows -> Command]] /\ visit[v] \in [Windows -> Command]
    BY DEF ThrottleTypeOK, Command
  <2>1. ASSUME NEW u \in Visits, Use(u) PROVE visit'[v] = visit[v]
    <3>1. CASE Windows = {}
      BY <2>1, <2>q, <3>1 DEF Use, Started
    <3>2. CASE Windows # {}
      <4>1. v \in Started
        <5>1. PICK w \in Windows : TRUE
          BY <3>2
        <5>2. NoCommand.step # "counted"
          BY DEF NoCommand
        <5>3. QED BY <2>0, <5>1, <5>2 DEF Started
      <4>2. u # v
        BY <2>1, <4>1 DEF Use
      <4>3. QED BY <2>1, <2>q, <4>2 DEF Use
    <3>3. QED BY <3>1, <3>2
  <2>2. ASSUME NEW u \in Visits, NEW w \in Windows, Incr(u, w) \/ Expire(u, w) \/ CommandFails(u, w)
        PROVE  visit'[v] = visit[v]
    <3>1. visit[u][w].step \in {"incr", "expire"}
      BY <2>2 DEF Incr, Expire, CommandFails
    <3>2. u # v
      BY <2>0, <3>1
    <3>3. QED BY <2>2, <2>q, <3>2 DEF Incr, Expire, CommandFails
  <2>3. QED BY <2>1, <2>2 DEF ThrottleNext, throttleVars, Tick, Decide, FailOpen
<1>2. ASSUME NEW v \in Visits, judged(v)', ~judged(v)
      PROVE  /\ Decide(v)
  <2>0. verdict \in [Visits -> {"none", "admitted", "refused", "failed open"}]
    BY DEF ThrottleTypeOK
  <2>1. QED
    BY <1>2, <2>0 DEF ThrottleNext, throttleVars, Tick, Use, Incr, Expire, CommandFails, Decide, FailOpen
<1>3. ASSUME NEW v \in Visits, judged(v) PROVE verdict'[v] = verdict[v]
  <2>0. verdict \in [Visits -> {"none", "admitted", "refused", "failed open"}] /\ verdict[v] # "none"
    BY <1>3 DEF ThrottleTypeOK
  <2>1. QED
    BY <2>0 DEF ThrottleNext, throttleVars, Tick, Use, Incr, Expire, CommandFails, Decide, FailOpen
<1>4. ASSUME NEW v \in Visits, Decide(v)
      PROVE  /\ \A w \in Windows : visit'[v][w].step = "counted"
             /\ verdict'[v] = IF Within(v)' THEN "admitted" ELSE "refused"
  <2>1. Within(v)' <=> Within(v)
    BY <1>4 DEF Decide, Within
  <2>2. QED BY <1>4, <2>1 DEF Decide, ThrottleTypeOK
<1>5. Judged'
  <2> SUFFICES ASSUME NEW v \in Visits, NEW w \in Windows, judged(v)'
               PROVE  visit'[v][w].step = "counted"
    BY DEF Judged
  <2>1. CASE judged(v)
    BY <1>1, <2>1 DEF Judged
  <2>2. CASE ~judged(v)
    BY <1>2, <1>4, <2>2
  <2>3. QED BY <2>1, <2>2
<1>6. VerdictIsNumbers'
  <2> SUFFICES ASSUME NEW v \in Visits, judged(v)'
               PROVE  verdict'[v] = "admitted" <=> Within(v)'
    BY DEF VerdictIsNumbers
  <2>1. CASE judged(v)
    <3>1. Within(v)' <=> Within(v)
      BY <1>1, <2>1 DEF Within
    <3>2. QED BY <1>3, <2>1, <3>1 DEF VerdictIsNumbers
  <2>2. CASE ~judged(v)
    BY <1>2, <1>4, <2>2
  <2>3. QED BY <2>1, <2>2
<1>7. QED BY <1>5, <1>6

LEMMA NextThrottleInv == ThrottleInv /\ [ThrottleNext]_throttleVars => ThrottleInv'
BY NextThrottleType, NextWindows, NextJudged DEF ThrottleInv

LEMMA InitThrottleInv == ThrottleInit => ThrottleInv
<1> SUFFICES ASSUME ThrottleInit PROVE ThrottleInv
  OBVIOUS
<1>1. ThrottleTypeOK
  BY InitThrottleType
<1>2. \A v \in Visits, w \in Windows :
        visit[v][w].step = "idle" /\ Seen(v, w) = 0 /\ TickOf(v, w) = 0 /\ verdict[v] = "none"
  BY DEF ThrottleInit, Seen, TickOf, NoCommand
<1>3. ASSUME NEW w \in Windows PROVE Lives(w) /\ BusyKey(w)
  <2>1. clock = 1 /\ counter[w].ends = 0 /\ counter[w].count = 0
    BY DEF ThrottleInit, NoCounter
  <2>2. \A u, v \in Visits : ~SameNumber(u, v, w)
    BY <1>2 DEF SameNumber
  <2>3. Lives(w)
    BY <1>2, <2>1, <2>2 DEF Lives, Numbered, Spaced, ThirdIsLater
  <2>4. OneSetsLife(w)
    BY <1>2, <2>1 DEF OneSetsLife
  <2>5. CountsVisits(w)
    BY <1>1, <1>2, <2>1, CountedSets DEF CountsVisits
  <2>6. QED BY <2>3, <2>4, <2>5 DEF BusyKey
<1>4. Judged /\ VerdictIsNumbers
  BY DEF ThrottleInit, Judged, VerdictIsNumbers
<1>5. QED BY <1>1, <1>3, <1>4 DEF ThrottleInv

\* A set whose elements have numbers up to n, no three the same, has at most 2 * n.
LEMMA AtMostTwoEach ==
  ASSUME NEW A, NEW n \in Nat, NEW f \in [A -> 1..n],
         \A a, b, c \in A : f[a] = f[b] /\ f[b] = f[c] => a = b \/ b = c \/ a = c
  PROVE  Cardinality(A) <= 2 * n
<1> DEFINE first(a) == CHOOSE b \in A : f[b] = f[a]
           A1 == {a \in A : a = first(a)}
           A2 == {a \in A : a # first(a)}
           f1 == [a \in A1 |-> f[a]]
           f2 == [a \in A2 |-> f[a]]
<1>1. \A a \in A : first(a) \in A /\ f[first(a)] = f[a]
  OBVIOUS
<1>2. \A a, b \in A : f[a] = f[b] => first(a) = first(b)
  OBVIOUS
<1>3. \A a, b \in A1 : f1[a] = f1[b] => a = b
  BY <1>2
<1>4. \A a, b \in A2 : f2[a] = f2[b] => a = b
  <2> SUFFICES ASSUME NEW a \in A, NEW b \in A, a # first(a), b # first(b), f[a] = f[b] PROVE a = b
    OBVIOUS
  <2> DEFINE c == first(a)
  <2>1. c \in A /\ f[c] = f[a] /\ c # a /\ c # b
    BY <1>1, <1>2
  <2> HIDE DEF c
  <2>2. QED BY <2>1
<1>5. f1 \in Injection(A1, 1..n) /\ f2 \in Injection(A2, 1..n)
  BY <1>3, <1>4 DEF Injection, IsInjective
<1>6. IsFiniteSet(1..n) /\ Cardinality(1..n) = n
  BY FS_Interval
<1>7. A1 \cup A2 = A /\ A1 \cap A2 = {}
  OBVIOUS
<1> HIDE DEF A1, A2, f1, f2
<1>8. /\ IsFiniteSet(A1) /\ Cardinality(A1) <= n
      /\ IsFiniteSet(A2) /\ Cardinality(A2) <= n
  BY <1>5, <1>6, FS_Injection
<1>9. Cardinality(A1) \in Nat /\ Cardinality(A2) \in Nat
  BY <1>8, FS_CardinalityType
<1>10. Cardinality(A) = Cardinality(A1) + Cardinality(A2) - Cardinality(A1 \cap A2) /\ Cardinality(A1 \cap A2) = 0
  BY <1>7, <1>8, FS_Union, FS_EmptySet
<1>11. QED BY <1>8, <1>9, <1>10

LEMMA TwiceTheLimitHolds == ThrottleInv => TwiceTheLimit
<1> SUFFICES ASSUME ThrottleInv, NEW w \in Windows, NEW t \in 1..LastTick
             PROVE  Cardinality({v \in CountedFrom(w, t) : verdict[v] = "admitted"}) <= 2 * Limit[w]
  BY DEF TwiceTheLimit
<1> DEFINE A == {v \in CountedFrom(w, t) : verdict[v] = "admitted"}
           n == Limit[w]
           length == Length[w]
           f == [v \in A |-> Seen(v, w)]
<1>1. /\ ThrottleTypeOK /\ n \in Nat /\ length \in Nat
      /\ \A v \in Visits : Seen(v, w) \in Nat /\ TickOf(v, w) \in Nat
  BY ThrottleRanges DEF ThrottleInv
<1>2. \A v \in A : v \in Visits /\ t <= TickOf(v, w) /\ TickOf(v, w) <= t + length - 1
  BY <1>1 DEF CountedFrom, TickOf
<1>3. ASSUME NEW v \in A PROVE Seen(v, w) > 0 /\ Seen(v, w) <= n
  <2>1. v \in Visits /\ verdict[v] = "admitted"
    BY <1>2
  <2>2. visit[v][w].step = "counted" /\ Within(v)
    BY <2>1 DEF ThrottleInv, Judged, VerdictIsNumbers
  <2>3. QED BY <2>1, <2>2 DEF ThrottleInv, Lives, Numbered, Within, Seen
<1>4. f \in [A -> 1..n]
  BY <1>1, <1>2, <1>3
<1>5. ASSUME NEW a \in A, NEW b \in A, NEW c \in A, f[a] = f[b], f[b] = f[c]
      PROVE  a = b \/ b = c \/ a = c
  <2> SUFFICES ASSUME a # b, b # c, a # c PROVE FALSE
    OBVIOUS
  <2>1. SameNumber(a, b, w) /\ SameNumber(b, c, w)
    BY <1>3, <1>5 DEF SameNumber
  <2>2. PICK x, y \in {a, b, c} : TickOf(x, w) + length <= TickOf(y, w)
    BY <1>2, <2>1 DEF ThrottleInv, Lives, ThirdIsLater
  <2>3. x \in A /\ y \in A
    OBVIOUS
  <2>4. t \in Int
    OBVIOUS
  <2> HIDE DEF A
  <2>5. QED BY <1>1, <1>2, <2>2, <2>3, <2>4
<1> HIDE DEF A, n, f
<1>6. Cardinality(A) <= 2 * n
  BY <1>1, <1>4, <1>5, AtMostTwoEach
<1>7. QED BY <1>6 DEF A, n

LEMMA RefusedWhenBusyHolds == ThrottleInv => RefusedWhenBusy
<1> SUFFICES ASSUME ThrottleInv, NEW v \in Visits, verdict[v] = "refused"
             PROVE  \E w \in Windows : \/ w \in lapsed
                                      \/ Cardinality(CountedUpTo(w, visit[v][w].tick)) > Limit[w]
  BY DEF RefusedWhenBusy
<1>1. PICK w \in Windows : ~(visit[v][w].seen <= Limit[w])
  BY DEF ThrottleInv, VerdictIsNumbers, Within
<1>2. Seen(v, w) \in Nat /\ Limit[w] \in Nat /\ Seen(v, w) > Limit[w]
  BY <1>1, ThrottleRanges DEF ThrottleInv, Seen
<1>3. CASE w \notin lapsed
  <2>1. Seen(v, w) <= Cardinality(CountedUpTo(w, TickOf(v, w)))
    BY <1>2, <1>3 DEF ThrottleInv, BusyKey, CountsVisits
  <2>2. Cardinality(CountedUpTo(w, TickOf(v, w))) \in Nat
    BY CountedSets DEF ThrottleInv
  <2>3. QED BY <1>2, <2>1, <2>2 DEF TickOf
<1>4. QED BY <1>3

\* ThrottleKept of Throttle, for any number of requests, windows, limits and ticks: no stretch
\* as long as a window admits more than twice its limit, and a client is refused only after
\* more requests than the limit, unless a counter missed its time to live.
THEOREM ThrottleStaysKept == ThrottleSpec => []ThrottleKept
<1>1. ThrottleInv => ThrottleKept
  BY TwiceTheLimitHolds, RefusedWhenBusyHolds DEF ThrottleKept
<1>2. QED BY <1>1, InitThrottleInv, NextThrottleInv, PTL DEF ThrottleSpec

------------------------------------------------------------------------------
(* The services side by side: a behaviour of MCServices is one of each     *)
(* part, which keeps what the part keeps alone.                            *)

LEMMA PartsBegin ==
  ServicesInit => /\ AccountsInit /\ ReviewsInit /\ StaffInit /\ AttendanceInit /\ DevicesInit
                  /\ PayrollInit /\ LoyaltyInit /\ ThrottleInit
BY DEF ServicesInit

LEMMA PartsStep ==
  [ServicesNext]_servicesVars =>
    /\ [AccountsNext]_accountVars /\ [ReviewsNext]_reviewVars /\ [StaffNext]_staffVars
    /\ [AttendanceNext]_attendanceVars /\ [DevicesNext]_deviceVars /\ [PayrollNext]_payrollVars
    /\ [LoyaltyNext]_loyaltyVars /\ [ThrottleNext]_throttleVars
<1> SUFFICES ASSUME [ServicesNext]_servicesVars
             PROVE  /\ [AccountsNext]_accountVars /\ [ReviewsNext]_reviewVars /\ [StaffNext]_staffVars
                    /\ [AttendanceNext]_attendanceVars /\ [DevicesNext]_deviceVars
                    /\ [PayrollNext]_payrollVars /\ [LoyaltyNext]_loyaltyVars
                    /\ [ThrottleNext]_throttleVars
  OBVIOUS
<1>1. CASE ServicesNext
  <2>1. /\ part = "accounts" => AccountsNext
        /\ part = "reviews" => ReviewsNext
        /\ part = "staff" => StaffNext
        /\ part = "attendance" => AttendanceNext
        /\ part = "devices" => DevicesNext
        /\ part = "payroll" => PayrollNext
        /\ part = "loyalty" => LoyaltyNext
        /\ part = "throttle" => ThrottleNext
    BY <1>1 DEF ServicesNext
  <2>2. /\ part # "accounts" => UNCHANGED accountVars
        /\ part # "reviews" => UNCHANGED reviewVars
        /\ part # "staff" => UNCHANGED staffVars
        /\ part # "attendance" => UNCHANGED attendanceVars
        /\ part # "devices" => UNCHANGED deviceVars
        /\ part # "payroll" => UNCHANGED payrollVars
        /\ part # "loyalty" => UNCHANGED loyaltyVars
        /\ part # "throttle" => UNCHANGED throttleVars
    BY <1>1 DEF ServicesNext, Still
  <2>3. QED BY <2>1, <2>2
<1>2. CASE UNCHANGED servicesVars
  BY <1>2 DEF servicesVars
<1>3. QED BY <1>1, <1>2

\* Every part of the composition behaves as it does alone, so what is proved of it there
\* holds of it beside the others.
THEOREM ServicesImplementParts ==
  ServicesSpec => /\ AccountsSpec /\ ReviewsSpec /\ StaffSpec /\ AttendanceSpec /\ DevicesSpec
                  /\ PayrollSpec /\ LoyaltySpec /\ ThrottleSpec
BY PartsBegin, PartsStep, PTL
   DEF ServicesSpec, AccountsSpec, ReviewsSpec, StaffSpec, AttendanceSpec, DevicesSpec, PayrollSpec,
       LoyaltySpec, ThrottleSpec

\* TypesOK of MCServices, for every value of the constants: each variable of each part has its
\* type.
THEOREM ServicesTypesStayOK == ServicesSpec => []TypesOK
<1>1. AccountsSpec => []AccountsTypeOK
  BY InitAccountsType, NextAccountsType, PTL DEF AccountsSpec
<1>2. ReviewsSpec => []ReviewsTypeOK
  BY InitReviewsType, NextReviewsType, PTL DEF ReviewsSpec
<1>3. StaffSpec => []StaffTypeOK
  BY InitStaffType, NextStaffType, PTL DEF StaffSpec
<1>4. AttendanceSpec => []AttendanceTypeOK
  BY InitAttendanceType, NextAttendanceType, PTL DEF AttendanceSpec
<1>5. DevicesSpec => []DevicesTypeOK
  BY InitDevicesType, NextDevicesType, PTL DEF DevicesSpec
<1>6. ThrottleSpec => []ThrottleTypeOK
  BY InitThrottleType, NextThrottleType, PTL DEF ThrottleSpec
<1>7. /\ AccountsTypeOK /\ ReviewsTypeOK /\ StaffTypeOK /\ AttendanceTypeOK /\ DevicesTypeOK
      /\ PayrollTypeOK /\ LoyaltyTypeOK /\ ThrottleTypeOK
      => TypesOK
  BY DEF TypesOK
<1>8. QED
  BY <1>1, <1>2, <1>3, <1>4, <1>5, <1>6, <1>7, PayrollTypeCorrect, LoyaltyTypeCorrect,
     ServicesImplementParts, PTL

\* What is proved of each part above, of all of them side by side: the invariants that the run
\* of MCServices checks, and the workflow of the payrolls.
THEOREM ServicesKeepTheirPromises ==
  ServicesSpec =>
    /\ [](/\ CodesSpentOnce /\ FailedLoginsCounted /\ EndedSessionsStayEnded
          /\ ReviewsModerated /\ StaffAccountKept /\ AttendanceKept /\ OneActiveClaim
          /\ NetPayExplained /\ BalanceIsLedger /\ OverdraftBounded /\ PremiumIsEarned
          /\ ThrottleKept)
    /\ LogFollowsWorkflow
BY ServicesImplementParts, CodesStaySpentOnce, FailedLoginsStayCounted, SessionsStayEnded,
   ReviewsStayModerated, StaffAccountStaysKept, AttendanceStaysKept, OneClaimStaysActive,
   NetPayStaysExplained, BalanceStaysLedger, OverdraftStaysBounded, PremiumStaysEarned,
   ThrottleStaysKept, PayrollsImplementWorkflow, PTL
=============================================================================
