--------------------------- MODULE StaffAccounts ---------------------------
(***************************************************************************)
(* One staff account of auth-service (AuthService, AdminUserController):   *)
(* its row in users and its refresh tokens.                                *)
(*                                                                         *)
(* A handler is one transaction (or one session of the persistence layer)  *)
(* that reads the row, spends a tenth of a second on a password hash, and  *)
(* writes every column of the row back if it changed one.  PostgreSQL runs *)
(* at READ COMMITTED and no row has a version, so the last commit wins.    *)
(* A handler is modelled as its read and its commit; what fails between    *)
(* them is rolled back.  That includes the counting of failed logins: the  *)
(* exception that answers 401 undoes it, so no login locks an account.     *)
(*                                                                         *)
(* A call sets at most one password and makes at most one token: both have *)
(* the name of the call.                                                   *)
(***************************************************************************)
EXTENDS Naturals, FiniteSets

CONSTANTS StaffCalls, \* requests, each used once
          FirstHash   \* the password the account was created with

VARIABLES staff,     \* the row of users
          tokens,    \* refresh_tokens, by the call that made the token
          job,       \* call -> its step, what it does and the row it read
          meant,     \* the row, had every commit changed its own columns only (not in the code)
          contested, \* columns set while another handler held an older row (not in the code)
          doubled,   \* tokens that two refreshes found before either committed (not in the code)
          signOffs   \* logouts and password changes so far, and calls under way at one (not in the code)

staffVars == <<staff, tokens, job, meant, contested, doubled, signOffs>>

Columns == {"password", "active", "mustChange"}
StaffRow == [password : StaffCalls \cup {FirstHash}, active : BOOLEAN, mustChange : BOOLEAN]
NoStaffRow == [password |-> FirstHash, active |-> FALSE, mustChange |-> FALSE]
NoJob == [step |-> "idle", op |-> "none", row |-> NoStaffRow, token |-> {}, began |-> 0]
StaffOps == {"login", "refresh", "change", "reset", "activate", "deactivate"}

StaffTypeOK ==
  /\ staff \in StaffRow /\ meant \in StaffRow
  /\ tokens \in [StaffCalls -> {"none", "live", "expired", "revoked"}]
  /\ job \in [StaffCalls -> [step : {"idle", "read", "done", "failed"}, op : StaffOps \cup {"none"},
                             row : StaffRow, token : SUBSET StaffCalls, began : Nat]]
  /\ contested \subseteq Columns
  /\ doubled \subseteq StaffCalls
  /\ signOffs \in [count : Nat, crossed : SUBSET StaffCalls]

\* createUser: the first password must be changed.
StaffInit ==
  /\ staff = [password |-> FirstHash, active |-> TRUE, mustChange |-> TRUE]
  /\ meant = staff
  /\ tokens = [c \in StaffCalls |-> "none"]
  /\ job = [c \in StaffCalls |-> NoJob]
  /\ contested = {} /\ doubled = {}
  /\ signOffs = [count |-> 0, crossed |-> {}]

Busy(c) == {d \in StaffCalls \ {c} : job[d].step = "read"}

------------------------------------------------------------------------------
(* The reads.                                                              *)

StaffRead(c, op, token) ==
  /\ job[c] = NoJob
  /\ job' = [job EXCEPT ![c] = [step |-> "read", op |-> op, row |-> staff, token |-> token,
                                began |-> signOffs.count]]
  /\ UNCHANGED <<staff, tokens, meant, contested, signOffs>>

\* The row is in the session since authenticate; a deactivated account is refused.
StaffLogin(c) == staff.active /\ StaffRead(c, "login", {}) /\ UNCHANGED doubled

\* refresh does not look at the row of the account.
StaffRefresh(c, t) ==
  /\ tokens[t] = "live"
  /\ StaffRead(c, "refresh", {t})
  /\ doubled' = IF \E d \in Busy(c) : job[d].token = {t} THEN doubled \cup {t} ELSE doubled

\* changePassword with the right current password, and what an administrator does.
StaffUpdate(c, op) ==
  /\ op \in {"change", "reset", "activate", "deactivate"}
  /\ StaffRead(c, op, {})
  /\ UNCHANGED doubled

------------------------------------------------------------------------------
(* The commits.                                                            *)

\* The columns that call c sets, in row.
SetIn(row, c) ==
  CASE job[c].op = "change" -> [row EXCEPT !.password = c, !.mustChange = FALSE]
    [] job[c].op = "reset" -> [row EXCEPT !.password = c, !.mustChange = TRUE]
    [] job[c].op = "activate" -> [row EXCEPT !.active = TRUE]
    [] job[c].op = "deactivate" -> [row EXCEPT !.active = FALSE]
    [] OTHER -> row

\* The row is written if the entity differs from what was read; a login sets lastLoginAt.
Dirty(c) == job[c].op = "login" \/ SetIn(job[c].row, c) # job[c].row

ColumnsOf(op) == CASE op \in {"change", "reset"} -> {"password", "mustChange"}
                   [] op \in {"activate", "deactivate"} -> {"active"}
                   [] OTHER -> {}

\* Handlers under way that will write the row they have read.
Holders(c) == {d \in Busy(c) : job[d].op # "refresh"}

RowWritten(c) ==
  IF Dirty(c)
  THEN /\ staff' = SetIn(job[c].row, c)
       /\ meant' = SetIn(meant, c)
       /\ contested' = IF Holders(c) = {} THEN contested \ ColumnsOf(job[c].op)
                       ELSE contested \cup ColumnsOf(job[c].op)
  ELSE UNCHANGED <<staff, meant, contested>>

Revoked == [t \in StaffCalls |-> IF tokens[t] = "none" THEN "none" ELSE "revoked"]

SignedOff(c) == signOffs' = [count |-> signOffs.count + 1, crossed |-> signOffs.crossed \cup Busy(c)]

StaffLoginCommit(c) ==
  /\ job[c].step = "read" /\ job[c].op = "login"
  /\ RowWritten(c)
  /\ tokens' = [tokens EXCEPT ![c] = "live"]
  /\ job' = [job EXCEPT ![c].step = "done"]
  /\ UNCHANGED <<doubled, signOffs>>

\* Mutant of StaffRefreshCommit: the token that was exchanged stays valid.
StaffRefreshKeepsToken(c) ==
  /\ job[c].step = "read" /\ job[c].op = "refresh"
  /\ tokens' = [tokens EXCEPT ![c] = "live"]
  /\ job' = [job EXCEPT ![c].step = "done"]
  /\ UNCHANGED <<staff, meant, contested, doubled, signOffs>>

\* The old token is revoked, by its id, and a new one made.
StaffRefreshCommit(c) ==
  /\ job[c].step = "read" /\ job[c].op = "refresh"
  /\ tokens' = [t \in StaffCalls |-> IF t = c THEN "live"
                                     ELSE IF t \in job[c].token THEN "revoked" ELSE tokens[t]]
  /\ job' = [job EXCEPT ![c].step = "done"]
  /\ UNCHANGED <<staff, meant, contested, doubled, signOffs>>

\* The owner's change revokes the tokens; what an administrator does leaves them.
StaffUpdateCommit(c) ==
  /\ job[c].step = "read" /\ job[c].op \notin {"login", "refresh"}
  /\ RowWritten(c)
  /\ job' = [job EXCEPT ![c].step = "done"]
  /\ IF job[c].op = "change" THEN tokens' = Revoked /\ SignedOff(c)
                             ELSE UNCHANGED <<tokens, signOffs>>
  /\ UNCHANGED doubled

\* One statement, no read before it.
StaffLogout(c) ==
  /\ job[c] = NoJob
  /\ tokens' = Revoked
  /\ job' = [job EXCEPT ![c].step = "done"]
  /\ SignedOff(c)
  /\ UNCHANGED <<staff, meant, contested, doubled>>

\* An exception or a crash: nothing of the transaction stays.
StaffRollback(c) ==
  /\ job[c].step = "read"
  /\ job' = [job EXCEPT ![c].step = "failed"]
  /\ UNCHANGED <<staff, tokens, meant, contested, doubled, signOffs>>

TokenExpires(t) ==
  /\ tokens[t] = "live"
  /\ tokens' = [tokens EXCEPT ![t] = "expired"]
  /\ UNCHANGED <<staff, job, meant, contested, doubled, signOffs>>

StaffNext ==
  \E c \in StaffCalls :
    \/ StaffLogin(c) \/ StaffLogout(c) \/ StaffRollback(c)
    \/ \E t \in StaffCalls : StaffRefresh(c, t)
    \/ \E op \in StaffOps : StaffUpdate(c, op)
    \/ StaffLoginCommit(c) \/ StaffRefreshCommit(c) \/ StaffUpdateCommit(c)
    \/ TokenExpires(c)

StaffSpec == StaffInit /\ [][StaffNext]_staffVars

------------------------------------------------------------------------------
(* Properties.                                                             *)

RowIsMeant == \A column \in Columns \ contested : staff[column] = meant[column]

ExchangedOnce ==
  \A t \in StaffCalls \ doubled :
    Cardinality({c \in StaffCalls : job[c].op = "refresh" /\ job[c].step = "done" /\ t \in job[c].token}) <= 1

SignedOffStaysOff ==
  \A c \in StaffCalls \ signOffs.crossed : tokens[c] = "live" => job[c].began = signOffs.count

\* Nothing is undone or done twice by handlers that do not overlap: a column of the account has
\* what the last handler that set it wrote, unless another held an older copy of the row at that
\* time (a login writes the whole row back); a refresh token is exchanged once, unless two
\* refreshes found it live; and after a logout or a password change the tokens of before are
\* dead, except those of calls that overlapped it.
StaffAccountKept == RowIsMeant /\ ExchangedOnce /\ SignedOffStaysOff
=============================================================================
