----------------------------- MODULE Stocktake -----------------------------
(***************************************************************************)
(* The stocktake page of the admin app (StocktakeScanner.tsx) and its      *)
(* local database (stocktake-db.ts): sessions, scans, and the sync that    *)
(* sends the pending scans of a session to inventory-service.  The server  *)
(* answers a status for every scan and stores nothing (bulkSyncStocktake); *)
(* "answered" stands for synced, conflict, error and not_found.            *)
(*                                                                         *)
(* The local database survives a reload of the page; the page's state and  *)
(* the handlers that are under way do not.  Who goes to another page of    *)
(* the app leaves the handlers behind: they go on in the database, and     *)
(* nothing shows what they report.  The camera loop calls the handleScan   *)
(* of the first render, where no session is set, and records nothing: the  *)
(* scans here are the manual ones.                                         *)
(***************************************************************************)
EXTENDS Naturals, FiniteSets

CONSTANTS Sessions,  \* sessions that may be started
          Scans,     \* scans that may be recorded
          Syncs      \* bound: syncs under way, the one of the page and those of pages left

ASSUME StocktakeAssumption == IsFiniteSet(Scans)

VARIABLES sessions,  \* session -> its row
          scans,     \* scan -> its row: the session it belongs to, and its status
          display,  \* the page: the session on it, its total, whether init is still reading
          starting,  \* sessions added to the database and not shown yet
          noting,    \* scan -> its handleScan: its step, and the session and total it has read
          sync,      \* a sync: its step, its session, the scans to go, whether its page is shown
          finished,  \* sessions that the user ended (not in the code)
          late,      \* scans recorded during or after a sync of their session (not in the code)
          miscounted \* sessions with handleScan calls that mingled or were cut (not in the code)

stocktakeVars == <<sessions, scans, display, starting, noting, sync, finished, late, miscounted>>

NoSessionRow == [status |-> "none", total |-> 0]
NoScan == [session |-> {}, status |-> "none"]
NoSync == [step |-> "idle", session |-> {}, left |-> {}, shown |-> FALSE]
Nothing == [session |-> {}, total |-> 0, loading |-> TRUE]
NotNoting == [step |-> "idle", session |-> {}, total |-> 0, shown |-> FALSE]

StocktakeTypeOK ==
  /\ sessions \in [Sessions -> [status : {"none", "in-progress", "completed", "synced"}, total : Nat]]
  /\ scans \in [Scans -> [session : SUBSET Sessions, status : {"none", "pending", "answered"}]]
  /\ display \in [session : SUBSET Sessions, total : Nat, loading : BOOLEAN]
  /\ starting \subseteq Sessions
  /\ noting \in [Scans -> [step : {"idle", "adding", "counting"}, session : SUBSET Sessions,
                            total : Nat, shown : BOOLEAN]]
  /\ sync \in [Syncs -> [step : {"idle", "posting", "storing"}, session : SUBSET Sessions,
                          left : SUBSET Scans, shown : BOOLEAN]]
  /\ finished \subseteq Sessions /\ late \subseteq Scans /\ miscounted \subseteq Sessions

StocktakeInit ==
  /\ sessions = [s \in Sessions |-> NoSessionRow]
  /\ scans = [c \in Scans |-> NoScan]
  /\ display = Nothing
  /\ starting = {}
  /\ noting = [c \in Scans |-> NotNoting]
  /\ sync = [y \in Syncs |-> NoSync]
  /\ finished = {} /\ late = {} /\ miscounted = {}

Of(s) == {c \in Scans : scans[c].session = {s}}
Pending(s) == {c \in Of(s) : scans[c].status = "pending"}
Noting(s) == {c \in Scans : noting[c].session = {s}}
Syncing(s) == {y \in Syncs : sync[y].session = {s}}

------------------------------------------------------------------------------
(* Sessions.                                                               *)

\* startSession: its button is there while no session is on the page.
StartSession(s) ==
  /\ display.session = {} /\ sessions[s] = NoSessionRow
  /\ sessions' = [sessions EXCEPT ![s].status = "in-progress"]
  /\ starting' = starting \cup {s}
  /\ UNCHANGED <<scans, display, noting, sync, finished, late, miscounted>>

\* Its rest: a second press, or init, may have put a session on the page meanwhile.
SessionStarted(s) ==
  /\ s \in starting
  /\ starting' = starting \ {s}
  /\ display' = [display EXCEPT !.session = {s}, !.total = 0]
  /\ miscounted' = IF Of(s) = {} /\ Noting(s) = {} THEN miscounted ELSE miscounted \cup {s}
  /\ UNCHANGED <<sessions, scans, noting, sync, finished, late>>

\* init: a session that is in progress comes back, also over one just started.
SessionLoaded(s) ==
  /\ display.loading /\ sessions[s].status = "in-progress"
  /\ display' = [session |-> {s}, total |-> sessions[s].total, loading |-> FALSE]
  /\ miscounted' = IF Noting(s) = {} THEN miscounted ELSE miscounted \cup {s}
  /\ UNCHANGED <<sessions, scans, starting, noting, sync, finished, late>>

NoneLoaded ==
  /\ display.loading /\ \A s \in Sessions : sessions[s].status # "in-progress"
  /\ display' = [display EXCEPT !.loading = FALSE]
  /\ UNCHANGED <<sessions, scans, starting, noting, sync, finished, late, miscounted>>

\* endSession asks for nothing: pending scans stay in a session that the page never opens again.
EndSession(s) ==
  /\ display.session = {s}
  /\ sessions' = [sessions EXCEPT ![s].status = "completed"]
  /\ display' = [display EXCEPT !.session = {}]
  /\ finished' = finished \cup {s}
  /\ UNCHANGED <<scans, starting, noting, sync, late, miscounted>>

\* The browser's tab is closed or reloaded, at any time.
ReloadPage ==
  /\ display' = Nothing /\ starting' = {}
  /\ noting' = [c \in Scans |-> NotNoting]
  /\ sync' = [y \in Syncs |-> NoSync]
  /\ miscounted' = miscounted \cup {s \in Sessions : Noting(s) # {}}
  /\ UNCHANGED <<sessions, scans, finished, late>>

\* Another page of the app is opened: scans and syncs under way go on.  What is left of a
\* startSession would only be shown.
LeaveStocktake ==
  /\ display' = Nothing /\ starting' = {}
  /\ noting' = [c \in Scans |-> [noting[c] EXCEPT !.shown = FALSE]]
  /\ sync' = [y \in Syncs |-> [sync[y] EXCEPT !.shown = FALSE]]
  /\ UNCHANGED <<sessions, scans, finished, late, miscounted>>

------------------------------------------------------------------------------
(* Scans.                                                                  *)

\* handleScan of a manual entry, with the session of its render and the total it had.
HandleScan(c, s) ==
  /\ display.session = {s} /\ scans[c] = NoScan /\ noting[c] = NotNoting
  /\ noting' = [noting EXCEPT ![c] = [step |-> "adding", session |-> {s},
                                      total |-> display.total + 1, shown |-> TRUE]]
  /\ miscounted' = IF Noting(s) = {} THEN miscounted ELSE miscounted \cup {s}
  /\ UNCHANGED <<sessions, scans, display, starting, sync, finished, late>>

\* addScan: a row of its own for every scan.
AddScan(c, s) ==
  /\ noting[c].step = "adding" /\ noting[c].session = {s}
  /\ scans' = [scans EXCEPT ![c] = [session |-> {s}, status |-> "pending"]]
  /\ noting' = [noting EXCEPT ![c].step = "counting"]
  /\ late' = IF Syncing(s) # {} \/ sessions[s].status # "in-progress" THEN late \cup {c} ELSE late
  /\ UNCHANGED <<sessions, display, starting, sync, finished, miscounted>>

\* The session's row gets the total that was read, plus one, and the page, if it is still the
\* one that was scanned on, adds one to the session it shows by now.
CountScan(c, s) ==
  /\ noting[c].step = "counting" /\ noting[c].session = {s}
  /\ sessions' = [sessions EXCEPT ![s].total = noting[c].total]
  /\ noting' = [noting EXCEPT ![c] = NotNoting]
  /\ IF noting[c].shown /\ display.session # {}
     THEN /\ display' = [display EXCEPT !.total = @ + 1]
          /\ miscounted' = miscounted \cup (display.session \ {s})
     ELSE UNCHANGED <<display, miscounted>>
  /\ UNCHANGED <<scans, starting, sync, finished, late>>

------------------------------------------------------------------------------
(* handleSync and bulkSyncSession.                                         *)

\* Mutant of SyncBegins: the session counts as synced once its scans are on their way.
SyncMarksFirst(y, s) ==
  /\ display.session = {s} /\ Pending(s) # {}
  /\ sync[y] = NoSync /\ \A z \in Syncs : ~sync[z].shown
  /\ sync' = [sync EXCEPT ![y] = [step |-> "posting", session |-> {s}, left |-> Pending(s), shown |-> TRUE]]
  /\ sessions' = [sessions EXCEPT ![s].status = "synced"]
  /\ UNCHANGED <<scans, display, starting, noting, finished, late, miscounted>>

\* The button works while pending scans are shown and no sync of this page is under way.
SyncBegins(y, s) ==
  /\ display.session = {s} /\ Pending(s) # {}
  /\ sync[y] = NoSync /\ \A z \in Syncs : ~sync[z].shown
  /\ sync' = [sync EXCEPT ![y] = [step |-> "posting", session |-> {s}, left |-> Pending(s), shown |-> TRUE]]
  /\ UNCHANGED <<sessions, scans, display, starting, noting, finished, late, miscounted>>

SyncAnswered(y) ==
  /\ sync[y].step = "posting"
  /\ sync' = [sync EXCEPT ![y].step = "storing"]
  /\ UNCHANGED <<sessions, scans, display, starting, noting, finished, late, miscounted>>

\* No network, or an error of the server: nothing is stored and the button works again.
SyncFails(y) ==
  /\ sync[y].step = "posting"
  /\ sync' = [sync EXCEPT ![y] = NoSync]
  /\ UNCHANGED <<sessions, scans, display, starting, noting, finished, late, miscounted>>

AnswerStored(y, c) ==
  /\ sync[y].step = "storing" /\ c \in sync[y].left
  /\ scans' = [scans EXCEPT ![c].status = "answered"]
  /\ sync' = [sync EXCEPT ![y].left = @ \ {c}]
  /\ UNCHANGED <<sessions, display, starting, noting, finished, late, miscounted>>

\* The last update: the session is synced, also if the user has ended it meanwhile.
SyncEnds(y, s) ==
  /\ sync[y].step = "storing" /\ sync[y].session = {s} /\ sync[y].left = {}
  /\ sessions' = [sessions EXCEPT ![s].status = "synced"]
  /\ sync' = [sync EXCEPT ![y] = NoSync]
  /\ UNCHANGED <<scans, display, starting, noting, finished, late, miscounted>>

StocktakeNext ==
  \/ NoneLoaded \/ ReloadPage \/ LeaveStocktake
  \/ \E s \in Sessions : \/ StartSession(s) \/ SessionStarted(s) \/ SessionLoaded(s) \/ EndSession(s)
                        \/ \E c \in Scans : HandleScan(c, s) \/ AddScan(c, s) \/ CountScan(c, s)
                        \/ \E y \in Syncs : SyncBegins(y, s) \/ SyncEnds(y, s)
  \/ \E y \in Syncs : SyncAnswered(y) \/ SyncFails(y) \/ \E c \in Scans : AnswerStored(y, c)

StocktakeSpec == StocktakeInit /\ [][StocktakeNext]_stocktakeVars

------------------------------------------------------------------------------
(* Properties.                                                             *)

\* A pending scan can still be sent: its session is on the page, or will come back to it.
CanBeSent(c) == \E s \in Sessions : /\ scans[c].session = {s}
                                    /\ display.session = {s} \/ sessions[s].status = "in-progress"

Stranded == {c \in Scans : scans[c].status = "pending" /\ ~CanBeSent(c)}

\* "Staff walk a warehouse with zero Wi-Fi, scan items into the local DB, then trigger a bulk
\* sync when connectivity is restored" (stocktake-db.ts:5-6): a scan can be sent until the user
\* ends its session.
ScansCanBeSent == \A c \in Stranded : scans[c].session \subseteq finished

\* What stays of it: only scans recorded while a sync of the session was under way, or after
\* one, are stranded in a session that nobody ended, also where the sync belongs to a page that
\* was left.  And a session counts its scans, unless two were recorded side by side, or one
\* beside the start or the loading of a session, or one was cut by a reload.
StocktakeAccounted ==
  /\ \A c \in Stranded : scans[c].session \subseteq finished \/ c \in late
  /\ \A s \in Sessions \ miscounted : Noting(s) = {} => sessions[s].total = Cardinality(Of(s))
=============================================================================
