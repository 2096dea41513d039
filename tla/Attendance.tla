----------------------------- MODULE Attendance -----------------------------
(***************************************************************************)
(* The attendance sheet of one employee (attendance.service.ts).  Clock-in *)
(* looks for an open record of the day and creates one in a statement of   *)
(* its own; clock-out reads the record and updates it later.  Time passes  *)
(* midnight between the two, too.  A record has the name of its call.      *)
(***************************************************************************)
EXTENDS Naturals, FiniteSets

CONSTANTS Punches, \* requests, each used once
          Days     \* bound: days of the sheet

ASSUME AttendanceAssumption == Days \in Nat \ {0} /\ IsFiniteSet(Punches)

VARIABLES today,
          sheet,     \* attendance rows
          punch,     \* call -> what it does, and the record it does it to
          crossedIn, \* clock-ins that overlapped another (not in the code)
          crossedOut \* records whose clock-outs overlapped (not in the code)

attendanceVars == <<today, sheet, punch, crossedIn, crossedOut>>

\* entry: the order of the clock-ins; outs: how often hours were written (not in the code).
SheetRow == [state : {"none", "open", "closed"}, day : 0..Days, entry : Nat, outs : Nat]
NoEntry == [state |-> "none", day |-> 0, entry |-> 0, outs |-> 0]
NoPunch == [step |-> "idle", record |-> {}]

AttendanceTypeOK ==
  /\ today \in 1..Days
  /\ sheet \in [Punches -> SheetRow]
  /\ punch \in [Punches -> [step : {"idle", "in", "found", "out", "ended"}, record : SUBSET Punches]]
  /\ crossedIn \subseteq Punches /\ crossedOut \subseteq Punches

AttendanceInit ==
  /\ today = 1
  /\ sheet = [c \in Punches |-> NoEntry]
  /\ punch = [c \in Punches |-> NoPunch]
  /\ crossedIn = {} /\ crossedOut = {}

At(step) == {c \in Punches : punch[c].step = step}
To(c, step) == punch' = [punch EXCEPT ![c].step = step]

\* Open records of the day.
ClockedIn == {r \in Punches : sheet[r].state = "open" /\ sheet[r].day = today}

------------------------------------------------------------------------------
\* Mutant of ClockIn: any open record of the day may be doubled.
ClockInUnchecked(c) ==
  /\ punch[c] = NoPunch
  /\ To(c, "in")
  /\ crossedIn' = IF At("in") = {} THEN crossedIn ELSE crossedIn \cup At("in") \cup {c}
  /\ UNCHANGED <<today, sheet, crossedOut>>

ClockIn(c) ==
  /\ punch[c] = NoPunch
  /\ ClockedIn = {}
  /\ To(c, "in")
  /\ crossedIn' = IF At("in") = {} THEN crossedIn ELSE crossedIn \cup At("in") \cup {c}
  /\ UNCHANGED <<today, sheet, crossedOut>>

ClockedInWritten(c) ==
  /\ punch[c].step = "in"
  /\ sheet' = [sheet EXCEPT ![c] = [state |-> "open", day |-> today, outs |-> 0,
                                    entry |-> Cardinality({r \in Punches : sheet[r] # NoEntry}) + 1]]
  /\ To(c, "ended")
  /\ UNCHANGED <<today, crossedIn, crossedOut>>

\* clockOutByEmployee: the record of the day that was opened last.
FindToday(c, r) ==
  /\ punch[c] = NoPunch
  /\ r \in ClockedIn /\ \A s \in ClockedIn : sheet[s].entry <= sheet[r].entry
  /\ punch' = [punch EXCEPT ![c] = [step |-> "found", record |-> {r}]]
  /\ UNCHANGED <<today, sheet, crossedIn, crossedOut>>

\* clockOut, of any day: the record must be open.
ClockOut(c, r) ==
  /\ punch[c] = NoPunch \/ punch[c] = [step |-> "found", record |-> {r}]
  /\ sheet[r].state = "open"
  /\ punch' = [punch EXCEPT ![c] = [step |-> "out", record |-> {r}]]
  /\ crossedOut' = IF \E d \in At("out") : punch[d].record = {r} THEN crossedOut \cup {r} ELSE crossedOut
  /\ UNCHANGED <<today, sheet, crossedIn>>

ClockedOutWritten(c, r) ==
  /\ punch[c] = [step |-> "out", record |-> {r}]
  /\ sheet' = [sheet EXCEPT ![r].state = "closed", ![r].outs = @ + 1]
  /\ To(c, "ended")
  /\ UNCHANGED <<today, crossedIn, crossedOut>>

\* Refused, or the process dies.
PunchFails(c) ==
  /\ punch[c].step \in {"in", "found", "out"}
  /\ To(c, "ended")
  /\ UNCHANGED <<today, sheet, crossedIn, crossedOut>>

Midnight ==
  /\ today < Days
  /\ today' = today + 1
  /\ UNCHANGED <<sheet, punch, crossedIn, crossedOut>>

AttendanceNext ==
  \/ Midnight
  \/ \E c \in Punches : \/ ClockIn(c) \/ ClockedInWritten(c) \/ PunchFails(c)
                        \/ \E r \in Punches : FindToday(c, r) \/ ClockOut(c, r) \/ ClockedOutWritten(c, r)

AttendanceSpec == AttendanceInit /\ [][AttendanceNext]_attendanceVars

------------------------------------------------------------------------------
(* Properties.                                                             *)

OpenAlone ==
  \A r \in Punches \ crossedIn : sheet[r].state = "open" =>
    ~\E s \in Punches \ {r} : sheet[s].state = "open" /\ sheet[s].day = sheet[r].day

ClosedOnce == \A r \in Punches \ crossedOut : sheet[r].outs <= 1

\* The hours that payroll sums are worked once: an open record is the only open one of its day
\* ("Employee already clocked in today") unless its clock-in overlapped another, wherever
\* midnight falls; and hours are written once per record ("Already clocked out") unless two
\* clock-outs of it overlapped.
AttendanceKept == OpenAlone /\ ClosedOnce
=============================================================================
