----------------------------- MODULE MCServices -----------------------------
(***************************************************************************)
(* Instances of the modules that describe one record of a service: the     *)
(* sign-in, the points and the reviews of a customer, a staff account, a   *)
(* device, the attendance and the payroll of an employee; and the rate     *)
(* limit of an address in the gateway.                                     *)
(* They share no variable.  A behaviour explores one of them, named by     *)
(* part, and leaves the others as they begin.                              *)
(***************************************************************************)
EXTENDS Accounts, Reviews, StaffAccounts, Attendance, Devices, Payroll, Loyalty, Throttle, TLC

CONSTANTS Parts, m1, c1, c2, c3, c4, c5

VARIABLE part

FourCalls == {c1, c2, c3, c4}
FiveCalls == FourCalls \cup {c5}
CallSymmetry == Permutations(FourCalls)

MCPeriods == {m1}
MCSalaries == {100, 200}
MCWithheld == [s \in MCSalaries |-> IF s = 100 THEN 11 ELSE 22]
MCAmounts == {0, 5}
MCCustomers == {m1}
TwoForEach == [w \in Windows |-> 2]
EveryOperation == {"earn", "redeem", "adjust"}

ServicesInit ==
  /\ part \in Parts
  /\ AccountsInit /\ ReviewsInit /\ StaffInit /\ AttendanceInit /\ DevicesInit
  /\ PayrollInit /\ LoyaltyInit /\ ThrottleInit
  /\ part # "accounts" => ~account.verified
  /\ part # "payroll" => salary = 100

Still(other, vector) == IF part = other THEN TRUE ELSE UNCHANGED vector

ServicesNext ==
  /\ UNCHANGED part
  /\ \/ part = "accounts" /\ AccountsNext
     \/ part = "reviews" /\ ReviewsNext
     \/ part = "staff" /\ StaffNext
     \/ part = "attendance" /\ AttendanceNext
     \/ part = "devices" /\ DevicesNext
     \/ part = "payroll" /\ PayrollNext
     \/ part = "loyalty" /\ LoyaltyNext
     \/ part = "throttle" /\ ThrottleNext
  /\ Still("accounts", accountVars) /\ Still("reviews", reviewVars)
  /\ Still("staff", staffVars) /\ Still("attendance", attendanceVars)
  /\ Still("devices", deviceVars)
  /\ Still("payroll", payrollVars) /\ Still("loyalty", loyaltyVars)
  /\ Still("throttle", throttleVars)

servicesVars == <<part, accountVars, reviewVars, staffVars, attendanceVars, deviceVars,
                  payrollVars, loyaltyVars, throttleVars>>

ServicesSpec == ServicesInit /\ [][ServicesNext]_servicesVars

\* Every variable of every part has its type.
TypesOK == /\ AccountsTypeOK /\ ReviewsTypeOK /\ StaffTypeOK /\ AttendanceTypeOK
           /\ DevicesTypeOK /\ PayrollTypeOK /\ LoyaltyTypeOK /\ ThrottleTypeOK
=============================================================================
