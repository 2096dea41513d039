------------------------------ MODULE Devices ------------------------------
(***************************************************************************)
(* One registered device of product-service and its warranty claims        *)
(* (imei.service.ts, warranty.service.ts and the warranty page).           *)
(*                                                                         *)
(* A claim is checked against what was read and inserted later; the page   *)
(* approves, rejects or resolves the claim it shows, and the update looks  *)
(* at nothing.  A claim has the name of the call that filed it.            *)
(***************************************************************************)
EXTENDS Naturals, FiniteSets

CONSTANTS DeskCalls,      \* requests, each used once
          WarrantyMonths, \* warrantyMonths of the product
          LastMonth       \* bound: months that pass

ASSUME DevicesAssumption == LastMonth \in Nat /\ WarrantyMonths \in Nat

VARIABLES month,    \* the time
          device,   \* the row of imei_records
          claims,   \* warranty_claims, with the sale they were checked against
          desk,     \* call -> its step, the claim and the status of it on the page
          rushed,   \* claims checked while another was being checked or decided (not in the code)
          reopened  \* closed claims that a stale page made active again (not in the code)

deviceVars == <<month, device, claims, desk, rushed, reopened>>

DeviceStatuses == {"IN_STOCK", "SOLD", "REPAIRED", "RETURNED", "SCRAPPED"}
ClaimStatuses == {"PENDING", "APPROVED", "REJECTED", "RESOLVED"}
Active == {"PENDING", "APPROVED"}
NoDate == LastMonth + 1
NoClaim == [status |-> "none", sale |-> NoDate, made |-> NoDate]
NoDesk == [step |-> "idle", claim |-> {}, shown |-> "none", sale |-> NoDate]

DevicesTypeOK ==
  /\ month \in 0..LastMonth
  /\ device \in [status : DeviceStatuses \cup {"none"}, soldAt : 0..NoDate]
  /\ claims \in [DeskCalls -> [status : ClaimStatuses \cup {"none"}, sale : 0..NoDate, made : 0..NoDate]]
  /\ desk \in [DeskCalls -> [step : {"idle", "claim", "page", "ended"}, claim : SUBSET DeskCalls,
                             shown : ClaimStatuses \cup {"none"}, sale : 0..NoDate]]
  /\ rushed \subseteq DeskCalls /\ reopened \subseteq DeskCalls

DevicesInit ==
  /\ month = 0
  /\ device = [status |-> "none", soldAt |-> NoDate]
  /\ claims = [c \in DeskCalls |-> NoClaim]
  /\ desk = [c \in DeskCalls |-> NoDesk]
  /\ rushed = {} /\ reopened = {}

ActiveClaims == {k \in DeskCalls : claims[k].status \in Active}
DeskEnds(c) == desk' = [desk EXCEPT ![c].step = "ended"]

------------------------------------------------------------------------------
(* The register.                                                           *)

\* register, and bulkRegister for one number: a second time it answers 409 or "duplicate".
Register ==
  /\ device.status = "none"
  /\ device' = [device EXCEPT !.status = "IN_STOCK"]
  /\ UNCHANGED <<month, claims, desk, rushed, reopened>>

\* markSold sets the sale date.  No route of the service calls it: without a caller the date
\* stays empty and no claim is ever eligible.
MarkSold ==
  /\ device.status # "none"
  /\ device' = [status |-> "SOLD", soldAt |-> month]
  /\ UNCHANGED <<month, claims, desk, rushed, reopened>>

\* PATCH /imei/:imei/status: any status after any other; the sale date stays as it is.
UpdateDeviceStatus(status) ==
  /\ device.status # "none"
  /\ device' = [device EXCEPT !.status = status]
  /\ UNCHANGED <<month, claims, desk, rushed, reopened>>

MonthPasses ==
  /\ month < LastMonth
  /\ month' = month + 1
  /\ UNCHANGED <<device, claims, desk, rushed, reopened>>

------------------------------------------------------------------------------
(* Claims.                                                                 *)

Covered(sale) == sale # NoDate /\ month <= sale + WarrantyMonths

\* Mutant of Eligible: an approved claim does not count as active.
EligibleIfNonePending ==
  /\ device.status = "SOLD" /\ Covered(device.soldAt)
  /\ \A k \in DeskCalls : claims[k].status # "PENDING"

\* checkEligibility
Eligible == device.status = "SOLD" /\ Covered(device.soldAt) /\ ActiveClaims = {}

Claim(c) ==
  /\ desk[c] = NoDesk
  /\ Eligible
  /\ desk' = [desk EXCEPT ![c] = [NoDesk EXCEPT !.step = "claim", !.sale = device.soldAt]]
  /\ rushed' = LET others == {d \in DeskCalls : desk[d].step = "claim"}
               IN IF others = {} THEN rushed ELSE rushed \cup others \cup {c}
  /\ UNCHANGED <<month, device, claims, reopened>>

ClaimInserted(c) ==
  /\ desk[c].step = "claim"
  /\ claims' = [claims EXCEPT ![c] = [status |-> "PENDING", sale |-> desk[c].sale, made |-> month]]
  /\ DeskEnds(c)
  /\ UNCHANGED <<month, device, rushed, reopened>>

\* The page fetches the claim; its buttons are those of the status it shows.
ShowClaim(c, k) ==
  /\ desk[c] = NoDesk /\ claims[k].status \in Active
  /\ desk' = [desk EXCEPT ![c] = [NoDesk EXCEPT !.step = "page", !.claim = {k},
                                                !.shown = claims[k].status]]
  /\ UNCHANGED <<month, device, claims, rushed, reopened>>

Offered(shown) == IF shown = "PENDING" THEN {"APPROVED", "REJECTED"} ELSE {"RESOLVED"}

\* resolve: an update by id, without a condition.
Resolve(c, k, status) ==
  /\ desk[c].step = "page" /\ desk[c].claim = {k} /\ status \in Offered(desk[c].shown)
  /\ claims' = [claims EXCEPT ![k].status = status]
  /\ reopened' = IF claims[k].status \notin Active /\ status \in Active
                 THEN reopened \cup {k} ELSE reopened
  /\ DeskEnds(c)
  /\ UNCHANGED <<month, device, rushed>>

DeskLost(c) ==
  /\ desk[c].step \in {"claim", "page"}
  /\ DeskEnds(c)
  /\ UNCHANGED <<month, device, claims, rushed, reopened>>

DevicesNext ==
  \/ Register \/ MarkSold \/ MonthPasses
  \/ \E status \in {"SOLD", "RETURNED", "SCRAPPED"} : UpdateDeviceStatus(status)
  \/ \E c \in DeskCalls : \/ Claim(c) \/ ClaimInserted(c) \/ DeskLost(c)
                          \/ \E k \in DeskCalls : \/ ShowClaim(c, k)
                                                  \/ \E status \in ClaimStatuses : Resolve(c, k, status)

DevicesSpec == DevicesInit /\ [][DevicesNext]_deviceVars

------------------------------------------------------------------------------
(* Properties.                                                             *)

\* At most one claim of a device is active ("Active warranty claim exists",
\* warranty.service.ts:31), unless claims were filed side by side or a page that showed a claim
\* as pending approved it after it had been closed.
OneActiveClaim == Cardinality(ActiveClaims \ (rushed \cup reopened)) <= 1
=============================================================================
