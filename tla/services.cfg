CONSTANTS
  m1 = m1
  c1 = c1
  c2 = c2
  c3 = c3
  c4 = c4
  c5 = c5
  Parts = {"accounts", "reviews", "staff", "attendance", "devices", "payroll", "loyalty",
           "throttle"}
  Calls <- FourCalls
  LockLimit = 2
  NoSession = NoSession
  ReviewCalls <- FiveCalls
  StaffCalls <- FourCalls
  FirstHash = h
  Punches <- FourCalls
  Days = 2
  DeskCalls <- FourCalls
  WarrantyMonths = 1
  LastMonth = 2
  Periods <- MCPeriods
  PayrollCalls <- FourCalls
  Salaries <- MCSalaries
  Withheld <- MCWithheld
  Amounts <- MCAmounts
  Same = Same
  Customers <- MCCustomers
  LoyaltyCalls <- FourCalls
  MaxLoyaltyCalls = 3
  LoyaltyOperations <- EveryOperation
  MaxPoints = 2
  PremiumThreshold = 3
  Visits <- FiveCalls
  Windows = {"burst"}
  Length <- TwoForEach
  Limit <- TwoForEach
  AtOnce = 2
  LastTick = 3
SPECIFICATION ServicesSpec
SYMMETRY CallSymmetry
INVARIANTS
  TypesOK
  CodesSpentOnce FailedLoginsCounted EndedSessionsStayEnded
  ReviewsModerated StaffAccountKept AttendanceKept OneActiveClaim
  NetPayExplained BalanceIsLedger OverdraftBounded PremiumIsEarned
  ThrottleKept
PROPERTY LogFollowsWorkflow
CHECK_DEADLOCK FALSE
