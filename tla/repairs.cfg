SPECIFICATION Spec
CONSTANTS
  Tickets = {t1, t2}
  Requests = {r1, r2, r3, r4, r5}
SYMMETRY RequestSymmetry
INVARIANTS TypeOK StatusIsLastEntry SignedWasReady
PROPERTIES TicketNumbersInSequence HistoryFollowsWorkflow
CHECK_DEADLOCK FALSE
