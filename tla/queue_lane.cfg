SPECIFICATION Spec
CONSTANTS
  j1 = j1
  j2 = j2
  t1 = t1
  w1 = w1
  w2 = w2
  NoJob = NoJob
  NoWorker = NoWorker
  Jobs = {j1, j2}
  Tickets = {t1}
  Workers = {w1, w2}
  TicketOf <- OneTicket
  MaxAttempts = 1
  MaxGeneration = 1
  Backlog = 2
  MaxCrashes = 0
  MaxRedisFaults = 0
  CanAge = FALSE
  CanArchive = FALSE
SYMMETRY Symmetric
INVARIANTS
  LaneInOrder
PROPERTIES
  KeepsLane
CHECK_DEADLOCK FALSE
