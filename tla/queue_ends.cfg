SPECIFICATION FairSpec
CONSTANTS
  j1 = j1
  j2 = j2
  t1 = t1
  w1 = w1
  w2 = w2
  NoJob = NoJob
  NoWorker = NoWorker
  Jobs = {j1}
  Tickets = {t1}
  Workers = {w1}
  TicketOf <- OneTicket
  MaxAttempts = 2
  MaxGeneration = 2
  Backlog = 2
  MaxCrashes = 1
  MaxRedisFaults = 0
  CanAge = TRUE
  CanArchive = TRUE
PROPERTY EveryJobEnds
CHECK_DEADLOCK FALSE
