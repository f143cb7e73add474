SPECIFICATION Spec
CONSTANTS
  j1 = j1
  j2 = j2
  t1 = t1
  w1 = w1
  w2 = w2
  NoJob = NoJob
  NoWorker = NoWorker
  Jobs = {j1}
  Tickets = {t1}
  Workers = {w1, w2}
  TicketOf <- OneTicket
  MaxAttempts = 2
  MaxGeneration = 2
  Backlog = 2
  MaxCrashes = 1
  MaxRedisFaults = 1
  CanAge = TRUE
  CanArchive = FALSE
SYMMETRY Symmetric
INVARIANTS
  TypeOK
  ActivePointerConsistent
  ExclusiveFence
  AckOnlyDurable
  AdmittedIsDue
  PublishedRowFound
PROPERTIES
  StaleWorkerHarmless
  LiveLeaseRespected
  FinishedIsFinal
  NoRivalGeneration
CHECK_DEADLOCK FALSE
