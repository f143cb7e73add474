SPECIFICATION Spec
CONSTANTS
    Entries = {1, 2}
    Jobs = {"a"}
    JobOf <- OneJob
    NoEntry = 0
    Trims = {t1, t2}
    MaxCrashes = 2
    MaxLosses = 1
INVARIANT TypeOK
INVARIANT LineageOutlivesEntry
INVARIANT AuthorizedRowsFrozen
INVARIANT StampedAfterReceipt
PROPERTY PendingNeverTrimmed
PROPERTY FinalizedStaysFinal
