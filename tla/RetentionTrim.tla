--------------------------- MODULE RetentionTrim ---------------------------
(***************************************************************************)
(* The cross-store trim of terminal deliveries: the maintenance command    *)
(* trim_terminal_deliveries, the three SQL capabilities that authorise,    *)
(* abort and finalize a trim intent, and the two Redis scripts.            *)
(*                                                                         *)
(* An entry of the stream is removed in four durable steps, none of which  *)
(* is atomic with the next: authorise (PostgreSQL), XDEL and tombstone     *)
(* (Redis), delete the delivery's rows (PostgreSQL), give the tombstone a  *)
(* time to live (Redis) and confirm it (PostgreSQL).  The writer barrier   *)
(* is shared, so workers, and a second trim, run at the same time.         *)
(*                                                                         *)
(* Module RuntimeQueue models how a delivery is consumed; here a worker    *)
(* keeps only what the trim can see of it: its place in the pending list   *)
(* of the consumer group, the row it writes, and the XACK that follows.    *)
(***************************************************************************)
EXTENDS Integers, FiniteSets

CONSTANTS
    Entries,       \* stream entries, naturals in stream order
    Jobs,          \* runtime jobs
    JobOf,         \* the job an entry delivers; two entries of one job are
                   \* the two XADDs of a publication repeated after a crash
    NoEntry,       \* no entry
    Trims,         \* runs of the maintenance command that may overlap
    MaxCrashes,    \* bound on crashes of the command
    MaxLosses      \* bound on losses of the Redis data

ASSUME TrimAssumption ==
    /\ Entries \subseteq Nat
    /\ JobOf \in [Entries -> Jobs]
    /\ NoEntry \notin Entries
    /\ MaxCrashes \in Nat
    /\ MaxLosses \in Nat

VARIABLES
    entry,       \* where an entry is: unread, pending, settling, acked, gone
    tombstone,   \* the tombstone hash of an entry
    marked,      \* outbox_events.redis_message_id of a job
    rows,        \* jobs whose outbox and inbox rows still exist
    terminal,    \* jobs that are succeeded or dead
    inbox,       \* inbox_deliveries.redis_message_id of a job
    aged,        \* jobs whose retention anchor is older than seven days
    intent,      \* retention_trim_intents.status of an entry
    pinned,      \* entries whose intent still names the current version
    receipt,     \* retention_trim_receipts.redis_receipt_hash of an entry
    pc,          \* the step each trim is at
    cur,         \* the entry each trim works on
    todo,        \* the entries a trim has still to visit in this phase
    evidence,    \* the Redis receipt hash a trim holds
    crashes, losses

redisVars == <<entry, tombstone>>
rowVars   == <<marked, rows, terminal, inbox, aged>>
auditVars == <<intent, pinned, receipt>>
trimVars  == <<pc, cur, todo, evidence>>
bounds    == <<crashes, losses>>
vars      == <<redisVars, rowVars, auditVars, trimVars, bounds>>

\* The pending list of the one consumer group.
PEL == {e \in Entries : entry[e] \in {"pending", "settling"}}

Published == {m \in [Jobs -> Entries] : \A j \in Jobs : JobOf[m[j]] = j}

\* Every job has been published, some of them twice; nothing is consumed yet.
Init ==
    /\ entry = [e \in Entries |-> "unread"]
    /\ tombstone = [e \in Entries |-> "none"]
    /\ marked \in Published
    /\ rows = Jobs
    /\ terminal = {}
    /\ inbox = [j \in Jobs |-> NoEntry]
    /\ aged = {}
    /\ intent = [e \in Entries |-> "none"]
    /\ pinned = {}
    /\ receipt = [e \in Entries |-> "none"]
    /\ pc = [t \in Trims |-> "idle"]
    /\ cur = [t \in Trims |-> NoEntry]
    /\ todo = [t \in Trims |-> {}]
    /\ evidence = [t \in Trims |-> "none"]
    /\ crashes = 0
    /\ losses = 0

-----------------------------------------------------------------------------
\* Workers.

\* XREADGROUP hands entries out in stream order.
Read(e) ==
    /\ entry[e] = "unread"
    /\ \A f \in Entries : f < e => entry[f] # "unread"
    /\ entry' = [entry EXCEPT ![e] = "pending"]
    /\ UNCHANGED <<tombstone, rowVars, auditVars, trimVars, bounds>>

\* Mutant: the guard trigger looks for intents in doubt only.
TrimPending_UnknownOnly(j) ==
    \E e \in Entries : JobOf[e] = j /\ intent[e] = "unknown"

\* The trim guard refuses every write to the rows of a job with such an intent.
TrimPending(j) ==
    \E e \in Entries : JobOf[e] = j /\ intent[e] \in {"authorized", "unknown"}

\* The delivery's first acceptance claims the job and the attempt ends it.
Complete(e) ==
    LET j == JobOf[e] IN
    /\ entry[e] = "pending"
    /\ j \in rows \ terminal
    /\ terminal' = terminal \cup {j}
    /\ inbox' = [inbox EXCEPT ![j] = e]
    /\ entry' = [entry EXCEPT ![e] = "settling"]
    /\ UNCHANGED <<tombstone, marked, rows, aged, auditVars, trimVars, bounds>>

\* A second delivery of a finished job updates its inbox row, which moves the
\* version of the delivery; with a trim in progress the guard raises instead
\* and the entry stays pending.
AcceptTerminal(e) ==
    LET j == JobOf[e] IN
    /\ entry[e] = "pending"
    /\ j \in rows \cap terminal
    /\ ~TrimPending(j)
    /\ pinned' = {f \in pinned : JobOf[f] # j}
    /\ entry' = [entry EXCEPT ![e] = "settling"]
    /\ UNCHANGED <<tombstone, rowVars, intent, receipt, trimVars, bounds>>

\* The rows are gone: rejected_untrusted_envelope, to be acknowledged.
AcceptUnknown(e) ==
    /\ entry[e] = "pending"
    /\ JobOf[e] \notin rows
    /\ entry' = [entry EXCEPT ![e] = "settling"]
    /\ UNCHANGED <<tombstone, rowVars, auditVars, trimVars, bounds>>

XAck(e) ==
    /\ entry[e] = "settling"
    /\ entry' = [entry EXCEPT ![e] = "acked"]
    /\ UNCHANGED <<tombstone, rowVars, auditVars, trimVars, bounds>>

\* A worker dies between its commit and its XACK; XAUTOCLAIM finds the entry.
WorkerCrash(e) ==
    /\ entry[e] = "settling"
    /\ entry' = [entry EXCEPT ![e] = "pending"]
    /\ UNCHANGED <<tombstone, rowVars, auditVars, trimVars, bounds>>

\* Mutant: a job ages whatever its status.
Ages_AnyJob(j) ==
    /\ j \notin aged
    /\ aged' = aged \cup {j}
    /\ UNCHANGED <<redisVars, marked, rows, terminal, inbox, auditVars, trimVars, bounds>>

\* Seven days pass after the last terminal timestamp of the delivery.
Ages(j) ==
    /\ j \in terminal \ aged
    /\ aged' = aged \cup {j}
    /\ UNCHANGED <<redisVars, marked, rows, terminal, inbox, auditVars, trimVars, bounds>>

-----------------------------------------------------------------------------
\* The SQL capabilities and the Redis scripts.

\* supportguard_maintenance_trim_eligibility.  A job protected by an approval
\* or by the lineage of a reconcile intent is one that never ages here.
Eligible(j) ==
    /\ j \in terminal \cap rows \cap aged
    /\ inbox[j] = marked[j]

\* supportguard_maintenance_finalize_trim, on an intent not yet finalized.
CanFinalize(e) ==
    /\ intent[e] = "authorized"
    /\ Eligible(JobOf[e])
    /\ e \in pinned

\* The same capability on a finalized intent only compares the Redis receipt.
SameReceipt(e, r) == intent[e] \in {"finalized", "confirmed"} /\ receipt[e] = r

\* Mutant: the script does not read the pending list again.
Trimmable_TrustsScan(e) == entry[e] # "gone"

\* RETENTION_TRIM_SCRIPT removes an entry that is in the stream and in no
\* pending list, and leaves the tombstone in the same script.
Trimmable(e) == entry[e] \in {"unread", "acked"}

TrimScriptDeletes(e) == tombstone[e] = "none" /\ Trimmable(e)
TrimScriptReuses(e)  == tombstone[e] = "redis_trimmed"
TrimScriptDenies(e)  == ~TrimScriptDeletes(e) /\ ~TrimScriptReuses(e)

\* RETENTION_FINALIZE_TOMBSTONE_SCRIPT answers 1; the receipt hash it compares
\* is the one PostgreSQL stored once for the intent.
StampAccepted(e) == tombstone[e] \in {"redis_trimmed", "pg_finalized"}

-----------------------------------------------------------------------------
\* The maintenance command, one run of it being a trim t.

Goto(t, p) == pc' = [pc EXCEPT ![t] = p]

\* Any error raised by a capability ends the run.
Raise(t) ==
    /\ Goto(t, "idle")
    /\ cur' = [cur EXCEPT ![t] = NoEntry]
    /\ todo' = [todo EXCEPT ![t] = {}]
    /\ evidence' = [evidence EXCEPT ![t] = "none"]
    /\ UNCHANGED <<redisVars, rowVars, auditVars, bounds>>

\* retention_report('pending_ttl').
PendingTtl == {e \in Entries : intent[e] = "finalized"}

StartRun(t) ==
    /\ pc[t] = "idle"
    /\ Goto(t, "ttl")
    /\ todo' = [todo EXCEPT ![t] = PendingTtl]
    /\ UNCHANGED <<redisVars, rowVars, auditVars, cur, evidence, bounds>>

\* Stamp the tombstone of a finalized intent; a refused stamp leaves it.
TtlStamp(t, e) ==
    /\ pc[t] = "ttl"
    /\ e \in todo[t]
    /\ todo' = [todo EXCEPT ![t] = @ \ {e}]
    /\ IF StampAccepted(e)
       THEN /\ tombstone' = [tombstone EXCEPT ![e] = "pg_finalized"]
            /\ cur' = [cur EXCEPT ![t] = e]
            /\ Goto(t, "ttlConfirm")
       ELSE UNCHANGED <<tombstone, cur, pc>>
    /\ UNCHANGED <<entry, rowVars, auditVars, evidence, bounds>>

\* The confirmation uses the stored receipt, so it is never refused.
TtlConfirm(t) ==
    /\ pc[t] = "ttlConfirm"
    /\ intent' = [intent EXCEPT ![cur[t]] = "confirmed"]
    /\ cur' = [cur EXCEPT ![t] = NoEntry]
    /\ Goto(t, "ttl")
    /\ UNCHANGED <<redisVars, rowVars, pinned, receipt, todo, evidence, bounds>>

\* retention_report('active').
ReportActive(t) ==
    /\ pc[t] = "ttl"
    /\ todo[t] = {}
    /\ todo' = [todo EXCEPT ![t] = {e \in Entries : intent[e] \in {"authorized", "unknown"}}]
    /\ Goto(t, "active")
    /\ UNCHANGED <<redisVars, rowVars, auditVars, cur, evidence, bounds>>

\* Mutant: an intent is taken as executed without its tombstone.
TombstoneProves_Presumed(e) == TRUE

TombstoneProves(e) == tombstone[e] = "redis_trimmed"

\* Mutant: the tombstone is given its time to live before the receipt is stored.
ReadTombstone_StampFirst(t, e) ==
    /\ pc[t] = "active"
    /\ e \in todo[t]
    /\ todo' = [todo EXCEPT ![t] = @ \ {e}]
    /\ cur' = [cur EXCEPT ![t] = e]
    /\ evidence' = [evidence EXCEPT ![t] = IF TombstoneProves(e) THEN "tombstone" ELSE "none"]
    /\ Goto(t, IF TombstoneProves(e) THEN "stamp" ELSE "unknown")
    /\ UNCHANGED <<redisVars, rowVars, auditVars, bounds>>

\* HGETALL of the tombstone of an active intent decides how it is recovered.
ReadTombstone(t, e) ==
    /\ pc[t] = "active"
    /\ e \in todo[t]
    /\ todo' = [todo EXCEPT ![t] = @ \ {e}]
    /\ cur' = [cur EXCEPT ![t] = e]
    /\ evidence' = [evidence EXCEPT ![t] = IF TombstoneProves(e) THEN "tombstone" ELSE "none"]
    /\ Goto(t, IF TombstoneProves(e) THEN "finalize" ELSE "unknown")
    /\ UNCHANGED <<redisVars, rowVars, auditVars, bounds>>

\* Mutant: the status of the intent is not looked at.
MarkUnknown_AnyStatus(t) ==
    /\ pc[t] = "unknown"
    /\ intent' = [intent EXCEPT ![cur[t]] = "unknown"]
    /\ cur' = [cur EXCEPT ![t] = NoEntry]
    /\ Goto(t, "active")
    /\ UNCHANGED <<redisVars, rowVars, pinned, receipt, todo, evidence, bounds>>

\* abort_trim with the hash that says the XDEL is unknown.
MarkUnknown(t) ==
    /\ pc[t] = "unknown"
    /\ intent[cur[t]] \in {"authorized", "unknown"}
    /\ intent' = [intent EXCEPT ![cur[t]] = "unknown"]
    /\ cur' = [cur EXCEPT ![t] = NoEntry]
    /\ Goto(t, "active")
    /\ UNCHANGED <<redisVars, rowVars, pinned, receipt, todo, evidence, bounds>>

MarkUnknownRaises(t) ==
    /\ pc[t] = "unknown"
    /\ intent[cur[t]] \notin {"authorized", "unknown"}
    /\ Raise(t)

\* _pending_message_ids: what the group has pending before the scan.
ReadPending(t) ==
    /\ pc[t] = "active"
    /\ todo[t] = {}
    /\ todo' = [todo EXCEPT ![t] = Entries \ PEL]
    /\ Goto(t, "scan")
    /\ UNCHANGED <<redisVars, rowVars, auditVars, cur, evidence, bounds>>

\* XRANGE, and the eligibility of the job of each entry found.
Scan(t) ==
    /\ pc[t] = "scan"
    /\ todo' = [todo EXCEPT ![t] = {e \in @ : entry[e] # "gone" /\ Eligible(JobOf[e])}]
    /\ Goto(t, "direct")
    /\ UNCHANGED <<redisVars, rowVars, auditVars, cur, evidence, bounds>>

\* The eligible entries are visited in stream order.
NextEntry(t, e) == e \in todo[t] /\ \A f \in todo[t] : e <= f

\* authorize_trim finds the un-superseded outbox row by the entry's own id,
\* checks eligibility again, and inserts the intent unless one exists.
Authorizable(e) ==
    /\ JobOf[e] \in rows
    /\ marked[JobOf[e]] = e
    /\ Eligible(JobOf[e])
    /\ intent[e] # "none" => e \in pinned /\ intent[e] \in {"authorized", "finalized", "confirmed"}

Authorize(t, e) ==
    /\ pc[t] = "direct"
    /\ NextEntry(t, e)
    /\ Authorizable(e)
    /\ IF intent[e] = "none"
       THEN /\ intent' = [intent EXCEPT ![e] = "authorized"]
            /\ pinned' = pinned \cup {e}
       ELSE UNCHANGED <<intent, pinned>>
    /\ todo' = [todo EXCEPT ![t] = @ \ {e}]
    /\ cur' = [cur EXCEPT ![t] = e]
    /\ Goto(t, "script")
    /\ UNCHANGED <<redisVars, rowVars, receipt, evidence, bounds>>

AuthorizeRaises(t, e) ==
    /\ pc[t] = "direct"
    /\ NextEntry(t, e)
    /\ ~Authorizable(e)
    /\ Raise(t)

EndRun(t) ==
    /\ pc[t] = "direct"
    /\ todo[t] = {}
    /\ Raise(t)

\* The trim script, when it removes the entry or finds that it already did.
XDel(t) ==
    LET e == cur[t] IN
    /\ pc[t] = "script"
    /\ ~TrimScriptDenies(e)
    /\ IF TrimScriptDeletes(e)
       THEN /\ entry' = [entry EXCEPT ![e] = "gone"]
            /\ tombstone' = [tombstone EXCEPT ![e] = "redis_trimmed"]
            /\ evidence' = [evidence EXCEPT ![t] = "trimmed"]
       ELSE /\ evidence' = [evidence EXCEPT ![t] = "reused"]
            /\ UNCHANGED redisVars
    /\ Goto(t, "finalize")
    /\ UNCHANGED <<rowVars, auditVars, cur, todo, bounds>>

XDelDenied(t) ==
    /\ pc[t] = "script"
    /\ TrimScriptDenies(cur[t])
    /\ Goto(t, "abort")
    /\ UNCHANGED <<redisVars, rowVars, auditVars, cur, todo, evidence, bounds>>

\* abort_trim with the hash that says the XDEL was not applied.
Abort(t) ==
    /\ pc[t] = "abort"
    /\ intent[cur[t]] \in {"authorized", "aborted"}
    /\ intent' = [intent EXCEPT ![cur[t]] = "aborted"]
    /\ cur' = [cur EXCEPT ![t] = NoEntry]
    /\ Goto(t, "direct")
    /\ UNCHANGED <<redisVars, rowVars, pinned, receipt, todo, evidence, bounds>>

AbortRaises(t) ==
    /\ pc[t] = "abort"
    /\ intent[cur[t]] \notin {"authorized", "aborted"}
    /\ Raise(t)

\* finalize_trim deletes the inbox and the outbox row and writes the receipt.
Finalize(t) ==
    LET e == cur[t] IN
    /\ pc[t] = "finalize"
    /\ CanFinalize(e)
    /\ rows' = rows \ {JobOf[e]}
    /\ intent' = [intent EXCEPT ![e] = "finalized"]
    /\ receipt' = [receipt EXCEPT ![e] = evidence[t]]
    /\ Goto(t, "stamp")
    /\ UNCHANGED <<redisVars, marked, terminal, inbox, aged, pinned, cur, todo, evidence, bounds>>

\* Another trim finalized the intent with the same Redis receipt; the
\* capability takes this call for the confirmation of the time to live.
FinalizeReused(t) ==
    /\ pc[t] = "finalize"
    /\ SameReceipt(cur[t], evidence[t])
    /\ intent' = [intent EXCEPT ![cur[t]] = "confirmed"]
    /\ Goto(t, "stamp")
    /\ UNCHANGED <<redisVars, rowVars, pinned, receipt, cur, todo, evidence, bounds>>

FinalizeRaises(t) ==
    /\ pc[t] = "finalize"
    /\ ~CanFinalize(cur[t])
    /\ ~SameReceipt(cur[t], evidence[t])
    /\ Raise(t)

Stamp(t) ==
    /\ pc[t] = "stamp"
    /\ StampAccepted(cur[t])
    /\ tombstone' = [tombstone EXCEPT ![cur[t]] = "pg_finalized"]
    /\ Goto(t, "confirm")
    /\ UNCHANGED <<entry, rowVars, auditVars, cur, todo, evidence, bounds>>

StampRaises(t) ==
    /\ pc[t] = "stamp"
    /\ ~StampAccepted(cur[t])
    /\ Raise(t)

\* The second finalize_trim, then the next entry of the phase the run is in.
Confirm(t) ==
    /\ pc[t] = "confirm"
    /\ SameReceipt(cur[t], evidence[t])
    /\ intent' = [intent EXCEPT ![cur[t]] = "confirmed"]
    /\ cur' = [cur EXCEPT ![t] = NoEntry]
    /\ evidence' = [evidence EXCEPT ![t] = "none"]
    /\ Goto(t, IF evidence[t] = "tombstone" THEN "active" ELSE "direct")
    /\ UNCHANGED <<redisVars, rowVars, pinned, receipt, todo, bounds>>

Crash(t) ==
    /\ pc[t] # "idle"
    /\ crashes < MaxCrashes
    /\ crashes' = crashes + 1
    /\ Goto(t, "idle")
    /\ cur' = [cur EXCEPT ![t] = NoEntry]
    /\ todo' = [todo EXCEPT ![t] = {}]
    /\ evidence' = [evidence EXCEPT ![t] = "none"]
    /\ UNCHANGED <<redisVars, rowVars, auditVars, losses>>

\* Redis restarts empty: entries, pending list and tombstones are lost.
RedisLoss ==
    /\ losses < MaxLosses
    /\ losses' = losses + 1
    /\ entry' = [e \in Entries |-> "gone"]
    /\ tombstone' = [e \in Entries |-> "none"]
    /\ UNCHANGED <<rowVars, auditVars, trimVars, crashes>>

\* The seven days the stamp set elapse.  Nothing makes an operator run the
\* command within them, so a stamp may expire before it is confirmed.
TombstoneExpires(e) ==
    /\ tombstone[e] = "pg_finalized"
    /\ tombstone' = [tombstone EXCEPT ![e] = "none"]
    /\ UNCHANGED <<entry, rowVars, auditVars, trimVars, bounds>>

Worker(e) ==
    \/ Read(e)
    \/ Complete(e)
    \/ AcceptTerminal(e)
    \/ AcceptUnknown(e)
    \/ XAck(e)
    \/ WorkerCrash(e)

Run(t) ==
    \/ StartRun(t)
    \/ TtlConfirm(t)
    \/ ReportActive(t)
    \/ MarkUnknown(t) \/ MarkUnknownRaises(t)
    \/ ReadPending(t)
    \/ Scan(t)
    \/ EndRun(t)
    \/ XDel(t) \/ XDelDenied(t)
    \/ Abort(t) \/ AbortRaises(t)
    \/ Finalize(t) \/ FinalizeReused(t) \/ FinalizeRaises(t)
    \/ Stamp(t) \/ StampRaises(t)
    \/ Confirm(t)
    \/ \E e \in Entries :
          \/ TtlStamp(t, e)
          \/ ReadTombstone(t, e)
          \/ Authorize(t, e) \/ AuthorizeRaises(t, e)

Next ==
    \/ \E e \in Entries : Worker(e) \/ TombstoneExpires(e)
    \/ \E j \in Jobs : Ages(j)
    \/ \E t \in Trims : Run(t) \/ Crash(t)
    \/ RedisLoss

Spec == Init /\ [][Next]_vars

-----------------------------------------------------------------------------

\* Every variable of the trim pass keeps its type, and only terminal jobs age.
TypeOK ==
    /\ entry \in [Entries -> {"unread", "pending", "settling", "acked", "gone"}]
    /\ tombstone \in [Entries -> {"none", "redis_trimmed", "pg_finalized"}]
    /\ marked \in Published
    /\ rows \subseteq Jobs /\ terminal \subseteq Jobs /\ aged \subseteq terminal
    /\ inbox \in [Jobs -> Entries \cup {NoEntry}]
    /\ intent \in [Entries -> {"none", "authorized", "finalized", "confirmed",
                              "aborted", "unknown"}]
    /\ pinned \subseteq Entries
    /\ receipt \in [Entries -> {"none", "trimmed", "reused", "tombstone"}]
    /\ pc \in [Trims -> {"idle", "ttl", "ttlConfirm", "active", "unknown", "scan", "direct",
                         "script", "abort", "finalize", "stamp", "confirm"}]
    /\ cur \in [Trims -> Entries \cup {NoEntry}]
    /\ todo \in [Trims -> SUBSET Entries]
    /\ evidence \in [Trims -> {"none", "trimmed", "reused", "tombstone"}]
    /\ crashes \in 0..MaxCrashes
    /\ losses \in 0..MaxLosses

\* The outbox and inbox rows of a delivery, the only record that it was ever
\* published, are deleted only after its stream entry is gone: whatever crashes
\* and overlapping runs happen between authorize_trim, the XDEL script and
\* finalize_trim, the entry the outbox row names never outlives the row.  (The
\* twin of a publication repeated after a crash has no row that names it and
\* may: a worker that reads it then takes AcceptUnknown.)
LineageOutlivesEntry ==
    \A j \in Jobs : j \notin rows => entry[marked[j]] = "gone"

\* The rows an intent was authorised for do not change until the intent is
\* settled: a redelivery between authorize_trim and finalize_trim is stopped by
\* the trim guard, so the version that finalize_trim compares cannot have moved.
AuthorizedRowsFrozen ==
    \A e \in Entries : intent[e] = "authorized" =>
        e \in pinned /\ Eligible(JobOf[e])

\* A tombstone gets its time to live only once PostgreSQL holds the receipt of
\* the trim; before that it is the only evidence that the XDEL happened, and it
\* must not expire.
StampedAfterReceipt ==
    \A e \in Entries : tombstone[e] = "pg_finalized" =>
        intent[e] \in {"finalized", "confirmed"} /\ receipt[e] # "none"

\* No trim removes an entry that a worker has read and not acknowledged: the
\* script looks at the pending list again, whatever the scan saw earlier.
PendingNeverTrimmed ==
    [][\A e \in Entries : e \in PEL /\ entry'[e] = "gone" => losses' # losses]_vars

\* A trim that PostgreSQL has finalized is never reopened, nor its receipt
\* replaced: an overlapping run may have listed the intent as active, or been
\* denied by the script, before the other one finalized it, and then find the
\* tombstone stamped or expired; abort_trim and finalize_trim refuse what it
\* concludes from that.
FinalizedStaysFinal ==
    [][\A e \in Entries : intent[e] \in {"finalized", "confirmed"} =>
          /\ intent'[e] \in {"confirmed", intent[e]}
          /\ receipt'[e] = receipt[e]]_vars

=============================================================================
