---------------------------- MODULE RuntimeQueue ----------------------------
(***************************************************************************)
(* The durable job queue: the API transaction that accepts a message, the  *)
(* transactional Outbox, the Dispatcher, the Redis stream with its consumer *)
(* group, the fenced Workers and the Reconciler.                            *)
(*                                                                         *)
(* PostgreSQL is the truth.  Every capability function of baseline.sql     *)
(* locks the Ticket first and commits alone, so each is one atomic action; *)
(* every Redis command is one atomic action; a process can crash between   *)
(* any two of them.                                                        *)
(*                                                                         *)
(* Only jobs of kind agent_start are modelled here, so a run has one job   *)
(* and run columns are indexed by the job.                                 *)
(***************************************************************************)
EXTENDS Naturals, Sequences, FiniteSets

CONSTANTS
    Jobs,           \* runtime_jobs of kind agent_start (with their run)
    Tickets,        \* support_tickets
    Workers,        \* worker processes; the name is lease_owner and consumer
    TicketOf,       \* the ticket a job belongs to
    NoJob, NoWorker,
    MaxAttempts,    \* timing.max_attempts
    MaxGeneration,  \* timing.max_delivery_generation
    Backlog,        \* timing.backlog_count_limit
    MaxCrashes,     \* bound: process crashes explored
    MaxRedisFaults, \* bound: losses of the Redis data set and failed commands
    CanAge,         \* whether jobs may reach timing.max_job_age_seconds
    CanArchive      \* whether the customer archives and restores tickets

ASSUME QueueAssumption ==
    /\ TicketOf \in [Jobs -> Tickets]
    /\ NoJob \notin Jobs
    /\ NoWorker \notin Workers
    /\ MaxAttempts \in Nat \ {0}
    /\ MaxGeneration \in Nat \ {0}
    /\ Backlog \in Nat /\ MaxCrashes \in Nat /\ MaxRedisFaults \in Nat
    /\ CanAge \in BOOLEAN /\ CanArchive \in BOOLEAN

VARIABLES
    \* support_tickets
    topen,      \* lifecycle = 'active' and automation_mode = 'agent'
    tseq,       \* next_dispatch_sequence: the last sequence number allocated
    \* runtime_jobs
    jseq,       \* dispatch_sequence, 0 while the row does not exist
    jstatus, jattempt, jfence, jowner,
    jlease,     \* lease_expires_at: NULL, in the future, or past
    jhold,      \* delivery_hold_reason = 'state_unknown'
    jdue,       \* available_at <= now
    jaged,      \* older than max_job_age_seconds
    joutcome,   \* "terminal_state" stands for what a finalizer stores before
                \* the handoff: resolved, needs_clarification, ...
    \* agent_runs
    rstatus,
    ractive,    \* active_fencing_token when active_job_id is set, else 0
    \* the un-superseded outbox row of each job and its inbox row
    ogen, opub, odue, ibox,
    \* reconcile_intents
    intent,     \* "none" unless an active intent exists whose prepared versions
                \* still hold; then "fresh", or "expired" past its expires_at
    \* Redis: the stream, the group's last-delivered id, its pending entries
    stream, read, pel, gone, group,
    \* Dispatcher, Workers, Reconciler
    dbatch, dmark,
    wpc, wmsg, wfence,
    rpc, rbatch, rjob, rfresh, robs,
    crashes, faults

jobVars  == <<jseq, jstatus, jattempt, jfence, jowner, jlease, jhold, jdue,
              jaged, joutcome>>
runVars  == <<rstatus, ractive>>
boxVars  == <<ogen, opub, odue, ibox>>
redisVars == <<stream, read, pel, gone, group>>
dispVars == <<dbatch, dmark>>
workVars == <<wpc, wmsg, wfence>>
recVars  == <<intent, rpc, rbatch, rjob, rfresh, robs>>
envVars  == <<topen, tseq, crashes, faults>>
vars == <<jobVars, runVars, boxVars, redisVars, dispVars, workVars, recVars,
          envVars>>

Pending  == {"queued", "retry_wait"}
Live     == Pending \cup {"leased"}
Terminal == {"succeeded", "dead"}
NoObservation == [known |-> FALSE, present |-> FALSE, pending |-> FALSE]

Init ==
    /\ topen = [t \in Tickets |-> TRUE]
    /\ tseq = [t \in Tickets |-> 0]
    /\ jseq = [j \in Jobs |-> 0]
    /\ jstatus = [j \in Jobs |-> "none"]
    /\ jattempt = [j \in Jobs |-> 0]
    /\ jfence = [j \in Jobs |-> 0]
    /\ jowner = [j \in Jobs |-> NoWorker]
    /\ jlease = [j \in Jobs |-> "none"]
    /\ jhold = [j \in Jobs |-> FALSE]
    /\ jdue = [j \in Jobs |-> FALSE]
    /\ jaged = [j \in Jobs |-> FALSE]
    /\ joutcome = [j \in Jobs |-> "none"]
    /\ rstatus = [j \in Jobs |-> "none"]
    /\ ractive = [j \in Jobs |-> 0]
    /\ ogen = [j \in Jobs |-> 0]
    /\ opub = [j \in Jobs |-> 0]
    /\ odue = [j \in Jobs |-> FALSE]
    /\ ibox = [j \in Jobs |-> "none"]
    /\ intent = [j \in Jobs |-> "none"]
    /\ stream = <<>> /\ read = 0 /\ pel = {} /\ gone = 0 /\ group = FALSE
    /\ dbatch = {} /\ dmark = [job |-> NoJob, msg |-> 0]
    /\ wpc = [w \in Workers |-> "idle"]
    /\ wmsg = [w \in Workers |-> 0]
    /\ wfence = [w \in Workers |-> 0]
    /\ rpc = "idle" /\ rbatch = {} /\ rjob = NoJob /\ rfresh = FALSE
    /\ robs = NoObservation
    /\ crashes = 0 /\ faults = 0

-----------------------------------------------------------------------------
(* Optimistic versions.  status_version and delivery_state_version only     *)
(* grow, and the Reconciler only compares them for equality, so they are    *)
(* modelled by what the comparison yields: rbatch and rfresh say that the   *)
(* status_version read by reconciler_candidates is still the job's, intent  *)
(* that the versions and inbox hash stored by reconciler_prepare still are. *)

\* Mutant: the write forgets to increment status_version.
BumpJob_NoVersion(j) == UNCHANGED <<intent, rbatch, rfresh>>

\* A write that increments runtime_jobs.status_version of job j.
BumpJob(j) ==
    /\ intent' = [intent EXCEPT ![j] = "none"]
    /\ rbatch' = rbatch \ {j}
    /\ rfresh' = (rfresh /\ rjob # j)

\* supportguard_delivery_state_version_guard: an outbox publication or any
\* inbox write moves delivery_state_version.
BumpDelivery(j) ==
    /\ intent' = [intent EXCEPT ![j] = "none"]
    /\ UNCHANGED <<rbatch, rfresh>>

SameVersions == UNCHANGED <<intent, rbatch, rfresh>>

-----------------------------------------------------------------------------
(* API *)

\* The backlog is full, or its oldest job is too old: oldest_backlog_seconds and
\* max_job_age_seconds are one setting, so that is a job past its age limit.
Backpressure ==
    LET backlog == {j \in Jobs : jstatus[j] \in Live} IN
    \/ Cardinality(backlog) + 1 > Backlog
    \/ \E j \in backlog : jaged[j]

\* A customer message on an active ticket in agent mode: run, job and outbox
\* row are inserted by one transaction.
AcceptMessage(j) ==
    /\ jseq[j] = 0
    /\ topen[TicketOf[j]]
    /\ ~Backpressure
    /\ tseq' = [tseq EXCEPT ![TicketOf[j]] = @ + 1]
    /\ jseq' = [jseq EXCEPT ![j] = tseq[TicketOf[j]] + 1]
    /\ jstatus' = [jstatus EXCEPT ![j] = "queued"]
    /\ jdue' = [jdue EXCEPT ![j] = TRUE]
    /\ rstatus' = [rstatus EXCEPT ![j] = "queued"]
    /\ ogen' = [ogen EXCEPT ![j] = 1]
    /\ odue' = [odue EXCEPT ![j] = TRUE]
    /\ UNCHANGED <<jattempt, jfence, jowner, jlease, jhold, jaged, joutcome,
                   ractive, opub, ibox, redisVars, dispVars, workVars,
                   recVars, topen, crashes, faults>>

\* Archive or restore: the lifecycle flips, jobs are left alone.
TransitionConversation(t) ==
    /\ CanArchive
    /\ topen' = [topen EXCEPT ![t] = ~@]
    /\ UNCHANGED <<jobVars, runVars, boxVars, redisVars, dispVars, workVars,
                   recVars, tseq, crashes, faults>>

-----------------------------------------------------------------------------
(* Dispatcher *)

\* Mutant: rows that are already published are claimed again.
ClaimOutbox_Republishes ==
    LET rows == {j \in Jobs : ogen[j] # 0 /\ odue[j]} IN
    /\ dbatch = {} /\ dmark.job = NoJob
    /\ rows # {}
    /\ dbatch' = rows
    /\ UNCHANGED <<jobVars, runVars, boxVars, redisVars, dmark, workVars,
                   recVars, envVars>>

\* dispatcher_claim_outbox: take every unpublished row that is available and
\* push its available_at 30 seconds ahead.
ClaimOutbox ==
    LET rows == {j \in Jobs : ogen[j] # 0 /\ opub[j] = 0 /\ odue[j]} IN
    /\ dbatch = {} /\ dmark.job = NoJob
    /\ rows # {}
    /\ dbatch' = rows
    /\ odue' = [j \in Jobs |-> odue[j] /\ j \notin rows]
    /\ UNCHANGED <<jobVars, runVars, ogen, opub, ibox, redisVars, dmark,
                   workVars, recVars, envVars>>

\* XADD of one claimed row.
PublishDelivery(j) ==
    /\ j \in dbatch /\ dmark.job = NoJob
    /\ stream' = Append(stream, [job |-> j, gen |-> ogen[j]])
    /\ dmark' = [job |-> j, msg |-> Len(stream) + 1]
    /\ dbatch' = dbatch \ {j}
    /\ UNCHANGED <<jobVars, runVars, boxVars, read, pel, gone, group, workVars,
                   recVars, envVars>>

\* XADD raised: the row stays claimed and unpublished.
PublishFails(j) ==
    /\ j \in dbatch /\ dmark.job = NoJob
    /\ faults < MaxRedisFaults
    /\ dbatch' = dbatch \ {j}
    /\ faults' = faults + 1
    /\ UNCHANGED <<jobVars, runVars, boxVars, redisVars, dmark, workVars,
                   recVars, topen, tseq, crashes>>

\* dispatcher_mark_published: keeps the first message id recorded.
MarkPublished ==
    LET j == dmark.job IN
    /\ j # NoJob
    /\ dmark' = [job |-> NoJob, msg |-> 0]
    /\ IF opub[j] = 0
       THEN opub' = [opub EXCEPT ![j] = dmark.msg] /\ BumpDelivery(j)
       ELSE UNCHANGED opub /\ SameVersions
    /\ UNCHANGED <<jobVars, runVars, ogen, odue, ibox, redisVars, dbatch,
                   workVars, rpc, rjob, robs, envVars>>

DispatcherCrash ==
    /\ crashes < MaxCrashes
    /\ dbatch # {} \/ dmark.job # NoJob
    /\ dbatch' = {} /\ dmark' = [job |-> NoJob, msg |-> 0]
    /\ crashes' = crashes + 1
    /\ UNCHANGED <<jobVars, runVars, boxVars, redisVars, workVars, recVars,
                   topen, tseq, faults>>

-----------------------------------------------------------------------------
(* Redis consumer group *)

\* ensure_consumer_group: XGROUP CREATE ... id=0 MKSTREAM.
EnsureConsumerGroup(w) ==
    /\ wpc[w] = "idle" /\ ~group
    /\ group' = TRUE /\ read' = gone
    /\ UNCHANGED <<jobVars, runVars, boxVars, stream, pel, gone, dispVars,
                   workVars, recVars, envVars>>

\* XREADGROUP ">": the next entry the group has not delivered.
ReadNew(w) ==
    /\ wpc[w] = "idle" /\ group
    /\ read < Len(stream)
    /\ read' = read + 1
    /\ pel' = pel \cup {read + 1}
    /\ wpc' = [wpc EXCEPT ![w] = "delivered"]
    /\ wmsg' = [wmsg EXCEPT ![w] = read + 1]
    /\ UNCHANGED <<jobVars, runVars, boxVars, stream, gone, group, dispVars,
                   wfence, recVars, envVars>>

\* XAUTOCLAIM: any entry that stayed pending long enough, whoever read it.
ReclaimOld(w, m) ==
    /\ wpc[w] = "idle" /\ group
    /\ m \in pel
    /\ wpc' = [wpc EXCEPT ![w] = "delivered"]
    /\ wmsg' = [wmsg EXCEPT ![w] = m]
    /\ UNCHANGED <<jobVars, runVars, boxVars, redisVars, dispVars, wfence,
                   recVars, envVars>>

\* The Redis data set is lost and Redis restarts empty.
RedisFlush ==
    /\ faults < MaxRedisFaults
    /\ gone' = Len(stream) /\ read' = Len(stream) /\ pel' = {} /\ group' = FALSE
    /\ faults' = faults + 1
    /\ UNCHANGED <<jobVars, runVars, boxVars, stream, dispVars, workVars,
                   recVars, topen, tseq, crashes>>

-----------------------------------------------------------------------------
(* Worker: admission of a delivery (supportguard_worker_accept_delivery).   *)
(* The disjuncts follow the order of the checks in the SQL function.        *)

MsgJob(w) == stream[wmsg[w]].job
MsgGen(w) == stream[wmsg[w]].gen

\* Mutant: only a leased job of the ticket blocks the lane.
LaneBlocked_NoOrder(j) ==
    /\ jstatus[j] \in Pending
    /\ \/ ~topen[TicketOf[j]]
       \/ \E k \in Jobs \ {j} : /\ TicketOf[k] = TicketOf[j]
                                /\ jstatus[k] = "leased"

\* An earlier job of the ticket is unfinished, another one is leased, or the
\* ticket is archived: the job has to wait for its turn in the lane.
LaneBlocked(j) ==
    /\ jstatus[j] \in Pending
    /\ \/ ~topen[TicketOf[j]]
       \/ \E k \in Jobs : /\ TicketOf[k] = TicketOf[j]
                          /\ jseq[k] < jseq[j] /\ jstatus[k] \in Live
       \/ \E k \in Jobs \ {j} : /\ TicketOf[k] = TicketOf[j]
                                /\ jstatus[k] = "leased"

\* Mutant: the owner of the lease is not compared.
OwnsLease_AnyOwner(w, j) ==
    jstatus[j] = "leased" /\ jlease[j] = "live" /\ ractive[j] = jfence[j]

OwnsLease(w, j) ==
    /\ jstatus[j] = "leased" /\ jowner[j] = w /\ jlease[j] = "live"
    /\ ractive[j] = jfence[j]

LeaseConflict(w, j) ==
    jstatus[j] = "leased" /\ ractive[j] # 0 /\ ~OwnsLease(w, j)

\* Mutants: one attempt too many; the age limit is forgotten.
Exhausted_OneMore(j) == jattempt[j] > MaxAttempts \/ jaged[j]
Exhausted_IgnoresAge(j) == jattempt[j] >= MaxAttempts

Exhausted(j) == jattempt[j] >= MaxAttempts \/ jaged[j]

\* The admission reaches the delivery's own outbox and inbox rows.
Admissible(w, j) ==
    /\ ~LaneBlocked(j) /\ ~LeaseConflict(w, j)
    /\ MsgGen(w) = ogen[j]
    /\ ~jhold[j]

\* The worker has only the XACK of this entry left to do.
GoAcking(w) ==
    /\ wpc' = [wpc EXCEPT ![w] = "acking"]
    /\ wfence' = [wfence EXCEPT ![w] = 0]
    /\ UNCHANGED wmsg

\* The worker leaves the entry as it is and polls again.
GoIdle(w) ==
    /\ wpc' = [wpc EXCEPT ![w] = "idle"]
    /\ wmsg' = [wmsg EXCEPT ![w] = 0]
    /\ wfence' = [wfence EXCEPT ![w] = 0]

\* Mutant: a refused delivery is acknowledged.
AcceptRefused_Acks(w) ==
    LET j == MsgJob(w) IN
    /\ wpc[w] = "delivered"
    /\ LaneBlocked(j) \/ LeaseConflict(w, j) \/ (MsgGen(w) = ogen[j] /\ jhold[j])
    /\ GoAcking(w)
    /\ UNCHANGED <<jobVars, runVars, boxVars, redisVars, dispVars, recVars,
                   envVars>>

\* not_claimable, active_job_conflict, delivery_state_unknown: nothing is
\* written and the entry stays pending.
AcceptRefused(w) ==
    LET j == MsgJob(w) IN
    /\ wpc[w] = "delivered"
    /\ \/ LaneBlocked(j)
       \/ LeaseConflict(w, j)
       \/ MsgGen(w) = ogen[j] /\ jhold[j]
    /\ GoIdle(w)
    /\ UNCHANGED <<jobVars, runVars, boxVars, redisVars, dispVars, recVars,
                   envVars>>

\* rejected_untrusted_envelope: the outbox row has been superseded.
AcceptSuperseded(w) ==
    LET j == MsgJob(w) IN
    /\ wpc[w] = "delivered"
    /\ ~LaneBlocked(j) /\ ~LeaseConflict(w, j)
    /\ MsgGen(w) # ogen[j]
    /\ GoAcking(w)
    /\ UNCHANGED <<jobVars, runVars, boxVars, redisVars, dispVars, recVars,
                   envVars>>

\* already_terminal, already_acked
AcceptSettled(w) ==
    LET j == MsgJob(w) IN
    /\ wpc[w] = "delivered"
    /\ Admissible(w, j)
    /\ \/ /\ jstatus[j] \in Terminal
          /\ IF ibox[j] # "none"
             THEN ibox' = [ibox EXCEPT ![j] = "acked"] /\ BumpDelivery(j)
             ELSE UNCHANGED ibox /\ SameVersions
       \/ /\ jstatus[j] \notin Terminal /\ ibox[j] = "acked"
          /\ UNCHANGED ibox /\ SameVersions
    /\ GoAcking(w)
    /\ UNCHANGED <<jobVars, runVars, ogen, opub, odue, redisVars, dispVars,
                   rpc, rjob, robs, envVars>>

\* A second copy of the delivery reaches the owner of the live lease: the
\* handler runs again under the same fence.
AcceptReused(w) ==
    LET j == MsgJob(w) IN
    /\ wpc[w] = "delivered"
    /\ Admissible(w, j)
    /\ OwnsLease(w, j) /\ ibox[j] # "acked"
    /\ wpc' = [wpc EXCEPT ![w] = "working"]
    /\ wfence' = [wfence EXCEPT ![w] = jfence[j]]
    /\ UNCHANGED <<wmsg, jobVars, runVars, boxVars, redisVars, dispVars,
                   recVars, envVars>>

\* job_exhausted: the job is dead-lettered instead of leased.
AcceptExhausted(w) ==
    LET j == MsgJob(w) IN
    /\ wpc[w] = "delivered"
    /\ Admissible(w, j)
    /\ jstatus[j] \in Pending /\ ibox[j] # "acked"
    /\ Exhausted(j)
    /\ jstatus' = [jstatus EXCEPT ![j] = "dead"]
    /\ joutcome' = [joutcome EXCEPT ![j] = "infrastructure_exhausted"]
    /\ rstatus' = [rstatus EXCEPT ![j] = "failed"]
    /\ ibox' = [ibox EXCEPT ![j] = "acked"]
    /\ GoAcking(w)
    /\ BumpJob(j)
    /\ UNCHANGED <<jseq, jattempt, jfence, jowner, jlease, jhold, jdue, jaged,
                   ractive, ogen, opub, odue, redisVars, dispVars, rpc,
                   rjob, robs, envVars>>

\* claimed: lease the job under the next fencing token.  The function would
\* reject the delivery (not_claimable) of a job that is not due or whose run is
\* over; AdmittedIsDue shows that no delivery gets there in such a state.
AcceptClaimed(w) ==
    LET j == MsgJob(w) IN
    /\ wpc[w] = "delivered"
    /\ Admissible(w, j)
    /\ jstatus[j] \in Pending /\ ibox[j] # "acked"
    /\ ~Exhausted(j)
    /\ jdue[j] /\ rstatus[j] \in {"queued", "interrupted", "running"}
    /\ jstatus' = [jstatus EXCEPT ![j] = "leased"]
    /\ jattempt' = [jattempt EXCEPT ![j] = @ + 1]
    /\ jfence' = [jfence EXCEPT ![j] = @ + 1]
    /\ jowner' = [jowner EXCEPT ![j] = w]
    /\ jlease' = [jlease EXCEPT ![j] = "live"]
    /\ rstatus' = [rstatus EXCEPT ![j] = "running"]
    /\ ractive' = [ractive EXCEPT ![j] = jfence[j] + 1]
    /\ ibox' = [ibox EXCEPT ![j] = "claimed"]
    /\ wpc' = [wpc EXCEPT ![w] = "working"]
    /\ wfence' = [wfence EXCEPT ![w] = jfence[j] + 1]
    /\ BumpJob(j)
    /\ UNCHANGED <<wmsg, jseq, jhold, jdue, jaged, joutcome, ogen, opub, odue,
                   redisVars, dispVars, rpc, rjob, robs, envVars>>

-----------------------------------------------------------------------------
(* Worker: the handler and the end of the delivery.  The heartbeat keeps a  *)
(* live lease live and refuses an expired one, so it is the freedom of      *)
(* LeaseExpires not to happen and has no action of its own.                 *)

\* Mutant: a fenced write only asks whether the job is leased.
HoldsFence_AnyLease(w, j) == jstatus[j] = "leased" /\ ractive[j] = jfence[j]

\* Every fenced write of a worker compares owner, fence and active pointer.
HoldsFence(w, j) ==
    /\ jstatus[j] = "leased" /\ jowner[j] = w /\ jfence[j] = wfence[w]
    /\ ractive[j] = jfence[j]

\* Mutant: the run keeps pointing at the job.
Release_KeepsPointer(j, s) ==
    /\ jstatus' = [jstatus EXCEPT ![j] = s]
    /\ jowner' = [jowner EXCEPT ![j] = NoWorker]
    /\ jlease' = [jlease EXCEPT ![j] = "none"]
    /\ UNCHANGED <<jseq, jattempt, jfence, jaged, ractive>>

\* Job columns of a job that leaves its lease for status s.
Release(j, s) ==
    /\ jstatus' = [jstatus EXCEPT ![j] = s]
    /\ jowner' = [jowner EXCEPT ![j] = NoWorker]
    /\ jlease' = [jlease EXCEPT ![j] = "none"]
    /\ ractive' = [ractive EXCEPT ![j] = 0]
    /\ UNCHANGED <<jseq, jattempt, jfence, jaged>>

\* The finalizer transaction (supportguard_worker_finalize): the only place
\* where an answer becomes durable, and it demands a live lease.  It stores its
\* own outcome: the terminal state of the answer, or interrupted.
WorkerFinalize(w, outcome) ==
    LET j == MsgJob(w) IN
    /\ wpc[w] = "working"
    /\ HoldsFence(w, j) /\ jlease[j] = "live"
    /\ Release(j, "succeeded")
    /\ joutcome' = [joutcome EXCEPT ![j] = outcome]
    /\ rstatus' = [rstatus EXCEPT ![j] =
                     IF outcome = "interrupted" THEN outcome ELSE "completed"]
    /\ wpc' = [wpc EXCEPT ![w] = "finalized"]
    /\ BumpJob(j)
    /\ UNCHANGED <<wmsg, wfence, jhold, jdue, boxVars, redisVars, dispVars,
                   rpc, rjob, robs, envVars>>

\* The same call with status dead (_abort_finalizer): a finalizer that finds
\* its checkpoint invalid fails the run for good, commits and then raises.
WorkerAbort(w) ==
    LET j == MsgJob(w) IN
    /\ wpc[w] = "working"
    /\ HoldsFence(w, j) /\ jlease[j] = "live"
    /\ Release(j, "dead")
    /\ joutcome' = [joutcome EXCEPT ![j] = "finalizer_aborted"]
    /\ rstatus' = [rstatus EXCEPT ![j] = "failed"]
    /\ wpc' = [wpc EXCEPT ![w] = "finalized"]
    /\ BumpJob(j)
    /\ UNCHANGED <<wmsg, wfence, jhold, jdue, boxVars, redisVars, dispVars,
                   rpc, rjob, robs, envVars>>

\* Mutant: a failed attempt leaves its inbox row claimed.
AckInbox_Forgets(j) == UNCHANGED ibox

\* Inbox rows still received or claimed become acked.
AckInbox(j) ==
    ibox' = [ibox EXCEPT ![j] = IF @ \in {"received", "claimed"}
                                THEN "acked" ELSE @]

\* The transport outcome of a finalizer's outcome.
Canonical(outcome) == IF outcome = "terminal_state" THEN "completed" ELSE outcome

\* supportguard_worker_finish_job after a terminal transition that this very
\* fence committed, or that the Reconciler committed for this fence.  The
\* outcome of a succeeded job is normalized; when that changes it, the trigger
\* runtime_job_outcome_version_guard moves status_version.
FinishHandoff(w) ==
    LET j == MsgJob(w)
        outcome == IF jstatus[j] = "succeeded" THEN Canonical(joutcome[j])
                                               ELSE joutcome[j] IN
    /\ \/ wpc[w] = "finalized" /\ jstatus[j] \in Terminal
       \/ wpc[w] = "working" /\ jstatus[j] = "dead"
    /\ jfence[j] = wfence[w]
    /\ joutcome' = [joutcome EXCEPT ![j] = outcome]
    /\ AckInbox(j)
    /\ IF outcome # joutcome[j] THEN BumpJob(j)
       ELSE IF ibox[j] \in {"received", "claimed"} THEN BumpDelivery(j)
       ELSE SameVersions
    /\ GoAcking(w)
    /\ UNCHANGED <<jseq, jstatus, jattempt, jfence, jowner, jlease, jhold, jdue,
                   jaged, runVars, ogen, opub, odue, redisVars, dispVars,
                   rpc, rjob, robs, envVars>>

\* terminal_handoff_outcome_invalid: the approval of an interrupted answer was
\* decided before its handoff.  The call raises and the worker restarts.
HandoffRefused(w) ==
    /\ wpc[w] = "finalized" /\ joutcome[MsgJob(w)] = "interrupted"
    /\ GoIdle(w)
    /\ UNCHANGED <<jobVars, runVars, boxVars, redisVars, dispVars, recVars,
                   envVars>>

\* 'failed:<exception>': back off and retry, or dead-letter.
FinishFailed(w) ==
    LET j == MsgJob(w) IN
    /\ wpc[w] = "working" /\ HoldsFence(w, j)
    /\ Release(j, IF Exhausted(j) THEN "dead" ELSE "retry_wait")
    /\ joutcome' = [joutcome EXCEPT ![j] =
                      IF Exhausted(j) THEN "infrastructure_exhausted" ELSE @]
    /\ jdue' = [jdue EXCEPT ![j] = Exhausted(j) /\ @]
    /\ rstatus' = [rstatus EXCEPT ![j] = IF Exhausted(j) THEN "failed"
                                                         ELSE "queued"]
    /\ AckInbox(j) /\ BumpJob(j) /\ GoAcking(w)
    /\ UNCHANGED <<jhold, ogen, opub, odue, redisVars, dispVars, rpc,
                   rjob, robs, envVars>>

\* 'terminal_failed:<code>' and 'domain_terminal:<reason>': no retry.
FinishTerminal(w, outcome) ==
    LET j == MsgJob(w)
        dead == outcome = "infrastructure_exhausted" IN
    /\ wpc[w] = "working" /\ HoldsFence(w, j)
    /\ Release(j, IF dead THEN "dead" ELSE "succeeded")
    /\ joutcome' = [joutcome EXCEPT ![j] = outcome]
    /\ rstatus' = [rstatus EXCEPT ![j] = IF dead THEN "failed" ELSE "completed"]
    /\ AckInbox(j) /\ BumpJob(j) /\ GoAcking(w)
    /\ UNCHANGED <<jdue, jhold, ogen, opub, odue, redisVars, dispVars, rpc, rjob, robs, envVars>>

\* stale_fencing_token: the finish call raises, the consumer loop exits and
\* the container restarts the worker with the entry still pending.
FinishStale(w) ==
    LET j == MsgJob(w) IN
    /\ wpc[w] = "working"
    /\ ~HoldsFence(w, j)
    /\ ~(jstatus[j] = "dead" /\ jfence[j] = wfence[w])
    /\ GoIdle(w)
    /\ UNCHANGED <<jobVars, runVars, boxVars, redisVars, dispVars, recVars,
                   envVars>>

\* XACK
Ack(w) ==
    /\ wpc[w] = "acking"
    /\ pel' = pel \ {wmsg[w]}
    /\ GoIdle(w)
    /\ UNCHANGED <<jobVars, runVars, boxVars, stream, read, gone, group,
                   dispVars, recVars, envVars>>

WorkerCrash(w) ==
    /\ crashes < MaxCrashes
    /\ wpc[w] # "idle"
    /\ crashes' = crashes + 1
    /\ GoIdle(w)
    /\ UNCHANGED <<jobVars, runVars, boxVars, redisVars, dispVars, recVars,
                   topen, tseq, faults>>

-----------------------------------------------------------------------------
(* Reconciler *)

\* Mutant: live leases are candidates too.
ReconcilerCandidates_AnyLease == {j \in Jobs : jstatus[j] \in Live \/ jhold[j]}

\* supportguard_reconciler_candidates, without the clauses about the ticket
\* projection, which module TicketSegments models.
ReconcilerCandidates ==
    {j \in Jobs : \/ jstatus[j] \in Pending
                  \/ jstatus[j] = "leased" /\ jlease[j] = "expired"
                  \/ jhold[j]}

ListCandidates ==
    /\ rpc = "idle"
    /\ ReconcilerCandidates # {}
    /\ rbatch' = ReconcilerCandidates
    /\ rpc' = "batch"
    /\ UNCHANGED <<jobVars, runVars, boxVars, redisVars, dispVars, workVars,
                   intent, rjob, rfresh, robs, envVars>>

\* supportguard_reconciler_prepare on a live job: reuse the active intent
\* with its expiry, or insert one.
PrepareIntent(j) ==
    /\ rpc = "batch" /\ j \in rbatch
    /\ jstatus[j] \in Live
    /\ intent' = [intent EXCEPT ![j] = IF @ = "none" THEN "fresh" ELSE @]
    /\ rbatch' = rbatch \ {j}
    /\ rjob' = j /\ rfresh' = TRUE /\ rpc' = "prepared"
    /\ UNCHANGED <<jobVars, runVars, boxVars, redisVars, dispVars, workVars,
                   robs, envVars>>

\* ... on a terminal job that still carries a delivery hold; an outcome the
\* function does not know is left as it is (terminal_outcome_unrecognized).
PrepareTerminal(j) ==
    /\ rpc = "batch" /\ j \in rbatch
    /\ jstatus[j] \in Terminal
    /\ IF joutcome[j] \in {"domain_terminal", "terminal_state",
                            "finalizer_aborted"}
       THEN /\ rbatch' = rbatch \ {j}
            /\ UNCHANGED <<jhold, ibox, intent, rfresh>>
       ELSE /\ jhold' = [jhold EXCEPT ![j] = FALSE]
            /\ AckInbox(j) /\ BumpJob(j)
    /\ UNCHANGED <<jseq, jstatus, jattempt, jfence, jowner, jlease, jdue,
                   jaged, joutcome, runVars, ogen, opub, odue, redisVars,
                   dispVars, workVars, rpc, rjob, robs, envVars>>

\* The observation script: is the delivery in the stream, is it pending, and
\* is the one worker group registered.
ObserveIntent ==
    /\ rpc = "prepared"
    /\ robs' = [known   |-> group,
                present |-> opub[rjob] > gone,
                pending |-> opub[rjob] \in pel]
    /\ rpc' = "observed"
    /\ UNCHANGED <<jobVars, runVars, boxVars, redisVars, dispVars, workVars,
                   intent, rbatch, rjob, rfresh, envVars>>

ObserveFails ==
    /\ rpc = "prepared"
    /\ faults < MaxRedisFaults
    /\ robs' = NoObservation /\ rpc' = "observed"
    /\ faults' = faults + 1
    /\ UNCHANGED <<jobVars, runVars, boxVars, redisVars, dispVars, workVars,
                   intent, rbatch, rjob, rfresh, topen, tseq, crashes>>

\* The combinations of inbox row and observation that the repair accepts.
MatrixKnown(j) ==
    /\ robs.known
    /\ \/ /\ robs.present
          /\ robs.pending <=> ibox[j] = "claimed"
       \/ ~robs.present /\ ~robs.pending /\ ibox[j] = "none"

\* The delivery is over or lost: a new generation is due once the intent's
\* grace has passed.
DeliverySpent(j) ==
    ibox[j] \in {"acked", "rejected"} \/ (ibox[j] = "none" /\ ~robs.present)

\* Mutant: a delivery that a worker has claimed does not count.
Reusable_IgnoresClaim(j) == opub[j] = 0 \/ (robs.present /\ ibox[j] = "none")

\* The outbox row can still reach a worker.
Reusable(j) ==
    opub[j] = 0 \/ (robs.present /\ ibox[j] \notin {"acked", "rejected"})

\* Mutant: the pass stays at a candidate that it has let go of.
NextCandidate_Stays ==
    /\ UNCHANGED rpc /\ rjob' = NoJob /\ robs' = NoObservation

NextCandidate ==
    /\ rpc' = "batch" /\ rjob' = NoJob /\ robs' = NoObservation

\* state_drift or redelivery_grace: nothing is written.
RepairSkipped ==
    /\ rpc = "observed"
    /\ \/ ~rfresh
       \/ intent[rjob] = "none"
       \/ MatrixKnown(rjob) /\ DeliverySpent(rjob) /\ intent[rjob] = "fresh"
    /\ NextCandidate /\ rfresh' = FALSE
    /\ UNCHANGED <<jobVars, runVars, boxVars, redisVars, dispVars, workVars,
                   intent, rbatch, envVars>>

CanRepair(j) == rpc = "observed" /\ j = rjob /\ rfresh /\ intent[j] # "none"

\* held_unknown: the job is withheld from workers until a later pass.
RepairHeld(j) ==
    /\ CanRepair(j) /\ ~MatrixKnown(j)
    /\ intent[j] = "fresh" /\ ~Exhausted(j)
    /\ jhold' = [jhold EXCEPT ![j] = TRUE]
    /\ intent' = [intent EXCEPT ![j] = "none"]
    /\ NextCandidate /\ rfresh' = FALSE
    /\ UNCHANGED <<jseq, jstatus, jattempt, jfence, jowner, jlease, jdue,
                   jaged, joutcome, runVars, boxVars, redisVars, dispVars,
                   workVars, rbatch, envVars>>

\* reused: the same delivery is left to the consumer group; an expired lease
\* goes back to queued.
RepairReused(j) ==
    LET expired == jstatus[j] = "leased" /\ jlease[j] = "expired" IN
    /\ CanRepair(j) /\ MatrixKnown(j)
    /\ ~(DeliverySpent(j) /\ intent[j] = "fresh")
    /\ Reusable(j)
    /\ IF expired
       THEN /\ Release(j, "queued")
            /\ rstatus' = [rstatus EXCEPT ![j] = "queued"]
       ELSE UNCHANGED <<jseq, jstatus, jattempt, jfence, jowner, jlease, jaged,
                        runVars>>
    /\ jhold' = [jhold EXCEPT ![j] = FALSE]
    /\ intent' = [intent EXCEPT ![j] = "none"]
    /\ NextCandidate /\ rfresh' = FALSE
    /\ UNCHANGED <<jdue, joutcome, boxVars, redisVars, dispVars, workVars,
                   rbatch, envVars>>

\* dead: no generation or attempt is left, the job is too old, or an unknown
\* observation outlived its intent.
RepairDead(j) ==
    /\ CanRepair(j)
    /\ \/ ~MatrixKnown(j) /\ ~(intent[j] = "fresh" /\ ~Exhausted(j))
       \/ /\ MatrixKnown(j) /\ ~(DeliverySpent(j) /\ intent[j] = "fresh")
          /\ ~Reusable(j)
          /\ ogen[j] + 1 > MaxGeneration \/ Exhausted(j)
    /\ Release(j, "dead")
    /\ joutcome' = [joutcome EXCEPT ![j] = "infrastructure_exhausted"]
    /\ rstatus' = [rstatus EXCEPT ![j] = "failed"]
    /\ jhold' = [jhold EXCEPT ![j] = FALSE]
    /\ intent' = [intent EXCEPT ![j] = "none"]
    /\ NextCandidate /\ rfresh' = FALSE
    /\ UNCHANGED <<jdue, boxVars, redisVars, dispVars, workVars, rbatch,
                   envVars>>

\* repaired: supersede the outbox row and insert the next generation.
RepairRedelivered(j) ==
    /\ CanRepair(j) /\ MatrixKnown(j)
    /\ ~(DeliverySpent(j) /\ intent[j] = "fresh")
    /\ ~Reusable(j)
    /\ ogen[j] + 1 <= MaxGeneration /\ ~Exhausted(j)
    /\ Release(j, "queued")
    /\ rstatus' = [rstatus EXCEPT ![j] = IF ractive[j] # 0 THEN "queued" ELSE @]
    /\ jdue' = [jdue EXCEPT ![j] = TRUE]
    /\ jhold' = [jhold EXCEPT ![j] = FALSE]
    /\ ogen' = [ogen EXCEPT ![j] = @ + 1]
    /\ opub' = [opub EXCEPT ![j] = 0]
    /\ odue' = [odue EXCEPT ![j] = TRUE]
    /\ ibox' = [ibox EXCEPT ![j] = "none"]
    /\ intent' = [intent EXCEPT ![j] = "none"]
    /\ NextCandidate /\ rfresh' = FALSE
    /\ UNCHANGED <<joutcome, redisVars, dispVars, workVars, rbatch, envVars>>

EndPass ==
    /\ rpc = "batch" /\ rbatch = {}
    /\ rpc' = "idle"
    /\ UNCHANGED <<jobVars, runVars, boxVars, redisVars, dispVars, workVars,
                   intent, rbatch, rjob, rfresh, robs, envVars>>

ReconcilerCrash ==
    /\ crashes < MaxCrashes
    /\ rpc # "idle"
    /\ crashes' = crashes + 1
    /\ rpc' = "idle" /\ rbatch' = {} /\ rjob' = NoJob /\ rfresh' = FALSE
    /\ robs' = NoObservation
    /\ UNCHANGED <<jobVars, runVars, boxVars, redisVars, dispVars, workVars,
                   intent, topen, tseq, faults>>

-----------------------------------------------------------------------------
(* The clock.  Deadlines are compared with clock_timestamp() only, so each  *)
(* is modelled by the step that lets it pass.                               *)

LeaseExpires(j) ==
    /\ jlease[j] = "live"
    /\ jlease' = [jlease EXCEPT ![j] = "expired"]
    /\ UNCHANGED <<jseq, jstatus, jattempt, jfence, jowner, jhold, jdue, jaged,
                   joutcome, runVars, boxVars, redisVars, dispVars, workVars,
                   recVars, envVars>>

BackoffElapses(j) ==
    /\ jstatus[j] = "retry_wait" /\ ~jdue[j]
    /\ jdue' = [jdue EXCEPT ![j] = TRUE]
    /\ UNCHANGED <<jseq, jstatus, jattempt, jfence, jowner, jlease, jhold,
                   jaged, joutcome, runVars, boxVars, redisVars, dispVars,
                   workVars, recVars, envVars>>

JobAges(j) ==
    /\ CanAge
    /\ jstatus[j] \in Live /\ ~jaged[j]
    /\ jaged' = [jaged EXCEPT ![j] = TRUE]
    /\ UNCHANGED <<jseq, jstatus, jattempt, jfence, jowner, jlease, jhold,
                   jdue, joutcome, runVars, boxVars, redisVars, dispVars,
                   workVars, recVars, envVars>>

IntentExpires(j) ==
    /\ intent[j] = "fresh"
    /\ intent' = [intent EXCEPT ![j] = "expired"]
    /\ UNCHANGED <<jobVars, runVars, boxVars, redisVars, dispVars, workVars,
                   rpc, rbatch, rjob, rfresh, robs, envVars>>

\* A claimed row that was not marked published becomes available again.
OutboxClaimLapses(j) ==
    /\ ogen[j] # 0 /\ opub[j] = 0 /\ ~odue[j]
    /\ odue' = [odue EXCEPT ![j] = TRUE]
    /\ UNCHANGED <<jobVars, runVars, ogen, opub, ibox, redisVars, dispVars,
                   workVars, recVars, envVars>>

-----------------------------------------------------------------------------
Api == \/ \E j \in Jobs : AcceptMessage(j)
       \/ \E t \in Tickets : TransitionConversation(t)

Dispatcher ==
    \/ ClaimOutbox
    \/ \E j \in Jobs : PublishDelivery(j) \/ PublishFails(j)
    \/ MarkPublished

Poll(w) == \/ EnsureConsumerGroup(w)
           \/ ReadNew(w)
           \/ \E m \in pel : ReclaimOld(w, m)

Admit(w) == \/ AcceptRefused(w) \/ AcceptSuperseded(w) \/ AcceptSettled(w)
            \/ AcceptReused(w) \/ AcceptExhausted(w) \/ AcceptClaimed(w)

Finalize(w) == \/ WorkerFinalize(w, "terminal_state")
               \/ WorkerFinalize(w, "interrupted")
               \/ WorkerAbort(w)

Finish(w) == \/ FinishHandoff(w) \/ HandoffRefused(w)
             \/ FinishFailed(w) \/ FinishStale(w)
             \/ FinishTerminal(w, "infrastructure_exhausted")
             \/ FinishTerminal(w, "domain_terminal")

Worker(w) == Poll(w) \/ Admit(w) \/ Finalize(w) \/ Finish(w) \/ Ack(w)

Reconciler ==
    \/ ListCandidates
    \/ \E j \in Jobs : PrepareIntent(j) \/ PrepareTerminal(j)
    \/ ObserveIntent \/ ObserveFails
    \/ RepairSkipped
    \/ \E j \in Jobs : \/ RepairHeld(j) \/ RepairReused(j) \/ RepairDead(j)
                       \/ RepairRedelivered(j)
    \/ EndPass

Clock == \E j \in Jobs : \/ LeaseExpires(j) \/ BackoffElapses(j) \/ JobAges(j)
                         \/ IntentExpires(j) \/ OutboxClaimLapses(j)

Faults == DispatcherCrash \/ ReconcilerCrash \/ RedisFlush
          \/ \E w \in Workers : WorkerCrash(w)

Next == \/ Api \/ Dispatcher \/ Reconciler \/ Clock \/ Faults
        \/ \E w \in Workers : Worker(w)

Spec == Init /\ [][Next]_vars

-----------------------------------------------------------------------------
(* Properties *)

JobStatuses == {"none"} \cup Live \cup Terminal
Outcomes == {"none", "terminal_state", "completed", "interrupted",
             "domain_terminal", "finalizer_aborted",
             "infrastructure_exhausted"}

JobTypes ==
    /\ topen \in [Tickets -> BOOLEAN] /\ tseq \in [Tickets -> Nat]
    /\ jseq \in [Jobs -> Nat]
    /\ jstatus \in [Jobs -> JobStatuses]
    /\ jattempt \in [Jobs -> Nat]
    /\ jfence \in [Jobs -> Nat]
    /\ jowner \in [Jobs -> Workers \cup {NoWorker}]
    /\ jlease \in [Jobs -> {"none", "live", "expired"}]
    /\ jhold \in [Jobs -> BOOLEAN]
    /\ jdue \in [Jobs -> BOOLEAN]
    /\ jaged \in [Jobs -> BOOLEAN]
    /\ joutcome \in [Jobs -> Outcomes]
    /\ rstatus \in [Jobs -> {"none", "queued", "running", "interrupted",
                             "completed", "failed"}]
    /\ ractive \in [Jobs -> Nat]

DeliveryTypes ==
    /\ ogen \in [Jobs -> Nat] /\ opub \in [Jobs -> Nat]
    /\ odue \in [Jobs -> BOOLEAN]
    /\ ibox \in [Jobs -> {"none", "received", "claimed", "acked", "rejected"}]
    /\ intent \in [Jobs -> {"none", "fresh", "expired"}]
    /\ stream \in Seq([job : Jobs, gen : Nat])
    /\ read \in 0 .. Len(stream) /\ gone \in 0 .. Len(stream)
    /\ pel \subseteq 1 .. Len(stream)

\* A busy worker points at an entry of the stream; between prepare and repair
\* the Reconciler points at a job.
ProcessTypes ==
    /\ dbatch \subseteq Jobs
    /\ dmark \in [job : Jobs \cup {NoJob}, msg : Nat]
    /\ wpc \in [Workers -> {"idle", "delivered", "working", "finalized",
                            "acking"}]
    /\ wmsg \in [Workers -> Nat]
    /\ wfence \in [Workers -> Nat]
    /\ \A w \in Workers : wpc[w] # "idle" => wmsg[w] \in 1 .. Len(stream)
    /\ rpc \in {"idle", "batch", "prepared", "observed"}
    /\ rbatch \subseteq Jobs
    /\ rjob \in IF rpc \in {"prepared", "observed"} THEN Jobs
                                                    ELSE Jobs \cup {NoJob}
    /\ robs \in [known : BOOLEAN, present : BOOLEAN, pending : BOOLEAN]
    /\ crashes \in Nat /\ faults \in Nat

\* Type invariant of the tables, the Redis structures and the processes.
TypeOK == /\ JobTypes /\ DeliveryTypes /\ ProcessTypes
          /\ group \in BOOLEAN /\ rfresh \in BOOLEAN

\* The deferred trigger active_job_consistency_guard, as an invariant of the
\* protocol: a run's active pointer names its job exactly while that job is
\* leased, under the job's current fence, with an owner and a lease.
ActivePointerConsistent ==
    \A j \in Jobs :
        /\ (jstatus[j] = "leased") <=> (ractive[j] # 0)
        /\ jstatus[j] = "leased" =>
               ractive[j] = jfence[j] /\ jowner[j] # NoWorker /\ jlease[j] # "none"
        /\ jstatus[j] # "leased" =>
               jowner[j] = NoWorker /\ jlease[j] = "none"

\* Turns of one conversation run one after the other and in the order of
\* acceptance: when a job is leased every earlier job of its ticket is over,
\* and not waiting for a retry.  (queue_lane gives a job one attempt; theorem
\* LaneOrder has any number.)
LaneInOrder ==
    \A j, k \in Jobs :
        /\ TicketOf[j] = TicketOf[k] /\ j # k
        /\ jstatus[j] = "leased" /\ jseq[k] # 0
        => /\ jstatus[k] # "leased"
           /\ jseq[k] < jseq[j] => jstatus[k] \in Terminal

\* Two workers never believe at the same time that they hold the current
\* fence of a job: reclaimed and duplicated deliveries included.  Admission
\* gives a lease to a second caller only when it is the same worker, and a
\* worker handles one entry at a time.
ExclusiveFence ==
    \A v, w \in Workers :
        /\ wpc[v] = "working" /\ wpc[w] = "working"
        /\ MsgJob(v) = MsgJob(w) /\ wfence[v] = wfence[w]
        => v = w

\* XACK only follows a durable result: a worker about to acknowledge an entry
\* does so for a finished job, a superseded generation or an acked inbox row.
AckOnlyDurable ==
    \A w \in Workers :
        wpc[w] = "acking" =>
            \/ jstatus[MsgJob(w)] \in Terminal
            \/ MsgGen(w) < ogen[MsgJob(w)]
            \/ ibox[MsgJob(w)] = "acked"

\* The retry backoff is kept by the inbox, not by the admission: a delivery that
\* is not yet acknowledged belongs to a job that is due and to a run that still
\* accepts work, so the not_claimable branch of the admission is never taken.
AdmittedIsDue ==
    \A j \in Jobs :
        jstatus[j] \in Pending /\ ibox[j] # "acked"
        => jdue[j] /\ rstatus[j] \in {"queued", "interrupted", "running"}

\* The message id recorded in an outbox row is the entry that carries this
\* job and generation, and only the Dispatcher's own rows are unpublished.
PublishedRowFound ==
    /\ \A j \in Jobs : opub[j] # 0 =>
           opub[j] <= Len(stream) /\ stream[opub[j]] = [job |-> j, gen |-> ogen[j]]
    /\ \A j \in dbatch : opub[j] = 0
    /\ dmark.job # NoJob => opub[dmark.job] = 0

\* A worker that lost its fence (its lease expired and the job was requeued or
\* claimed by somebody else) can no longer change the job: the step by which it
\* leaves the handler writes nothing.
StaleWorkerHarmless ==
    [][\A w \in Workers :
          (/\ wpc[w] = "working" /\ wpc'[w] # "working"
           /\ \/ jfence[MsgJob(w)] # wfence[w]
              \/ jstatus[MsgJob(w)] \in Pending)
          => UNCHANGED <<jobVars, runVars, boxVars>>]_vars

\* A live lease ends by the clock or by the worker that holds it; neither the
\* Reconciler nor another worker takes it away.
LiveLeaseRespected ==
    [][\A j \in Jobs :
          (jlease[j] = "live" /\ jlease'[j] # "live")
          => \/ jlease'[j] = "expired"
             \/ \E w \in Workers : /\ jowner[j] = w /\ wpc[w] = "working"
                                   /\ wfence[w] = jfence[j] /\ wpc'[w] # "working"]_vars

\* No late worker, redelivery or repair pass reopens a finished job, moves its
\* fence or gives it another result.  Its outcome is rewritten in one way only:
\* the worker whose own fence finished it normalizes what its finalizer stored,
\* in the step by which it hands the delivery over (finish_job).
FinishedIsFinal ==
    [][\A j \in Jobs : jstatus[j] \in Terminal =>
          /\ jstatus'[j] = jstatus[j]
          /\ jfence'[j] = jfence[j] /\ ractive'[j] = 0
          /\ joutcome'[j] # joutcome[j] =>
                /\ joutcome'[j] = Canonical(joutcome[j])
                /\ \E w \in Workers : /\ wpc[w] = "finalized" /\ MsgJob(w) = j
                                       /\ wfence[w] = jfence[j]
                                       /\ wpc'[w] = "acking"]_vars

\* The Reconciler starts a new delivery generation only when the previous one
\* is over or gone: its inbox row is acked or rejected, or it was published
\* and is no longer in the stream.  It never competes with a claimed delivery.
NoRivalGeneration ==
    [][\A j \in Jobs : ogen[j] # 0 /\ ogen'[j] # ogen[j] =>
          /\ ogen'[j] = ogen[j] + 1 /\ ogen'[j] <= MaxGeneration
          /\ opub[j] # 0
          /\ ibox[j] \in {"acked", "rejected"} \/ (ibox[j] = "none" /\ opub[j] <= gone)
          /\ jlease[j] # "live"]_vars

\* The queue keeps the promise of module JobLane: seen through the columns of
\* runtime_jobs alone, with everything else hidden, it is a lane per ticket.
\* The outcome is read as the handoff will leave it: until then the row holds
\* the finalizer's own.
LaneOutcome == [j \in Jobs |-> Canonical(joutcome[j])]
Lane == INSTANCE JobLane WITH joutcome <- LaneOutcome
KeepsLane == Lane!LaneSpec

-----------------------------------------------------------------------------
(* Liveness *)

\* XADDs that can ever happen: one per generation, one more per lost mark.
MaxMessages == Cardinality(Jobs) * MaxGeneration + MaxCrashes

\* Services run in endless loops (bounded_service_loop) and are restarted by
\* the container runtime; time passes; XAUTOCLAIM resets the idle time of the
\* entry it returns, so no pending entry is passed over for ever.
Fairness ==
    /\ WF_vars(Dispatcher) /\ WF_vars(Reconciler)
    /\ \A w \in Workers : WF_vars(Worker(w)) /\ SF_vars(ReadNew(w))
    /\ \A m \in 1 .. MaxMessages : SF_vars(\E w \in Workers : ReclaimOld(w, m))
    /\ \A j \in Jobs : /\ WF_vars(LeaseExpires(j)) /\ WF_vars(BackoffElapses(j))
                       /\ WF_vars(JobAges(j)) /\ WF_vars(IntentExpires(j))
                       /\ WF_vars(OutboxClaimLapses(j))

FairSpec == Spec /\ Fairness

\* Every accepted job ends, succeeded or dead, whatever crashes, stale
\* observations and archives happened on the way, provided the conversation
\* does not stay archived: the deliveries of an archived one are refused, and
\* redelivered, for as long as it is.
EveryJobEnds ==
    \A j \in Jobs : <>[]topen[TicketOf[j]] =>
        ((jseq[j] # 0) ~> (jstatus[j] \in Terminal))

\* Turns of a conversation are scheduled one after the other: an accepted turn
\* is eventually handed to a worker, without waiting for the job age limit.
EveryTurnServed ==
    \A j \in Jobs : (jstatus[j] \in Pending) ~> (jstatus[j] \notin Pending)

\* A published delivery that is no longer in the stream, of a job that is not
\* finished, is eventually replaced by a new one (or the job moves on).
LostDeliveryRebuilt ==
    \A j \in Jobs :
        (jstatus[j] \in Live /\ opub[j] # 0 /\ opub[j] <= gone)
        ~> (jstatus[j] \in Terminal \/ opub[j] = 0 \/ opub[j] > gone)

=============================================================================
