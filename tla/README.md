# SupportGuard: TLA+ models and proofs

SupportGuard is a customer-support agent. A FastAPI service accepts messages
and human decisions, PostgreSQL holds the truth, a transactional outbox and a
Redis stream carry work to fenced workers, a LangGraph agent answers or
proposes actions for approval, and a reconciler repairs what crashes and lost
deliveries leave behind. Most of what can go wrong happens between two of
these, in an order no test was written for; that is what is modelled here.

The modules follow the production path. Each `SECURITY DEFINER` function of
`backend/alembic_baseline/baseline.sql` locks the ticket first and commits
alone, so one function is one atomic action. The Python services under
`backend/src/supportguard` decide which functions are called, in which order,
and what happens between two of them. Each Redis command or Lua script is one
atomic action. The SQLite branches of the same services are the development
backend and are not modelled.

## Inventory

| Part | Source | Module | Status |
| --- | --- | --- | --- |
| Job queue: admission, outbox, dispatcher, stream, workers, delivery reconciler | `baseline.sql`, `runtime/delivery.py`, `services/runtime_maintenance.py` | `RuntimeQueue` | partly (`agent_start` jobs) |
| What the queue promises | | `JobLane` | abstract specification |
| Run segments, finalizer, ticket status, terminal reconciler | `baseline.sql`, `services/segment_*.py`, `runtime/finalizer.py` | `TicketSegments` | partly |
| Human approval: binding, decision, withdrawal, resume | `baseline.sql`, `services/segment_approval.py` | `TicketSegments` | partly |
| Runtime actions | `services/actions.py` | `TicketSegments` | partly (known effects) |
| Conversation archive and restore | `baseline.sql` | `RuntimeQueue`, `TicketSegments` | partly |
| Retention trim across Redis and PostgreSQL | `services/runtime_maintenance.py`, `baseline.sql` | `RetentionTrim` | modelled |
| Writer barrier and upgrade fence | `services/writer_barrier.py`, `baseline.sql` | `WriterBarrier` | modelled |
| Unknown action effects (`verification_pending`) | `services/action_effect_reconciliation.py` | | planned |
| Event replay over SSE | `api/sse.py`, `frontend/src/useTicketStream.ts` | | planned |
| Provider limiter | `providers/limiter.py` | | planned |
| Attempt, tool and capability ledgers | `services/tool_ledger.py`, `attempts.py`, `capability_ledger.py` | | planned |
| Idempotent commands | `services/commands.py`, `frontend/src/idempotency.ts` | | planned |
| Heartbeats, data retention, schema rollout | `services/heartbeats.py`, `retention.py`, `schema_rollout.py` | | planned |
| Agent graph routing, obligations, retrieval algorithms, refund policy | `agent/`, `rag/`, `contracts/refund_policy.py` | | planned, as operators |
| Provider clients, MCP tools, projections, frontend rendering, scripts | `providers/`, `mcp/`, `api/`, `frontend/`, `scripts/` | | not modelled: I/O, pure reads, text |

`PROJECT.json` lists every component with its reason, every definition with
the lines it models (`map`) and every hazard with the properties that cover it.

## How the parts meet

The parts are separate modules because each adds its own non-atomic steps; a
product of all of them is beyond TLC. Each module keeps of its neighbours only
what it can observe of them.

- `RuntimeQueue` leaves out the ticket status and the content of an attempt:
  an attempt ends finalized, failed, terminal or not at all.
- `TicketSegments` abstracts the queue to `Claim`, `LeaseLost`, `Redeliver`
  and `ReconcilerDead`. `RuntimeQueue` justifies this: it is shown to implement
  `JobLane`, in which the jobs of a lane are attempted one at a time, in order,
  each attempt under a token of its own. `LaneHead` of `TicketSegments` is the
  guard of `JobLane!Attempt`.
- `RetentionTrim` keeps of a worker its place in the pending list, the row it
  writes and the `XACK` that follows.
- `WriterBarrier` keeps of every service that it changes Redis, then commits.

## Modules

### RuntimeQueue and JobLane

State: the columns of `support_tickets`, `runtime_jobs`, `agent_runs`,
`outbox_events`, `inbox_deliveries` and `reconcile_intents` that the queue
reads; the stream, the group's last-delivered id and its pending list; the
program counter of dispatcher, workers and reconciler.

Time is abstracted. A lease is none, live or expired; "available", "older than
the age limit" and "intent expired" are booleans that the clock sets. Version
columns are abstracted to "unchanged since it was read": `rfresh` is lost
whenever the code raises the version (`BumpJob`, `BumpDelivery`).

One action per function of the code: `AcceptMessage`, `ClaimOutbox`,
`PublishDelivery`, `MarkPublished`, `ReadNew`, `ReclaimOld`, the six outcomes
of `worker_accept_delivery` (`Accept*`), `worker_finalize` (`WorkerFinalize`,
and `WorkerAbort` for a finalizer that gives up), the outcomes of
`worker_finish_job` (`Finish*`), `Ack`, and for the reconciler
`ListCandidates`, `PrepareIntent`, `PrepareTerminal`, `ObserveIntent` and the
outcomes of `reconciler_repair` (`Repair*`). Crashes of each process, a loss of
the Redis data and failed Redis commands interleave with all of them.

A finalizer stores the terminal state of its answer as the job's outcome, and
the handoff (`FinishHandoff`) normalizes it (`Canonical`) and moves the job's
version when that changes it; a worker that dies in between leaves the outcome
as it was. `JobLane` sees the normalized outcome (`LaneOutcome`).

### TicketSegments

One conversation: messages, runs, approvals, jobs and checkpoint markers.
`fresh` is the set of jobs whose payload still holds the ticket version,
`pinned` the set of markers and decisions whose recorded event still is the
last one; both replace counters. Every step that changes the ticket goes
through `WriteStatus`, `BumpStatus` or `ConvergeStatus`, which differ in when
the code raises the version, and these through `Projection`
(`supportguard_internal_converge_ticket_status`).

A worker's steps are `Prepare`, `CheckpointWritten`, one of the `Finalize*`
steps (complete, interrupt, reused approval, executed action, stale action) or
one of the ways out (`RestartFinalizer`, `AbortFinalizer`, `PrepareConflict`,
`ResumeHeadConflict`, `TakeoverRefused`), and the handoff (`FinishHandoff`, or
`FinishAborted` for a job that `AbortFinalizer` left dead), which a crash may
lose (`HandoffLost`). `ReconcileTerminal` is the terminal branch of the
reconciler's prepare.

### RetentionTrim

One stream entry goes through authorize (PostgreSQL), delete with tombstone
(Redis), finalize (PostgreSQL), time to live on the tombstone (Redis) and
confirmation (PostgreSQL). A pass first stamps receipts that have no time to
live, then recovers active intents from their tombstones, then scans. Two
passes may overlap, and workers read, settle and acknowledge entries meanwhile.
Entries may be duplicates of one delivery.

### WriterBarrier

The advisory lock is held by the flows in `locked`, on their pinned
connections, and by every transaction that has written; a waiting request of
the migrator stops later requests, as PostgreSQL's queue does. A verdict is
read after the lock is granted and used until the flow leaves. `Crash` ends a
flow; `LoseConnection` takes only its pinned connection, and the body runs on.
What a body did to Redis and did not record before it ended stays there
(`stray`): the barrier does not undo it, the queue's fences and inbox absorb
the duplicate it leads to.

## Runs

| Run | Question | Instance |
| --- | --- | --- |
| `queue_safety` | fences, leases, acknowledgements and generations of one job | 1 job, 2 workers, 2 attempts, 2 generations, 1 crash, 1 Redis fault, age limit |
| `queue_lane` | order of a lane; refinement of `JobLane` | 2 jobs of a ticket, 2 workers |
| `queue_ends` | every accepted job ends unless its conversation stays archived | 1 job, 1 worker, 2 attempts, 2 generations, 1 crash, age limit, archive and restore at any time, fair services |
| `segment_safety` | status, approvals, effects and event heads of a ticket | 2 turns on one resource, 2 attempts, 1 failure, 1 crash, 1 kill |
| `segment_ends` | every turn comes to rest; an approval masked during an archive shows again | 2 turns, 1 crash, 1 archive, fair workers and reconciler |
| `trim_overlap` | rows, entries, tombstones and receipts under two passes | 2 copies of a delivery, 2 passes, 2 crashes, 1 loss |
| `barrier_fence` | no write, and no workflow that keeps its lock, overlaps the upgrade fence | 2 workflows, 1 writer, 2 upgrades, 2 crashes or lost connections |

The bounds are the smallest at which the cases of interest happen: two workers
for a stale owner beside a new one, two attempts for a retry after a crash, two
generations for a redelivery, two jobs for an order, two turns for one event
between another's prepare and commit, two copies for a duplicate, two passes
for an overlap. Every bound is a constant named `Max...` with its meaning
beside the declaration. Workers are symmetric; jobs are not, because they are
ordered. `queue_ends` has no Redis fault, because a crash and a fault together
take TLC seven minutes; that larger instance (`MaxRedisFaults = 1`, 331188
states) was checked once and holds. `queue_lane` gives a job one attempt, so
that a turn in `retry_wait` holds up the next one is shown by theorem
`LaneOrder` only. `CHECK_DEADLOCK FALSE` is set where the
system may really stop: all jobs ended and no message left.

### Disagreements between documents and code

Four runs are expected to fail: each states what a document of the repository
says, and the counterexample shows what the code does instead.

| Run | What is said | What happens |
| --- | --- | --- |
| `queue_served` | later turns are scheduled one after the other | a delivery read while the lane is busy leaves its job on hold until the age limit |
| `queue_flush` | after a flush deliveries are rebuilt | one that already has an inbox row is not |
| `segment_reselect` | converged terminals are not selected again | one job is enough: a turn that ended `needs_clarification` is expected to be `resolved`, one whose proposal was rejected to be `interrupted`, in every pass |
| `segment_approved` | a rejected action does not mask another approval | its event makes the other's resume fail in every attempt |

Behaviours the models also have, which no run states:

- A duplicate of a delivery that is pending beside the acked inbox row of its
  twin keeps a job in `retry_wait` on hold until the age limit
  (`baseline.sql:11353`).
- A finalizer restarted because the head moved (`services/segment_recovery.py:159`)
  cannot be prepared again: the event that caused the restart belongs to
  another run, and prepare refuses it (`services/segment_dispatch.py:85`).
- A written checkpoint whose worker died is refused by takeover once the
  reconciler has redelivered the job, because that raises the job version
  takeover compares (`services/segment_recovery.py:274`).
- A trim intent authorised by a pass that died before its `XDEL` is marked
  unknown by the next pass and stays so; a pass that overlaps another may do
  the same to an intent the other is executing
  (`services/runtime_maintenance.py:313`), or abort an intent whose entry the
  other removed: its rows and its tombstone then stay for ever.
- A tombstone's time to live may pass before its receipt is confirmed; the
  receipt is then stamped in vain by every later pass.
- A workflow whose pinned connection is lost runs on without the lock. Its
  writes to PostgreSQL meet the guard trigger (`NoWriteUnderFence`); its
  commands to Redis meet nothing.
- `docs/architecture.md:238` speaks of a retention window of ten minutes and of
  `QueueDeliveryAudit` rows; the PostgreSQL path requires seven days and writes
  receipts.

## Fairness

- `RuntimeQueue!Fairness`: dispatcher, reconciler and workers run in endless
  loops (`bounded_service_loop`) and are restarted by the container runtime, so
  their steps are weakly fair; so are the clock's steps. Reading a new entry
  and reclaiming an idle one are strongly fair: a poll alternates between the
  two, and `XAUTOCLAIM` resets the idle time of what it returns, so no pending
  entry is passed over for ever.
- `TicketSegments!Fairness`: claims, worker steps, the handoff and the
  reconciler are weakly fair: that a claimable job reaches a worker is assumed
  here and is `RuntimeQueue`'s subject. Nothing is assumed of customers and approvers:
  waiting for an approver is a state of rest.
- `RetentionTrim` has no liveness property: the trim is a command run by hand.
- `WriterBarrier` has no liveness property: nothing in the repository promises
  that an upgrade starts (a workflow's write may queue behind the migrator,
  which waits for the workflow).

## Proofs

`RuntimeQueue_proofs` and `WriterBarrier_proofs` hold for every value of the
constants that satisfies the named assumption of the module
(`QueueAssumption`: counters are naturals, limits are positive, every job has a
ticket; `BarrierAssumption`).

| Theorem | States |
| --- | --- |
| `TypeCorrect` | `Spec => []TypeOK` of the queue |
| `ActivePointer` | a run's active pointer names exactly its leased job and token |
| `LaneOrder` | jobs of a ticket are attempted in order, one at a time |
| `ImplementsLane` | the queue implements `JobLane` |
| `FinishedStays` | a finished job keeps its status and fence; only the worker that finished it normalizes its outcome, in the handoff |
| `BarrierInvariant` | the inductive invariant of the barrier |
| `FenceExcludesFlows` | no workflow that keeps its pinned connection overlaps the fence, except a drain while quiescing |
| `FenceExcludesWriters` | no write of any service, except a drain's while quiescing, spans or follows the raising of the fence |

The queue's argument: most steps do not touch the columns of tickets, jobs and
runs (`JobFrame`), so the invariants about them need only the steps that do.
`ActivePointerConsistent` needs that a lease, its owner and the pointer are
written together; `LaneInOrder` needs that dispatch numbers are unique within a
ticket and below the ticket's counter. The refinement maps every step of the
queue to one step of `JobLane` or to a stutter, with `LaneBlocked` giving the
guard of `Attempt`; the normalization of an outcome is a stutter there.
`FinishedStays` follows step by step: an outcome is written by a claim's end or
normalized by its handoff. The barrier's argument: `FenceSeparates` is not inductive,
because a flow acts on a verdict read earlier; `Current` adds that the verdict
of every flow that holds a lock, its session's or its transaction's, and was
not refused describes the present phase, which holds because the phase that
excludes a body is entered only under the exclusive lock.

Only model-checked: all liveness properties (fairness and `ENABLED` are outside
the prover's reach), the remaining safety properties of the queue, and
`TicketSegments` and `RetentionTrim` as a whole.

## Abstractions a reader should know

- Payloads, hashes and ids are equal or not equal. A hash chain is the identity
  of the last event; a conflict of hashes is a moved head.
- `RuntimeQueue` has only `agent_start` jobs, so a run has one job; the lane
  order of `approval_resume` jobs is in `TicketSegments`.
- The heartbeat of a worker has no action: it keeps a lease live, which is the
  absence of `LeaseExpires`.
- A fencing token of `TicketSegments` is the attempt number: both are raised by
  every claim and by nothing else.
- Effects are known: the answer of the commit that carries an action reaches
  the worker. The unknown case is the first planned module.
- The batch sizes of scans (500 candidates, 1000 entries) are not bounds of the
  models; their starvation hazards are listed in `PROJECT.json`.

## Plan

1. `ActionEffect`: a finalizer whose commit is unknown, `verification_pending`,
   the action-effect reconciler; effect-once against an abstract action that
   happens at most once.
2. `ProviderLimiter`: waiters, permits with leases, rate window; never more
   permits than allowed, first come first served, a dead waiter is passed.
3. `TicketStream`: cursor protocol between `event_stream` and
   `useTicketStream`; every event once and in order in spite of lost wake-ups
   and reconnects, refining a plain log reader.
4. `ToolLedger`: turn groups, invocations, transport attempts and takeover; an
   observation is stored once and replayed, a budget is never exceeded.
5. `IdempotentCommand`: claim, replay and release with client retries.
6. Heartbeats and readiness, data retention, double-write rollout.
7. Operators against references: rank fusion, temporal eligibility, refund
   policy, obligation ledger.
8. Proofs: `ExclusiveFence` and `AckOnlyDurable` of the queue;
   `ApprovedIsDriven`, `OneActivePerResource` and `EffectOnce` of
   `TicketSegments`; `LineageOutlivesEntry` and `StampedAfterReceipt` of
   `RetentionTrim`.
