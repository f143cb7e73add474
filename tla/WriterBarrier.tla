--------------------------- MODULE WriterBarrier ---------------------------
(***************************************************************************)
(* The writer barrier and the upgrade fence.                               *)
(*                                                                         *)
(* A workflow that touches both stores (a dispatcher, worker, reconciler   *)
(* or trim pass) holds one shared advisory lock on a connection of its own *)
(* from cross_store_writer_barrier's entry to its exit.  Every write of    *)
(* any service takes the same lock, shared, until its transaction ends,    *)
(* and re-reads the fence.  The migrator moves the fence under the         *)
(* exclusive lock.                                                         *)
(*                                                                         *)
(* A flow can lose that connection alone: the lock goes with it, and the   *)
(* body, which works on other connections, runs on without noticing.       *)
(*                                                                         *)
(* PostgreSQL queues the migrator's request: while it waits, a later       *)
(* request for the shared lock waits behind it, even one made by the write *)
(* of a workflow that already holds the lock on its other connection.      *)
(***************************************************************************)
EXTENDS Naturals

CONSTANTS
    Flows,         \* cross-store workflows
    Drains,        \* the worker and reconciler flows able to present a lease
    Writers,       \* single-store transactions, those of the API
    MaxUpgrades,   \* bound on upgrades
    MaxCrashes     \* bound on crashes of flows and on lost connections

ASSUME BarrierAssumption ==
    /\ Drains \subseteq Flows
    /\ MaxUpgrades \in Nat
    /\ MaxCrashes \in Nat

VARIABLES
    phase,      \* phase of the upgrade run that is not attested, or "none"
    waiting,    \* the migrator's request for the exclusive lock is queued
    pc,         \* where a flow is
    locked,     \* flows whose pinned connection holds the shared lock
    verdict,    \* the answer of the acquire capability
    dirty,      \* flows whose body has changed Redis and not yet PostgreSQL
    stray,      \* flows a body of which left such a change behind for ever
    leases,     \* flows whose pre-fence job lease is live
    open,       \* writers with an open transaction
    upgrades, crashes

redis == <<dirty, stray>>

vars == <<phase, waiting, pc, locked, verdict, redis, leases, open, upgrades, crashes>>

NextPhase ==
    [quiescing |-> "quiesced", quiesced |-> "preflight_written",
     preflight_written |-> "schema_upgraded", schema_upgraded |-> "knowledge_rebuilt",
     knowledge_rebuilt |-> "summaries_restored", summaries_restored |-> "verified"]

Phases == {"none", "quiescing", "quiesced", "preflight_written", "schema_upgraded",
           "knowledge_rebuilt", "summaries_restored", "verified"}

Init ==
    /\ phase = "none"
    /\ waiting = FALSE
    /\ pc = [f \in Flows |-> "idle"]
    /\ locked = {}
    /\ verdict = [f \in Flows |-> "none"]
    /\ dirty = {}
    /\ stray = {}
    /\ leases = {}
    /\ open = {}
    /\ upgrades = 0
    /\ crashes = 0

\* Mutant: only open transactions hold the lock, not the bodies around them.
LockFree_TxOnly == (\A f \in Flows : pc[f] # "tx") /\ open = {}

\* No session holds the shared lock: no pinned connection, and no transaction
\* that has written, whose own lock is kept until it ends.
LockFree == locked = {} /\ (\A f \in Flows : pc[f] # "tx") /\ open = {}

\* Mutant: the guard asks for the first phase only.
Fenced_QuiescingOnly == phase = "quiescing"

\* The guard trigger's question: is there an upgrade run that is not attested?
Fenced == phase # "none"

-----------------------------------------------------------------------------
\* A cross-store workflow.

\* The fence is read after the lock is granted.  Without a fence a flow that
\* presents no lease is permitted; while quiescing, only one that does.
Verdict(f, drains) ==
    IF phase = "none" /\ ~drains THEN "open"
    ELSE IF phase = "quiescing" /\ drains /\ f \in leases THEN "drain"
    ELSE "denied"

Acquire(f, drains) ==
    /\ pc[f] = "idle"
    /\ ~waiting
    /\ drains => f \in Drains
    /\ pc' = [pc EXCEPT ![f] = "acquired"]
    /\ locked' = locked \cup {f}
    /\ verdict' = [verdict EXCEPT ![f] = Verdict(f, drains)]
    /\ UNCHANGED <<phase, waiting, redis, leases, open, upgrades, crashes>>

Permits(v) == v \in {"open", "drain"}

Enter(f) ==
    /\ pc[f] = "acquired"
    /\ Permits(verdict[f])
    /\ pc' = [pc EXCEPT ![f] = "working"]
    /\ UNCHANGED <<phase, waiting, locked, verdict, redis, leases, open, upgrades, crashes>>

\* UpgradeInProgress is raised before the body runs; the lock is given back.
Refused(f) ==
    /\ pc[f] = "acquired"
    /\ ~Permits(verdict[f])
    /\ pc' = [pc EXCEPT ![f] = "leaving"]
    /\ UNCHANGED <<phase, waiting, locked, verdict, redis, leases, open, upgrades, crashes>>

\* Mutant: Redis is changed before the verdict is looked at.
MutateRedis_BeforeVerdict(f) ==
    /\ pc[f] \in {"acquired", "working"}
    /\ dirty' = dirty \cup {f}
    /\ UNCHANGED <<phase, waiting, pc, locked, verdict, stray, leases, open, upgrades, crashes>>

\* The dispatcher's XADD, a worker's XACK, a trim script.
MutateRedis(f) ==
    /\ pc[f] = "working"
    /\ dirty' = dirty \cup {f}
    /\ UNCHANGED <<phase, waiting, pc, locked, verdict, stray, leases, open, upgrades, crashes>>

WantWrite(f) ==
    /\ pc[f] = "working"
    /\ pc' = [pc EXCEPT ![f] = "wants"]
    /\ UNCHANGED <<phase, waiting, locked, verdict, redis, leases, open, upgrades, crashes>>

\* A drain's transaction is bound to its receipt, which asks for the quiescing
\* run and for the pinned backend's lock; any other write asks for no fence.
Admits(f) ==
    IF verdict[f] = "drain" THEN phase = "quiescing" /\ f \in locked ELSE ~Fenced

\* The guard trigger queues for the shared lock and then reads the fence.
OpenTx(f) ==
    /\ pc[f] = "wants"
    /\ ~waiting
    /\ Admits(f)
    /\ pc' = [pc EXCEPT ![f] = "tx"]
    /\ UNCHANGED <<phase, waiting, locked, verdict, redis, leases, open, upgrades, crashes>>

\* upgrade_in_progress, or drain_binding_invalid: a drain's job may also have
\* ended, or its lease run out, since the receipt was written.
WriteRefused(f) ==
    /\ pc[f] = "wants"
    /\ ~waiting
    /\ ~Admits(f) \/ verdict[f] = "drain"
    /\ pc' = [pc EXCEPT ![f] = "leaving"]
    /\ UNCHANGED <<phase, waiting, locked, verdict, redis, leases, open, upgrades, crashes>>

\* The commit records what the body did to Redis.  It claims or ends the
\* flow's lease; a write by a drain makes the job younger than the fence, so
\* that its lease no longer counts as pre-fence.
CommitTx(f) ==
    /\ pc[f] = "tx"
    /\ pc' = [pc EXCEPT ![f] = "working"]
    /\ dirty' = dirty \ {f}
    /\ leases' \in IF verdict[f] = "open" THEN {leases \cup {f}, leases \ {f}}
                                          ELSE {leases \ {f}}
    /\ UNCHANGED <<phase, waiting, locked, verdict, stray, open, upgrades, crashes>>

\* The body ends or raises, an open transaction being rolled back.
Leave(f) ==
    /\ pc[f] \in {"working", "tx"}
    /\ pc' = [pc EXCEPT ![f] = "leaving"]
    /\ UNCHANGED <<phase, waiting, locked, verdict, redis, leases, open, upgrades, crashes>>

\* The flow is over.  What its body did to Redis and did not record stays.
BodyGone(f) ==
    /\ pc' = [pc EXCEPT ![f] = "idle"]
    /\ verdict' = [verdict EXCEPT ![f] = "none"]
    /\ dirty' = dirty \ {f}
    /\ stray' = stray \cup (dirty \cap {f})

\* Mutant: the connection goes back to the pool with its session lock.
Unlock_KeepsLock(f) ==
    /\ pc[f] = "leaving"
    /\ BodyGone(f)
    /\ UNCHANGED <<phase, waiting, locked, leases, open, upgrades, crashes>>

\* The receipt is released and the session lock unlocked; a connection that
\* was lost has no lock to give back and is closed.
Unlock(f) ==
    /\ pc[f] = "leaving"
    /\ BodyGone(f)
    /\ locked' = locked \ {f}
    /\ UNCHANGED <<phase, waiting, leases, open, upgrades, crashes>>

\* The process dies; PostgreSQL releases the locks of its connections.
Crash(f) ==
    /\ pc[f] # "idle"
    /\ crashes < MaxCrashes
    /\ crashes' = crashes + 1
    /\ BodyGone(f)
    /\ locked' = locked \ {f}
    /\ UNCHANGED <<phase, waiting, leases, open, upgrades>>

\* Only the pinned connection is lost.  Nothing uses it while the body runs,
\* so nothing notices before the exit.
LoseConnection(f) ==
    /\ f \in locked
    /\ pc[f] \notin {"idle", "acquired"}
    /\ crashes < MaxCrashes
    /\ crashes' = crashes + 1
    /\ locked' = locked \ {f}
    /\ UNCHANGED <<phase, waiting, pc, verdict, redis, leases, open, upgrades>>

LeaseExpires(f) ==
    /\ f \in leases
    /\ leases' = leases \ {f}
    /\ UNCHANGED <<phase, waiting, pc, locked, verdict, redis, open, upgrades, crashes>>

-----------------------------------------------------------------------------
\* A transaction of a service that needs no second store.  Under the fence its
\* first write raises upgrade_in_progress and nothing changes.

WriterOpens(w) ==
    /\ w \notin open
    /\ ~waiting
    /\ ~Fenced
    /\ open' = open \cup {w}
    /\ UNCHANGED <<phase, waiting, pc, locked, verdict, redis, leases, upgrades, crashes>>

WriterCommits(w) ==
    /\ w \in open
    /\ open' = open \ {w}
    /\ UNCHANGED <<phase, waiting, pc, locked, verdict, redis, leases, upgrades, crashes>>

-----------------------------------------------------------------------------
\* The migrator.

\* upgrade_transition asks for the exclusive lock and is queued.
Request ==
    /\ ~waiting
    /\ phase # "verified"
    /\ phase = "none" => upgrades < MaxUpgrades
    /\ waiting' = TRUE
    /\ UNCHANGED <<phase, pc, locked, verdict, redis, leases, open, upgrades, crashes>>

Begin ==
    /\ waiting /\ LockFree
    /\ phase = "none"
    /\ phase' = "quiescing"
    /\ upgrades' = upgrades + 1
    /\ waiting' = FALSE
    /\ UNCHANGED <<pc, locked, verdict, redis, leases, open, crashes>>

Advance ==
    /\ waiting /\ LockFree
    /\ phase \in DOMAIN NextPhase
    /\ phase' = NextPhase[phase]
    /\ waiting' = FALSE
    /\ UNCHANGED <<pc, locked, verdict, redis, leases, open, upgrades, crashes>>

\* A repeated "begin" finds the run and resumes it; a caller that stops
\* waiting leaves the queue.  Neither changes the fence.
Withdraw ==
    /\ waiting
    /\ waiting' = FALSE
    /\ UNCHANGED <<phase, pc, locked, verdict, redis, leases, open, upgrades, crashes>>

\* write_attestation takes no barrier lock.
Attest ==
    /\ phase = "verified"
    /\ phase' = "none"
    /\ UNCHANGED <<waiting, pc, locked, verdict, redis, leases, open, upgrades, crashes>>

Flow(f) ==
    \/ \E drains \in BOOLEAN : Acquire(f, drains)
    \/ Enter(f)
    \/ Refused(f)
    \/ MutateRedis(f)
    \/ WantWrite(f)
    \/ OpenTx(f)
    \/ WriteRefused(f)
    \/ CommitTx(f)
    \/ Leave(f)
    \/ Unlock(f)
    \/ Crash(f)
    \/ LoseConnection(f)
    \/ LeaseExpires(f)

Next ==
    \/ \E f \in Flows : Flow(f)
    \/ \E w \in Writers : WriterOpens(w) \/ WriterCommits(w)
    \/ Request
    \/ Begin
    \/ Advance
    \/ Withdraw
    \/ Attest

Spec == Init /\ [][Next]_vars

-----------------------------------------------------------------------------

\* Every variable of the barrier keeps its type; a flow holds the lock, and has
\* work that it may still record, only between the barrier's entry and its exit.
TypeOK ==
    /\ phase \in Phases
    /\ waiting \in BOOLEAN
    /\ pc \in [Flows -> {"idle", "acquired", "working", "wants", "tx", "leaving"}]
    /\ locked \cup dirty \subseteq {f \in Flows : pc[f] # "idle"}
    /\ verdict \in [Flows -> {"none", "open", "drain", "denied"}]
    /\ stray \subseteq Flows
    /\ leases \subseteq Flows
    /\ open \subseteq Writers
    /\ upgrades \in 0..MaxUpgrades
    /\ crashes \in 0..MaxCrashes

Inside == {"working", "wants", "tx"}

\* A cross-store workflow that keeps its pinned connection never overlaps the
\* fence: cross_store_writer_barrier reads the fence under the lock and holds
\* it to the exit, so the fence is raised while no such body is half way
\* between the stores, and until the attestation none starts, except that of
\* a drain while quiescing.  (What an earlier body left unrecorded, by a crash
\* or an error, is in Redis all the same.)
FenceSeparates ==
    phase # "none" => \A f \in locked :
        pc[f] \in Inside => verdict[f] = "drain" /\ phase = "quiescing"

\* PostgreSQL is not written under the fence, except by a drain while quiescing,
\* and no transaction spans the moment the fence moves.  It holds even for a
\* body that runs on after its pinned connection, and the lock with it, is
\* lost: the guard trigger takes the lock for each write and reads the fence
\* after it.
NoWriteUnderFence ==
    phase # "none" =>
        /\ open = {}
        /\ \A f \in Flows :
              pc[f] = "tx" => verdict[f] = "drain" /\ phase = "quiescing"

\* A flow that is refused raises before it touches Redis: a flow that has its
\* pinned connection changes Redis only without a fence or as a drain.
RedisUntouchedByRefused ==
    [][\A f \in locked : f \in dirty' \ dirty =>
          phase = "none" \/ (phase = "quiescing" /\ verdict[f] = "drain")]_vars

=============================================================================
