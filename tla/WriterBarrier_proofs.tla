------------------------ MODULE WriterBarrier_proofs ------------------------
(***************************************************************************)
(* The fence and the barrier, for any number of workflows and writers.     *)
(*                                                                         *)
(* FenceSeparates is not inductive: between the acquire capability and the *)
(* body a flow carries a verdict about the fence, and what makes it still  *)
(* true when the body starts is that the flow holds the lock all along.    *)
(* Current says that: the verdict of every flow that holds a lock, its     *)
(* session's or its transaction's, and has not been refused describes the  *)
(* present phase.  A flow that lost its connection carries a verdict that  *)
(* may be stale; Admits asks again before it writes.                       *)
(***************************************************************************)
EXTENDS WriterBarrier, TLAPS

States == {"idle", "acquired", "working", "wants", "tx", "leaving"}

Verdicts == {"none", "open", "drain", "denied"}

FlowTypes ==
    /\ phase \in Phases
    /\ pc \in [Flows -> States]
    /\ locked \subseteq Flows
    /\ verdict \in [Flows -> Verdicts]
    /\ open \subseteq Writers

VerdictHolds(f) ==
    /\ verdict[f] = "open" => phase = "none"
    /\ verdict[f] = "drain" => phase = "quiescing"

Guarded(f) ==
    \/ f \in locked /\ pc[f] \in Inside \cup {"acquired"}
    \/ pc[f] = "tx"

Current ==
    \A f \in Flows :
        /\ Guarded(f) => VerdictHolds(f)
        /\ pc[f] \in Inside => Permits(verdict[f])
        /\ pc[f] = "acquired" => f \in locked

BarrierInv == FlowTypes /\ Current /\ (open # {} => phase = "none")

\* The inductive invariant holds before any flow starts.
LEMMA BarrierInit == Init => BarrierInv
  BY DEF Init, BarrierInv, FlowTypes, Phases, States, Verdicts, Current, Guarded, Inside

\* A step of one workflow keeps the invariant: it changes its own place, lock
\* and verdict only, and Acquire reads the phase while the lock is granted.
LEMMA FlowStep ==
  ASSUME BarrierInv, NEW f \in Flows, Flow(f)
  PROVE  BarrierInv'
<1>1. phase' = phase /\ open' = open
  BY DEF Flow, Acquire, Enter, Refused, MutateRedis, WantWrite, OpenTx, WriteRefused,
         CommitTx, Leave, Unlock, Crash, LoseConnection, LeaseExpires
<1>2. (open # {} => phase = "none")'
  BY <1>1 DEF BarrierInv
<1>3. ASSUME NEW s \in States, NEW v \in Verdicts, NEW l \in {locked, locked \cup {f}, locked \ {f}},
             pc' = [pc EXCEPT ![f] = s],
             locked' = l,
             verdict' = [verdict EXCEPT ![f] = v],
             (f \in l /\ s \in Inside \cup {"acquired"}) \/ s = "tx" =>
                /\ v = "open" => phase = "none"
                /\ v = "drain" => phase = "quiescing",
             s \in Inside => Permits(v),
             s = "acquired" => f \in l
      PROVE  BarrierInv'
  <2>1. FlowTypes'
    BY <1>1, <1>3 DEF BarrierInv, FlowTypes
  <2>2. ASSUME NEW g \in Flows
        PROVE  (/\ Guarded(g) => VerdictHolds(g)
                /\ pc[g] \in Inside => Permits(verdict[g])
                /\ pc[g] = "acquired" => g \in locked)'
    <3>1. CASE g = f
      <4>1. pc'[g] = s /\ verdict'[g] = v /\ (g \in locked' <=> f \in l)
        BY <1>3, <3>1 DEF BarrierInv, FlowTypes
      <4> QED
        BY <1>1, <1>3, <4>1 DEF Guarded, VerdictHolds, Permits
    <3>2. CASE g # f
      <4>1. pc'[g] = pc[g] /\ verdict'[g] = verdict[g] /\ (g \in locked' <=> g \in locked)
        BY <1>3, <3>2 DEF BarrierInv, FlowTypes
      <4>2. /\ Guarded(g) => VerdictHolds(g)
            /\ pc[g] \in Inside => Permits(verdict[g])
            /\ pc[g] = "acquired" => g \in locked
        BY DEF BarrierInv, Current
      <4> QED
        BY <1>1, <4>1, <4>2 DEF Guarded, VerdictHolds, Permits
    <3> QED
      BY <3>1, <3>2
  <2>3. Current'
    BY <2>2 DEF Current
  <2> QED
    BY <1>2, <2>1, <2>3 DEF BarrierInv
<1>4. verdict[f] \in Verdicts /\ verdict = [verdict EXCEPT ![f] = verdict[f]]
  BY DEF BarrierInv, FlowTypes
<1>5. pc[f] \in States /\ pc = [pc EXCEPT ![f] = pc[f]]
  BY DEF BarrierInv, FlowTypes
<1>6. /\ Guarded(f) => VerdictHolds(f)
      /\ pc[f] \in Inside => Permits(verdict[f])
      /\ pc[f] = "acquired" => f \in locked
  BY DEF BarrierInv, Current
<1>7. ASSUME NEW drains \in BOOLEAN, Acquire(f, drains)
      PROVE  BarrierInv'
  <2>1. /\ pc' = [pc EXCEPT ![f] = "acquired"]
        /\ locked' = locked \cup {f}
        /\ verdict' = [verdict EXCEPT ![f] = Verdict(f, drains)]
    BY <1>7 DEF Acquire
  <2>2. /\ Verdict(f, drains) \in Verdicts
        /\ Verdict(f, drains) = "open" => phase = "none"
        /\ Verdict(f, drains) = "drain" => phase = "quiescing"
    BY DEF Verdict, Verdicts
  <2>3. "acquired" \in States /\ "acquired" \notin Inside
    BY DEF States, Inside
  <2> QED
    BY <1>3, <2>1, <2>2, <2>3
<1>8. CASE Enter(f)
  <2>1. pc' = [pc EXCEPT ![f] = "working"] /\ verdict' = verdict /\ locked' = locked
    BY <1>8 DEF Enter
  <2>2. VerdictHolds(f) /\ Permits(verdict[f])
    BY <1>6, <1>8 DEF Enter, Guarded
  <2>3. "working" \in States
    BY DEF States
  <2> QED
    BY <1>3, <1>4, <2>1, <2>2, <2>3 DEF VerdictHolds
<1>9. CASE Refused(f) \/ Leave(f) \/ WriteRefused(f)
  <2>1. pc' = [pc EXCEPT ![f] = "leaving"] /\ verdict' = verdict /\ locked' = locked
    BY <1>9 DEF Refused, Leave, WriteRefused
  <2>2. "leaving" \in States /\ "leaving" \notin Inside \cup {"acquired", "tx"}
    BY DEF States, Inside
  <2> QED
    BY <1>3, <1>4, <2>1, <2>2
<1>10. CASE MutateRedis(f) \/ LeaseExpires(f)
  <2>1. pc' = pc /\ verdict' = verdict /\ locked' = locked
    BY <1>10 DEF MutateRedis, LeaseExpires
  <2> QED
    BY <1>1, <1>2, <2>1 DEF BarrierInv, FlowTypes, Current, Guarded, VerdictHolds, Permits
<1>11. CASE WantWrite(f) \/ CommitTx(f)
  <2>1. PICK s \in {"wants", "working"} : pc' = [pc EXCEPT ![f] = s]
    BY <1>11 DEF WantWrite, CommitTx
  <2>2. verdict' = verdict /\ locked' = locked
    BY <1>11 DEF WantWrite, CommitTx
  <2>3. (f \in locked => VerdictHolds(f)) /\ Permits(verdict[f])
    BY <1>6, <1>11 DEF WantWrite, CommitTx, Inside, Guarded
  <2>4. s \in States /\ s # "tx" /\ s # "acquired"
    BY DEF States
  <2> QED
    BY <1>3, <1>4, <2>1, <2>2, <2>3, <2>4 DEF VerdictHolds
<1>12. CASE OpenTx(f)
  <2>1. pc' = [pc EXCEPT ![f] = "tx"] /\ verdict' = verdict /\ locked' = locked
    BY <1>12 DEF OpenTx
  <2>2. Permits(verdict[f])
    BY <1>6, <1>12 DEF OpenTx, Inside
  <2>3. VerdictHolds(f)
    BY <1>12 DEF OpenTx, Admits, Fenced, VerdictHolds
  <2>4. "tx" \in States
    BY DEF States
  <2> QED
    BY <1>3, <1>4, <2>1, <2>2, <2>3, <2>4 DEF VerdictHolds
<1>13. CASE Unlock(f) \/ Crash(f)
  <2>1. /\ pc' = [pc EXCEPT ![f] = "idle"]
        /\ locked' = locked \ {f}
        /\ verdict' = [verdict EXCEPT ![f] = "none"]
    BY <1>13 DEF Unlock, Crash, BodyGone
  <2>2. "idle" \in States /\ "idle" \notin Inside \cup {"acquired", "tx"} /\ "none" \in Verdicts
    BY DEF States, Verdicts, Inside
  <2> QED
    BY <1>3, <2>1, <2>2
<1>14. CASE LoseConnection(f)
  <2>1. pc' = pc /\ verdict' = verdict /\ locked' = locked \ {f} /\ pc[f] # "acquired"
    BY <1>14 DEF LoseConnection
  <2>2. pc[f] = "tx" => VerdictHolds(f)
    BY <1>6 DEF Guarded
  <2> QED
    BY <1>3, <1>4, <1>5, <1>6, <2>1, <2>2 DEF VerdictHolds
<1> QED
  BY <1>7, <1>8, <1>9, <1>10, <1>11, <1>12, <1>13, <1>14 DEF Flow

\* A transaction of the API opens only without a fence.
LEMMA WriterStep ==
  ASSUME BarrierInv, NEW w \in Writers, WriterOpens(w) \/ WriterCommits(w)
  PROVE  BarrierInv'
<1>1. phase' = phase /\ pc' = pc /\ locked' = locked /\ verdict' = verdict
  BY DEF WriterOpens, WriterCommits
<1>2. open' \subseteq Writers /\ (open' # {} => phase' = "none")
  BY <1>1 DEF WriterOpens, WriterCommits, BarrierInv, FlowTypes, Fenced
<1> QED
  BY <1>1, <1>2 DEF BarrierInv, FlowTypes, Current, Guarded, VerdictHolds, Permits

\* The migrator moves the fence only while nobody holds the lock, except to
\* lift it, and then no flow has a verdict that the old phase supported.
LEMMA MigratorStep ==
  ASSUME BarrierInv, Request \/ Begin \/ Advance \/ Withdraw \/ Attest
  PROVE  BarrierInv'
<1>1. pc' = pc /\ locked' = locked /\ verdict' = verdict /\ open' = open
  BY DEF Request, Begin, Advance, Withdraw, Attest
<1>2. CASE Begin \/ Advance
  <2>1. LockFree /\ phase' \in Phases
    BY <1>2 DEF Begin, Advance, NextPhase, Phases
  <2>2. \A f \in Flows : ~Guarded(f)
    BY <2>1 DEF LockFree, Guarded
  <2>3. \A f \in Flows : ~Guarded(f)'
    BY <1>1, <2>2 DEF Guarded
  <2>4. Current'
    BY <1>1, <2>3 DEF BarrierInv, Current, Permits
  <2> QED
    BY <1>1, <2>1, <2>4 DEF LockFree, BarrierInv, FlowTypes
<1>3. CASE Request \/ Withdraw
  <2>1. phase' = phase
    BY <1>3 DEF Request, Withdraw
  <2> QED
    BY <1>1, <2>1 DEF BarrierInv, FlowTypes, Current, Guarded, VerdictHolds, Permits
<1>4. CASE Attest
  BY <1>1, <1>4 DEF Attest, BarrierInv, FlowTypes, Phases, Current, Guarded, VerdictHolds,
                    Permits
<1> QED
  BY <1>2, <1>3, <1>4

\* The invariant of the barrier is inductive.
THEOREM BarrierInvariant == Spec => []BarrierInv
<1>1. BarrierInv /\ [Next]_vars => BarrierInv'
  <2> SUFFICES ASSUME BarrierInv, [Next]_vars PROVE BarrierInv'
    OBVIOUS
  <2>1. CASE Next
    BY <2>1, FlowStep, WriterStep, MigratorStep DEF Next
  <2>2. CASE UNCHANGED vars
    BY <2>2 DEF vars, BarrierInv, FlowTypes, Current, Guarded, VerdictHolds, Permits
  <2> QED
    BY <2>1, <2>2
<1> QED
  BY BarrierInit, <1>1, PTL DEF Spec

\* For any set of workflows, drains and writers, a cross-store workflow that keeps
\* its pinned connection and the upgrade fence never overlap, save for a drain
\* while quiescing: the barrier is held from the verdict to the exit.
THEOREM FenceExcludesFlows == Spec => []FenceSeparates
<1>1. BarrierInv => FenceSeparates
  <2> SUFFICES ASSUME BarrierInv, phase # "none", NEW f \in locked, pc[f] \in Inside
               PROVE  verdict[f] = "drain" /\ phase = "quiescing"
    BY DEF FenceSeparates
  <2>1. f \in Flows
    BY DEF BarrierInv, FlowTypes
  <2>2. VerdictHolds(f) /\ Permits(verdict[f])
    BY <2>1 DEF BarrierInv, Current, Guarded
  <2> QED
    BY <2>2 DEF VerdictHolds, Permits
<1> QED
  BY BarrierInvariant, <1>1, PTL

\* For any set of workflows and writers, PostgreSQL is written under the fence by
\* none but a drain while quiescing, also when a workflow has lost the connection
\* that held its lock: the guard trigger reads the fence under its own lock.
THEOREM FenceExcludesWriters == Spec => []NoWriteUnderFence
<1>1. BarrierInv => NoWriteUnderFence
  <2> SUFFICES ASSUME BarrierInv, phase # "none" PROVE NoWriteUnderFence
    BY DEF NoWriteUnderFence
  <2>1. open = {}
    BY DEF BarrierInv
  <2>2. ASSUME NEW f \in Flows, pc[f] = "tx"
        PROVE  verdict[f] = "drain" /\ phase = "quiescing"
    <3>1. VerdictHolds(f) /\ Permits(verdict[f])
      BY <2>2 DEF BarrierInv, Current, Guarded, Inside
    <3> QED
      BY <3>1 DEF VerdictHolds, Permits
  <2> QED
    BY <2>1, <2>2 DEF NoWriteUnderFence
<1> QED
  BY BarrierInvariant, <1>1, PTL

=============================================================================
