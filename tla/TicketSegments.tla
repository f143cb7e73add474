--------------------------- MODULE TicketSegments ---------------------------
(***************************************************************************)
(* One conversation ticket: its messages, agent runs, approvals and the    *)
(* fenced segments in which workers compute and publish them.              *)
(*                                                                         *)
(* Every message is a turn with one run.  The run is driven by a job       *)
(* "agent_start" and, once a human approves the action it proposed, by a   *)
(* second job "approval_resume".  A worker that holds a job's lease        *)
(* prepares a checkpoint marker, runs the graph, writes the checkpoint     *)
(* with a finalizer payload, and commits both in one finalizer             *)
(* transaction that is checked against the ticket version, the ticket's    *)
(* last event and the fence recorded earlier.  Delivery is abstracted to   *)
(* Claim and LeaseLost; RuntimeQueue models it.                            *)
(*                                                                         *)
(* The turn's activity is not a variable: a trigger derives it from the    *)
(* run's status.  A fencing token is the job's attempt number: every claim *)
(* raises both by one.                                                     *)
(***************************************************************************)
EXTENDS Integers, Sequences, SequencesExt, FiniteSets

CONSTANTS
    NTurns,         \* customer messages the ticket receives
    Resources,      \* business resources the actions are about
    ResourceOf,     \* the resource the action of a turn is about
    MaxAttempts,    \* claims a job may use (max_attempts)
    MaxFailures,    \* handler exceptions, over all jobs
    MaxCrashes,     \* worker crashes, over all jobs
    MaxKills,       \* jobs the reconciler declares dead
    MaxArchives     \* times the customer archives the ticket

ASSUME SegmentsAssumption ==
    /\ {NTurns, MaxAttempts} \subseteq Nat \ {0}
    /\ {MaxFailures, MaxCrashes, MaxKills, MaxArchives} \subseteq Nat
    /\ ResourceOf \in [1..NTurns -> Resources]

Turns == 1..NTurns
NoTurn == 0
Kinds == {"agent_start", "approval_resume"}
Jobs == Turns \X Kinds
Start(t) == <<t, "agent_start">>
Resume(t) == <<t, "approval_resume">>
Decision(t) == <<t, "human_decision">>
TurnOf(j) == j[1]
IsResume(j) == j[2] = "approval_resume"

VARIABLES
    serving,    \* lifecycle = 'active'
    tstatus,    \* support_tickets.status
    head,       \* the run that owns the ticket's last event
    pinned,     \* markers and decisions that recorded the event that is still last
    fresh,      \* jobs whose payload holds the current ticket version
    lane,       \* jobs in dispatch_sequence order
    rstatus,    \* agent_runs.status, "none" before the message is accepted
    started,    \* runs that have an event (next_run_sequence > 0)
    restarted,  \* runs with a pre_effect_finalizer_restart audit event
    astatus,    \* approval_requests.status of the turn's action, "none" before
    effects,    \* business actions committed for the turn
    jstatus,    \* runtime_jobs.status
    joutcome,   \* runtime_jobs.outcome
    attempt,    \* runtime_jobs.attempt and fencing_token
    failed,     \* jobs whose last_error starts with 'failed:'
    moved,      \* jobs redelivered since their checkpoint was written
    marker,     \* status of the job's newest checkpoint marker
    mfence,     \* its fencing token
    orphan,     \* jobs that also have an older marker left prepared
    plan,       \* what the finalizer payload of the job says to publish
    owing,      \* jobs a worker has ended itself and not yet called finish_job for
    budget      \* failures, crashes, kills and archives left

ticketVars == <<serving, tstatus, head, pinned, fresh, lane>>
runVars == <<rstatus, started, restarted, astatus, effects>>
jobVars == <<jstatus, joutcome, attempt, failed, moved>>
markerVars == <<marker, mfence, orphan, plan, owing>>
vars == <<ticketVars, runVars, jobVars, markerVars, budget>>

LiveStatus == {"queued", "retry_wait", "leased"}
ActiveApproval == {"pending", "approved"}
Terminal == {"resolved", "needs_clarification"}

Init ==
    /\ serving = TRUE /\ tstatus = "open" /\ head = NoTurn
    /\ pinned = {} /\ fresh = {} /\ lane = <<>>
    /\ rstatus = [t \in Turns |-> "none"] /\ started = {} /\ restarted = {}
    /\ astatus = [t \in Turns |-> "none"] /\ effects = [t \in Turns |-> 0]
    /\ jstatus = [j \in Jobs |-> "none"] /\ joutcome = [j \in Jobs |-> "none"]
    /\ attempt = [j \in Jobs |-> 0] /\ failed = {} /\ moved = {}
    /\ marker = [j \in Jobs |-> "none"] /\ mfence = [j \in Jobs |-> 0]
    /\ orphan = {} /\ plan = [j \in Jobs |-> "none"] /\ owing = {}
    /\ budget = [failure |-> MaxFailures, crash |-> MaxCrashes,
                 kill |-> MaxKills, archive |-> MaxArchives]

Spend(kind) ==
    /\ budget[kind] > 0
    /\ budget' = [budget EXCEPT ![kind] = @ - 1]

-----------------------------------------------------------------------------
(* The ticket status: supportguard_internal_converge_ticket_status.  Work    *)
(* in flight shows as queued, else an active approval shows as               *)
(* awaiting_approval, else the caller's status stands; a ticket that is not  *)
(* served keeps what it has.                                                 *)

\* Mutant: an approval hides work that is still in flight.
Projection_ApprovalFirst(rs, js, as, default) ==
    IF ~serving THEN default
    ELSE IF \E t \in Turns : as[t] \in ActiveApproval THEN "awaiting_approval"
    ELSE IF \E j \in Jobs : js[j] \in LiveStatus THEN "queued"
    ELSE default

Projection(rs, js, as, default) ==
    IF ~serving THEN default
    ELSE IF \/ \E t \in Turns : rs[t] \in {"queued", "running"}
            \/ \E j \in Jobs : js[j] \in LiveStatus THEN "queued"
    ELSE IF \E t \in Turns : as[t] \in ActiveApproval THEN "awaiting_approval"
    ELSE default

\* The handler writes `written' (raising the version if that is a change),
\* then converges with the same default.
WriteStatus(written) ==
    /\ tstatus' = Projection(rstatus', jstatus', astatus', written)
    /\ fresh' = IF {tstatus, tstatus'} = {written} THEN fresh ELSE {}

\* The handler raises the version whatever the status.
BumpStatus(written) ==
    /\ tstatus' = Projection(rstatus', jstatus', astatus', written)
    /\ fresh' = {}

\* The handler only converges: a ticket that is not served stays as it is.
ConvergeStatus(default) ==
    /\ tstatus' = IF serving THEN Projection(rstatus', jstatus', astatus', default)
                  ELSE tstatus
    /\ fresh' = IF tstatus' = tstatus THEN fresh ELSE {}

\* Append an event of run t: it becomes the ticket's last event.
AppendEvent(t, pins) ==
    /\ head' = t
    /\ pinned' = pins
    /\ started' = started \cup {t}

-----------------------------------------------------------------------------
(* The customer and the approver: the API's capability functions.            *)

\* A message is accepted: turn, run and job are queued behind the others.
AcceptMessage(t) ==
    /\ serving
    /\ rstatus[t] = "none"
    /\ \A u \in 1..(t - 1) : rstatus[u] # "none"
    /\ rstatus' = [rstatus EXCEPT ![t] = "queued"]
    /\ jstatus' = [jstatus EXCEPT ![Start(t)] = "queued"]
    /\ lane' = Append(lane, Start(t))
    /\ tstatus' = "queued"
    /\ fresh' = {}
    /\ UNCHANGED <<serving, head, pinned, started, restarted, astatus, effects,
                   joutcome, attempt, failed, moved, markerVars, budget>>

\* Archive or restore: the lifecycle and the version change, nothing else.
TransitionConversation ==
    /\ serving' = ~serving
    /\ IF serving THEN Spend("archive") ELSE UNCHANGED budget
    /\ fresh' = {}
    /\ UNCHANGED <<tstatus, head, pinned, lane, runVars, jobVars, markerVars>>

\* Mutant: the status of the approval is not looked at.
Decidable_AnyStatus(t) ==
    /\ astatus[t] # "none"
    /\ marker[Start(t)] = "finalized"

\* The pending approval of a run that waits for it, at its finalized checkpoint.
Decidable(t) ==
    /\ astatus[t] = "pending"
    /\ rstatus[t] = "interrupted"
    /\ marker[Start(t)] = "finalized"

\* Approve: the run is queued again and a resume job joins the lane.  The
\* backlog the decision is refused under is counted over all tickets; the
\* refusal writes nothing, so it is the step in which this one is not taken.
Approve(t) ==
    /\ Decidable(t)
    /\ astatus' = [astatus EXCEPT ![t] = "approved"]
    /\ rstatus' = [rstatus EXCEPT ![t] = "queued"]
    /\ jstatus' = [jstatus EXCEPT ![Resume(t)] = "queued"]
    /\ lane' = Append(lane, Resume(t))
    /\ AppendEvent(t, {Decision(t)})
    /\ tstatus' = "queued"
    /\ fresh' = {}
    /\ UNCHANGED <<serving, restarted, effects, joutcome, attempt, failed, moved,
                   markerVars, budget>>

\* Reject and withdraw end the run without a job.
CloseApproval(t, result, default) ==
    /\ astatus' = [astatus EXCEPT ![t] = result]
    /\ rstatus' = [rstatus EXCEPT ![t] = "completed"]
    /\ AppendEvent(t, {Decision(t)})
    /\ UNCHANGED jstatus
    /\ BumpStatus(default)
    /\ UNCHANGED <<serving, lane, restarted, effects, joutcome, attempt, failed,
                   moved, markerVars, budget>>

Reject(t) ==
    /\ Decidable(t)
    /\ CloseApproval(t, "rejected", "rejected")

\* The customer withdraws a pending proposal; the checkpoint is not looked at.
Withdraw(t) ==
    /\ astatus[t] = "pending"
    /\ CloseApproval(t, "withdrawn", "open")

-----------------------------------------------------------------------------
(* Claims, failures and lost leases, as this ticket sees them.               *)

\* No earlier job of the ticket is live and no other one is leased.
LaneHead(j) ==
    \E i \in DOMAIN lane :
        /\ lane[i] = j
        /\ \A e \in 1..(i - 1) : jstatus[lane[e]] \notin LiveStatus
        /\ \A k \in Jobs \ {j} : jstatus[k] # "leased"

\* Mutant: the approval is forgotten.
FailApproval_Forgets(j) == UNCHANGED astatus

\* An approval whose resume job dies fails with it.
FailApproval(j) ==
    astatus' = [astatus EXCEPT ![TurnOf(j)] =
                   IF IsResume(j) /\ @ \in ActiveApproval THEN "failed" ELSE @]

\* The job dies: event, run, approval and markers converge with it.
Die(j, outcome) ==
    /\ jstatus' = [jstatus EXCEPT ![j] = "dead"]
    /\ joutcome' = [joutcome EXCEPT ![j] = outcome]
    /\ rstatus' = [rstatus EXCEPT ![TurnOf(j)] = "failed"]
    /\ AppendEvent(TurnOf(j), {})
    /\ marker' = [marker EXCEPT ![j] = IF @ \in {"prepared", "written"} THEN "aborted" ELSE @]
    /\ orphan' = orphan \ {j}
    /\ FailApproval(j)
    /\ UNCHANGED <<serving, lane, restarted, effects, attempt, failed, moved, mfence, plan>>

\* The owner helper, called where the job runs out of attempts.
ConvergeDead(j) ==
    /\ Die(j, "infrastructure_exhausted")
    /\ WriteStatus("failed")
    /\ UNCHANGED owing

\* Mutant: one too many.
Exhausted_OneMore(j) == attempt[j] > MaxAttempts

\* The job has used its attempts.
Exhausted(j) == attempt[j] >= MaxAttempts

\* finish_job('failed:...'): retry while attempts are left.
FinishFailed(j) ==
    IF Exhausted(j) THEN ConvergeDead(j)
    ELSE /\ jstatus' = [jstatus EXCEPT ![j] = "retry_wait"]
         /\ rstatus' = [rstatus EXCEPT ![TurnOf(j)] = "queued"]
         /\ failed' = failed \cup {j}
         /\ UNCHANGED astatus
         /\ ConvergeStatus("failed")
         /\ UNCHANGED <<serving, head, pinned, lane, started, restarted, effects,
                        joutcome, attempt, moved, markerVars>>

\* Mutant: a job that waits for its retry is not looked at.
Claimable_QueuedOnly(j) ==
    /\ serving
    /\ jstatus[j] = "queued"
    /\ LaneHead(j)
    /\ IsResume(j) => astatus[TurnOf(j)] = "approved"

\* A delivery of the job is accepted: the lane head is leased under a new fence.
Claimable(j) ==
    /\ serving
    /\ jstatus[j] \in {"queued", "retry_wait"}
    /\ LaneHead(j)
    /\ IsResume(j) => astatus[TurnOf(j)] = "approved"

Claim(j) ==
    /\ Claimable(j)
    /\ ~Exhausted(j)
    /\ jstatus' = [jstatus EXCEPT ![j] = "leased"]
    /\ attempt' = [attempt EXCEPT ![j] = @ + 1]
    /\ rstatus' = [rstatus EXCEPT ![TurnOf(j)] = "running"]
    /\ tstatus' = IF tstatus = "queued" THEN "running" ELSE tstatus
    /\ fresh' = IF tstatus = "queued" THEN {} ELSE fresh
    /\ UNCHANGED <<serving, head, pinned, lane, started, restarted, astatus, effects,
                   joutcome, failed, moved, markerVars, budget>>

ClaimExhausted(j) ==
    /\ Claimable(j)
    /\ Exhausted(j)
    /\ ConvergeDead(j)
    /\ UNCHANGED budget

\* The handler raises before its finalizer transaction commits.
WorkerFails(j) ==
    /\ jstatus[j] = "leased"
    /\ Spend("failure")
    /\ FinishFailed(j)

\* The graph of a message raises a DomainError: the job ends in one step, and
\* its open markers are closed as finalized.
WorkerDomainError(j) ==
    /\ jstatus[j] = "leased" /\ ~IsResume(j)
    /\ Spend("failure")
    /\ jstatus' = [jstatus EXCEPT ![j] = "succeeded"]
    /\ joutcome' = [joutcome EXCEPT ![j] = "domain_terminal"]
    /\ rstatus' = [rstatus EXCEPT ![TurnOf(j)] = "completed"]
    /\ marker' = [marker EXCEPT ![j] = IF @ \in {"prepared", "written"} THEN "finalized" ELSE @]
    /\ orphan' = orphan \ {j}
    /\ UNCHANGED astatus
    /\ BumpStatus("failed")
    /\ UNCHANGED <<serving, head, pinned, lane, started, restarted, effects, attempt,
                   failed, moved, mfence, plan, owing>>

\* The worker dies; the reconciler finds the lease expired and requeues the
\* job.  last_error and the ticket keep their values.
LeaseLost(j) ==
    /\ jstatus[j] = "leased"
    /\ Spend("crash")
    /\ jstatus' = [jstatus EXCEPT ![j] = "queued"]
    /\ rstatus' = [rstatus EXCEPT ![TurnOf(j)] = "queued"]
    /\ UNCHANGED <<ticketVars, started, restarted, astatus, effects, joutcome,
                   attempt, failed, moved, markerVars>>

\* The reconciler redelivers a waiting job: its version rises.
Redeliver(j) ==
    /\ jstatus[j] \in {"queued", "retry_wait"}
    /\ marker[j] = "written"
    /\ jstatus' = [jstatus EXCEPT ![j] = "queued"]
    /\ moved' = moved \cup {j}
    /\ UNCHANGED <<ticketVars, runVars, joutcome, attempt, failed, markerVars, budget>>

\* The reconciler gives a job up: no event, no message to the customer.
ReconcilerDead(j) ==
    /\ jstatus[j] \in LiveStatus
    /\ Spend("kill")
    /\ jstatus' = [jstatus EXCEPT ![j] = "dead"]
    /\ joutcome' = [joutcome EXCEPT ![j] = "infrastructure_exhausted"]
    /\ rstatus' = [rstatus EXCEPT ![TurnOf(j)] = "failed"]
    /\ FailApproval(j)
    /\ marker' = [marker EXCEPT ![j] = IF @ \in {"prepared", "written"} THEN "aborted" ELSE @]
    /\ orphan' = orphan \ {j}
    /\ BumpStatus("failed")
    /\ UNCHANGED <<serving, head, pinned, lane, started, restarted, effects, attempt,
                   failed, moved, mfence, plan, owing>>

-----------------------------------------------------------------------------
(* The segment of a leased job, up to its durable checkpoint.                *)

\* The holder of the lease has not begun a segment under its fence.
Entering(j) == jstatus[j] = "leased" /\ mfence[j] < attempt[j]

\* The holder works in the segment whose marker has the given status.
InSegment(j, status) ==
    jstatus[j] = "leased" /\ mfence[j] = attempt[j] /\ marker[j] = status

\* prepare: a first segment starts the run's events; a later one needs the
\* ticket's last event to be of its own run.
HeadIsOwn(t) == t \notin started \/ head = t

Prepare(j) ==
    /\ Entering(j)
    /\ marker[j] # "written"
    /\ HeadIsOwn(TurnOf(j))
    /\ IF TurnOf(j) \notin started THEN AppendEvent(TurnOf(j), {j})
       ELSE /\ pinned' = pinned \cup {j}
            /\ UNCHANGED <<head, started>>
    /\ orphan' = IF marker[j] = "prepared" THEN orphan \cup {j} ELSE orphan
    /\ marker' = [marker EXCEPT ![j] = "prepared"]
    /\ mfence' = [mfence EXCEPT ![j] = attempt[j]]
    /\ plan' = [plan EXCEPT ![j] = "none"]
    /\ UNCHANGED <<serving, tstatus, fresh, lane, rstatus, restarted, astatus, effects,
                   jobVars, owing, budget>>

PrepareConflict(j) ==
    /\ Entering(j)
    /\ marker[j] # "written"
    /\ ~HeadIsOwn(TurnOf(j))
    /\ FinishFailed(j)
    /\ UNCHANGED budget

\* A tool turn left open under an older fence: its marker moves to this fence.
TakeoverPrepared(j) ==
    /\ Entering(j) /\ ~IsResume(j)
    /\ marker[j] = "prepared"
    /\ mfence' = [mfence EXCEPT ![j] = attempt[j]]
    /\ UNCHANGED <<ticketVars, runVars, jobVars, marker, orphan, plan, owing, budget>>

\* A provider decision or capability of an older fence cannot be replayed.
TerminalizeUnreplayable(j) ==
    /\ Entering(j) /\ ~IsResume(j)
    /\ marker[j] = "prepared"
    /\ ConvergeDead(j)
    /\ UNCHANGED budget

Plans(j) == IF IsResume(j) THEN {"action"} ELSE Terminal \cup {"interrupted"}

\* checkpoint_written: the payload records the ticket version; a resume
\* needs the human decision to be the last event still.
CheckpointWritten(j, p) ==
    /\ InSegment(j, "prepared")
    /\ IsResume(j) => Decision(TurnOf(j)) \in pinned
    /\ marker' = [marker EXCEPT ![j] = "written"]
    /\ plan' = [plan EXCEPT ![j] = p]
    /\ fresh' = fresh \cup {j}
    /\ pinned' = IF IsResume(j) THEN pinned \cup {j} ELSE pinned
    /\ moved' = moved \ {j}
    /\ UNCHANGED <<serving, tstatus, head, lane, runVars, jstatus, joutcome, attempt,
                   failed, mfence, orphan, owing, budget>>

ResumeHeadConflict(j) ==
    /\ InSegment(j, "prepared")
    /\ IsResume(j) /\ Decision(TurnOf(j)) \notin pinned
    /\ FinishFailed(j)
    /\ UNCHANGED budget

-----------------------------------------------------------------------------
(* The finalizer transaction.                                                *)

\* takeover_finalizer: exactly one failed lease lies between the written
\* checkpoint and this fence.
CanTakeOver(j) ==
    /\ Entering(j)
    /\ marker[j] = "written"
    /\ attempt[j] = mfence[j] + 1
    /\ j \in failed
    /\ j \notin moved

TakeoverRefused(j) ==
    /\ Entering(j)
    /\ marker[j] = "written"
    /\ ~CanTakeOver(j)
    /\ FinishFailed(j)
    /\ UNCHANGED budget

Finalizing(j) == InSegment(j, "written") \/ CanTakeOver(j)

\* The rebuilt payload equals the stored one; a takeover refreshes it first.
VersionCurrent(j) == j \in fresh \/ CanTakeOver(j)

\* Mutant: the last event is not compared.
HeadCurrent_Any(j) == TRUE

\* assert_ticket_head.
HeadCurrent(j) == j \in pinned

\* The parts every successful finalization shares.
Commit(j, run, outcome, written) ==
    /\ Finalizing(j) /\ VersionCurrent(j) /\ HeadCurrent(j)
    /\ jstatus' = [jstatus EXCEPT ![j] = "succeeded"]
    /\ joutcome' = [joutcome EXCEPT ![j] = outcome]
    /\ rstatus' = [rstatus EXCEPT ![TurnOf(j)] = run]
    /\ marker' = [marker EXCEPT ![j] = "finalized"]
    /\ mfence' = [mfence EXCEPT ![j] = attempt[j]]
    /\ AppendEvent(TurnOf(j), {})
    /\ BumpStatus(written)
    /\ owing' = owing \cup {j}
    /\ UNCHANGED <<serving, lane, restarted, attempt, failed, moved, orphan, plan, budget>>

FinalizeComplete(j) ==
    /\ plan[j] \in Terminal
    /\ UNCHANGED <<astatus, effects>>
    /\ Commit(j, "completed", plan[j], plan[j])

\* Mutant: only pending ones count.
ResourceTaken_PendingOnly(t) ==
    \E u \in Turns : ResourceOf[u] = ResourceOf[t] /\ astatus[u] = "pending"

\* Another approval of the resource is pending or approved.
ResourceTaken(t) ==
    \E u \in Turns : ResourceOf[u] = ResourceOf[t] /\ astatus[u] \in ActiveApproval

FinalizeInterrupt(j) ==
    /\ plan[j] = "interrupted"
    /\ ~ResourceTaken(TurnOf(j))
    /\ astatus' = [astatus EXCEPT ![TurnOf(j)] = "pending"]
    /\ UNCHANGED effects
    /\ Commit(j, "interrupted", "interrupted", "awaiting_approval")

\* The action is already under way: the turn refers to that approval.
FinalizeReusedApproval(j) ==
    /\ plan[j] = "interrupted"
    /\ ResourceTaken(TurnOf(j))
    /\ UNCHANGED <<astatus, effects>>
    /\ Commit(j, "completed", "completed", "resolved")

\* The approved action runs inside the finalizer transaction; the resource
\* may have changed since the proposal, and then nothing is done.
FinalizeExecuted(j) ==
    /\ plan[j] = "action"
    /\ astatus' = [astatus EXCEPT ![TurnOf(j)] = "executed"]
    /\ effects' = [effects EXCEPT ![TurnOf(j)] = @ + 1]
    /\ Commit(j, "completed", "resolved", "resolved")

\* Mutant: the action ran before the resource was looked at again.
FinalizeStale_Acts(j) ==
    /\ plan[j] = "action"
    /\ astatus' = [astatus EXCEPT ![TurnOf(j)] = "stale"]
    /\ effects' = [effects EXCEPT ![TurnOf(j)] = @ + 1]
    /\ Commit(j, "completed", "failed", "failed")

FinalizeStale(j) ==
    /\ plan[j] = "action"
    /\ astatus' = [astatus EXCEPT ![TurnOf(j)] = "stale"]
    /\ UNCHANGED effects
    /\ Commit(j, "completed", "failed", "failed")

\* An effect-free answer whose ticket version is stale is given up once.
RestartFinalizer(j) ==
    /\ Finalizing(j) /\ ~VersionCurrent(j)
    /\ plan[j] \in Terminal
    /\ TurnOf(j) \notin restarted
    /\ restarted' = restarted \cup {TurnOf(j)}
    /\ marker' = [marker EXCEPT ![j] = "aborted"]
    /\ UNCHANGED <<ticketVars, rstatus, started, astatus, effects, jobVars, mfence,
                   orphan, plan, owing, budget>>

\* finish_job('failed:pre_effect_finalizer_restart_required').
FinishRestart(j) ==
    /\ InSegment(j, "aborted")
    /\ FinishFailed(j)
    /\ UNCHANGED budget

\* Any other conflict kills the job, and with a resume its approval.  The
\* worker of a message writes the ticket before it calls the owner helper and
\* raises the version in any case; that of a resume leaves it to the helper.
\* Either then raises, and finish_job follows in a transaction of its own.
AbortFinalizer(j) ==
    /\ Finalizing(j)
    /\ \/ VersionCurrent(j) /\ ~HeadCurrent(j)
       \/ ~VersionCurrent(j) /\ (plan[j] \in Terminal => TurnOf(j) \in restarted)
    /\ Die(j, "finalizer_aborted")
    /\ IF IsResume(j) THEN WriteStatus("failed") ELSE BumpStatus("failed")
    /\ owing' = owing \cup {j}
    /\ UNCHANGED budget

-----------------------------------------------------------------------------
(* finish_job after the commit: the outcome gets its canonical name.         *)

CanonicalOutcome(j) ==
    CASE plan[j] = "interrupted" -> "interrupted"
      [] plan[j] = "action" /\ astatus[TurnOf(j)] = "stale" -> "domain_terminal"
      [] OTHER -> "completed"

\* The run is not leased again, and an interrupt still waits for its human.
HandoffValid(j) ==
    /\ \A k \in Jobs : TurnOf(k) = TurnOf(j) => jstatus[k] # "leased"
    /\ plan[j] = "interrupted" => joutcome[j] = "interrupted" /\ astatus[TurnOf(j)] = "pending"

FinishHandoff(j) ==
    /\ j \in owing /\ jstatus[j] = "succeeded"
    /\ HandoffValid(j)
    /\ owing' = owing \ {j}
    /\ joutcome' = [joutcome EXCEPT ![j] = CanonicalOutcome(j)]
    /\ UNCHANGED <<rstatus, jstatus, astatus>>
    /\ ConvergeStatus(IF plan[j] = "interrupted" THEN "awaiting_approval" ELSE tstatus)
    /\ UNCHANGED <<serving, head, pinned, lane, started, restarted, effects, attempt,
                   failed, moved, marker, mfence, orphan, plan, budget>>

\* finish_job finds the job its own abort has killed, and converges the
\* ticket again, to failed unless work or an approval is open.
FinishAborted(j) ==
    /\ j \in owing /\ jstatus[j] = "dead"
    /\ owing' = owing \ {j}
    /\ UNCHANGED <<rstatus, jstatus, astatus>>
    /\ ConvergeStatus("failed")
    /\ UNCHANGED <<serving, head, pinned, lane, started, restarted, effects, joutcome,
                   attempt, failed, moved, marker, mfence, orphan, plan, budget>>

\* finish_job raises, or the worker dies first: nothing more is written.
HandoffLost(j) ==
    /\ j \in owing
    /\ IF jstatus[j] = "dead" \/ HandoffValid(j) THEN Spend("crash") ELSE UNCHANGED budget
    /\ owing' = owing \ {j}
    /\ UNCHANGED <<ticketVars, runVars, jobVars, marker, mfence, orphan, plan>>

-----------------------------------------------------------------------------
(* The reconciler and jobs that have ended.                                  *)

\* The status the candidate query expects of the ticket, seen from job j.
ExpectedStatus(j) ==
    Projection(rstatus, jstatus, astatus,
        CASE jstatus[j] = "dead" \/ joutcome[j] = "domain_terminal" -> "failed"
          [] joutcome[j] = "interrupted" -> "awaiting_approval"
          [] joutcome[j] = "completed" -> "resolved"
          [] OTHER -> tstatus)

ExpectedRun(j) ==
    CASE jstatus[j] = "dead" -> "failed"
      [] joutcome[j] = "interrupted" -> "interrupted"
      [] OTHER -> "completed"

\* Mutant: only the run is compared.
Selected_RunOnly(j) ==
    /\ jstatus[j] \in {"succeeded", "dead"}
    /\ j \in orphan \/ rstatus[TurnOf(j)] # ExpectedRun(j)

\* The reconciler selects an ended job.
Selected(j) ==
    /\ jstatus[j] \in {"succeeded", "dead"}
    /\ \/ j \in orphan
       \/ /\ \/ jstatus[j] = "dead"
             \/ joutcome[j] \in {"interrupted", "completed", "domain_terminal"}
          /\ \/ rstatus[TurnOf(j)] # ExpectedRun(j)
             \/ serving /\ tstatus # ExpectedStatus(j)

\* The terminal the job's durable records prove, if they prove one.
ProvenStatus(j) ==
    LET t == TurnOf(j) IN
    CASE jstatus[j] = "dead" ->
           IF joutcome[j] = "infrastructure_exhausted" THEN {"failed"} ELSE {}
      [] jstatus[j] # "dead" /\ marker[j] # "finalized" -> {}
      [] OTHER ->
           CASE joutcome[j] = "interrupted" /\ astatus[t] = "pending" -> {"awaiting_approval"}
             [] joutcome[j] = "completed" /\ plan[j] \in Terminal
                  /\ astatus[t] \notin ActiveApproval -> {plan[j]}
             [] joutcome[j] = "completed" /\ plan[j] = "action"
                  /\ astatus[t] = "executed" -> {"resolved"}
             [] joutcome[j] = "domain_terminal" /\ plan[j] = "action"
                  /\ astatus[t] = "stale" -> {"failed"}
             [] joutcome[j] = "domain_terminal" /\ plan[j] = "none" -> {"failed"}
             [] OTHER -> {}

\* Selected and proven: run, ticket, approval and markers are written again.
\* What is selected without a proof is left as it is, in every pass.
ReconcileTerminal(j) ==
    /\ Selected(j)
    /\ \E target \in ProvenStatus(j) :
        /\ rstatus' = [rstatus EXCEPT ![TurnOf(j)] = ExpectedRun(j)]
        /\ IF jstatus[j] = "dead" THEN FailApproval(j) ELSE UNCHANGED astatus
        /\ UNCHANGED jstatus
        /\ WriteStatus(target)
    /\ orphan' = orphan \ {j}
    /\ UNCHANGED <<serving, head, pinned, lane, started, restarted, effects, joutcome,
                   attempt, failed, moved, marker, mfence, plan, owing, budget>>

-----------------------------------------------------------------------------
ApiStep ==
    \/ TransitionConversation
    \/ \E t \in Turns :
        \/ AcceptMessage(t) \/ Approve(t) \/ Reject(t) \/ Withdraw(t)

ClaimStep(j) == Claim(j) \/ ClaimExhausted(j)

WorkerStep(j) ==
    \/ Prepare(j) \/ PrepareConflict(j) \/ TakeoverPrepared(j) \/ TerminalizeUnreplayable(j)
    \/ \E p \in Plans(j) : CheckpointWritten(j, p)
    \/ ResumeHeadConflict(j) \/ TakeoverRefused(j)
    \/ FinalizeComplete(j) \/ FinalizeInterrupt(j) \/ FinalizeReusedApproval(j)
    \/ FinalizeExecuted(j) \/ FinalizeStale(j)
    \/ RestartFinalizer(j) \/ FinishRestart(j) \/ AbortFinalizer(j)

FinishStep(j) == FinishHandoff(j) \/ FinishAborted(j)

FaultStep(j) ==
    \/ WorkerFails(j) \/ WorkerDomainError(j) \/ LeaseLost(j)
    \/ Redeliver(j) \/ ReconcilerDead(j) \/ HandoffLost(j)

Next ==
    \/ ApiStep
    \/ \E j \in Jobs :
        ClaimStep(j) \/ WorkerStep(j) \/ FinishStep(j) \/ FaultStep(j) \/ ReconcileTerminal(j)

Spec == Init /\ [][Next]_vars

\* The queue delivers a claimable job (RuntimeQueue is about when it does), a
\* worker's handler runs on, and the reconciler's loop reaches every job it
\* keeps selecting.
Fairness ==
    \A j \in Jobs :
        /\ WF_vars(ClaimStep(j))
        /\ WF_vars(WorkerStep(j))
        /\ WF_vars(FinishStep(j))
        /\ WF_vars(ReconcileTerminal(j))

FairSpec == Spec /\ Fairness

-----------------------------------------------------------------------------
(* Properties.                                                               *)

RunStatus == {"none", "queued", "running", "interrupted", "completed", "failed"}
ApprovalStatus == {"none", "pending", "approved", "rejected", "withdrawn",
                   "executed", "stale", "failed"}
TicketStatus == {"open", "queued", "running", "awaiting_approval", "resolved",
                 "needs_clarification", "rejected", "failed"}
Outcomes == {"none", "interrupted", "completed", "domain_terminal", "failed",
             "finalizer_aborted", "infrastructure_exhausted"} \cup Terminal

\* Type invariant: every column keeps to the values its CHECK constraint or
\* the code that writes it allows, and a job's newest marker never has a
\* fence beyond the job's.
TypeOK ==
    /\ serving \in BOOLEAN /\ tstatus \in TicketStatus /\ head \in Turns \cup {NoTurn}
    /\ pinned \subseteq Jobs \cup {Decision(t) : t \in Turns}
    /\ fresh \subseteq Jobs /\ lane \in Seq(Jobs) /\ Len(lane) <= Cardinality(Jobs)
    /\ rstatus \in [Turns -> RunStatus] /\ astatus \in [Turns -> ApprovalStatus]
    /\ started \subseteq Turns /\ restarted \subseteq Turns /\ effects \in [Turns -> Nat]
    /\ jstatus \in [Jobs -> LiveStatus \cup {"none", "succeeded", "dead"}]
    /\ joutcome \in [Jobs -> Outcomes] /\ attempt \in [Jobs -> 0..MaxAttempts]
    /\ failed \cup moved \cup orphan \cup owing \subseteq Jobs
    /\ marker \in [Jobs -> {"none", "prepared", "written", "finalized", "aborted"}]
    /\ plan \in [Jobs -> Terminal \cup {"none", "interrupted", "action"}]
    /\ \A j \in Jobs : mfence[j] \in 0..attempt[j]

AlwaysServed == serving /\ budget["archive"] = MaxArchives
WorkInFlight == \E j \in Jobs : jstatus[j] \in LiveStatus
ApprovalOpen == \E t \in Turns : astatus[t] \in ActiveApproval

\* The ticket of a conversation that was never archived shows work that is
\* in flight and, when there is none, an open approval: no terminal of one
\* action or message hides another one, whatever order finalizers, human
\* decisions, deaths and reconciler repairs commit in.
NothingMasked ==
    AlwaysServed =>
        /\ WorkInFlight => tstatus \in {"queued", "running"}
        /\ ~WorkInFlight /\ ApprovalOpen => tstatus = "awaiting_approval"

\* An approved action always has a live job that will carry it out or settle
\* it: no death, crash, abort or reconciler repair strands the approval.
ApprovedIsDriven ==
    \A t \in Turns : astatus[t] = "approved" => jstatus[Resume(t)] \in LiveStatus

\* A business resource has at most one pending or approved action, although
\* proposals are computed before and bound long after they look for one.
OneActivePerResource ==
    \A t, u \in Turns :
        t # u /\ ResourceOf[t] = ResourceOf[u] =>
            ~({astatus[t], astatus[u]} \subseteq ActiveApproval)

\* A business action is committed at most once per approval and exactly for
\* the approvals that say executed, through crashes, retries and takeovers.
EffectOnce ==
    \A t \in Turns : effects[t] = IF astatus[t] = "executed" THEN 1 ELSE 0

\* A finalizer commits an answer, a proposal or an action only while the
\* last event of the ticket is one of its own run: no event that another run
\* appended since prepare is overlooked.
CommitsOnOwnHead ==
    [][\A j \in Jobs :
          j \in owing' \ owing /\ jstatus'[j] = "succeeded" => head = TurnOf(j)]_vars

\* An approval only moves along the lifecycle: pending, then approved,
\* rejected or withdrawn, then executed, stale or failed, and stays there.
ApprovalLifecycle ==
    [][\A t \in Turns : astatus'[t] # astatus[t] =>
          <<astatus[t], astatus'[t]>> \in
              {<<"none", "pending">>, <<"pending", "approved">>, <<"pending", "rejected">>,
               <<"pending", "withdrawn">>, <<"approved", "executed">>,
               <<"approved", "stale">>, <<"approved", "failed">>}]_vars

\* Every message of a served conversation leaves the lane: its run completes,
\* fails or waits for a human, although a worker may crash at any step, also
\* between its commit and finish_job, and conflicts send segments back.
\* That a claimable job is delivered at all is assumed; RuntimeQueue shows
\* when it may have to wait for its age limit.
TurnsEnd ==
    \A t \in Turns : []<>(rstatus[t] \notin {"queued", "running"} \/ ~serving)

\* Whatever a finalizer wrote while the conversation was archived, after the
\* restore the reconciler brings an open approval back into view.
ApprovalUnmasked ==
    []<>(serving /\ ~WorkInFlight /\ ApprovalOpen => tstatus = "awaiting_approval")

\* An ended job stops being a reconciler candidate: architecture.md says a
\* correctly converged terminal is not selected again and again.  The
\* candidate query expects resolved of every ticket whose job completed, and
\* an interrupted run of every job that ended interrupted, so one turn that
\* ended by asking the customer back, or by a rejection, refutes it.
NotReselected == \A j \in Jobs : <>[]~Selected(j)

\* Without any fault an approved action is carried out, or found stale.
ApprovedActionSettled ==
    \A t \in Turns : (astatus[t] = "approved") ~> (astatus[t] \in {"executed", "stale"})

=============================================================================
