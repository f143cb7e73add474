------------------------------- MODULE JobLane -------------------------------
(***************************************************************************)
(* What the job queue promises to the rest of the system, without outbox,  *)
(* Redis, leases, observations or processes: every accepted turn is a job  *)
(* of its conversation's lane; the jobs of a lane are attempted one at a   *)
(* time and in order, each attempt under a fencing token of its own and at *)
(* most MaxAttempts times; a job ends once, and only an attempt completes  *)
(* it.                                                                     *)
(***************************************************************************)
EXTENDS Naturals

CONSTANTS Jobs, Tickets, Workers, TicketOf, NoWorker, MaxAttempts

VARIABLES tseq, jseq, jstatus, jattempt, jfence, jowner, joutcome

laneVars == <<tseq, jseq, jstatus, jattempt, jfence, jowner, joutcome>>

LanePending == {"queued", "retry_wait"}
LaneOver    == {"succeeded", "dead"}

LaneInit ==
    /\ tseq = [t \in Tickets |-> 0]
    /\ jseq = [j \in Jobs |-> 0]
    /\ jstatus = [j \in Jobs |-> "none"]
    /\ jattempt = [j \in Jobs |-> 0]
    /\ jfence = [j \in Jobs |-> 0]
    /\ jowner = [j \in Jobs |-> NoWorker]
    /\ joutcome = [j \in Jobs |-> "none"]

\* The turn takes the next place in its lane.
Enqueue(j) ==
    /\ jstatus[j] = "none"
    /\ tseq' = [tseq EXCEPT ![TicketOf[j]] = @ + 1]
    /\ jseq' = [jseq EXCEPT ![j] = tseq[TicketOf[j]] + 1]
    /\ jstatus' = [jstatus EXCEPT ![j] = "queued"]
    /\ UNCHANGED <<jattempt, jfence, jowner, joutcome>>

\* A worker starts the next attempt at the first unfinished job of a lane.
Attempt(j, w) ==
    /\ jstatus[j] \in LanePending
    /\ jattempt[j] < MaxAttempts
    /\ \A k \in Jobs \ {j} :
          TicketOf[k] = TicketOf[j] /\ jseq[k] # 0
          => /\ jstatus[k] # "leased"
             /\ jseq[k] < jseq[j] => jstatus[k] \in LaneOver
    /\ jstatus' = [jstatus EXCEPT ![j] = "leased"]
    /\ jattempt' = [jattempt EXCEPT ![j] = @ + 1]
    /\ jfence' = [jfence EXCEPT ![j] = @ + 1]
    /\ jowner' = [jowner EXCEPT ![j] = w]
    /\ UNCHANGED <<tseq, jseq, joutcome>>

\* The attempt failed or was lost; the job keeps its place.
GiveBack(j) ==
    /\ jstatus[j] \in LanePending \cup {"leased"}
    /\ \E s \in LanePending : jstatus' = [jstatus EXCEPT ![j] = s]
    /\ jowner' = [jowner EXCEPT ![j] = NoWorker]
    /\ UNCHANGED <<tseq, jseq, jattempt, jfence, joutcome>>

\* The attempt under way ends the job with its result.
Conclude(j) ==
    /\ jstatus[j] = "leased"
    /\ jstatus' = [jstatus EXCEPT ![j] = "succeeded"]
    /\ jowner' = [jowner EXCEPT ![j] = NoWorker]
    /\ \E o \in {"completed", "interrupted", "domain_terminal"} :
          joutcome' = [joutcome EXCEPT ![j] = o]
    /\ UNCHANGED <<tseq, jseq, jattempt, jfence>>

\* The attempt under way finds that the job cannot be completed.
Abort(j) ==
    /\ jstatus[j] = "leased"
    /\ jstatus' = [jstatus EXCEPT ![j] = "dead"]
    /\ jowner' = [jowner EXCEPT ![j] = NoWorker]
    /\ joutcome' = [joutcome EXCEPT ![j] = "finalizer_aborted"]
    /\ UNCHANGED <<tseq, jseq, jattempt, jfence>>

\* The job is given up.
DeadLetter(j) ==
    /\ jstatus[j] \in LanePending \cup {"leased"}
    /\ jstatus' = [jstatus EXCEPT ![j] = "dead"]
    /\ jowner' = [jowner EXCEPT ![j] = NoWorker]
    /\ joutcome' = [joutcome EXCEPT ![j] = "infrastructure_exhausted"]
    /\ UNCHANGED <<tseq, jseq, jattempt, jfence>>

LaneNext ==
    \E j \in Jobs : \/ Enqueue(j) \/ GiveBack(j) \/ Conclude(j) \/ Abort(j)
                    \/ DeadLetter(j)
                    \/ \E w \in Workers : Attempt(j, w)

LaneSpec == LaneInit /\ [][LaneNext]_laneVars

==============================================================================
