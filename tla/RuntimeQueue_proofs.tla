------------------------ MODULE RuntimeQueue_proofs ------------------------
(***************************************************************************)
(* Safety of the job queue for any number of jobs, tickets, workers,       *)
(* attempts and generations.                                               *)
(***************************************************************************)
EXTENDS RuntimeQueue, TLAPS

\* What the proofs use of the assumptions on the constants.
LEMMA Constants ==
    /\ \A j \in Jobs : TicketOf[j] \in Tickets
    /\ NoJob \notin Jobs /\ NoWorker \notin Workers
    /\ MaxAttempts \in Nat
  BY QueueAssumption

LEMMA ElementTyped ==
    ASSUME NEW S, NEW s \in Seq(S), NEW i \in 1 .. Len(s) PROVE s[i] \in S
  OBVIOUS

LEMMA ObservationTyped ==
    ASSUME NEW a \in BOOLEAN, NEW b \in BOOLEAN, NEW c \in BOOLEAN
    PROVE  [known |-> a, present |-> b, pending |-> c]
             \in [known : BOOLEAN, present : BOOLEAN, pending : BOOLEAN]
  BY Zenon

LEMMA LenNat == ASSUME NEW S, NEW s \in Seq(S) PROVE Len(s) \in Nat
  OBVIOUS

\* Appending an entry keeps the earlier entries of the stream.
LEMMA AppendKeeps ==
    ASSUME NEW S, NEW s \in Seq(S), NEW e \in S
    PROVE  /\ Append(s, e) \in Seq(S)
           /\ Len(Append(s, e)) = Len(s) + 1
           /\ \A i \in 1 .. Len(s) : Append(s, e)[i] = s[i]
  OBVIOUS

Typed == JobTypes /\ DeliveryTypes /\ ProcessTypes

\* The message of a busy worker names a job.
LEMMA MessageTyped ==
    ASSUME Typed, NEW w \in Workers, wpc[w] # "idle"
    PROVE  MsgJob(w) \in Jobs /\ MsgGen(w) \in Nat
  <1>1. stream[wmsg[w]] \in [job : Jobs, gen : Nat]
    BY ElementTyped, Zenon DEF Typed, DeliveryTypes, ProcessTypes
  <1>2. QED BY <1>1 DEF MsgJob, MsgGen

LEMMA TypeInit == Init => Typed
  <1> USE DEF Init
  <1>1. Init => JobTypes
    BY DEF JobTypes, JobStatuses, Outcomes, Live, Pending, Terminal
  <1>2. Init => DeliveryTypes
    BY DEF DeliveryTypes
  <1>3. Init => ProcessTypes
    BY SMTT(30) DEF ProcessTypes, NoObservation
  <1>4. QED BY <1>1, <1>2, <1>3, SMTT(30) DEF Typed

-----------------------------------------------------------------------------
(* The actions that write the columns of tickets, jobs and runs. *)

jobState == <<jobVars, runVars, topen, tseq>>

JobStep ==
    \/ \E j \in Jobs : \/ AcceptMessage(j) \/ PrepareTerminal(j)
                       \/ RepairHeld(j) \/ RepairReused(j) \/ RepairDead(j)
                       \/ RepairRedelivered(j)
                       \/ LeaseExpires(j) \/ BackoffElapses(j) \/ JobAges(j)
    \/ \E t \in Tickets : TransitionConversation(t)
    \/ \E w \in Workers : \/ AcceptExhausted(w) \/ AcceptClaimed(w)
                          \/ WorkerFinalize(w, "terminal_state")
                          \/ WorkerFinalize(w, "interrupted")
                          \/ WorkerAbort(w) \/ FinishHandoff(w)
                          \/ FinishFailed(w)
                          \/ FinishTerminal(w, "infrastructure_exhausted")
                          \/ FinishTerminal(w, "domain_terminal")

\* Every other step leaves those columns alone.
LEMMA JobFrame == [Next]_vars => JobStep \/ UNCHANGED jobState
  <1> SUFFICES ASSUME [Next]_vars PROVE JobStep \/ UNCHANGED jobState
    OBVIOUS
  <1> USE DEF jobState, JobStep, envVars
  <1>1. CASE Api
    BY <1>1 DEF Api
  <1>2. CASE Dispatcher
    BY <1>2, ZenonT(30) DEF Dispatcher, ClaimOutbox, PublishDelivery, PublishFails,
                MarkPublished
  <1>3. CASE Reconciler
    BY <1>3, SMTT(30) DEF Reconciler, ListCandidates, PrepareIntent, ObserveIntent,
                ObserveFails, RepairSkipped, EndPass
  <1>4. CASE Clock
    BY <1>4 DEF Clock, IntentExpires, OutboxClaimLapses
  <1>5. CASE Faults
    BY <1>5, SMTT(30) DEF Faults, DispatcherCrash, ReconcilerCrash, RedisFlush,
                WorkerCrash
  <1>6. ASSUME NEW w \in Workers, Worker(w) PROVE JobStep \/ UNCHANGED jobState
    <2>1. CASE Poll(w)
      BY <2>1, SMTT(30) DEF Poll, EnsureConsumerGroup, ReadNew, ReclaimOld
    <2>2. CASE Admit(w)
      BY <2>2, SMTT(30) DEF Admit, AcceptRefused, AcceptSuperseded, AcceptSettled,
                  AcceptReused
    <2>3. CASE Finalize(w) \/ Finish(w)
      <3>1. CASE HandoffRefused(w) \/ FinishStale(w)
        BY <3>1, Zenon DEF HandoffRefused, FinishStale
      <3>2. CASE ~(HandoffRefused(w) \/ FinishStale(w))
        BY <2>3, <3>2, Zenon DEF Finalize, Finish
      <3>3. QED BY <3>1, <3>2
    <2>4. CASE Ack(w)
      BY <2>4, Zenon DEF Ack
    <2>5. QED BY <1>6, <2>1, <2>2, <2>3, <2>4 DEF Worker
  <1>7. CASE UNCHANGED vars
    BY <1>7 DEF vars
  <1>8. QED BY <1>1, <1>2, <1>3, <1>4, <1>5, <1>6, <1>7 DEF Next

LEMMA JobTypesStep ==
    ASSUME Typed, [Next]_vars PROVE JobTypes'
  <1> USE Constants DEF JobTypes, jobVars, runVars, JobStatuses, Outcomes,
          Live, Pending, Terminal
  <1>0. JobTypes /\ DeliveryTypes /\ ProcessTypes BY DEF Typed
  <1>1. CASE UNCHANGED jobState
    BY <1>0, <1>1, SMTT(30) DEF jobState
  <1>2. ASSUME NEW j \in Jobs, AcceptMessage(j) PROVE JobTypes'
    BY <1>0, <1>2 DEF AcceptMessage
  <1>3. ASSUME NEW j \in Jobs, PrepareTerminal(j) PROVE JobTypes'
    BY <1>0, <1>3, Zenon DEF PrepareTerminal, envVars
  <1>4. ASSUME NEW j \in Jobs, RepairHeld(j) PROVE JobTypes'
    BY <1>0, <1>4, SMTT(30) DEF RepairHeld, envVars
  <1>5. ASSUME NEW j \in Jobs, RepairReused(j) PROVE JobTypes'
    BY <1>0, <1>5, SMTT(30) DEF RepairReused, Release, envVars
  <1>6. ASSUME NEW j \in Jobs, RepairDead(j) PROVE JobTypes'
    BY <1>0, <1>6, SMTT(30) DEF RepairDead, Release, envVars
  <1>7. ASSUME NEW j \in Jobs, RepairRedelivered(j) PROVE JobTypes'
    BY <1>0, <1>7, SMTT(30) DEF RepairRedelivered, Release, envVars
  <1>8. ASSUME NEW j \in Jobs, LeaseExpires(j) \/ BackoffElapses(j) \/ JobAges(j)
        PROVE  JobTypes'
    BY <1>0, <1>8, ZenonT(30) DEF LeaseExpires, BackoffElapses, JobAges, envVars
  <1>9. ASSUME NEW t \in Tickets, TransitionConversation(t) PROVE JobTypes'
    BY <1>0, <1>9, SMTT(30) DEF TransitionConversation
  <1>10. ASSUME NEW w \in Workers, AcceptExhausted(w) PROVE JobTypes'
    BY <1>0, <1>10, ZenonT(30) DEF AcceptExhausted, envVars
  <1>11. ASSUME NEW w \in Workers, AcceptClaimed(w) PROVE JobTypes'
    <2>1. MsgJob(w) \in Jobs BY <1>11, MessageTyped, SMTT(30) DEF AcceptClaimed
    <2>2. QED BY <1>0, <1>11, <2>1, SMTT(30) DEF AcceptClaimed, envVars
  <1>12. ASSUME NEW w \in Workers, NEW o \in {"terminal_state", "interrupted"},
                WorkerFinalize(w, o)
         PROVE  JobTypes'
    BY <1>0, <1>12, Zenon DEF WorkerFinalize, Release, envVars
  <1>16. ASSUME NEW w \in Workers, WorkerAbort(w) PROVE JobTypes'
    BY <1>0, <1>16, Zenon DEF WorkerAbort, Release, envVars
  <1>17. ASSUME NEW w \in Workers, FinishHandoff(w) PROVE JobTypes'
    <2>1. MsgJob(w) \in Jobs BY <1>17, MessageTyped, Zenon DEF FinishHandoff
    <2>2. Canonical(joutcome[MsgJob(w)]) \in Outcomes
      BY <1>0, <2>1, Zenon DEF Canonical
    <2>3. QED BY <1>0, <1>17, <2>1, <2>2, Zenon DEF FinishHandoff, envVars
  <1>13. ASSUME NEW w \in Workers, FinishFailed(w) PROVE JobTypes'
    BY <1>0, <1>13, Zenon DEF FinishFailed, Release, envVars
  <1>14. ASSUME NEW w \in Workers,
                NEW o \in {"infrastructure_exhausted", "domain_terminal"},
                FinishTerminal(w, o)
         PROVE  JobTypes'
    BY <1>0, <1>14, Zenon DEF FinishTerminal, Release, envVars
  <1>15. QED
    BY <1>1, <1>2, <1>3, <1>4, <1>5, <1>6, <1>7, <1>8, <1>9, <1>10, <1>11,
       <1>12, <1>13, <1>14, <1>16, <1>17, JobFrame, Zenon DEF JobStep

LEMMA DeliveryTypesStep ==
    ASSUME Typed, [Next]_vars PROVE DeliveryTypes'
  <1> USE Constants DEF DeliveryTypes, boxVars, redisVars, recVars
  <1>0. JobTypes /\ DeliveryTypes /\ ProcessTypes BY DEF Typed
  <1>a. Len(stream) \in Nat BY <1>0, LenNat
  <1>1. CASE Api
    <2>1. ASSUME NEW j \in Jobs, AcceptMessage(j) PROVE DeliveryTypes'
      BY <1>0, <2>1, Zenon DEF AcceptMessage
    <2>2. ASSUME NEW t \in Tickets, TransitionConversation(t)
          PROVE  DeliveryTypes'
      BY <1>0, <2>2, SMTT(30) DEF TransitionConversation
    <2>3. QED BY <1>1, <2>1, <2>2, Zenon DEF Api
  <1>2. ASSUME NEW j \in Jobs, PublishDelivery(j) PROVE DeliveryTypes'
    <2>1. [job |-> j, gen |-> ogen[j]] \in [job : Jobs, gen : Nat]
      BY <1>0, SMTT(30)
    <2>2. stream' \in Seq([job : Jobs, gen : Nat]) /\ Len(stream') = Len(stream) + 1
      BY <1>0, <1>2, <2>1, AppendKeeps, SMTT(30) DEF PublishDelivery
    <2>3. QED BY <1>0, <1>a, <1>2, <2>2 DEF PublishDelivery
  <1>3. ASSUME NEW j \in Jobs, PublishFails(j) PROVE DeliveryTypes'
    BY <1>0, <1>3, SMTT(30) DEF PublishFails
  <1>4. CASE ClaimOutbox
    BY <1>0, <1>4, SMTT(30) DEF ClaimOutbox
  <1>5. CASE MarkPublished
    <2>1. dmark.msg \in Nat BY <1>0 DEF ProcessTypes
    <2>2. QED
      BY <1>0, <1>5, <2>1, Zenon DEF MarkPublished, BumpDelivery, SameVersions
  <1>6. ASSUME NEW j \in Jobs, PrepareIntent(j) \/ PrepareTerminal(j)
        PROVE  DeliveryTypes'
    BY <1>0, <1>6, ZenonT(30) DEF PrepareIntent, PrepareTerminal, AckInbox, BumpJob
  <1>7. CASE ListCandidates \/ ObserveIntent \/ ObserveFails \/ RepairSkipped
             \/ EndPass
    BY <1>0, <1>7, Zenon DEF ListCandidates, ObserveIntent, ObserveFails,
                      RepairSkipped, EndPass
  <1>8. ASSUME NEW j \in Jobs, RepairHeld(j) \/ RepairReused(j) \/ RepairDead(j)
        PROVE  DeliveryTypes'
    <2>1. UNCHANGED <<boxVars, redisVars>>
          /\ intent' = [intent EXCEPT ![j] = "none"]
      BY <1>8, ZenonT(30) DEF RepairHeld, RepairReused, RepairDead
    <2>2. QED BY <1>0, <2>1, SMTT(30)
  <1>9. ASSUME NEW j \in Jobs, RepairRedelivered(j) PROVE DeliveryTypes'
    <2>1. /\ ogen' = [ogen EXCEPT ![j] = @ + 1]
          /\ opub' = [opub EXCEPT ![j] = 0]
          /\ odue' = [odue EXCEPT ![j] = TRUE]
          /\ ibox' = [ibox EXCEPT ![j] = "none"]
          /\ intent' = [intent EXCEPT ![j] = "none"]
          /\ UNCHANGED redisVars
      BY <1>9, Zenon DEF RepairRedelivered
    <2>2. QED BY <1>0, <2>1, SMTT(60)
  <1>10. CASE Clock
    <2>1. ASSUME NEW j \in Jobs, LeaseExpires(j) PROVE DeliveryTypes'
      BY <1>0, <2>1, SMTT(30) DEF LeaseExpires
    <2>2. ASSUME NEW j \in Jobs, BackoffElapses(j) PROVE DeliveryTypes'
      BY <1>0, <2>2, Zenon DEF BackoffElapses
    <2>3. ASSUME NEW j \in Jobs, JobAges(j) PROVE DeliveryTypes'
      BY <1>0, <2>3, Zenon DEF JobAges
    <2>4. ASSUME NEW j \in Jobs, IntentExpires(j) PROVE DeliveryTypes'
      BY <1>0, <2>4, SMTT(30) DEF IntentExpires
    <2>5. ASSUME NEW j \in Jobs, OutboxClaimLapses(j) PROVE DeliveryTypes'
      BY <1>0, <2>5, Zenon DEF OutboxClaimLapses
    <2>6. QED BY <1>10, <2>1, <2>2, <2>3, <2>4, <2>5, Zenon DEF Clock
  <1>11. CASE Faults
    <2>1. CASE RedisFlush
      BY <1>0, <1>a, <2>1 DEF RedisFlush
    <2>2. CASE DispatcherCrash \/ ReconcilerCrash
      BY <1>0, <2>2, Zenon DEF DispatcherCrash, ReconcilerCrash
    <2>3. ASSUME NEW w \in Workers, WorkerCrash(w) PROVE DeliveryTypes'
      BY <1>0, <2>3, SMTT(30) DEF WorkerCrash
    <2>4. QED BY <1>11, <2>1, <2>2, <2>3, ZenonT(30) DEF Faults
  <1>12. ASSUME NEW w \in Workers, Worker(w) PROVE DeliveryTypes'
    <2>1. CASE Poll(w)
      <3>1. CASE EnsureConsumerGroup(w)
        BY <1>0, <3>1, SMTT(30) DEF EnsureConsumerGroup
      <3>2. CASE ReadNew(w)
        BY <1>0, <1>a, <3>2, SMTT(30) DEF ReadNew
      <3>3. ASSUME NEW m \in pel, ReclaimOld(w, m) PROVE DeliveryTypes'
        BY <1>0, <3>3, Zenon DEF ReclaimOld
      <3>4. QED BY <2>1, <3>1, <3>2, <3>3, Zenon DEF Poll
    <2>2. CASE AcceptRefused(w) \/ AcceptSuperseded(w) \/ AcceptReused(w)
      BY <1>0, <2>2, Zenon DEF AcceptRefused, AcceptSuperseded, AcceptReused
    <2>3. CASE AcceptSettled(w)
      BY <1>0, <2>3, Zenon DEF AcceptSettled, BumpDelivery, SameVersions
    <2>4. CASE AcceptExhausted(w) \/ AcceptClaimed(w)
      BY <1>0, <2>4, Zenon DEF AcceptExhausted, AcceptClaimed, BumpJob
    <2>5. ASSUME NEW o, WorkerFinalize(w, o) PROVE DeliveryTypes'
      BY <1>0, <2>5, Zenon DEF WorkerFinalize, BumpJob
    <2>6. CASE WorkerAbort(w)
      BY <1>0, <2>6, Zenon DEF WorkerAbort, BumpJob
    <2>7. CASE FinishHandoff(w)
      <3>1. /\ UNCHANGED <<ogen, opub, odue, redisVars>> /\ AckInbox(MsgJob(w))
            /\ \/ intent' = [intent EXCEPT ![MsgJob(w)] = "none"]
               \/ intent' = intent
        BY <2>7, Zenon DEF FinishHandoff, BumpJob, BumpDelivery, SameVersions
      <3>2. QED BY <1>0, <3>1, ZenonT(30) DEF AckInbox
    <2>8. CASE FinishFailed(w)
      BY <1>0, <2>8, Zenon DEF FinishFailed, AckInbox, BumpJob
    <2>9. ASSUME NEW o, FinishTerminal(w, o) PROVE DeliveryTypes'
      BY <1>0, <2>9, ZenonT(30) DEF FinishTerminal, AckInbox, BumpJob
    <2>10. CASE HandoffRefused(w) \/ FinishStale(w) \/ Ack(w)
      BY <1>0, <2>10, Zenon DEF HandoffRefused, FinishStale, Ack
    <2>11. QED
      BY <1>12, <2>1, <2>2, <2>3, <2>4, <2>5, <2>6, <2>7, <2>8, <2>9, <2>10,
         Zenon DEF Worker, Admit, Finalize, Finish
  <1>13. CASE UNCHANGED vars
    BY <1>0, <1>13 DEF vars
  <1>14. QED
    BY <1>1, <1>2, <1>3, <1>4, <1>5, <1>6, <1>7, <1>8, <1>9, <1>10, <1>11,
       <1>12, <1>13, ZenonT(30) DEF Next, Dispatcher, Reconciler

LEMMA ProcessTypesStep ==
    ASSUME Typed, group \in BOOLEAN, [Next]_vars PROVE ProcessTypes'
  <1> USE Constants DEF ProcessTypes, dispVars, workVars, recVars, envVars,
          redisVars, NoObservation
  <1>0. JobTypes /\ DeliveryTypes /\ ProcessTypes BY SMTT(30) DEF Typed
  <1>1. CASE Api
    BY <1>0, <1>1, SMTT(30) DEF Api, AcceptMessage, TransitionConversation
  <1>2. ASSUME NEW j \in Jobs, PublishDelivery(j) PROVE ProcessTypes'
    <2>1. [job |-> j, gen |-> ogen[j]] \in [job : Jobs, gen : Nat]
      BY <1>0, SMTT(30) DEF DeliveryTypes
    <2>2. Len(stream) \in Nat /\ Len(stream') = Len(stream) + 1
      <3>1. stream' = Append(stream, [job |-> j, gen |-> ogen[j]])
        BY <1>2, Zenon DEF PublishDelivery
      <3>2. stream \in Seq([job : Jobs, gen : Nat]) BY <1>0, SMTT(30) DEF DeliveryTypes
      <3>3. QED BY <2>1, <3>1, <3>2, AppendKeeps, LenNat, SMTT(30)
    <2>3. QED BY <1>0, <1>2, <2>2, SMTT(30) DEF PublishDelivery
  <1>3. ASSUME NEW j \in Jobs, PublishFails(j) PROVE ProcessTypes'
    BY <1>0, <1>3 DEF PublishFails
  <1>4. CASE ClaimOutbox
    BY <1>0, <1>4, Zenon DEF ClaimOutbox
  <1>5. CASE MarkPublished
    BY <1>0, <1>5, SMTT(30) DEF MarkPublished, BumpDelivery, SameVersions
  <1>6. CASE ListCandidates
    BY <1>0, <1>6, SMTT(30) DEF ListCandidates, ReconcilerCandidates
  <1>7. ASSUME NEW j \in Jobs, PrepareIntent(j) PROVE ProcessTypes'
    BY <1>0, <1>7, SMTT(30) DEF PrepareIntent
  <1>8. ASSUME NEW j \in Jobs, PrepareTerminal(j) PROVE ProcessTypes'
    BY <1>0, <1>8, SMTT(30) DEF PrepareTerminal, BumpJob
  <1>9. CASE ObserveIntent
    <2>1. robs' \in [known : BOOLEAN, present : BOOLEAN, pending : BOOLEAN]
      <3>1. (opub[rjob] > gone) \in BOOLEAN /\ (opub[rjob] \in pel) \in BOOLEAN
        BY SMTT(30)
      <3>2. QED BY <1>9, <3>1, ObservationTyped, Zenon DEF ObserveIntent
    <2>2. QED BY <1>0, <1>9, <2>1 DEF ObserveIntent
  <1>10. CASE ObserveFails \/ EndPass
    <2>1. CASE ObserveFails
      BY <1>0, <2>1, SMTT(30) DEF ObserveFails
    <2>2. CASE EndPass
      BY <1>0, <2>2, SMTT(30) DEF EndPass
    <2>3. QED BY <1>10, <2>1, <2>2, SMTT(30)
  <1>11. CASE RepairSkipped
    BY <1>0, <1>11, SMTT(30) DEF RepairSkipped, NextCandidate
  <1>12. ASSUME NEW j \in Jobs,
                \/ RepairHeld(j) \/ RepairReused(j) \/ RepairDead(j)
                \/ RepairRedelivered(j)
         PROVE  ProcessTypes'
    <2>1. CASE RepairHeld(j)
      BY <1>0, <2>1 DEF RepairHeld, NextCandidate
    <2>2. CASE RepairReused(j)
      BY <1>0, <2>2, Zenon DEF RepairReused, NextCandidate
    <2>3. CASE RepairDead(j)
      BY <1>0, <2>3, Zenon DEF RepairDead, NextCandidate
    <2>4. CASE RepairRedelivered(j)
      BY <1>0, <2>4, ZenonT(30) DEF RepairRedelivered, NextCandidate
    <2>5. QED BY <1>12, <2>1, <2>2, <2>3, <2>4, SMTT(30)
  <1>13. CASE Clock
    <2>1. ASSUME NEW j \in Jobs, LeaseExpires(j) PROVE ProcessTypes'
      BY <1>0, <2>1, SMTT(30) DEF LeaseExpires
    <2>2. ASSUME NEW j \in Jobs, BackoffElapses(j) PROVE ProcessTypes'
      BY <1>0, <2>2, SMTT(30) DEF BackoffElapses
    <2>3. ASSUME NEW j \in Jobs, JobAges(j) PROVE ProcessTypes'
      BY <1>0, <2>3, SMTT(30) DEF JobAges
    <2>4. ASSUME NEW j \in Jobs, IntentExpires(j) PROVE ProcessTypes'
      BY <1>0, <2>4 DEF IntentExpires
    <2>5. ASSUME NEW j \in Jobs, OutboxClaimLapses(j) PROVE ProcessTypes'
      BY <1>0, <2>5, ZenonT(30) DEF OutboxClaimLapses
    <2>6. QED BY <1>13, <2>1, <2>2, <2>3, <2>4, <2>5, SMTT(30) DEF Clock
  <1>14. CASE DispatcherCrash \/ ReconcilerCrash \/ RedisFlush
    <2>1. CASE DispatcherCrash
      BY <1>0, <2>1, SMTT(30) DEF DispatcherCrash
    <2>2. CASE ReconcilerCrash
      BY <1>0, <2>2, SMTT(30) DEF ReconcilerCrash
    <2>3. CASE RedisFlush
      BY <1>0, <2>3, SMTT(30) DEF RedisFlush
    <2>4. QED BY <1>14, <2>1, <2>2, <2>3, SMTT(30)
  <1>15. ASSUME NEW w \in Workers, WorkerCrash(w) PROVE ProcessTypes'
    BY <1>0, <1>15 DEF WorkerCrash, GoIdle
  <1>16. ASSUME NEW w \in Workers, Worker(w) PROVE ProcessTypes'
    <2>1. CASE EnsureConsumerGroup(w)
      BY <1>0, <2>1, SMTT(30) DEF EnsureConsumerGroup
    <2>2. CASE ReadNew(w)
      <3>1. read + 1 \in 1 .. Len(stream)
        BY <1>0, <2>2, LenNat, SMTT(30) DEF ReadNew, DeliveryTypes
      <3>2. QED BY <1>0, <2>2, <3>1, SMTT(30) DEF ReadNew
    <2>3. ASSUME NEW m \in pel, ReclaimOld(w, m) PROVE ProcessTypes'
      <3>1. m \in 1 .. Len(stream)
        BY <1>0, <2>3, LenNat, SMTT(30) DEF ReclaimOld, DeliveryTypes
      <3>2. QED BY <1>0, <2>3, <3>1, SMTT(30) DEF ReclaimOld
    <2>4. CASE AcceptRefused(w)
      BY <1>0, <2>4, SMTT(30) DEF AcceptRefused, GoIdle
    <2>5. CASE AcceptSuperseded(w)
      BY <1>0, <2>5, SMTT(30) DEF AcceptSuperseded, GoAcking
    <2>6. CASE AcceptSettled(w)
      BY <1>0, <2>6 DEF AcceptSettled, GoAcking, BumpDelivery, SameVersions
    <2>7. CASE AcceptReused(w)
      BY <1>0, <2>7, MessageTyped, ZenonT(30) DEF AcceptReused, JobTypes
    <2>8. CASE AcceptExhausted(w)
      BY <1>0, <2>8 DEF AcceptExhausted, GoAcking, BumpJob
    <2>10. CASE AcceptClaimed(w)
      <3>0. MsgJob(w) \in Jobs
        BY <2>10, MessageTyped, Zenon DEF AcceptClaimed
      <3>1. jfence[MsgJob(w)] + 1 \in Nat
        BY <1>0, <3>0, SMTT(30) DEF JobTypes
      <3>2. QED BY <1>0, <2>10, <3>1, Zenon DEF AcceptClaimed, BumpJob
    <2>9. ASSUME NEW o, WorkerFinalize(w, o) PROVE ProcessTypes'
      BY <1>0, <2>9, ZenonT(30) DEF WorkerFinalize, BumpJob
    <2>11. CASE WorkerAbort(w)
      BY <1>0, <2>11, ZenonT(30) DEF WorkerAbort, BumpJob
    <2>12. CASE FinishHandoff(w)
      <3>1. /\ wpc[w] # "idle" /\ GoAcking(w) /\ rbatch' \subseteq rbatch
            /\ UNCHANGED <<redisVars, dispVars, rpc, rjob, robs, envVars>>
        BY <2>12, Zenon DEF FinishHandoff, BumpJob, BumpDelivery, SameVersions
      <3>2. QED BY <1>0, <3>1, SMTT(30) DEF GoAcking
    <2>13. CASE FinishFailed(w)
      BY <1>0, <2>13, SMTT(30) DEF FinishFailed, GoAcking, BumpJob
    <2>14. ASSUME NEW o, FinishTerminal(w, o) PROVE ProcessTypes'
      BY <1>0, <2>14, SMTT(30) DEF FinishTerminal, GoAcking, BumpJob
    <2>15. CASE HandoffRefused(w) \/ FinishStale(w) \/ Ack(w)
      <3>1. CASE HandoffRefused(w) \/ FinishStale(w)
        <4>1. GoIdle(w) /\ UNCHANGED <<redisVars, dispVars, recVars, envVars>>
          BY <3>1, Zenon DEF HandoffRefused, FinishStale
        <4>2. QED BY <1>0, <4>1, ZenonT(30) DEF GoIdle
      <3>2. CASE Ack(w)
        BY <1>0, <3>2, SMTT(30) DEF Ack, GoIdle
      <3>3. QED BY <2>15, <3>1, <3>2
    <2>16. QED
      BY <1>16, <2>1, <2>2, <2>3, <2>4, <2>5, <2>6, <2>7, <2>8, <2>9, <2>10,
         <2>11, <2>12, <2>13, <2>14, <2>15, ZenonT(30)
      DEF Worker, Poll, Admit, Finalize, Finish
  <1>17. CASE UNCHANGED vars
    BY <1>0, <1>17, SMTT(30) DEF vars
  <1>18. QED
    BY <1>1, <1>2, <1>3, <1>4, <1>5, <1>6, <1>7, <1>8, <1>9, <1>10, <1>11,
       <1>12, <1>13, <1>14, <1>15, <1>16, <1>17, ZenonT(30)
    DEF Next, Dispatcher, Reconciler, Faults

\* The group exists after its creation until the data set is lost.
LEMMA GroupFrame == [Next]_vars => group' = TRUE \/ group' = FALSE \/ group' = group
  <1> USE DEF redisVars
  <1>1. CASE Api
    BY <1>1, Zenon DEF Api, AcceptMessage, TransitionConversation
  <1>2. CASE Dispatcher
    BY <1>2, Zenon DEF Dispatcher, ClaimOutbox, PublishDelivery, PublishFails,
       MarkPublished
  <1>3. CASE Reconciler
    BY <1>3, Zenon DEF Reconciler, ListCandidates, PrepareIntent,
       PrepareTerminal, ObserveIntent, ObserveFails, RepairSkipped, RepairHeld,
       RepairReused, RepairDead, RepairRedelivered, EndPass
  <1>4. CASE Clock
    BY <1>4, Zenon DEF Clock, LeaseExpires, BackoffElapses, JobAges,
       IntentExpires, OutboxClaimLapses
  <1>5. CASE Faults
    BY <1>5, Zenon DEF Faults, DispatcherCrash, ReconcilerCrash, RedisFlush,
       WorkerCrash
  <1>6. ASSUME NEW w \in Workers, Worker(w)
        PROVE  group' = TRUE \/ group' = FALSE \/ group' = group
    <2>1. CASE Poll(w)
      BY <2>1, Zenon DEF Poll, EnsureConsumerGroup, ReadNew, ReclaimOld
    <2>2. CASE Admit(w)
      BY <2>2, Zenon DEF Admit, AcceptRefused, AcceptSuperseded, AcceptSettled,
         AcceptReused, AcceptExhausted, AcceptClaimed
    <2>3. CASE Finalize(w) \/ Ack(w)
      BY <2>3, Zenon DEF Finalize, WorkerFinalize, WorkerAbort, Ack
    <2>4. CASE Finish(w)
      BY <2>4, Zenon DEF Finish, FinishHandoff, HandoffRefused, FinishFailed,
         FinishStale, FinishTerminal
    <2>5. QED BY <1>6, <2>1, <2>2, <2>3, <2>4 DEF Worker
  <1>7. CASE UNCHANGED vars
    BY <1>7, Zenon DEF vars
  <1>8. QED BY <1>1, <1>2, <1>3, <1>4, <1>5, <1>6, <1>7 DEF Next

FreshStep == \/ rfresh' = TRUE \/ rfresh' = FALSE \/ rfresh' = rfresh
             \/ \E j : rfresh' = (rfresh /\ rjob # j)

\* The candidate's status version is read anew, found stale, or left alone.
LEMMA FreshFrame == [Next]_vars => FreshStep
  <1> USE DEF FreshStep, recVars, BumpJob, BumpDelivery, SameVersions
  <1>1. CASE Api
    BY <1>1, Zenon DEF Api, AcceptMessage, TransitionConversation
  <1>2. CASE Dispatcher
    BY <1>2, Zenon DEF Dispatcher, ClaimOutbox, PublishDelivery, PublishFails,
       MarkPublished
  <1>3. CASE Reconciler
    <2>1. ASSUME NEW j \in Jobs, PrepareTerminal(j) PROVE FreshStep
      BY <2>1, Zenon DEF PrepareTerminal
    <2>2. QED
      BY <1>3, <2>1, Zenon DEF Reconciler, ListCandidates, PrepareIntent,
         ObserveIntent, ObserveFails, RepairSkipped, RepairHeld, RepairReused,
         RepairDead, RepairRedelivered, EndPass
  <1>4. CASE Clock
    BY <1>4, Zenon DEF Clock, LeaseExpires, BackoffElapses, JobAges,
       IntentExpires, OutboxClaimLapses
  <1>5. CASE Faults
    BY <1>5, Zenon DEF Faults, DispatcherCrash, ReconcilerCrash, RedisFlush,
       WorkerCrash
  <1>6. ASSUME NEW w \in Workers, Worker(w) PROVE FreshStep
    <2>1. CASE Poll(w)
      BY <2>1, Zenon DEF Poll, EnsureConsumerGroup, ReadNew, ReclaimOld
    <2>2. CASE AcceptRefused(w) \/ AcceptSuperseded(w) \/ AcceptReused(w)
      BY <2>2, Zenon DEF AcceptRefused, AcceptSuperseded, AcceptReused
    <2>3. CASE AcceptSettled(w)
      BY <2>3, Zenon DEF AcceptSettled
    <2>4. CASE AcceptExhausted(w) \/ AcceptClaimed(w)
      BY <2>4, Zenon DEF AcceptExhausted, AcceptClaimed
    <2>5. CASE Finalize(w) \/ Ack(w)
      BY <2>5, Zenon DEF Finalize, WorkerFinalize, WorkerAbort, Ack
    <2>6. CASE FinishHandoff(w)
      BY <2>6, Zenon DEF FinishHandoff
    <2>7. CASE HandoffRefused(w) \/ FinishFailed(w) \/ FinishStale(w)
               \/ FinishTerminal(w, "infrastructure_exhausted")
               \/ FinishTerminal(w, "domain_terminal")
      BY <2>7, Zenon DEF HandoffRefused, FinishFailed, FinishStale, FinishTerminal
    <2>8. QED
      BY <1>6, <2>1, <2>2, <2>3, <2>4, <2>5, <2>6, <2>7, Zenon
      DEF Worker, Admit, Finish
  <1>7. CASE UNCHANGED vars
    BY <1>7, Zenon DEF vars
  <1>8. QED BY <1>1, <1>2, <1>3, <1>4, <1>5, <1>6, <1>7 DEF Next

-----------------------------------------------------------------------------
LEMMA TypeStep == ASSUME TypeOK, [Next]_vars PROVE TypeOK'
  <1>1. Typed /\ group \in BOOLEAN /\ rfresh \in BOOLEAN
    BY Zenon DEF TypeOK, Typed
  <1>2. group' \in BOOLEAN
    BY <1>1, GroupFrame, Zenon
  <1>3. rfresh' \in BOOLEAN
    BY <1>1, FreshFrame, ZenonT(30) DEF FreshStep
  <1>4. QED
    BY <1>1, <1>2, <1>3, JobTypesStep, DeliveryTypesStep, ProcessTypesStep,
       Zenon DEF TypeOK

-----------------------------------------------------------------------------
(* The lane.  LaneInOrder is not inductive alone: a claim compares dispatch  *)
(* sequences, which order the jobs only if every job has one, bounded by the *)
(* ticket's counter; and a repair acts on the status read when the candidate *)
(* was prepared, which is still the job's only while its version is.         *)

Numbered ==
    \A j \in Jobs : /\ jseq[j] = 0 <=> jstatus[j] = "none"
                    /\ jseq[j] <= tseq[TicketOf[j]]

FreshIsLive == rfresh => rjob \in Jobs /\ jstatus[rjob] \in Live

LaneInv == Numbered /\ ActivePointerConsistent /\ LaneInOrder

LEMMA FreshIsLiveStep ==
    ASSUME Typed, FreshIsLive, Numbered, [Next]_vars PROVE FreshIsLive'
  <1> USE DEF FreshIsLive, jobVars, recVars, BumpJob, BumpDelivery,
              SameVersions, Live, Pending, Terminal
  <1>0. jstatus \in [Jobs -> JobStatuses] BY SMTT(30) DEF Typed, JobTypes
  <1>1. CASE Api
    <2>1. ASSUME NEW j \in Jobs, AcceptMessage(j) PROVE FreshIsLive'
      BY <1>0, <2>1 DEF AcceptMessage
    <2>2. QED BY <1>1, <2>1, ZenonT(30) DEF Api, TransitionConversation
  <1>2. CASE Dispatcher
    BY <1>2, Zenon DEF Dispatcher, ClaimOutbox, PublishDelivery, PublishFails,
       MarkPublished
  <1>3. CASE Reconciler
    <2>1. ASSUME NEW j \in Jobs, PrepareTerminal(j) PROVE FreshIsLive'
      BY <1>0, <2>1, Zenon DEF PrepareTerminal
    <2>2. ASSUME NEW j \in Jobs, PrepareIntent(j) PROVE FreshIsLive'
      BY <1>0, <2>2 DEF PrepareIntent
    <2>3. QED
      BY <1>3, <2>1, <2>2, ZenonT(30) DEF Reconciler, ListCandidates, 
         ObserveIntent, ObserveFails, RepairSkipped, RepairHeld, RepairReused,
         RepairDead, RepairRedelivered, EndPass
  <1>4. CASE Clock
    BY <1>4, Zenon DEF Clock, LeaseExpires, BackoffElapses, JobAges, IntentExpires,
       OutboxClaimLapses
  <1>5. CASE Faults
    BY <1>5, Zenon DEF Faults, DispatcherCrash, ReconcilerCrash, RedisFlush,
       WorkerCrash
  <1>6. ASSUME NEW w \in Workers, Worker(w) PROVE FreshIsLive'
    <2>1. CASE Poll(w)
      BY <2>1, ZenonT(30) DEF Poll, EnsureConsumerGroup, ReadNew, ReclaimOld
    <2>2. CASE AcceptRefused(w) \/ AcceptSuperseded(w) \/ AcceptReused(w)
      BY <2>2, Zenon DEF AcceptRefused, AcceptSuperseded, AcceptReused
    <2>3. CASE AcceptSettled(w)
      BY <2>3, Zenon DEF AcceptSettled
    <2>4. CASE AcceptExhausted(w) \/ AcceptClaimed(w)
      BY <1>0, <2>4, ZenonT(30) DEF AcceptExhausted, AcceptClaimed
    <2>5. CASE Ack(w)
      BY <2>5, ZenonT(30) DEF Ack
    <2>6. CASE Finalize(w)
      <3>1. ASSUME NEW o, WorkerFinalize(w, o) PROVE FreshIsLive'
        BY <1>0, <3>1, ZenonT(30) DEF WorkerFinalize, Release
      <3>2. CASE WorkerAbort(w)
        BY <1>0, <3>2, ZenonT(30) DEF WorkerAbort, Release
      <3>3. QED BY <2>6, <3>1, <3>2, Zenon DEF Finalize
    <2>7. CASE FinishHandoff(w) \/ HandoffRefused(w) \/ FinishStale(w)
      BY <2>7, Zenon DEF FinishHandoff, HandoffRefused, FinishStale
    <2>8. CASE FinishFailed(w)
      BY <1>0, <2>8, Zenon DEF FinishFailed, Release
    <2>9. ASSUME NEW o, FinishTerminal(w, o) PROVE FreshIsLive'
      BY <1>0, <2>9, Zenon DEF FinishTerminal, Release
    <2>10. QED
      BY <1>6, <2>1, <2>2, <2>3, <2>4, <2>5, <2>6, <2>7, <2>8, <2>9, ZenonT(30)
      DEF Worker, Admit, Finish
  <1>7. CASE UNCHANGED vars
    BY <1>7 DEF vars
  <1>8. QED BY <1>1, <1>2, <1>3, <1>4, <1>5, <1>6, <1>7, SMTT(30) DEF Next

LEMMA NumberedStep ==
    ASSUME Typed, Numbered, ActivePointerConsistent, FreshIsLive, [Next]_vars
    PROVE  Numbered'
  <1> USE Constants DEF Numbered, Live, Pending, Terminal
  <1>0. JobTypes BY SMTT(30) DEF Typed
  <1>1. CASE UNCHANGED jobState
    BY <1>1, SMTT(30) DEF jobState, jobVars
  <1>2. ASSUME NEW j \in Jobs, AcceptMessage(j) PROVE Numbered'
    BY <1>0, <1>2 DEF AcceptMessage, JobTypes
  <1>3. ASSUME NEW j \in Jobs, PrepareTerminal(j) \/ RepairHeld(j)
        PROVE  Numbered'
    BY <1>3, ZenonT(30) DEF PrepareTerminal, RepairHeld, envVars
  <1>4. ASSUME NEW j \in Jobs, RepairReused(j) PROVE Numbered'
    <2>1. /\ jseq' = jseq /\ tseq' = tseq
          /\ \/ jstatus' = jstatus
             \/ jstatus[j] = "leased" /\ jstatus' = [jstatus EXCEPT ![j] = "queued"]
      BY <1>4, Zenon DEF RepairReused, Release, envVars
    <2>2. QED BY <1>0, <1>4, <2>1 DEF JobTypes
  <1>5. ASSUME NEW j \in Jobs, RepairDead(j) PROVE Numbered'
    BY <1>0, <1>5, Zenon DEF RepairDead, CanRepair, FreshIsLive, Release, envVars,
       JobTypes
  <1>6. ASSUME NEW j \in Jobs, RepairRedelivered(j) PROVE Numbered'
    BY <1>0, <1>6, Zenon DEF RepairRedelivered, CanRepair, FreshIsLive, Release,
       envVars, JobTypes
  <1>7. ASSUME NEW j \in Jobs, LeaseExpires(j) \/ BackoffElapses(j) \/ JobAges(j)
        PROVE  Numbered'
    BY <1>7, ZenonT(30) DEF LeaseExpires, BackoffElapses, JobAges, envVars
  <1>8. ASSUME NEW t \in Tickets, TransitionConversation(t) PROVE Numbered'
    <2>1. jstatus' = jstatus /\ jseq' = jseq /\ tseq' = tseq
      BY <1>8, Zenon DEF TransitionConversation, jobVars
    <2>2. QED BY <2>1, Zenon
  <1>9. ASSUME NEW w \in Workers, AcceptExhausted(w) \/ AcceptClaimed(w)
        PROVE  Numbered'
    <2>1. MsgJob(w) \in Jobs
      BY <1>9, MessageTyped, Zenon DEF AcceptExhausted, AcceptClaimed
    <2>2. \E s \in {"dead", "leased"} :
             jstatus' = [jstatus EXCEPT ![MsgJob(w)] = s]
      BY <1>9, Zenon DEF AcceptExhausted, AcceptClaimed
    <2>3. jseq' = jseq /\ tseq' = tseq /\ jstatus[MsgJob(w)] \in Pending
      BY <1>9, Zenon DEF AcceptExhausted, AcceptClaimed, envVars
    <2>4. QED BY <1>0, <2>1, <2>2, <2>3 DEF JobTypes
  <1>10. ASSUME NEW w \in Workers, NEW o, WorkerFinalize(w, o) \/ WorkerAbort(w)
         PROVE  Numbered'
    <2>1. CASE WorkerFinalize(w, o)
      BY <1>0, <2>1, Zenon DEF WorkerFinalize, HoldsFence, Release, envVars, JobTypes
    <2>2. CASE WorkerAbort(w)
      BY <1>0, <2>2, Zenon DEF WorkerAbort, HoldsFence, Release, envVars, JobTypes
    <2>3. QED BY <1>10, <2>1, <2>2
  <1>11. ASSUME NEW w \in Workers, FinishFailed(w) PROVE Numbered'
    BY <1>0, <1>11, Zenon DEF FinishFailed, HoldsFence, Release, envVars, JobTypes
  <1>12. ASSUME NEW w \in Workers, NEW o, FinishTerminal(w, o) PROVE Numbered'
    BY <1>0, <1>12, Zenon DEF FinishTerminal, HoldsFence, Release, envVars, JobTypes
  <1>13. ASSUME NEW w \in Workers, FinishHandoff(w) PROVE Numbered'
    BY <1>13, Zenon DEF FinishHandoff, envVars
  <1>14. QED
    BY <1>1, <1>2, <1>3, <1>4, <1>5, <1>6, <1>7, <1>8, <1>9, <1>10, <1>11,
       <1>12, <1>13, JobFrame, ZenonT(30) DEF JobStep

LEMMA ActivePointerStep ==
    ASSUME Typed, Numbered, ActivePointerConsistent, FreshIsLive, [Next]_vars
    PROVE  ActivePointerConsistent'
  <1> USE Constants DEF ActivePointerConsistent, Live, Pending, Terminal
  <1>0. JobTypes BY DEF Typed
  <1>1. CASE UNCHANGED jobState
    BY <1>1, ZenonT(30) DEF jobState, jobVars, runVars
  <1>2. ASSUME NEW j \in Jobs, AcceptMessage(j)
        PROVE  ActivePointerConsistent'
    BY <1>0, <1>2 DEF AcceptMessage, JobTypes, Numbered
  <1>3. ASSUME NEW j \in Jobs, PrepareTerminal(j) \/ RepairHeld(j)
        PROVE  ActivePointerConsistent'
    BY <1>3, Zenon DEF PrepareTerminal, RepairHeld, runVars
  <1>4. ASSUME NEW j \in Jobs, RepairReused(j) PROVE ActivePointerConsistent'
    <2>1. CASE UNCHANGED <<jstatus, jfence, jowner, jlease, runVars>>
      BY <2>1, ZenonT(30) DEF runVars
    <2>2. CASE Release(j, "queued")
      BY <1>0, <2>2 DEF Release, JobTypes
    <2>3. QED BY <1>4, <2>1, <2>2, Zenon DEF RepairReused
  <1>5. ASSUME NEW j \in Jobs, RepairDead(j) PROVE ActivePointerConsistent'
    BY <1>0, <1>5, ZenonT(30) DEF RepairDead, Release, JobTypes
  <1>6. ASSUME NEW j \in Jobs, RepairRedelivered(j)
        PROVE  ActivePointerConsistent'
    BY <1>0, <1>6, SMTT(30) DEF RepairRedelivered, Release, JobTypes
  <1>7. ASSUME NEW j \in Jobs, LeaseExpires(j) \/ BackoffElapses(j) \/ JobAges(j)
        PROVE  ActivePointerConsistent'
    BY <1>0, <1>7 DEF LeaseExpires, BackoffElapses, JobAges, runVars, JobTypes
  <1>8. ASSUME NEW t \in Tickets, TransitionConversation(t)
        PROVE  ActivePointerConsistent'
    BY <1>8, Zenon DEF TransitionConversation, jobVars, runVars
  <1>9. ASSUME NEW w \in Workers, AcceptExhausted(w)
        PROVE  ActivePointerConsistent'
    BY <1>0, <1>9, Zenon DEF AcceptExhausted, JobTypes
  <1>10. ASSUME NEW w \in Workers, AcceptClaimed(w)
         PROVE  ActivePointerConsistent'
    <2>1. MsgJob(w) \in Jobs /\ jfence[MsgJob(w)] \in Nat
      BY <1>0, <1>10, MessageTyped, Zenon DEF AcceptClaimed, JobTypes
    <2>2. /\ jstatus' = [jstatus EXCEPT ![MsgJob(w)] = "leased"]
          /\ jfence' = [jfence EXCEPT ![MsgJob(w)] = @ + 1]
          /\ jowner' = [jowner EXCEPT ![MsgJob(w)] = w]
          /\ jlease' = [jlease EXCEPT ![MsgJob(w)] = "live"]
          /\ ractive' = [ractive EXCEPT ![MsgJob(w)] = jfence[MsgJob(w)] + 1]
      BY <1>10, ZenonT(30) DEF AcceptClaimed
    <2>3. ASSUME NEW k \in Jobs
          PROVE  /\ jstatus'[k] = IF k = MsgJob(w) THEN "leased" ELSE jstatus[k]
                 /\ jfence'[k] = IF k = MsgJob(w) THEN jfence[k] + 1 ELSE jfence[k]
                 /\ jowner'[k] = IF k = MsgJob(w) THEN w ELSE jowner[k]
                 /\ jlease'[k] = IF k = MsgJob(w) THEN "live" ELSE jlease[k]
                 /\ ractive'[k] = IF k = MsgJob(w) THEN jfence[k] + 1 ELSE ractive[k]
      BY <1>0, <2>1, <2>2, SMTT(30) DEF JobTypes
    <2>4. ASSUME NEW k \in Jobs
          PROVE  /\ (jstatus'[k] = "leased") <=> (ractive'[k] # 0)
                 /\ jstatus'[k] = "leased" => /\ ractive'[k] = jfence'[k]
                                              /\ jowner'[k] # NoWorker
                                              /\ jlease'[k] # "none"
                 /\ jstatus'[k] # "leased" => /\ jowner'[k] = NoWorker
                                              /\ jlease'[k] = "none"
      <3>1. CASE k = MsgJob(w)
        BY <2>1, <2>3, <3>1, SMTT(30)
      <3>2. CASE k # MsgJob(w)
        BY <2>3, <3>2, SMTT(30)
      <3>3. QED BY <3>1, <3>2, ZenonT(30)
    <2>5. QED BY <2>4, Zenon
  <1>11. ASSUME NEW w \in Workers, NEW o, WorkerFinalize(w, o) \/ WorkerAbort(w)
         PROVE  ActivePointerConsistent'
    <2>1. \E s \in Terminal : Release(MsgJob(w), s)
      BY <1>11, Zenon DEF WorkerFinalize, WorkerAbort
    <2>2. QED BY <1>0, <2>1 DEF Release, JobTypes
  <1>12. ASSUME NEW w \in Workers, FinishFailed(w)
         PROVE  ActivePointerConsistent'
    BY <1>0, <1>12, Zenon DEF FinishFailed, Release, JobTypes
  <1>13. ASSUME NEW w \in Workers, NEW o, FinishTerminal(w, o)
         PROVE  ActivePointerConsistent'
    BY <1>0, <1>13, Zenon DEF FinishTerminal, Release, JobTypes
  <1>14. ASSUME NEW w \in Workers, FinishHandoff(w)
         PROVE  ActivePointerConsistent'
    BY <1>14, Zenon DEF FinishHandoff, runVars
  <1>15. QED
    BY <1>1, <1>2, <1>3, <1>4, <1>5, <1>6, <1>7, <1>8, <1>9, <1>10, <1>11,
       <1>12, <1>13, <1>14, JobFrame, ZenonT(30) DEF JobStep

-----------------------------------------------------------------------------
(* Refinement of JobLane: each write of a job's columns is a step of the    *)
(* lane, and no other step touches what the lane sees.                       *)

\* What a write of the outcome column is to the lane.
LEMMA OutcomeKept == joutcome' = joutcome => LaneOutcome' = LaneOutcome
  BY Zenon DEF LaneOutcome, Canonical

LEMMA OutcomeWritten ==
    ASSUME joutcome \in [Jobs -> Outcomes], NEW j \in Jobs, NEW o, NEW c,
           joutcome' = [joutcome EXCEPT ![j] = o], Canonical(o) = c
    PROVE  LaneOutcome' = [LaneOutcome EXCEPT ![j] = c]
  <1>1. \A k \in Jobs : joutcome'[k] = IF k = j THEN o ELSE joutcome[k]
    BY Zenon
  <1>2. LaneOutcome' = [k \in Jobs |-> Canonical(joutcome'[k])]
    BY Zenon DEF LaneOutcome, Canonical
  <1>3. QED BY <1>1, <1>2, Zenon DEF LaneOutcome, Canonical

LEMMA ClaimIsAttempt ==
    ASSUME Typed, Numbered, NEW w \in Workers, AcceptClaimed(w)
    PROVE  Lane!Attempt(MsgJob(w), w)
  <1> DEFINE j == MsgJob(w)
  <1>0. JobTypes BY SMTT(30) DEF Typed
  <1>1. j \in Jobs BY MessageTyped, SMTT(30) DEF AcceptClaimed
  <1>2. jstatus[j] \in Lane!LanePending
    BY DEF AcceptClaimed, Pending, Lane!LanePending
  <1>3. jattempt[j] < MaxAttempts
    <2>1. ~(jattempt[j] >= MaxAttempts) BY ZenonT(30) DEF AcceptClaimed, Exhausted
    <2>2. jattempt[j] \in Nat BY <1>0, <1>1, SMTT(30) DEF JobTypes
    <2>3. QED BY <2>1, <2>2, Constants
  <1>4. ASSUME NEW k \in Jobs \ {j}, TicketOf[k] = TicketOf[j], jseq[k] # 0
        PROVE  /\ jstatus[k] # "leased"
               /\ jseq[k] < jseq[j] => jstatus[k] \in Lane!LaneOver
    <2>1. ~LaneBlocked(j) /\ jstatus[j] \in Pending
      BY Zenon DEF AcceptClaimed, Admissible
    <2>2. jstatus[k] # "leased" /\ (jseq[k] < jseq[j] => jstatus[k] \notin Live)
      BY <1>4, <2>1, ZenonT(30) DEF LaneBlocked
    <2>3. jstatus[k] \in JobStatuses \ {"none"}
      BY <1>0, <1>4 DEF Numbered, JobTypes
    <2>4. QED BY <2>2, <2>3, Zenon DEF JobStatuses, Live, Terminal, Lane!LaneOver
  <1>5. QED
    BY <1>2, <1>3, <1>4, OutcomeKept, Zenon DEF AcceptClaimed, envVars, Lane!Attempt

LEMMA RefinesStep ==
    ASSUME Typed, Numbered, ActivePointerConsistent, FreshIsLive, [Next]_vars
    PROVE  [Lane!LaneNext]_(Lane!laneVars)
  <1> USE Constants DEF Live, Pending, Terminal, Lane!LaneNext, Lane!laneVars,
          Lane!LanePending, Lane!LaneOver
  <1>0. JobTypes BY SMTT(30) DEF Typed
  <1>a. ASSUME NEW j \in Jobs, NEW o, NEW c,
               joutcome' = [joutcome EXCEPT ![j] = o], Canonical(o) = c
        PROVE  LaneOutcome' = [LaneOutcome EXCEPT ![j] = c]
    BY <1>0, <1>a, OutcomeWritten, Zenon DEF JobTypes
  <1>b. /\ Canonical("infrastructure_exhausted") = "infrastructure_exhausted"
        /\ Canonical("finalizer_aborted") = "finalizer_aborted"
        /\ Canonical("domain_terminal") = "domain_terminal"
        /\ Canonical("interrupted") = "interrupted"
        /\ Canonical("terminal_state") = "completed"
    BY SMT DEF Canonical
  <1>1. CASE UNCHANGED jobState
    BY <1>1, OutcomeKept, Zenon DEF jobState, jobVars
  <1>2. ASSUME NEW j \in Jobs, AcceptMessage(j) PROVE Lane!Enqueue(j)
    BY <1>2, OutcomeKept, Zenon DEF AcceptMessage, Numbered, Lane!Enqueue
  <1>3. ASSUME NEW j \in Jobs,
               \/ PrepareTerminal(j) \/ RepairHeld(j) \/ LeaseExpires(j)
               \/ BackoffElapses(j) \/ JobAges(j)
        PROVE  UNCHANGED Lane!laneVars
    BY <1>3, OutcomeKept, ZenonT(30) DEF PrepareTerminal, RepairHeld, LeaseExpires, BackoffElapses,
       JobAges, envVars
  <1>4. ASSUME NEW j \in Jobs, RepairReused(j)
        PROVE  Lane!GiveBack(j) \/ UNCHANGED Lane!laneVars
    BY <1>4, OutcomeKept DEF RepairReused, Release, envVars, Lane!GiveBack
  <1>5. ASSUME NEW j \in Jobs, RepairDead(j) PROVE Lane!DeadLetter(j)
    <2>1. LaneOutcome' = [LaneOutcome EXCEPT ![j] = "infrastructure_exhausted"]
      <3>1. joutcome' = [joutcome EXCEPT ![j] = "infrastructure_exhausted"]
        BY <1>5, Zenon DEF RepairDead
      <3>2. QED BY <1>a, <1>b, <3>1, Zenon
    <2>2. QED
      BY <1>5, <2>1, Zenon DEF RepairDead, Release, CanRepair, FreshIsLive, envVars,
         Lane!DeadLetter
  <1>6. ASSUME NEW j \in Jobs, RepairRedelivered(j) PROVE Lane!GiveBack(j)
    BY <1>6, OutcomeKept, ZenonT(30) DEF RepairRedelivered, Release, CanRepair,
       FreshIsLive, envVars, Lane!GiveBack
  <1>7. ASSUME NEW t \in Tickets, TransitionConversation(t)
        PROVE  UNCHANGED Lane!laneVars
    BY <1>7, OutcomeKept, Zenon DEF TransitionConversation, jobVars
  <1>8. ASSUME NEW w \in Workers, AcceptExhausted(w)
        PROVE  MsgJob(w) \in Jobs /\ Lane!DeadLetter(MsgJob(w))
    <2>1. MsgJob(w) \in Jobs BY <1>8, MessageTyped DEF AcceptExhausted
    <2>2. jowner' = [jowner EXCEPT ![MsgJob(w)] = NoWorker]
      BY <1>0, <1>8, <2>1, Zenon DEF AcceptExhausted, ActivePointerConsistent, JobTypes
    <2>3. LaneOutcome' = [LaneOutcome EXCEPT ![MsgJob(w)] =
                            "infrastructure_exhausted"]
      <3>1. joutcome' = [joutcome EXCEPT ![MsgJob(w)] = "infrastructure_exhausted"]
        BY <1>8, Zenon DEF AcceptExhausted
      <3>2. QED BY <1>a, <1>b, <2>1, <3>1, Zenon
    <2>4. QED
      BY <1>8, <2>1, <2>2, <2>3, ZenonT(30) DEF AcceptExhausted, envVars,
         Lane!DeadLetter
  <1>9. ASSUME NEW w \in Workers, AcceptClaimed(w)
        PROVE  MsgJob(w) \in Jobs /\ Lane!Attempt(MsgJob(w), w)
    BY <1>9, MessageTyped, ClaimIsAttempt, Zenon DEF AcceptClaimed
  <1>10. ASSUME NEW w \in Workers, NEW o \in {"terminal_state", "interrupted"},
                WorkerFinalize(w, o)
         PROVE  MsgJob(w) \in Jobs /\ Lane!Conclude(MsgJob(w))
    <2>1. MsgJob(w) \in Jobs BY <1>10, MessageTyped, Zenon DEF WorkerFinalize
    <2>2. LaneOutcome' = [LaneOutcome EXCEPT ![MsgJob(w)] = Canonical(o)]
      BY <1>10, <1>a, <2>1, Zenon DEF WorkerFinalize
    <2>3. Canonical(o) \in {"completed", "interrupted", "domain_terminal"}
      BY <1>b, Zenon
    <2>4. QED
      BY <1>10, <2>1, <2>2, <2>3, ZenonT(30) DEF WorkerFinalize, HoldsFence, Release,
         envVars, Lane!Conclude
  <1>11. ASSUME NEW w \in Workers, WorkerAbort(w)
         PROVE  MsgJob(w) \in Jobs /\ Lane!Abort(MsgJob(w))
    <2>1. MsgJob(w) \in Jobs BY <1>11, MessageTyped, Zenon DEF WorkerAbort
    <2>2. LaneOutcome' = [LaneOutcome EXCEPT ![MsgJob(w)] = "finalizer_aborted"]
      <3>1. joutcome' = [joutcome EXCEPT ![MsgJob(w)] = "finalizer_aborted"]
        BY <1>11, Zenon DEF WorkerAbort
      <3>2. QED BY <1>a, <1>b, <2>1, <3>1, Zenon
    <2>3. QED
      BY <1>11, <2>1, <2>2, ZenonT(30) DEF WorkerAbort, HoldsFence, Release, envVars,
         Lane!Abort
  <1>12. ASSUME NEW w \in Workers, FinishHandoff(w) PROVE UNCHANGED Lane!laneVars
    <2>1. MsgJob(w) \in Jobs BY <1>12, MessageTyped, Zenon DEF FinishHandoff
    <2>2. PICK o : /\ joutcome' = [joutcome EXCEPT ![MsgJob(w)] = o]
                   /\ o = Canonical(joutcome[MsgJob(w)]) \/ o = joutcome[MsgJob(w)]
      BY <1>12, Zenon DEF FinishHandoff
    <2>3. Canonical(o) = Canonical(joutcome[MsgJob(w)])
      BY <2>2, SMT DEF Canonical
    <2>4. LaneOutcome' = [LaneOutcome EXCEPT ![MsgJob(w)] = Canonical(o)]
      BY <1>a, <2>1, <2>2, Zenon
    <2>5. LaneOutcome' = LaneOutcome
      BY <2>1, <2>3, <2>4, Zenon DEF LaneOutcome
    <2>6. QED BY <1>12, <2>5, Zenon DEF FinishHandoff, envVars
  <1>13. ASSUME NEW w \in Workers, FinishFailed(w)
         PROVE  /\ MsgJob(w) \in Jobs
                /\ Lane!GiveBack(MsgJob(w)) \/ Lane!DeadLetter(MsgJob(w))
    <2>1. MsgJob(w) \in Jobs BY <1>13, MessageTyped, Zenon DEF FinishFailed
    <2>2. CASE Exhausted(MsgJob(w))
      <3>1. joutcome' = [joutcome EXCEPT ![MsgJob(w)] = "infrastructure_exhausted"]
        BY <1>13, <2>2, Zenon DEF FinishFailed
      <3>2. LaneOutcome' = [LaneOutcome EXCEPT ![MsgJob(w)] =
                              "infrastructure_exhausted"]
        BY <1>a, <1>b, <2>1, <3>1, Zenon
      <3>3. QED
        BY <1>13, <2>1, <2>2, <3>2, Zenon DEF FinishFailed, HoldsFence, Release,
           envVars, Lane!DeadLetter
    <2>3. CASE ~Exhausted(MsgJob(w))
      <3>1. joutcome' = joutcome
        BY <1>0, <1>13, <2>1, <2>3, Zenon DEF FinishFailed, JobTypes
      <3>2. QED
        BY <1>13, <2>1, <2>3, <3>1, OutcomeKept, Zenon DEF FinishFailed, HoldsFence,
           Release, envVars, Lane!GiveBack
    <2>4. QED BY <2>1, <2>2, <2>3, Zenon
  <1>14. ASSUME NEW w \in Workers,
                NEW o \in {"infrastructure_exhausted", "domain_terminal"},
                FinishTerminal(w, o)
         PROVE  /\ MsgJob(w) \in Jobs
                /\ \/ Lane!DeadLetter(MsgJob(w))
                   \/ Lane!Conclude(MsgJob(w))
    <2>1. MsgJob(w) \in Jobs BY <1>14, MessageTyped, Zenon DEF FinishTerminal
    <2>2. LaneOutcome' = [LaneOutcome EXCEPT ![MsgJob(w)] = o]
      <3>1. Canonical(o) = o BY <1>b, Zenon
      <3>2. QED BY <1>14, <1>a, <2>1, <3>1, Zenon DEF FinishTerminal
    <2>3. CASE o = "infrastructure_exhausted"
      BY <1>14, <2>1, <2>2, <2>3, Zenon DEF FinishTerminal, HoldsFence, Release,
         envVars, Lane!DeadLetter
    <2>4. CASE o = "domain_terminal"
      BY <1>14, <2>1, <2>2, <2>4, Zenon DEF FinishTerminal, HoldsFence, Release,
         envVars, Lane!Conclude
    <2>5. QED BY <2>1, <2>3, <2>4, Zenon
  <1>15. QED
    BY <1>1, <1>2, <1>3, <1>4, <1>5, <1>6, <1>7, <1>8, <1>9, <1>10, <1>11,
       <1>12, <1>13, <1>14, JobFrame, ZenonT(30) DEF JobStep

\* A step of the lane keeps its order.
LEMMA LaneOrderStep ==
    ASSUME Typed, Numbered, LaneInOrder, [Lane!LaneNext]_(Lane!laneVars)
    PROVE  LaneInOrder'
  <1> USE Constants DEF LaneInOrder, Terminal, Lane!LanePending, Lane!LaneOver
  <1>0. JobTypes BY Zenon DEF Typed
  <1>1. ASSUME NEW j \in Jobs, Lane!Enqueue(j) PROVE LaneInOrder'
    BY <1>0, <1>1, SMTT(60) DEF Lane!Enqueue, Numbered, JobTypes
  <1>2. ASSUME NEW j \in Jobs, NEW w \in Workers, Lane!Attempt(j, w)
        PROVE  LaneInOrder'
    BY <1>0, <1>2, SMTT(30) DEF Lane!Attempt, Numbered, JobTypes
  <1>3. ASSUME NEW j \in Jobs, Lane!GiveBack(j) PROVE LaneInOrder'
    BY <1>0, <1>3, SMTT(30) DEF Lane!GiveBack, JobTypes
  <1>4. ASSUME NEW j \in Jobs,
               Lane!Conclude(j) \/ Lane!Abort(j) \/ Lane!DeadLetter(j)
        PROVE  LaneInOrder'
    <2>1. UNCHANGED jseq /\ \E s \in Terminal : jstatus' = [jstatus EXCEPT ![j] = s]
      BY <1>4, Zenon DEF Lane!Conclude, Lane!Abort, Lane!DeadLetter
    <2>2. QED BY <1>0, <2>1, SMTT(60) DEF JobTypes
  <1>5. CASE UNCHANGED Lane!laneVars
    BY <1>5, Zenon DEF Lane!laneVars
  <1>6. QED BY <1>1, <1>2, <1>3, <1>4, <1>5, Zenon DEF Lane!LaneNext

-----------------------------------------------------------------------------
QueueInv == TypeOK /\ FreshIsLive /\ LaneInv

LEMMA QueueInvInit == Init => QueueInv
  <1> SUFFICES ASSUME Init PROVE QueueInv
    OBVIOUS
  <1>1. TypeOK
    <2>1. group \in BOOLEAN /\ rfresh \in BOOLEAN
      BY Zenon DEF Init
    <2>2. QED BY <2>1, TypeInit, Zenon DEF TypeOK, Typed
  <1>2. FreshIsLive BY SMTT(30) DEF Init, FreshIsLive
  <1>3. Numbered BY Constants, SMTT(30) DEF Init, Numbered
  <1>4. ActivePointerConsistent BY DEF Init, ActivePointerConsistent
  <1>5. LaneInOrder BY Zenon DEF Init, LaneInOrder
  <1>6. QED BY <1>1, <1>2, <1>3, <1>4, <1>5 DEF QueueInv, LaneInv

LEMMA QueueInvStep == QueueInv /\ [Next]_vars => QueueInv'
  <1> SUFFICES ASSUME QueueInv, [Next]_vars PROVE QueueInv'
    OBVIOUS
  <1>1. /\ TypeOK /\ Typed /\ FreshIsLive /\ Numbered
        /\ ActivePointerConsistent /\ LaneInOrder
    BY Zenon DEF QueueInv, LaneInv, TypeOK, Typed
  <1>2. TypeOK' BY <1>1, TypeStep
  <1>3. FreshIsLive' BY <1>1, FreshIsLiveStep
  <1>4. Numbered' BY <1>1, NumberedStep
  <1>5. ActivePointerConsistent' BY <1>1, ActivePointerStep
  <1>6. LaneInOrder' BY <1>1, RefinesStep, LaneOrderStep
  <1>7. QED BY <1>2, <1>3, <1>4, <1>5, <1>6 DEF QueueInv, LaneInv

LEMMA QueueInvariant == Spec => []QueueInv
  BY QueueInvInit, QueueInvStep, PTL DEF Spec

\* The tables, the Redis structures and the processes keep their types under
\* every handler, crash and Redis fault.
THEOREM TypeCorrect == Spec => []TypeOK
  BY QueueInvariant, PTL DEF QueueInv

\* What the trigger active_job_consistency_guard enforces is kept by every
\* handler: the run points at its job exactly while the job is leased.
THEOREM ActivePointer == Spec => []ActivePointerConsistent
  BY QueueInvariant, PTL DEF QueueInv, LaneInv

\* Turns of a conversation are executed one at a time, in order of acceptance.
THEOREM LaneOrder == Spec => []LaneInOrder
  BY QueueInvariant, PTL DEF QueueInv, LaneInv

\* The queue with its outbox, Redis group, leases and Reconciler implements
\* the abstract lane of module JobLane.
THEOREM ImplementsLane == Spec => KeepsLane
  <1>1. Init => Lane!LaneInit
    BY SMT DEF Init, Lane!LaneInit, LaneOutcome, Canonical
  <1>2. QueueInv /\ [Next]_vars => [Lane!LaneNext]_(Lane!laneVars)
    <2> SUFFICES ASSUME QueueInv, [Next]_vars
                 PROVE  [Lane!LaneNext]_(Lane!laneVars)
      OBVIOUS
    <2>1. Typed /\ FreshIsLive /\ Numbered /\ ActivePointerConsistent
      BY Zenon DEF QueueInv, LaneInv, TypeOK, Typed
    <2>2. QED BY <2>1, RefinesStep
  <1>3. QED
    BY <1>1, <1>2, QueueInvariant, PTL DEF Spec, KeepsLane, Lane!LaneSpec

\* Of the steps that write the outcome of a job, only the handoff finds the job
\* finished already; the others lease it, hold its lease or repair a live job.
LEMMA OutcomeStep ==
    ASSUME Typed, FreshIsLive, [Next]_vars,
           NEW j \in Jobs, jstatus[j] \in Terminal, joutcome'[j] # joutcome[j]
    PROVE  \E w \in Workers : FinishHandoff(w) /\ MsgJob(w) = j
  <1> USE DEF Live, Pending, Terminal
  <1>0. joutcome \in [Jobs -> Outcomes] BY Zenon DEF Typed, JobTypes
  <1>1. joutcome' # joutcome OBVIOUS
  <1>2. ASSUME NEW k, NEW o, joutcome' = [joutcome EXCEPT ![k] = o] PROVE k = j
    BY <1>0, <1>2, Zenon
  <1>3. ASSUME NEW k \in Jobs, RepairDead(k) PROVE FALSE
    BY <1>2, <1>3, Zenon DEF RepairDead, CanRepair, FreshIsLive
  <1>4. ASSUME NEW w \in Workers, AcceptExhausted(w) PROVE FALSE
    BY <1>2, <1>4, Zenon DEF AcceptExhausted
  <1>5. ASSUME NEW w \in Workers, NEW o, WorkerFinalize(w, o) PROVE FALSE
    BY <1>2, <1>5, Zenon DEF WorkerFinalize, HoldsFence
  <1>6. ASSUME NEW w \in Workers, WorkerAbort(w) PROVE FALSE
    BY <1>2, <1>6, Zenon DEF WorkerAbort, HoldsFence
  <1>7. ASSUME NEW w \in Workers, FinishFailed(w) PROVE FALSE
    BY <1>2, <1>7, Zenon DEF FinishFailed, HoldsFence
  <1>8. ASSUME NEW w \in Workers, NEW o, FinishTerminal(w, o) PROVE FALSE
    BY <1>2, <1>8, Zenon DEF FinishTerminal, HoldsFence
  <1>9. ASSUME NEW w \in Workers, FinishHandoff(w) PROVE MsgJob(w) = j
    BY <1>2, <1>9, Zenon DEF FinishHandoff
  <1>10. ASSUME NEW k \in Jobs,
                \/ AcceptMessage(k) \/ PrepareTerminal(k) \/ RepairHeld(k)
                \/ RepairReused(k) \/ RepairRedelivered(k) \/ LeaseExpires(k)
                \/ BackoffElapses(k) \/ JobAges(k)
         PROVE  FALSE
    BY <1>1, <1>10, Zenon DEF AcceptMessage, PrepareTerminal, RepairHeld,
       RepairReused, RepairRedelivered, LeaseExpires, BackoffElapses, JobAges
  <1>11. ASSUME NEW w \in Workers, AcceptClaimed(w) PROVE FALSE
    BY <1>1, <1>11, Zenon DEF AcceptClaimed
  <1>12. ASSUME NEW t \in Tickets, TransitionConversation(t) PROVE FALSE
    BY <1>1, <1>12, Zenon DEF TransitionConversation, jobVars
  <1>13. ~UNCHANGED jobState
    BY <1>1, Zenon DEF jobState, jobVars
  <1>14. QED
    BY <1>3, <1>4, <1>5, <1>6, <1>7, <1>8, <1>9, <1>10, <1>11, <1>12, <1>13,
       JobFrame, ZenonT(30) DEF JobStep

\* The rewrite of a finished job's outcome, as FinishedIsFinal allows it.
Normalizes(j, w) ==
    /\ joutcome'[j] = Canonical(joutcome[j])
    /\ wpc[w] = "finalized" /\ MsgJob(w) = j
    /\ wfence[w] = jfence[j] /\ wpc'[w] = "acking"

LEMMA HandoffNormalizes ==
    ASSUME Typed, NEW w \in Workers, NEW j \in Jobs,
           FinishHandoff(w), MsgJob(w) = j, joutcome'[j] # joutcome[j]
    PROVE  Normalizes(j, w)
  <1>0. /\ joutcome \in [Jobs -> Outcomes]
        /\ wpc \in [Workers -> {"idle", "delivered", "working", "finalized",
                                "acking"}]
    BY Zenon DEF Typed, JobTypes, ProcessTypes
  <1>1. /\ jstatus[j] = "succeeded" => joutcome'[j] = Canonical(joutcome[j])
        /\ jstatus[j] # "succeeded" => joutcome'[j] = joutcome[j]
    BY <1>0, Zenon DEF FinishHandoff
  <1>2. wpc[w] = "finalized" /\ wfence[w] = jfence[j]
    <2>1. jstatus[j] = "succeeded" /\ jstatus[j] # "dead"
      BY <1>1, Zenon
    <2>2. /\ \/ wpc[w] = "finalized"
             \/ jstatus[j] = "dead"
          /\ jfence[j] = wfence[w]
      BY Zenon DEF FinishHandoff
    <2>3. QED BY <2>1, <2>2, Zenon
  <1>3. wpc'[w] = "acking"
    BY <1>0, Zenon DEF FinishHandoff, GoAcking
  <1>4. QED BY <1>1, <1>2, <1>3, Zenon DEF Normalizes

\* What FinishedIsFinal asks of a step.
StaysFinished ==
    \A j \in Jobs : jstatus[j] \in Terminal =>
        /\ jstatus'[j] = jstatus[j]
        /\ jfence'[j] = jfence[j] /\ ractive'[j] = 0
        /\ joutcome'[j] # joutcome[j] => \E w \in Workers : Normalizes(j, w)

\* No late worker, redelivery or repair reopens a finished job, moves its fence
\* or gives it another result: the only write of its outcome is the handoff of
\* the worker that finished it, which normalizes what its finalizer stored.
THEOREM FinishedStays == Spec => FinishedIsFinal
  <1>1. QueueInv /\ QueueInv' /\ [Next]_vars => StaysFinished
    <2> SUFFICES ASSUME QueueInv, QueueInv', [Next]_vars PROVE StaysFinished
      OBVIOUS
    <2>1. Typed /\ FreshIsLive /\ Numbered /\ ActivePointerConsistent
      BY Zenon DEF QueueInv, LaneInv, TypeOK, Typed
    <2>2. JobTypes /\ [Lane!LaneNext]_(Lane!laneVars)
      BY <2>1, RefinesStep DEF Typed
    <2>3. ASSUME NEW j \in Jobs, jstatus[j] \in Terminal
          PROVE  jstatus'[j] = jstatus[j] /\ jfence'[j] = jfence[j]
      <3> USE <2>2, <2>3 DEF JobTypes, Terminal, Lane!LanePending
      <3> DEFINE Same == jstatus'[j] = jstatus[j] /\ jfence'[j] = jfence[j]
      <3>1. ASSUME NEW k \in Jobs, Lane!Enqueue(k) PROVE Same
        BY <3>1, SMTT(30) DEF Lane!Enqueue
      <3>2. ASSUME NEW k \in Jobs, NEW w \in Workers, Lane!Attempt(k, w)
            PROVE  Same
        BY <3>2, SMTT(30) DEF Lane!Attempt
      <3>3. ASSUME NEW k \in Jobs,
                   \/ Lane!GiveBack(k) \/ Lane!Conclude(k) \/ Lane!Abort(k)
                   \/ Lane!DeadLetter(k)
            PROVE  Same
        BY <3>3, SMTT(30) DEF Lane!GiveBack, Lane!Conclude, Lane!Abort,
           Lane!DeadLetter
      <3>4. CASE UNCHANGED Lane!laneVars
        BY <3>4, Zenon DEF Lane!laneVars
      <3>5. QED BY <2>2, <3>1, <3>2, <3>3, <3>4, ZenonT(30) DEF Lane!LaneNext
    <2>4. ASSUME NEW j \in Jobs, jstatus[j] \in Terminal PROVE ractive'[j] = 0
      <3>1. jstatus'[j] # "leased" BY <2>3, <2>4 DEF Terminal
      <3>2. ActivePointerConsistent' BY DEF QueueInv, LaneInv
      <3>3. QED BY <3>1, <3>2, ZenonT(30) DEF ActivePointerConsistent
    <2>5. ASSUME NEW j \in Jobs, jstatus[j] \in Terminal, joutcome'[j] # joutcome[j]
          PROVE  \E w \in Workers : Normalizes(j, w)
      BY <2>1, <2>5, OutcomeStep, HandoffNormalizes, Zenon
    <2>6. QED BY <2>3, <2>4, <2>5, Zenon DEF StaysFinished
  <1>2. StaysFinished =>
          \A j \in Jobs : jstatus[j] \in Terminal =>
            /\ jstatus'[j] = jstatus[j]
            /\ jfence'[j] = jfence[j] /\ ractive'[j] = 0
            /\ joutcome'[j] # joutcome[j] =>
                  /\ joutcome'[j] = Canonical(joutcome[j])
                  /\ \E w \in Workers : /\ wpc[w] = "finalized" /\ MsgJob(w) = j
                                         /\ wfence[w] = jfence[j]
                                         /\ wpc'[w] = "acking"
    BY Zenon DEF StaysFinished, Normalizes
  <1>3. QED
    BY <1>1, <1>2, QueueInvariant, PTL DEF Spec, FinishedIsFinal

=============================================================================
