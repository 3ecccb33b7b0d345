---------------------------- MODULE OutboxProofs ----------------------------
(***************************************************************************)
(* Proofs about Outbox for every value of its constants.                   *)
(***************************************************************************)
EXTENDS OutboxInvariant, TLAPS

USE OutboxAssumption

----------------------------------------------------------------------------
\* The helpers keep the types of what they build.

\* The initial values and a fresh send have their types.
LEMMA InitialValues ==
  /\ NoOp \in Op /\ Empty \in [Ids -> Op] /\ Idle \in Attempt
  /\ NoJob \in Job /\ Status \in Job /\ NotRecovering \in Recovering
  /\ \A k \in Keys \cup {NoKey}, g \in BOOLEAN : Fresh(k, g) \in Op
BY DEF NoOp, Op, Empty, Idle, Attempt, NoJob, Status, Job, JobOf, NotRecovering,
       Recovering, Fresh, Deliveries

\* What is saved of an intent is a record of the snapshot.
LEMMA IntentJob ==
  \A i \in Ids : /\ JobOf("attempt", i, NoId, NoKey) \in Job
                 /\ JobOf("dismiss", i, NoId, NoKey) \in Job
                 /\ JobOf("acknowledge", i, NoId, NoKey) \in Job
BY DEF Job, JobOf

\* An eviction from the confirmed cache leaves a snapshot.
LEMMA TrimType ==
  ASSUME NEW o \in [Ids -> Op], NEW p \in Trim(o)
  PROVE  p \in [Ids -> Op]
BY InitialValues DEF Trim

\* A status save is appended, or is one with the save before it.
LEMMA PushStatusType ==
  ASSUME NEW q \in Seq(Job)
  PROVE  PushStatus(q) \in Seq(Job)
BY InitialValues DEF PushStatus

\* Starting a delivery keeps attempts and jobs well formed.
LEMMA LaunchType ==
  ASSUME NEW att \in [Ids -> Attempt], NEW q \in Seq(Job), NEW C \in SUBSET Ids,
         Launch(att, q, C)
  PROVE  attempts' \in [Ids -> Attempt] /\ jobs' \in Seq(Job)
<1>1. ASSUME NEW i \in Ids
      PROVE  Started(att, i) \in [Ids -> Attempt] /\ StartJobs(att, i, q) \in Seq(Job)
  <2>1. [stage |-> "intent", prev |-> att[i].prev,
         wait |-> IF att[i].wait = "none" THEN "pending" ELSE att[i].wait] \in Attempt
    BY DEF Attempt
  <2>2. StartJobs(att, i, q) \in Seq(Job)
    BY IntentJob DEF StartJobs
  <2> QED BY <2>1, <2>2 DEF Started
<1>2. CASE closed \/ Full(att) \/ C = {}
  BY <1>2 DEF Launch
<1>3. CASE ~(closed \/ Full(att) \/ C = {})
  BY <1>1, <1>3 DEF Launch
<1> QED BY <1>2, <1>3

\* So does passing a freed slot on.
LEMMA PumpType ==
  ASSUME NEW att \in [Ids -> Attempt], NEW q \in Seq(Job), NEW o, Pump(att, q, o)
  PROVE  attempts' \in [Ids -> Attempt] /\ jobs' \in Seq(Job)
<1> DEFINE waiters == {i \in Ids : att[i].stage = "slot"}
           C == {i \in PendingIn(o) : att[i].stage = "queued" /\ o[i].delivery = "sending"}
<1>1. CASE waiters # {} /\ ~closed /\ ~Full(att)
  <2>1. PICK i \in Ids : attempts' = [att EXCEPT ![i].stage = "prepare"] /\ jobs' = q
    BY <1>1 DEF Pump
  <2>2. [att[i] EXCEPT !.stage = "prepare"] \in Attempt
    BY DEF Attempt
  <2> QED BY <2>1, <2>2
<1>2. CASE ~(waiters # {} /\ ~closed /\ ~Full(att))
  <2>1. Launch(att, q, C)
    BY <1>2 DEF Pump
  <2>2. C \in SUBSET Ids
    BY DEF PendingIn
  <2> QED BY <2>1, <2>2, LaunchType
<1> QED BY <1>1, <1>2

\* So does queueing an attempt.
LEMMA ScheduleType ==
  ASSUME attempts \in [Ids -> Attempt], NEW q \in Seq(Job), NEW i \in Ids,
         NEW prev \in Deliveries, NEW wait \in {"none", "pending", "done", "failed"},
         Schedule(i, prev, wait, q)
  PROVE  attempts' \in [Ids -> Attempt] /\ jobs' \in Seq(Job)
<1> DEFINE att == [attempts EXCEPT ![i] = [stage |-> "queued", prev |-> prev, wait |-> wait]]
<1>1. att \in [Ids -> Attempt]
  BY DEF Attempt
<1>2. Launch(att, q, {i})
  BY DEF Schedule
<1>3. {i} \in SUBSET Ids
  OBVIOUS
<1> HIDE DEF att
<1> QED BY <1>1, <1>2, <1>3, LaunchType

\* An attempt that is told of its save keeps its type.
LEMMA ToldType ==
  ASSUME attempts \in [Ids -> Attempt], NEW i \in Ids,
         NEW result \in {"done", "failed"}, NEW q
  PROVE  Told(i, result, q) \in [Ids -> Attempt]
<1>1. [attempts[i] EXCEPT !.wait = result] \in Attempt
  BY DEF Attempt
<1> QED BY <1>1 DEF Told

\* The statuses of failed and interrupted deliveries are statuses.
LEMMA DeliveryType ==
  ASSUME attempts \in [Ids -> Attempt], ops \in [Ids -> Op], NEW i \in Ids
  PROVE  /\ FailedDelivery(attempts[i].prev) \in Deliveries
         /\ \A u \in BOOLEAN : CaughtDelivery(i, u) \in Deliveries
BY DEF FailedDelivery, CaughtDelivery, Attempt, Deliveries

\* The end of an attempt keeps what it writes well formed.
LEMMA FinishType ==
  ASSUME TypeOK, NEW i \in Ids, NEW d \in Deliveries, Finish(i, d)
  PROVE  /\ ops' \in [Ids -> Op]
         /\ attempts' \in [Ids -> Attempt] /\ jobs' \in Seq(Job)
         /\ gates' \in [Ids -> {"none", "open", "shut"}]
         /\ receipts' \in [Ids -> Nat]
<1> DEFINE updated == [ops[i] EXCEPT !.delivery = d]
           done == Settled(i, updated)
           result == [ops EXCEPT ![i] = IF done THEN [updated EXCEPT !.place = "confirmed"]
                                                ELSE updated]
           idle == [attempts EXCEPT ![i] = Idle]
<1>1. result \in [Ids -> Op]
  <2>1. ops \in [Ids -> Op] /\ ops[i] \in Op
    BY DEF TypeOK
  <2>2. updated \in Op /\ [updated EXCEPT !.place = "confirmed"] \in Op
    BY <2>1 DEF Op
  <2> QED BY <2>1, <2>2
<1>2. ops' \in (IF done THEN Trim(result) ELSE {result})
  BY DEF Finish
<1>3. ops' \in [Ids -> Op]
  BY <1>1, <1>2, TrimType
<1>4. Pump(idle, PushStatus(jobs), result)
  BY DEF Finish
<1>5. idle \in [Ids -> Attempt] /\ PushStatus(jobs) \in Seq(Job)
  BY InitialValues, PushStatusType DEF TypeOK
<1>6. attempts' \in [Ids -> Attempt] /\ jobs' \in Seq(Job)
  BY <1>4, <1>5, PumpType
<1>7. gates' \in [Ids -> {"none", "open", "shut"}] /\ receipts' \in [Ids -> Nat]
  BY DEF Finish, TypeOK
<1> QED BY <1>3, <1>6, <1>7

\* What is restored, written or released is a snapshot.
LEMMA RestoredType ==
  ASSUME NEW r \in Op, NEW i \in Ids
  PROVE  Restored(i, r) \in Op
<1>1. Decoded(r) \in Op
  BY DEF Decoded, Op, Deliveries
<1>2. /\ [Decoded(r) EXCEPT !.place = "pending"] \in Op
      /\ [Decoded(r) EXCEPT !.place = "confirmed"] \in Op
  BY <1>1 DEF Op
<1> QED BY <1>2, InitialValues DEF Restored

\* A cleared receipt is a record.
LEMMA AcknowledgedType ==
  ASSUME NEW o \in [Ids -> Op], NEW i \in Ids
  PROVE  Acknowledged(o, i) \in [Ids -> Op]
<1>1. [o[i] EXCEPT !.key = NoKey, !.acked = TRUE] \in Op
  BY DEF Op
<1> QED BY <1>1 DEF Acknowledged

\* What a save captures is a snapshot.
LEMMA CaptureType ==
  ASSUME ops \in [Ids -> Op], NEW job \in Job
  PROVE  Capture(job) \in [Ids -> Op]
<1> DEFINE cleared == Acknowledged(ops, job.id)
<1>1. CASE job.kind = "dismiss"
  BY <1>1, InitialValues DEF Capture, Job
<1>2. CASE job.kind = "acknowledge"
  BY <1>2, AcknowledgedType DEF Capture, Job
<1>3. CASE job.kind = "retire"
  <2>1. job.id \in Ids /\ job.next \in Ids \cup {NoId} /\ job.key \in Keys \cup {NoKey}
    BY <1>3 DEF Job
  <2>2. cleared \in [Ids -> Op]
    BY <2>1, AcknowledgedType
  <2>3. Fresh(job.key, FALSE) \in Op
    BY <2>1, InitialValues
  <2>4. Capture(job) = IF job.next = NoId THEN cleared
                       ELSE [cleared EXCEPT ![job.next] = Fresh(job.key, FALSE)]
    BY <1>3 DEF Capture
  <2> QED BY <2>2, <2>3, <2>4
<1>4. CASE job.kind \in {"none", "status", "attempt", "recover"}
  BY <1>4 DEF Capture
<1> QED BY <1>1, <1>2, <1>3, <1>4 DEF Job

\* What a saved acknowledgement leaves is a snapshot.
LEMMA ReleasedType ==
  ASSUME NEW o \in [Ids -> Op], NEW i \in Ids, NEW p \in Released(o, i)
  PROVE  p \in [Ids -> Op]
<1>1. Acknowledged(o, i) \in [Ids -> Op]
  BY AcknowledgedType
<1>2. [Acknowledged(o, i)[i] EXCEPT !.place = "confirmed"] \in Op
  BY <1>1 DEF Op
<1>3. [Acknowledged(o, i) EXCEPT ![i].place = "confirmed"] \in [Ids -> Op]
  BY <1>1, <1>2
<1> QED BY <1>1, <1>3, TrimType DEF Released

\* A failed save leaves what it tells well formed.
LEMMA FailJobType ==
  ASSUME TypeOK, NEW job \in Job, NEW q, FailJob(job, q)
  PROVE  /\ attempts' \in [Ids -> Attempt] /\ work' \subseteq Ids /\ locks' \subseteq Ids
         /\ dismissing' \in [Ids -> {"none", "lock", "verify", "save"}]
         /\ recovering' \in [Ids -> Recovering]
<1>1. job.kind = "attempt" => job.id \in Ids
  BY DEF Job
<1>2. attempts' \in [Ids -> Attempt]
  BY <1>1, ToldType DEF FailJob, TypeOK
<1>3. work' \subseteq Ids /\ locks' \subseteq Ids
  BY DEF FailJob, TypeOK
<1>4. dismissing' \in [Ids -> {"none", "lock", "verify", "save"}]
  BY DEF FailJob, TypeOK
<1>5. recovering' \in [Ids -> Recovering]
  BY InitialValues DEF FailJob, TypeOK
<1> QED BY <1>2, <1>3, <1>4, <1>5

----------------------------------------------------------------------------
\* Type correctness, one lemma per group of actions.

\* Hydration keeps the types.
LEMMA HydrateType ==
  ASSUME TypeOK, Hydrate
  PROVE  TypeOK'
<1> DEFINE pending == {i \in Ids : Has(disk, i) /\ Outstanding(i, Decoded(disk[i]))}
           merged == [i \in Ids |-> IF Has(disk, i) THEN Restored(i, disk[i]) ELSE ops[i]]
<1>1. merged \in [Ids -> Op]
  BY RestoredType DEF TypeOK
<1>2. CASE Cardinality(pending) > MaxPending
  BY <1>2 DEF TypeOK, Hydrate, history
<1>3. CASE ~(Cardinality(pending) > MaxPending)
  <2>1. journal' = "open" /\ restored' = pending /\ ops' \in Trim(merged)
    BY <1>3 DEF Hydrate
  <2>2. ops' \in [Ids -> Op] /\ restored' \subseteq Ids
    BY <1>1, <2>1, TrimType
  <2> QED BY <2>1, <2>2 DEF TypeOK, Hydrate, history
<1> QED BY <1>2, <1>3

\* Saves keep the types.
LEMMA SaveType ==
  ASSUME TypeOK,
         \/ HydrateFails \/ SaveStarts \/ StatusSaved \/ AttemptSaved \/ DismissSaved
         \/ AcknowledgeSaved \/ RetireSaved \/ RecoverSaved \/ SaveFails \/ SaveRefused
  PROVE  TypeOK'
<1>1. CASE HydrateFails
  BY <1>1 DEF TypeOK, HydrateFails, history
<1>2. CASE SaveStarts
  <2>1. Head(jobs) \in Job /\ Tail(jobs) \in Seq(Job)
    BY <1>2 DEF TypeOK, SaveStarts
  <2>2. Capture(Head(jobs)) \in [Ids -> Op]
    BY <2>1, CaptureType DEF TypeOK
  <2> QED BY <1>2, <2>1, <2>2 DEF TypeOK, SaveStarts, history
<1>3. CASE StatusSaved
  BY <1>3, InitialValues DEF TypeOK, StatusSaved, Written, history
<1>4. CASE AttemptSaved
  <2>1. saving.id \in Ids
    BY <1>4 DEF TypeOK, AttemptSaved, Job
  <2>2. attempts' \in [Ids -> Attempt]
    BY <1>4, <2>1, ToldType DEF TypeOK, AttemptSaved
  <2> QED BY <1>4, <2>2, InitialValues DEF TypeOK, AttemptSaved, Written, history
<1>5. CASE DismissSaved
  <2>1. saving.id \in Ids
    BY <1>5 DEF TypeOK, DismissSaved, Job
  <2> QED BY <1>5, <2>1, InitialValues DEF TypeOK, DismissSaved, Written
<1>6. CASE AcknowledgeSaved
  <2>1. saving.id \in Ids
    BY <1>6 DEF TypeOK, AcknowledgeSaved, Job
  <2>2. ops' \in [Ids -> Op]
    BY <1>6, <2>1, ReleasedType DEF TypeOK, AcknowledgeSaved
  <2> QED BY <1>6, <2>2, InitialValues DEF TypeOK, AcknowledgeSaved, Written, history
<1>7. CASE RetireSaved
  <2>1. saving.id \in Ids /\ saving.next \in Ids \cup {NoId}
        /\ saving.key \in Keys \cup {NoKey}
    BY <1>7 DEF TypeOK, RetireSaved, Job
  <2>2. ops' \in [Ids -> Op] /\ attempts' \in [Ids -> Attempt] /\ jobs' \in Seq(Job)
    <3>1. CASE saving.next = NoId
      BY <1>7, <2>1, <3>1, ReleasedType DEF TypeOK, RetireSaved
    <3>2. CASE saving.next \in Ids
      <4> DEFINE joined == [ops EXCEPT ![saving.next] = Fresh(saving.key, FALSE)]
      <4>1. joined \in [Ids -> Op]
        BY <2>1, <3>2, InitialValues DEF TypeOK
      <4>2. /\ ops' \in Released(joined, saving.id)
            /\ \/ UNCHANGED <<attempts, jobs>>
               \/ Schedule(saving.next, "failed", "none", jobs)
        BY <1>7, <3>2 DEF RetireSaved
      <4> HIDE DEF joined
      <4>3. ops' \in [Ids -> Op]
        BY <2>1, <4>1, <4>2, ReleasedType
      <4>4. attempts' \in [Ids -> Attempt] /\ jobs' \in Seq(Job)
        BY <3>2, <4>2, ScheduleType DEF TypeOK, Deliveries
      <4> QED BY <4>3, <4>4
    <3> QED BY <2>1, <3>1, <3>2
  <2> QED BY <1>7, <2>2, InitialValues DEF TypeOK, RetireSaved, Written, history
<1>8. CASE RecoverSaved
  <2>1. saving.id \in Ids /\ saving.key \in Keys
    BY <1>8 DEF TypeOK, RecoverSaved, Job
  <2>2. consumed' \subseteq Ids \X Keys
    BY <1>8, <2>1 DEF TypeOK, RecoverSaved
  <2>3. recovering' \in [Ids -> Recovering] /\ locks' \subseteq Ids
    BY <1>8, InitialValues DEF TypeOK, RecoverSaved
  <2> QED BY <1>8, <2>2, <2>3, InitialValues DEF TypeOK, RecoverSaved, Written
<1>9. CASE SaveFails
  <2>1. FailJob(saving, jobs) /\ saving \in Job
    BY <1>9 DEF TypeOK, SaveFails
  <2> QED BY <1>9, <2>1, FailJobType, InitialValues DEF TypeOK, SaveFails, history
<1>10. CASE SaveRefused
  <2>1. FailJob(Head(jobs), Tail(jobs)) /\ Head(jobs) \in Job /\ Tail(jobs) \in Seq(Job)
    BY <1>10 DEF TypeOK, SaveRefused
  <2> QED BY <1>10, <2>1, FailJobType DEF TypeOK, SaveRefused, history
<1> QED BY <1>1, <1>2, <1>3, <1>4, <1>5, <1>6, <1>7, <1>8, <1>9, <1>10

\* Sends, retries and withdrawals keep the types.
LEMMA ComposeType ==
  ASSUME TypeOK, Compose
  PROVE  TypeOK'
<1>1. ASSUME NEW i \in Ids, NEW k \in Keys \cup {NoKey}, NEW g \in BOOLEAN, Send(i, k, g)
      PROVE  TypeOK'
  <2>1. ops' \in [Ids -> Op]
    BY <1>1, InitialValues DEF TypeOK, Send
  <2>2. Append(jobs, JobOf("attempt", i, NoId, NoKey)) \in Seq(Job)
    BY IntentJob DEF TypeOK
  <2>3. attempts' \in [Ids -> Attempt] /\ jobs' \in Seq(Job)
    BY <1>1, <2>2, ScheduleType DEF TypeOK, Send, Deliveries
  <2> QED BY <1>1, <2>1, <2>3 DEF TypeOK, Send
<1>2. ASSUME NEW i \in Ids, NEW renewed \in BOOLEAN, Retry(i, renewed)
      PROVE  TypeOK'
  <2>1. ops \in [Ids -> Op] /\ ops[i] \in Op
    BY DEF TypeOK
  <2>2. [ops[i] EXCEPT !.delivery = "sending", !.guarded = @ \/ renewed] \in Op
    BY <2>1 DEF Op, Deliveries
  <2>3. ops' \in [Ids -> Op]
    BY <1>2, <2>1, <2>2 DEF Retry
  <2>4. ops[i].delivery \in Deliveries
    BY <2>1 DEF Op
  <2>5. attempts' \in [Ids -> Attempt] /\ jobs' \in Seq(Job)
    BY <1>2, <2>4, ScheduleType DEF TypeOK, Retry
  <2> QED BY <1>2, <2>3, <2>5 DEF TypeOK, Retry, history
<1>3. CASE Withdraw
  BY <1>3 DEF TypeOK, Withdraw, history
<1> QED BY <1>1, <1>2, <1>3 DEF Compose, SendPlain, SendGuarded, RetryPlain, RetryRenewed

\* The end of an attempt, with whatever it does to work and mayHold, keeps the types.
LEMMA FinishKeepsType ==
  ASSUME TypeOK, NEW i \in Ids, NEW d \in Deliveries, Finish(i, d),
         UNCHANGED <<restored, closed, journalState, quietHistory>>,
         work' \subseteq Ids, mayHold' \subseteq Ids
  PROVE  TypeOK'
BY FinishType DEF TypeOK, journalState, quietHistory

\* The stages of an attempt keep the types.
LEMMA DeliverType ==
  ASSUME TypeOK, NEW i \in Ids, Deliver(i)
  PROVE  TypeOK'
<1> USE DEF history, journalState, quietHistory
<1>0. /\ ops \in [Ids -> Op] /\ ops[i] \in Op /\ attempts \in [Ids -> Attempt]
      /\ attempts[i] \in Attempt /\ jobs \in Seq(Job)
      /\ work \subseteq Ids /\ mayHold \subseteq Ids
  BY DEF TypeOK
<1>1. ASSUME NEW stage \in {"prepare", "slot", "publish", "hold", "sign", "save"},
             NEW wait \in {"none", "pending"}
      PROVE  /\ [attempts[i] EXCEPT !.stage = stage, !.wait = wait] \in Attempt
             /\ [attempts[i] EXCEPT !.stage = stage] \in Attempt
  BY <1>0 DEF Attempt
<1>2. CASE IntentSaved(i)
  <2>1. attempts' \in [Ids -> Attempt]
    BY <1>0, <1>1, <1>2 DEF IntentSaved
  <2>2. jobs' \in Seq(Job)
    <3>1. jobs' = jobs \/ jobs' = Append(jobs, JobOf("attempt", i, NoId, NoKey))
      BY <1>2 DEF IntentSaved
    <3> QED BY <1>0, <3>1, IntentJob
  <2> QED BY <1>2, <2>1, <2>2 DEF TypeOK, IntentSaved
<1>3. CASE Signed(i)
  <2>1. [ops[i] EXCEPT !.signed = TRUE] \in Op
    BY <1>0 DEF Op
  <2> QED BY <1>0, <1>1, <1>3, <2>1, IntentJob DEF TypeOK, Signed
<1>4. CASE SignatureSaved(i)
  <2>1. /\ [attempts EXCEPT ![i].stage = "prepare", ![i].wait = "none"] \in [Ids -> Attempt]
        /\ [attempts EXCEPT ![i].stage = "hold", ![i].wait = "none"] \in [Ids -> Attempt]
    BY <1>0, <1>1
  <2>2. attempts' \in [Ids -> Attempt] /\ jobs' \in Seq(Job)
    BY <1>0, <1>4, <2>1, PumpType DEF SignatureSaved
  <2> QED BY <1>4, <2>2 DEF TypeOK, SignatureSaved
<1>5. CASE HoldEnds(i)
  BY <1>0, <1>1, <1>5 DEF TypeOK, HoldEnds
<1>6. CASE PublishStarts(i)
  BY <1>0, <1>1, <1>6 DEF TypeOK, PublishStarts
<1>7. CASE PublishAccepted(i)
  BY <1>0, <1>7, FinishKeepsType DEF PublishAccepted, Deliveries
<1>8. CASE PublishRejected(i) \/ PublishLost(i) \/ FailsUnpublished(i) \/ ExpiresActive(i)
  BY <1>0, <1>8, FinishKeepsType, DeliveryType
     DEF PublishRejected, PublishLost, FailsUnpublished, ExpiresActive
<1>9. CASE ExpiresQueued(i)
  <2>1. FailedDelivery(attempts[i].prev) \in Deliveries
    BY <1>0, DeliveryType
  <2>2. [ops[i] EXCEPT !.delivery = FailedDelivery(attempts[i].prev)] \in Op
    BY <1>0, <2>1 DEF Op
  <2>3. ops' \in [Ids -> Op]
    BY <1>0, <1>9, <2>2 DEF ExpiresQueued
  <2> QED BY <1>9, <2>3, InitialValues, PushStatusType DEF TypeOK, ExpiresQueued
<1>10. CASE Observe(i)
  <2> DEFINE stays == i \in Workflows /\ Active(i)
             seen == [ops[i] EXCEPT !.signed = TRUE, !.delivery = "seen"]
             kept == stays \/ ops[i].key # NoKey
             result == [ops EXCEPT ![i] = IF kept THEN seen
                                          ELSE [seen EXCEPT !.place = "confirmed"]]
             idle == [attempts EXCEPT ![i] = Idle]
  <2>1. seen \in Op /\ [seen EXCEPT !.place = "confirmed"] \in Op
    BY <1>0 DEF Op, Deliveries
  <2>2. result \in [Ids -> Op] /\ idle \in [Ids -> Attempt]
        /\ PushStatus(jobs) \in Seq(Job)
    BY <1>0, <2>1, InitialValues, PushStatusType
  <2>3. /\ ops' \in (IF kept THEN {result} ELSE Trim(result))
        /\ \/ Pump(idle, PushStatus(jobs), result)
           \/ attempts' \in {attempts, idle} /\ jobs' = PushStatus(jobs)
        /\ gates' \in {gates, [gates EXCEPT ![i] = "none"]}
        /\ work' = work \ {i} /\ mayHold' = mayHold \cup {i}
        /\ UNCHANGED <<restored, closed, journalState, receipts, quietHistory>>
    BY <1>10 DEF Observe
  <2> HIDE DEF kept, seen, result, idle
  <2>4. ops' \in [Ids -> Op]
    BY <2>2, <2>3, TrimType
  <2>5. attempts' \in [Ids -> Attempt] /\ jobs' \in Seq(Job)
    BY <1>0, <2>2, <2>3, PumpType
  <2>6. gates' \in [Ids -> {"none", "open", "shut"}]
    BY <2>3 DEF TypeOK
  <2> QED BY <2>3, <2>4, <2>5, <2>6 DEF TypeOK
<1> QED BY <1>2, <1>3, <1>4, <1>5, <1>6, <1>7, <1>8, <1>9, <1>10 DEF Deliver

\* The calls that resolve a receipt keep the types.
LEMMA ResolveType ==
  ASSUME TypeOK, NEW i \in Ids, Resolve(i)
  PROVE  TypeOK'
<1> USE DEF history, journalState
<1>0. /\ ops \in [Ids -> Op] /\ ops[i] \in Op /\ disk[i] \in Op /\ jobs \in Seq(Job)
      /\ ops[i].key \in Keys \cup {NoKey} /\ recovering \in [Ids -> Recovering]
      /\ recovering[i] \in Recovering
  BY DEF TypeOK, Op
<1>1. CASE Acknowledge(i)
  BY <1>1, IntentJob DEF TypeOK, Acknowledge
<1>2. CASE RetireStarts(i) \/ RetireGivenUp(i) \/ Dismiss(i)
  BY <1>2 DEF TypeOK, RetireStarts, RetireGivenUp, Dismiss
<1>3. CASE RetireVerified(i)
  <2>1. \A n \in Invites \cup {NoId}, k \in Keys \cup {NoKey} : JobOf("retire", i, n, k) \in Job
    BY DEF Job, JobOf
  <2>2. jobs' \in Seq(Job)
    BY <1>0, <1>3, <2>1 DEF RetireVerified
  <2>3. work' \subseteq Ids /\ used' \subseteq Ids
    BY <1>3 DEF TypeOK, RetireVerified
  <2>4. dismissing' \in [Ids -> {"none", "lock", "verify", "save"}]
    BY <1>3 DEF TypeOK, RetireVerified
  <2> QED BY <1>3, <2>2, <2>3, <2>4 DEF TypeOK, RetireVerified
<1>4. CASE DismissLocked(i)
  BY <1>4, IntentJob DEF TypeOK, DismissLocked
<1>5. ASSUME NEW k \in Keys, RecoverCalled(i, k)
      PROVE  TypeOK'
  <2>1. [NotRecovering EXCEPT !.stage = "lock", !.key = k] \in Recovering
    BY InitialValues DEF NotRecovering, Recovering
  <2> QED BY <1>5, <2>1 DEF TypeOK, RecoverCalled
<1>6. CASE RecoverLocked(i)
  <2>1. [recovering[i] EXCEPT !.stage = "load", !.item = ops[i]] \in Recovering
    BY <1>0, <1>6 DEF RecoverLocked, Recovering
  <2>2. recovering' \in [Ids -> Recovering]
    BY <1>0, <1>6, <2>1, InitialValues DEF RecoverLocked
  <2> QED BY <1>6, <2>2 DEF TypeOK, RecoverLocked
<1>7. CASE RecoverLoaded(i)
  <2> DEFINE item == IF Has(disk, i) /\ i \in restored THEN disk[i] ELSE recovering[i].item
             k == recovering[i].key
  <2>1. recovering[i].stage = "load" /\ k \in Keys /\ recovering[i].item \in Op
    BY <1>0, <1>7 DEF RecoverLoaded, Recovering
  <2>2. /\ [recovering[i] EXCEPT !.stage = "save", !.item = NoOp] \in Recovering
        /\ JobOf("recover", i, NoId, k) \in Job
        /\ [item EXCEPT !.place = "pending", !.key = k] \in Op
    BY <1>0, <2>1, InitialValues DEF Recovering, Op, Job, JobOf
  <2>3. /\ \/ ops' = ops /\ jobs' = jobs /\ restored' = restored
           \/ /\ ops' = [ops EXCEPT ![i] = [item EXCEPT !.place = "pending", !.key = k]]
              /\ jobs' = Append(jobs, JobOf("recover", i, NoId, k))
              /\ restored' \in {restored, restored \ {i}}
        /\ \/ recovering' = [recovering EXCEPT ![i] = NotRecovering]
           \/ recovering' = [recovering EXCEPT ![i].stage = "save", ![i].item = NoOp]
        /\ locks' \in {locks, locks \ {i}}
        /\ consumed' \in {consumed, consumed \cup {<<i, k>>}}
        /\ UNCHANGED <<attempts, gates, work, saving, captured, journal, closed, purged,
                       dismissing, disk, used, mayHold, receipts, dismissed, policed>>
    BY <1>7 DEF RecoverLoaded
  <2> HIDE DEF item, k
  <2>4. ops' \in [Ids -> Op]
    BY <1>0, <2>2, <2>3
  <2>7. jobs' \in Seq(Job)
    <3>1. jobs' = jobs \/ jobs' = Append(jobs, JobOf("recover", i, NoId, k))
      BY <2>3
    <3> QED BY <1>0, <2>2, <3>1
  <2>8. restored' \subseteq Ids
    BY <2>3 DEF TypeOK
  <2>5. recovering' \in [Ids -> Recovering]
    BY <1>0, <2>2, <2>3, InitialValues
  <2>6. locks' \subseteq Ids /\ consumed' \subseteq Ids \X Keys
    BY <2>1, <2>3 DEF TypeOK
  <2> QED BY <2>3, <2>4, <2>5, <2>6, <2>7, <2>8 DEF TypeOK
<1>8. CASE RecoverLoadFails(i)
  BY <1>0, <1>8, InitialValues DEF TypeOK, RecoverLoadFails
<1> QED BY <1>1, <1>2, <1>3, <1>4, <1>5, <1>6, <1>7, <1>8 DEF Resolve

\* A revoked access, the end of the session and a restart keep the types.
LEMMA SessionType ==
  ASSUME TypeOK, Session
  PROVE  TypeOK'
<1>1. CASE Purge
  <2>1. ops' \in [Ids -> Op]
    BY <1>1, InitialValues DEF TypeOK, Purge
  <2> QED BY <1>1, <2>1, PushStatusType DEF TypeOK, Purge, history
<1>2. CASE Dispose
  BY <1>2, InitialValues
     DEF TypeOK, Dispose, Publishing, journalState, quietHistory
<1>3. CASE Restart
  <2>1. ops' \in [Ids -> Op] /\ disk' \in [Ids -> Op] /\ captured' \in [Ids -> Op]
    BY <1>3, InitialValues DEF TypeOK, Restart
  <2>2. attempts' \in [Ids -> Attempt] /\ recovering' \in [Ids -> Recovering]
        /\ saving' \in Job /\ jobs' \in Seq(Job)
    BY <1>3, InitialValues DEF Restart
  <2>3. mayHold' \subseteq Ids
    BY <1>3 DEF TypeOK, Restart, Publishing
  <2> QED BY <1>3, <2>1, <2>2, <2>3 DEF TypeOK, Restart
<1> QED BY <1>1, <1>2, <1>3 DEF Session

\* The initial state has its types.
LEMMA InitialType ==
  ASSUME Init
  PROVE  TypeOK
<1>1. ops \in [Ids -> Op] /\ disk \in [Ids -> Op] /\ captured \in [Ids -> Op]
  BY InitialValues DEF Init
<1>2. attempts \in [Ids -> Attempt] /\ recovering \in [Ids -> Recovering]
      /\ saving \in Job
  BY InitialValues DEF Init
<1>3. jobs \in Seq(Job) /\ receipts \in [Ids -> Nat]
  BY DEF Init
<1> QED BY <1>1, <1>2, <1>3 DEF Init, TypeOK

\* Every step keeps the types.
LEMMA NextType ==
  ASSUME TypeOK, [Next]_vars
  PROVE  TypeOK'
<1>1. CASE Journal
  BY <1>1, HydrateType, SaveType DEF Journal
<1>2. ASSUME NEW i \in Ids, Deliver(i) \/ Resolve(i) PROVE TypeOK'
  BY <1>2, DeliverType, ResolveType
<1>3. CASE Compose
  BY <1>3, ComposeType
<1>4. CASE Session
  BY <1>4, SessionType
<1>5. CASE UNCHANGED vars
  BY <1>5 DEF TypeOK, vars, memory, history
<1> QED BY <1>1, <1>2, <1>3, <1>4, <1>5 DEF Next

\* Every variable of a window's outbox keeps its type (the records of
\* outbox.ts:21-50, 237-248 and the parameters of persist(), outbox.ts:322).
THEOREM TypeCorrect == Spec => []TypeOK
<1>1. Init => TypeOK
  BY InitialType
<1>2. TypeOK /\ [Next]_vars => TypeOK'
  BY NextType
<1> QED BY <1>1, <1>2, PTL DEF Spec

----------------------------------------------------------------------------
\* "Accepted" and "seen" are said only of what the relay may hold: each helper
\* keeps what its arguments attest.

\* An eviction attests nothing new.
LEMMA TrimAttests ==
  ASSUME NEW o \in [Ids -> Op], NEW h, RecordsAttest(o, h), NEW p \in Trim(o)
  PROVE  RecordsAttest(p, h)
BY DEF Trim, RecordsAttest, NoOp, Attests

\* Neither does starting a delivery,
LEMMA LaunchAttests ==
  ASSUME NEW att \in [Ids -> Attempt], NEW h, RetriesAttest(att, h), NEW q,
         NEW C \in SUBSET Ids, Launch(att, q, C)
  PROVE  RetriesAttest(attempts', h)
<1>1. \A i \in Ids : RetriesAttest(Started(att, i), h)
  BY DEF Started, RetriesAttest, Attempt
<1> QED BY <1>1 DEF Launch

\* passing a freed slot on,
LEMMA PumpAttests ==
  ASSUME NEW att \in [Ids -> Attempt], NEW h, RetriesAttest(att, h), NEW q, NEW o,
         Pump(att, q, o)
  PROVE  RetriesAttest(attempts', h)
<1> DEFINE C == {i \in PendingIn(o) : att[i].stage = "queued" /\ o[i].delivery = "sending"}
<1>1. C \in SUBSET Ids
  BY DEF PendingIn
<1>2. \A i \in Ids : RetriesAttest([att EXCEPT ![i].stage = "prepare"], h)
  BY DEF RetriesAttest, Attempt
<1>3. CASE Launch(att, q, C)
  BY <1>1, <1>3, LaunchAttests
<1>4. CASE \E i \in Ids : attempts' = [att EXCEPT ![i].stage = "prepare"]
  BY <1>2, <1>4
<1> QED BY <1>3, <1>4 DEF Pump

\* or queueing an attempt that remembers what the relay may hold.
LEMMA ScheduleAttests ==
  ASSUME attempts \in [Ids -> Attempt], NEW h, RetriesAttest(attempts, h), NEW i \in Ids,
         NEW prev \in Deliveries, prev \in Attests => i \in h,
         NEW wait \in {"none", "pending", "done", "failed"}, NEW q,
         Schedule(i, prev, wait, q)
  PROVE  RetriesAttest(attempts', h)
<1> DEFINE att == [attempts EXCEPT ![i] = [stage |-> "queued", prev |-> prev, wait |-> wait]]
<1>1. att \in [Ids -> Attempt] /\ RetriesAttest(att, h)
  BY DEF Attempt, RetriesAttest
<1>2. Launch(att, q, {i}) /\ {i} \in SUBSET Ids
  BY DEF Schedule
<1> HIDE DEF att
<1> QED BY <1>1, <1>2, LaunchAttests

\* An attempt that is told of its save remembers what it did.
LEMMA ToldAttests ==
  ASSUME attempts \in [Ids -> Attempt], NEW h, RetriesAttest(attempts, h), NEW i,
         NEW result, NEW q
  PROVE  RetriesAttest(Told(i, result, q), h)
BY DEF Told, RetriesAttest, Attempt

\* A cleared receipt keeps its status.
LEMMA AcknowledgedAttests ==
  ASSUME NEW o \in [Ids -> Op], NEW h, RecordsAttest(o, h), NEW i \in Ids
  PROVE  RecordsAttest(Acknowledged(o, i), h)
BY DEF Acknowledged, RecordsAttest, Op

\* A released one too.
LEMMA ReleasedAttests ==
  ASSUME NEW o \in [Ids -> Op], NEW h, RecordsAttest(o, h), NEW i \in Ids,
         NEW p \in Released(o, i)
  PROVE  RecordsAttest(p, h)
<1> DEFINE moved == [Acknowledged(o, i) EXCEPT ![i].place = "confirmed"]
<1>1. Acknowledged(o, i) \in [Ids -> Op] /\ RecordsAttest(Acknowledged(o, i), h)
  BY AcknowledgedType, AcknowledgedAttests
<1>2. [Acknowledged(o, i)[i] EXCEPT !.place = "confirmed"] \in Op
  BY <1>1 DEF Op
<1>3. moved \in [Ids -> Op] /\ RecordsAttest(moved, h)
  BY <1>1, <1>2 DEF RecordsAttest, Op
<1> HIDE DEF moved
<1>4. CASE p \in Trim(moved)
  BY <1>3, <1>4, TrimAttests
<1>5. CASE p = Acknowledged(o, i)
  BY <1>1, <1>5
<1> QED BY <1>4, <1>5 DEF Released, moved

\* What a save captures attests what the screen does.
LEMMA CaptureAttests ==
  ASSUME ops \in [Ids -> Op], NEW h, RecordsAttest(ops, h), NEW job \in Job
  PROVE  RecordsAttest(Capture(job), h)
<1> DEFINE cleared == Acknowledged(ops, job.id)
<1>1. CASE job.kind = "dismiss"
  BY <1>1 DEF Capture, RecordsAttest, NoOp, Attests
<1>2. CASE job.kind = "acknowledge"
  BY <1>2, AcknowledgedAttests DEF Capture, Job
<1>3. CASE job.kind = "retire"
  <2>1. job.id \in Ids
    BY <1>3 DEF Job
  <2>2. cleared \in [Ids -> Op] /\ RecordsAttest(cleared, h)
    BY <2>1, AcknowledgedType, AcknowledgedAttests
  <2>3. Fresh(job.key, FALSE).delivery = "sending"
    BY DEF Fresh, NoOp
  <2>4. Capture(job) = IF job.next = NoId THEN cleared
                       ELSE [cleared EXCEPT ![job.next] = Fresh(job.key, FALSE)]
    BY <1>3 DEF Capture
  <2> QED BY <2>2, <2>3, <2>4 DEF RecordsAttest, Attests
<1>4. CASE job.kind \in {"none", "status", "attempt", "recover"}
  BY <1>4 DEF Capture
<1> QED BY <1>1, <1>2, <1>3, <1>4 DEF Job

\* The end of an attempt attests its status and nothing else.
LEMMA FinishAttests ==
  ASSUME TypeOK, NEW h, RecordsAttest(ops, h), RetriesAttest(attempts, h), NEW i \in Ids,
         NEW d \in Deliveries, d \in Attests => i \in h, Finish(i, d)
  PROVE  RecordsAttest(ops', h) /\ RetriesAttest(attempts', h)
<1> DEFINE updated == [ops[i] EXCEPT !.delivery = d]
           done == Settled(i, updated)
           result == [ops EXCEPT ![i] = IF done THEN [updated EXCEPT !.place = "confirmed"]
                                                ELSE updated]
           idle == [attempts EXCEPT ![i] = Idle]
<1>1. result \in [Ids -> Op] /\ RecordsAttest(result, h)
  <2>1. ops \in [Ids -> Op] /\ ops[i] \in Op
    BY DEF TypeOK
  <2>2. /\ updated \in Op /\ [updated EXCEPT !.place = "confirmed"] \in Op
        /\ updated.delivery = d /\ [updated EXCEPT !.place = "confirmed"].delivery = d
    BY <2>1 DEF Op
  <2> QED BY <2>1, <2>2 DEF RecordsAttest
<1>2. ops' \in (IF done THEN Trim(result) ELSE {result})
  BY DEF Finish
<1>3. RecordsAttest(ops', h)
  BY <1>1, <1>2, TrimAttests
<1>4. idle \in [Ids -> Attempt] /\ RetriesAttest(idle, h)
  BY InitialValues DEF TypeOK, RetriesAttest, Idle, Attests
<1>5. Pump(idle, PushStatus(jobs), result)
  BY DEF Finish
<1> HIDE DEF idle, result
<1> QED BY <1>3, <1>4, <1>5, PumpAttests

\* Who waits for a failed save remembers what it did.
LEMMA FailJobAttests ==
  ASSUME TypeOK, NEW h, RetriesAttest(attempts, h), RecoveriesAttest(recovering, h),
         NEW job, NEW q, FailJob(job, q)
  PROVE  RetriesAttest(attempts', h) /\ RecoveriesAttest(recovering', h)
<1>1. RetriesAttest(attempts', h)
  BY ToldAttests DEF FailJob, TypeOK
<1>2. NotRecovering.item.delivery \notin Attests
  BY DEF NotRecovering, NoOp, Attests
<1>3. RecoveriesAttest(recovering', h)
  BY <1>2 DEF FailJob, TypeOK, RecoveriesAttest
<1> QED BY <1>1, <1>3

\* Nothing attests an event of an empty journal.
LEMMA NothingAttested ==
  \A h : /\ RecordsAttest(Empty, h)
         /\ RetriesAttest([i \in Ids |-> Idle], h)
         /\ RecoveriesAttest([i \in Ids |-> NotRecovering], h)
BY DEF RecordsAttest, RetriesAttest, RecoveriesAttest, Empty, NoOp, Idle, NotRecovering,
       Attests

\* What was attested stays so when the relay may hold more.
LEMMA AttestsMore ==
  ASSUME NEW h, NEW g, h \subseteq g
  PROVE  /\ \A o : RecordsAttest(o, h) => RecordsAttest(o, g)
         /\ \A att : RetriesAttest(att, h) => RetriesAttest(att, g)
         /\ \A rec : RecoveriesAttest(rec, h) => RecoveriesAttest(rec, g)
BY DEF RecordsAttest, RetriesAttest, RecoveriesAttest

\* Hydration and saves attest nothing new.
LEMMA JournalAttests ==
  ASSUME AttestedInv, TypeOK', Journal
  PROVE  AttestedInv'
<1> USE DEF history
<1>0. /\ TypeOK /\ ops \in [Ids -> Op] /\ disk \in [Ids -> Op] /\ attempts \in [Ids -> Attempt]
      /\ saving \in Job /\ jobs \in Seq(Job)
      /\ RecordsAttest(ops, mayHold) /\ RecordsAttest(disk, mayHold)
      /\ RecordsAttest(captured, mayHold) /\ RetriesAttest(attempts, mayHold)
      /\ RecoveriesAttest(recovering, mayHold)
  BY DEF AttestedInv, TypeOK
<1>1. CASE Hydrate
  <2> DEFINE merged == [i \in Ids |-> IF Has(disk, i) THEN Restored(i, disk[i]) ELSE ops[i]]
  <2>1. ASSUME NEW i \in Ids
        PROVE  /\ Restored(i, disk[i]) \in Op
               /\ Restored(i, disk[i]).delivery \in Attests => i \in mayHold
    <3>1. disk[i] \in Op
      BY <1>0
    <3>2. /\ Decoded(disk[i]) \in Op
          /\ Decoded(disk[i]).delivery \in Attests => disk[i].delivery = "seen"
      BY <3>1 DEF Decoded, Op, Deliveries, Attests
    <3>3. Restored(i, disk[i]).delivery \in {"unknown", Decoded(disk[i]).delivery}
      BY <3>2 DEF Restored, NoOp, Op
    <3> QED BY <1>0, <3>1, <3>2, <3>3, RestoredType DEF RecordsAttest, Attests
  <2>2. merged \in [Ids -> Op] /\ RecordsAttest(merged, mayHold)
    BY <1>0, <2>1 DEF RecordsAttest
  <2>3. ops' = ops \/ ops' \in Trim(merged)
    BY <1>1 DEF Hydrate
  <2> HIDE DEF merged
  <2>4. RecordsAttest(ops', mayHold)
    BY <1>0, <2>2, <2>3, TrimAttests
  <2> QED BY <1>0, <1>1, <2>4 DEF AttestedInv, Hydrate
<1>2. CASE HydrateFails
  BY <1>0, <1>2 DEF AttestedInv, HydrateFails
<1>3. CASE SaveStarts
  <2>1. Head(jobs) \in Job
    BY <1>0, <1>3 DEF SaveStarts
  <2>2. RecordsAttest(captured', mayHold)
    BY <1>0, <1>3, <2>1, CaptureAttests DEF SaveStarts
  <2> QED BY <1>0, <1>3, <2>2 DEF AttestedInv, SaveStarts
<1>4. ASSUME Written, mayHold' = mayHold, RecordsAttest(ops', mayHold),
             RetriesAttest(attempts', mayHold), RecoveriesAttest(recovering', mayHold)
      PROVE  AttestedInv'
  BY <1>0, <1>4, NothingAttested DEF AttestedInv, Written
<1>5. CASE StatusSaved
  BY <1>0, <1>4, <1>5 DEF StatusSaved
<1>6. CASE AttemptSaved
  <2>1. RetriesAttest(attempts', mayHold)
    BY <1>0, <1>6, ToldAttests DEF AttemptSaved
  <2> QED BY <1>0, <1>4, <1>6, <2>1 DEF AttemptSaved
<1>7. CASE DismissSaved
  <2>1. RecordsAttest(ops', mayHold)
    BY <1>0, <1>7 DEF DismissSaved, RecordsAttest, NoOp, Attests
  <2> QED BY <1>0, <1>4, <1>7, <2>1 DEF DismissSaved
<1>8. CASE AcknowledgeSaved
  <2>1. saving.id \in Ids
    BY <1>0, <1>8 DEF AcknowledgeSaved, Job
  <2>2. RecordsAttest(ops', mayHold)
    BY <1>0, <1>8, <2>1, ReleasedAttests DEF AcknowledgeSaved
  <2> QED BY <1>0, <1>4, <1>8, <2>2 DEF AcknowledgeSaved
<1>9. CASE RetireSaved
  <2>1. saving.id \in Ids /\ saving.next \in Ids \cup {NoId}
        /\ saving.key \in Keys \cup {NoKey}
    BY <1>0, <1>9 DEF RetireSaved, Job
  <2>2. RecordsAttest(ops', mayHold) /\ RetriesAttest(attempts', mayHold)
    <3>1. CASE saving.next = NoId
      BY <1>0, <1>9, <2>1, <3>1, ReleasedAttests DEF RetireSaved
    <3>2. CASE saving.next \in Ids
      <4> DEFINE joined == [ops EXCEPT ![saving.next] = Fresh(saving.key, FALSE)]
      <4>1. Fresh(saving.key, FALSE).delivery = "sending"
        BY DEF Fresh, NoOp
      <4>2. joined \in [Ids -> Op] /\ RecordsAttest(joined, mayHold)
        BY <1>0, <2>1, <3>2, <4>1, InitialValues DEF RecordsAttest, Attests
      <4>3. /\ ops' \in Released(joined, saving.id)
            /\ \/ UNCHANGED <<attempts, jobs>>
               \/ Schedule(saving.next, "failed", "none", jobs)
        BY <1>9, <3>2 DEF RetireSaved
      <4> HIDE DEF joined
      <4>4. RecordsAttest(ops', mayHold)
        BY <2>1, <4>2, <4>3, ReleasedAttests
      <4>5. RetriesAttest(attempts', mayHold)
        BY <1>0, <3>2, <4>3, ScheduleAttests DEF Deliveries, Attests
      <4> QED BY <4>4, <4>5
    <3> QED BY <2>1, <3>1, <3>2
  <2> QED BY <1>0, <1>4, <1>9, <2>2 DEF RetireSaved
<1>10. CASE RecoverSaved
  <2>1. RecoveriesAttest(recovering', mayHold)
    BY <1>0, <1>10 DEF RecoverSaved, RecoveriesAttest, TypeOK, NotRecovering, NoOp, Attests
  <2> QED BY <1>0, <1>4, <1>10, <2>1 DEF RecoverSaved
<1>11. CASE SaveFails
  <2>1. RetriesAttest(attempts', mayHold) /\ RecoveriesAttest(recovering', mayHold)
    BY <1>0, <1>11, FailJobAttests DEF SaveFails
  <2> QED BY <1>0, <1>11, <2>1, NothingAttested DEF AttestedInv, SaveFails
<1>12. CASE SaveRefused
  <2>1. RetriesAttest(attempts', mayHold) /\ RecoveriesAttest(recovering', mayHold)
    BY <1>0, <1>12, FailJobAttests DEF SaveRefused
  <2> QED BY <1>0, <1>12, <2>1 DEF AttestedInv, SaveRefused
<1> QED BY <1>1, <1>2, <1>3, <1>5, <1>6, <1>7, <1>8, <1>9, <1>10, <1>11, <1>12 DEF Journal

\* A send attests nothing; a retry remembers the status it replaces.
LEMMA ComposeAttests ==
  ASSUME AttestedInv, TypeOK', Compose
  PROVE  AttestedInv'
<1>0. /\ TypeOK /\ ops \in [Ids -> Op] /\ attempts \in [Ids -> Attempt]
      /\ RecordsAttest(ops, mayHold) /\ RetriesAttest(attempts, mayHold)
  BY DEF AttestedInv, TypeOK
<1>1. ASSUME UNCHANGED <<disk, captured, recovering, mayHold>>,
             RecordsAttest(ops', mayHold), RetriesAttest(attempts', mayHold)
      PROVE  AttestedInv'
  BY <1>1 DEF AttestedInv
<1>2. ASSUME NEW i \in Ids, NEW k \in Keys \cup {NoKey}, NEW g \in BOOLEAN, Send(i, k, g)
      PROVE  AttestedInv'
  <2>1. RecordsAttest(ops', mayHold)
    BY <1>0, <1>2 DEF Send, RecordsAttest, Fresh, NoOp, Attests
  <2>2. RetriesAttest(attempts', mayHold)
    BY <1>0, <1>2, ScheduleAttests DEF Send, Deliveries, Attests
  <2> QED BY <1>1, <1>2, <2>1, <2>2 DEF Send
<1>3. ASSUME NEW i \in Ids, NEW renewed \in BOOLEAN, Retry(i, renewed)
      PROVE  AttestedInv'
  <2>1. ops[i] \in Op /\ ops[i].delivery \in Deliveries
    BY <1>0 DEF Op
  <2>2. [ops[i] EXCEPT !.delivery = "sending", !.guarded = @ \/ renewed].delivery = "sending"
    BY <2>1 DEF Op
  <2>3. RecordsAttest(ops', mayHold)
    BY <1>0, <1>3, <2>2 DEF Retry, RecordsAttest, Attests
  <2>4. RetriesAttest(attempts', mayHold)
    BY <1>0, <1>3, <2>1, ScheduleAttests DEF Retry, RecordsAttest
  <2> QED BY <1>1, <1>3, <2>3, <2>4 DEF Retry, history
<1>4. CASE Withdraw
  BY <1>0, <1>1, <1>4 DEF Withdraw, history
<1> QED BY <1>2, <1>3, <1>4
        DEF Compose, SendPlain, SendGuarded, RetryPlain, RetryRenewed

\* An attempt ends as "accepted" or "seen" when the relay answered or was observed,
\* or when an earlier attempt had.
LEMMA DeliverAttests ==
  ASSUME AttestedInv, TypeOK', NEW i \in Ids, Deliver(i)
  PROVE  AttestedInv'
<1> USE DEF history, journalState, quietHistory
<1>0. /\ TypeOK /\ ops \in [Ids -> Op] /\ ops[i] \in Op /\ attempts \in [Ids -> Attempt]
      /\ attempts[i] \in Attempt
      /\ RecordsAttest(ops, mayHold) /\ RetriesAttest(attempts, mayHold)
  BY DEF AttestedInv, TypeOK
<1>1. ASSUME UNCHANGED <<disk, captured, recovering>>, mayHold \subseteq mayHold',
             RecordsAttest(ops', mayHold'), RetriesAttest(attempts', mayHold')
      PROVE  AttestedInv'
  BY <1>1, AttestsMore DEF AttestedInv
<1>2. ASSUME UNCHANGED <<disk, captured, recovering>>, mayHold \subseteq mayHold',
             NEW d \in Deliveries, d \in Attests => i \in mayHold', Finish(i, d)
      PROVE  AttestedInv'
  <2>1. RecordsAttest(ops, mayHold') /\ RetriesAttest(attempts, mayHold')
    BY <1>0, <1>2, AttestsMore
  <2>2. RecordsAttest(ops', mayHold') /\ RetriesAttest(attempts', mayHold')
    BY <1>0, <1>2, <2>1, FinishAttests
  <2> QED BY <1>1, <1>2, <2>2
<1>3. /\ FailedDelivery(attempts[i].prev) \in Attests => i \in mayHold
      /\ \A u \in BOOLEAN : CaughtDelivery(i, u) \in Attests => i \in mayHold
  BY <1>0 DEF FailedDelivery, CaughtDelivery, RecordsAttest, RetriesAttest, Attests
<1>4. \A stage, wait :
        /\ RetriesAttest([attempts EXCEPT ![i].stage = stage, ![i].wait = wait], mayHold)
        /\ RetriesAttest([attempts EXCEPT ![i].stage = stage], mayHold)
  BY <1>0 DEF RetriesAttest, Attempt
<1>5. CASE IntentSaved(i)
  <2>1. \/ attempts' = [attempts EXCEPT ![i].stage = "save", ![i].wait = "pending"]
        \/ attempts' = [attempts EXCEPT ![i].stage = "sign", ![i].wait = "none"]
    BY <1>5 DEF IntentSaved
  <2>2. UNCHANGED <<ops, disk, captured, recovering, mayHold>>
    BY <1>5 DEF IntentSaved
  <2>3. RetriesAttest(attempts', mayHold)
    BY <1>4, <2>1
  <2> QED BY <1>0, <1>1, <2>2, <2>3
<1>6. CASE Signed(i)
  <2>1. RecordsAttest(ops', mayHold)
    BY <1>0, <1>6 DEF Signed, RecordsAttest, Op
  <2> QED BY <1>1, <1>4, <1>6, <2>1 DEF Signed
<1>7. CASE SignatureSaved(i)
  <2> DEFINE held == [attempts EXCEPT ![i].stage = "hold", ![i].wait = "none"]
  <2>1. held \in [Ids -> Attempt] /\ RetriesAttest(held, mayHold)
    BY <1>0, <1>4 DEF Attempt
  <2>2. CASE Pump(held, jobs, ops)
    <3> HIDE DEF held
    <3>1. RetriesAttest(attempts', mayHold)
      BY <2>1, <2>2, PumpAttests
    <3> QED BY <1>0, <1>1, <1>7, <3>1 DEF SignatureSaved
  <2>3. CASE attempts' = [attempts EXCEPT ![i].stage = "prepare", ![i].wait = "none"]
    BY <1>0, <1>1, <1>4, <1>7, <2>3 DEF SignatureSaved
  <2> QED BY <1>7, <2>2, <2>3 DEF SignatureSaved
<1>8. CASE HoldEnds(i)
  BY <1>0, <1>1, <1>4, <1>8 DEF HoldEnds
<1>9. CASE PublishStarts(i)
  BY <1>0, <1>1, <1>4, <1>9 DEF PublishStarts
<1>10. CASE PublishAccepted(i)
  <2>1. i \in mayHold' /\ mayHold \subseteq mayHold'
    BY <1>10 DEF PublishAccepted
  <2> QED BY <1>2, <1>10, <2>1 DEF PublishAccepted, Deliveries
<1>11. CASE PublishRejected(i) \/ FailsUnpublished(i) \/ ExpiresActive(i)
  <2>1. CaughtDelivery(i, FALSE) \in Deliveries
    BY <1>0, DeliveryType
  <2> QED BY <1>2, <1>3, <1>11, <2>1
          DEF PublishRejected, FailsUnpublished, ExpiresActive
<1>12. CASE PublishLost(i)
  <2>1. CaughtDelivery(i, TRUE) \in Deliveries /\ i \in mayHold' /\ mayHold \subseteq mayHold'
    BY <1>0, <1>12, DeliveryType DEF PublishLost
  <2> QED BY <1>2, <1>12, <2>1 DEF PublishLost
<1>13. CASE ExpiresQueued(i)
  <2>1. RecordsAttest(ops', mayHold)
    BY <1>0, <1>3, <1>13 DEF ExpiresQueued, RecordsAttest, Op
  <2>2. RetriesAttest(attempts', mayHold)
    BY <1>0, <1>13 DEF ExpiresQueued, RetriesAttest, Idle, Attests
  <2> QED BY <1>1, <1>13, <2>1, <2>2 DEF ExpiresQueued
<1>14. CASE Observe(i)
  <2> DEFINE stays == i \in Workflows /\ Active(i)
             seen == [ops[i] EXCEPT !.signed = TRUE, !.delivery = "seen"]
             kept == stays \/ ops[i].key # NoKey
             result == [ops EXCEPT ![i] = IF kept THEN seen
                                          ELSE [seen EXCEPT !.place = "confirmed"]]
             idle == [attempts EXCEPT ![i] = Idle]
  <2>1. /\ ops' \in (IF kept THEN {result} ELSE Trim(result))
        /\ \/ Pump(idle, PushStatus(jobs), result)
           \/ attempts' \in {attempts, idle}
        /\ mayHold' = mayHold \cup {i}
        /\ UNCHANGED <<disk, captured, recovering>>
    BY <1>14 DEF Observe
  <2>2. seen \in Op /\ [seen EXCEPT !.place = "confirmed"] \in Op
    BY <1>0 DEF Op, Deliveries
  <2>3. result \in [Ids -> Op] /\ RecordsAttest(result, mayHold')
    BY <1>0, <2>1, <2>2 DEF RecordsAttest
  <2>4. idle \in [Ids -> Attempt] /\ RetriesAttest(idle, mayHold')
    BY <1>0, <2>1, InitialValues DEF RetriesAttest, Idle, Attests
  <2>5. RetriesAttest(attempts, mayHold')
    BY <1>0, <2>1 DEF RetriesAttest
  <2> HIDE DEF kept, result, idle
  <2>6. RecordsAttest(ops', mayHold')
    BY <2>1, <2>3, TrimAttests
  <2>7. RetriesAttest(attempts', mayHold')
    BY <2>1, <2>4, <2>5, PumpAttests
  <2> QED BY <1>1, <2>1, <2>6, <2>7
<1> QED BY <1>5, <1>6, <1>7, <1>8, <1>9, <1>10, <1>11, <1>12, <1>13, <1>14 DEF Deliver

\* The calls that resolve a receipt move what is attested, and add nothing to it.
LEMMA ResolveAttests ==
  ASSUME AttestedInv, TypeOK', NEW i \in Ids, Resolve(i)
  PROVE  AttestedInv'
<1> USE DEF history, journalState
<1>0. /\ TypeOK /\ ops \in [Ids -> Op] /\ disk \in [Ids -> Op]
      /\ recovering \in [Ids -> Recovering] /\ recovering[i] \in Recovering
      /\ RecordsAttest(ops, mayHold) /\ RecordsAttest(disk, mayHold)
      /\ RecoveriesAttest(recovering, mayHold)
  BY DEF AttestedInv, TypeOK
<1>1. ASSUME UNCHANGED <<disk, captured, attempts, mayHold>>,
             RecordsAttest(ops', mayHold), RecoveriesAttest(recovering', mayHold)
      PROVE  AttestedInv'
  BY <1>1 DEF AttestedInv
<1>2. CASE Acknowledge(i)
  BY <1>0, <1>1, <1>2 DEF Acknowledge
<1>3. CASE RetireStarts(i) \/ RetireGivenUp(i) \/ Dismiss(i)
  BY <1>0, <1>1, <1>3 DEF RetireStarts, RetireGivenUp, Dismiss
<1>4. CASE RetireVerified(i)
  BY <1>0, <1>1, <1>4 DEF RetireVerified
<1>5. CASE DismissLocked(i)
  BY <1>0, <1>1, <1>5 DEF DismissLocked
<1>6. RecoveriesAttest([recovering EXCEPT ![i] = NotRecovering], mayHold)
  BY <1>0 DEF RecoveriesAttest, NotRecovering, NoOp, Attests
<1>7. ASSUME NEW k \in Keys, RecoverCalled(i, k)
      PROVE  AttestedInv'
  <2>1. [NotRecovering EXCEPT !.stage = "lock", !.key = k].item = NoOp
    BY DEF NotRecovering
  <2>2. RecoveriesAttest(recovering', mayHold)
    BY <1>0, <1>7, <2>1 DEF RecoverCalled, RecoveriesAttest, NoOp, Attests
  <2> QED BY <1>0, <1>1, <1>7, <2>2 DEF RecoverCalled
<1>8. CASE RecoverLocked(i)
  <2>1. [recovering[i] EXCEPT !.stage = "load", !.item = ops[i]].item = ops[i]
    BY <1>0, <1>8 DEF RecoverLocked, Recovering
  <2>2. RecoveriesAttest(recovering', mayHold)
    BY <1>0, <1>6, <1>8, <2>1 DEF RecoverLocked, RecoveriesAttest, RecordsAttest
  <2> QED BY <1>0, <1>1, <1>8, <2>2 DEF RecoverLocked
<1>9. CASE RecoverLoaded(i)
  <2> DEFINE item == IF Has(disk, i) /\ i \in restored THEN disk[i] ELSE recovering[i].item
             k == recovering[i].key
  <2>1. recovering[i].stage = "load" /\ k \in Keys /\ recovering[i].item \in Op
    BY <1>0, <1>9 DEF RecoverLoaded, Recovering
  <2>2. item \in Op /\ (item.delivery \in Attests => i \in mayHold)
    BY <1>0, <2>1 DEF RecordsAttest, RecoveriesAttest
  <2>3. [recovering[i] EXCEPT !.stage = "save", !.item = NoOp].item = NoOp
    BY <1>0, <2>1 DEF Recovering
  <2>4. RecoveriesAttest([recovering EXCEPT ![i].stage = "save", ![i].item = NoOp], mayHold)
    BY <1>0, <2>3 DEF RecoveriesAttest, NoOp, Attests
  <2>5. RecordsAttest([ops EXCEPT ![i] = [item EXCEPT !.place = "pending", !.key = k]],
                      mayHold)
    BY <1>0, <2>2 DEF RecordsAttest, Op
  <2>6. /\ \/ ops' = ops
           \/ ops' = [ops EXCEPT ![i] = [item EXCEPT !.place = "pending", !.key = k]]
        /\ \/ recovering' = [recovering EXCEPT ![i] = NotRecovering]
           \/ recovering' = [recovering EXCEPT ![i].stage = "save", ![i].item = NoOp]
        /\ UNCHANGED <<disk, captured, attempts, mayHold>>
    BY <1>9 DEF RecoverLoaded
  <2> HIDE DEF item, k
  <2>7. RecordsAttest(ops', mayHold) /\ RecoveriesAttest(recovering', mayHold)
    BY <1>0, <1>6, <2>4, <2>5, <2>6
  <2> QED BY <1>1, <2>6, <2>7
<1>10. CASE RecoverLoadFails(i)
  BY <1>0, <1>1, <1>6, <1>10 DEF RecoverLoadFails
<1> QED BY <1>2, <1>3, <1>4, <1>5, <1>7, <1>8, <1>9, <1>10 DEF Resolve

\* The session drops what is attested, or ends it as the relay may hold it.
LEMMA SessionAttests ==
  ASSUME AttestedInv, TypeOK', Session
  PROVE  AttestedInv'
<1> USE DEF history, journalState, quietHistory
<1>0. /\ RecordsAttest(ops, mayHold) /\ RecordsAttest(disk, mayHold)
      /\ RecordsAttest(captured, mayHold) /\ RecoveriesAttest(recovering, mayHold)
      /\ ops \in [Ids -> Op]
  BY DEF AttestedInv, TypeOK
<1>1. CASE Purge
  <2>1. RecordsAttest(ops', mayHold)
    BY <1>0, <1>1 DEF Purge, RecordsAttest, NoOp, Attests
  <2> QED BY <1>1, <2>1 DEF AttestedInv, Purge
<1>2. CASE Dispose
  <2>1. mayHold \subseteq mayHold' /\ attempts' = [j \in Ids |-> Idle]
        /\ UNCHANGED <<ops, disk, captured, recovering>>
    BY <1>2 DEF Dispose
  <2> QED BY <1>0, <2>1, AttestsMore, NothingAttested DEF AttestedInv
<1>3. CASE Restart
  <2>1. /\ mayHold \subseteq mayHold' /\ attempts' = [j \in Ids |-> Idle]
        /\ ops' = Empty /\ captured' = Empty /\ disk' \in {disk, captured}
        /\ recovering' = [j \in Ids |-> NotRecovering]
    BY <1>3 DEF Restart
  <2>2. RecordsAttest(disk', mayHold')
    BY <1>0, <2>1, AttestsMore
  <2> QED BY <2>1, <2>2, NothingAttested DEF AttestedInv
<1> QED BY <1>1, <1>2, <1>3 DEF Session

\* The invariant holds at first and after every step.
LEMMA AttestedInductive ==
  /\ Init => AttestedInv
  /\ AttestedInv /\ [Next]_vars => AttestedInv'
<1>1. ASSUME Init PROVE AttestedInv
  BY <1>1, InitialType, NothingAttested DEF AttestedInv, Init
<1>2. ASSUME AttestedInv, [Next]_vars PROVE AttestedInv'
  <2>1. TypeOK'
    BY <1>2, NextType DEF AttestedInv
  <2>2. CASE Journal
    BY <1>2, <2>1, <2>2, JournalAttests
  <2>3. ASSUME NEW i \in Ids, Deliver(i) \/ Resolve(i) PROVE AttestedInv'
    BY <1>2, <2>1, <2>3, DeliverAttests, ResolveAttests
  <2>4. CASE Compose
    BY <1>2, <2>1, <2>4, ComposeAttests
  <2>5. CASE Session
    BY <1>2, <2>1, <2>5, SessionAttests
  <2>6. CASE UNCHANGED vars
    BY <1>2, <2>1, <2>6 DEF AttestedInv, vars, memory, history
  <2> QED BY <1>2, <2>2, <2>3, <2>4, <2>5, <2>6 DEF Next
<1> QED BY <1>1, <1>2

\* "Accepted" and "seen" are said, saved and remembered by a retry only of an event
\* the relay may hold, whichever calls the session uses, recover() included
\* (outbox.ts:532-538, 573-583).
THEOREM AttestedIsReal == Spec => []EvidenceIsReal
<1>1. Spec => []AttestedInv
  BY AttestedInductive, PTL DEF Spec
<1>2. AttestedInv => EvidenceIsReal
  BY DEF AttestedInv, EvidenceIsReal, RecordsAttest, RetriesAttest, Attests
<1> QED BY <1>1, <1>2, PTL
=============================================================================
