------------------------ MODULE OutboxEvidenceProofs ------------------------
(***************************************************************************)
(* What an outbox promises of its statuses, its journal and what the user  *)
(* gave up, proved for all values of the constants, with the invariants of *)
(* OutboxInvariant:                                                        *)
(*   - without recover(): "not sent" is never said of an event the relay   *)
(*     may hold (EvidenceInv), a publish finds its signed event saved      *)
(*     (DispatchInv), and Outbox implements DeliveryEvidence (ShownInv);   *)
(*   - with it too: a dismissed event does not come back (FenceInv), saved *)
(*     intent stays in the journal until it is delivered or dismissed, and *)
(*     what a revoked access hides stays hidden (ListedInv).               *)
(***************************************************************************)
EXTENDS OutboxProofs, OutboxRefinement

----------------------------------------------------------------------------
\* How the helpers of a step change saves, attempts and records.

\* p is q with saves added that bring no replacement.
Extends(q, p) == /\ \A n \in DOMAIN q : n \in DOMAIN p /\ p[n] = q[n]
                 /\ \A n \in DOMAIN p : p[n].kind = "retire" => n \in DOMAIN q

\* The step starts at most deliveries that waited, from attempts att and saves q.
Continues(att, q) ==
  /\ Extends(q, jobs')
  /\ \A j \in Ids :
       /\ attempts'[j].prev = att[j].prev
       /\ attempts'[j].stage = "idle" <=> att[j].stage = "idle"
       /\ attempts'[j].stage = "publish" <=> att[j].stage = "publish"
       /\ DurableAttempt(attempts'[j]) <=> DurableAttempt(att[j])
       /\ \/ attempts'[j].wait = att[j].wait
          \/ att[j].stage = "queued" /\ QueuedFor(jobs', j)

\* p is o after evictions and removals, or with a settled record moved.
Calmer(o, p) ==
  \A j \in Ids : \/ p[j] = NoOp
                 \/ p[j] = o[j]
                 \/ /\ o[j].place # "absent" /\ p[j].place \in {o[j].place, "confirmed"}
                    /\ p[j].delivery = o[j].delivery

\* Adding a save that is no retirement extends the queue, also twice in a row.
LEMMA AppendExtends ==
  ASSUME NEW q \in Seq(Job), NEW job \in Job, job.kind # "retire"
  PROVE  Extends(q, Append(q, job))
BY DEF Extends

\* So does a status save.
LEMMA PushExtends ==
  ASSUME NEW q \in Seq(Job)
  PROVE  Extends(q, PushStatus(q))
<1>1. Status \in Job /\ Status.kind # "retire"
  BY InitialValues DEF Status, JobOf
<1>2. Extends(q, q)
  BY DEF Extends
<1> QED BY <1>1, <1>2, AppendExtends DEF PushStatus

\* Extensions compose.
LEMMA ExtendsTwice ==
  ASSUME NEW q \in Seq(Job), NEW p \in Seq(Job), NEW r \in Seq(Job),
         Extends(q, p), Extends(p, r)
  PROVE  Extends(q, r)
BY DEF Extends

\* A queue that is extended keeps the saves it had.
LEMMA ExtendsKeeps ==
  ASSUME NEW q, NEW p, Extends(q, p)
  PROVE  \A i \in Ids : /\ QueuedFor(q, i) => QueuedFor(p, i)
                        /\ \A n \in DOMAIN p : Replaces(p[n], i)
                                               => n \in DOMAIN q /\ Replaces(q[n], i)
BY DEF Extends, QueuedFor, Replaces

\* A queued save of an attempt is found.
LEMMA AppendQueues ==
  ASSUME NEW q \in Seq(Job), NEW i \in Ids
  PROVE  QueuedFor(Append(q, JobOf("attempt", i, NoId, NoKey)), i)
<1> DEFINE p == Append(q, JobOf("attempt", i, NoId, NoKey))
<1>1. Len(q) + 1 \in DOMAIN p /\ p[Len(q) + 1] = JobOf("attempt", i, NoId, NoKey)
  BY IntentJob
<1> QED BY <1>1 DEF QueuedFor, JobOf

\* Starting deliveries that were queued only continues them.
LEMMA LaunchContinues ==
  ASSUME NEW att \in [Ids -> Attempt], NEW q \in Seq(Job), NEW C \in SUBSET Ids,
         \A i \in C : att[i].stage = "queued", Launch(att, q, C)
  PROVE  Continues(att, q)
<1>1. CASE closed \/ Full(att) \/ C = {}
  <2>1. attempts' = att /\ jobs' = q
    BY <1>1 DEF Launch
  <2> QED BY <2>1 DEF Continues, Extends
<1>2. CASE ~(closed \/ Full(att) \/ C = {})
  <2>1. PICK i \in C : attempts' = Started(att, i) /\ jobs' = StartJobs(att, i, q)
    BY <1>2 DEF Launch
  <2>2. Extends(q, jobs')
    <3>1. JobOf("attempt", i, NoId, NoKey) \in Job
          /\ JobOf("attempt", i, NoId, NoKey).kind # "retire"
      BY IntentJob DEF JobOf
    <3>2. Extends(q, q)
      BY DEF Extends
    <3> QED BY <2>1, <3>1, <3>2, AppendExtends DEF StartJobs
  <2>3. att[i].wait = "none" => QueuedFor(jobs', i)
    BY <2>1, AppendQueues DEF StartJobs
  <2>4. att[i] \in Attempt /\ att[i].stage = "queued"
    OBVIOUS
  <2>5. /\ attempts'[i].prev = att[i].prev /\ attempts'[i].stage = "intent"
        /\ att[i].wait # "none" => attempts'[i].wait = att[i].wait
        /\ att[i].wait = "none" => attempts'[i].wait = "pending"
        /\ \A j \in Ids \ {i} : attempts'[j] = att[j]
    BY <2>1 DEF Started
  <2> QED BY <2>2, <2>3, <2>4, <2>5 DEF Continues, DurableAttempt
<1> QED BY <1>1, <1>2

\* So does passing a slot on.
LEMMA PumpContinues ==
  ASSUME NEW att \in [Ids -> Attempt], NEW q \in Seq(Job), NEW o, Pump(att, q, o)
  PROVE  Continues(att, q)
<1> DEFINE waiters == {i \in Ids : att[i].stage = "slot"}
           C == {i \in PendingIn(o) : att[i].stage = "queued" /\ o[i].delivery = "sending"}
<1>1. CASE waiters # {} /\ ~closed /\ ~Full(att)
  <2>1. PICK i \in Ids : /\ att[i].stage = "slot"
                         /\ attempts' = [att EXCEPT ![i].stage = "prepare"] /\ jobs' = q
    BY <1>1 DEF Pump
  <2>2. /\ attempts'[i].stage = "prepare" /\ attempts'[i].prev = att[i].prev
        /\ attempts'[i].wait = att[i].wait
        /\ \A j \in Ids \ {i} : attempts'[j] = att[j]
    BY <2>1 DEF Attempt
  <2> QED BY <2>1, <2>2 DEF Continues, Extends, DurableAttempt
<1>2. CASE ~(waiters # {} /\ ~closed /\ ~Full(att))
  <2>1. Launch(att, q, C)
    BY <1>2 DEF Pump
  <2>2. C \in SUBSET Ids /\ \A i \in C : att[i].stage = "queued"
    BY DEF PendingIn
  <2> QED BY <2>1, <2>2, LaunchContinues
<1> QED BY <1>1, <1>2

\* A step that leaves attempts and saves alone continues them too.
LEMMA StillContinues ==
  ASSUME NEW att \in [Ids -> Attempt], NEW q \in Seq(Job), attempts' = att, jobs' = q
  PROVE  Continues(att, q)
BY DEF Continues, Extends

\* A new attempt is queued, then perhaps started.
LEMMA ScheduleContinues ==
  ASSUME attempts \in [Ids -> Attempt], NEW q \in Seq(Job), NEW i \in Ids,
         NEW prev \in Deliveries, NEW wait \in {"none", "pending", "done", "failed"},
         Schedule(i, prev, wait, q)
  PROVE  Continues([attempts EXCEPT ![i] = [stage |-> "queued", prev |-> prev,
                                            wait |-> wait]], q)
<1> DEFINE att == [attempts EXCEPT ![i] = [stage |-> "queued", prev |-> prev, wait |-> wait]]
<1>1. att \in [Ids -> Attempt] /\ att[i].stage = "queued"
  BY DEF Attempt
<1>2. Launch(att, q, {i})
  BY DEF Schedule
<1>3. {i} \in SUBSET Ids
  OBVIOUS
<1> HIDE DEF att
<1>4. Continues(att, q)
  BY <1>1, <1>2, <1>3, LaunchContinues
<1> QED BY <1>4 DEF att

\* Evictions and released receipts calm the records.
LEMMA TrimCalms ==
  ASSUME NEW o \in [Ids -> Op], NEW p \in Trim(o)
  PROVE  Calmer(o, p)
BY DEF Trim, Calmer

\* What that means for one record.
Calmed(r, s) == /\ s.place # "absent" => r.place # "absent"
                /\ Safe(r) => Safe(s)
                /\ s.place = "pending" => r.place = "pending" /\ s.delivery = r.delivery
                /\ \/ s.delivery = r.delivery /\ r.place # "absent"
                   \/ s.place = "absent" /\ ~s.acked
                   \/ s = r

\* Every record is calmed.
LEMMA CalmerFacts ==
  ASSUME NEW o, NEW p, Calmer(o, p)
  PROVE  \A j \in Ids : Calmed(o[j], p[j])
<1>1. NoOp.place = "absent" /\ ~NoOp.acked
  BY DEF NoOp
<1> QED BY <1>1 DEF Calmer, Calmed, Safe

\* Calming composes.
LEMMA CalmerTwice ==
  ASSUME NEW o, NEW p, NEW q, Calmer(o, p), Calmer(p, q)
  PROVE  Calmer(o, q)
<1> SUFFICES ASSUME NEW j \in Ids
             PROVE  \/ q[j] = NoOp \/ q[j] = o[j]
                    \/ /\ o[j].place # "absent" /\ q[j].place \in {o[j].place, "confirmed"}
                       /\ q[j].delivery = o[j].delivery
  BY DEF Calmer
<1>1. CASE p[j] = NoOp
  <2>1. NoOp.place = "absent"
    BY DEF NoOp
  <2> QED BY <1>1, <2>1 DEF Calmer
<1>2. CASE p[j] = o[j]
  BY <1>2 DEF Calmer
<1>3. CASE /\ o[j].place # "absent" /\ p[j].place \in {o[j].place, "confirmed"}
           /\ p[j].delivery = o[j].delivery
  BY <1>3 DEF Calmer
<1> QED BY <1>1, <1>2, <1>3 DEF Calmer

\* A saved acknowledgement calms the records.
LEMMA ReleasedCalms ==
  ASSUME NEW o \in [Ids -> Op], NEW i \in Ids, NEW p \in Released(o, i)
  PROVE  Calmer(o, p)
<1> DEFINE cleared == Acknowledged(o, i)
           moved == [cleared EXCEPT ![i].place = "confirmed"]
<1>1. cleared \in [Ids -> Op] /\ moved \in [Ids -> Op]
  <2>1. cleared \in [Ids -> Op]
    BY AcknowledgedType
  <2>2. [cleared[i] EXCEPT !.place = "confirmed"] \in Op
    BY <2>1 DEF Op
  <2> QED BY <2>1, <2>2
<1>2. Calmer(o, cleared)
  BY DEF Calmer, Acknowledged, Has, Op
<1>3. Has(o, i) => Calmer(o, moved)
  BY DEF Calmer, Acknowledged, Has, Op
<1>4. p = cleared \/ (Has(o, i) /\ p \in Trim(moved))
  BY DEF Released
<1> HIDE DEF cleared, moved
<1>5. Has(o, i) /\ p \in Trim(moved) => Calmer(o, p)
  <2> SUFFICES ASSUME Has(o, i), p \in Trim(moved) PROVE Calmer(o, p)
    OBVIOUS
  <2>1. Calmer(o, moved) /\ Calmer(moved, p)
    BY <1>1, <1>3, TrimCalms
  <2> QED BY <2>1, CalmerTwice
<1> QED BY <1>2, <1>4, <1>5

----------------------------------------------------------------------------
\* The end of an attempt.

\* Attempt i ends, or was none, and record i becomes r, which claims no failure of
\* an event the relay may hold; slots are passed on, records may be evicted.
Ends(i, r) ==
  /\ UNCHANGED <<saving, captured, disk, used, journal, closed>>
  /\ Active(i) \/ ops[i].place # "absent"
  /\ r.delivery # "sending"
  /\ mayHold' \in {mayHold, mayHold \cup {i}}
  /\ i \in mayHold' => /\ i \in mayHold \/ Durable(i)
                       /\ Safe(r)
  /\ Calmer([ops EXCEPT ![i] = r], ops')
  /\ \E q \in Seq(Job) : /\ Extends(jobs, q)
                        /\ Continues([attempts EXCEPT ![i] = Idle], q)

\* Such a step keeps the invariant.
LEMMA EndsKeepsEvidence ==
  ASSUME EvidenceInv, TypeOK', NEW i \in Ids, NEW r \in Op, Ends(i, r)
  PROVE  EvidenceInv'
<1> DEFINE o == [ops EXCEPT ![i] = r]
<1>0. /\ UNCHANGED <<saving, captured, disk, used, journal, closed>>
      /\ Active(i) \/ ops[i].place # "absent"
      /\ r.delivery # "sending"
      /\ mayHold' \in {mayHold, mayHold \cup {i}}
      /\ i \in mayHold' => (i \in mayHold \/ Durable(i)) /\ Safe(r)
  BY DEF Ends
<1>1. /\ Extends(jobs, jobs')
      /\ \A j \in Ids \ {i} :
           /\ attempts'[j].prev = attempts[j].prev
           /\ attempts'[j].stage = "idle" <=> attempts[j].stage = "idle"
           /\ attempts'[j].stage = "publish" <=> attempts[j].stage = "publish"
           /\ DurableAttempt(attempts'[j]) <=> DurableAttempt(attempts[j])
           /\ \/ attempts'[j].wait = attempts[j].wait
              \/ attempts[j].stage = "queued" /\ QueuedFor(jobs', j)
      /\ attempts'[i].stage = "idle" /\ attempts'[i].wait = "none"
  <2>1. PICK q \in Seq(Job) : /\ Extends(jobs, q)
                              /\ Continues([attempts EXCEPT ![i] = Idle], q)
    BY DEF Ends
  <2>2. jobs \in Seq(Job) /\ jobs' \in Seq(Job) /\ attempts \in [Ids -> Attempt]
    BY DEF EvidenceInv, TypeOK
  <2>3. Extends(q, jobs')
    BY <2>1 DEF Continues
  <2>4. Extends(jobs, jobs')
    BY <2>1, <2>2, <2>3, ExtendsTwice
  <2>5. Idle.stage = "idle" /\ Idle.wait = "none"
    BY DEF Idle
  <2> QED BY <2>1, <2>2, <2>4, <2>5 DEF Continues
<1>2. /\ \A j \in Ids \ {i} : Calmed(ops[j], ops'[j])
      /\ Safe(r) => Safe(ops'[i])
      /\ ~(ops'[i].place = "pending" /\ ops'[i].delivery = "sending")
  <2>1. Calmer(o, ops')
    BY DEF Ends
  <2>2. ops \in [Ids -> Op] /\ o[i] = r /\ \A j \in Ids \ {i} : o[j] = ops[j]
    BY DEF EvidenceInv, TypeOK
  <2> HIDE DEF o
  <2>3. \A j \in Ids : Calmed(o[j], ops'[j])
    BY <2>1, CalmerFacts
  <2>4. \A j \in Ids \ {i} : Calmed(ops[j], ops'[j])
    BY <2>2, <2>3
  <2>5. /\ Safe(r) => Safe(ops'[i])
        /\ ~(ops'[i].place = "pending" /\ ops'[i].delivery = "sending")
    BY <1>0, <2>2, <2>3 DEF Calmed
  <2> QED BY <2>4, <2>5
<1>3. IdsAreFresh'
  BY <1>0, <1>1, <1>2 DEF EvidenceInv, IdsAreFresh, Active, Durable, DurableAttempt, Calmed
<1>4. LoadingIsApart'
  BY <1>0, <1>1, <1>2 DEF EvidenceInv, LoadingIsApart, Active, Calmed
<1>5. ReplacementsAreNew'
  <2>1. \A j \in Ids, n \in DOMAIN jobs' : Replaces(jobs'[n], j)
                                           => n \in DOMAIN jobs /\ Replaces(jobs[n], j)
    BY <1>1, ExtendsKeeps
  <2> QED BY <1>0, <1>1, <1>2, <2>1
          DEF EvidenceInv, ReplacementsAreNew, Active, Durable, DurableAttempt, Calmed
<1>6. AttemptsOwnSending'
  BY <1>0, <1>1, <1>2 DEF EvidenceInv, AttemptsOwnSending, Active, Calmed
<1>7. SavesCarryIntent'
  BY <1>0, <1>1, ExtendsKeeps DEF EvidenceInv, SavesCarryIntent, Active
<1>8. DurableIsSafe'
  BY <1>0, <1>1 DEF EvidenceInv, DurableIsSafe, Durable, DurableAttempt
<1>9. HeldIsSafe'
  <2>1. mayHold \subseteq Ids
    BY DEF EvidenceInv, TypeOK
  <2>2. ASSUME NEW j \in mayHold \ {i}
        PROVE  /\ Safe(ops'[j]) /\ Safe(disk[j]) /\ Safe(captured[j])
               /\ Active(j)' => Remembers(j)'
    <3>1. Safe(ops[j]) /\ Safe(disk[j]) /\ Safe(captured[j])
          /\ (Active(j) => Remembers(j))
      BY <2>2 DEF EvidenceInv, HeldIsSafe
    <3>2. Active(j)' => Remembers(j)'
      BY <1>1, <1>2, <2>1, <3>1 DEF Remembers, Active, Calmed
    <3> QED BY <1>2, <2>1, <3>1, <3>2 DEF Calmed
  <2>3. i \in mayHold' => /\ Safe(ops'[i]) /\ Safe(disk[i]) /\ Safe(captured[i])
                         /\ ~Active(i)'
    BY <1>0, <1>1, <1>2 DEF EvidenceInv, HeldIsSafe, DurableIsSafe, Active
  <2> QED BY <1>0, <2>1, <2>2, <2>3 DEF HeldIsSafe
<1> QED BY <1>3, <1>4, <1>5, <1>6, <1>7, <1>8, <1>9 DEF EvidenceInv

----------------------------------------------------------------------------
\* The stages of an attempt.

\* Attempt i becomes a, which is durable only if the attempt was; its record r keeps
\* the status or is seen; slots may be passed on.
Moves(i, a, r) ==
  /\ UNCHANGED <<saving, captured, disk, used, journal, closed>>
  /\ Active(i) /\ a.stage # "idle" /\ a.prev = attempts[i].prev
  /\ DurableAttempt(a) => Durable(i)
  /\ attempts[i].stage = "publish" => a.stage = "publish"
  /\ ops' = [ops EXCEPT ![i] = r]
  /\ r.place = ops[i].place /\ r.acked = ops[i].acked
  /\ r.delivery \in {ops[i].delivery, "seen"}
  /\ \/ mayHold' = mayHold
     \/ /\ mayHold' = mayHold \cup {i} /\ r.delivery = "seen"
        /\ i \in mayHold \/ attempts[i].stage = "publish"
  /\ \E q \in Seq(Job) :
       /\ Extends(jobs, q) /\ Continues([attempts EXCEPT ![i] = a], q)
       /\ a.wait = "pending" => attempts[i].wait = "pending" \/ QueuedFor(q, i)

\* Such a step keeps the invariant.
LEMMA MovesKeepEvidence ==
  ASSUME EvidenceInv, TypeOK', NEW i \in Ids, NEW a \in Attempt, NEW r \in Op,
         Moves(i, a, r)
  PROVE  EvidenceInv'
<1>0. /\ UNCHANGED <<saving, captured, disk, used, journal, closed>>
      /\ Active(i) /\ a.stage # "idle" /\ a.prev = attempts[i].prev
      /\ DurableAttempt(a) => Durable(i)
      /\ attempts[i].stage = "publish" => a.stage = "publish"
      /\ r.place = ops[i].place /\ r.acked = ops[i].acked
      /\ r.delivery \in {ops[i].delivery, "seen"}
      /\ \/ mayHold' = mayHold
         \/ /\ mayHold' = mayHold \cup {i} /\ r.delivery = "seen"
            /\ i \in mayHold \/ attempts[i].stage = "publish"
  BY DEF Moves
<1>1. /\ Extends(jobs, jobs')
      /\ \A j \in Ids :
           /\ attempts'[j].prev = attempts[j].prev
           /\ attempts'[j].stage = "idle" <=> attempts[j].stage = "idle"
           /\ attempts[j].stage = "publish" => attempts'[j].stage = "publish"
           /\ DurableAttempt(attempts'[j]) => DurableAttempt(attempts[j])
           /\ \/ attempts'[j].wait = "pending" => attempts[j].wait = "pending"
              \/ attempts[j].stage # "idle" /\ QueuedFor(jobs', j)
  <2>1. PICK q \in Seq(Job) :
          /\ Extends(jobs, q) /\ Continues([attempts EXCEPT ![i] = a], q)
          /\ a.wait = "pending" => attempts[i].wait = "pending" \/ QueuedFor(q, i)
    BY DEF Moves
  <2>2. jobs \in Seq(Job) /\ jobs' \in Seq(Job) /\ attempts \in [Ids -> Attempt]
    BY DEF EvidenceInv, TypeOK
  <2>3. Extends(q, jobs')
    BY <2>1 DEF Continues
  <2>4. Extends(jobs, jobs')
    BY <2>1, <2>2, <2>3, ExtendsTwice
  <2>5. a.wait = "pending" => attempts[i].wait = "pending" \/ QueuedFor(jobs', i)
    BY <2>1, <2>3, ExtendsKeeps
  <2>6. ASSUME NEW j \in Ids \ {i}
        PROVE  /\ attempts'[j].prev = attempts[j].prev
               /\ attempts'[j].stage = "idle" <=> attempts[j].stage = "idle"
               /\ attempts[j].stage = "publish" => attempts'[j].stage = "publish"
               /\ DurableAttempt(attempts'[j]) => DurableAttempt(attempts[j])
               /\ \/ attempts'[j].wait = "pending" => attempts[j].wait = "pending"
                  \/ attempts[j].stage # "idle" /\ QueuedFor(jobs', j)
    BY <2>1, <2>2 DEF Continues
  <2>7. /\ attempts'[i].prev = attempts[i].prev
        /\ attempts'[i].stage = "idle" <=> attempts[i].stage = "idle"
        /\ attempts[i].stage = "publish" => attempts'[i].stage = "publish"
        /\ DurableAttempt(attempts'[i]) => DurableAttempt(attempts[i])
        /\ \/ attempts'[i].wait = "pending" => attempts[i].wait = "pending"
           \/ attempts[i].stage # "idle" /\ QueuedFor(jobs', i)
    BY <1>0, <2>1, <2>2, <2>5 DEF Continues, Active, Durable
  <2> QED BY <2>4, <2>6, <2>7
<1>2. /\ \A j \in Ids \ {i} : ops'[j] = ops[j]
      /\ ops'[i] = r
  BY DEF Moves, EvidenceInv, TypeOK
<1>3. IdsAreFresh'
  BY <1>0, <1>1, <1>2 DEF EvidenceInv, IdsAreFresh, Active
<1>4. LoadingIsApart'
  BY <1>0, <1>1, <1>2 DEF EvidenceInv, LoadingIsApart, Active
<1>5. ReplacementsAreNew'
  <2>1. \A j \in Ids, n \in DOMAIN jobs' : Replaces(jobs'[n], j)
                                           => n \in DOMAIN jobs /\ Replaces(jobs[n], j)
    BY <1>1, ExtendsKeeps
  <2> QED BY <1>0, <1>1, <1>2, <2>1 DEF EvidenceInv, ReplacementsAreNew, Active
<1>6. AttemptsOwnSending'
  BY <1>0, <1>1, <1>2 DEF EvidenceInv, AttemptsOwnSending, Active, Safe
<1>7. SavesCarryIntent'
  BY <1>0, <1>1, ExtendsKeeps DEF EvidenceInv, SavesCarryIntent, Active
<1>8. DurableIsSafe'
  BY <1>0, <1>1 DEF EvidenceInv, DurableIsSafe, Durable
<1>9. HeldIsSafe'
  <2>1. mayHold \subseteq Ids
    BY DEF EvidenceInv, TypeOK
  <2>2. ASSUME NEW j \in mayHold
        PROVE  /\ Safe(ops'[j]) /\ Safe(disk[j]) /\ Safe(captured[j])
               /\ Active(j)' => Remembers(j)'
    <3>1. Safe(ops[j]) /\ Safe(disk[j]) /\ Safe(captured[j])
          /\ (Active(j) => Remembers(j))
      BY DEF EvidenceInv, HeldIsSafe
    <3>2. Active(j)' => Remembers(j)'
      BY <1>0, <1>1, <1>2, <2>1, <3>1 DEF Remembers, Active
    <3> QED BY <1>0, <1>2, <2>1, <3>1, <3>2 DEF Safe
  <2>3. i \in mayHold' \ mayHold =>
          /\ Safe(ops'[i]) /\ Safe(disk[i]) /\ Safe(captured[i]) /\ Remembers(i)'
    <3> SUFFICES ASSUME i \in mayHold' \ mayHold
                 PROVE  /\ Safe(ops'[i]) /\ Safe(disk[i]) /\ Safe(captured[i])
                        /\ Remembers(i)'
      OBVIOUS
    <3>1. attempts[i].stage = "publish" /\ r.delivery = "seen"
      BY <1>0
    <3>2. Durable(i)
      BY <3>1 DEF Durable, DurableAttempt
    <3> QED BY <1>1, <1>2, <3>1, <3>2 DEF EvidenceInv, DurableIsSafe, Remembers, Safe
  <2> QED BY <1>0, <2>1, <2>2, <2>3 DEF HeldIsSafe
<1> QED BY <1>3, <1>4, <1>5, <1>6, <1>7, <1>8, <1>9 DEF EvidenceInv

\* Attempt i starts: of an id never used, or of a pending record that is sent again.
Starts(i, prev, wait, r) ==
  /\ UNCHANGED <<saving, captured, disk, mayHold, journal, closed>>
  /\ used' = used \cup {i}
  /\ ~Active(i) /\ ~closed
  /\ i \notin used \/ (ops[i].place = "pending" /\ prev = ops[i].delivery)
  /\ ops' = [ops EXCEPT ![i] = r]
  /\ r.place = "pending" /\ r.delivery = "sending"
  /\ \E q \in Seq(Job) :
       /\ Extends(jobs, q)
       /\ Continues([attempts EXCEPT ![i] = [stage |-> "queued", prev |-> prev,
                                             wait |-> wait]], q)
       /\ wait = "none" \/ (wait = "pending" /\ QueuedFor(q, i))

\* Such a step keeps the invariant.
LEMMA StartsKeepEvidence ==
  ASSUME EvidenceInv, TypeOK', NEW i \in Ids, NEW prev \in Deliveries,
         NEW wait \in {"none", "pending"}, NEW r \in Op, Starts(i, prev, wait, r)
  PROVE  EvidenceInv'
<1>0. /\ UNCHANGED <<saving, captured, disk, mayHold, journal, closed>>
      /\ used' = used \cup {i}
      /\ ~Active(i) /\ ~closed
      /\ i \notin used \/ (ops[i].place = "pending" /\ prev = ops[i].delivery)
      /\ r.place = "pending" /\ r.delivery = "sending"
  BY DEF Starts
<1>1. /\ Extends(jobs, jobs')
      /\ \A j \in Ids \ {i} :
           /\ attempts'[j].prev = attempts[j].prev
           /\ attempts'[j].stage = "idle" <=> attempts[j].stage = "idle"
           /\ attempts'[j].stage = "publish" <=> attempts[j].stage = "publish"
           /\ DurableAttempt(attempts'[j]) <=> DurableAttempt(attempts[j])
           /\ \/ attempts'[j].wait = attempts[j].wait
              \/ attempts[j].stage = "queued" /\ QueuedFor(jobs', j)
      /\ attempts'[i].prev = prev /\ attempts'[i].stage \notin {"idle", "publish"}
      /\ ~DurableAttempt(attempts'[i])
      /\ attempts'[i].wait = "pending" => QueuedFor(jobs', i)
  <2> DEFINE att == [attempts EXCEPT ![i] = [stage |-> "queued", prev |-> prev,
                                             wait |-> wait]]
  <2>1. PICK q \in Seq(Job) : /\ Extends(jobs, q) /\ Continues(att, q)
                              /\ wait = "none" \/ (wait = "pending" /\ QueuedFor(q, i))
    BY DEF Starts
  <2>2. jobs \in Seq(Job) /\ jobs' \in Seq(Job) /\ attempts \in [Ids -> Attempt]
    BY DEF EvidenceInv, TypeOK
  <2>3. Extends(q, jobs')
    BY <2>1 DEF Continues
  <2>4. Extends(jobs, jobs')
    BY <2>1, <2>2, <2>3, ExtendsTwice
  <2>5. wait = "pending" => QueuedFor(jobs', i)
    BY <2>1, <2>3, ExtendsKeeps
  <2>6. /\ att[i].prev = prev /\ att[i].stage = "queued" /\ att[i].wait = wait
        /\ \A j \in Ids \ {i} : att[j] = attempts[j]
    BY <2>2
  <2> HIDE DEF att
  <2> QED BY <2>1, <2>4, <2>5, <2>6 DEF Continues, DurableAttempt
<1>2. /\ \A j \in Ids \ {i} : ops'[j] = ops[j]
      /\ ops'[i] = r
  BY DEF Starts, EvidenceInv, TypeOK
<1>3. IdsAreFresh'
  BY <1>0, <1>1, <1>2 DEF EvidenceInv, IdsAreFresh, Active
<1>4. LoadingIsApart'
  BY <1>0, <1>1, <1>2 DEF EvidenceInv, LoadingIsApart, IdsAreFresh, Active
<1>5. ReplacementsAreNew'
  <2>1. \A j \in Ids, n \in DOMAIN jobs' : Replaces(jobs'[n], j)
                                           => n \in DOMAIN jobs /\ Replaces(jobs[n], j)
    BY <1>1, ExtendsKeeps
  <2> QED BY <1>0, <1>1, <1>2, <2>1 DEF EvidenceInv, ReplacementsAreNew, Active
<1>6. AttemptsOwnSending'
  BY <1>0, <1>1, <1>2 DEF EvidenceInv, AttemptsOwnSending, Active, Safe
<1>7. SavesCarryIntent'
  BY <1>0, <1>1, ExtendsKeeps DEF EvidenceInv, SavesCarryIntent, Active
<1>8. DurableIsSafe'
  BY <1>0, <1>1 DEF EvidenceInv, DurableIsSafe, Durable
<1>9. HeldIsSafe'
  <2>1. mayHold \subseteq Ids /\ ops[i] \in Op
    BY DEF EvidenceInv, TypeOK
  <2>2. i \in mayHold => prev \in {"unknown", "accepted", "seen"}
    <3> SUFFICES ASSUME i \in mayHold PROVE prev \in {"unknown", "accepted", "seen"}
      OBVIOUS
    <3>1. ops[i].place = "pending" /\ prev = ops[i].delivery
      BY <1>0 DEF EvidenceInv, IdsAreFresh
    <3>2. prev # "sending" /\ prev # "failed"
      BY <1>0, <3>1 DEF EvidenceInv, AttemptsOwnSending, HeldIsSafe, Safe
    <3> QED BY <3>2 DEF Deliveries
  <2> QED BY <1>0, <1>1, <1>2, <2>1, <2>2
          DEF EvidenceInv, HeldIsSafe, Remembers, Active, Safe
<1> QED BY <1>3, <1>4, <1>5, <1>6, <1>7, <1>8, <1>9 DEF EvidenceInv

----------------------------------------------------------------------------
\* Steps that start, move and end no attempt.

\* Records may be evicted, saves may be queued, the journal may turn out broken.
Rests ==
  /\ UNCHANGED <<attempts, saving, captured, disk, used, mayHold, closed>>
  /\ journal' = journal \/ (journal' # "loading" /\ journal = "loading")
  /\ Calmer(ops, ops') /\ Extends(jobs, jobs')

\* Such a step keeps the invariant.
LEMMA RestsKeepEvidence ==
  ASSUME EvidenceInv, TypeOK', Rests
  PROVE  EvidenceInv'
<1>0. /\ UNCHANGED <<attempts, saving, captured, disk, used, mayHold, closed>>
      /\ journal' = journal \/ (journal' # "loading" /\ journal = "loading")
  BY DEF Rests
<1>1. \A j \in Ids, n \in DOMAIN jobs' : Replaces(jobs'[n], j)
                                         => n \in DOMAIN jobs /\ Replaces(jobs[n], j)
  BY ExtendsKeeps DEF Rests
<1>2. \A j \in Ids : QueuedFor(jobs, j) => QueuedFor(jobs', j)
  BY ExtendsKeeps DEF Rests
<1>3. \A j \in Ids : Calmed(ops[j], ops'[j])
  BY CalmerFacts DEF Rests
<1>4. IdsAreFresh'
  BY <1>0, <1>3 DEF EvidenceInv, IdsAreFresh, Active, Calmed
<1>5. LoadingIsApart'
  BY <1>0, <1>3 DEF EvidenceInv, LoadingIsApart, Active, Calmed
<1>6. ReplacementsAreNew'
  BY <1>0, <1>1, <1>3 DEF EvidenceInv, ReplacementsAreNew, Active, Calmed
<1>7. AttemptsOwnSending'
  BY <1>0, <1>3 DEF EvidenceInv, AttemptsOwnSending, Active, Calmed
<1>8. SavesCarryIntent'
  BY <1>0, <1>2 DEF EvidenceInv, SavesCarryIntent, Active
<1>9. DurableIsSafe'
  BY <1>0 DEF EvidenceInv, DurableIsSafe, Durable
<1>10. HeldIsSafe'
  <2>1. mayHold \subseteq Ids
    BY DEF EvidenceInv, TypeOK
  <2> QED BY <1>0, <1>3, <2>1 DEF EvidenceInv, HeldIsSafe, Remembers, Active, Calmed
<1> QED BY <1>4, <1>5, <1>6, <1>7, <1>8, <1>9, <1>10 DEF EvidenceInv

\* A save starts: what it captures claims a failure only where the snapshot does.
LEMMA CaptureSafe ==
  ASSUME ops \in [Ids -> Op], NEW job \in Job, NEW j \in Ids
  PROVE  /\ Safe(ops[j]) => Safe(Capture(job)[j])
         /\ Capture(job)[j].place # "absent" => ops[j].place # "absent" \/ Replaces(job, j)
<1>1. Safe(NoOp) /\ NoOp.place = "absent"
  BY DEF NoOp, Safe
<1>2. ASSUME NEW i \in Ids
      PROVE  /\ Safe(ops[j]) => Safe(Acknowledged(ops, i)[j])
             /\ Acknowledged(ops, i)[j].place # "absent" => ops[j].place # "absent"
  BY DEF Acknowledged, Has, Safe, Op
<1>3. \A k : Safe(Fresh(k, FALSE))
  BY DEF Fresh, NoOp, Safe
<1>4. CASE job.kind = "dismiss"
  BY <1>1, <1>4 DEF Capture, Job
<1>5. CASE job.kind = "acknowledge"
  BY <1>2, <1>5 DEF Capture, Job
<1>6. CASE job.kind = "retire"
  <2> DEFINE cleared == Acknowledged(ops, job.id)
  <2>1. job.id \in Ids /\ job.next \in Ids \cup {NoId}
    BY <1>6, OutboxAssumption DEF Job
  <2>2. cleared \in [Ids -> Op]
    BY <2>1, AcknowledgedType
  <2>3. Capture(job) = IF job.next = NoId THEN cleared
                       ELSE [cleared EXCEPT ![job.next] = Fresh(job.key, FALSE)]
    BY <1>6 DEF Capture
  <2>4. /\ Safe(ops[j]) => Safe(cleared[j])
        /\ cleared[j].place # "absent" => ops[j].place # "absent"
    BY <1>2, <2>1
  <2> HIDE DEF cleared
  <2> QED BY <1>3, <1>6, <2>2, <2>3, <2>4 DEF Replaces
<1>7. CASE job.kind \in {"none", "status", "attempt", "recover"}
  BY <1>7 DEF Capture
<1> QED BY <1>4, <1>5, <1>6, <1>7 DEF Job

\* The first save of the queue is taken: what stays is what was behind it.
LEMMA TailFacts ==
  ASSUME NEW q \in Seq(Job), q # <<>>
  PROVE  /\ Head(q) = q[1] /\ 1 \in DOMAIN q
         /\ \A n \in DOMAIN Tail(q) : n + 1 \in DOMAIN q /\ Tail(q)[n] = q[n + 1]
         /\ \A n \in DOMAIN q : n # 1 => n - 1 \in DOMAIN Tail(q) /\ Tail(q)[n - 1] = q[n]
         /\ \A n \in DOMAIN q : n \in Nat
OBVIOUS

\* A save of an attempt is the first of the queue or behind it.
LEMMA QueuedBehind ==
  ASSUME NEW q \in Seq(Job), q # <<>>, NEW i \in Ids, QueuedFor(q, i)
  PROVE  (Head(q).kind = "attempt" /\ Head(q).id = i) \/ QueuedFor(Tail(q), i)
<1>1. PICK n \in DOMAIN q : q[n].kind = "attempt" /\ q[n].id = i
  BY DEF QueuedFor
<1>2. CASE n = 1
  BY <1>1, <1>2, TailFacts
<1>3. CASE n # 1
  <2>1. n - 1 \in DOMAIN Tail(q) /\ Tail(q)[n - 1] = q[n]
    BY <1>3, TailFacts
  <2> QED BY <1>1, <2>1 DEF QueuedFor
<1> QED BY <1>2, <1>3

\* The start of a save keeps the invariant.
LEMMA SaveStartsKeepsEvidence ==
  ASSUME EvidenceInv, TypeOK', SaveStarts
  PROVE  EvidenceInv'
<1>0. /\ journal = "open" /\ saving = NoJob /\ jobs # <<>>
      /\ saving' = Head(jobs) /\ captured' = Capture(Head(jobs)) /\ jobs' = Tail(jobs)
      /\ UNCHANGED <<ops, attempts, journal, closed, disk, used, mayHold>>
  BY DEF SaveStarts, history
<1>1. /\ ops \in [Ids -> Op] /\ jobs \in Seq(Job) /\ Head(jobs) \in Job
      /\ mayHold \subseteq Ids
  BY <1>0 DEF EvidenceInv, TypeOK
<1>2. \A j \in Ids :
        /\ Safe(ops[j]) => Safe(captured'[j])
        /\ captured'[j].place # "absent" => ops[j].place # "absent" \/ Replaces(saving', j)
  BY <1>0, <1>1, CaptureSafe
<1>3. /\ saving' = jobs[1] /\ 1 \in DOMAIN jobs
      /\ \A n \in DOMAIN jobs' : n + 1 \in DOMAIN jobs /\ jobs'[n] = jobs[n + 1] /\ n \in Nat
                               /\ n # 0
      /\ \A j \in Ids : QueuedFor(jobs, j) => \/ saving'.kind = "attempt" /\ saving'.id = j
                                             \/ QueuedFor(jobs', j)
  BY <1>0, <1>1, TailFacts, QueuedBehind
<1>4. IdsAreFresh'
  BY <1>0, <1>2, <1>3 DEF EvidenceInv, IdsAreFresh, ReplacementsAreNew, Active
<1>5. LoadingIsApart'
  BY <1>0 DEF LoadingIsApart
<1>6. ReplacementsAreNew'
  <2>1. ASSUME NEW j \in Ids, Replaces(saving', j) \/ \E n \in DOMAIN jobs' : Replaces(jobs'[n], j)
        PROVE  \E n \in DOMAIN jobs : Replaces(jobs[n], j)
    BY <1>3, <2>1
  <2>2. ASSUME NEW j \in Ids, NEW n \in DOMAIN jobs', Replaces(jobs'[n], j)
        PROVE  /\ ~Replaces(saving', j)
               /\ \A m \in DOMAIN jobs' : Replaces(jobs'[m], j) => m = n
    <3>1. /\ n + 1 \in DOMAIN jobs /\ Replaces(jobs[n + 1], j) /\ n + 1 # 1
      BY <1>3, <2>2
    <3>2. \A m \in DOMAIN jobs : Replaces(jobs[m], j) => m = n + 1
      BY <3>1 DEF EvidenceInv, ReplacementsAreNew
    <3>3. ASSUME NEW m \in DOMAIN jobs', Replaces(jobs'[m], j)
          PROVE  m = n
      <4>1. m + 1 = n + 1 /\ m \in Nat /\ n \in Nat
        BY <1>3, <3>2, <3>3
      <4> QED BY <4>1
    <3> QED BY <1>3, <3>1, <3>2, <3>3
  <2> QED BY <1>0, <2>1, <2>2 DEF EvidenceInv, ReplacementsAreNew, Active
<1>7. AttemptsOwnSending'
  BY <1>0 DEF EvidenceInv, AttemptsOwnSending, Active
<1>8. SavesCarryIntent'
  <2>1. NoJob.kind # "attempt"
    BY DEF NoJob, JobOf
  <2> QED BY <1>0, <1>2, <1>3, <2>1
          DEF EvidenceInv, SavesCarryIntent, AttemptsOwnSending, Active
<1>9. DurableIsSafe'
  BY <1>0, <1>2 DEF EvidenceInv, DurableIsSafe, AttemptsOwnSending, Durable,
                    DurableAttempt, Active
<1>10. HeldIsSafe'
  BY <1>0, <1>1, <1>2 DEF EvidenceInv, HeldIsSafe, Remembers, Active
<1> QED BY <1>4, <1>5, <1>6, <1>7, <1>8, <1>9, <1>10 DEF EvidenceInv

----------------------------------------------------------------------------
\* The end of a save.

\* Telling an attempt of its save changes what it waits for, and nothing else.
LEMMA ToldFacts ==
  ASSUME attempts \in [Ids -> Attempt], NEW i \in Ids, NEW result \in {"done", "failed"},
         NEW q
  PROVE  /\ \A j \in Ids : /\ Told(i, result, q)[j].prev = attempts[j].prev
                          /\ Told(i, result, q)[j].stage = attempts[j].stage
         /\ \A j \in Ids \ {i} : Told(i, result, q)[j] = attempts[j]
         /\ \/ /\ Told(i, result, q)[i] = attempts[i]
               /\ attempts[i].wait = "pending" => QueuedFor(q, i)
            \/ /\ Told(i, result, q)[i].wait = result
               /\ attempts[i].wait = "pending" /\ ~QueuedFor(q, i)
<1>1. CASE attempts[i].wait = "pending" /\ ~QueuedFor(q, i)
  <2>1. Told(i, result, q) = [attempts EXCEPT ![i].wait = result]
    BY <1>1 DEF Told, QueuedFor
  <2>2. /\ [attempts[i] EXCEPT !.wait = result].wait = result
        /\ [attempts[i] EXCEPT !.wait = result].stage = attempts[i].stage
        /\ [attempts[i] EXCEPT !.wait = result].prev = attempts[i].prev
    BY DEF Attempt
  <2> QED BY <1>1, <2>1, <2>2
<1>2. CASE ~(attempts[i].wait = "pending" /\ ~QueuedFor(q, i))
  BY <1>2 DEF Told, QueuedFor
<1> QED BY <1>1, <1>2

\* A finished save is on disk, tells its attempt and settles records.
Commits ==
  /\ saving.kind # "none" /\ Written
  /\ UNCHANGED <<jobs, used, mayHold, journal, closed>>
  /\ Calmer(ops, ops')
  /\ \/ saving.kind # "attempt" /\ UNCHANGED attempts
     \/ saving.kind = "attempt" /\ attempts' = Told(saving.id, "done", jobs)

\* Such a step keeps the invariant.
LEMMA CommitsKeepEvidence ==
  ASSUME EvidenceInv, TypeOK', Commits
  PROVE  EvidenceInv'
<1>0. /\ saving # NoJob /\ saving' = NoJob /\ captured' = Empty /\ disk' = captured
      /\ UNCHANGED <<jobs, used, mayHold, journal, closed>>
  BY DEF Commits, Written, NoJob, JobOf
<1>1. /\ \A j \in Ids : Empty[j].place = "absent" /\ Safe(Empty[j])
      /\ \A j \in Ids : ~Replaces(saving', j)
      /\ mayHold \subseteq Ids /\ attempts \in [Ids -> Attempt]
  BY <1>0 DEF Empty, NoOp, Safe, NoJob, JobOf, Replaces, EvidenceInv, TypeOK
<1>2. \A j \in Ids : Calmed(ops[j], ops'[j])
  BY CalmerFacts DEF Commits
<1>3. \A j \in Ids :
        /\ attempts'[j].prev = attempts[j].prev /\ attempts'[j].stage = attempts[j].stage
        /\ attempts'[j].wait = "pending" => attempts[j].wait = "pending" /\ QueuedFor(jobs, j)
        /\ \/ attempts'[j] = attempts[j]
           \/ Safe(captured[j]) /\ attempts[j].stage # "idle"
  <2>1. CASE saving.kind # "attempt"
    <3>1. attempts' = attempts
      BY <2>1 DEF Commits
    <3> QED BY <2>1, <3>1 DEF EvidenceInv, SavesCarryIntent
  <2>2. CASE saving.kind = "attempt"
    <3>1. attempts' = Told(saving.id, "done", jobs) /\ saving.id \in Ids
      BY <2>2 DEF Commits, EvidenceInv, TypeOK, Job
    <3>2. \A j \in Ids : attempts[j].wait = "pending" =>
            attempts[j].stage # "idle" /\ (QueuedFor(jobs, j) \/ (saving.id = j /\ Safe(captured[j])))
      BY DEF EvidenceInv, SavesCarryIntent, Active
    <3> QED BY <1>1, <3>1, <3>2, ToldFacts
  <2> QED BY <2>1, <2>2
<1>4. IdsAreFresh'
  BY <1>0, <1>1, <1>2, <1>3 DEF EvidenceInv, IdsAreFresh, Active, Calmed
<1>5. LoadingIsApart'
  BY <1>0 DEF EvidenceInv, LoadingIsApart
<1>6. ReplacementsAreNew'
  BY <1>0, <1>1, <1>2, <1>3 DEF EvidenceInv, ReplacementsAreNew, Active, Calmed
<1>7. AttemptsOwnSending'
  BY <1>0, <1>2, <1>3 DEF EvidenceInv, AttemptsOwnSending, Active, Calmed
<1>8. SavesCarryIntent'
  BY <1>0, <1>3 DEF EvidenceInv, SavesCarryIntent, Active
<1>9. DurableIsSafe'
  BY <1>0, <1>1, <1>3 DEF EvidenceInv, DurableIsSafe, Durable, DurableAttempt
<1>10. HeldIsSafe'
  BY <1>0, <1>1, <1>2, <1>3 DEF EvidenceInv, HeldIsSafe, Remembers, Active, Calmed
<1> QED BY <1>4, <1>5, <1>6, <1>7, <1>8, <1>9, <1>10 DEF EvidenceInv

\* A save that fails or is refused tells its attempt; the disk keeps what it has.
Abandons ==
  /\ UNCHANGED <<ops, disk, used, mayHold, journal, closed>>
  /\ \/ /\ FailJob(saving, jobs)
        /\ saving' = NoJob /\ captured' = Empty /\ jobs' = jobs
     \/ /\ jobs # <<>> /\ FailJob(Head(jobs), Tail(jobs))
        /\ jobs' = Tail(jobs) /\ UNCHANGED <<saving, captured>>

\* Such a step keeps the invariant.
LEMMA AbandonsKeepEvidence ==
  ASSUME EvidenceInv, TypeOK', Abandons
  PROVE  EvidenceInv'
<1>0. /\ UNCHANGED <<ops, disk, used, mayHold, journal, closed>>
      /\ mayHold \subseteq Ids /\ attempts \in [Ids -> Attempt] /\ jobs \in Seq(Job)
      /\ saving \in Job
  BY DEF Abandons, EvidenceInv, TypeOK
<1>1. /\ \A j \in Ids : Empty[j].place = "absent" /\ Safe(Empty[j])
      /\ \A j \in Ids : ~Replaces(NoJob, j)
  BY DEF Empty, NoOp, Safe, NoJob, JobOf, Replaces
<1>2. /\ \/ saving' = saving /\ captured' = captured
         \/ saving' = NoJob /\ captured' = Empty
      /\ \A j \in Ids :
           /\ attempts'[j].prev = attempts[j].prev /\ attempts'[j].stage = attempts[j].stage
           /\ attempts'[j].wait = "done" => attempts[j].wait = "done"
           /\ attempts'[j].wait = "pending" =>
                /\ attempts[j].wait = "pending"
                /\ \/ QueuedFor(jobs', j)
                   \/ saving'.kind = "attempt" /\ saving'.id = j /\ Safe(captured'[j])
  <2>1. \A j \in Ids : attempts[j].wait = "pending" =>
          \/ QueuedFor(jobs, j)
          \/ saving.kind = "attempt" /\ saving.id = j /\ Safe(captured[j])
    BY DEF EvidenceInv, SavesCarryIntent
  <2>2. CASE /\ FailJob(saving, jobs)
             /\ saving' = NoJob /\ captured' = Empty /\ jobs' = jobs
    <3>1. CASE saving.kind # "attempt"
      BY <2>1, <2>2, <3>1 DEF FailJob
    <3>2. CASE saving.kind = "attempt"
      <4>1. attempts' = Told(saving.id, "failed", jobs) /\ saving.id \in Ids
        BY <1>0, <2>2, <3>2 DEF FailJob, Job
      <4> QED BY <1>0, <2>1, <2>2, <4>1, ToldFacts
    <3> QED BY <3>1, <3>2
  <2>3. CASE /\ jobs # <<>> /\ FailJob(Head(jobs), Tail(jobs))
             /\ jobs' = Tail(jobs) /\ UNCHANGED <<saving, captured>>
    <3>1. Head(jobs) \in Job
      BY <1>0, <2>3
    <3>2. \A j \in Ids : QueuedFor(jobs, j) =>
            (Head(jobs).kind = "attempt" /\ Head(jobs).id = j) \/ QueuedFor(jobs', j)
      BY <1>0, <2>3, QueuedBehind
    <3>3. CASE Head(jobs).kind # "attempt"
      BY <2>1, <2>3, <3>2, <3>3 DEF FailJob
    <3>4. CASE Head(jobs).kind = "attempt"
      <4>1. attempts' = Told(Head(jobs).id, "failed", jobs') /\ Head(jobs).id \in Ids
        BY <2>3, <3>1, <3>4 DEF FailJob, Job
      <4> QED BY <1>0, <2>1, <2>3, <3>2, <4>1, ToldFacts
    <3> QED BY <3>3, <3>4
  <2> QED BY <2>2, <2>3 DEF Abandons
<1>3. \/ jobs' = jobs
      \/ /\ jobs # <<>> /\ saving' = saving
         /\ \A n \in DOMAIN jobs' : n + 1 \in DOMAIN jobs /\ jobs'[n] = jobs[n + 1] /\ n \in Nat
  <2>1. jobs # <<>> /\ jobs' = Tail(jobs) => \A n \in DOMAIN jobs' : n \in Nat
    BY <1>0
  <2> QED BY <1>0, <2>1, TailFacts DEF Abandons
<1>4. IdsAreFresh'
  BY <1>0, <1>1, <1>2 DEF EvidenceInv, IdsAreFresh, Active
<1>5. LoadingIsApart'
  BY <1>0, <1>2 DEF EvidenceInv, LoadingIsApart, Active
<1>6. ReplacementsAreNew'
  <2>1. \A j \in Ids : Replaces(saving', j) => Replaces(saving, j)
    BY <1>1, <1>2
  <2>2. CASE jobs' = jobs
    BY <1>0, <1>2, <2>1, <2>2 DEF EvidenceInv, ReplacementsAreNew, Active
  <2>3. CASE \A n \in DOMAIN jobs' : n + 1 \in DOMAIN jobs /\ jobs'[n] = jobs[n + 1] /\ n \in Nat
    <3>1. ASSUME NEW j \in Ids, NEW n \in DOMAIN jobs', Replaces(jobs'[n], j)
          PROVE  /\ ~Replaces(saving', j)
                 /\ \E m \in DOMAIN jobs : Replaces(jobs[m], j)
                 /\ \A m \in DOMAIN jobs' : Replaces(jobs'[m], j) => m = n
      <4>1. n + 1 \in DOMAIN jobs /\ Replaces(jobs[n + 1], j) /\ n \in Nat
        BY <2>3, <3>1
      <4>2. \A m \in DOMAIN jobs : Replaces(jobs[m], j) => m = n + 1
        BY <4>1 DEF EvidenceInv, ReplacementsAreNew
      <4>3. ASSUME NEW m \in DOMAIN jobs', Replaces(jobs'[m], j) PROVE m = n
        <5>1. m + 1 = n + 1 /\ m \in Nat
          BY <2>3, <4>2, <4>3
        <5> QED BY <4>1, <5>1
      <4> QED BY <2>1, <4>1, <4>3 DEF EvidenceInv, ReplacementsAreNew
    <3> QED BY <1>0, <1>2, <2>1, <3>1 DEF EvidenceInv, ReplacementsAreNew, Active
  <2> QED BY <1>3, <2>2, <2>3
<1>7. AttemptsOwnSending'
  BY <1>0, <1>2 DEF EvidenceInv, AttemptsOwnSending, Active
<1>8. SavesCarryIntent'
  BY <1>2 DEF EvidenceInv, SavesCarryIntent, Active
<1>9. DurableIsSafe'
  BY <1>0, <1>1, <1>2 DEF EvidenceInv, DurableIsSafe, Durable, DurableAttempt
<1>10. HeldIsSafe'
  BY <1>0, <1>1, <1>2 DEF EvidenceInv, HeldIsSafe, Remembers, Active
<1> QED BY <1>4, <1>5, <1>6, <1>7, <1>8, <1>9, <1>10 DEF EvidenceInv

\* A retirement that is saved brings its replacement, which nobody knew.
LEMMA RetireSavedKeepsEvidence ==
  ASSUME EvidenceInv, TypeOK', RetireSaved, saving.next # NoId
  PROVE  EvidenceInv'
<1> DEFINE n == saving.next
           joined == [ops EXCEPT ![n] = Fresh(saving.key, FALSE)]
<1>0. /\ saving.kind = "retire" /\ saving # NoJob /\ saving' = NoJob /\ captured' = Empty
      /\ disk' = captured /\ UNCHANGED <<used, mayHold, journal, closed>>
  BY DEF RetireSaved, Written, history, NoJob, JobOf
<1>1. /\ n \in Ids /\ saving.id \in Ids /\ saving.key \in Keys \cup {NoKey}
      /\ jobs \in Seq(Job) /\ attempts \in [Ids -> Attempt] /\ ops \in [Ids -> Op]
      /\ mayHold \subseteq Ids
  BY <1>0, OutboxAssumption DEF EvidenceInv, TypeOK, Job
<1>2. /\ Replaces(saving, n) /\ n \in used \ mayHold /\ attempts[n].stage = "idle"
      /\ \A m \in DOMAIN jobs : ~Replaces(jobs[m], n)
      /\ journal # "loading"
  BY <1>0, <1>1 DEF EvidenceInv, ReplacementsAreNew, Replaces, Active
<1>3. /\ \A j \in Ids : Empty[j].place = "absent" /\ Safe(Empty[j])
      /\ \A j \in Ids : ~Replaces(saving', j)
  BY <1>0 DEF Empty, NoOp, Safe, NoJob, JobOf, Replaces
<1>4. /\ \A j \in Ids \ {n} : Calmed(ops[j], ops'[j])
      /\ Safe(ops'[n])
  <2>1. joined \in [Ids -> Op]
    BY <1>1, InitialValues
  <2>2. ops' \in Released(joined, saving.id)
    BY DEF RetireSaved
  <2>3. joined[n].delivery = "sending" /\ \A j \in Ids \ {n} : joined[j] = ops[j]
    BY <1>1 DEF Fresh, NoOp
  <2> HIDE DEF joined
  <2>4. \A j \in Ids : Calmed(joined[j], ops'[j])
    BY <1>1, <2>1, <2>2, ReleasedCalms, CalmerFacts
  <2> QED BY <1>1, <2>3, <2>4 DEF Calmed, Safe
<1>5. /\ Extends(jobs, jobs')
      /\ \A j \in Ids \ {n} :
           /\ attempts'[j].prev = attempts[j].prev
           /\ attempts'[j].stage = "idle" <=> attempts[j].stage = "idle"
           /\ attempts'[j].stage = "publish" <=> attempts[j].stage = "publish"
           /\ DurableAttempt(attempts'[j]) <=> DurableAttempt(attempts[j])
           /\ \/ attempts'[j].wait = attempts[j].wait
              \/ attempts[j].stage = "queued" /\ QueuedFor(jobs', j)
      /\ ~closed => attempts'[n].stage # "idle"
      /\ ~DurableAttempt(attempts'[n])
      /\ attempts'[n].wait = "pending" => attempts'[n].stage # "idle" /\ QueuedFor(jobs', n)
  <2>1. CASE closed
    <3>1. attempts' = attempts /\ jobs' = jobs
      BY <2>1 DEF RetireSaved
    <3>2. attempts[n].wait # "pending"
      BY <1>1, <1>2 DEF EvidenceInv, SavesCarryIntent, Active
    <3> QED BY <1>1, <1>2, <2>1, <3>1, <3>2 DEF Extends, DurableAttempt
  <2>2. CASE ~closed
    <3> DEFINE att == [attempts EXCEPT ![n] = [stage |-> "queued", prev |-> "failed",
                                               wait |-> "none"]]
    <3>1. Continues(att, jobs)
      <4>1. Schedule(n, "failed", "none", jobs)
        BY <2>2 DEF RetireSaved
      <4> QED BY <1>1, <4>1, ScheduleContinues DEF Deliveries
    <3>2. /\ att[n].stage = "queued" /\ att[n].wait = "none"
          /\ \A j \in Ids \ {n} : att[j] = attempts[j]
      BY <1>1
    <3> HIDE DEF att
    <3> QED BY <1>1, <2>2, <3>1, <3>2 DEF Continues, DurableAttempt
  <2> QED BY <2>1, <2>2
<1> HIDE DEF n, joined
<1>6. IdsAreFresh'
  BY <1>0, <1>2, <1>3, <1>4, <1>5 DEF EvidenceInv, IdsAreFresh, Active, Calmed
<1>7. LoadingIsApart'
  BY <1>0, <1>2 DEF LoadingIsApart
<1>8. ReplacementsAreNew'
  <2>1. \A j \in Ids, m \in DOMAIN jobs' : Replaces(jobs'[m], j)
                                           => m \in DOMAIN jobs /\ Replaces(jobs[m], j)
    BY <1>5, ExtendsKeeps
  <2> QED BY <1>0, <1>1, <1>2, <1>3, <1>4, <1>5, <2>1
          DEF EvidenceInv, ReplacementsAreNew, Active, Calmed
<1>9. AttemptsOwnSending'
  BY <1>0, <1>1, <1>4, <1>5 DEF EvidenceInv, AttemptsOwnSending, Active, Calmed
<1>10. SavesCarryIntent'
  BY <1>0, <1>1, <1>5, ExtendsKeeps DEF EvidenceInv, SavesCarryIntent, Active
<1>11. DurableIsSafe'
  BY <1>0, <1>1, <1>3, <1>5 DEF EvidenceInv, DurableIsSafe, Durable
<1>12. HeldIsSafe'
  BY <1>0, <1>1, <1>2, <1>3, <1>4, <1>5
     DEF EvidenceInv, HeldIsSafe, Remembers, Active, Calmed
<1> QED BY <1>6, <1>7, <1>8, <1>9, <1>10, <1>11, <1>12 DEF EvidenceInv

\* A retirement that is verified queues a save, whose replacement is a new id.
LEMMA RetireVerifiedKeepsEvidence ==
  ASSUME EvidenceInv, TypeOK', NEW i \in Ids, RetireVerified(i)
  PROVE  EvidenceInv'
<1>0. /\ journal = "open"
      /\ UNCHANGED <<ops, attempts, saving, captured, disk, mayHold, journal, closed>>
  BY DEF RetireVerified
<1>1. PICK n \in (Invites \ used) \cup {NoId}, k \in Keys \cup {NoKey} :
        /\ jobs' = Append(jobs, JobOf("retire", i, n, k))
        /\ used' = IF n = NoId THEN used ELSE used \cup {n}
  <2>1. ops[i].key \in Keys \cup {NoKey}
    BY DEF EvidenceInv, TypeOK, Op
  <2>2. CASE jobs' = Append(jobs, JobOf("retire", i, NoId, NoKey)) /\ used' = used
    BY <2>2
  <2>3. CASE \E n \in Invites \ used : /\ jobs' = Append(jobs, JobOf("retire", i, n, ops[i].key))
                                       /\ used' = used \cup {n}
    <3>1. PICK n \in Invites \ used : /\ jobs' = Append(jobs, JobOf("retire", i, n, ops[i].key))
                                     /\ used' = used \cup {n}
      BY <2>3
    <3>2. n # NoId
      BY OutboxAssumption
    <3> QED BY <2>1, <3>1, <3>2
  <2> QED BY <2>2, <2>3 DEF RetireVerified
<1> DEFINE job == JobOf("retire", i, n, k)
<1>2. /\ jobs \in Seq(Job) /\ job \in Job
      /\ \A j \in Ids : Replaces(job, j) <=> (j = n)
  <2>1. jobs \in Seq(Job) /\ n \in Ids \cup {NoId}
    BY OutboxAssumption DEF EvidenceInv, TypeOK
  <2>2. job \in Job
    BY <2>1 DEF Job, JobOf
  <2> QED BY <2>1, <2>2 DEF JobOf, Replaces
<1>3. /\ DOMAIN jobs' = DOMAIN jobs \cup {Len(jobs) + 1} /\ Len(jobs) + 1 \notin DOMAIN jobs
      /\ jobs'[Len(jobs) + 1] = job
      /\ \A m \in DOMAIN jobs : jobs'[m] = jobs[m]
  BY <1>1, <1>2
<1> HIDE DEF job
<1>4. /\ \A j \in Ids : QueuedFor(jobs, j) => QueuedFor(jobs', j)
      /\ used \subseteq used' /\ (n \in Ids => n \in used' \ used)
  <2>1. \A j \in Ids : QueuedFor(jobs, j) => QueuedFor(jobs', j)
    BY <1>3 DEF QueuedFor
  <2> QED BY <1>1, <2>1, OutboxAssumption
<1>5. ReplacementsAreNew'
  <2>1. ASSUME NEW j \in Ids, Replaces(saving, j) \/ \E m \in DOMAIN jobs' : Replaces(jobs'[m], j)
        PROVE  /\ j \in used' \ mayHold /\ ~Active(j) /\ ops[j].place = "absent"
    <3>1. CASE j = n
      BY <1>4, <3>1 DEF EvidenceInv, IdsAreFresh, Active
    <3>2. CASE j # n
      <4>1. Replaces(saving, j) \/ \E m \in DOMAIN jobs : Replaces(jobs[m], j)
        BY <1>2, <1>3, <2>1, <3>2
      <4> QED BY <1>4, <4>1 DEF EvidenceInv, ReplacementsAreNew
    <3> QED BY <3>1, <3>2
  <2>2. ASSUME NEW j \in Ids, NEW m \in DOMAIN jobs', Replaces(jobs'[m], j)
        PROVE  /\ ~Replaces(saving, j)
               /\ \A l \in DOMAIN jobs' : Replaces(jobs'[l], j) => l = m
    <3>1. CASE j = n
      <4>1. ~Replaces(saving, j) /\ \A l \in DOMAIN jobs : ~Replaces(jobs[l], j)
        BY <1>4, <3>1 DEF EvidenceInv, ReplacementsAreNew
      <4> QED BY <1>3, <2>2, <4>1
    <3>2. CASE j # n
      <4>1. \A l \in DOMAIN jobs' : Replaces(jobs'[l], j) => l \in DOMAIN jobs /\ Replaces(jobs[l], j)
        BY <1>2, <1>3, <3>2
      <4> QED BY <2>2, <4>1 DEF EvidenceInv, ReplacementsAreNew
    <3> QED BY <3>1, <3>2
  <2> QED BY <1>0, <2>1, <2>2 DEF ReplacementsAreNew, Active
<1>6. IdsAreFresh'
  BY <1>0, <1>4 DEF EvidenceInv, IdsAreFresh, Active
<1>7. LoadingIsApart'
  BY <1>0 DEF LoadingIsApart
<1>8. AttemptsOwnSending' /\ DurableIsSafe' /\ HeldIsSafe'
  BY <1>0 DEF EvidenceInv, AttemptsOwnSending, DurableIsSafe, HeldIsSafe, Remembers,
              Active, Durable
<1>9. SavesCarryIntent'
  BY <1>0, <1>4 DEF EvidenceInv, SavesCarryIntent, Active
<1> QED BY <1>5, <1>6, <1>7, <1>8, <1>9 DEF EvidenceInv

----------------------------------------------------------------------------
\* Hydration and the end of the process.

\* Hydration restores what is saved, less certain but never "failed" without cause.
LEMMA HydrateKeepsEvidence ==
  ASSUME EvidenceInv, TypeOK', Hydrate
  PROVE  EvidenceInv'
<1> DEFINE merged == [i \in Ids |-> IF Has(disk, i) THEN Restored(i, disk[i]) ELSE ops[i]]
<1>0. /\ journal = "loading" /\ journal' # "loading"
      /\ ops' = ops \/ ops' \in Trim(merged)
      /\ UNCHANGED <<attempts, jobs, saving, captured, closed, disk, used, mayHold>>
  BY DEF Hydrate, history
<1>1. /\ ops \in [Ids -> Op] /\ disk \in [Ids -> Op] /\ mayHold \subseteq Ids
      /\ \A i \in Ids : disk[i].place # "absent" => ~Active(i) /\ ops[i].place = "absent"
      /\ \A i \in Ids : ~Replaces(saving, i) /\ \A n \in DOMAIN jobs : ~Replaces(jobs[n], i)
  BY <1>0 DEF EvidenceInv, TypeOK, LoadingIsApart, ReplacementsAreNew
<1>2. ASSUME NEW i \in Ids
      PROVE  \/ /\ disk[i].place = "absent" /\ Calmed(ops[i], ops'[i])
             \/ /\ disk[i].place # "absent"
                /\ ~(ops'[i].place = "pending" /\ ops'[i].delivery = "sending")
                /\ Safe(disk[i]) => Safe(ops'[i])
  <2>1. CASE ops' = ops
    BY <1>1, <2>1 DEF Calmed, Safe
  <2>2. CASE ops' \in Trim(merged)
    <3>1. merged \in [Ids -> Op]
      BY <1>1, RestoredType
    <3>2. merged[i] = IF Has(disk, i) THEN Restored(i, disk[i]) ELSE ops[i]
      OBVIOUS
    <3> HIDE DEF merged
    <3>3. Calmed(merged[i], ops'[i])
      BY <2>2, <3>1, TrimCalms, CalmerFacts
    <3>4. CASE ~Has(disk, i)
      BY <3>2, <3>3, <3>4 DEF Has
    <3>5. CASE Has(disk, i)
      <4> DEFINE d == Decoded(disk[i])
      <4>1. /\ d.delivery \in {"seen", "failed", "unknown"}
            /\ disk[i].delivery # "failed" => d.delivery # "failed"
            /\ d \in Op
        BY <1>1 DEF Decoded, Op, Deliveries
      <4> HIDE DEF d
      <4>2. \/ merged[i] = NoOp
            \/ \E place \in {"pending", "confirmed"} : merged[i] = [d EXCEPT !.place = place]
        BY <3>2, <3>5 DEF Restored, d
      <4>3. merged[i].delivery \in {"seen", "failed", "unknown"}
            /\ (disk[i].delivery # "failed" => merged[i].delivery # "failed")
        BY <4>1, <4>2 DEF NoOp, Op
      <4> QED BY <3>3, <3>5, <4>3 DEF Has, Calmed, Safe
    <3> QED BY <3>4, <3>5
  <2> QED BY <1>0, <2>1, <2>2
<1>3. IdsAreFresh'
  BY <1>0, <1>2 DEF EvidenceInv, IdsAreFresh, Active, Calmed
<1>4. LoadingIsApart' /\ ReplacementsAreNew'
  BY <1>0, <1>1 DEF LoadingIsApart, ReplacementsAreNew
<1>5. AttemptsOwnSending'
  BY <1>0, <1>1, <1>2 DEF EvidenceInv, AttemptsOwnSending, Active, Calmed
<1>6. SavesCarryIntent' /\ DurableIsSafe'
  BY <1>0 DEF EvidenceInv, SavesCarryIntent, DurableIsSafe, Durable, Active
<1>7. HeldIsSafe'
  BY <1>0, <1>1, <1>2 DEF EvidenceInv, HeldIsSafe, Remembers, Active, Calmed
<1> QED BY <1>3, <1>4, <1>5, <1>6, <1>7 DEF EvidenceInv

\* The end of the session and of the process: every attempt is gone, and one that
\* was publishing is durable, so nothing that is left says "failed".
LEMMA EndKeepsEvidence ==
  ASSUME EvidenceInv, TypeOK', Dispose \/ Restart
  PROVE  EvidenceInv'
<1>1. /\ mayHold' = mayHold \cup Publishing /\ used' = used
      /\ \A i \in Ids : attempts'[i].stage = "idle" /\ attempts'[i].wait = "none"
  BY DEF Dispose, Restart, quietHistory, Idle
<1>2. \A i \in Ids : Empty[i].place = "absent" /\ Safe(Empty[i])
  BY DEF Empty, NoOp, Safe
<1>3. \A i \in Ids : ~Replaces(NoJob, i)
  BY DEF NoJob, JobOf, Replaces
<1>4. /\ \A i \in Publishing \cup mayHold :
           i \in used /\ Safe(ops[i]) /\ Safe(disk[i]) /\ Safe(captured[i])
      /\ Publishing \cup mayHold \subseteq Ids
  BY DEF EvidenceInv, TypeOK, IdsAreFresh, Publishing, AttemptsOwnSending, DurableIsSafe,
         HeldIsSafe, Durable, DurableAttempt, Active
<1>5. CASE Dispose
  <2>1. closed' = TRUE /\ UNCHANGED <<ops, jobs, saving, captured, disk, journal>>
    BY <1>5 DEF Dispose, journalState
  <2>2. ReplacementsAreNew'
    <3>1. \A i \in Ids : Active(i) \/ ops[i].place # "absent" \/ i \in mayHold =>
            ~Replaces(saving, i) /\ \A n \in DOMAIN jobs : ~Replaces(jobs[n], i)
      BY DEF EvidenceInv, ReplacementsAreNew
    <3>2. \A i \in Publishing : Active(i)
      BY DEF Publishing, Active
    <3> QED BY <1>1, <1>4, <2>1, <3>1, <3>2 DEF EvidenceInv, ReplacementsAreNew, Active
  <2> QED BY <1>1, <1>4, <2>1, <2>2
          DEF EvidenceInv, IdsAreFresh, LoadingIsApart, AttemptsOwnSending, SavesCarryIntent,
              DurableIsSafe, HeldIsSafe, Durable, DurableAttempt, Active
<1>6. CASE Restart
  <2>1. /\ ops' = Empty /\ jobs' = <<>> /\ saving' = NoJob /\ captured' = Empty
        /\ journal' = "loading" /\ disk' \in {disk, captured}
    BY <1>6 DEF Restart
  <2> QED BY <1>1, <1>2, <1>3, <1>4, <2>1
          DEF EvidenceInv, IdsAreFresh, LoadingIsApart, ReplacementsAreNew,
              AttemptsOwnSending, SavesCarryIntent, DurableIsSafe, HeldIsSafe, Durable,
              DurableAttempt, Active
<1> QED BY <1>5, <1>6

----------------------------------------------------------------------------
\* The actions are steps of these kinds.

\* What a finished attempt records of an event the relay may hold is no failure:
\* of a publish that was not refused, of a retry that remembers, of an echo.
LEMMA CaughtIsSafe ==
  ASSUME EvidenceInv, NEW i \in Ids, Active(i), NEW uncertain \in BOOLEAN
  PROVE  /\ CaughtDelivery(i, uncertain) \in Deliveries \ {"sending"}
         /\ CaughtDelivery(i, TRUE) # "failed"
         /\ i \in mayHold /\ CaughtDelivery(i, uncertain) = "failed"
              => ops[i].place = "absent" /\ ~ops[i].acked
<1>1. attempts[i].prev \in Deliveries
  BY DEF EvidenceInv, TypeOK, Attempt
<1>2. i \in mayHold => Remembers(i)
  BY DEF EvidenceInv, HeldIsSafe
<1> QED BY <1>1, <1>2 DEF CaughtDelivery, FailedDelivery, Remembers, Deliveries

\* The finally clause of deliver() ends an attempt.
LEMMA FinishEnds ==
  ASSUME EvidenceInv, NEW i \in Ids, Active(i), NEW d \in Deliveries \ {"sending"},
         Finish(i, d), UNCHANGED <<closed, journalState, quietHistory>>,
         mayHold' \in {mayHold, mayHold \cup {i}},
         i \in mayHold' => \/ d # "failed" /\ (i \in mayHold \/ Durable(i))
                           \/ i \in mayHold /\ ops[i].place = "absent" /\ ~ops[i].acked
  PROVE  \E r \in Op : Ends(i, r)
<1> DEFINE updated == [ops[i] EXCEPT !.delivery = d]
           done == Settled(i, updated)
           r == IF done THEN [updated EXCEPT !.place = "confirmed"] ELSE updated
           result == [ops EXCEPT ![i] = r]
           idle == [attempts EXCEPT ![i] = Idle]
<1>1. ops \in [Ids -> Op] /\ ops[i] \in Op /\ jobs \in Seq(Job)
      /\ attempts \in [Ids -> Attempt]
  BY DEF EvidenceInv, TypeOK
<1>2. updated \in Op /\ [updated EXCEPT !.place = "confirmed"] \in Op
  BY <1>1 DEF Op
<1>3. /\ r \in Op /\ r.delivery = d
      /\ d = "failed" /\ ops[i].place = "absent" /\ ~ops[i].acked => r.place = "absent"
  BY <1>1, <1>2 DEF Settled, Op
<1>4. ops' \in (IF done THEN Trim(result) ELSE {result}) /\ Pump(idle, PushStatus(jobs), result)
  BY DEF Finish
<1>5. Calmer(result, ops')
  <2>1. result \in [Ids -> Op]
    BY <1>1, <1>3
  <2> HIDE DEF result, done
  <2>2. CASE ops' \in Trim(result)
    BY <2>1, <2>2, TrimCalms
  <2>3. CASE ops' = result
    BY <2>3 DEF Calmer
  <2> QED BY <1>4, <2>2, <2>3
<1>6. /\ PushStatus(jobs) \in Seq(Job) /\ Extends(jobs, PushStatus(jobs))
      /\ Continues(idle, PushStatus(jobs))
  <2>1. idle \in [Ids -> Attempt]
    BY <1>1, InitialValues
  <2> HIDE DEF idle
  <2> QED BY <1>1, <1>4, <2>1, PushStatusType, PushExtends, PumpContinues
<1>7. i \in mayHold' => (i \in mayHold \/ Durable(i)) /\ Safe(r)
  BY <1>3 DEF Safe
<1> HIDE DEF r, done, updated
<1>8. Ends(i, r)
  BY <1>3, <1>5, <1>6, <1>7 DEF Ends, journalState, quietHistory
<1> QED BY <1>3, <1>8

\* Every stage of an attempt, its end and its echo keep the invariant.
LEMMA DeliverKeepsEvidence ==
  ASSUME EvidenceInv, TypeOK', NEW i \in Ids, Deliver(i)
  PROVE  EvidenceInv'
<1> USE DEF history, journalState
<1>0. /\ ops \in [Ids -> Op] /\ ops[i] \in Op /\ attempts \in [Ids -> Attempt]
      /\ attempts[i] \in Attempt /\ jobs \in Seq(Job)
      /\ Extends(jobs, jobs)
  BY DEF EvidenceInv, TypeOK, Extends
<1>1. /\ Append(jobs, JobOf("attempt", i, NoId, NoKey)) \in Seq(Job)
      /\ Extends(jobs, Append(jobs, JobOf("attempt", i, NoId, NoKey)))
      /\ QueuedFor(Append(jobs, JobOf("attempt", i, NoId, NoKey)), i)
  <2>1. JobOf("attempt", i, NoId, NoKey).kind # "retire"
    BY DEF JobOf
  <2> QED BY <1>0, <2>1, IntentJob, AppendExtends, AppendQueues
<1>3. CASE IntentSaved(i)
  <2>1. Active(i) /\ Durable(i) /\ attempts[i].stage # "publish"
    BY <1>3 DEF IntentSaved, Active, Durable, DurableAttempt
  <2>2. CASE ops[i].signed
    <3> DEFINE a == [attempts[i] EXCEPT !.stage = "save", !.wait = "pending"]
    <3>1. a \in Attempt /\ a.stage = "save" /\ a.wait = "pending" /\ a.prev = attempts[i].prev
      BY <1>0 DEF Attempt
    <3>2. /\ attempts' = [attempts EXCEPT ![i] = a] /\ ops' = ops
          /\ jobs' = Append(jobs, JobOf("attempt", i, NoId, NoKey))
          /\ UNCHANGED <<saving, captured, disk, used, journal, closed, mayHold>>
      BY <1>3, <2>2 DEF IntentSaved
    <3> HIDE DEF a
    <3>3. Continues([attempts EXCEPT ![i] = a], jobs')
      BY <1>0, <1>1, <3>1, <3>2, StillContinues
    <3>4. Moves(i, a, ops[i])
      BY <1>0, <1>1, <2>1, <3>1, <3>2, <3>3 DEF Moves
    <3> QED BY <1>0, <3>1, <3>4, MovesKeepEvidence
  <2>3. CASE ~ops[i].signed
    <3> DEFINE a == [attempts[i] EXCEPT !.stage = "sign", !.wait = "none"]
    <3>1. a \in Attempt /\ a.stage = "sign" /\ a.wait = "none" /\ a.prev = attempts[i].prev
      BY <1>0 DEF Attempt
    <3>2. /\ attempts' = [attempts EXCEPT ![i] = a] /\ ops' = ops /\ jobs' = jobs
          /\ UNCHANGED <<saving, captured, disk, used, journal, closed, mayHold>>
      BY <1>3, <2>3 DEF IntentSaved
    <3> HIDE DEF a
    <3>3. Continues([attempts EXCEPT ![i] = a], jobs)
      BY <1>0, <3>1, <3>2, StillContinues
    <3>4. Moves(i, a, ops[i])
      BY <1>0, <2>1, <3>1, <3>2, <3>3 DEF Moves
    <3> QED BY <1>0, <3>1, <3>4, MovesKeepEvidence
  <2> QED BY <2>2, <2>3
<1>4. CASE Signed(i)
  <2> DEFINE a == [attempts[i] EXCEPT !.stage = "save", !.wait = "pending"]
             r == [ops[i] EXCEPT !.signed = TRUE]
  <2>1. Active(i) /\ Durable(i) /\ attempts[i].stage # "publish"
    BY <1>4 DEF Signed, Active, Durable, DurableAttempt
  <2>2. a \in Attempt /\ a.stage = "save" /\ a.wait = "pending" /\ a.prev = attempts[i].prev
    BY <1>0 DEF Attempt
  <2>3. r \in Op /\ r.place = ops[i].place /\ r.acked = ops[i].acked
        /\ r.delivery = ops[i].delivery
    BY <1>0 DEF Op
  <2>4. /\ attempts' = [attempts EXCEPT ![i] = a] /\ ops' = [ops EXCEPT ![i] = r]
        /\ jobs' = Append(jobs, JobOf("attempt", i, NoId, NoKey))
        /\ UNCHANGED <<saving, captured, disk, used, journal, closed, mayHold>>
    BY <1>4 DEF Signed
  <2> HIDE DEF a, r
  <2>5. Continues([attempts EXCEPT ![i] = a], jobs')
    BY <1>0, <1>1, <2>2, <2>4, StillContinues
  <2>6. Moves(i, a, r)
    BY <1>1, <2>1, <2>2, <2>3, <2>4, <2>5 DEF Moves
  <2> QED BY <2>2, <2>3, <2>6, MovesKeepEvidence
<1>5. CASE SignatureSaved(i)
  <2>1. Active(i) /\ Durable(i) /\ attempts[i].stage # "publish"
    BY <1>5 DEF SignatureSaved, Active, Durable, DurableAttempt
  <2>2. PICK stage \in {"prepare", "hold"} :
          LET att == [attempts EXCEPT ![i].stage = stage, ![i].wait = "none"]
          IN  Pump(att, jobs, ops) \/ (attempts' = att /\ jobs' = jobs)
    BY <1>5 DEF SignatureSaved
  <2> DEFINE a == [attempts[i] EXCEPT !.stage = stage, !.wait = "none"]
  <2>3. a \in Attempt /\ a.stage = stage /\ a.wait = "none" /\ a.prev = attempts[i].prev
    BY <1>0 DEF Attempt
  <2>4. [attempts EXCEPT ![i].stage = stage, ![i].wait = "none"] = [attempts EXCEPT ![i] = a]
    BY <1>0
  <2> HIDE DEF a
  <2>5. [attempts EXCEPT ![i] = a] \in [Ids -> Attempt]
    BY <1>0, <2>3
  <2>6. Continues([attempts EXCEPT ![i] = a], jobs)
    BY <1>0, <2>2, <2>4, <2>5, PumpContinues, StillContinues
  <2>7. Moves(i, a, ops[i])
    BY <1>0, <1>5, <2>1, <2>3, <2>6 DEF Moves, SignatureSaved
  <2> QED BY <1>0, <2>3, <2>7, MovesKeepEvidence
<1>6. CASE HoldEnds(i) \/ PublishStarts(i)
  <2>1. Active(i) /\ Durable(i) /\ attempts[i].stage # "publish"
    BY <1>6 DEF HoldEnds, PublishStarts, Active, Durable, DurableAttempt
  <2>2. PICK stage \in {"slot", "prepare", "publish"} :
          attempts' = [attempts EXCEPT ![i].stage = stage]
    BY <1>6 DEF HoldEnds, PublishStarts
  <2> DEFINE a == [attempts[i] EXCEPT !.stage = stage]
  <2>3. a \in Attempt /\ a.stage = stage /\ a.wait = attempts[i].wait
        /\ a.prev = attempts[i].prev
    BY <1>0 DEF Attempt
  <2>4. /\ attempts' = [attempts EXCEPT ![i] = a] /\ ops' = ops /\ jobs' = jobs
        /\ UNCHANGED <<saving, captured, disk, used, journal, closed, mayHold>>
    BY <1>0, <1>6, <2>2 DEF HoldEnds, PublishStarts
  <2> HIDE DEF a
  <2>5. Continues([attempts EXCEPT ![i] = a], jobs)
    BY <1>0, <2>3, <2>4, StillContinues
  <2>6. Moves(i, a, ops[i])
    BY <1>0, <2>1, <2>3, <2>4, <2>5 DEF Moves
  <2> QED BY <1>0, <2>3, <2>6, MovesKeepEvidence
<1>7. CASE \/ PublishAccepted(i) \/ PublishRejected(i) \/ PublishLost(i)
           \/ FailsUnpublished(i) \/ ExpiresActive(i)
  <2>1. Active(i)
    BY <1>7 DEF PublishAccepted, PublishRejected, PublishLost, FailsUnpublished,
                ExpiresActive, Active
  <2>2. \E r \in Op : Ends(i, r)
    <3>1. CASE PublishAccepted(i)
      <4>1. PICK d \in {"seen", "accepted"} : Finish(i, d)
        BY <3>1 DEF PublishAccepted
      <4>2. Durable(i) /\ d \in Deliveries \ {"sending"} /\ d # "failed"
        BY <3>1 DEF PublishAccepted, Durable, DurableAttempt, Deliveries
      <4> QED BY <2>1, <3>1, <4>1, <4>2, FinishEnds DEF PublishAccepted
    <3>2. CASE PublishLost(i)
      <4>1. Durable(i) /\ Finish(i, CaughtDelivery(i, TRUE))
        BY <3>2 DEF PublishLost, Durable, DurableAttempt
      <4> QED BY <2>1, <3>2, <4>1, CaughtIsSafe, FinishEnds DEF PublishLost
    <3>3. CASE PublishRejected(i) \/ FailsUnpublished(i) \/ ExpiresActive(i)
      <4>1. /\ Finish(i, CaughtDelivery(i, FALSE)) /\ mayHold' = mayHold
            /\ UNCHANGED <<closed, journalState, quietHistory>>
        BY <3>3 DEF PublishRejected, FailsUnpublished, ExpiresActive
      <4> QED BY <2>1, <4>1, CaughtIsSafe, FinishEnds
    <3> QED BY <1>7, <3>1, <3>2, <3>3
  <2> QED BY <2>2, EndsKeepsEvidence
<1>8. CASE ExpiresQueued(i)
  <2> DEFINE d == FailedDelivery(attempts[i].prev)
             r == [ops[i] EXCEPT !.delivery = d]
  <2>1. Active(i) /\ d \in Deliveries \ {"sending"}
        /\ (attempts[i].prev \in {"unknown", "accepted", "seen"} => d # "failed")
    BY <1>0, <1>8 DEF ExpiresQueued, Active, FailedDelivery, Deliveries
  <2>2. r \in Op /\ r.delivery = d /\ r.place = ops[i].place
    BY <1>0, <2>1 DEF Op
  <2>3. i \in mayHold => Safe(r)
    <3>1. i \in mayHold => Remembers(i)
      BY <2>1 DEF EvidenceInv, HeldIsSafe
    <3> QED BY <1>8, <2>1, <2>2, <3>1 DEF ExpiresQueued, Remembers, Safe
  <2>4. /\ attempts' = [attempts EXCEPT ![i] = Idle] /\ ops' = [ops EXCEPT ![i] = r]
        /\ jobs' = PushStatus(jobs) /\ mayHold' = mayHold
        /\ UNCHANGED <<saving, captured, disk, used, journal, closed>>
    BY <1>8 DEF ExpiresQueued, quietHistory
  <2> HIDE DEF d, r
  <2>5. /\ Continues([attempts EXCEPT ![i] = Idle], PushStatus(jobs))
        /\ PushStatus(jobs) \in Seq(Job) /\ Extends(jobs, PushStatus(jobs))
    BY <1>0, <2>4, InitialValues, PushStatusType, PushExtends, StillContinues
  <2>6. Calmer([ops EXCEPT ![i] = r], ops')
    BY <2>4 DEF Calmer
  <2>7. Ends(i, r)
    BY <2>1, <2>2, <2>3, <2>4, <2>5, <2>6 DEF Ends
  <2> QED BY <2>2, <2>7, EndsKeepsEvidence
<1>9. CASE Observe(i)
  <2> DEFINE stays == i \in Workflows /\ Active(i)
             seen == [ops[i] EXCEPT !.signed = TRUE, !.delivery = "seen"]
             kept == stays \/ ops[i].key # NoKey
             r == IF kept THEN seen ELSE [seen EXCEPT !.place = "confirmed"]
             result == [ops EXCEPT ![i] = r]
             idle == [attempts EXCEPT ![i] = Idle]
  <2>1. /\ seen \in Op /\ seen.delivery = "seen" /\ seen.place = ops[i].place
        /\ seen.acked = ops[i].acked
        /\ r \in Op /\ r.delivery = "seen"
    BY <1>0 DEF Op, Deliveries
  <2>2. /\ ops[i].place = "pending" /\ mayHold' = mayHold \cup {i}
        /\ i \in mayHold \/ attempts[i].stage = "publish"
        /\ ops' \in (IF kept THEN {result} ELSE Trim(result))
        /\ UNCHANGED <<saving, captured, disk, used, journal, closed>>
    BY <1>9, <1>0 DEF Observe, quietHistory
  <2>3. /\ PushStatus(jobs) \in Seq(Job) /\ Extends(jobs, PushStatus(jobs))
        /\ idle \in [Ids -> Attempt] /\ result \in [Ids -> Op]
    BY <1>0, <2>1, InitialValues, PushStatusType, PushExtends
  <2>4. CASE stays
    <3>1. /\ attempts' = attempts /\ jobs' = PushStatus(jobs)
          /\ ops' = [ops EXCEPT ![i] = seen]
      BY <1>9, <2>2, <2>4 DEF Observe
    <3>2. Continues([attempts EXCEPT ![i] = attempts[i]], PushStatus(jobs))
      BY <1>0, <2>3, <3>1, StillContinues
    <3> HIDE DEF seen, kept, r, result, idle
    <3>3. Moves(i, attempts[i], seen)
      BY <2>1, <2>2, <2>3, <2>4, <3>1, <3>2 DEF Moves, Active, Durable
    <3> QED BY <1>0, <2>1, <3>3, MovesKeepEvidence
  <2>5. CASE ~stays
    <3>1. Pump(idle, PushStatus(jobs), result) \/ (attempts' = idle /\ jobs' = PushStatus(jobs))
      BY <1>9, <2>5 DEF Observe
    <3> HIDE DEF seen, kept, r, result, idle
    <3>2. Continues(idle, PushStatus(jobs))
      BY <2>3, <3>1, PumpContinues, StillContinues
    <3>3. Calmer(result, ops')
      <4>1. ops' = result \/ ops' \in Trim(result)
        BY <2>2
      <4>2. Calmer(result, result)
        BY DEF Calmer
      <4> QED BY <2>3, <4>1, <4>2, TrimCalms
    <3>4. Ends(i, r)
      <4>1. i \in mayHold \/ Durable(i)
        BY <2>2 DEF Durable, DurableAttempt
      <4>2. Safe(r) /\ r.delivery # "sending"
        BY <2>1 DEF Safe
      <4> QED BY <2>2, <2>3, <3>2, <3>3, <4>1, <4>2 DEF Ends, idle, result
    <3> QED BY <2>1, <3>4, EndsKeepsEvidence
  <2> QED BY <2>4, <2>5
<1> QED BY <1>3, <1>4, <1>5, <1>6, <1>7, <1>8, <1>9 DEF Deliver

\* Sends and retries start an attempt; a withdrawn policy changes nothing else.
LEMMA ComposeKeepsEvidence ==
  ASSUME EvidenceInv, TypeOK', Compose
  PROVE  EvidenceInv'
<1>0. ops \in [Ids -> Op] /\ attempts \in [Ids -> Attempt] /\ jobs \in Seq(Job)
      /\ Extends(jobs, jobs)
  BY DEF EvidenceInv, TypeOK, Extends
<1>1. ASSUME NEW i \in Ids, NEW k \in Keys \cup {NoKey}, NEW g \in BOOLEAN, Send(i, k, g)
      PROVE  EvidenceInv'
  <2> DEFINE q == Append(jobs, JobOf("attempt", i, NoId, NoKey))
  <2>1. q \in Seq(Job) /\ Extends(jobs, q) /\ QueuedFor(q, i)
    <3>1. JobOf("attempt", i, NoId, NoKey).kind # "retire"
      BY DEF JobOf
    <3> QED BY <1>0, <3>1, IntentJob, AppendExtends, AppendQueues
  <2>2. /\ i \notin used /\ ~closed /\ used' = used \cup {i}
        /\ ops' = [ops EXCEPT ![i] = Fresh(k, g)]
        /\ Schedule(i, "failed", "pending", q)
        /\ UNCHANGED <<saving, captured, disk, mayHold, journal, closed>>
    BY <1>1 DEF Send
  <2>3. ~Active(i)
    BY <2>2 DEF EvidenceInv, IdsAreFresh
  <2>4. Fresh(k, g) \in Op /\ Fresh(k, g).place = "pending" /\ Fresh(k, g).delivery = "sending"
    BY InitialValues DEF Fresh, NoOp
  <2> HIDE DEF q
  <2>5. Continues([attempts EXCEPT ![i] = [stage |-> "queued", prev |-> "failed",
                                           wait |-> "pending"]], q)
    BY <1>0, <2>1, <2>2, ScheduleContinues DEF Deliveries
  <2>6. Starts(i, "failed", "pending", Fresh(k, g))
    BY <2>1, <2>2, <2>3, <2>4, <2>5 DEF Starts
  <2> QED BY <2>4, <2>6, StartsKeepEvidence DEF Deliveries
<1>2. ASSUME NEW i \in Ids, NEW renewed \in BOOLEAN, Retry(i, renewed)
      PROVE  EvidenceInv'
  <2> DEFINE r == [ops[i] EXCEPT !.delivery = "sending", !.guarded = @ \/ renewed]
             prev == ops[i].delivery
  <2>1. r \in Op /\ r.place = ops[i].place /\ r.delivery = "sending" /\ prev \in Deliveries
    BY <1>0 DEF Op, Deliveries
  <2>2. /\ ops[i].place = "pending" /\ ~Active(i) /\ ~closed /\ used' = used
        /\ ops' = [ops EXCEPT ![i] = r]
        /\ Schedule(i, prev, "none", jobs)
        /\ UNCHANGED <<saving, captured, disk, mayHold, journal, closed>>
    BY <1>0, <1>2 DEF Retry, history
  <2>3. i \in used
    BY <2>2 DEF EvidenceInv, IdsAreFresh
  <2> HIDE DEF r
  <2>4. Continues([attempts EXCEPT ![i] = [stage |-> "queued", prev |-> prev,
                                           wait |-> "none"]], jobs)
    BY <1>0, <2>1, <2>2, ScheduleContinues
  <2>5. Starts(i, prev, "none", r)
    BY <1>0, <2>1, <2>2, <2>3, <2>4 DEF Starts
  <2> QED BY <2>1, <2>5, StartsKeepEvidence
<1>3. CASE Withdraw
  <2>1. Rests
    BY <1>0, <1>3 DEF Withdraw, Rests, Calmer, history
  <2> QED BY <2>1, RestsKeepEvidence
<1> QED BY <1>1, <1>2, <1>3, OutboxAssumption
        DEF Compose, SendPlain, SendGuarded, RetryPlain, RetryRenewed

\* The calls that resolve a receipt, recover() apart, queue saves and set fences.
LEMMA ResolveKeepsEvidence ==
  ASSUME EvidenceInv, TypeOK', "recover" \notin Calls,
         \A j \in Ids : recovering[j] = NotRecovering,
         NEW i \in Ids, Resolve(i)
  PROVE  EvidenceInv'
<1>0. jobs \in Seq(Job) /\ Extends(jobs, jobs) /\ Calmer(ops, ops)
  BY DEF EvidenceInv, TypeOK, Extends, Calmer
<1>1. CASE RetireStarts(i) \/ RetireGivenUp(i) \/ Dismiss(i)
  <2>1. Rests
    BY <1>0, <1>1 DEF RetireStarts, RetireGivenUp, Dismiss, Rests, history
  <2> QED BY <2>1, RestsKeepEvidence
<1>2. CASE Acknowledge(i) \/ DismissLocked(i)
  <2>1. PICK kind \in {"acknowledge", "dismiss"} :
          jobs' = Append(jobs, JobOf(kind, i, NoId, NoKey))
    BY <1>2 DEF Acknowledge, DismissLocked
  <2>2. JobOf(kind, i, NoId, NoKey) \in Job /\ JobOf(kind, i, NoId, NoKey).kind # "retire"
    BY IntentJob DEF JobOf
  <2>3. Extends(jobs, jobs')
    BY <1>0, <2>1, <2>2, AppendExtends
  <2>4. Rests
    BY <1>0, <1>2, <2>3 DEF Acknowledge, DismissLocked, Rests, history, journalState
  <2> QED BY <2>4, RestsKeepEvidence
<1>3. CASE RetireVerified(i)
  BY <1>3, RetireVerifiedKeepsEvidence
<1>4. ~(\E k \in Keys : RecoverCalled(i, k)) /\ ~RecoverLocked(i) /\ ~RecoverLoaded(i)
      /\ ~RecoverLoadFails(i)
  <2>1. NotRecovering.stage = "idle"
    BY DEF NotRecovering
  <2> QED BY <2>1 DEF RecoverCalled, RecoverLocked, RecoverLoaded, RecoverLoadFails
<1> QED BY <1>1, <1>2, <1>3, <1>4 DEF Resolve

\* Hydration and saves keep the invariant.
LEMMA JournalKeepsEvidence ==
  ASSUME EvidenceInv, TypeOK', Journal
  PROVE  EvidenceInv'
<1>0. /\ ops \in [Ids -> Op] /\ jobs \in Seq(Job) /\ Extends(jobs, jobs) /\ Calmer(ops, ops)
      /\ saving \in Job
  BY DEF EvidenceInv, TypeOK, Extends, Calmer
<1>1. CASE Hydrate
  BY <1>1, HydrateKeepsEvidence
<1>2. CASE HydrateFails
  <2>1. Rests
    BY <1>0, <1>2 DEF HydrateFails, Rests, history
  <2> QED BY <2>1, RestsKeepEvidence
<1>3. CASE SaveStarts
  BY <1>3, SaveStartsKeepsEvidence
<1>4. CASE StatusSaved \/ AttemptSaved \/ RecoverSaved
  <2>1. Commits
    BY <1>0, <1>4 DEF StatusSaved, AttemptSaved, RecoverSaved, Commits, history
  <2> QED BY <2>1, CommitsKeepEvidence
<1>5. CASE DismissSaved
  <2>1. Calmer(ops, ops')
    BY <1>0, <1>5 DEF DismissSaved, Calmer
  <2>2. Commits
    BY <1>5, <2>1 DEF DismissSaved, Commits
  <2> QED BY <2>2, CommitsKeepEvidence
<1>6. CASE AcknowledgeSaved
  <2>1. saving.id \in Ids
    BY <1>0, <1>6 DEF AcknowledgeSaved, Job
  <2>2. Calmer(ops, ops')
    BY <1>0, <1>6, <2>1, ReleasedCalms DEF AcknowledgeSaved
  <2>3. Commits
    BY <1>6, <2>2 DEF AcknowledgeSaved, Commits, history
  <2> QED BY <2>3, CommitsKeepEvidence
<1>7. CASE RetireSaved
  <2>1. CASE saving.next = NoId
    <3>1. saving.id \in Ids
      BY <1>0, <1>7 DEF RetireSaved, Job
    <3>2. Calmer(ops, ops')
      BY <1>0, <1>7, <2>1, <3>1, ReleasedCalms DEF RetireSaved
    <3>3. Commits
      BY <1>7, <2>1, <3>2 DEF RetireSaved, Commits, history
    <3> QED BY <3>3, CommitsKeepEvidence
  <2>2. CASE saving.next # NoId
    BY <1>7, <2>2, RetireSavedKeepsEvidence
  <2> QED BY <2>1, <2>2
<1>8. CASE SaveFails \/ SaveRefused
  <2>1. Abandons
    BY <1>8 DEF SaveFails, SaveRefused, Abandons, history
  <2> QED BY <2>1, AbandonsKeepEvidence
<1> QED BY <1>1, <1>2, <1>3, <1>4, <1>5, <1>6, <1>7, <1>8 DEF Journal

\* Revoking, disposing and restarting keep the invariant.
LEMMA SessionKeepsEvidence ==
  ASSUME EvidenceInv, TypeOK', Session
  PROVE  EvidenceInv'
<1>1. CASE Purge
  <2>1. Calmer(ops, ops')
    BY <1>1 DEF Purge, Calmer, EvidenceInv, TypeOK
  <2>2. Extends(jobs, jobs')
    BY <1>1, PushExtends DEF Purge, EvidenceInv, TypeOK
  <2>3. Rests
    BY <1>1, <2>1, <2>2 DEF Purge, Rests, history
  <2> QED BY <2>3, RestsKeepEvidence
<1>2. CASE Dispose \/ Restart
  BY <1>2, EndKeepsEvidence
<1> QED BY <1>1, <1>2 DEF Session

\* Nobody recovers where recover() is not called.
NobodyRecovers == \A i \in Ids : recovering[i] = NotRecovering

\* That stays so.
LEMMA NobodyStartsToRecover ==
  ASSUME TypeOK, NobodyRecovers, "recover" \notin Calls, [Next]_vars
  PROVE  NobodyRecovers'
<1>0. NotRecovering.stage = "idle"
  BY DEF NotRecovering
<1>1. ASSUME FailJob(saving, jobs) \/ FailJob(Head(jobs), Tail(jobs)) PROVE NobodyRecovers'
  BY <1>1 DEF FailJob, NobodyRecovers, TypeOK
<1>2. CASE Journal
  BY <1>1, <1>2 DEF Journal, Hydrate, HydrateFails, SaveStarts, StatusSaved, AttemptSaved,
     DismissSaved, AcknowledgeSaved, RetireSaved, RecoverSaved, SaveFails, SaveRefused,
     NobodyRecovers, TypeOK
<1>3. ASSUME NEW i \in Ids, Deliver(i) PROVE NobodyRecovers'
  BY <1>3 DEF Deliver, IntentSaved, Signed, SignatureSaved, HoldEnds, PublishStarts,
     PublishAccepted, PublishRejected, PublishLost, FailsUnpublished, ExpiresQueued,
     ExpiresActive, Observe, NobodyRecovers, journalState
<1>4. ASSUME NEW i \in Ids, Resolve(i) PROVE NobodyRecovers'
  BY <1>0, <1>4 DEF Resolve, Acknowledge, RetireStarts, RetireGivenUp, RetireVerified, Dismiss,
     DismissLocked, RecoverCalled, RecoverLocked, RecoverLoaded, RecoverLoadFails,
     NobodyRecovers, journalState
<1>5. CASE Compose
  BY <1>5 DEF Compose, SendPlain, SendGuarded, Withdraw, RetryPlain, RetryRenewed, Send, Retry,
     NobodyRecovers
<1>6. CASE Session
  BY <1>6 DEF Session, Purge, Dispose, Restart, NobodyRecovers, journalState
<1>7. CASE UNCHANGED vars
  BY <1>7 DEF vars, memory, NobodyRecovers
<1> QED BY <1>2, <1>3, <1>4, <1>5, <1>6, <1>7 DEF Next

\* The inductive invariant holds in every reachable state of an outbox whose
\* callers do not use recover().
THEOREM EvidenceInvariant ==
  ASSUME "recover" \notin Calls
  PROVE  Spec => [](EvidenceInv /\ NobodyRecovers)
<1>1. Init => EvidenceInv /\ NobodyRecovers
  <2> SUFFICES ASSUME Init PROVE EvidenceInv /\ NobodyRecovers
    OBVIOUS
  <2>1. TypeOK
    BY InitialType
  <2>2. \A i \in Ids : Empty[i].place = "absent" /\ Idle.stage = "idle" /\ Idle.wait = "none"
                       /\ ~Replaces(NoJob, i)
    BY DEF Empty, NoOp, Idle, Replaces, NoJob, JobOf
  <2> QED BY <2>1, <2>2
          DEF Init, EvidenceInv, NobodyRecovers, IdsAreFresh, LoadingIsApart,
              ReplacementsAreNew, AttemptsOwnSending, SavesCarryIntent, DurableIsSafe,
              HeldIsSafe, Durable, DurableAttempt, Active, Safe
<1>2. EvidenceInv /\ NobodyRecovers /\ [Next]_vars => (EvidenceInv /\ NobodyRecovers)'
  <2> SUFFICES ASSUME EvidenceInv, NobodyRecovers, [Next]_vars
               PROVE  EvidenceInv' /\ NobodyRecovers'
    OBVIOUS
  <2>1. TypeOK /\ TypeOK'
    BY NextType DEF EvidenceInv
  <2>2. NobodyRecovers'
    BY <2>1, NobodyStartsToRecover
  <2>3. CASE Journal
    BY <2>1, <2>2, <2>3, JournalKeepsEvidence
  <2>4. ASSUME NEW i \in Ids, Deliver(i) \/ Resolve(i) PROVE EvidenceInv'
    BY <2>1, <2>4, DeliverKeepsEvidence, ResolveKeepsEvidence DEF NobodyRecovers
  <2>5. CASE Compose
    BY <2>1, <2>2, <2>5, ComposeKeepsEvidence
  <2>6. CASE Session
    BY <2>1, <2>2, <2>6, SessionKeepsEvidence
  <2>7. CASE UNCHANGED vars
    <3>1. Rests
      BY <2>7 DEF vars, memory, history, Rests, Calmer, Extends
    <3> QED BY <2>1, <2>2, <3>1, RestsKeepEvidence
  <2> QED BY <2>2, <2>3, <2>4, <2>5, <2>6, <2>7 DEF Next
<1> QED BY <1>1, <1>2, PTL DEF Spec

\* "Not sent" is never shown or saved of an event the relay may hold
\* (failedDelivery and the catch clause of deliver(), outbox.ts:532-538, 667-690).
THEOREM FailedIsUndelivered ==
  ASSUME "recover" \notin Calls
  PROVE  Spec => []FailedMeansUndelivered
<1>1. EvidenceInv => FailedMeansUndelivered
  BY DEF EvidenceInv, TypeOK, FailedMeansUndelivered, HeldIsSafe, AttemptsOwnSending,
         DurableIsSafe, Durable, DurableAttempt, Publishing, Active, Safe, Has
<1> QED BY <1>1, EvidenceInvariant, PTL

----------------------------------------------------------------------------
\* A dismissed event does not come back.

\* The kinds of saves that rely on a fence, a lock or a new id.
Weighty == {"dismiss", "retire", "recover"}

\* p has no save of these kinds that q has not.
Quiet(q, p) == \A n \in DOMAIN p : p[n].kind \in Weighty => n \in DOMAIN q /\ p[n] = q[n]

\* Other saves are appended quietly.
LEMMA AppendQuiet ==
  ASSUME NEW q \in Seq(Job), NEW job \in Job, job.kind \notin Weighty
  PROVE  Quiet(q, Append(q, job))
BY DEF Quiet

\* So is a status save.
LEMMA PushQuiet ==
  ASSUME NEW q \in Seq(Job)
  PROVE  Quiet(q, PushStatus(q))
<1>1. Status \in Job /\ Status.kind \notin Weighty
  BY InitialValues DEF Status, JobOf, Weighty
<1>2. Quiet(q, q)
  BY DEF Quiet
<1> QED BY <1>1, <1>2, AppendQuiet DEF PushStatus

\* Quiet steps compose.
LEMMA QuietTwice ==
  ASSUME NEW q, NEW p, NEW r, Quiet(q, p), Quiet(p, r)
  PROVE  Quiet(q, r)
BY DEF Quiet

\* Starting a delivery is quiet,
LEMMA LaunchQuiet ==
  ASSUME NEW att, NEW q \in Seq(Job), NEW C \in SUBSET Ids, Launch(att, q, C)
  PROVE  Quiet(q, jobs')
<1>1. \A i \in Ids : /\ JobOf("attempt", i, NoId, NoKey) \in Job
                     /\ JobOf("attempt", i, NoId, NoKey).kind \notin Weighty
  BY IntentJob DEF JobOf, Weighty
<1>2. Quiet(q, q)
  BY DEF Quiet
<1> QED BY <1>1, <1>2, AppendQuiet DEF Launch, StartJobs

\* and so is passing a slot on.
LEMMA PumpQuiet ==
  ASSUME NEW att, NEW q \in Seq(Job), NEW o, Pump(att, q, o)
  PROVE  Quiet(q, jobs')
<1> DEFINE C == {i \in PendingIn(o) : att[i].stage = "queued" /\ o[i].delivery = "sending"}
<1>1. C \in SUBSET Ids
  BY DEF PendingIn
<1>2. Quiet(q, q)
  BY DEF Quiet
<1>3. CASE Launch(att, q, C)
  BY <1>1, <1>3, LaunchQuiet
<1>4. CASE jobs' = q
  BY <1>2, <1>4
<1> QED BY <1>3, <1>4 DEF Pump

\* Queueing an attempt is quiet, and starts that attempt alone.
LEMMA ScheduleQuiet ==
  ASSUME attempts \in [Ids -> Attempt], NEW q \in Seq(Job), NEW i \in Ids,
         NEW prev \in Deliveries, NEW wait \in {"none", "pending", "done", "failed"},
         Schedule(i, prev, wait, q)
  PROVE  /\ Quiet(q, jobs')
         /\ \A j \in Ids \ {i} : Active(j)' => Active(j)
<1> DEFINE att == [attempts EXCEPT ![i] = [stage |-> "queued", prev |-> prev, wait |-> wait]]
<1>1. Launch(att, q, {i}) /\ {i} \in SUBSET Ids
  BY DEF Schedule
<1>2. Quiet(q, jobs')
  <2> HIDE DEF att
  <2> QED BY <1>1, LaunchQuiet
<1>3. Continues(att, q)
  BY ScheduleContinues
<1>4. \A j \in Ids \ {i} : att[j] = attempts[j]
  OBVIOUS
<1> QED BY <1>2, <1>3, <1>4 DEF Continues, Active

\* What may join the snapshot or be delivered: an id in use, not dismissed, which no
\* save under way brings.
Joins(i) == /\ i \in used' \ dismissed
            /\ ~Replaces(saving, i) /\ \A n \in DOMAIN jobs : ~Replaces(jobs[n], i)

\* The step starts no save that relies on anything; what it shows or delivers was
\* shown or delivered, or may join.
Composes ==
  /\ UNCHANGED <<saving, captured, disk, dismissing, locks, recovering, dismissed>>
  /\ used \subseteq used' /\ Quiet(jobs, jobs')
  /\ journal' = "loading" => journal = "loading"
  /\ \A i \in Ids : /\ Has(ops', i) => Has(ops, i) \/ Joins(i)
                    /\ Active(i)' => Active(i) \/ (Joins(i) /\ dismissing[i] = "none")

\* Such a step keeps the invariant.
LEMMA ComposesKeepsFence ==
  ASSUME FenceInv, TypeOK', Composes
  PROVE  FenceInv'
<1> USE DEF Composes
<1>0. /\ TypeOK /\ saving \in Job /\ jobs \in Seq(Job) /\ jobs' \in Seq(Job)
      /\ \A n \in DOMAIN jobs : jobs[n] \in Job
      /\ \A n \in DOMAIN jobs' : jobs'[n] \in Job
  BY DEF FenceInv, TypeOK
<1>1. ASSUME NEW job \in Job, ReliesWell(job),
             \/ job = saving \/ \E n \in DOMAIN jobs : job = jobs[n]
      PROVE  ReliesWell(job)'
  <2>1. job.kind = "retire" /\ job.next # NoId => job.next \in Ids /\ ~Joins(job.next)
    BY <1>1, OutboxAssumption DEF Job, Joins, Replaces
  <2>2. job.kind = "retire" /\ job.next # NoId => Unknown(job.next)'
    BY <1>1, <2>1 DEF ReliesWell, Unknown
  <2> QED BY <1>1, <2>2 DEF ReliesWell
<1>2. SavesRely'
  <2>1. ReliesWell(saving)'
    <3>1. ReliesWell(saving)
      BY DEF FenceInv, SavesRely
    <3> QED BY <1>0, <1>1, <3>1 DEF ReliesWell, Unknown, Active, Has
  <2>2. ASSUME NEW n \in DOMAIN jobs' PROVE ReliesWell(jobs[n])'
    <3>1. CASE jobs'[n].kind \in Weighty
      <4>1. n \in DOMAIN jobs /\ jobs'[n] = jobs[n]
        BY <3>1 DEF Quiet
      <4>2. ReliesWell(jobs[n])
        BY <4>1 DEF FenceInv, SavesRely
      <4> QED BY <1>0, <1>1, <4>1, <4>2 DEF ReliesWell, Unknown, Active, Has
    <3>2. CASE jobs'[n].kind \notin Weighty
      BY <3>2 DEF ReliesWell, Weighty
    <3> QED BY <3>1, <3>2
  <2>3. saving'.kind = "dismiss" => ~Has(captured', saving'.id)
    BY DEF FenceInv, SavesRely
  <2> QED BY <2>1, <2>2, <2>3 DEF SavesRely
<1>3. SavesApart'
  <2>1. \A p, q : Clash(p, q) => p.kind \in Weighty /\ q.kind \in Weighty
    BY DEF Clash, Weighty
  <2> QED BY <2>1 DEF FenceInv, SavesApart, Quiet
<1>4. KnownIdsUsed'
  BY DEF FenceInv, KnownIdsUsed, Joins
<1>5. RecoveriesLock'
  BY DEF FenceInv, RecoveriesLock
<1>6. GoneForGood'
  <2>1. dismissed \subseteq Ids
    BY <1>0 DEF TypeOK
  <2> QED BY <2>1 DEF FenceInv, GoneForGood, Joins
<1>7. FencesHold'
  BY DEF FenceInv, FencesHold
<1> QED BY <1>2, <1>3, <1>4, <1>5, <1>6, <1>7 DEF FenceInv

\* A save starts: what it captures leaves out what it dismisses, and brings what it
\* adds.
LEMMA CaptureFence ==
  ASSUME ops \in [Ids -> Op], NEW job \in Job, NEW i \in Ids
  PROVE  /\ job.kind = "dismiss" /\ job.id = i => ~Has(Capture(job), i)
         /\ Has(Capture(job), i) => Has(ops, i) \/ Replaces(job, i)
<1>0. NoOp.place = "absent" /\ NoId \notin Ids
  BY OutboxAssumption DEF NoOp
<1>1. \A k \in Ids : Has(Acknowledged(ops, k), i) => Has(ops, i)
  BY DEF Acknowledged, Has, Op
<1>2. CASE job.kind = "dismiss"
  BY <1>0, <1>2 DEF Capture, Has, Replaces, Job
<1>3. CASE job.kind = "acknowledge"
  BY <1>1, <1>3 DEF Capture, Replaces, Job
<1>4. CASE job.kind = "retire"
  <2>1. job.id \in Ids /\ Acknowledged(ops, job.id) \in [Ids -> Op]
    BY <1>4, AcknowledgedType DEF Job
  <2>2. Capture(job) = IF job.next = NoId THEN Acknowledged(ops, job.id)
                       ELSE [Acknowledged(ops, job.id) EXCEPT
                               ![job.next] = Fresh(job.key, FALSE)]
    BY <1>4 DEF Capture
  <2> QED BY <1>1, <1>4, <2>1, <2>2 DEF Has, Replaces
<1>5. CASE job.kind \in {"none", "status", "attempt", "recover"}
  BY <1>5 DEF Capture, Replaces
<1> QED BY <1>2, <1>3, <1>4, <1>5 DEF Job

\* The start of a save keeps the invariant.
LEMMA SaveStartsKeepsFence ==
  ASSUME FenceInv, TypeOK', SaveStarts
  PROVE  FenceInv'
<1> USE DEF SaveStarts, history
<1>0. /\ TypeOK /\ jobs \in Seq(Job) /\ jobs # <<>> /\ Head(jobs) \in Job
      /\ ops \in [Ids -> Op] /\ 1 \in DOMAIN jobs /\ Head(jobs) = jobs[1]
      /\ \A n \in DOMAIN Tail(jobs) : n + 1 \in DOMAIN jobs /\ Tail(jobs)[n] = jobs[n + 1]
                                      /\ n \in Nat
  BY DEF FenceInv, TypeOK
<1>2. SavesRely'
  <2>1. ReliesWell(saving)' /\ \A n \in DOMAIN jobs' : ReliesWell(jobs[n])'
    <3>1. ReliesWell(saving)'
      <4>1. saving' = jobs[1] /\ ReliesWell(jobs[1])
        BY <1>0 DEF FenceInv, SavesRely
      <4> QED BY <4>1 DEF ReliesWell, Unknown, Active
    <3>2. ASSUME NEW n \in DOMAIN jobs' PROVE ReliesWell(jobs[n])'
      <4>1. jobs'[n] = jobs[n + 1] /\ ReliesWell(jobs[n + 1])
        BY <1>0 DEF FenceInv, SavesRely
      <4> QED BY <4>1 DEF ReliesWell, Unknown, Active
    <3> QED BY <3>1, <3>2
  <2>2. saving'.kind = "dismiss" => saving'.id \in Ids /\ ~Has(captured', saving'.id)
    BY <1>0, CaptureFence DEF Job
  <2> QED BY <2>1, <2>2 DEF SavesRely
<1>3. SavesApart'
  <2>1. \A n \in DOMAIN Tail(jobs) : n + 1 # 1
    BY <1>0
  <2>2. \A p, q : Clash(p, q) => Clash(q, p)
    BY DEF Clash
  <2>3. \A n \in DOMAIN jobs' : ~Clash(jobs'[n], saving')
    BY <1>0, <2>1 DEF FenceInv, SavesApart
  <2>4. \A m, n \in DOMAIN jobs' : Clash(jobs'[m], jobs'[n]) => m + 1 = n + 1
    BY <1>0 DEF FenceInv, SavesApart
  <2> QED BY <1>0, <2>3, <2>4 DEF SavesApart
<1>4. ASSUME NEW i \in Ids, Has(captured', i)
      PROVE  i \in used \ dismissed
  <2>1. CASE Has(ops, i)
    BY <2>1 DEF FenceInv, KnownIdsUsed, GoneForGood
  <2>2. CASE Replaces(Head(jobs), i)
    BY <1>0, <2>2, OutboxAssumption DEF FenceInv, SavesRely, ReliesWell, Unknown, Replaces
  <2> QED BY <1>0, <1>4, <2>1, <2>2, CaptureFence
<1>5. KnownIdsUsed'
  BY <1>4 DEF FenceInv, KnownIdsUsed, Active
<1>6. GoneForGood'
  <2>1. dismissed \subseteq Ids
    BY <1>0 DEF TypeOK
  <2> QED BY <1>4, <2>1 DEF FenceInv, GoneForGood, Active
<1> QED BY <1>2, <1>3, <1>5, <1>6
        DEF FenceInv, RecoveriesLock, FencesHold, Active

\* The save of job ends or is given up: its fence and lock are free, its replacement
\* may join, the snapshot it wrote may be the journal, its dismissal may be final;
\* what stays under way is apart from it.
JobEnds(job) ==
  /\ used' = used /\ journal' = journal
  /\ dismissing' = IF job.kind \in {"dismiss", "retire"}
                   THEN [dismissing EXCEPT ![job.id] = "none"] ELSE dismissing
  /\ locks' = IF job.kind \in {"dismiss", "recover"} THEN locks \ {job.id} ELSE locks
  /\ recovering' = IF job.kind = "recover"
                   THEN [recovering EXCEPT ![job.id] = NotRecovering] ELSE recovering
  /\ ReliesWell(saving') /\ ~Clash(saving', job)
  /\ saving'.kind = "dismiss" => ~Has(captured', saving'.id)
  /\ \A n \in DOMAIN jobs' :
       jobs'[n].kind \in Weighty => /\ ReliesWell(jobs'[n]) /\ ~Clash(jobs'[n], job)
                                    /\ ~Clash(jobs'[n], saving')
  /\ \A m, n \in DOMAIN jobs' : Clash(jobs'[m], jobs'[n]) => m = n
  /\ \A i \in Ids : /\ Has(ops', i) => Has(ops, i) \/ Replaces(job, i)
                    /\ Active(i)' => Active(i) \/ Replaces(job, i)
                    /\ Has(disk', i) => Has(disk, i) \/ Has(captured, i)
                    /\ Has(captured', i) => Has(captured, i)
  /\ \/ dismissed' = dismissed
     \/ /\ job.kind = "dismiss" /\ dismissed' = dismissed \cup {job.id}
        /\ ~Has(ops', job.id) /\ ~Has(disk', job.id) /\ ~Has(captured', job.id)

\* Such a step keeps the invariant.
LEMMA JobEndsKeepsFence ==
  ASSUME FenceInv, TypeOK', NEW job \in Job, ReliesWell(job), JobEnds(job)
  PROVE  FenceInv'
<1>0. /\ TypeOK /\ dismissing \in [Ids -> {"none", "lock", "verify", "save"}]
      /\ recovering \in [Ids -> Recovering] /\ saving' \in Job /\ jobs' \in Seq(Job)
      /\ \A n \in DOMAIN jobs' : jobs'[n] \in Job
      /\ dismissed \subseteq Ids /\ NoId \notin Ids
  BY OutboxAssumption DEF FenceInv, TypeOK
<1>1. /\ NotRecovering.stage = "idle"
      /\ \A x \in Job : x.kind \in Weighty => x.id \in Ids
      /\ \A x \in Job : x.kind = "retire" /\ x.next # NoId => x.next \in Ids
  BY OutboxAssumption DEF NotRecovering, Job, Weighty
<1>2. \A i \in Ids : Replaces(job, i) => Unknown(i)
  BY <1>0 DEF Replaces, ReliesWell
<1>3. ASSUME NEW x \in Job, ReliesWell(x), ~Clash(x, job)
      PROVE  /\ x.kind \in {"dismiss", "retire"} => dismissing'[x.id] = "save"
             /\ x.kind \in {"dismiss", "recover"} => x.id \in locks'
             /\ x.kind = "recover" => recovering'[x.id].stage = "save"
             /\ x.kind = "dismiss" => recovering'[x.id].stage \notin {"load", "save"}
             /\ x.kind = "retire" /\ x.next # NoId => Unknown(x.next)'
  <2>1. x.kind \in {"dismiss", "retire"} => dismissing'[x.id] = "save"
    BY <1>0, <1>1, <1>3 DEF JobEnds, ReliesWell, Clash, Weighty
  <2>2. x.kind \in {"dismiss", "recover"} => x.id \in locks'
    BY <1>0, <1>1, <1>3 DEF JobEnds, ReliesWell, Clash, Weighty
  <2>3. x.kind = "recover" => recovering'[x.id].stage = "save"
    BY <1>0, <1>1, <1>3 DEF JobEnds, ReliesWell, Clash, Weighty
  <2>4. x.kind = "dismiss" => recovering'[x.id].stage \notin {"load", "save"}
    BY <1>0, <1>1, <1>3 DEF JobEnds, ReliesWell, Clash, Weighty
  <2>5. ASSUME x.kind = "retire", x.next # NoId PROVE Unknown(x.next)'
    <3>1. x.next \in Ids /\ Unknown(x.next) /\ ~Replaces(job, x.next)
      BY <1>1, <1>3, <2>5 DEF ReliesWell, Clash, Replaces
    <3>2. dismissing'[x.next] = "none" /\ recovering'[x.next].stage # "load"
      BY <1>0, <1>1, <3>1 DEF JobEnds, Unknown
    <3>3. job.kind = "dismiss" => job.id # x.next
      BY <3>1 DEF ReliesWell, Unknown
    <3> QED BY <3>1, <3>2, <3>3 DEF JobEnds, Unknown
  <2> QED BY <2>1, <2>2, <2>3, <2>4, <2>5
<1>4. SavesRely'
  <2>1. ReliesWell(saving)'
    <3>1. ReliesWell(saving') /\ ~Clash(saving', job)
      BY DEF JobEnds
    <3> QED BY <1>0, <1>3, <3>1 DEF ReliesWell
  <2>2. ASSUME NEW n \in DOMAIN jobs' PROVE ReliesWell(jobs[n])'
    <3>1. CASE jobs'[n].kind \in Weighty
      <4>1. jobs'[n] \in Job /\ ReliesWell(jobs'[n]) /\ ~Clash(jobs'[n], job)
        BY <1>0, <3>1 DEF JobEnds
      <4> QED BY <1>3, <4>1 DEF ReliesWell
    <3>2. CASE jobs'[n].kind \notin Weighty
      BY <3>2 DEF ReliesWell, Weighty
    <3> QED BY <3>1, <3>2
  <2>3. saving'.kind = "dismiss" => ~Has(captured', saving'.id)
    BY DEF JobEnds
  <2> QED BY <2>1, <2>2, <2>3 DEF SavesRely
<1>5. SavesApart'
  <2>1. \A p, q : Clash(p, q) => p.kind \in Weighty /\ q.kind \in Weighty
    BY DEF Clash, Weighty
  <2> QED BY <2>1 DEF JobEnds, SavesApart
<1>6. job.kind = "dismiss" => /\ job.id \in Ids /\ job.id \in used /\ ~Active(job.id)
                              /\ recovering[job.id].stage # "load"
                              /\ ~Replaces(job, job.id)
  BY <1>0, <1>1 DEF ReliesWell, FenceInv, KnownIdsUsed, FencesHold, Replaces, Weighty
<1>7. KnownIdsUsed'
  <2>1. \A i \in Ids : /\ dismissing'[i] # "none" => dismissing[i] # "none"
                       /\ recovering'[i].stage = "load" => recovering[i].stage = "load"
    BY <1>0, <1>1 DEF JobEnds
  <2> QED BY <1>2, <1>6, <2>1 DEF JobEnds, FenceInv, KnownIdsUsed, Unknown
<1>8. RecoveriesLock'
  BY <1>0, <1>1 DEF JobEnds, FenceInv, RecoveriesLock, ReliesWell
<1>9. GoneForGood'
  <2>1. \A i \in Ids : recovering'[i].stage = "load" => recovering[i].stage = "load"
    BY <1>0, <1>1 DEF JobEnds
  <2>2. ASSUME NEW i \in dismissed
        PROVE  ~Has(ops', i) /\ ~Has(disk', i) /\ ~Has(captured', i) /\ ~Active(i)'
               /\ recovering'[i].stage # "load"
    BY <1>0, <1>2, <2>1 DEF JobEnds, FenceInv, GoneForGood, Unknown
  <2>3. job.kind = "dismiss" => ~Active(job.id)' /\ recovering'[job.id].stage # "load"
    BY <1>6, <2>1 DEF JobEnds
  <2> QED BY <2>2, <2>3 DEF JobEnds, GoneForGood
<1>10. FencesHold'
  <2>1. \A i \in Ids : dismissing'[i] # "none" => dismissing[i] # "none"
    BY <1>0 DEF JobEnds
  <2> QED BY <1>2, <2>1 DEF JobEnds, FenceInv, FencesHold, Unknown
<1> QED BY <1>4, <1>5, <1>7, <1>8, <1>9, <1>10 DEF FenceInv

\* The saves that stay under way when the running one ends are apart from it.
LEMMA SavingEnds ==
  ASSUME FenceInv, Quiet(jobs, jobs'), saving' = NoJob
  PROVE  /\ ReliesWell(saving') /\ ~Clash(saving', saving) /\ saving'.kind # "dismiss"
         /\ \A n \in DOMAIN jobs' :
              jobs'[n].kind \in Weighty => /\ ReliesWell(jobs'[n]) /\ ~Clash(jobs'[n], saving)
                                           /\ ~Clash(jobs'[n], saving')
         /\ \A m, n \in DOMAIN jobs' : Clash(jobs'[m], jobs'[n]) => m = n
<1>1. NoJob.kind = "none"
  BY DEF NoJob, JobOf
<1>2. \A p, q : Clash(p, q) => p.kind \in Weighty /\ q.kind \in Weighty
  BY DEF Clash, Weighty
<1>3. ReliesWell(NoJob)
  BY <1>1 DEF ReliesWell
<1>4. NoJob.kind \notin Weighty
  BY <1>1 DEF Weighty
<1> QED BY <1>1, <1>2, <1>3, <1>4 DEF FenceInv, SavesRely, SavesApart, Quiet

\* The end of a save keeps the invariant.
LEMMA SavedKeepsFence ==
  ASSUME FenceInv, TypeOK',
         \/ StatusSaved \/ AttemptSaved \/ DismissSaved \/ AcknowledgeSaved \/ RetireSaved
         \/ RecoverSaved
  PROVE  FenceInv'
<1> USE DEF history, Written
<1>0. /\ TypeOK /\ saving \in Job /\ jobs \in Seq(Job) /\ ops \in [Ids -> Op]
      /\ attempts \in [Ids -> Attempt] /\ ReliesWell(saving)
      /\ \A i \in Ids : ~Has(Empty, i) /\ NoOp.place = "absent"
      /\ saving' = NoJob /\ captured' = Empty /\ disk' = captured
  BY DEF FenceInv, SavesRely, TypeOK, Empty, Has, NoOp, StatusSaved, AttemptSaved,
         DismissSaved, AcknowledgeSaved, RetireSaved, RecoverSaved
<1>1. ASSUME used' = used, journal' = journal, Quiet(jobs, jobs'),
             dismissing' = IF saving.kind \in {"dismiss", "retire"}
                           THEN [dismissing EXCEPT ![saving.id] = "none"] ELSE dismissing,
             locks' = IF saving.kind \in {"dismiss", "recover"}
                      THEN locks \ {saving.id} ELSE locks,
             recovering' = IF saving.kind = "recover"
                           THEN [recovering EXCEPT ![saving.id] = NotRecovering]
                           ELSE recovering,
             \A i \in Ids : /\ Has(ops', i) => Has(ops, i) \/ Replaces(saving, i)
                            /\ Active(i)' => Active(i) \/ Replaces(saving, i),
             \/ dismissed' = dismissed
             \/ /\ saving.kind = "dismiss" /\ dismissed' = dismissed \cup {saving.id}
                /\ ~Has(ops', saving.id) /\ ~Has(disk', saving.id)
      PROVE  FenceInv'
  <2>1. saving.kind = "dismiss" => saving.id \in Ids
    BY <1>0 DEF Job
  <2>2. JobEnds(saving)
    BY <1>0, <1>1, <2>1, SavingEnds DEF JobEnds
  <2> QED BY <1>0, <2>2, JobEndsKeepsFence
<1>2. Quiet(jobs, jobs)
  BY DEF Quiet
<1>3. CASE StatusSaved
  BY <1>0, <1>1, <1>2, <1>3 DEF StatusSaved, Active
<1>4. CASE AttemptSaved
  <2>1. \A i \in Ids : Active(i)' => Active(i)
    BY <1>0, <1>4 DEF AttemptSaved, Told, Active, Attempt
  <2> QED BY <1>0, <1>1, <1>2, <1>4, <2>1 DEF AttemptSaved
<1>5. CASE DismissSaved
  <2>1. saving.id \in Ids /\ saving.kind = "dismiss"
    BY <1>0, <1>5 DEF DismissSaved, Job
  <2>2. /\ \A i \in Ids : Has(ops', i) => Has(ops, i)
        /\ ~Has(ops', saving.id) /\ ~Has(disk', saving.id)
    BY <1>0, <1>5, <2>1 DEF DismissSaved, Has, FenceInv, SavesRely
  <2> QED BY <1>0, <1>1, <1>2, <1>5, <2>1, <2>2 DEF DismissSaved, Active
<1>6. CASE AcknowledgeSaved
  <2>1. saving.id \in Ids
    BY <1>0, <1>6 DEF AcknowledgeSaved, Job
  <2>2. \A i \in Ids : Has(ops', i) => Has(ops, i)
    BY <1>0, <1>6, <2>1, ReleasedCalms, CalmerFacts DEF AcknowledgeSaved, Calmed, Has
  <2> QED BY <1>0, <1>1, <1>2, <1>6, <2>2 DEF AcknowledgeSaved, Active
<1>7. CASE RetireSaved
  <2>1. /\ saving.kind = "retire" /\ saving.id \in Ids /\ saving.next \in Ids \cup {NoId}
        /\ saving.key \in Keys \cup {NoKey}
    BY <1>0, <1>7, OutboxAssumption DEF RetireSaved, Job
  <2>2. /\ \A i \in Ids : /\ Has(ops', i) => Has(ops, i) \/ Replaces(saving, i)
                          /\ Active(i)' => Active(i) \/ Replaces(saving, i)
        /\ Quiet(jobs, jobs')
    <3>1. CASE saving.next = NoId
      <4>1. ops' \in Released(ops, saving.id) /\ UNCHANGED <<attempts, jobs>>
        BY <1>7, <3>1 DEF RetireSaved
      <4> QED BY <1>0, <1>2, <2>1, <4>1, ReleasedCalms, CalmerFacts DEF Calmed, Has, Active
    <3>2. CASE saving.next \in Ids
      <4> DEFINE joined == [ops EXCEPT ![saving.next] = Fresh(saving.key, FALSE)]
      <4>1. joined \in [Ids -> Op]
        BY <1>0, <2>1, <3>2, InitialValues
      <4>2. /\ ops' \in Released(joined, saving.id)
            /\ \/ UNCHANGED <<attempts, jobs>>
               \/ Schedule(saving.next, "failed", "none", jobs)
        BY <1>7, <3>2, OutboxAssumption DEF RetireSaved
      <4>3. \A i \in Ids \ {saving.next} : Has(joined, i) => Has(ops, i)
        BY <1>0 DEF Has
      <4> HIDE DEF joined
      <4>4. \A i \in Ids : Has(ops', i) => Has(joined, i)
        BY <2>1, <4>1, <4>2, ReleasedCalms, CalmerFacts DEF Calmed, Has
      <4>5. Quiet(jobs, jobs') /\ \A i \in Ids \ {saving.next} : Active(i)' => Active(i)
        BY <1>0, <1>2, <3>2, <4>2, ScheduleQuiet DEF Deliveries, Active
      <4> QED BY <2>1, <4>3, <4>4, <4>5 DEF Replaces
    <3> QED BY <2>1, <3>1, <3>2
  <2> QED BY <1>0, <1>1, <1>7, <2>1, <2>2 DEF RetireSaved
<1>8. CASE RecoverSaved
  BY <1>0, <1>1, <1>2, <1>8 DEF RecoverSaved, Active
<1> QED BY <1>3, <1>4, <1>5, <1>6, <1>7, <1>8

\* A save that fails or is refused keeps the invariant.
LEMMA FailedKeepsFence ==
  ASSUME FenceInv, TypeOK', SaveFails \/ SaveRefused
  PROVE  FenceInv'
<1> USE DEF history
<1>0. /\ TypeOK /\ saving \in Job /\ jobs \in Seq(Job) /\ attempts \in [Ids -> Attempt]
      /\ \A i \in Ids : ~Has(Empty, i)
  BY DEF FenceInv, TypeOK, Empty, Has, NoOp
<1>1. ASSUME NEW job, NEW q, FailJob(job, q)
      PROVE  \A i \in Ids : Active(i)' => Active(i)
  BY <1>0, <1>1 DEF FailJob, Told, Active, Attempt
<1>2. CASE SaveFails
  <2>1. Quiet(jobs, jobs') /\ saving' = NoJob
    BY <1>2 DEF Quiet, SaveFails
  <2>2. /\ UNCHANGED <<ops, journal, disk, used, dismissed>> /\ captured' = Empty
        /\ FailJob(saving, jobs)
    BY <1>2 DEF SaveFails
  <2>3. JobEnds(saving)
    BY <1>0, <1>1, <2>1, <2>2, SavingEnds DEF JobEnds, FailJob
  <2>4. ReliesWell(saving)
    BY DEF FenceInv, SavesRely
  <2> QED BY <1>0, <2>3, <2>4, JobEndsKeepsFence
<1>3. CASE SaveRefused
  <2>1. /\ Head(jobs) \in Job /\ 1 \in DOMAIN jobs /\ Head(jobs) = jobs[1]
        /\ \A n \in DOMAIN jobs' : n + 1 \in DOMAIN jobs /\ jobs'[n] = jobs[n + 1]
                                   /\ n \in Nat /\ n + 1 # 1
    BY <1>0, <1>3 DEF SaveRefused
  <2>2. /\ UNCHANGED <<ops, journal, disk, used, dismissed, captured, saving>>
        /\ FailJob(Head(jobs), Tail(jobs))
    BY <1>3 DEF SaveRefused
  <2>3. \A p, q : Clash(p, q) => Clash(q, p)
    BY DEF Clash
  <2>4. ReliesWell(saving') /\ ~Clash(saving', Head(jobs))
        /\ (saving'.kind = "dismiss" => ~Has(captured', saving'.id))
    BY <2>1, <2>2, <2>3 DEF FenceInv, SavesRely, SavesApart
  <2>5. \A n \in DOMAIN jobs' : /\ ReliesWell(jobs'[n]) /\ ~Clash(jobs'[n], Head(jobs))
                                /\ ~Clash(jobs'[n], saving')
    BY <2>1, <2>2 DEF FenceInv, SavesRely, SavesApart
  <2>6. \A m, n \in DOMAIN jobs' : Clash(jobs'[m], jobs'[n]) => m = n
    <3>1. \A m, n \in DOMAIN jobs' : Clash(jobs'[m], jobs'[n]) => m + 1 = n + 1
      BY <2>1 DEF FenceInv, SavesApart
    <3> QED BY <2>1, <3>1
  <2>7. JobEnds(Head(jobs))
    BY <1>1, <2>2, <2>4, <2>5, <2>6 DEF JobEnds, FailJob
  <2>8. ReliesWell(Head(jobs))
    BY <2>1 DEF FenceInv, SavesRely
  <2> QED BY <2>1, <2>7, <2>8, JobEndsKeepsFence
<1> QED BY <1>2, <1>3

\* What is shown or delivered may be shown and delivered again.
LEMMA KnownJoins ==
  ASSUME FenceInv, used \subseteq used', NEW i \in Ids, Has(ops, i) \/ Active(i)
  PROVE  Joins(i)
BY OutboxAssumption
   DEF FenceInv, SavesRely, ReliesWell, Unknown, KnownIdsUsed, GoneForGood, Joins, Replaces

\* Evictions show nothing new.
LEMMA TrimShowsNothing ==
  ASSUME NEW o \in [Ids -> Op], NEW p \in Trim(o)
  PROVE  \A j \in Ids : Has(p, j) => Has(o, j)
BY TrimCalms, CalmerFacts DEF Calmed, Has

\* Hydration brings what is saved.
LEMMA HydrateKeepsFence ==
  ASSUME FenceInv, TypeOK', Hydrate \/ HydrateFails
  PROVE  FenceInv'
<1> USE DEF history
<1>0. /\ TypeOK /\ ops \in [Ids -> Op] /\ disk \in [Ids -> Op] /\ Quiet(jobs, jobs)
      /\ used = used' => used \subseteq used'
  BY DEF FenceInv, TypeOK, Quiet
<1>1. CASE HydrateFails
  <2>1. Composes
    BY <1>0, <1>1 DEF HydrateFails, Composes, Has, Active
  <2> QED BY <2>1, ComposesKeepsFence
<1>2. CASE Hydrate
  <2> DEFINE merged == [j \in Ids |-> IF Has(disk, j) THEN Restored(j, disk[j]) ELSE ops[j]]
  <2>1. merged \in [Ids -> Op]
    BY <1>0, RestoredType
  <2>2. \A j \in Ids : Has(merged, j) => Has(ops, j) \/ Has(disk, j)
    BY DEF Has
  <2>3. ops' = ops \/ ops' \in Trim(merged)
    BY <1>2 DEF Hydrate
  <2> HIDE DEF merged
  <2>4. \A j \in Ids : Has(ops', j) => Has(ops, j) \/ Has(disk, j)
    BY <2>1, <2>2, <2>3, TrimShowsNothing DEF Has
  <2>5. \A j \in Ids : Has(disk, j) => Joins(j)
    BY <1>2, OutboxAssumption
       DEF Hydrate, FenceInv, SavesRely, ReliesWell, Unknown, KnownIdsUsed, GoneForGood,
           Joins, Replaces
  <2>6. Composes
    BY <1>0, <1>2, <2>4, <2>5 DEF Hydrate, Composes, Active
  <2> QED BY <2>6, ComposesKeepsFence
<1> QED BY <1>1, <1>2

\* Sends, retries and withdrawals keep the invariant.
LEMMA ComposeKeepsFence ==
  ASSUME FenceInv, TypeOK', Compose
  PROVE  FenceInv'
<1> USE DEF history
<1>0. /\ TypeOK /\ ops \in [Ids -> Op] /\ jobs \in Seq(Job) /\ attempts \in [Ids -> Attempt]
  BY DEF FenceInv, TypeOK
<1>1. ASSUME NEW i \in Ids, NEW k \in Keys \cup {NoKey}, NEW g \in BOOLEAN, Send(i, k, g)
      PROVE  FenceInv'
  <2> DEFINE job == JobOf("attempt", i, NoId, NoKey)
  <2>1. job \in Job /\ job.kind \notin Weighty
    BY IntentJob DEF JobOf, Weighty
  <2>2. Schedule(i, "failed", "pending", Append(jobs, job))
    BY <1>1 DEF Send
  <2> HIDE DEF job
  <2>3. Append(jobs, job) \in Seq(Job) /\ Quiet(jobs, Append(jobs, job))
    BY <1>0, <2>1, AppendQuiet
  <2>4. Quiet(jobs, jobs') /\ \A j \in Ids \ {i} : Active(j)' => Active(j)
    BY <1>0, <2>3, <2>2, ScheduleQuiet, QuietTwice DEF Deliveries
  <2>5. Joins(i) /\ dismissing[i] = "none"
    BY <1>1, OutboxAssumption DEF Send, FenceInv, SavesRely, ReliesWell, Unknown,
       KnownIdsUsed, Joins, Replaces
  <2>6. \A j \in Ids \ {i} : Has(ops', j) => Has(ops, j)
    BY <1>0, <1>1 DEF Send, Has
  <2>7. Composes
    BY <1>1, <2>4, <2>5, <2>6 DEF Send, Composes
  <2> QED BY <2>7, ComposesKeepsFence
<1>2. ASSUME NEW i \in Ids, NEW renewed \in BOOLEAN, Retry(i, renewed)
      PROVE  FenceInv'
  <2>1. Schedule(i, ops[i].delivery, "none", jobs) /\ ops[i].delivery \in Deliveries
    BY <1>0, <1>2 DEF Retry, Op
  <2>2. Quiet(jobs, jobs') /\ \A j \in Ids \ {i} : Active(j)' => Active(j)
    BY <1>0, <2>1, ScheduleQuiet
  <2>3. Has(ops, i) /\ dismissing[i] = "none" /\ used' = used
    BY <1>2 DEF Retry, Has
  <2>4. Joins(i)
    BY <2>3, KnownJoins
  <2>5. \A j \in Ids : Has(ops', j) => Has(ops, j)
    BY <1>0, <1>2, <2>3 DEF Retry, Has
  <2>6. Composes
    BY <1>2, <2>2, <2>3, <2>4, <2>5 DEF Retry, Composes
  <2> QED BY <2>6, ComposesKeepsFence
<1>3. CASE Withdraw
  <2>1. Composes
    BY <1>3 DEF Withdraw, Composes, Quiet, Has, Active
  <2> QED BY <2>1, ComposesKeepsFence
<1>4. CASE SendPlain \/ SendGuarded
  BY <1>1, <1>4, OutboxAssumption DEF SendPlain, SendGuarded
<1>5. CASE RetryPlain \/ RetryRenewed
  BY <1>2, <1>5, OutboxAssumption DEF RetryPlain, RetryRenewed
<1> QED BY <1>3, <1>4, <1>5 DEF Compose

\* The end of an attempt shows and starts nothing new.
LEMMA FinishQuiet ==
  ASSUME TypeOK, NEW i \in Ids, NEW d \in Deliveries, Finish(i, d)
  PROVE  /\ Quiet(jobs, jobs')
         /\ \A j \in Ids : Active(j)' => Active(j)
         /\ \A j \in Ids \ {i} : Has(ops', j) => Has(ops, j)
<1> DEFINE updated == [ops[i] EXCEPT !.delivery = d]
           done == Settled(i, updated)
           result == [ops EXCEPT ![i] = IF done THEN [updated EXCEPT !.place = "confirmed"]
                                                ELSE updated]
           idle == [attempts EXCEPT ![i] = Idle]
<1>0. /\ ops \in [Ids -> Op] /\ ops[i] \in Op /\ attempts \in [Ids -> Attempt]
      /\ jobs \in Seq(Job) /\ PushStatus(jobs) \in Seq(Job) /\ idle \in [Ids -> Attempt]
  BY InitialValues, PushStatusType DEF TypeOK
<1>1. updated \in Op /\ [updated EXCEPT !.place = "confirmed"] \in Op
  BY <1>0 DEF Op
<1>2. result \in [Ids -> Op] /\ \A j \in Ids \ {i} : Has(result, j) => Has(ops, j)
  BY <1>0, <1>1 DEF Has
<1>3. ops' \in (IF done THEN Trim(result) ELSE {result}) /\ Pump(idle, PushStatus(jobs), result)
  BY DEF Finish
<1>4. \A j \in Ids : idle[j].stage # "idle" => Active(j)
  BY <1>0 DEF Active, Idle
<1> HIDE DEF updated, done, result, idle
<1>5. Quiet(jobs, jobs')
  BY <1>0, <1>3, PumpQuiet, PushQuiet, QuietTwice
<1>6. \A j \in Ids : Active(j)' => Active(j)
  BY <1>0, <1>3, <1>4, PumpContinues DEF Continues, Active
<1>7. \A j \in Ids \ {i} : Has(ops', j) => Has(ops, j)
  BY <1>2, <1>3, TrimShowsNothing
<1> QED BY <1>5, <1>6, <1>7

\* Every stage of an attempt, its end and its echo keep the invariant.
LEMMA DeliverKeepsFence ==
  ASSUME FenceInv, TypeOK', NEW i \in Ids, Deliver(i)
  PROVE  FenceInv'
<1> USE DEF history, journalState, quietHistory
<1>0. /\ TypeOK /\ ops \in [Ids -> Op] /\ ops[i] \in Op /\ attempts \in [Ids -> Attempt]
      /\ attempts[i] \in Attempt /\ jobs \in Seq(Job) /\ PushStatus(jobs) \in Seq(Job)
      /\ Quiet(jobs, jobs)
      /\ JobOf("attempt", i, NoId, NoKey) \in Job
      /\ JobOf("attempt", i, NoId, NoKey).kind \notin Weighty
  BY PushStatusType, IntentJob DEF FenceInv, TypeOK, Quiet, JobOf, Weighty
<1>1. ASSUME UNCHANGED <<saving, captured, disk, dismissing, locks, recovering, dismissed,
                         journal, used>>,
             Quiet(jobs, jobs'), Has(ops, i) \/ Active(i),
             \A j \in Ids : Active(j)' => Active(j),
             \A j \in Ids \ {i} : Has(ops', j) => Has(ops, j)
      PROVE  FenceInv'
  <2>1. Joins(i)
    BY <1>1, KnownJoins
  <2>2. Composes
    BY <1>1, <2>1 DEF Composes
  <2> QED BY <2>2, ComposesKeepsFence
<1>2. ASSUME NEW d \in Deliveries, Finish(i, d), Active(i),
             UNCHANGED <<saving, captured, disk, dismissing, locks, recovering, dismissed,
                         journal, used>>
      PROVE  FenceInv'
  BY <1>0, <1>1, <1>2, FinishQuiet
<1>3. CASE IntentSaved(i)
  <2>1. Quiet(jobs, jobs')
    BY <1>0, <1>3, AppendQuiet DEF IntentSaved
  <2>2. \A j \in Ids : Active(j)' => Active(j)
    BY <1>0, <1>3 DEF IntentSaved, Active, Attempt
  <2> QED BY <1>1, <1>3, <2>1, <2>2 DEF IntentSaved, Active, Has
<1>4. CASE Signed(i)
  <2>1. Quiet(jobs, jobs')
    BY <1>0, <1>4, AppendQuiet DEF Signed
  <2>2. \A j \in Ids : Active(j)' => Active(j)
    BY <1>0, <1>4 DEF Signed, Active, Attempt
  <2>3. \A j \in Ids \ {i} : Has(ops', j) => Has(ops, j)
    BY <1>0, <1>4 DEF Signed, Has
  <2> QED BY <1>1, <1>4, <2>1, <2>2, <2>3 DEF Signed, Active
<1>5. CASE SignatureSaved(i)
  <2> DEFINE held == [attempts EXCEPT ![i].stage = "hold", ![i].wait = "none"]
  <2>1. held \in [Ids -> Attempt] /\ \A j \in Ids : held[j].stage # "idle" => Active(j)
    BY <1>0, <1>5 DEF SignatureSaved, Active, Attempt
  <2>2. CASE Pump(held, jobs, ops)
    <3> HIDE DEF held
    <3>1. Quiet(jobs, jobs') /\ \A j \in Ids : Active(j)' => Active(j)
      BY <1>0, <2>1, <2>2, PumpQuiet, PumpContinues DEF Continues, Active
    <3> QED BY <1>1, <1>5, <3>1 DEF SignatureSaved, Active, Has
  <2>3. CASE attempts' = [attempts EXCEPT ![i].stage = "prepare", ![i].wait = "none"]
             /\ jobs' = jobs
    <3>1. Quiet(jobs, jobs') /\ \A j \in Ids : Active(j)' => Active(j)
      BY <1>0, <1>5, <2>3 DEF SignatureSaved, Active, Attempt
    <3> QED BY <1>1, <1>5, <3>1 DEF SignatureSaved, Active, Has
  <2> QED BY <1>5, <2>2, <2>3 DEF SignatureSaved
<1>6. CASE HoldEnds(i)
  <2>1. \A j \in Ids : Active(j)' => Active(j)
    BY <1>0, <1>6 DEF HoldEnds, Active, Attempt
  <2> QED BY <1>0, <1>1, <1>6, <2>1 DEF HoldEnds, Active, Has
<1>7. CASE PublishStarts(i)
  <2>1. \A j \in Ids : Active(j)' => Active(j)
    BY <1>0, <1>7 DEF PublishStarts, Active, Attempt
  <2> QED BY <1>0, <1>1, <1>7, <2>1 DEF PublishStarts, Active, Has
<1>8. CASE PublishAccepted(i)
  BY <1>2, <1>8 DEF PublishAccepted, Deliveries, Active
<1>9. CASE PublishRejected(i) \/ PublishLost(i) \/ FailsUnpublished(i) \/ ExpiresActive(i)
  <2>1. \A u \in BOOLEAN : CaughtDelivery(i, u) \in Deliveries
    BY <1>0, DeliveryType
  <2> QED BY <1>2, <1>9, <2>1
          DEF PublishRejected, PublishLost, FailsUnpublished, ExpiresActive, Active
<1>10. CASE ExpiresQueued(i)
  <2>1. Quiet(jobs, jobs')
    BY <1>0, <1>10, PushQuiet DEF ExpiresQueued
  <2>2. \A j \in Ids : Active(j)' => Active(j)
    BY <1>0, <1>10 DEF ExpiresQueued, Active, Idle
  <2>3. \A j \in Ids \ {i} : Has(ops', j) => Has(ops, j)
    BY <1>0, <1>10 DEF ExpiresQueued, Has
  <2> QED BY <1>1, <1>10, <2>1, <2>2, <2>3 DEF ExpiresQueued, Active
<1>11. CASE Observe(i)
  <2> DEFINE stays == i \in Workflows /\ Active(i)
             seen == [ops[i] EXCEPT !.signed = TRUE, !.delivery = "seen"]
             kept == stays \/ ops[i].key # NoKey
             result == [ops EXCEPT ![i] = IF kept THEN seen
                                          ELSE [seen EXCEPT !.place = "confirmed"]]
             idle == [attempts EXCEPT ![i] = Idle]
  <2>1. /\ ops' \in (IF kept THEN {result} ELSE Trim(result))
        /\ \/ Pump(idle, PushStatus(jobs), result)
           \/ attempts' \in {attempts, idle} /\ jobs' = PushStatus(jobs)
        /\ Has(ops, i)
        /\ UNCHANGED <<saving, captured, disk, dismissing, locks, recovering, dismissed,
                       journal, used>>
    BY <1>11 DEF Observe, Has
  <2>2. seen \in Op /\ [seen EXCEPT !.place = "confirmed"] \in Op
    BY <1>0 DEF Op, Deliveries
  <2>3. result \in [Ids -> Op] /\ \A j \in Ids \ {i} : Has(result, j) => Has(ops, j)
    BY <1>0, <2>2 DEF Has
  <2>4. idle \in [Ids -> Attempt] /\ \A j \in Ids : idle[j].stage # "idle" => Active(j)
    BY <1>0, InitialValues DEF Active, Idle
  <2> HIDE DEF kept, result, idle
  <2>5. \A j \in Ids \ {i} : Has(ops', j) => Has(ops, j)
    BY <2>1, <2>3, TrimShowsNothing
  <2>6. Quiet(jobs, jobs')
    BY <1>0, <2>1, PumpQuiet, PushQuiet, QuietTwice
  <2>7. \A j \in Ids : Active(j)' => Active(j)
    BY <1>0, <2>1, <2>4, PumpContinues DEF Continues, Active
  <2> QED BY <1>1, <2>1, <2>5, <2>6, <2>7
<1> QED BY <1>3, <1>4, <1>5, <1>6, <1>7, <1>8, <1>9, <1>10, <1>11 DEF Deliver

\* The calls that resolve a receipt take fences and locks only when they are free.
LEMMA ResolveKeepsFence ==
  ASSUME FenceInv, TypeOK', NEW i \in Ids, Resolve(i)
  PROVE  FenceInv'
<1> USE DEF history, journalState
<1>0. /\ TypeOK /\ ops \in [Ids -> Op] /\ disk \in [Ids -> Op] /\ jobs \in Seq(Job)
      /\ dismissing \in [Ids -> {"none", "lock", "verify", "save"}]
      /\ recovering \in [Ids -> Recovering] /\ recovering[i] \in Recovering
      /\ saving \in Job /\ \A n \in DOMAIN jobs : jobs[n] \in Job
      /\ dismissed \subseteq Ids /\ NoId \notin Ids /\ Quiet(jobs, jobs)
  BY OutboxAssumption DEF FenceInv, TypeOK, Quiet
<1>1. NotRecovering.stage = "idle"
  BY DEF NotRecovering
<1>2. CASE Acknowledge(i)
  <2>1. JobOf("acknowledge", i, NoId, NoKey) \in Job
        /\ JobOf("acknowledge", i, NoId, NoKey).kind \notin Weighty
    BY IntentJob DEF JobOf, Weighty
  <2>2. Quiet(jobs, jobs')
    BY <1>0, <1>2, <2>1, AppendQuiet DEF Acknowledge
  <2>3. Composes
    BY <1>2, <2>2 DEF Acknowledge, Composes, Has, Active
  <2> QED BY <2>3, ComposesKeepsFence
<1>3. ASSUME NEW fence \in {"none", "lock", "verify"},
             dismissing' = [dismissing EXCEPT ![i] = fence], dismissing[i] # "save",
             fence = "none" \/ (Has(ops, i) /\ ~Active(i)),
             UNCHANGED <<ops, attempts, jobs, saving, captured, journal, locks, recovering,
                         disk, used, dismissed>>
      PROVE  FenceInv'
  <2>1. ASSUME NEW x \in Job, ReliesWell(x)
        PROVE  /\ x.kind \in {"dismiss", "retire"} => dismissing'[x.id] = "save"
               /\ x.kind = "retire" /\ x.next # NoId => Unknown(x.next)'
    BY <1>0, <1>3, <2>1 DEF ReliesWell, Unknown, Job, Has, Active
  <2>2. SavesRely'
    <3>1. ReliesWell(saving)'
      <4>1. ReliesWell(saving)
        BY DEF FenceInv, SavesRely
      <4> QED BY <1>0, <1>3, <2>1, <4>1 DEF ReliesWell
    <3>2. ASSUME NEW n \in DOMAIN jobs PROVE ReliesWell(jobs[n])'
      <4>1. ReliesWell(jobs[n])
        BY DEF FenceInv, SavesRely
      <4> QED BY <1>0, <1>3, <2>1, <4>1 DEF ReliesWell
    <3> QED BY <1>3, <3>1, <3>2 DEF FenceInv, SavesRely
  <2>3. SavesApart' /\ RecoveriesLock' /\ GoneForGood'
    BY <1>3 DEF FenceInv, SavesApart, RecoveriesLock, GoneForGood, Has, Active
  <2>4. KnownIdsUsed' /\ FencesHold'
    BY <1>0, <1>3 DEF FenceInv, KnownIdsUsed, FencesHold, Has, Active
  <2> QED BY <2>2, <2>3, <2>4 DEF FenceInv
<1>4. CASE RetireStarts(i)
  BY <1>3, <1>4 DEF RetireStarts, Retirable, Has
<1>5. CASE RetireGivenUp(i)
  BY <1>3, <1>5 DEF RetireGivenUp
<1>6. CASE Dismiss(i)
  BY <1>3, <1>6 DEF Dismiss
\* A fence that is taken queues its save.
<1>7. ASSUME NEW job \in Job, job.id = i, job.kind \in {"dismiss", "retire"},
             jobs' = Append(jobs, job), dismissing[i] \in {"lock", "verify"},
             dismissing' = [dismissing EXCEPT ![i] = "save"],
             IF job.kind = "dismiss" THEN i \notin locks /\ locks' = locks \cup {i}
                                     ELSE locks' = locks,
             used \subseteq used',
             job.kind = "retire" /\ job.next # NoId =>
               job.next \in used' \ used /\ journal # "loading",
             UNCHANGED <<ops, attempts, saving, captured, journal, recovering, disk,
                         dismissed>>
      PROVE  FenceInv'
  <2>1. ASSUME NEW x \in Job, ReliesWell(x)
        PROVE  /\ x.kind \in {"dismiss", "retire"} => dismissing'[x.id] = "save"
               /\ x.kind \in {"dismiss", "recover"} => x.id \in locks'
               /\ x.kind = "retire" /\ x.next # NoId => Unknown(x.next)'
               /\ ~Clash(x, job) /\ ~Clash(job, x)
    <3>1. /\ x.kind \in {"dismiss", "retire"} => dismissing'[x.id] = "save" /\ x.id # i
          /\ x.kind \in {"dismiss", "recover"} => x.id \in locks'
      BY <1>0, <1>7, <2>1 DEF ReliesWell, Job
    <3>2. x.kind = "retire" /\ x.next # NoId => Unknown(x.next)' /\ x.next \in used
      BY <1>0, <1>7, <2>1 DEF ReliesWell, Unknown, Job, Has, Active
    <3>3. x.kind = "recover" /\ job.kind = "dismiss" => x.id # i
      BY <1>7, <2>1 DEF ReliesWell
    <3>4. ~Clash(x, job) /\ ~Clash(job, x)
      BY <1>7, <3>1, <3>2, <3>3 DEF Clash
    <3> QED BY <3>1, <3>2, <3>4
  <2>2. ReliesWell(job)'
    <3>1. job.kind = "dismiss" => recovering[i].stage \notin {"load", "save"}
      BY <1>7 DEF FenceInv, RecoveriesLock
    <3>2. ASSUME job.kind = "retire", job.next # NoId PROVE Unknown(job.next)'
      <4>1. job.next \in Ids /\ job.next \in used' \ used /\ journal # "loading"
        BY <1>7, <3>2, OutboxAssumption DEF Job
      <4>2. /\ ~Has(ops, job.next) /\ ~Active(job.next) /\ job.next \notin dismissed
            /\ dismissing[job.next] = "none" /\ recovering[job.next].stage # "load"
        BY <4>1 DEF FenceInv, KnownIdsUsed
      <4>3. dismissing'[job.next] = "none"
        BY <1>0, <1>7, <4>1, <4>2
      <4> QED BY <1>7, <4>1, <4>2, <4>3 DEF Unknown, Has, Active
    <3> QED BY <1>0, <1>7, <3>1, <3>2 DEF ReliesWell
  <2>3. /\ Len(jobs) + 1 \in DOMAIN jobs' /\ jobs'[Len(jobs) + 1] = job
        /\ \A n \in DOMAIN jobs' : \/ n = Len(jobs) + 1
                                   \/ n \in DOMAIN jobs /\ jobs'[n] = jobs[n]
    BY <1>0, <1>7
  <2>4. SavesRely'
    <3>1. ReliesWell(saving)'
      <4>1. ReliesWell(saving)
        BY DEF FenceInv, SavesRely
      <4> QED BY <1>0, <1>7, <2>1, <4>1 DEF ReliesWell
    <3>2. ASSUME NEW n \in DOMAIN jobs' PROVE ReliesWell(jobs[n])'
      <4>1. CASE n = Len(jobs) + 1
        BY <2>2, <2>3, <4>1 DEF ReliesWell, Unknown, Active, Has
      <4>2. CASE n \in DOMAIN jobs /\ jobs'[n] = jobs[n]
        <5>1. ReliesWell(jobs[n])
          BY <4>2 DEF FenceInv, SavesRely
        <5> QED BY <1>0, <1>7, <2>1, <4>2, <5>1 DEF ReliesWell
      <4> QED BY <2>3, <4>1, <4>2
    <3> QED BY <1>7, <3>1, <3>2 DEF FenceInv, SavesRely
  <2>5. SavesApart'
    <3>1. \A n \in DOMAIN jobs : ~Clash(jobs[n], job) /\ ~Clash(job, jobs[n])
      BY <1>0, <2>1 DEF FenceInv, SavesRely
    <3>2. ~Clash(job, saving)
      BY <1>0, <2>1 DEF FenceInv, SavesRely
    <3> QED BY <1>7, <2>3, <3>1, <3>2 DEF FenceInv, SavesApart
  <2>6. RecoveriesLock' /\ GoneForGood'
    BY <1>7 DEF FenceInv, RecoveriesLock, GoneForGood, Has, Active
  <2>7. KnownIdsUsed' /\ FencesHold'
    BY <1>0, <1>7 DEF FenceInv, KnownIdsUsed, FencesHold, Has, Active
  <2> QED BY <2>4, <2>5, <2>6, <2>7 DEF FenceInv
<1>8. CASE RetireVerified(i)
  <2>0. ops[i].key \in Keys \cup {NoKey} /\ journal = "open" /\ dismissing[i] = "verify"
    BY <1>0, <1>8 DEF RetireVerified, Op
  <2>1. CASE jobs' = Append(jobs, JobOf("retire", i, NoId, NoKey)) /\ used' = used
    <3> DEFINE job == JobOf("retire", i, NoId, NoKey)
    <3>1. job \in Job /\ job.id = i /\ job.kind = "retire" /\ job.next = NoId
      BY DEF Job, JobOf
    <3> HIDE DEF job
    <3>2. jobs' = Append(jobs, job)
      BY <2>1 DEF job
    <3> QED BY <1>7, <1>8, <2>0, <2>1, <3>1, <3>2 DEF RetireVerified
  <2>2. ASSUME NEW n \in Invites \ used,
               jobs' = Append(jobs, JobOf("retire", i, n, ops[i].key)),
               used' = used \cup {n}
        PROVE  FenceInv'
    <3> DEFINE job == JobOf("retire", i, n, ops[i].key)
    <3>1. n \in Ids
      BY OutboxAssumption
    <3>2. job \in Job /\ job.id = i /\ job.kind = "retire" /\ job.next = n
      BY <2>0, <3>1 DEF Job, JobOf
    <3> HIDE DEF job
    <3>3. jobs' = Append(jobs, job)
      BY <2>2 DEF job
    <3> QED BY <1>7, <1>8, <2>0, <2>2, <3>2, <3>3 DEF RetireVerified
  <2> QED BY <1>8, <2>1, <2>2 DEF RetireVerified
<1>9. CASE DismissLocked(i)
  <2> DEFINE job == JobOf("dismiss", i, NoId, NoKey)
  <2>1. job \in Job /\ job.id = i /\ job.kind = "dismiss"
    BY DEF Job, JobOf
  <2> HIDE DEF job
  <2>2. jobs' = Append(jobs, job)
    BY <1>9 DEF DismissLocked, job
  <2> QED BY <1>7, <1>9, <2>1, <2>2 DEF DismissLocked
\* recover() reads a record only under a free lock, and gives the lock back.
<1>10. ASSUME recovering' = [recovering EXCEPT ![i] = recovering'[i]],
              recovering[i].stage # "save", recovering'[i].stage \in {"idle", "lock", "load"},
              locks' \in {locks, locks \cup {i}, locks \ {i}},
              recovering'[i].stage = "load" =>
                Has(ops, i) /\ i \notin locks /\ locks' = locks \cup {i},
              recovering'[i].stage # "load" =>
                \/ locks' = locks
                \/ recovering[i].stage = "load" /\ locks' = locks \ {i},
              UNCHANGED <<ops, attempts, jobs, saving, captured, journal, dismissing, disk,
                          used, dismissed>>
       PROVE  FenceInv'
  <2>1. ASSUME NEW x \in Job, ReliesWell(x)
        PROVE  /\ x.kind \in {"dismiss", "recover"} => x.id \in locks'
               /\ x.kind = "recover" => recovering'[x.id].stage = "save"
               /\ x.kind = "dismiss" => recovering'[x.id].stage \notin {"load", "save"}
               /\ x.kind = "retire" /\ x.next # NoId => Unknown(x.next)'
    <3>1. /\ x.kind \in {"dismiss", "recover"} => x.id \in locks'
          /\ x.kind = "recover" => recovering'[x.id].stage = "save"
          /\ x.kind = "dismiss" => recovering'[x.id].stage \notin {"load", "save"}
      BY <1>0, <1>10, <2>1 DEF ReliesWell, Job
    <3>2. x.kind = "retire" /\ x.next # NoId => Unknown(x.next)'
      BY <1>0, <1>10, <2>1, OutboxAssumption DEF ReliesWell, Unknown, Job, Has, Active
    <3> QED BY <3>1, <3>2
  <2>2. SavesRely'
    <3>1. ReliesWell(saving)'
      <4>1. ReliesWell(saving)
        BY DEF FenceInv, SavesRely
      <4> QED BY <1>0, <1>10, <2>1, <4>1 DEF ReliesWell
    <3>2. ASSUME NEW n \in DOMAIN jobs PROVE ReliesWell(jobs[n])'
      <4>1. ReliesWell(jobs[n])
        BY DEF FenceInv, SavesRely
      <4> QED BY <1>0, <1>10, <2>1, <4>1 DEF ReliesWell
    <3> QED BY <1>10, <3>1, <3>2 DEF FenceInv, SavesRely
  <2>3. SavesApart' /\ FencesHold'
    BY <1>10 DEF FenceInv, SavesApart, FencesHold, Active
  <2>4. KnownIdsUsed'
    BY <1>0, <1>10 DEF FenceInv, KnownIdsUsed, Has, Active
  <2>5. GoneForGood' /\ RecoveriesLock'
    BY <1>0, <1>10 DEF FenceInv, GoneForGood, RecoveriesLock, Has, Active
  <2> QED BY <2>2, <2>3, <2>4, <2>5 DEF FenceInv
<1>11. ASSUME NEW k \in Keys, RecoverCalled(i, k)
       PROVE  FenceInv'
  <2>1. [NotRecovering EXCEPT !.stage = "lock", !.key = k].stage = "lock"
    BY DEF NotRecovering
  <2>2. recovering'[i].stage = "lock" /\ recovering[i].stage = "idle"
        /\ recovering' = [recovering EXCEPT ![i] = recovering'[i]]
    BY <1>0, <1>1, <1>11, <2>1 DEF RecoverCalled
  <2> QED BY <1>10, <1>11, <2>2 DEF RecoverCalled
<1>12. CASE RecoverLocked(i)
  <2>1. [recovering[i] EXCEPT !.stage = "load", !.item = ops[i]].stage = "load"
    BY <1>0, <1>12 DEF RecoverLocked, Recovering
  <2>2. /\ recovering' = [recovering EXCEPT ![i] = recovering'[i]]
        /\ \/ recovering'[i] = NotRecovering /\ locks' = locks
           \/ recovering'[i].stage = "load" /\ Has(ops, i) /\ locks' = locks \cup {i}
    BY <1>0, <1>12, <2>1 DEF RecoverLocked
  <2> QED BY <1>1, <1>10, <1>12, <2>2 DEF RecoverLocked
<1>13. CASE RecoverLoadFails(i)
  <2>1. recovering' = [recovering EXCEPT ![i] = recovering'[i]]
        /\ recovering'[i] = NotRecovering
    BY <1>0, <1>13 DEF RecoverLoadFails
  <2> QED BY <1>1, <1>10, <1>13, <2>1 DEF RecoverLoadFails
<1>14. CASE RecoverLoaded(i)
  <2>1. recovering[i].stage = "load" /\ i \in locks /\ i \in used \ dismissed
    BY <1>14 DEF RecoverLoaded, FenceInv, RecoveriesLock, KnownIdsUsed, GoneForGood
  <2>2. CASE /\ recovering' = [recovering EXCEPT ![i] = NotRecovering]
             /\ locks' = locks \ {i}
             /\ UNCHANGED <<ops, jobs>>
    <3>1. recovering' = [recovering EXCEPT ![i] = recovering'[i]]
          /\ recovering'[i] = NotRecovering
      BY <1>0, <2>2
    <3> QED BY <1>1, <1>10, <1>14, <2>1, <2>2, <3>1 DEF RecoverLoaded
  <2>3. ASSUME NEW k \in Keys, NEW r \in Op,
               recovering' = [recovering EXCEPT ![i].stage = "save", ![i].item = NoOp],
               ops' = [ops EXCEPT ![i] = r],
               jobs' = Append(jobs, JobOf("recover", i, NoId, k)), locks' = locks
        PROVE  FenceInv'
    <3> DEFINE job == JobOf("recover", i, NoId, k)
    <3>1. job \in Job /\ job.id = i /\ job.kind = "recover"
      BY DEF Job, JobOf
    <3>2. jobs' = Append(jobs, job)
      BY <2>3
    <3> HIDE DEF job
    <3>3. /\ recovering'[i].stage = "save"
          /\ \A j \in Ids \ {i} : recovering'[j] = recovering[j] /\ ops'[j] = ops[j]
      BY <1>0, <2>3 DEF Recovering
    <3>4. UNCHANGED <<attempts, saving, captured, journal, dismissing, disk, used, dismissed>>
      BY <1>14 DEF RecoverLoaded
    <3>5. ASSUME NEW x \in Job, ReliesWell(x)
          PROVE  /\ x.kind = "recover" => recovering'[x.id].stage = "save"
                 /\ x.kind = "dismiss" => recovering'[x.id].stage \notin {"load", "save"}
                 /\ x.kind = "retire" /\ x.next # NoId => Unknown(x.next)'
                 /\ ~Clash(x, job) /\ ~Clash(job, x)
      <4>1. /\ x.kind \in {"recover", "dismiss"} => x.id \in Ids \ {i}
            /\ x.kind = "retire" /\ x.next # NoId => x.next \in Ids \ {i}
        BY <2>1, <3>5, OutboxAssumption DEF ReliesWell, Unknown, Job
      <4>2. x.kind = "retire" /\ x.next # NoId => Unknown(x.next)'
        BY <3>3, <3>4, <3>5, <4>1 DEF ReliesWell, Unknown, Has, Active
      <4>3. ~Clash(x, job) /\ ~Clash(job, x)
        BY <3>1, <4>1 DEF Clash
      <4> QED BY <3>3, <3>5, <4>1, <4>2, <4>3 DEF ReliesWell
    <3>6. ReliesWell(job)'
      BY <2>1, <2>3, <3>1, <3>3 DEF ReliesWell
    <3>7. /\ Len(jobs) + 1 \in DOMAIN jobs' /\ jobs'[Len(jobs) + 1] = job
          /\ \A n \in DOMAIN jobs' : \/ n = Len(jobs) + 1
                                     \/ n \in DOMAIN jobs /\ jobs'[n] = jobs[n]
      BY <1>0, <3>1, <3>2
    <3>8. SavesRely'
      <4>1. ReliesWell(saving)'
        <5>1. ReliesWell(saving)
          BY DEF FenceInv, SavesRely
        <5> QED BY <1>0, <2>3, <3>4, <3>5, <5>1 DEF ReliesWell
      <4>2. ASSUME NEW n \in DOMAIN jobs' PROVE ReliesWell(jobs[n])'
        <5>1. CASE n = Len(jobs) + 1
          BY <3>6, <3>7, <5>1 DEF ReliesWell, Unknown, Active, Has
        <5>2. CASE n \in DOMAIN jobs /\ jobs'[n] = jobs[n]
          <6>1. ReliesWell(jobs[n])
            BY <5>2 DEF FenceInv, SavesRely
          <6> QED BY <1>0, <2>3, <3>4, <3>5, <5>2, <6>1 DEF ReliesWell
        <5> QED BY <3>7, <5>1, <5>2
      <4> QED BY <3>4, <4>1, <4>2 DEF FenceInv, SavesRely
    <3>9. SavesApart'
      <4>1. \A n \in DOMAIN jobs : ~Clash(jobs[n], job) /\ ~Clash(job, jobs[n])
        BY <1>0, <3>5 DEF FenceInv, SavesRely
      <4>2. ~Clash(job, saving)
        BY <1>0, <3>5 DEF FenceInv, SavesRely
      <4> QED BY <3>4, <3>7, <4>1, <4>2 DEF FenceInv, SavesApart
    <3>10. RecoveriesLock' /\ GoneForGood' /\ KnownIdsUsed' /\ FencesHold'
      BY <1>0, <2>1, <2>3, <3>3, <3>4
         DEF FenceInv, RecoveriesLock, GoneForGood, KnownIdsUsed, FencesHold, Has, Active
    <3> QED BY <3>8, <3>9, <3>10 DEF FenceInv
  <2> DEFINE item == IF Has(disk, i) /\ i \in restored THEN disk[i] ELSE recovering[i].item
             k == recovering[i].key
             record == [item EXCEPT !.place = "pending", !.key = k]
  <2>4. k \in Keys /\ record \in Op
    BY <1>0, <2>1 DEF Recovering, Op
  <2> QED BY <1>14, <2>2, <2>3, <2>4 DEF RecoverLoaded
<1> QED BY <1>2, <1>4, <1>5, <1>6, <1>8, <1>9, <1>11, <1>12, <1>13, <1>14 DEF Resolve

\* Every step of the journal keeps the invariant.
LEMMA JournalKeepsFence ==
  ASSUME FenceInv, TypeOK', Journal
  PROVE  FenceInv'
BY HydrateKeepsFence, SaveStartsKeepsFence, SavedKeepsFence, FailedKeepsFence DEF Journal

\* A revoked access, a dispose and a restart keep the invariant.
LEMMA SessionKeepsFence ==
  ASSUME FenceInv, TypeOK', Session
  PROVE  FenceInv'
<1> USE DEF history, journalState, quietHistory
<1>0. TypeOK /\ jobs \in Seq(Job) /\ NoOp.place = "absent" /\ Idle.stage = "idle"
  BY DEF FenceInv, TypeOK, NoOp, Idle
<1>1. CASE Purge
  <2>1. Quiet(jobs, jobs')
    BY <1>0, <1>1, PushQuiet DEF Purge
  <2>2. \A i \in Ids : Has(ops', i) => Has(ops, i)
    BY <1>0, <1>1 DEF Purge, Has
  <2>3. Composes
    BY <1>1, <2>1, <2>2 DEF Purge, Composes, Active
  <2> QED BY <2>3, ComposesKeepsFence
<1>2. CASE Dispose
  <2>1. \A i \in Ids : ~Active(i)'
    BY <1>0, <1>2 DEF Dispose, Active
  <2>2. Composes
    BY <1>2, <2>1 DEF Dispose, Composes, Quiet, Has
  <2> QED BY <2>2, ComposesKeepsFence
<1>3. CASE Restart
  <2>1. /\ jobs' = <<>> /\ saving' = NoJob /\ dismissed' = dismissed /\ used' = used
        /\ \A i \in Ids : /\ ~Has(ops', i) /\ ~Has(captured', i) /\ ~Active(i)'
                          /\ dismissing'[i] = "none" /\ recovering'[i].stage = "idle"
                          /\ Has(disk', i) => Has(disk, i) \/ Has(captured, i)
    BY <1>0, <1>3 DEF Restart, Empty, Has, Active, NotRecovering
  <2>2. SavesRely' /\ SavesApart'
    <3>1. NoJob.kind = "none" /\ DOMAIN jobs' = {}
      BY <2>1 DEF NoJob, JobOf
    <3> QED BY <2>1, <3>1 DEF SavesRely, SavesApart, ReliesWell
  <2>3. KnownIdsUsed' /\ RecoveriesLock' /\ FencesHold'
    BY <2>1 DEF FenceInv, KnownIdsUsed, GoneForGood, RecoveriesLock, FencesHold, TypeOK
  <2>4. GoneForGood'
    BY <1>0, <2>1 DEF FenceInv, GoneForGood, TypeOK
  <2> QED BY <2>2, <2>3, <2>4 DEF FenceInv
<1> QED BY <1>1, <1>2, <1>3 DEF Session

\* The invariant holds at first and in every step.
LEMMA FenceInductive ==
  /\ Init => FenceInv
  /\ FenceInv /\ [Next]_vars => FenceInv'
<1>1. ASSUME Init PROVE FenceInv
  <2>1. /\ NoOp.place = "absent" /\ Idle.stage = "idle" /\ NoJob.kind = "none"
        /\ NotRecovering.stage = "idle" /\ DOMAIN jobs = {}
    BY <1>1 DEF Init, NoOp, Idle, NoJob, JobOf, NotRecovering
  <2>2. TypeOK
    BY <1>1, InitialType
  <2>3. SavesRely /\ SavesApart
    BY <1>1, <2>1 DEF Init, SavesRely, SavesApart, ReliesWell
  <2>4. KnownIdsUsed /\ RecoveriesLock /\ GoneForGood /\ FencesHold
    BY <1>1, <2>1 DEF Init, Empty, KnownIdsUsed, RecoveriesLock, GoneForGood, FencesHold,
                     Has, Active
  <2> QED BY <2>2, <2>3, <2>4 DEF FenceInv
<1>2. ASSUME FenceInv, [Next]_vars PROVE FenceInv'
  <2>1. TypeOK'
    BY <1>2, NextType DEF FenceInv
  <2>2. CASE Journal
    BY <1>2, <2>1, <2>2, JournalKeepsFence
  <2>3. ASSUME NEW i \in Ids, Deliver(i) \/ Resolve(i) PROVE FenceInv'
    BY <1>2, <2>1, <2>3, DeliverKeepsFence, ResolveKeepsFence
  <2>4. CASE Compose
    BY <1>2, <2>1, <2>4, ComposeKeepsFence
  <2>5. CASE Session
    BY <1>2, <2>1, <2>5, SessionKeepsFence
  <2>6. CASE UNCHANGED vars
    <3>1. Composes
      BY <2>6 DEF Composes, Quiet, Has, Active, vars, memory, history
    <3> QED BY <1>2, <2>1, <3>1, ComposesKeepsFence
  <2> QED BY <1>2, <2>2, <2>3, <2>4, <2>5, <2>6 DEF Next
<1> QED BY <1>1, <1>2

\* A dismissed event never returns to the screen, the journal or a save under way, and
\* no attempt delivers it while or after its dismissal, whatever retirements and
\* adoptions race with it (outbox.ts:901-1022, 1078-1099).
THEOREM DismissedIsGone == Spec => []DismissedStaysGone
<1>1. Spec => []FenceInv
  BY FenceInductive, PTL DEF Spec
<1>2. FenceInv => DismissedStaysGone
  BY DEF FenceInv, TypeOK, GoneForGood, FencesHold, DismissedStaysGone
<1> QED BY <1>1, <1>2, PTL

----------------------------------------------------------------------------
\* The signed event is saved before its publish.

\* The step moves attempt j of att no further than a free slot allows.
PassedOn(att, j) == \/ attempts'[j] = att[j]
                    \/ att[j].stage = "slot" /\ attempts'[j].stage = "prepare"
                    \/ att[j].stage = "queued" /\ attempts'[j].stage = "intent"

\* Starting deliveries passes slots on,
LEMMA LaunchPassesOn ==
  ASSUME NEW att \in [Ids -> Attempt], NEW q, NEW C \in SUBSET Ids,
         \A i \in C : att[i].stage = "queued", Launch(att, q, C)
  PROVE  \A j \in Ids : PassedOn(att, j)
<1>1. CASE attempts' = att
  BY <1>1 DEF PassedOn
<1>2. ASSUME NEW i \in C, attempts' = Started(att, i)
      PROVE  \A j \in Ids : PassedOn(att, j)
  BY <1>2 DEF Started, PassedOn
<1> QED BY <1>1, <1>2 DEF Launch

\* and so does the end of an attempt or a hold.
LEMMA PumpPassesOn ==
  ASSUME NEW att \in [Ids -> Attempt], NEW q, NEW o, Pump(att, q, o)
  PROVE  \A j \in Ids : PassedOn(att, j)
<1> DEFINE C == {i \in PendingIn(o) : att[i].stage = "queued" /\ o[i].delivery = "sending"}
<1>1. ASSUME NEW i \in Ids, att[i].stage = "slot",
             attempts' = [att EXCEPT ![i].stage = "prepare"]
      PROVE  \A j \in Ids : PassedOn(att, j)
  BY <1>1 DEF PassedOn, Attempt
<1>2. CASE Launch(att, q, C)
  <2>1. C \in SUBSET Ids /\ \A i \in C : att[i].stage = "queued"
    BY DEF PendingIn
  <2> QED BY <1>2, <2>1, LaunchPassesOn
<1> QED BY <1>1, <1>2 DEF Pump

\* A scheduled attempt is queued or has started; the others pass slots on.
LEMMA SchedulePassesOn ==
  ASSUME attempts \in [Ids -> Attempt], NEW q, NEW i \in Ids, NEW prev \in Deliveries,
         NEW wait \in {"none", "pending", "done", "failed"}, Schedule(i, prev, wait, q)
  PROVE  /\ attempts'[i].stage \in {"queued", "intent"}
         /\ \A j \in Ids \ {i} : PassedOn(attempts, j)
<1> DEFINE att == [attempts EXCEPT ![i] = [stage |-> "queued", prev |-> prev, wait |-> wait]]
<1>1. att \in [Ids -> Attempt] /\ att[i].stage = "queued" /\ {i} \in SUBSET Ids
      /\ \A j \in Ids \ {i} : att[j] = attempts[j]
  BY DEF Attempt
<1>2. Launch(att, q, {i})
  BY DEF Schedule
<1> HIDE DEF att
<1>3. \A j \in Ids : PassedOn(att, j)
  BY <1>1, <1>2, LaunchPassesOn
<1> QED BY <1>1, <1>3 DEF PassedOn

\* Evictions leave pending records alone.
LEMMA TrimSparesPending ==
  ASSUME NEW o \in [Ids -> Op], NEW p \in Trim(o), NEW j \in Ids, o[j].place = "pending"
  PROVE  p[j] = o[j]
BY DEF Trim

\* So does a released receipt, of what is being delivered.
LEMMA ReleasedSparesActive ==
  ASSUME NEW o \in [Ids -> Op], NEW i \in Ids, NEW p \in Released(o, i), NEW j \in Ids,
         o[j].place = "pending", Active(j) \/ j # i
  PROVE  p[j].place = "pending" /\ p[j].signed = o[j].signed
<1> DEFINE cleared == Acknowledged(o, i)
           moved == [cleared EXCEPT ![i].place = "confirmed"]
<1>1. /\ cleared \in [Ids -> Op]
      /\ cleared[j].place = "pending" /\ cleared[j].signed = o[j].signed
  <2>1. cleared \in [Ids -> Op]
    BY AcknowledgedType
  <2>2. cleared[j].place = "pending" /\ cleared[j].signed = o[j].signed
    BY DEF Acknowledged, Op
  <2> QED BY <2>1, <2>2
<1>2. [cleared[i] EXCEPT !.place = "confirmed"] \in Op
  BY <1>1 DEF Op
<1>3. moved \in [Ids -> Op] /\ (i # j => moved[j] = cleared[j])
  BY <1>1, <1>2
<1>4. p = cleared \/ (~Active(i) /\ p \in Trim(moved))
  BY DEF Released
<1> HIDE DEF cleared, moved
<1>5. ~Active(i) /\ p \in Trim(moved) => p[j] = cleared[j]
  BY <1>1, <1>3, TrimSparesPending
<1> QED BY <1>1, <1>4, <1>5

\* The step keeps the pending record of j and its signature, and at most passes it a
\* slot or ends its attempt.
Steady(j) ==
  /\ Active(j) /\ ops[j].place = "pending" =>
       ops'[j].place = "pending" /\ (ops[j].signed => ops'[j].signed)
  /\ PassedOn(attempts, j) \/ attempts'[j].stage = "idle"

\* While no save starts or ends, a steady event stays dispatched in order.
LEMMA SteadyStaysDispatched ==
  ASSUME NEW j \in Ids, Dispatched(j), Steady(j), UNCHANGED <<saving, captured, disk>>,
         Extends(jobs, jobs')
  PROVE  Dispatched(j)'
<1>1. QueuedFor(jobs, j) => QueuedFor(jobs, j)'
  BY DEF Extends, QueuedFor
<1> QED BY <1>1 DEF Dispatched, Steady, PassedOn, Active, SignedStages, Sealed

\* An idle event, or one that has just been scheduled, is dispatched in order.
LEMMA EarlyIsDispatched ==
  ASSUME NEW i \in Ids,
         \/ attempts'[i].stage = "idle"
         \/ attempts'[i].stage \in {"queued", "intent", "sign"} /\ ops'[i].place = "pending"
  PROVE  Dispatched(i)'
BY DEF Dispatched, Active, SignedStages, Sealed

\* The end of an attempt keeps the others steady.
LEMMA FinishIsSteady ==
  ASSUME TypeOK, NEW i \in Ids, NEW d \in Deliveries, Finish(i, d)
  PROVE  /\ attempts'[i].stage = "idle" /\ Extends(jobs, jobs')
         /\ \A j \in Ids \ {i} : Steady(j)
<1> DEFINE updated == [ops[i] EXCEPT !.delivery = d]
           done == Settled(i, updated)
           result == [ops EXCEPT ![i] = IF done THEN [updated EXCEPT !.place = "confirmed"]
                                                ELSE updated]
           idle == [attempts EXCEPT ![i] = Idle]
<1>0. /\ ops \in [Ids -> Op] /\ ops[i] \in Op /\ attempts \in [Ids -> Attempt]
      /\ jobs \in Seq(Job) /\ PushStatus(jobs) \in Seq(Job) /\ idle \in [Ids -> Attempt]
      /\ idle[i].stage = "idle" /\ \A j \in Ids \ {i} : idle[j] = attempts[j]
  BY InitialValues, PushStatusType DEF TypeOK, Idle
<1>1. updated \in Op /\ [updated EXCEPT !.place = "confirmed"] \in Op
  BY <1>0 DEF Op
<1>2. result \in [Ids -> Op] /\ \A j \in Ids \ {i} : result[j] = ops[j]
  BY <1>0, <1>1
<1>3. ops' \in (IF done THEN Trim(result) ELSE {result}) /\ Pump(idle, PushStatus(jobs), result)
  BY DEF Finish
<1> HIDE DEF updated, done, result, idle
<1>4. \A j \in Ids : PassedOn(idle, j)
  BY <1>0, <1>3, PumpPassesOn
<1>5. Continues(idle, PushStatus(jobs)) /\ Extends(jobs, PushStatus(jobs))
  BY <1>0, <1>3, PumpContinues, PushExtends
<1>6. Extends(jobs, jobs')
  BY <1>5 DEF Continues, Extends
<1>7. \A j \in Ids \ {i} : result[j].place = "pending" => ops'[j] = result[j]
  BY <1>2, <1>3, TrimSparesPending
<1> QED BY <1>0, <1>2, <1>4, <1>6, <1>7 DEF Steady, PassedOn

\* Every stage of an attempt, its end and its echo keep the invariant.
LEMMA DeliverKeepsDispatch ==
  ASSUME DispatchInv, TypeOK, TypeOK', NEW i \in Ids, Deliver(i)
  PROVE  DispatchInv'
<1> USE DEF journalState
<1>0. /\ ops \in [Ids -> Op] /\ ops[i] \in Op /\ attempts \in [Ids -> Attempt]
      /\ attempts[i] \in Attempt /\ jobs \in Seq(Job) /\ PushStatus(jobs) \in Seq(Job)
      /\ Extends(jobs, PushStatus(jobs)) /\ Extends(jobs, jobs)
  BY PushStatusType, PushExtends DEF TypeOK, Extends
<1>1. /\ Extends(jobs, Append(jobs, JobOf("attempt", i, NoId, NoKey)))
      /\ QueuedFor(Append(jobs, JobOf("attempt", i, NoId, NoKey)), i)
  <2>1. JobOf("attempt", i, NoId, NoKey).kind # "retire"
    BY DEF JobOf
  <2> QED BY <1>0, <2>1, IntentJob, AppendExtends, AppendQueues
<1>2. ASSUME UNCHANGED <<saving, captured, disk>>, Extends(jobs, jobs'), Dispatched(i)',
             \A j \in Ids \ {i} : Steady(j)
      PROVE  DispatchInv'
  BY <1>2, SteadyStaysDispatched DEF DispatchInv
<1>3. Dispatched(i)
  BY DEF DispatchInv
<1>4. CASE IntentSaved(i)
  <2>1. \A j \in Ids \ {i} : Steady(j)
    BY <1>0, <1>4 DEF IntentSaved, Steady, PassedOn
  <2>2. Extends(jobs, jobs') /\ UNCHANGED <<saving, captured, disk>>
    BY <1>0, <1>1, <1>4 DEF IntentSaved
  <2>3. Dispatched(i)'
    <3>1. CASE ops[i].signed
      <4>1. attempts'[i].stage = "save" /\ attempts'[i].wait = "pending" /\ ops' = ops
            /\ QueuedFor(jobs', i) /\ ops[i].place = "pending"
        BY <1>0, <1>1, <1>3, <1>4, <3>1 DEF IntentSaved, Dispatched, Active, Attempt
      <4> QED BY <3>1, <4>1 DEF Dispatched, Sealed
    <3>2. CASE ~ops[i].signed
      <4>1. attempts'[i].stage = "sign" /\ ops'[i].place = "pending"
        BY <1>0, <1>3, <1>4, <3>2 DEF IntentSaved, Dispatched, Active, Attempt
      <4> QED BY <4>1, EarlyIsDispatched
    <3> QED BY <3>1, <3>2
  <2> QED BY <1>2, <2>1, <2>2, <2>3
<1>5. CASE Signed(i)
  <2>1. \A j \in Ids \ {i} : Steady(j)
    BY <1>0, <1>5 DEF Signed, Steady, PassedOn
  <2>2. Extends(jobs, jobs') /\ UNCHANGED <<saving, captured, disk>>
    BY <1>0, <1>1, <1>5 DEF Signed
  <2>3. /\ attempts'[i].stage = "save" /\ attempts'[i].wait = "pending"
        /\ QueuedFor(jobs', i) /\ ops'[i].place = "pending" /\ ops'[i].signed
    BY <1>0, <1>1, <1>3, <1>5 DEF Signed, Dispatched, Active, Attempt, Op
  <2>4. Dispatched(i)'
    BY <2>3 DEF Dispatched, Sealed
  <2> QED BY <1>2, <2>1, <2>2, <2>4
<1>6. CASE SignatureSaved(i)
  <2>1. PICK stage \in {"prepare", "hold"} :
          LET att == [attempts EXCEPT ![i].stage = stage, ![i].wait = "none"]
          IN  Pump(att, jobs, ops) \/ (attempts' = att /\ jobs' = jobs)
    BY <1>6 DEF SignatureSaved
  <2> DEFINE att == [attempts EXCEPT ![i].stage = stage, ![i].wait = "none"]
  <2>2. att \in [Ids -> Attempt] /\ att[i].stage = stage /\ \A j \in Ids \ {i} : att[j] = attempts[j]
    BY <1>0 DEF Attempt
  <2> HIDE DEF att
  <2>3. Pump(att, jobs, ops) \/ (attempts' = att /\ jobs' = jobs)
    BY <2>1 DEF att
  <2>4. \A j \in Ids : PassedOn(att, j)
    BY <2>2, <2>3, PumpPassesOn DEF PassedOn
  <2>5. Extends(jobs, jobs')
    BY <1>0, <2>2, <2>3, PumpContinues DEF Continues
  <2>6. ops' = ops /\ UNCHANGED <<saving, captured, disk>>
    BY <1>6 DEF SignatureSaved
  <2>7. \A j \in Ids \ {i} : Steady(j)
    BY <2>2, <2>4, <2>6 DEF Steady, PassedOn
  <2>8. Dispatched(i)'
    <3>1. attempts'[i].stage \in {"prepare", "hold"}
      BY <2>2, <2>4 DEF PassedOn
    <3>2. attempts[i].stage = "save" /\ attempts[i].wait = "done"
      BY <1>6 DEF SignatureSaved
    <3> QED BY <1>3, <2>6, <3>1, <3>2 DEF Dispatched, Active, Sealed, SignedStages
  <2> QED BY <1>2, <2>5, <2>6, <2>7, <2>8
<1>7. CASE HoldEnds(i) \/ PublishStarts(i)
  <2>1. /\ attempts[i].stage \in {"hold", "prepare"}
        /\ attempts'[i].stage \in {"slot", "prepare", "publish"}
        /\ \A j \in Ids \ {i} : attempts'[j] = attempts[j]
        /\ UNCHANGED <<ops, jobs, saving, captured, disk>>
    BY <1>0, <1>7 DEF HoldEnds, PublishStarts, Attempt
  <2>2. Dispatched(i)'
    BY <1>3, <2>1 DEF Dispatched, Active, Sealed, SignedStages
  <2>3. \A j \in Ids \ {i} : Steady(j)
    BY <2>1 DEF Steady, PassedOn
  <2> QED BY <1>0, <1>2, <2>1, <2>2, <2>3
<1>8. ASSUME NEW d \in Deliveries, Finish(i, d), UNCHANGED <<saving, captured, disk>>
      PROVE  DispatchInv'
  BY <1>2, <1>8, FinishIsSteady, EarlyIsDispatched
<1>9. CASE \/ PublishAccepted(i) \/ PublishRejected(i) \/ PublishLost(i)
           \/ FailsUnpublished(i) \/ ExpiresActive(i)
  <2>1. /\ "seen" \in Deliveries /\ "accepted" \in Deliveries
        /\ \A u \in BOOLEAN : CaughtDelivery(i, u) \in Deliveries
    BY <1>0, DeliveryType DEF Deliveries
  <2> QED BY <1>8, <1>9, <2>1
          DEF PublishAccepted, PublishRejected, PublishLost, FailsUnpublished, ExpiresActive
<1>10. CASE ExpiresQueued(i)
  <2>1. /\ attempts'[i].stage = "idle"
        /\ \A j \in Ids \ {i} : attempts'[j] = attempts[j] /\ ops'[j] = ops[j]
        /\ jobs' = PushStatus(jobs) /\ UNCHANGED <<saving, captured, disk>>
    BY <1>0, <1>10 DEF ExpiresQueued, Idle
  <2>2. \A j \in Ids \ {i} : Steady(j)
    BY <2>1 DEF Steady, PassedOn
  <2> QED BY <1>0, <1>2, <2>1, <2>2, EarlyIsDispatched
<1>11. CASE Observe(i)
  <2> DEFINE stays == i \in Workflows /\ Active(i)
             seen == [ops[i] EXCEPT !.signed = TRUE, !.delivery = "seen"]
             kept == stays \/ ops[i].key # NoKey
             result == [ops EXCEPT ![i] = IF kept THEN seen
                                          ELSE [seen EXCEPT !.place = "confirmed"]]
             idle == [attempts EXCEPT ![i] = Idle]
  <2>1. /\ seen \in Op /\ [seen EXCEPT !.place = "confirmed"] \in Op
        /\ seen.signed /\ seen.place = ops[i].place
    BY <1>0 DEF Op, Deliveries
  <2>2. result \in [Ids -> Op] /\ \A j \in Ids \ {i} : result[j] = ops[j]
    BY <1>0, <2>1
  <2>3. idle \in [Ids -> Attempt] /\ idle[i].stage = "idle"
        /\ \A j \in Ids \ {i} : idle[j] = attempts[j]
    BY <1>0, InitialValues DEF Idle
  <2>4. /\ ops' \in (IF kept THEN {result} ELSE Trim(result))
        /\ UNCHANGED <<saving, captured, disk>>
    BY <1>11 DEF Observe
  <2>5. \A j \in Ids \ {i} : ops[j].place = "pending" => ops'[j] = ops[j]
    <3> HIDE DEF kept, result
    <3> QED BY <2>2, <2>4, TrimSparesPending
  <2>6. CASE stays
    <3>1. attempts' = attempts /\ jobs' = PushStatus(jobs) /\ ops'[i] = seen
      BY <1>0, <1>11, <2>4, <2>6 DEF Observe
    <3>2. \A j \in Ids : Steady(j)
      BY <2>1, <2>5, <3>1 DEF Steady, PassedOn
    <3> QED BY <1>0, <1>2, <1>3, <2>4, <3>1, <3>2, SteadyStaysDispatched
  <2>7. CASE ~stays
    <3>1. \/ Pump(idle, PushStatus(jobs), result)
          \/ attempts' = idle /\ jobs' = PushStatus(jobs)
      BY <1>11, <2>7 DEF Observe
    <3> HIDE DEF stays, seen, kept, result, idle
    <3>2. \A j \in Ids : PassedOn(idle, j)
      BY <1>0, <2>3, <3>1, PumpPassesOn DEF PassedOn
    <3>3. Extends(jobs, jobs')
      <4>1. Extends(PushStatus(jobs), jobs')
        BY <1>0, <2>3, <3>1, PumpContinues, StillContinues DEF Continues
      <4> QED BY <1>0, <4>1 DEF Extends
    <3>4. \A j \in Ids \ {i} : Steady(j)
      BY <2>3, <2>5, <3>2 DEF Steady, PassedOn
    <3>5. Dispatched(i)'
      BY <2>3, <3>2, EarlyIsDispatched DEF PassedOn
    <3> QED BY <1>2, <2>4, <3>3, <3>4, <3>5
  <2> QED BY <2>6, <2>7
<1> QED BY <1>4, <1>5, <1>6, <1>7, <1>9, <1>10, <1>11 DEF Deliver

\* Sends and retries queue an attempt of a pending record.
LEMMA ComposeKeepsDispatch ==
  ASSUME DispatchInv, TypeOK, TypeOK', Compose
  PROVE  DispatchInv'
<1>0. /\ ops \in [Ids -> Op] /\ attempts \in [Ids -> Attempt] /\ jobs \in Seq(Job)
      /\ Extends(jobs, jobs)
  BY DEF TypeOK, Extends
<1>1. ASSUME NEW i \in Ids, NEW prev \in Deliveries,
             NEW wait \in {"none", "pending", "done", "failed"}, NEW q \in Seq(Job),
             Extends(jobs, q), Schedule(i, prev, wait, q), ops'[i].place = "pending",
             \A j \in Ids \ {i} : ops'[j] = ops[j], UNCHANGED <<saving, captured, disk>>
      PROVE  DispatchInv'
  <2>1. Extends(jobs, jobs')
    <3>1. Continues([attempts EXCEPT ![i] = [stage |-> "queued", prev |-> prev,
                                             wait |-> wait]], q)
      BY <1>0, <1>1, ScheduleContinues
    <3> QED BY <1>1, <3>1 DEF Continues, Extends
  <2>2. /\ attempts'[i].stage \in {"queued", "intent"}
        /\ \A j \in Ids \ {i} : PassedOn(attempts, j)
    <3>1. attempts \in [Ids -> Attempt] /\ Schedule(i, prev, wait, q)
      BY <1>0, <1>1
    <3>2. wait \in {"none", "pending", "done", "failed"} /\ prev \in Deliveries
      BY <1>1
    <3> QED BY <3>1, <3>2, SchedulePassesOn
  <2>3. \A j \in Ids \ {i} : Steady(j)
    BY <1>1, <2>2 DEF Steady
  <2>4. Dispatched(i)'
    BY <1>1, <2>2, EarlyIsDispatched
  <2> QED BY <1>1, <2>1, <2>3, <2>4, SteadyStaysDispatched DEF DispatchInv
<1>2. ASSUME NEW i \in Ids, NEW k \in Keys \cup {NoKey}, NEW g \in BOOLEAN, Send(i, k, g)
      PROVE  DispatchInv'
  <2> DEFINE q == Append(jobs, JobOf("attempt", i, NoId, NoKey))
  <2>1. q \in Seq(Job) /\ Extends(jobs, q)
    <3>1. JobOf("attempt", i, NoId, NoKey).kind # "retire"
      BY DEF JobOf
    <3> QED BY <1>0, <3>1, IntentJob, AppendExtends
  <2>2. Fresh(k, g).place = "pending"
    BY DEF Fresh, NoOp
  <2>3. /\ Schedule(i, "failed", "pending", q) /\ ops'[i].place = "pending"
        /\ \A j \in Ids \ {i} : ops'[j] = ops[j]
        /\ UNCHANGED <<saving, captured, disk>>
    BY <1>0, <1>2, <2>2 DEF Send
  <2> HIDE DEF q
  <2> QED BY <1>1, <2>1, <2>3 DEF Deliveries
<1>3. ASSUME NEW i \in Ids, NEW renewed \in BOOLEAN, Retry(i, renewed)
      PROVE  DispatchInv'
  <2>1. /\ Schedule(i, ops[i].delivery, "none", jobs) /\ ops[i].delivery \in Deliveries
        /\ ops'[i].place = "pending" /\ \A j \in Ids \ {i} : ops'[j] = ops[j]
        /\ UNCHANGED <<saving, captured, disk>>
    BY <1>0, <1>3 DEF Retry, Op
  <2> QED BY <1>0, <1>1, <2>1
<1>4. CASE Withdraw
  <2>1. UNCHANGED <<ops, attempts, jobs, saving, captured, disk>>
    BY <1>4 DEF Withdraw
  <2>2. \A j \in Ids : Steady(j)
    BY <2>1 DEF Steady, PassedOn
  <2> QED BY <1>0, <2>1, <2>2, SteadyStaysDispatched DEF DispatchInv
<1>5. CASE SendPlain \/ SendGuarded
  BY <1>2, <1>5, OutboxAssumption DEF SendPlain, SendGuarded
<1>6. CASE RetryPlain \/ RetryRenewed
  BY <1>3, <1>6, OutboxAssumption DEF RetryPlain, RetryRenewed
<1> QED BY <1>4, <1>5, <1>6 DEF Compose

\* The calls that resolve a receipt, recover() apart, queue saves and set fences.
LEMMA ResolveKeepsDispatch ==
  ASSUME DispatchInv, TypeOK, NobodyRecovers, "recover" \notin Calls,
         NEW i \in Ids, Resolve(i)
  PROVE  DispatchInv'
<1> USE DEF history, journalState
<1>0. /\ ops \in [Ids -> Op] /\ jobs \in Seq(Job) /\ Extends(jobs, jobs)
      /\ NotRecovering.stage = "idle"
  BY DEF TypeOK, Extends, NotRecovering
<1>1. ~(\E k \in Keys : RecoverCalled(i, k)) /\ ~RecoverLocked(i) /\ ~RecoverLoaded(i)
      /\ ~RecoverLoadFails(i)
  BY <1>0 DEF RecoverCalled, RecoverLocked, RecoverLoaded, RecoverLoadFails, NobodyRecovers
<1>2. UNCHANGED <<ops, attempts, saving, captured, disk>>
  BY <1>1 DEF Resolve, Acknowledge, RetireStarts, RetireGivenUp, RetireVerified, Dismiss,
     DismissLocked
<1>3. \A j \in Ids : QueuedFor(jobs, j) => QueuedFor(jobs', j)
  <2>1. jobs' = jobs \/ \E job : jobs' = Append(jobs, job)
    BY <1>1 DEF Resolve, Acknowledge, RetireStarts, RetireGivenUp, RetireVerified, Dismiss,
       DismissLocked
  <2>2. ASSUME NEW job, jobs' = Append(jobs, job)
        PROVE  \A n \in DOMAIN jobs : n \in DOMAIN jobs' /\ jobs'[n] = jobs[n]
    BY <1>0, <2>2
  <2> QED BY <2>1, <2>2 DEF QueuedFor
<1> QED BY <1>2, <1>3 DEF DispatchInv, Dispatched, Active

\* Hydration replaces no record that is being delivered.
LEMMA HydrateKeepsDispatch ==
  ASSUME DispatchInv, EvidenceInv, Hydrate \/ HydrateFails
  PROVE  DispatchInv'
<1> DEFINE merged == [j \in Ids |-> IF Has(disk, j) THEN Restored(j, disk[j]) ELSE ops[j]]
<1>0. /\ ops \in [Ids -> Op] /\ disk \in [Ids -> Op] /\ Extends(jobs, jobs)
      /\ UNCHANGED <<attempts, jobs, saving, captured, disk>>
      /\ ops' = ops \/ (Hydrate /\ ops' \in Trim(merged))
  BY DEF EvidenceInv, TypeOK, Hydrate, HydrateFails, Extends
<1>1. merged \in [Ids -> Op]
  BY <1>0, RestoredType
<1>2. \A j \in Ids : Hydrate /\ Active(j) => merged[j] = ops[j]
  BY DEF EvidenceInv, LoadingIsApart, Hydrate, Has
<1> HIDE DEF merged
<1>3. \A j \in Ids : Active(j) /\ ops[j].place = "pending" => ops'[j] = ops[j]
  BY <1>0, <1>1, <1>2, TrimSparesPending
<1>4. \A j \in Ids : Steady(j)
  BY <1>0, <1>3 DEF Steady, PassedOn
<1> QED BY <1>0, <1>4, SteadyStaysDispatched DEF DispatchInv

\* A save that starts captures what is sealed, and the signature it carries.
LEMMA SaveStartsKeepsDispatch ==
  ASSUME DispatchInv, FenceInv, SaveStarts
  PROVE  DispatchInv'
<1>0. /\ TypeOK /\ jobs \in Seq(Job) /\ Head(jobs) \in Job /\ ops \in [Ids -> Op]
      /\ 1 \in DOMAIN jobs /\ Head(jobs) = jobs[1] /\ ReliesWell(jobs[1])
      /\ \A n \in DOMAIN jobs \ {1} : n - 1 \in DOMAIN Tail(jobs) /\ Tail(jobs)[n - 1] = jobs[n]
      /\ saving = NoJob /\ saving' = Head(jobs) /\ jobs' = Tail(jobs)
      /\ captured' = Capture(Head(jobs)) /\ UNCHANGED <<ops, attempts, disk>>
  BY DEF FenceInv, TypeOK, SavesRely, SaveStarts
<1>1. ASSUME NEW j \in Ids, Active(j), Kept(ops[j]) PROVE Kept(captured'[j])
  <2>1. Head(jobs).kind = "dismiss" => Head(jobs).id # j
    BY <1>0, <1>1 DEF ReliesWell, FenceInv, FencesHold
  <2>2. Head(jobs).kind = "retire" => Head(jobs).next # j
    BY <1>0, <1>1, OutboxAssumption DEF ReliesWell, Unknown
  <2>3. \A k \in Ids : Kept(Acknowledged(ops, k)[j])
    BY <1>0, <1>1 DEF Acknowledged, Kept, Op
  <2>4. CASE Head(jobs).kind = "dismiss"
    BY <1>0, <1>1, <2>1, <2>4 DEF Capture
  <2>5. CASE Head(jobs).kind = "retire"
    <3>1. Head(jobs).id \in Ids /\ Acknowledged(ops, Head(jobs).id) \in [Ids -> Op]
      BY <1>0, <2>5, AcknowledgedType DEF Job
    <3> QED BY <1>0, <2>2, <2>3, <2>5, <3>1 DEF Capture
  <2>6. CASE Head(jobs).kind = "acknowledge"
    BY <1>0, <2>3, <2>6 DEF Capture, Job
  <2>7. CASE Head(jobs).kind \in {"none", "status", "attempt", "recover"}
    BY <1>0, <1>1, <2>7 DEF Capture
  <2> QED BY <1>0, <2>4, <2>5, <2>6, <2>7 DEF Job
<1>2. \A j \in Ids : QueuedFor(jobs, j) =>
        QueuedFor(jobs', j) \/ (saving'.kind = "attempt" /\ saving'.id = j)
  BY <1>0 DEF QueuedFor
<1>3. \A j \in Ids : saving.kind # "attempt"
  BY <1>0 DEF NoJob, JobOf
<1>4. \A j \in Ids : attempts[j].stage \in SignedStages => Active(j) /\ Kept(ops[j])
  BY DEF DispatchInv, Dispatched, Active, Kept, SignedStages
<1>5. ASSUME NEW j \in Ids PROVE Dispatched(j)'
  <2>1. Dispatched(j)
    BY DEF DispatchInv
  <2>2. Sealed(attempts[j]) => Kept(disk[j]) /\ Kept(captured'[j])
    BY <1>1, <1>4, <2>1 DEF Dispatched, Sealed
  <2>3. attempts[j].stage = "save" /\ attempts[j].wait = "pending" =>
          \/ QueuedFor(jobs', j)
          \/ saving'.kind = "attempt" /\ saving'.id = j /\ Kept(captured'[j])
    BY <1>1, <1>2, <1>3, <1>4, <2>1 DEF Dispatched, SignedStages
  <2> QED BY <1>0, <2>1, <2>2, <2>3 DEF Dispatched, Active
<1> QED BY <1>5 DEF DispatchInv

\* The end of a save leaves a sealed event saved, and tells an attempt only of a save
\* that carried its signature.
LEMMA SavedKeepsDispatch ==
  ASSUME DispatchInv, FenceInv, TypeOK',
         \/ StatusSaved \/ AttemptSaved \/ DismissSaved \/ AcknowledgeSaved \/ RetireSaved
         \/ RecoverSaved
  PROVE  DispatchInv'
<1> USE DEF Written
<1>0. /\ TypeOK /\ saving \in Job /\ jobs \in Seq(Job) /\ ops \in [Ids -> Op]
      /\ attempts \in [Ids -> Attempt] /\ ReliesWell(saving) /\ Extends(jobs, jobs)
      /\ saving' = NoJob /\ captured' = Empty /\ disk' = captured /\ saving # NoJob
  BY DEF FenceInv, SavesRely, TypeOK, Extends, NoJob, JobOf, StatusSaved, AttemptSaved,
         DismissSaved, AcknowledgeSaved, RetireSaved, RecoverSaved
<1>1. ASSUME NEW j \in Ids, Steady(j), saving.kind # "attempt" \/ saving.id # j,
             Extends(jobs, jobs')
      PROVE  Dispatched(j)'
  <2>1. Dispatched(j) /\ (QueuedFor(jobs, j) => QueuedFor(jobs, j)')
    BY <1>1 DEF DispatchInv, Extends, QueuedFor
  <2> QED BY <1>0, <1>1, <2>1 DEF Dispatched, Steady, PassedOn, Active, SignedStages, Sealed
<1>2. ASSUME UNCHANGED <<attempts, jobs>>, saving.kind # "attempt",
             \A j \in Ids : Active(j) /\ ops[j].place = "pending" =>
                            ops'[j].place = "pending" /\ ops'[j].signed = ops[j].signed
      PROVE  DispatchInv'
  <2>1. \A j \in Ids : Steady(j)
    BY <1>2 DEF Steady, PassedOn
  <2> QED BY <1>0, <1>1, <1>2, <2>1 DEF DispatchInv
<1>3. CASE StatusSaved \/ RecoverSaved
  BY <1>2, <1>3 DEF StatusSaved, RecoverSaved, history
<1>4. CASE DismissSaved
  <2>1. saving.id \in Ids /\ ~Active(saving.id)
    BY <1>0, <1>4 DEF DismissSaved, Job, ReliesWell, FenceInv, FencesHold
  <2> QED BY <1>0, <1>2, <1>4, <2>1 DEF DismissSaved
<1>5. CASE AcknowledgeSaved
  <2>1. saving.id \in Ids /\ ops' \in Released(ops, saving.id)
    BY <1>0, <1>5 DEF AcknowledgeSaved, Job
  <2>2. \A j \in Ids : Active(j) /\ ops[j].place = "pending" =>
                       ops'[j].place = "pending" /\ ops'[j].signed = ops[j].signed
    BY <1>0, <2>1, ReleasedSparesActive
  <2> QED BY <1>2, <1>5, <2>2 DEF AcknowledgeSaved
<1>6. CASE RetireSaved
  <2>1. /\ saving.kind = "retire" /\ saving.id \in Ids /\ saving.next \in Ids \cup {NoId}
        /\ saving.key \in Keys \cup {NoKey}
    BY <1>0, <1>6, OutboxAssumption DEF RetireSaved, Job
  <2>2. CASE saving.next = NoId
    <3>1. ops' \in Released(ops, saving.id) /\ UNCHANGED <<attempts, jobs>>
      BY <1>6, <2>2 DEF RetireSaved
    <3>2. \A j \in Ids : Active(j) /\ ops[j].place = "pending" =>
                         ops'[j].place = "pending" /\ ops'[j].signed = ops[j].signed
      BY <1>0, <2>1, <3>1, ReleasedSparesActive
    <3> QED BY <1>2, <2>1, <3>1, <3>2
  <2>3. ASSUME NEW n \in Ids, n = saving.next PROVE DispatchInv'
    <3> DEFINE joined == [ops EXCEPT ![n] = Fresh(saving.key, FALSE)]
    <3>1. n # saving.id /\ ~Active(n)
      BY <1>0, <2>1, <2>3, OutboxAssumption DEF ReliesWell, Unknown
    <3>2. /\ ops' \in Released(joined, saving.id)
          /\ \/ UNCHANGED <<attempts, jobs>>
             \/ Schedule(n, "failed", "none", jobs)
      BY <1>6, <2>3, OutboxAssumption DEF RetireSaved
    <3>3. joined \in [Ids -> Op] /\ joined[n].place = "pending"
          /\ \A j \in Ids \ {n} : joined[j] = ops[j]
      BY <1>0, <2>1, <3>1, InitialValues DEF Fresh, NoOp
    <3> HIDE DEF joined
    <3>4. \A j \in Ids : joined[j].place = "pending" /\ (Active(j) \/ j # saving.id) =>
                         ops'[j].place = "pending" /\ ops'[j].signed = joined[j].signed
      BY <2>1, <3>2, <3>3, ReleasedSparesActive
    <3>5. CASE UNCHANGED <<attempts, jobs>>
      <4>1. \A j \in Ids : Active(j) /\ ops[j].place = "pending" =>
                           ops'[j].place = "pending" /\ ops'[j].signed = ops[j].signed
        BY <3>1, <3>3, <3>4
      <4> QED BY <1>2, <2>1, <3>5, <4>1
    <3>6. CASE Schedule(n, "failed", "none", jobs)
      <4>1. /\ attempts'[n].stage \in {"queued", "intent"}
            /\ \A j \in Ids \ {n} : PassedOn(attempts, j)
        BY <1>0, <3>1, <3>6, SchedulePassesOn DEF Deliveries
      <4>2. Extends(jobs, jobs')
        BY <1>0, <3>1, <3>6, ScheduleContinues DEF Continues, Deliveries
      <4>3. \A j \in Ids \ {n} : Steady(j)
        BY <3>3, <3>4, <4>1 DEF Steady
      <4>4. Dispatched(n)'
        BY <3>1, <3>3, <3>4, <4>1, EarlyIsDispatched
      <4> QED BY <1>1, <2>1, <4>2, <4>3, <4>4 DEF DispatchInv
    <3> QED BY <3>2, <3>5, <3>6
  <2> QED BY <2>1, <2>2, <2>3
<1>7. CASE AttemptSaved
  <2>1. /\ saving.id \in Ids /\ saving.kind = "attempt" /\ UNCHANGED <<ops, jobs>>
        /\ attempts' = Told(saving.id, "done", jobs)
    BY <1>0, <1>7 DEF AttemptSaved, Job
  <2>2. \A j \in Ids \ {saving.id} : Steady(j)
    BY <1>0, <2>1 DEF Told, Steady, PassedOn
  <2>3. ASSUME NEW i \in Ids, i = saving.id PROVE Dispatched(i)'
    <3>1. /\ attempts'[i].stage = attempts[i].stage
          /\ \/ attempts'[i].wait = attempts[i].wait
                /\ (attempts[i].wait = "pending" => QueuedFor(jobs, i))
             \/ attempts[i].wait = "pending" /\ attempts'[i].wait = "done"
                /\ ~QueuedFor(jobs, i)
      BY <1>0, <2>1, <2>3 DEF Told, Attempt, QueuedFor
    <3>2. Dispatched(i)
      BY DEF DispatchInv
    <3>3. Sealed(attempts'[i]) => Kept(captured[i])
      BY <1>0, <3>1, <3>2 DEF Dispatched, Sealed
    <3>4. attempts'[i].stage = "save" /\ attempts'[i].wait = "pending"
            => QueuedFor(jobs, i)
      BY <3>1
    <3> QED BY <1>0, <2>1, <3>1, <3>2, <3>3, <3>4 DEF Dispatched, Active
  <2> QED BY <1>0, <1>1, <2>1, <2>2, <2>3 DEF DispatchInv
<1> QED BY <1>3, <1>4, <1>5, <1>6, <1>7

\* A save that fails or is refused fails the attempt that waits for it.
LEMMA FailedKeepsDispatch ==
  ASSUME DispatchInv, TypeOK, SaveFails \/ SaveRefused
  PROVE  DispatchInv'
<1>0. /\ jobs \in Seq(Job) /\ attempts \in [Ids -> Attempt] /\ NoJob.kind = "none"
      /\ UNCHANGED <<ops, disk>>
  BY DEF TypeOK, NoJob, JobOf, SaveFails, SaveRefused
<1>1. ASSUME NEW job, NEW q, FailJob(job, q), NEW j \in Ids,
             QueuedFor(jobs, j) => QueuedFor(q, j) \/ (job.kind = "attempt" /\ job.id = j)
      PROVE  /\ attempts'[j].stage = attempts[j].stage
             /\ attempts'[j].wait = "done" => attempts[j].wait = "done"
             /\ attempts'[j].wait = "pending" => attempts[j].wait = "pending"
             /\ job.kind = "attempt" /\ job.id = j /\ attempts'[j].wait = "pending"
                  => QueuedFor(q, j)
  BY <1>0, <1>1 DEF FailJob, Told, Attempt, QueuedFor
<1>2. \A j \in Ids : Dispatched(j)
  BY DEF DispatchInv
<1>3. CASE SaveFails
  <2>1. FailJob(saving, jobs) /\ jobs' = jobs /\ saving' = NoJob
    BY <1>3 DEF SaveFails
  <2>2. ASSUME NEW j \in Ids PROVE Dispatched(j)'
    <3>1. /\ attempts'[j].stage = attempts[j].stage
          /\ attempts'[j].wait = "done" => attempts[j].wait = "done"
          /\ attempts'[j].wait = "pending" => attempts[j].wait = "pending"
          /\ saving.kind = "attempt" /\ saving.id = j /\ attempts'[j].wait = "pending"
               => QueuedFor(jobs, j)
      BY <1>1, <2>1
    <3> QED BY <1>0, <1>2, <2>1, <3>1 DEF Dispatched, Active, Sealed
  <2> QED BY <2>2 DEF DispatchInv
<1>4. CASE SaveRefused
  <2>1. /\ FailJob(Head(jobs), Tail(jobs)) /\ jobs' = Tail(jobs) /\ jobs # <<>>
        /\ UNCHANGED <<saving, captured>>
    BY <1>4 DEF SaveRefused
  <2>2. \A n \in DOMAIN jobs \ {1} : n - 1 \in DOMAIN Tail(jobs) /\ Tail(jobs)[n - 1] = jobs[n]
    BY <1>0, <2>1
  <2>3. \A j \in Ids : QueuedFor(jobs, j) =>
          QueuedFor(Tail(jobs), j) \/ (Head(jobs).kind = "attempt" /\ Head(jobs).id = j)
    <3>1. \A n \in DOMAIN jobs : n = 1 => jobs[n] = Head(jobs)
      BY <1>0, <2>1
    <3> QED BY <2>2, <3>1 DEF QueuedFor
  <2>4. ASSUME NEW j \in Ids PROVE Dispatched(j)'
    <3>1. /\ attempts'[j].stage = attempts[j].stage
          /\ attempts'[j].wait = "done" => attempts[j].wait = "done"
          /\ attempts'[j].wait = "pending" => attempts[j].wait = "pending"
          /\ Head(jobs).kind = "attempt" /\ Head(jobs).id = j /\ attempts'[j].wait = "pending"
               => QueuedFor(Tail(jobs), j)
      BY <1>1, <2>1, <2>3
    <3> QED BY <1>0, <1>2, <2>1, <2>3, <3>1 DEF Dispatched, Active, Sealed
  <2> QED BY <2>4 DEF DispatchInv
<1> QED BY <1>3, <1>4

\* A revoked access hides no pending record; a dispose and a restart end every attempt.
LEMMA SessionKeepsDispatch ==
  ASSUME DispatchInv, TypeOK, Session
  PROVE  DispatchInv'
<1>0. Idle.stage = "idle" /\ jobs \in Seq(Job) /\ ops \in [Ids -> Op]
  BY DEF Idle, TypeOK
<1>1. CASE Dispose \/ Restart
  <2>1. \A j \in Ids : attempts'[j].stage = "idle"
    BY <1>0, <1>1 DEF Dispose, Restart
  <2> QED BY <2>1, EarlyIsDispatched DEF DispatchInv
<1>2. CASE Purge
  <2>1. /\ UNCHANGED <<attempts, saving, captured, disk>>
        /\ \A j \in Ids : ops[j].place = "pending" => ops'[j] = ops[j]
        /\ Extends(jobs, jobs')
    BY <1>0, <1>2, PushExtends DEF Purge
  <2>2. \A j \in Ids : Steady(j)
    BY <2>1 DEF Steady, PassedOn
  <2> QED BY <2>1, <2>2, SteadyStaysDispatched DEF DispatchInv
<1> QED BY <1>1, <1>2 DEF Session

\* The invariant holds at first and in every step of an outbox without recover().
LEMMA DispatchInductive ==
  ASSUME "recover" \notin Calls
  PROVE  /\ Init => DispatchInv
         /\ DispatchInv /\ EvidenceInv /\ NobodyRecovers /\ FenceInv /\ [Next]_vars
              => DispatchInv'
<1>1. ASSUME Init PROVE DispatchInv
  <2>1. \A j \in Ids : attempts[j].stage = "idle"
    BY <1>1 DEF Init, Idle
  <2> QED BY <2>1 DEF DispatchInv, Dispatched, Active, SignedStages, Sealed
<1>2. ASSUME DispatchInv, EvidenceInv, NobodyRecovers, FenceInv, [Next]_vars
      PROVE  DispatchInv'
  <2>1. TypeOK /\ TypeOK'
    BY <1>2, NextType DEF EvidenceInv
  <2>2. CASE Journal
    BY <1>2, <2>1, <2>2, HydrateKeepsDispatch, SaveStartsKeepsDispatch, SavedKeepsDispatch,
       FailedKeepsDispatch DEF Journal
  <2>3. ASSUME NEW i \in Ids, Deliver(i) \/ Resolve(i) PROVE DispatchInv'
    BY <1>2, <2>1, <2>3, DeliverKeepsDispatch, ResolveKeepsDispatch
  <2>4. CASE Compose
    BY <1>2, <2>1, <2>4, ComposeKeepsDispatch
  <2>5. CASE Session
    BY <1>2, <2>1, <2>5, SessionKeepsDispatch
  <2>6. CASE UNCHANGED vars
    BY <1>2, <2>6 DEF vars, memory, DispatchInv, Dispatched, Active, QueuedFor
  <2> QED BY <1>2, <2>2, <2>3, <2>4, <2>5, <2>6 DEF Next
<1> QED BY <1>1, <1>2

\* An event enters the publisher only when its signed copy is saved as possibly
\* dispatched, whatever crashes, failing saves and restarts surround it
\* (outbox.ts:573-601, 614-628).
THEOREM DispatchIsDurable ==
  ASSUME "recover" \notin Calls
  PROVE  Spec => []DurableBeforeDispatch
<1>1. Init => DispatchInv
  BY DispatchInductive
<1>2. DispatchInv /\ EvidenceInv /\ NobodyRecovers /\ FenceInv /\ [Next]_vars => DispatchInv'
  BY DispatchInductive
<1>3. Spec => [](EvidenceInv /\ NobodyRecovers)
  BY EvidenceInvariant
<1>4. Spec => []FenceInv
  BY FenceInductive, PTL DEF Spec
<1>5. Spec => []DispatchInv
  BY <1>1, <1>2, <1>3, <1>4, PTL DEF Spec
<1>6. DispatchInv /\ EvidenceInv => DurableBeforeDispatch
  BY DEF DispatchInv, Dispatched, EvidenceInv, DurableIsSafe, Durable, DurableAttempt, Safe,
         DurableBeforeDispatch, Publishing, Sealed, SignedStages, Kept, Has
<1> QED BY <1>3, <1>5, <1>6, PTL


----------------------------------------------------------------------------
\* Saved intent stays listed, and what is hidden stays hidden.

\* Event j stays listed unless the relay has it, is confirmed only then and from the
\* list, stays pending while it is delivered, and does not meet its saved copy unless the
\* journal is open.
Lists(j) ==
  /\ Has(ops, j) => Has(ops', j) \/ j \in mayHold' \cup Invites
  /\ ops'[j].place = "confirmed" => Has(ops, j) /\ j \in mayHold' \cup Invites
  /\ Active(j)' => ops'[j].place = "pending"
  /\ journal # "open" /\ Has(disk, j) => ~Has(ops', j)

\* The step confirms no event the list does not have, but what stays readable.
Hides == \A i \in Ids : purged /\ ~Has(ops, i) /\ ops'[i].place = "confirmed"
                        => i \in Creations \cap Readable

\* While no save starts or ends, listed events keep the invariant.
LEMMA ListsKeeps ==
  ASSUME ListedInv, mayHold \subseteq mayHold', UNCHANGED <<saving, captured, disk, journal>>,
         journal # "open" => \A j \in Ids : recovering'[j].stage # "load",
         \A j \in Ids : Lists(j)
  PROVE  ListedInv' /\ Hides
<1>1. OpensFirst' /\ PlacesAgree' /\ Hides
  BY DEF ListedInv, OpensFirst, PlacesAgree, Lists, Hides, Delivered, Has
<1>2. SavedIsListed'
  BY DEF ListedInv, SavedIsListed, Lists, Delivered, Has
<1>3. SavesKeep'
  BY DEF ListedInv, SavesKeep, Lists, Delivered, Has, Replaces
<1> QED BY <1>1, <1>2, <1>3 DEF ListedInv

\* So does a save that ends, if what it wrote is listed.
LEMMA WrittenKeeps ==
  ASSUME ListedInv, saving # NoJob, mayHold' = mayHold, saving' = NoJob,
         journal' = journal, disk' \in {disk, captured},
         \A j \in Ids : /\ Has(disk', j) => Has(ops', j) \/ Delivered(j)
                        /\ ops'[j].place = "confirmed" => Has(ops, j) /\ Delivered(j)
                        /\ Active(j)' => ops'[j].place = "pending"
  PROVE  ListedInv' /\ Hides
<1>1. journal' = "open"
  BY DEF ListedInv, OpensFirst
<1>2. OpensFirst' /\ SavesKeep'
  BY <1>1 DEF OpensFirst, SavesKeep
<1>3. SavedIsListed' /\ PlacesAgree' /\ Hides
  BY DEF SavedIsListed, PlacesAgree, Hides, Delivered, Has
<1> QED BY <1>2, <1>3 DEF ListedInv

\* A record that keeps its place, or is evicted, and whose attempt is no new one.
LEMMA SameLists ==
  ASSUME ListedInv, mayHold \subseteq mayHold', NEW j \in Ids,
         \/ ops'[j].place = ops[j].place
         \/ ops[j].place = "confirmed" /\ ops'[j].place = "absent",
         Active(j)' => Active(j) \/ ops'[j].place = "pending"
  PROVE  Lists(j)
BY DEF ListedInv, OpensFirst, PlacesAgree, Lists, Delivered, Has

\* An eviction removes confirmed records.
LEMMA TrimDrops ==
  ASSUME NEW o \in [Ids -> Op], NEW p \in Trim(o), NEW j \in Ids
  PROVE  \/ p[j] = o[j]
         \/ o[j].place = "confirmed" /\ p[j].place = "absent"
BY DEF Trim, NoOp

\* The end of an attempt confirms only what the relay or the roster has.
LEMMA FinishLists ==
  ASSUME ListedInv, TypeOK, NEW i \in Ids, NEW d \in Deliveries, Finish(i, d), Active(i),
         mayHold \subseteq mayHold', d = "seen" => i \in mayHold'
  PROVE  \A j \in Ids : Lists(j)
<1> DEFINE updated == [ops[i] EXCEPT !.delivery = d]
           done == Settled(i, updated)
           result == [ops EXCEPT ![i] = IF done THEN [updated EXCEPT !.place = "confirmed"]
                                                ELSE updated]
           idle == [attempts EXCEPT ![i] = Idle]
<1>0. /\ ops \in [Ids -> Op] /\ ops[i] \in Op /\ attempts \in [Ids -> Attempt]
      /\ jobs \in Seq(Job) /\ PushStatus(jobs) \in Seq(Job) /\ idle \in [Ids -> Attempt]
      /\ ops[i].place = "pending"
  BY InitialValues, PushStatusType DEF TypeOK, ListedInv, PlacesAgree
<1>1. updated \in Op /\ [updated EXCEPT !.place = "confirmed"] \in Op
      /\ updated.place = "pending" /\ updated.delivery = d
  BY <1>0 DEF Op
<1>2. done => i \in mayHold' \cup Invites
  BY <1>1 DEF Settled
<1>3. /\ result \in [Ids -> Op] /\ \A j \in Ids \ {i} : result[j] = ops[j]
      /\ result[i].place = IF done THEN "confirmed" ELSE "pending"
  BY <1>0, <1>1
<1>4. ops' \in (IF done THEN Trim(result) ELSE {result}) /\ Pump(idle, PushStatus(jobs), result)
  BY DEF Finish
<1>5. idle[i].stage = "idle" /\ \A j \in Ids \ {i} : idle[j] = attempts[j]
  BY <1>0 DEF Idle
<1> HIDE DEF updated, done, result, idle
<1>6. \A j \in Ids : Active(j)' => Active(j) /\ j # i
  BY <1>0, <1>4, <1>5, PumpContinues DEF Continues, Active
<1>7. \A j \in Ids : \/ ops'[j] = result[j]
                     \/ result[j].place = "confirmed" /\ ops'[j].place = "absent"
  BY <1>3, <1>4, TrimDrops
<1>8. \A j \in Ids \ {i} : Lists(j)
  BY <1>3, <1>6, <1>7, SameLists
<1>9. Lists(i)
  <2>1. CASE done
    <3>1. ops'[i].place \in {"confirmed", "absent"}
      BY <1>3, <1>7, <2>1
    <3> QED BY <1>0, <1>2, <1>6, <2>1, <3>1 DEF Lists, ListedInv, OpensFirst, Has
  <2>2. CASE ~done
    BY <1>0, <1>3, <1>6, <1>7, <2>2, SameLists
  <2> QED BY <2>1, <2>2
<1> QED BY <1>8, <1>9

\* Every stage of an attempt, its end and its echo keep the invariant.
LEMMA DeliverKeepsListed ==
  ASSUME ListedInv, AttestedInv, TypeOK', NEW i \in Ids, Deliver(i)
  PROVE  ListedInv' /\ Hides
<1> USE DEF history, journalState, quietHistory
<1>0. /\ TypeOK /\ ops \in [Ids -> Op] /\ ops[i] \in Op /\ attempts \in [Ids -> Attempt]
      /\ attempts[i] \in Attempt /\ jobs \in Seq(Job) /\ PushStatus(jobs) \in Seq(Job)
  BY PushStatusType DEF AttestedInv, TypeOK
<1>1. ASSUME UNCHANGED <<saving, captured, disk, journal, recovering>>,
             mayHold \subseteq mayHold', \A j \in Ids : Lists(j)
      PROVE  ListedInv' /\ Hides
  BY <1>1, ListsKeeps DEF ListedInv, OpensFirst
<1>2. ASSUME UNCHANGED <<saving, captured, disk, journal, recovering, mayHold>>,
             \A j \in Ids : ops'[j].place = ops[j].place /\ (Active(j)' => Active(j))
      PROVE  ListedInv' /\ Hides
  BY <1>1, <1>2, SameLists
<1>3. ASSUME NEW d \in Deliveries, Finish(i, d), Active(i), mayHold \subseteq mayHold',
             d = "seen" => i \in mayHold',
             UNCHANGED <<saving, captured, disk, journal, recovering>>
      PROVE  ListedInv' /\ Hides
  BY <1>0, <1>1, <1>3, FinishLists
<1>4. ops[i].delivery = "seen" \/ attempts[i].prev = "seen" => i \in mayHold
  BY DEF AttestedInv, RecordsAttest, RetriesAttest, Attests
<1>5. CASE IntentSaved(i) \/ HoldEnds(i) \/ PublishStarts(i)
  <2>1. \A j \in Ids : Active(j)' => Active(j)
    BY <1>0, <1>5 DEF IntentSaved, HoldEnds, PublishStarts, Active, Attempt
  <2> QED BY <1>2, <1>5, <2>1 DEF IntentSaved, HoldEnds, PublishStarts
<1>6. CASE Signed(i)
  <2>1. \A j \in Ids : ops'[j].place = ops[j].place /\ (Active(j)' => Active(j))
    BY <1>0, <1>6 DEF Signed, Active, Attempt, Op
  <2> QED BY <1>2, <1>6, <2>1 DEF Signed
<1>7. CASE SignatureSaved(i)
  <2> DEFINE held == [attempts EXCEPT ![i].stage = "hold", ![i].wait = "none"]
  <2>1. held \in [Ids -> Attempt] /\ \A j \in Ids : held[j].stage # "idle" => Active(j)
    BY <1>0, <1>7 DEF SignatureSaved, Active, Attempt
  <2>2. CASE Pump(held, jobs, ops)
    <3> HIDE DEF held
    <3>1. \A j \in Ids : Active(j)' => Active(j)
      BY <1>0, <2>1, <2>2, PumpContinues DEF Continues, Active
    <3> QED BY <1>2, <1>7, <3>1 DEF SignatureSaved
  <2>3. CASE attempts' = [attempts EXCEPT ![i].stage = "prepare", ![i].wait = "none"]
    <3>1. \A j \in Ids : Active(j)' => Active(j)
      BY <1>0, <1>7, <2>3 DEF SignatureSaved, Active, Attempt
    <3> QED BY <1>2, <1>7, <3>1 DEF SignatureSaved
  <2> QED BY <1>7, <2>2, <2>3 DEF SignatureSaved
<1>8. CASE PublishAccepted(i)
  BY <1>3, <1>8 DEF PublishAccepted, Deliveries, Active
<1>9. CASE PublishRejected(i) \/ PublishLost(i) \/ FailsUnpublished(i) \/ ExpiresActive(i)
  <2>1. \A u \in BOOLEAN : /\ CaughtDelivery(i, u) \in Deliveries
                           /\ CaughtDelivery(i, u) = "seen" => i \in mayHold
    <3>1. \A u \in BOOLEAN : CaughtDelivery(i, u) = "seen" => i \in mayHold
      BY <1>4 DEF CaughtDelivery, FailedDelivery
    <3> QED BY <1>0, <3>1, DeliveryType
  <2>2. PICK u \in BOOLEAN : Finish(i, CaughtDelivery(i, u))
    BY <1>9 DEF PublishRejected, PublishLost, FailsUnpublished, ExpiresActive
  <2>3. /\ Active(i) /\ mayHold \subseteq mayHold'
        /\ UNCHANGED <<saving, captured, disk, journal, recovering>>
    BY <1>9 DEF PublishRejected, PublishLost, FailsUnpublished, ExpiresActive, Active
  <2> QED BY <1>3, <2>1, <2>2, <2>3
<1>10. CASE ExpiresQueued(i)
  <2>1. \A j \in Ids : ops'[j].place = ops[j].place /\ (Active(j)' => Active(j))
    BY <1>0, <1>10 DEF ExpiresQueued, Active, Idle, Op
  <2> QED BY <1>2, <1>10, <2>1 DEF ExpiresQueued
<1>11. CASE Observe(i)
  <2> DEFINE stays == i \in Workflows /\ Active(i)
             seen == [ops[i] EXCEPT !.signed = TRUE, !.delivery = "seen"]
             kept == stays \/ ops[i].key # NoKey
             result == [ops EXCEPT ![i] = IF kept THEN seen
                                          ELSE [seen EXCEPT !.place = "confirmed"]]
             idle == [attempts EXCEPT ![i] = Idle]
  <2>1. /\ ops' \in (IF kept THEN {result} ELSE Trim(result))
        /\ \/ ~stays /\ Pump(idle, PushStatus(jobs), result)
           \/ attempts' = (IF stays THEN attempts ELSE idle)
        /\ ops[i].place = "pending" /\ mayHold' = mayHold \cup {i}
        /\ UNCHANGED <<saving, captured, disk, journal, recovering>>
    BY <1>11 DEF Observe
  <2>2. /\ seen \in Op /\ [seen EXCEPT !.place = "confirmed"] \in Op
        /\ seen.place = ops[i].place
    BY <1>0 DEF Op, Deliveries
  <2>3. /\ result \in [Ids -> Op] /\ \A j \in Ids \ {i} : result[j] = ops[j]
        /\ result[i].place = IF kept THEN "pending" ELSE "confirmed"
    BY <1>0, <2>1, <2>2
  <2>4. /\ idle \in [Ids -> Attempt] /\ idle[i].stage = "idle"
        /\ \A j \in Ids \ {i} : idle[j] = attempts[j]
    BY <1>0, InitialValues DEF Idle
  <2>5. stays => kept
    OBVIOUS
  <2> HIDE DEF stays, kept, result, idle
  <2>6. \A j \in Ids : \/ ops'[j] = result[j]
                       \/ result[j].place = "confirmed" /\ ops'[j].place = "absent"
    BY <2>1, <2>3, TrimDrops
  <2>7. \A j \in Ids : Active(j)' => Active(j) /\ (j = i => kept)
    BY <1>0, <2>1, <2>4, <2>5, PumpContinues DEF Continues, Active
  <2>8. \A j \in Ids \ {i} : Lists(j)
    BY <2>1, <2>3, <2>6, <2>7, SameLists
  <2>9. Lists(i)
    <3>1. CASE kept
      BY <2>1, <2>3, <2>6, <2>7, <3>1, SameLists
    <3>2. CASE ~kept
      <4>1. ops'[i].place \in {"confirmed", "absent"} /\ ~Active(i)'
        BY <2>3, <2>6, <2>7, <3>2
      <4> QED BY <2>1, <4>1 DEF Lists, ListedInv, OpensFirst, Has
    <3> QED BY <3>1, <3>2
  <2> QED BY <1>1, <2>1, <2>8, <2>9
<1> QED BY <1>5, <1>6, <1>7, <1>8, <1>9, <1>10, <1>11 DEF Deliver

\* Sends and retries list what they deliver.
LEMMA ComposeKeepsListed ==
  ASSUME ListedInv, FenceInv, TypeOK', Compose
  PROVE  ListedInv' /\ Hides
<1>0. /\ TypeOK /\ ops \in [Ids -> Op] /\ attempts \in [Ids -> Attempt] /\ jobs \in Seq(Job)
  BY DEF FenceInv, TypeOK
<1>1. ASSUME NEW i \in Ids, NEW prev \in Deliveries,
             NEW wait \in {"none", "pending", "done", "failed"}, NEW q \in Seq(Job),
             Schedule(i, prev, wait, q), ops'[i].place = "pending",
             \A j \in Ids \ {i} : ops'[j] = ops[j],
             ops[i].place = "pending" \/ ~Has(disk, i),
             UNCHANGED <<saving, captured, disk, journal, recovering, mayHold>>
      PROVE  ListedInv' /\ Hides
  <2> DEFINE att == [attempts EXCEPT ![i] = [stage |-> "queued", prev |-> prev,
                                             wait |-> wait]]
  <2>1. \A j \in Ids \ {i} : att[j] = attempts[j]
    BY <1>0
  <2>2. Schedule(i, prev, wait, q) /\ wait \in {"none", "pending", "done", "failed"}
    BY <1>1
  <2>3. Continues(att, q)
    BY <1>0, <2>2, ScheduleContinues
  <2> HIDE DEF att
  <2>4. \A j \in Ids \ {i} : Active(j)' => Active(j)
    BY <2>1, <2>3 DEF Continues, Active
  <2>5. \A j \in Ids \ {i} : Lists(j)
    BY <1>1, <2>4, SameLists
  <2>6. Lists(i)
    BY <1>1 DEF Lists, Has, ListedInv, OpensFirst
  <2> QED BY <1>1, <2>5, <2>6, ListsKeeps DEF ListedInv, OpensFirst
<1>2. ASSUME NEW i \in Ids, NEW k \in Keys \cup {NoKey}, NEW g \in BOOLEAN, Send(i, k, g)
      PROVE  ListedInv' /\ Hides
  <2> DEFINE q == Append(jobs, JobOf("attempt", i, NoId, NoKey))
  <2>1. q \in Seq(Job)
    BY <1>0, IntentJob
  <2>2. Fresh(k, g).place = "pending"
    BY DEF Fresh, NoOp
  <2>3. /\ Schedule(i, "failed", "pending", q) /\ ops'[i].place = "pending"
        /\ \A j \in Ids \ {i} : ops'[j] = ops[j]
        /\ ~Has(disk, i)
        /\ UNCHANGED <<saving, captured, disk, journal, recovering, mayHold>>
    BY <1>0, <1>2, <2>2 DEF Send, FenceInv, KnownIdsUsed
  <2> HIDE DEF q
  <2> QED BY <1>1, <2>1, <2>3 DEF Deliveries
<1>3. ASSUME NEW i \in Ids, NEW renewed \in BOOLEAN, Retry(i, renewed)
      PROVE  ListedInv' /\ Hides
  <2>1. /\ Schedule(i, ops[i].delivery, "none", jobs) /\ ops[i].delivery \in Deliveries
        /\ ops[i].place = "pending" /\ ops'[i].place = "pending"
        /\ \A j \in Ids \ {i} : ops'[j] = ops[j]
        /\ UNCHANGED <<saving, captured, disk, journal, recovering, mayHold>>
    BY <1>0, <1>3 DEF Retry, Op, history
  <2> QED BY <1>0, <1>1, <2>1
<1>4. CASE Withdraw
  <2>1. UNCHANGED <<ops, attempts, saving, captured, disk, journal, recovering, mayHold>>
    BY <1>4 DEF Withdraw, history
  <2>2. \A j \in Ids : Lists(j)
    BY <2>1, SameLists DEF Active
  <2> QED BY <2>1, <2>2, ListsKeeps DEF ListedInv, OpensFirst
<1>5. CASE SendPlain \/ SendGuarded
  BY <1>2, <1>5, OutboxAssumption DEF SendPlain, SendGuarded
<1>6. CASE RetryPlain \/ RetryRenewed
  BY <1>3, <1>6, OutboxAssumption DEF RetryPlain, RetryRenewed
<1> QED BY <1>4, <1>5, <1>6 DEF Compose

\* The calls that resolve a receipt list what recover() puts back.
LEMMA ResolveKeepsListed ==
  ASSUME ListedInv, TypeOK, NEW i \in Ids, Resolve(i)
  PROVE  ListedInv' /\ Hides
<1> USE DEF history, journalState
<1>0. /\ ops \in [Ids -> Op] /\ recovering \in [Ids -> Recovering]
      /\ recovering[i] \in Recovering /\ disk[i] \in Op
      /\ NotRecovering.stage = "idle" /\ NotRecovering \in Recovering
  BY InitialValues DEF TypeOK, NotRecovering
<1>1. ASSUME UNCHANGED <<ops, attempts, saving, captured, disk, journal, mayHold>>,
             journal # "open" => \A j \in Ids : recovering'[j].stage # "load"
      PROVE  ListedInv' /\ Hides
  <2>1. \A j \in Ids : Lists(j)
    BY <1>1, SameLists DEF Active
  <2> QED BY <1>1, <2>1, ListsKeeps
<1>2. journal # "open" => \A j \in Ids : recovering[j].stage # "load"
  BY DEF ListedInv, OpensFirst
<1>3. CASE \/ Acknowledge(i) \/ RetireStarts(i) \/ RetireGivenUp(i) \/ RetireVerified(i)
           \/ Dismiss(i) \/ DismissLocked(i)
  BY <1>1, <1>2, <1>3 DEF Acknowledge, RetireStarts, RetireGivenUp, RetireVerified, Dismiss,
     DismissLocked
<1>4. CASE (\E k \in Keys : RecoverCalled(i, k)) \/ RecoverLoadFails(i)
  <2>1. \A j \in Ids : recovering'[j].stage = "load" => recovering[j].stage = "load"
    <3>1. ASSUME NEW k \in Keys, RecoverCalled(i, k)
          PROVE  \A j \in Ids : recovering'[j].stage = "load" => recovering[j].stage = "load"
      <4>1. [NotRecovering EXCEPT !.stage = "lock", !.key = k].stage = "lock"
        BY DEF NotRecovering
      <4> QED BY <1>0, <3>1, <4>1 DEF RecoverCalled
    <3> QED BY <1>0, <1>4, <3>1 DEF RecoverLoadFails
  <2> QED BY <1>1, <1>2, <1>4, <2>1 DEF RecoverCalled, RecoverLoadFails
<1>5. CASE RecoverLocked(i)
  <2>1. journal # "open" => recovering' = [recovering EXCEPT ![i] = NotRecovering]
    BY <1>5 DEF RecoverLocked, TypeOK
  <2>2. journal # "open" => \A j \in Ids : recovering'[j].stage # "load"
    BY <1>0, <1>2, <2>1
  <2> QED BY <1>1, <1>5, <2>2 DEF RecoverLocked
<1>6. CASE RecoverLoaded(i)
  <2>1. journal = "open"
    BY <1>2, <1>6 DEF RecoverLoaded
  <2>2. UNCHANGED <<attempts, saving, captured, disk, journal, mayHold>>
    BY <1>6 DEF RecoverLoaded
  <2>3. ops' = ops \/ \E r : ops' = [ops EXCEPT ![i] = [r EXCEPT !.place = "pending",
                                                         !.key = recovering[i].key]]
                             /\ r \in Op
    BY <1>0, <1>6 DEF RecoverLoaded, Recovering
  <2>4. CASE ops' = ops
    BY <1>1, <2>1, <2>2, <2>4
  <2>5. ASSUME NEW r \in Op, ops' = [ops EXCEPT ![i] = [r EXCEPT !.place = "pending",
                                                        !.key = recovering[i].key]]
        PROVE  \A j \in Ids : Lists(j)
    <3>1. ops'[i].place = "pending" /\ \A j \in Ids \ {i} : ops'[j] = ops[j]
      BY <1>0, <2>5 DEF Op
    <3>2. \A j \in Ids \ {i} : Lists(j)
      BY <2>2, <3>1, SameLists DEF Active
    <3>3. Lists(i)
      BY <2>1, <3>1 DEF Lists, Has
    <3> QED BY <3>2, <3>3
  <2> QED BY <2>1, <2>2, <2>3, <2>4, <2>5, ListsKeeps
<1> QED BY <1>3, <1>4, <1>5, <1>6 DEF Resolve

\* Hydration lists what is saved; it confirms only what the relay or the roster has,
\* and after a revoked access only what stays readable.
LEMMA HydrateKeepsListed ==
  ASSUME ListedInv, AttestedInv, Hydrate \/ HydrateFails
  PROVE  ListedInv' /\ Hides
<1> DEFINE merged == [j \in Ids |-> IF Has(disk, j) THEN Restored(j, disk[j]) ELSE ops[j]]
<1>0. /\ ops \in [Ids -> Op] /\ disk \in [Ids -> Op]
      /\ UNCHANGED <<attempts, saving, captured, disk, recovering, mayHold, purged>>
      /\ saving = NoJob /\ journal = "loading"
  BY DEF AttestedInv, TypeOK, Hydrate, HydrateFails, history, ListedInv, OpensFirst
<1>1. CASE journal' = "broken" /\ ops' = ops
  BY <1>0, <1>1 DEF ListedInv, OpensFirst, PlacesAgree, SavedIsListed, SavesKeep, Hides, Has,
     Active, Delivered
<1>2. CASE journal' = "open" /\ ops' \in Trim(merged)
  <2>1. merged \in [Ids -> Op]
    BY <1>0, RestoredType
  <2>2. ASSUME NEW j \in Ids, Has(disk, j)
        PROVE  \/ merged[j].place = "pending"
               \/ /\ Delivered(j)
                  /\ merged[j].place = "confirmed" => ~purged \/ j \in Creations \cap Readable
    <3>1. merged[j] = Restored(j, disk[j]) /\ disk[j].place # "absent" /\ disk[j] \in Op
      BY <1>0, <2>2 DEF Has
    <3>2. Decoded(disk[j]) \in Op /\ (Decoded(disk[j]).delivery = "seen"
                                      => disk[j].delivery = "seen")
      BY <3>1 DEF Decoded, Op, Deliveries
    <3>3. CASE Outstanding(j, Decoded(disk[j]))
      BY <3>1, <3>2, <3>3 DEF Restored, Op
    <3>4. CASE ~Outstanding(j, Decoded(disk[j]))
      <4>1. Delivered(j)
        BY <3>2, <3>4 DEF Outstanding, Delivered, AttestedInv, RecordsAttest, Attests
      <4>2. merged[j].place = "confirmed" => ~purged \/ j \in Creations \cap Readable
        BY <3>1, <3>4 DEF Restored, NoOp
      <4> QED BY <4>1, <4>2
    <3> QED BY <3>3, <3>4
  <2>3. \A j \in Ids : ~Has(disk, j) => merged[j] = ops[j]
    OBVIOUS
  <2>4. \A j \in Ids : Has(disk, j) => ~Has(ops, j) /\ ~Active(j)
    BY <1>0 DEF ListedInv, OpensFirst, PlacesAgree, Has
  <2> HIDE DEF merged
  <2>5. \A j \in Ids : \/ ops'[j] = merged[j]
                       \/ merged[j].place = "confirmed" /\ ops'[j].place = "absent"
    BY <1>2, <2>1, TrimDrops
  <2>6. SavedIsListed'
    BY <1>0, <2>2, <2>5 DEF SavedIsListed, Has, Delivered
  <2>7. PlacesAgree'
    <3>1. \A j \in Ids : Active(j) => ops'[j].place = "pending"
      BY <2>3, <2>4, <2>5 DEF ListedInv, PlacesAgree
    <3>2. \A j \in Ids : ops'[j].place = "confirmed" => Delivered(j)
      BY <2>2, <2>3, <2>5 DEF ListedInv, PlacesAgree
    <3> QED BY <1>0, <3>1, <3>2 DEF PlacesAgree, Active, Delivered
  <2>8. OpensFirst' /\ SavesKeep'
    BY <1>0, <1>2 DEF OpensFirst, SavesKeep
  <2>9. Hides
    BY <2>2, <2>3, <2>5 DEF Hides, Has
  <2> QED BY <2>6, <2>7, <2>8, <2>9 DEF ListedInv
<1>3. \/ journal' = "broken" /\ ops' = ops
      \/ journal' = "open" /\ ops' \in Trim(merged)
  BY DEF Hydrate, HydrateFails
<1> QED BY <1>1, <1>2, <1>3

\* A save that starts brings what is listed.
LEMMA SaveStartsKeepsListed ==
  ASSUME ListedInv, TypeOK, SaveStarts
  PROVE  ListedInv' /\ Hides
<1>0. /\ journal = "open" /\ Head(jobs) \in Job /\ ops \in [Ids -> Op]
      /\ saving' = Head(jobs) /\ captured' = Capture(Head(jobs))
      /\ UNCHANGED <<ops, attempts, journal, disk, recovering, mayHold>>
  BY DEF TypeOK, SaveStarts, history
<1>1. ASSUME NEW job \in Job, NEW j \in Ids
      PROVE  /\ Has(Capture(job), j) => Has(ops, j) \/ Replaces(job, j)
             /\ Has(ops, j) => Has(Capture(job), j) \/ (job.kind = "dismiss" /\ job.id = j)
  <2>1. ASSUME NEW k \in Ids
        PROVE  /\ Acknowledged(ops, k) \in [Ids -> Op]
               /\ Has(Acknowledged(ops, k), j) <=> Has(ops, j)
    <3>1. Acknowledged(ops, k) \in [Ids -> Op]
      BY <1>0, AcknowledgedType
    <3>2. Acknowledged(ops, k)[j].place = ops[j].place
      BY <1>0 DEF Acknowledged, Op
    <3> QED BY <3>1, <3>2 DEF Has
  <2>2. NoOp.place = "absent" /\ \A k, g : Fresh(k, g).place = "pending"
    BY DEF NoOp, Fresh
  <2>3. CASE job.kind = "dismiss"
    BY <1>0, <2>2, <2>3 DEF Capture, Has
  <2>4. CASE job.kind = "retire"
    <3>1. job.id \in Ids
      BY <2>4 DEF Job
    <3> QED BY <2>1, <2>2, <2>4, <3>1 DEF Capture, Has, Replaces
  <2>5. CASE job.kind = "acknowledge"
    BY <2>1, <2>5 DEF Capture, Job
  <2>6. CASE job.kind \in {"none", "status", "attempt", "recover"}
    BY <2>6 DEF Capture
  <2> QED BY <2>3, <2>4, <2>5, <2>6 DEF Job
<1>2. SavesKeep'
  <2>1. \A j \in Ids : Has(disk, j) => Has(ops, j) \/ Delivered(j)
    BY <1>0 DEF ListedInv, SavedIsListed
  <2> QED BY <1>0, <1>1, <2>1 DEF SavesKeep, Has, Delivered, Replaces
<1>3. OpensFirst' /\ PlacesAgree' /\ SavedIsListed' /\ Hides
  BY <1>0 DEF ListedInv, OpensFirst, PlacesAgree, SavedIsListed, Hides, Has, Active, Delivered
<1> QED BY <1>2, <1>3 DEF ListedInv

\* A released receipt stays listed, unless it is evicted delivered.
LEMMA ReleasedLists ==
  ASSUME NEW o \in [Ids -> Op], NEW i \in Ids, NEW p \in Released(o, i),
         o[i].delivery = "seen" => Delivered(i)
  PROVE  \A j \in Ids :
           \/ p[j].place = o[j].place
           \/ p[j].place = "confirmed" /\ j = i /\ Has(o, j) /\ Delivered(j) /\ ~Active(j)
           \/ p[j].place = "absent" /\ (o[j].place = "confirmed"
                                        \/ (j = i /\ Delivered(j) /\ ~Active(j)))
<1> DEFINE cleared == Acknowledged(o, i)
           moved == [cleared EXCEPT ![i].place = "confirmed"]
<1>1. cleared \in [Ids -> Op] /\ \A j \in Ids : cleared[j].place = o[j].place
  <2>1. cleared \in [Ids -> Op]
    BY AcknowledgedType
  <2>2. \A j \in Ids : cleared[j].place = o[j].place
    BY DEF Acknowledged, Op
  <2> QED BY <2>1, <2>2
<1>2. [cleared[i] EXCEPT !.place = "confirmed"] \in Op
  BY <1>1 DEF Op
<1>3. /\ moved \in [Ids -> Op] /\ moved[i].place = "confirmed"
      /\ \A j \in Ids \ {i} : moved[j] = cleared[j]
  BY <1>1, <1>2 DEF Op
<1>4. \/ p = cleared
      \/ Has(o, i) /\ ~Active(i) /\ Delivered(i) /\ p \in Trim(moved)
  BY DEF Released, Delivered
<1> HIDE DEF cleared, moved
<1>5. CASE p = cleared
  BY <1>1, <1>5
<1>6. CASE Has(o, i) /\ ~Active(i) /\ Delivered(i) /\ p \in Trim(moved)
  <2>1. \A j \in Ids : \/ p[j] = moved[j]
                       \/ moved[j].place = "confirmed" /\ p[j].place = "absent"
    BY <1>3, <1>6, TrimDrops
  <2> QED BY <1>1, <1>3, <1>6, <2>1
<1> QED BY <1>4, <1>5, <1>6

\* The end of a save leaves what it wrote listed.
LEMMA SavedKeepsListed ==
  ASSUME ListedInv, AttestedInv, FenceInv,
         \/ StatusSaved \/ AttemptSaved \/ DismissSaved \/ AcknowledgeSaved \/ RetireSaved
         \/ RecoverSaved
  PROVE  ListedInv' /\ Hides
<1> USE DEF history, Written
<1>0. /\ TypeOK /\ saving \in Job /\ jobs \in Seq(Job) /\ ops \in [Ids -> Op]
      /\ attempts \in [Ids -> Attempt] /\ saving # NoJob
      /\ saving' = NoJob /\ disk' = captured /\ UNCHANGED <<journal, mayHold>>
  BY DEF FenceInv, TypeOK, NoJob, JobOf, StatusSaved, AttemptSaved, DismissSaved,
         AcknowledgeSaved, RetireSaved, RecoverSaved
<1>1. \A j \in Ids : /\ Has(captured, j) => Has(ops, j) \/ Replaces(saving, j) \/ Delivered(j)
                     /\ Active(j) => ops[j].place = "pending"
                     /\ ops[j].place = "confirmed" => Delivered(j)
                     /\ ops[j].delivery = "seen" => Delivered(j)
  BY <1>0 DEF ListedInv, SavesKeep, PlacesAgree, AttestedInv, RecordsAttest, Attests, Delivered
<1>2. ASSUME \A j \in Ids : (Active(j)' => Active(j)) /\ ops'[j] = ops[j],
             saving.kind # "retire"
      PROVE  ListedInv' /\ Hides
  BY <1>0, <1>1, <1>2, WrittenKeeps DEF Has, Replaces
<1>3. CASE StatusSaved \/ RecoverSaved
  BY <1>2, <1>3 DEF StatusSaved, RecoverSaved, Active
<1>4. CASE AttemptSaved
  <2>1. saving.id \in Ids /\ saving.kind = "attempt"
    BY <1>0, <1>4 DEF AttemptSaved, Job
  <2>2. \A j \in Ids : Active(j)' => Active(j)
    BY <1>0, <1>4, <2>1 DEF AttemptSaved, Told, Active
  <2> QED BY <1>2, <1>4, <2>1, <2>2 DEF AttemptSaved
<1>5. CASE DismissSaved
  <2>1. /\ saving.id \in Ids /\ saving.kind = "dismiss" /\ ~Active(saving.id)
        /\ ~Has(captured, saving.id)
    BY <1>0, <1>5
       DEF DismissSaved, Job, FenceInv, SavesRely, ReliesWell, FencesHold
  <2>2. /\ \A j \in Ids : Active(j)' => Active(j)
        /\ \A j \in Ids \ {saving.id} : ops'[j] = ops[j]
        /\ ops'[saving.id].place = "absent"
    BY <1>0, <1>5, <2>1 DEF DismissSaved, Active, NoOp
  <2> QED BY <1>0, <1>1, <2>1, <2>2, WrittenKeeps DEF Has, Replaces
<1>6. CASE AcknowledgeSaved
  <2>1. /\ saving.id \in Ids /\ saving.kind = "acknowledge" /\ ops' \in Released(ops, saving.id)
        /\ attempts' = attempts
    BY <1>0, <1>6 DEF AcknowledgeSaved, Job
  <2>2. ASSUME NEW i \in Ids, i = saving.id PROVE ListedInv' /\ Hides
    <3>1. ops' \in Released(ops, i)
      BY <2>1, <2>2
    <3>2. \A j \in Ids :
            \/ ops'[j].place = ops[j].place
            \/ ops'[j].place = "confirmed" /\ j = i /\ Has(ops, j) /\ Delivered(j) /\ ~Active(j)
            \/ ops'[j].place = "absent" /\ (ops[j].place = "confirmed"
                                            \/ (j = i /\ Delivered(j) /\ ~Active(j)))
      BY <1>0, <1>1, <3>1, ReleasedLists
    <3> QED BY <1>0, <1>1, <2>1, <3>2, WrittenKeeps DEF Has, Replaces, Active
  <2> QED BY <2>1, <2>2
<1>7. CASE RetireSaved
  <2>1. /\ saving.kind = "retire" /\ saving.id \in Ids /\ saving.next \in Ids \cup {NoId}
        /\ saving.key \in Keys \cup {NoKey}
    BY <1>0, <1>7, OutboxAssumption DEF RetireSaved, Job
  <2>2. ASSUME NEW i \in Ids, i = saving.id, saving.next = NoId PROVE ListedInv' /\ Hides
    <3>1. ops' \in Released(ops, i) /\ attempts' = attempts
      BY <1>7, <2>2 DEF RetireSaved
    <3>2. \A j \in Ids :
            \/ ops'[j].place = ops[j].place
            \/ ops'[j].place = "confirmed" /\ j = i /\ Has(ops, j) /\ Delivered(j) /\ ~Active(j)
            \/ ops'[j].place = "absent" /\ (ops[j].place = "confirmed"
                                            \/ (j = i /\ Delivered(j) /\ ~Active(j)))
      BY <1>0, <1>1, <3>1, ReleasedLists
    <3>3. \A j \in Ids : ~Replaces(saving, j)
      BY <2>2, OutboxAssumption DEF Replaces
    <3> QED BY <1>0, <1>1, <3>1, <3>2, <3>3, WrittenKeeps DEF Has, Active
  <2>3. ASSUME NEW i \in Ids, i = saving.id, NEW n \in Ids, n = saving.next
        PROVE  ListedInv' /\ Hides
    <3> DEFINE joined == [ops EXCEPT ![n] = Fresh(saving.key, FALSE)]
    <3>1. dismissing[i] = "save" /\ dismissing[n] = "none" /\ ~Active(n) /\ ~Has(ops, n)
      BY <1>0, <2>1, <2>3, OutboxAssumption DEF FenceInv, SavesRely, ReliesWell, Unknown
    <3>2. /\ ops' \in Released(joined, i)
          /\ attempts' = attempts \/ Schedule(n, "failed", "none", jobs)
      BY <1>7, <2>3, OutboxAssumption DEF RetireSaved
    <3>3. /\ joined \in [Ids -> Op] /\ joined[n].place = "pending" /\ i # n
          /\ \A j \in Ids \ {n} : joined[j] = ops[j]
      BY <1>0, <2>1, <3>1, InitialValues DEF Fresh, NoOp
    <3>4. \A j \in Ids \ {n} : Active(j)' => Active(j)
      <4>1. CASE Schedule(n, "failed", "none", jobs)
        <5> DEFINE att == [attempts EXCEPT ![n] = [stage |-> "queued", prev |-> "failed",
                                                   wait |-> "none"]]
        <5>1. \A j \in Ids \ {n} : att[j] = attempts[j]
          BY <1>0
        <5>2. Continues(att, jobs)
          BY <1>0, <4>1, ScheduleContinues DEF Deliveries
        <5> HIDE DEF att
        <5> QED BY <5>1, <5>2 DEF Continues, Active
      <4> QED BY <3>2, <4>1 DEF Active
    <3> HIDE DEF joined
    <3>5. \A j \in Ids :
            \/ ops'[j].place = joined[j].place
            \/ ops'[j].place = "confirmed" /\ j = i /\ Has(joined, j) /\ Delivered(j)
               /\ ~Active(j)
            \/ ops'[j].place = "absent" /\ (joined[j].place = "confirmed"
                                            \/ (j = i /\ Delivered(j) /\ ~Active(j)))
      BY <1>1, <3>2, <3>3, ReleasedLists
    <3>6. \A j \in Ids : Replaces(saving, j) => j = n
      BY <2>3 DEF Replaces
    <3>7. ops'[n].place = "pending"
      BY <3>3, <3>5
    <3>8. ASSUME NEW j \in Ids
          PROVE  /\ Has(disk', j) => Has(ops', j) \/ Delivered(j)
                 /\ ops'[j].place = "confirmed" => Has(ops, j) /\ Delivered(j)
                 /\ Active(j)' => ops'[j].place = "pending"
      <4>1. CASE j = n
        BY <3>7, <4>1 DEF Has
      <4>2. CASE j # n
        BY <1>0, <1>1, <3>3, <3>4, <3>5, <3>6, <4>2 DEF Has
      <4> QED BY <4>1, <4>2
    <3> QED BY <1>0, <3>8, WrittenKeeps
  <2> QED BY <2>1, <2>2, <2>3
<1> QED BY <1>3, <1>4, <1>5, <1>6, <1>7

\* A save that fails or is refused leaves what is saved and listed.
LEMMA FailedKeepsListed ==
  ASSUME ListedInv, TypeOK, SaveFails \/ SaveRefused
  PROVE  ListedInv' /\ Hides
<1>0. /\ attempts \in [Ids -> Attempt] /\ recovering \in [Ids -> Recovering]
      /\ UNCHANGED <<ops, disk, journal, mayHold>>
  BY DEF TypeOK, SaveFails, SaveRefused, history
<1>1. ASSUME NEW job, NEW q, FailJob(job, q), NEW j \in Ids
      PROVE  attempts'[j].stage = attempts[j].stage
  BY <1>0, <1>1 DEF FailJob, Told
<1>2. \A j \in Ids : Active(j)' => Active(j)
  BY <1>1 DEF SaveFails, SaveRefused, Active
<1>3. CASE SaveFails
  <2>1. saving # NoJob /\ saving' = NoJob
    BY <1>3 DEF SaveFails
  <2>2. journal = "open"
    BY <2>1 DEF ListedInv, OpensFirst
  <2>3. \A j \in Ids : /\ Has(disk, j) => Has(ops, j) \/ Delivered(j)
                       /\ ops[j].place = "confirmed" => Has(ops, j) /\ Delivered(j)
                       /\ Active(j) => ops[j].place = "pending"
    BY <2>2 DEF ListedInv, SavedIsListed, PlacesAgree, Has
  <2> QED BY <1>0, <1>2, <2>1, <2>3, WrittenKeeps DEF Has
<1>4. CASE SaveRefused
  <2>1. UNCHANGED <<saving, captured>> /\ journal = "broken"
    BY <1>4 DEF SaveRefused
  <2>2. \A j \in Ids : Lists(j)
    BY <1>0, <1>2, SameLists
  <2>3. \A j \in Ids : recovering'[j].stage # "load"
    <3>1. /\ \A j \in Ids : recovering[j].stage # "load"
          /\ NotRecovering.stage # "load"
      BY <2>1 DEF ListedInv, OpensFirst, NotRecovering
    <3> QED BY <1>0, <1>4, <3>1 DEF SaveRefused, FailJob
  <2> QED BY <1>0, <2>1, <2>2, <2>3, ListsKeeps
<1> QED BY <1>3, <1>4

\* A revoked access hides what the relay or the roster has; a restart lists nothing.
LEMMA SessionKeepsListed ==
  ASSUME ListedInv, TypeOK, Session
  PROVE  ListedInv' /\ Hides
<1> USE DEF history, journalState, quietHistory
<1>0. Idle.stage = "idle" /\ NoOp.place = "absent" /\ NotRecovering.stage = "idle"
      /\ ops \in [Ids -> Op]
  BY DEF Idle, NoOp, NotRecovering, TypeOK
<1>1. CASE Purge
  <2>1. /\ UNCHANGED <<attempts, saving, captured, disk, journal, recovering, mayHold>>
        /\ \A j \in Ids : \/ ops'[j] = ops[j]
                          \/ ops[j].place = "confirmed" /\ ops'[j].place = "absent"
    BY <1>0, <1>1 DEF Purge
  <2>2. \A j \in Ids : Lists(j)
    BY <2>1, SameLists DEF Active
  <2> QED BY <2>1, <2>2, ListsKeeps DEF ListedInv, OpensFirst
<1>2. CASE Dispose
  <2>1. /\ UNCHANGED <<ops, saving, captured, disk, journal, recovering>>
        /\ mayHold \subseteq mayHold' /\ \A j \in Ids : ~Active(j)'
    BY <1>0, <1>2 DEF Dispose, Active
  <2>2. \A j \in Ids : Lists(j)
    BY <2>1, SameLists
  <2> QED BY <2>1, <2>2, ListsKeeps DEF ListedInv, OpensFirst
<1>3. CASE Restart
  <2>1. /\ saving' = NoJob /\ journal' = "loading"
        /\ \A j \in Ids : /\ ops'[j].place = "absent" /\ ~Active(j)'
                          /\ recovering'[j].stage = "idle"
    BY <1>0, <1>3 DEF Restart, Empty, Active
  <2> QED BY <2>1 DEF ListedInv, OpensFirst, PlacesAgree, SavedIsListed, SavesKeep, Hides, Has
<1> QED BY <1>1, <1>2, <1>3 DEF Session

\* The invariant holds at first and in every step.
LEMMA ListedInductive ==
  /\ Init => ListedInv
  /\ ListedInv /\ AttestedInv /\ FenceInv /\ [Next]_vars => ListedInv' /\ Hides
<1>1. ASSUME Init PROVE ListedInv
  <2>1. /\ Idle.stage = "idle" /\ NoOp.place = "absent" /\ NotRecovering.stage = "idle"
    BY DEF Idle, NoOp, NotRecovering
  <2> QED BY <1>1, <2>1 DEF Init, Empty, ListedInv, OpensFirst, PlacesAgree, SavedIsListed,
          SavesKeep, Has, Active
<1>2. ASSUME ListedInv, AttestedInv, FenceInv, [Next]_vars PROVE ListedInv' /\ Hides
  <2>1. TypeOK /\ TypeOK'
    BY <1>2, NextType DEF FenceInv
  <2>2. CASE Journal
    BY <1>2, <2>1, <2>2, HydrateKeepsListed, SaveStartsKeepsListed, SavedKeepsListed,
       FailedKeepsListed DEF Journal
  <2>3. ASSUME NEW i \in Ids, Deliver(i) \/ Resolve(i) PROVE ListedInv' /\ Hides
    BY <1>2, <2>1, <2>3, DeliverKeepsListed, ResolveKeepsListed
  <2>4. CASE Compose
    BY <1>2, <2>1, <2>4, ComposeKeepsListed
  <2>5. CASE Session
    BY <1>2, <2>1, <2>5, SessionKeepsListed
  <2>6. CASE UNCHANGED vars
    <3>1. UNCHANGED <<ops, attempts, saving, captured, disk, journal, recovering, mayHold>>
      BY <2>6 DEF vars, memory, history
    <3>2. \A j \in Ids : Lists(j)
      BY <1>2, <3>1, SameLists DEF Active
    <3> QED BY <1>2, <3>1, <3>2, ListsKeeps DEF ListedInv, OpensFirst
  <2> QED BY <1>2, <2>2, <2>3, <2>4, <2>5, <2>6 DEF Next
<1> QED BY <1>1, <1>2

\* Only a save changes the journal, and no evidence is withdrawn.
LEMMA JournalIsWritten ==
  ASSUME [Next]_vars
  PROVE  /\ disk' = disk \/ (saving # NoJob /\ disk' = captured)
         /\ mayHold \subseteq mayHold'
<1> USE DEF history, journalState, quietHistory
<1>1. CASE Journal
  BY <1>1 DEF Journal, Hydrate, HydrateFails, SaveStarts, StatusSaved, AttemptSaved,
     DismissSaved, AcknowledgeSaved, RetireSaved, RecoverSaved, SaveFails, SaveRefused,
     Written, NoJob, JobOf
<1>2. ASSUME NEW i \in Ids, Deliver(i) PROVE disk' = disk /\ mayHold \subseteq mayHold'
  BY <1>2 DEF Deliver, IntentSaved, Signed, SignatureSaved, HoldEnds, PublishStarts,
     PublishAccepted, PublishRejected, PublishLost, FailsUnpublished, ExpiresQueued,
     ExpiresActive, Observe
<1>3. ASSUME NEW i \in Ids, Resolve(i) PROVE disk' = disk /\ mayHold \subseteq mayHold'
  BY <1>3 DEF Resolve, Acknowledge, RetireStarts, RetireGivenUp, RetireVerified, Dismiss,
     DismissLocked, RecoverCalled, RecoverLocked, RecoverLoaded, RecoverLoadFails
<1>4. CASE Compose
  BY <1>4 DEF Compose, SendPlain, SendGuarded, Send, Withdraw, RetryPlain, RetryRenewed, Retry
<1>5. CASE Session
  BY <1>5 DEF Session, Purge, Dispose, Restart
<1>6. CASE UNCHANGED vars
  BY <1>6 DEF vars, memory
<1> QED BY <1>1, <1>2, <1>3, <1>4, <1>5, <1>6 DEF Next

\* The three invariants hold together.
LEMMA ListedHolds == Spec => [](ListedInv /\ AttestedInv /\ FenceInv)
<1>1. Spec => []AttestedInv
  BY AttestedInductive, PTL DEF Spec
<1>2. Spec => []FenceInv
  BY FenceInductive, PTL DEF Spec
<1>3. Init => ListedInv
  BY ListedInductive
<1>4. ListedInv /\ AttestedInv /\ FenceInv /\ [Next]_vars => ListedInv'
  BY ListedInductive
<1> QED BY <1>1, <1>2, <1>3, <1>4, PTL DEF Spec

\* Saved intent that is not delivered leaves the journal only by a dismissal, in every
\* save, hydration, revoked access, eviction and restart (outbox.ts:338, 458-507, 1110).
THEOREM IntentIsKept == Spec => UndeliveredIntentKept
<1> DEFINE Step == \A i \in Ids \ (mayHold' \cup Invites) :
                     Has(disk, i) /\ ~Has(disk', i)
                     => i \in dismissed' \/ dismissing[i] = "save"
<1>1. ListedInv /\ FenceInv /\ [Next]_vars => Step
  <2> SUFFICES ASSUME ListedInv, FenceInv, [Next]_vars,
                      NEW i \in Ids \ (mayHold' \cup Invites), Has(disk, i), ~Has(disk', i)
               PROVE  dismissing[i] = "save"
    OBVIOUS
  <2>1. saving # NoJob /\ ~Has(captured, i) /\ ~Delivered(i)
    BY JournalIsWritten DEF Delivered, Has
  <2>2. saving.kind = "dismiss" /\ saving.id = i
    BY <2>1 DEF ListedInv, SavesKeep
  <2> QED BY <2>2 DEF FenceInv, SavesRely, ReliesWell
<1>2. ListedInv /\ AttestedInv /\ FenceInv /\ [Next]_vars => [Step]_vars
  BY <1>1
<1>3. Spec => [][Step]_vars
  BY <1>2, ListedHolds, PTL DEF Spec
<1> QED BY <1>3 DEF UndeliveredIntentKept

\* After a revoked access no journal that is read late and no queued save confirms an
\* event that is not shown, but a channel creation still readable (outbox.ts:1108-1121).
THEOREM RevokedIsHidden == Spec => RevokedStaysHidden
<1>1. ListedInv /\ AttestedInv /\ FenceInv /\ [Next]_vars => [Hides]_vars
  BY ListedInductive
<1>2. Spec => [][Hides]_vars
  BY <1>1, ListedHolds, PTL DEF Spec
<1> QED BY <1>2 DEF RevokedStaysHidden, Hides


----------------------------------------------------------------------------
\* The statuses shown change as DeliveryEvidence allows.

\* The shown status of i, now and after the step.
ShownOf(i) ==
  /\ Has(ops, i) => shownNow[i] = ops[i].delivery
  /\ ~Has(ops, i) /\ journal # "open" /\ Has(disk, i)
       => shownNow[i] = Decoded(disk[i]).delivery
  /\ ~Has(ops, i) /\ (journal = "open" \/ ~Has(disk, i)) => shownNow[i] = "none"

\* It is that of the listed record, or of the saved one until that is listed.
LEMMA ShownCases == \A i \in Ids : ShownOf(i) /\ ShownOf(i)'
BY DEF ShownOf, shownNow, Has

\* A removed event shows nothing.
LEMMA GoneIsHidden ==
  ASSUME FenceInv'
  PROVE  \A i \in dismissed' : shownNow'[i] = "none"
BY ShownCases DEF FenceInv, TypeOK, GoneForGood, ShownOf, Has

\* A status that claims something of the relay agrees with it.
LEMMA ListedIsJustified ==
  ASSUME EvidenceInv', AttestedInv', NEW i \in Ids
  PROVE  /\ Has(ops', i) => Evidence!Justified(i, ops'[i].delivery)
         /\ Has(disk', i) => Evidence!Justified(i, Decoded(disk'[i]).delivery)
<1>1. ops'[i] \in Op /\ disk'[i] \in Op
  BY DEF AttestedInv, TypeOK
<1>2. i \in mayHold' => Safe(ops'[i]) /\ Safe(disk'[i])
  BY DEF EvidenceInv, HeldIsSafe
<1>3. /\ ops'[i].delivery \in Attests => i \in mayHold'
      /\ disk'[i].delivery \in Attests => i \in mayHold'
  BY DEF AttestedInv, RecordsAttest
<1>4. /\ Decoded(disk'[i]).delivery = "failed" => disk'[i].delivery = "failed"
      /\ Decoded(disk'[i]).delivery \in Attests => disk'[i].delivery \in Attests
  BY <1>1 DEF Decoded, Op, Attests
<1> QED BY <1>2, <1>3, <1>4 DEF Evidence!Justified, Safe, Attests, Has

\* Event j is listed as before, is being sent, was, or was seen; or it is not listed.
Follows(j) ==
  /\ Has(ops', j) => \/ Has(ops, j) /\ ops'[j].delivery = ops[j].delivery
                     \/ ops'[j].delivery = "sending"
                     \/ Has(ops, j) /\ ops[j].delivery = "sending"
                     \/ Has(ops, j) /\ ops'[j].delivery = "seen"
  /\ Has(ops, j) /\ ~Has(ops', j) /\ ops[j].delivery = "sending"
       => j \in mayHold' \cup Invites

\* While the journal stays as it is, such a step is one of DeliveryEvidence.
LEMMA FollowsImplements ==
  ASSUME TypeOK, ListedInv, EvidenceInv', AttestedInv', FenceInv',
         journal' = journal, disk' = disk \/ journal = "open",
         mayHold \subseteq mayHold', dismissed \subseteq dismissed',
         \A j \in Ids : Follows(j)
  PROVE  Evidence!EvidenceNext
<1>1. ASSUME NEW i \in Ids PROVE Evidence!StatusChanges(i)
  <2>1. ShownOf(i) /\ ShownOf(i)' /\ Follows(i)
    BY ShownCases
  <2>2. CASE Has(ops', i)
    <3>1. /\ shownNow'[i] = ops'[i].delivery /\ ops'[i].delivery \in Deliveries
          /\ Evidence!Justified(i, shownNow'[i]) /\ i \notin dismissed
      BY <2>1, <2>2, ListedIsJustified
         DEF ShownOf, Has, FenceInv, GoneForGood, TypeOK, Op
    <3>2. Has(ops, i) => shownNow[i] = ops[i].delivery /\ ops[i].delivery # "none"
      BY <2>1 DEF ShownOf, TypeOK, Op, Deliveries
    <3> QED BY <2>1, <2>2, <3>1, <3>2 DEF Follows, Evidence!StatusChanges, Deliveries
  <2>3. CASE ~Has(ops', i) /\ Has(ops, i)
    <3>1. shownNow'[i] = "none" /\ shownNow[i] = ops[i].delivery
      BY <2>1, <2>3 DEF ShownOf, ListedInv, OpensFirst, Has
    <3> QED BY <2>1, <2>3, <3>1 DEF Follows, Evidence!StatusChanges
  <2>4. CASE ~Has(ops', i) /\ ~Has(ops, i)
    <3>1. shownNow'[i] = shownNow[i]
      BY <2>1, <2>4 DEF ShownOf, Has
    <3> QED BY <3>1 DEF Evidence!StatusChanges
  <2> QED BY <2>2, <2>3, <2>4
<1> QED BY <1>1, GoneIsHidden DEF Evidence!EvidenceNext, Evidence!Progress

\* The step leaves event j alone, or ends, removes or confirms it as it is.
Undisturbed(j) ==
  /\ Has(ops', j) => /\ Has(ops, j) /\ ops'[j].delivery = ops[j].delivery
                     /\ ops'[j].place = "pending" => ops[j].place = "pending"
  /\ Has(ops, j) /\ ~Has(ops', j) => \/ ops[j].delivery # "sending"
                                     \/ j \in mayHold' \cup Invites
  /\ Active(j)' => /\ Active(j)
                   /\ attempts[j].stage = "publish" => attempts'[j].stage = "publish"
                   /\ j \in mayHold' => j \in mayHold
  /\ dismissing'[j] # "none" => dismissing[j] # "none"

\* Then it settles and shows as before.
LEMMA UndisturbedSettles ==
  ASSUME NEW j \in Ids, Settles(j), ListedInv', Undisturbed(j)
  PROVE  Settles(j)' /\ Follows(j)
<1>1. Active(j)' => Has(ops', j)
  BY DEF ListedInv, PlacesAgree, Has
<1>2. ops'[j].place = "pending" => Has(ops', j)
  BY DEF Has
<1> QED BY <1>1, <1>2 DEF Settles, Follows, Undisturbed, Active

\* An eviction removes what is settled.
LEMMA TrimSettles ==
  ASSUME NEW o \in [Ids -> Op], NEW p \in Trim(o), NEW j \in Ids
  PROVE  p[j] = o[j] \/ (o[j].place = "confirmed" /\ ~Has(p, j))
BY TrimDrops DEF Has

\* The end of an attempt shows its outcome, unless the event leaves the list settled.
LEMMA FinishShows ==
  ASSUME TypeOK, ListedInv, ListedInv', FencesHold, \A j \in Ids : Settles(j),
         NEW i \in Ids, NEW d \in Deliveries \ {"sending"}, Finish(i, d), Active(i),
         ops[i].delivery = "seen" => d = "seen", d = "seen" => i \in mayHold',
         mayHold' \in {mayHold, mayHold \cup {i}}, dismissing' = dismissing
  PROVE  \A j \in Ids : Settles(j)' /\ Follows(j)
<1> DEFINE updated == [ops[i] EXCEPT !.delivery = d]
           done == Settled(i, updated)
           result == [ops EXCEPT ![i] = IF done THEN [updated EXCEPT !.place = "confirmed"]
                                                ELSE updated]
           idle == [attempts EXCEPT ![i] = Idle]
<1>0. /\ ops \in [Ids -> Op] /\ ops[i] \in Op /\ attempts \in [Ids -> Attempt]
      /\ jobs \in Seq(Job) /\ PushStatus(jobs) \in Seq(Job) /\ idle \in [Ids -> Attempt]
      /\ ops[i].place = "pending" /\ dismissing[i] = "none"
  BY InitialValues, PushStatusType DEF TypeOK, ListedInv, PlacesAgree, FencesHold
<1>1. updated \in Op /\ [updated EXCEPT !.place = "confirmed"] \in Op
      /\ updated.place = "pending" /\ updated.delivery = d
  BY <1>0 DEF Op
<1>2. done => i \in mayHold' \cup Invites
  BY <1>1 DEF Settled
<1>3. /\ result \in [Ids -> Op] /\ \A j \in Ids \ {i} : result[j] = ops[j]
      /\ result[i].place = (IF done THEN "confirmed" ELSE "pending")
      /\ result[i].delivery = d
  BY <1>0, <1>1
<1>4. ops' \in (IF done THEN Trim(result) ELSE {result}) /\ Pump(idle, PushStatus(jobs), result)
  BY DEF Finish
<1>5. idle[i].stage = "idle" /\ \A j \in Ids \ {i} : idle[j] = attempts[j]
  BY <1>0 DEF Idle
<1> HIDE DEF updated, done, result, idle
<1>6. \A j \in Ids : Active(j)' => /\ Active(j) /\ j # i
                                   /\ attempts[j].stage = "publish"
                                        => attempts'[j].stage = "publish"
  BY <1>0, <1>4, <1>5, PumpContinues DEF Continues, Active
<1>7. \A j \in Ids : \/ ops'[j] = result[j]
                     \/ result[j].place = "confirmed" /\ ~Has(ops', j)
  BY <1>3, <1>4, TrimSettles
<1>8. ASSUME NEW j \in Ids \ {i} PROVE Settles(j)' /\ Follows(j)
  <2>1. ops[j].place = "confirmed" => j \in mayHold' \cup Invites
    BY DEF ListedInv, PlacesAgree, Delivered
  <2>2. Undisturbed(j)
    BY <1>3, <1>6, <1>7, <1>8, <2>1 DEF Undisturbed, Has
  <2> QED BY <2>2, UndisturbedSettles
<1>9. Settles(i)'
  BY <1>0, <1>6 DEF Settles, Active
<1>10. Follows(i)
  <2>1. ops[i].delivery \in {"sending", "seen"} /\ Has(ops, i)
    BY <1>0 DEF Settles, Has
  <2>2. Has(ops', i) => ops'[i].delivery = d
    BY <1>3, <1>7
  <2>3. ~Has(ops', i) => i \in mayHold' \cup Invites
    BY <1>2, <1>3, <1>7 DEF Has
  <2> QED BY <2>1, <2>2, <2>3 DEF Follows
<1> QED BY <1>8, <1>9, <1>10

\* So do every stage of an attempt, its end and its echo.
LEMMA DeliverShows ==
  ASSUME TypeOK, ListedInv, ListedInv', FenceInv, AttestedInv, \A j \in Ids : Settles(j),
         NEW i \in Ids, Deliver(i)
  PROVE  \A j \in Ids : Settles(j)' /\ Follows(j)
<1> USE DEF history, journalState, quietHistory
<1>0. /\ ops \in [Ids -> Op] /\ ops[i] \in Op /\ attempts \in [Ids -> Attempt]
      /\ attempts[i] \in Attempt /\ jobs \in Seq(Job) /\ PushStatus(jobs) \in Seq(Job)
      /\ FencesHold
  BY PushStatusType DEF TypeOK, FenceInv
<1>1. ASSUME UNCHANGED <<ops, dismissing, mayHold>>,
             \A j \in Ids : Active(j)' => /\ Active(j)
                                          /\ attempts[j].stage = "publish"
                                               => attempts'[j].stage = "publish"
      PROVE  \A j \in Ids : Settles(j)' /\ Follows(j)
  <2>1. \A j \in Ids : Undisturbed(j)
    BY <1>1 DEF Undisturbed, Has
  <2> QED BY <2>1, UndisturbedSettles
<1>2. ops[i].delivery = "seen" \/ attempts[i].prev = "seen" => i \in mayHold
  BY DEF AttestedInv, RecordsAttest, RetriesAttest, Attests
<1>3. CASE IntentSaved(i) \/ HoldEnds(i) \/ PublishStarts(i)
  <2>1. \A j \in Ids : Active(j)' => /\ Active(j)
                                     /\ attempts[j].stage = "publish"
                                          => attempts'[j].stage = "publish"
    BY <1>0, <1>3 DEF IntentSaved, HoldEnds, PublishStarts, Active, Attempt
  <2> QED BY <1>1, <1>3, <2>1 DEF IntentSaved, HoldEnds, PublishStarts
<1>4. CASE Signed(i)
  <2>1. \A j \in Ids : /\ ops'[j].delivery = ops[j].delivery /\ ops'[j].place = ops[j].place
                       /\ Active(j)' => /\ Active(j)
                                        /\ attempts[j].stage = "publish"
                                             => attempts'[j].stage = "publish"
    BY <1>0, <1>4 DEF Signed, Active, Attempt, Op
  <2>2. UNCHANGED <<dismissing, mayHold>>
    BY <1>4 DEF Signed
  <2>3. \A j \in Ids : Undisturbed(j)
    BY <2>1, <2>2 DEF Undisturbed, Has
  <2> QED BY <2>3, UndisturbedSettles
<1>5. CASE SignatureSaved(i)
  <2> DEFINE held == [attempts EXCEPT ![i].stage = "hold", ![i].wait = "none"]
  <2>1. /\ held \in [Ids -> Attempt]
        /\ \A j \in Ids : /\ held[j].stage # "idle" => Active(j)
                          /\ attempts[j].stage = "publish" => held[j].stage = "publish"
    BY <1>0, <1>5 DEF SignatureSaved, Active, Attempt
  <2>2. CASE Pump(held, jobs, ops)
    <3> HIDE DEF held
    <3>1. \A j \in Ids : Active(j)' => /\ Active(j)
                                       /\ attempts[j].stage = "publish"
                                            => attempts'[j].stage = "publish"
      BY <1>0, <2>1, <2>2, PumpContinues DEF Continues, Active
    <3> QED BY <1>1, <1>5, <3>1 DEF SignatureSaved
  <2>3. CASE attempts' = [attempts EXCEPT ![i].stage = "prepare", ![i].wait = "none"]
    <3>1. \A j \in Ids : Active(j)' => /\ Active(j)
                                       /\ attempts[j].stage = "publish"
                                            => attempts'[j].stage = "publish"
      BY <1>0, <1>5, <2>3 DEF SignatureSaved, Active, Attempt
    <3> QED BY <1>1, <1>5, <3>1 DEF SignatureSaved
  <2> QED BY <1>5, <2>2, <2>3 DEF SignatureSaved
<1>6. ASSUME NEW d \in Deliveries \ {"sending"}, Finish(i, d), Active(i),
             ops[i].delivery = "seen" => d = "seen", d = "seen" => i \in mayHold',
             mayHold' \in {mayHold, mayHold \cup {i}}, dismissing' = dismissing
      PROVE  \A j \in Ids : Settles(j)' /\ Follows(j)
  BY <1>0, <1>6, FinishShows
<1>7. CASE PublishAccepted(i)
  <2> DEFINE d == IF ops[i].delivery = "seen" \/ attempts[i].prev = "seen"
                  THEN "seen" ELSE "accepted"
  <2>1. d \in Deliveries \ {"sending"} /\ (ops[i].delivery = "seen" => d = "seen")
    BY DEF Deliveries
  <2>2. /\ Finish(i, d) /\ Active(i) /\ mayHold' = mayHold \cup {i}
        /\ dismissing' = dismissing
    BY <1>7 DEF PublishAccepted, Active
  <2> HIDE DEF d
  <2> QED BY <1>6, <2>1, <2>2
<1>8. CASE PublishRejected(i) \/ PublishLost(i) \/ FailsUnpublished(i) \/ ExpiresActive(i)
  <2>1. \A u \in BOOLEAN : /\ CaughtDelivery(i, u) \in Deliveries \ {"sending"}
                           /\ CaughtDelivery(i, u) = "seen" => i \in mayHold
                           /\ ops[i].delivery = "seen" => CaughtDelivery(i, u) = "seen"
    BY <1>2 DEF CaughtDelivery, FailedDelivery, Deliveries
  <2>2. PICK u \in BOOLEAN : Finish(i, CaughtDelivery(i, u))
    BY <1>8 DEF PublishRejected, PublishLost, FailsUnpublished, ExpiresActive
  <2>3. /\ Active(i) /\ mayHold' \in {mayHold, mayHold \cup {i}} /\ dismissing' = dismissing
    BY <1>8 DEF PublishRejected, PublishLost, FailsUnpublished, ExpiresActive, Active
  <2> QED BY <1>6, <2>1, <2>2, <2>3
<1>9. CASE ExpiresQueued(i)
  <2>1. /\ attempts' = [attempts EXCEPT ![i] = Idle] /\ attempts[i].stage = "queued"
        /\ ops' = [ops EXCEPT ![i].delivery = FailedDelivery(attempts[i].prev)]
        /\ UNCHANGED <<dismissing, mayHold>>
    BY <1>9 DEF ExpiresQueued
  <2>2. \A j \in Ids \ {i} : ops'[j] = ops[j] /\ attempts'[j] = attempts[j]
    BY <1>0, <2>1
  <2>3. \A j \in Ids \ {i} : Undisturbed(j)
    BY <2>1, <2>2 DEF Undisturbed, Has, Active
  <2>4. /\ ops[i].delivery = "sending" /\ dismissing[i] = "none" /\ attempts'[i].stage = "idle"
        /\ ops'[i].place = ops[i].place
    BY <1>0, <2>1 DEF Settles, Active, Idle, FencesHold, Op
  <2>5. Settles(i)' /\ Follows(i)
    BY <2>1, <2>4 DEF Settles, Follows, Active, Has
  <2> QED BY <2>3, <2>5, UndisturbedSettles
<1>10. CASE Observe(i)
  <2> DEFINE stays == i \in Workflows /\ Active(i)
             seen == [ops[i] EXCEPT !.signed = TRUE, !.delivery = "seen"]
             kept == stays \/ ops[i].key # NoKey
             result == [ops EXCEPT ![i] = IF kept THEN seen
                                          ELSE [seen EXCEPT !.place = "confirmed"]]
             idle == [attempts EXCEPT ![i] = Idle]
  <2>1. /\ ops' \in (IF kept THEN {result} ELSE Trim(result))
        /\ \/ ~stays /\ Pump(idle, PushStatus(jobs), result)
           \/ attempts' = (IF stays THEN attempts ELSE idle)
        /\ ops[i].place = "pending" /\ mayHold' = mayHold \cup {i}
        /\ i \in mayHold \/ attempts[i].stage = "publish"
        /\ dismissing' = dismissing
    BY <1>10 DEF Observe
  <2>2. /\ seen \in Op /\ [seen EXCEPT !.place = "confirmed"] \in Op
        /\ seen.place = ops[i].place /\ seen.delivery = "seen"
    BY <1>0 DEF Op, Deliveries
  <2>3. /\ result \in [Ids -> Op] /\ \A j \in Ids \ {i} : result[j] = ops[j]
        /\ result[i].delivery = "seen"
    BY <1>0, <2>1, <2>2
  <2>4. /\ idle \in [Ids -> Attempt] /\ idle[i].stage = "idle"
        /\ \A j \in Ids \ {i} : idle[j] = attempts[j]
    BY <1>0, InitialValues DEF Idle
  <2>5. stays => attempts[i].stage = "publish" /\ dismissing[i] = "none"
    BY <1>0, <2>1 DEF Settles, FencesHold
  <2> HIDE DEF kept, result, idle
  <2>6. \A j \in Ids : ops'[j] = result[j] \/ (result[j].place = "confirmed" /\ ~Has(ops', j))
    BY <2>1, <2>3, TrimSettles
  <2>7. \A j \in Ids : Active(j)' => /\ Active(j) /\ (j = i => stays)
                                     /\ attempts[j].stage = "publish"
                                          => attempts'[j].stage = "publish"
    <3> HIDE DEF stays
    <3> QED BY <1>0, <2>1, <2>4, PumpContinues DEF Continues, Active
  <2>8. ASSUME NEW j \in Ids \ {i} PROVE Settles(j)' /\ Follows(j)
    <3>1. ops[j].place = "confirmed" => j \in mayHold' \cup Invites
      BY <2>1 DEF ListedInv, PlacesAgree, Delivered
    <3>2. Undisturbed(j)
      BY <2>1, <2>3, <2>6, <2>7, <3>1 DEF Undisturbed, Has
    <3> QED BY <3>2, UndisturbedSettles
  <2>9. Settles(i)'
    <3>1. Has(ops', i) => ops'[i].delivery = "seen"
      BY <2>3, <2>6
    <3>2. Active(i)' => Has(ops', i)
      BY DEF ListedInv, PlacesAgree, Has
    <3> QED BY <2>5, <2>7, <3>1, <3>2 DEF Settles, Has
  <2>10. Follows(i)
    BY <2>1, <2>3, <2>6 DEF Follows, Has
  <2> QED BY <2>8, <2>9, <2>10
<1> QED BY <1>3, <1>4, <1>5, <1>7, <1>8, <1>9, <1>10 DEF Deliver


\* Sends and retries show "sending".
LEMMA ComposeShows ==
  ASSUME TypeOK, EvidenceInv, FenceInv, ListedInv', \A j \in Ids : Settles(j), Compose
  PROVE  \A j \in Ids : Settles(j)' /\ Follows(j)
<1>0. /\ ops \in [Ids -> Op] /\ attempts \in [Ids -> Attempt] /\ jobs \in Seq(Job)
  BY DEF TypeOK
<1>1. ASSUME NEW i \in Ids, NEW prev \in Deliveries,
             NEW wait \in {"none", "pending", "done", "failed"}, NEW q \in Seq(Job),
             Schedule(i, prev, wait, q), ops'[i].delivery = "sending", Has(ops', i),
             \A j \in Ids \ {i} : ops'[j] = ops[j],
             dismissing[i] = "none", i \in Workflows => i \notin mayHold,
             UNCHANGED <<dismissing, mayHold>>
      PROVE  \A j \in Ids : Settles(j)' /\ Follows(j)
  <2> DEFINE att == [attempts EXCEPT ![i] = [stage |-> "queued", prev |-> prev,
                                             wait |-> wait]]
  <2>1. \A j \in Ids \ {i} : att[j] = attempts[j]
    BY <1>0
  <2>2. Schedule(i, prev, wait, q) /\ wait \in {"none", "pending", "done", "failed"}
    BY <1>1
  <2>3. Continues(att, q)
    BY <1>0, <2>2, ScheduleContinues
  <2> HIDE DEF att
  <2>4. \A j \in Ids \ {i} : Undisturbed(j)
    BY <1>1, <2>1, <2>3 DEF Continues, Active, Undisturbed, Has
  <2>5. Settles(i)' /\ Follows(i)
    BY <1>1 DEF Settles, Follows
  <2> QED BY <2>4, <2>5, UndisturbedSettles
<1>2. ASSUME NEW i \in Ids, NEW k \in Keys \cup {NoKey}, NEW g \in BOOLEAN, Send(i, k, g)
      PROVE  \A j \in Ids : Settles(j)' /\ Follows(j)
  <2> DEFINE q == Append(jobs, JobOf("attempt", i, NoId, NoKey))
  <2>1. q \in Seq(Job)
    BY <1>0, IntentJob
  <2>2. Fresh(k, g).delivery = "sending" /\ Fresh(k, g).place = "pending"
    BY DEF Fresh, NoOp
  <2>3. /\ Schedule(i, "failed", "pending", q) /\ ops'[i].delivery = "sending"
        /\ Has(ops', i)
        /\ \A j \in Ids \ {i} : ops'[j] = ops[j]
        /\ UNCHANGED <<dismissing, mayHold>>
    BY <1>0, <1>2, <2>2 DEF Send, Has
  <2>4. dismissing[i] = "none" /\ i \notin mayHold
    BY <1>2 DEF Send, FenceInv, KnownIdsUsed, EvidenceInv, IdsAreFresh
  <2> HIDE DEF q
  <2> QED BY <1>1, <2>1, <2>3, <2>4 DEF Deliveries
<1>3. ASSUME NEW i \in Ids, NEW renewed \in BOOLEAN, Retry(i, renewed)
      PROVE  \A j \in Ids : Settles(j)' /\ Follows(j)
  <2>1. /\ Schedule(i, ops[i].delivery, "none", jobs) /\ ops[i].delivery \in Deliveries
        /\ ops'[i].delivery = "sending" /\ Has(ops', i)
        /\ \A j \in Ids \ {i} : ops'[j] = ops[j]
        /\ dismissing[i] = "none" /\ i \notin Workflows
        /\ UNCHANGED <<dismissing, mayHold>>
    BY <1>0, <1>3 DEF Retry, Op, history, Has
  <2> QED BY <1>0, <1>1, <2>1
<1>4. CASE Withdraw
  <2>1. UNCHANGED <<ops, attempts, dismissing, mayHold>>
    BY <1>4 DEF Withdraw, history
  <2>2. \A j \in Ids : Undisturbed(j)
    BY <2>1 DEF Undisturbed, Active, Has
  <2> QED BY <2>2, UndisturbedSettles
<1>5. CASE SendPlain \/ SendGuarded
  BY <1>2, <1>5, OutboxAssumption DEF SendPlain, SendGuarded
<1>6. CASE RetryPlain \/ RetryRenewed
  BY <1>3, <1>6, OutboxAssumption DEF RetryPlain, RetryRenewed
<1> QED BY <1>4, <1>5, <1>6 DEF Compose

\* The calls that resolve a receipt, recover() apart, fence nothing that is being sent.
LEMMA ResolveShows ==
  ASSUME TypeOK, EvidenceInv, ListedInv', \A j \in Ids : Settles(j),
         NobodyRecovers, "recover" \notin Calls, NEW i \in Ids, Resolve(i)
  PROVE  \A j \in Ids : Settles(j)' /\ Follows(j)
<1> USE DEF history, journalState
<1>0. /\ NotRecovering.stage = "idle" /\ dismissing \in [Ids -> {"none", "lock", "verify", "save"}]
  BY DEF NotRecovering, TypeOK
<1>1. ~(\E k \in Keys : RecoverCalled(i, k)) /\ ~RecoverLocked(i) /\ ~RecoverLoaded(i)
      /\ ~RecoverLoadFails(i)
  BY <1>0 DEF RecoverCalled, RecoverLocked, RecoverLoaded, RecoverLoadFails, NobodyRecovers
<1>2. UNCHANGED <<ops, attempts, mayHold>>
  BY <1>1 DEF Resolve, Acknowledge, RetireStarts, RetireGivenUp, RetireVerified, Dismiss,
     DismissLocked
<1>3. /\ \A j \in Ids \ {i} : dismissing'[j] = dismissing[j]
      /\ dismissing'[i] # "none" =>
           \/ dismissing[i] # "none"
           \/ ops[i].place = "pending" => ops[i].delivery # "sending"
  <2>1. CASE Dismiss(i)
    <3>1. ops[i].place = "pending" => ops[i].delivery # "sending"
      BY <2>1 DEF Dismiss, EvidenceInv, AttemptsOwnSending
    <3> QED BY <1>0, <2>1, <3>1 DEF Dismiss
  <2>2. CASE RetireStarts(i)
    BY <1>0, <2>2 DEF RetireStarts, Retirable
  <2>3. CASE Acknowledge(i) \/ RetireGivenUp(i) \/ RetireVerified(i) \/ DismissLocked(i)
    BY <1>0, <2>3 DEF Acknowledge, RetireGivenUp, RetireVerified, DismissLocked
  <2> QED BY <1>1, <2>1, <2>2, <2>3 DEF Resolve
<1>4. ASSUME NEW j \in Ids PROVE Settles(j)' /\ Follows(j)
  <2>1. Follows(j)
    BY <1>2 DEF Follows, Has
  <2>2. Settles(j)
    OBVIOUS
  <2> QED BY <1>2, <1>3, <2>1, <2>2 DEF Settles, Active
<1> QED BY <1>4


\* What a released receipt leaves is undisturbed.
LEMMA ReleasedShows ==
  ASSUME NEW o \in [Ids -> Op], NEW i \in Ids, NEW p \in Released(o, i), NEW j \in Ids,
         o[i].delivery = "seen" => Delivered(i),
         o[j].place = "confirmed" => Delivered(j)
  PROVE  /\ Has(p, j) => /\ Has(o, j) /\ p[j].delivery = o[j].delivery
                         /\ p[j].place = "pending" => o[j].place = "pending"
         /\ Has(o, j) /\ ~Has(p, j) => Delivered(j)
<1>1. Calmer(o, p) /\ NoOp.place = "absent"
  BY ReleasedCalms DEF NoOp
<1>2. Has(p, j) => /\ Has(o, j) /\ p[j].delivery = o[j].delivery
                   /\ p[j].place = "pending" => o[j].place = "pending"
  BY <1>1 DEF Calmer, Has
<1>3. \/ p[j].place = o[j].place
      \/ p[j].place = "confirmed" /\ j = i /\ Has(o, j) /\ Delivered(j) /\ ~Active(j)
      \/ p[j].place = "absent" /\ (o[j].place = "confirmed"
                                   \/ (j = i /\ Delivered(j) /\ ~Active(j)))
  BY ReleasedLists
<1> QED BY <1>2, <1>3 DEF Has

\* The end of a save removes what is settled or dismissed, and shows a replacement.
LEMMA SavedShows ==
  ASSUME ListedInv, ListedInv', AttestedInv, FenceInv, ShownInv,
         \/ StatusSaved \/ AttemptSaved \/ DismissSaved \/ AcknowledgeSaved \/ RetireSaved
         \/ RecoverSaved
  PROVE  \A j \in Ids : Settles(j)' /\ Follows(j)
<1> USE DEF history, Written
<1>0. /\ TypeOK /\ saving \in Job /\ jobs \in Seq(Job) /\ ops \in [Ids -> Op]
      /\ attempts \in [Ids -> Attempt] /\ mayHold' = mayHold
      /\ dismissing \in [Ids -> {"none", "lock", "verify", "save"}]
      /\ \A j \in Ids : Settles(j)
  BY DEF FenceInv, TypeOK, ShownInv, StatusSaved, AttemptSaved, DismissSaved,
         AcknowledgeSaved, RetireSaved, RecoverSaved
<1>1. \A j \in Ids : /\ ops[j].place = "confirmed" => Delivered(j)
                     /\ ops[j].delivery = "seen" => Delivered(j)
                     /\ Delivered(j) => j \in mayHold' \cup Invites
  BY <1>0 DEF ListedInv, PlacesAgree, AttestedInv, RecordsAttest, Attests, Delivered
<1>2. ASSUME ops' = ops, dismissing' = dismissing,
             \A j \in Ids : attempts'[j].stage = attempts[j].stage
      PROVE  \A j \in Ids : Settles(j)' /\ Follows(j)
  <2>1. \A j \in Ids : Undisturbed(j)
    BY <1>0, <1>2 DEF Undisturbed, Has, Active
  <2> QED BY <1>0, <2>1, UndisturbedSettles
<1>3. CASE StatusSaved \/ RecoverSaved
  BY <1>2, <1>3 DEF StatusSaved, RecoverSaved
<1>4. CASE AttemptSaved
  <2>1. saving.id \in Ids
    BY <1>0, <1>4 DEF AttemptSaved, Job
  <2>2. \A j \in Ids : attempts'[j].stage = attempts[j].stage
    BY <1>0, <1>4, <2>1 DEF AttemptSaved, Told, Attempt
  <2> QED BY <1>2, <1>4, <2>2 DEF AttemptSaved
<1>5. CASE DismissSaved
  <2>1. saving.id \in Ids /\ saving.kind = "dismiss" /\ dismissing[saving.id] = "save"
    BY <1>0, <1>5 DEF DismissSaved, Job, FenceInv, SavesRely, ReliesWell
  <2>2. ASSUME NEW i \in Ids, i = saving.id PROVE \A j \in Ids : Undisturbed(j)
    <3>1. /\ attempts' = attempts /\ ops'[i].place = "absent" /\ dismissing'[i] = "none"
          /\ \A j \in Ids \ {i} : ops'[j] = ops[j] /\ dismissing'[j] = dismissing[j]
      BY <1>0, <1>5, <2>2 DEF DismissSaved, NoOp
    <3>2. Has(ops, i) => ops[i].delivery # "sending" \/ i \in mayHold' \cup Invites
      BY <1>0, <1>1, <2>1, <2>2 DEF Settles, Has, Op
    <3>3. \A j \in Ids \ {i} : Undisturbed(j)
      BY <1>0, <3>1 DEF Undisturbed, Has, Active
    <3>4. Undisturbed(i)
      BY <1>0, <3>1, <3>2 DEF Undisturbed, Has, Active
    <3> QED BY <3>3, <3>4
  <2> QED BY <1>0, <2>1, <2>2, UndisturbedSettles
<1>6. ASSUME NEW i \in Ids, ops' \in Released(ops, i), attempts' = attempts,
             \A j \in Ids : dismissing'[j] # "none" => dismissing[j] # "none"
      PROVE  \A j \in Ids : Settles(j)' /\ Follows(j)
  <2>1. \A j \in Ids : /\ Has(ops', j) => /\ Has(ops, j) /\ ops'[j].delivery = ops[j].delivery
                                          /\ ops'[j].place = "pending" => ops[j].place = "pending"
                       /\ Has(ops, j) /\ ~Has(ops', j) => Delivered(j)
    BY <1>0, <1>1, <1>6, ReleasedShows
  <2>2. \A j \in Ids : Undisturbed(j)
    BY <1>0, <1>1, <1>6, <2>1 DEF Undisturbed, Active
  <2> QED BY <1>0, <2>2, UndisturbedSettles
<1>7. CASE AcknowledgeSaved
  <2>1. saving.id \in Ids
    BY <1>0, <1>7 DEF AcknowledgeSaved, Job
  <2> QED BY <1>6, <1>7, <2>1 DEF AcknowledgeSaved
<1>8. CASE RetireSaved
  <2>1. /\ saving.kind = "retire" /\ saving.id \in Ids /\ saving.next \in Invites \cup {NoId}
        /\ saving.next \in Ids \cup {NoId} /\ saving.key \in Keys \cup {NoKey}
    BY <1>0, <1>8, OutboxAssumption DEF RetireSaved, Job
  <2>2. \A j \in Ids : dismissing'[j] # "none" => dismissing[j] # "none" /\ j # saving.id
    BY <1>0, <1>8, <2>1 DEF RetireSaved
  <2>3. CASE saving.next = NoId
    <3>1. ops' \in Released(ops, saving.id) /\ attempts' = attempts
      BY <1>8, <2>3 DEF RetireSaved
    <3> QED BY <1>6, <2>1, <2>2, <3>1
  <2>4. ASSUME NEW i \in Ids, i = saving.id, NEW n \in Ids, n = saving.next
        PROVE  \A j \in Ids : Settles(j)' /\ Follows(j)
    <3> DEFINE joined == [ops EXCEPT ![n] = Fresh(saving.key, FALSE)]
    <3>1. dismissing[i] = "save" /\ dismissing[n] = "none" /\ ~Active(n) /\ ~Has(ops, n)
      BY <1>0, <2>1, <2>4, OutboxAssumption DEF FenceInv, SavesRely, ReliesWell, Unknown
    <3>2. /\ ops' \in Released(joined, i)
          /\ attempts' = attempts \/ Schedule(n, "failed", "none", jobs)
      BY <1>8, <2>4, OutboxAssumption DEF RetireSaved
    <3>3. /\ joined \in [Ids -> Op] /\ joined[n].place = "pending" /\ i # n
          /\ joined[n].delivery = "sending"
          /\ \A j \in Ids \ {n} : joined[j] = ops[j]
      BY <1>0, <2>1, <3>1, InitialValues DEF Fresh, NoOp
    <3>4. n \notin Workflows
      BY <2>1, <2>4, OutboxAssumption
    <3>5. \A j \in Ids \ {n} : Active(j)' => /\ Active(j)
                                             /\ attempts[j].stage = "publish"
                                                  => attempts'[j].stage = "publish"
      <4>1. CASE Schedule(n, "failed", "none", jobs)
        <5> DEFINE att == [attempts EXCEPT ![n] = [stage |-> "queued", prev |-> "failed",
                                                   wait |-> "none"]]
        <5>1. \A j \in Ids \ {n} : att[j] = attempts[j]
          BY <1>0
        <5>2. Continues(att, jobs)
          BY <1>0, <4>1, ScheduleContinues DEF Deliveries
        <5> HIDE DEF att
        <5> QED BY <5>1, <5>2 DEF Continues, Active
      <4> QED BY <3>2, <4>1 DEF Active
    <3> HIDE DEF joined
    <3>6. joined[i].delivery = "seen" => Delivered(i)
      BY <1>1, <3>3
    <3>7. ASSUME NEW j \in Ids \ {n} PROVE Undisturbed(j)
      <4>1. joined[j].place = "confirmed" => Delivered(j)
        BY <1>1, <3>3
      <4>2. /\ Has(ops', j) => /\ Has(joined, j) /\ ops'[j].delivery = joined[j].delivery
                               /\ ops'[j].place = "pending" => joined[j].place = "pending"
            /\ Has(joined, j) /\ ~Has(ops', j) => Delivered(j)
        BY <3>2, <3>3, <3>6, <4>1, ReleasedShows
      <4>3. joined[j] = ops[j]
        BY <3>3
      <4> QED BY <1>0, <1>1, <2>2, <3>5, <4>2, <4>3 DEF Undisturbed, Has
    <3>8. Settles(n)' /\ Follows(n)
      <4>1. ops'[n].place = joined[n].place
        BY <3>2, <3>3, <3>6, ReleasedLists
      <4>2. Calmer(joined, ops') /\ NoOp.place = "absent"
        BY <3>2, <3>3, ReleasedCalms DEF NoOp
      <4>3. ops'[n].delivery = "sending" /\ Has(ops', n)
        BY <3>3, <4>1, <4>2 DEF Calmer, Has
      <4>4. dismissing'[n] = "none"
        BY <2>2, <3>1
      <4> QED BY <3>4, <4>3, <4>4 DEF Settles, Follows
    <3> QED BY <1>0, <3>7, <3>8, UndisturbedSettles
  <2> QED BY <2>1, <2>3, <2>4
<1> QED BY <1>3, <1>4, <1>5, <1>7, <1>8

\* A save that starts, or fails or is refused, changes no status.
LEMMA FailedShows ==
  ASSUME ListedInv', TypeOK, \A j \in Ids : Settles(j), SaveStarts \/ SaveFails \/ SaveRefused
  PROVE  \A j \in Ids : Settles(j)' /\ Follows(j)
<1>0. /\ attempts \in [Ids -> Attempt] /\ ops' = ops /\ mayHold' = mayHold
      /\ dismissing \in [Ids -> {"none", "lock", "verify", "save"}]
  BY DEF TypeOK, SaveStarts, SaveFails, SaveRefused, history
<1>1. ASSUME NEW job, NEW q, FailJob(job, q), NEW j \in Ids
      PROVE  /\ attempts'[j].stage = attempts[j].stage
             /\ dismissing'[j] # "none" => dismissing[j] # "none"
  BY <1>0, <1>1 DEF FailJob, Told, Attempt
<1>2. \A j \in Ids : /\ attempts'[j].stage = attempts[j].stage
                     /\ dismissing'[j] # "none" => dismissing[j] # "none"
  BY <1>0, <1>1 DEF SaveStarts, SaveFails, SaveRefused
<1>3. \A j \in Ids : Undisturbed(j)
  BY <1>0, <1>2 DEF Undisturbed, Has, Active
<1> QED BY <1>3, UndisturbedSettles


\* A revoked access hides what is settled; a dispose shows nothing new.
LEMMA RevokeShows ==
  ASSUME ListedInv, ListedInv', TypeOK, \A j \in Ids : Settles(j), Purge \/ Dispose
  PROVE  \A j \in Ids : Settles(j)' /\ Follows(j)
<1> USE DEF history, journalState, quietHistory
<1>0. Idle.stage = "idle" /\ NoOp.place = "absent" /\ ops \in [Ids -> Op]
  BY DEF Idle, NoOp, TypeOK
<1>1. CASE Purge
  <2>1. /\ UNCHANGED <<attempts, dismissing, mayHold>>
        /\ \A j \in Ids : \/ ops'[j] = ops[j]
                          \/ ops[j].place = "confirmed" /\ ops'[j].place = "absent"
    BY <1>0, <1>1 DEF Purge
  <2>2. \A j \in Ids : ops[j].place = "confirmed" => j \in mayHold' \cup Invites
    BY <2>1 DEF ListedInv, PlacesAgree, Delivered
  <2>3. \A j \in Ids : Undisturbed(j)
    BY <2>1, <2>2 DEF Undisturbed, Has, Active
  <2> QED BY <2>3, UndisturbedSettles
<1>2. CASE Dispose
  <2>1. /\ UNCHANGED <<ops, dismissing>> /\ \A j \in Ids : ~Active(j)'
    BY <1>0, <1>2 DEF Dispose, Active
  <2>2. \A j \in Ids : Undisturbed(j)
    BY <2>1 DEF Undisturbed, Has
  <2> QED BY <2>2, UndisturbedSettles
<1> QED BY <1>1, <1>2

\* Hydration shows of each event what its saved record showed, or drops it as settled.
LEMMA HydrateShows ==
  ASSUME ListedInv, AttestedInv, FenceInv', \A j \in Ids : Settles(j), Hydrate \/ HydrateFails
  PROVE  (\A j \in Ids : Settles(j)') /\ Evidence!EvidenceNext
<1> DEFINE merged == [j \in Ids |-> IF Has(disk, j) THEN Restored(j, disk[j]) ELSE ops[j]]
<1>0. /\ ops \in [Ids -> Op] /\ disk \in [Ids -> Op]
      /\ UNCHANGED <<attempts, disk, mayHold, dismissing, dismissed>>
      /\ journal = "loading"
  BY DEF AttestedInv, TypeOK, Hydrate, HydrateFails, history
<1>1. /\ mayHold \subseteq mayHold' /\ dismissed \subseteq dismissed'
      /\ \A i \in dismissed' : shownNow'[i] = "none"
  BY <1>0, GoneIsHidden
<1>2. CASE journal' = "broken" /\ ops' = ops
  <2>1. shownNow' = shownNow
    BY <1>0, <1>2 DEF shownNow, Has
  <2>2. Evidence!Progress
    BY <2>1 DEF Evidence!Progress, Evidence!StatusChanges
  <2>3. \A j \in Ids : Settles(j)'
    BY <1>0, <1>2 DEF Settles, Active
  <2> QED BY <1>1, <2>2, <2>3 DEF Evidence!EvidenceNext
<1>3. CASE journal' = "open" /\ ops' \in Trim(merged)
  <2>1. merged \in [Ids -> Op]
    BY <1>0, RestoredType
  <2>2. ASSUME NEW j \in Ids, Has(disk, j)
        PROVE  Has(merged, j) => /\ merged[j].delivery = Decoded(disk[j]).delivery
                                 /\ merged[j].delivery # "sending"
    <3>1. merged[j] = Restored(j, disk[j]) /\ disk[j].place # "absent" /\ disk[j] \in Op
      BY <1>0, <2>2 DEF Has
    <3>2. Decoded(disk[j]) \in Op /\ Decoded(disk[j]).delivery # "sending"
      BY <3>1 DEF Decoded, Op, Deliveries
    <3>3. \A place \in {"absent", "pending", "confirmed"} :
            [Decoded(disk[j]) EXCEPT !.place = place].delivery = Decoded(disk[j]).delivery
      BY <3>2 DEF Op
    <3> QED BY <3>1, <3>2, <3>3 DEF Restored, Has, NoOp
  <2>3. \A j \in Ids : ~Has(disk, j) => merged[j] = ops[j]
    OBVIOUS
  <2>4. \A j \in Ids : /\ Has(disk, j) => ~Has(ops, j) /\ ~Active(j)
                       /\ ops[j].place = "confirmed" => j \in mayHold' \cup Invites
                       /\ Active(j) => ops[j].place = "pending"
    BY <1>0 DEF ListedInv, OpensFirst, PlacesAgree, Has, Delivered
  <2> HIDE DEF merged
  <2>5. \A j \in Ids : \/ ops'[j] = merged[j]
                       \/ merged[j].place = "confirmed" /\ ~Has(ops', j)
    BY <1>3, <2>1, TrimSettles
  <2>6. ASSUME NEW j \in Ids PROVE Settles(j)'
    <3>1. CASE Has(disk, j)
      BY <1>0, <2>2, <2>4, <2>5, <3>1 DEF Settles, Active, Has
    <3>2. CASE ~Has(disk, j)
      BY <1>0, <2>3, <2>4, <2>5, <3>2 DEF Settles, Active, Has
    <3> QED BY <3>1, <3>2
  <2>7. ASSUME NEW j \in Ids PROVE Evidence!StatusChanges(j)
    <3>1. ShownOf(j) /\ ShownOf(j)'
      BY ShownCases
    <3>2. CASE Has(disk, j)
      <4>1. shownNow[j] = Decoded(disk[j]).delivery /\ shownNow[j] # "sending"
        BY <1>0, <2>4, <3>1, <3>2 DEF ShownOf, Decoded, Op, Deliveries
      <4>2. shownNow'[j] \in {shownNow[j], "none"}
        BY <1>3, <2>2, <2>5, <3>1, <3>2, <4>1 DEF ShownOf, Has
      <4> QED BY <4>1, <4>2 DEF Evidence!StatusChanges
    <3>3. CASE ~Has(disk, j)
      <4>1. ops'[j] = ops[j] \/ (ops[j].place = "confirmed" /\ ~Has(ops', j))
        BY <2>3, <2>5, <3>3
      <4>2. CASE ops'[j] = ops[j]
        BY <1>0, <3>1, <3>3, <4>2 DEF ShownOf, Has, Evidence!StatusChanges
      <4>3. CASE ops[j].place = "confirmed" /\ ~Has(ops', j)
        BY <1>3, <2>4, <3>1, <4>3 DEF ShownOf, Evidence!StatusChanges
      <4> QED BY <4>1, <4>2, <4>3
    <3> QED BY <3>2, <3>3
  <2> QED BY <1>1, <2>6, <2>7 DEF Evidence!EvidenceNext, Evidence!Progress
<1>4. \/ journal' = "broken" /\ ops' = ops
      \/ journal' = "open" /\ ops' \in Trim(merged)
  BY DEF Hydrate, HydrateFails
<1> QED BY <1>2, <1>3, <1>4

\* A restart shows what is saved: what was listed, settled history, or an addition.
LEMMA RestartShows ==
  ASSUME ListedInv, TypeOK, FenceInv', EvidenceInv', AttestedInv', Restart
  PROVE  (\A j \in Ids : Settles(j)') /\ Evidence!EvidenceNext
<1>0. Idle.stage = "idle" /\ NoOp.place = "absent"
  BY DEF Idle, NoOp
<1>1. /\ journal' = "loading" /\ mayHold \subseteq mayHold' /\ dismissed' = dismissed
      /\ \A j \in Ids : ~Has(ops', j) /\ ~Active(j)' /\ dismissing'[j] = "none"
      /\ disk' = disk \/ (disk' = captured /\ saving # NoJob)
  BY <1>0 DEF Restart, Empty, Has, Active
<1>2. \A j \in Ids : Settles(j)'
  BY <1>1 DEF Settles
<1>3. ASSUME NEW j \in Ids
      PROVE  /\ shownNow'[j] \notin {"sending", "accepted"}
             /\ Evidence!Justified(j, shownNow'[j])
             /\ shownNow[j] = "none" => \/ shownNow'[j] = "none"
                                        \/ j \in (mayHold \cup Invites) \ dismissed
  <2>1. ShownOf(j) /\ ShownOf(j)'
    BY ShownCases
  <2>2. CASE ~Has(disk', j)
    <3>1. shownNow'[j] = "none"
      BY <1>1, <2>1, <2>2 DEF ShownOf
    <3> QED BY <3>1 DEF Evidence!Justified
  <2>3. CASE Has(disk', j)
    <3>1. shownNow'[j] = Decoded(disk'[j]).delivery
      BY <1>1, <2>1, <2>3 DEF ShownOf
    <3>2. shownNow'[j] \notin {"sending", "accepted"}
      <4>1. disk'[j] \in Op
        BY DEF AttestedInv, TypeOK
      <4> QED BY <3>1, <4>1 DEF Decoded, Op
    <3>3. Evidence!Justified(j, shownNow'[j])
      BY <2>3, <3>1, ListedIsJustified
    <3>4. j \notin dismissed
      BY <1>1, <2>3 DEF FenceInv, GoneForGood
    <3>5. ASSUME shownNow[j] = "none" PROVE j \in mayHold \cup Invites
      <4>1. /\ ops[j] \in Op /\ Decoded(disk[j]).delivery # "none"
            /\ ops[j].delivery # "none"
        BY DEF TypeOK, Decoded, Op, Deliveries
      <4>2. ~Has(ops, j) /\ (journal = "open" \/ ~Has(disk, j))
        BY <2>1, <3>5, <4>1 DEF ShownOf
      <4>3. CASE disk' = disk
        BY <2>3, <4>2, <4>3 DEF ListedInv, SavedIsListed, Delivered
      <4>4. CASE disk' = captured /\ saving # NoJob
        <5>1. Replaces(saving, j) \/ Delivered(j)
          BY <2>3, <4>2, <4>4 DEF ListedInv, SavesKeep
        <5>2. Replaces(saving, j) => j \in Invites
          BY OutboxAssumption DEF TypeOK, Job, Replaces
        <5> QED BY <5>1, <5>2 DEF Delivered
      <4> QED BY <1>1, <4>3, <4>4
    <3> QED BY <3>2, <3>3, <3>4, <3>5
  <2> QED BY <2>2, <2>3
<1>4. Evidence!Reopen
  BY <1>3 DEF Evidence!Reopen
<1>5. /\ mayHold \subseteq mayHold' /\ dismissed \subseteq dismissed'
      /\ \A i \in dismissed' : shownNow'[i] = "none"
  BY <1>1, GoneIsHidden
<1> QED BY <1>2, <1>4, <1>5 DEF Evidence!EvidenceNext

\* The invariants every step of the refinement relies on.
Implementing == EvidenceInv /\ NobodyRecovers /\ FenceInv /\ AttestedInv /\ ListedInv

\* Steps that leave the journal as it is change the statuses as Follows allows.
LEMMA WindowShows ==
  ASSUME Implementing, Implementing', ShownInv, "recover" \notin Calls, Next,
         ~(Hydrate \/ HydrateFails \/ Restart)
  PROVE  \A j \in Ids : Settles(j)' /\ Follows(j)
<1>0. /\ TypeOK /\ EvidenceInv /\ NobodyRecovers /\ FenceInv /\ AttestedInv /\ ListedInv
      /\ ListedInv' /\ \A j \in Ids : Settles(j)
  BY DEF Implementing, FenceInv, ShownInv
<1>1. CASE \/ StatusSaved \/ AttemptSaved \/ DismissSaved \/ AcknowledgeSaved \/ RetireSaved
           \/ RecoverSaved
  BY <1>0, <1>1, SavedShows
<1>2. CASE SaveStarts \/ SaveFails \/ SaveRefused
  BY <1>0, <1>2, FailedShows
<1>3. ASSUME NEW i \in Ids, Deliver(i) PROVE \A j \in Ids : Settles(j)' /\ Follows(j)
  BY <1>0, <1>3, DeliverShows
<1>4. ASSUME NEW i \in Ids, Resolve(i) PROVE \A j \in Ids : Settles(j)' /\ Follows(j)
  BY <1>0, <1>4, ResolveShows
<1>5. CASE Compose
  BY <1>0, <1>5, ComposeShows
<1>6. CASE Purge \/ Dispose
  BY <1>0, <1>6, RevokeShows
<1> QED BY <1>1, <1>2, <1>3, <1>4, <1>5, <1>6 DEF Next, Journal, Session

\* Only hydration and a restart change whether the journal is open, and no dismissal
\* is withdrawn.
LEMMA WindowKeepsJournal ==
  ASSUME Next, ~(Hydrate \/ HydrateFails \/ Restart)
  PROVE  journal' = journal /\ dismissed \subseteq dismissed'
<1> USE DEF history, journalState, quietHistory
<1>1. CASE Journal
  BY <1>1 DEF Journal, SaveStarts, StatusSaved, AttemptSaved, DismissSaved,
     AcknowledgeSaved, RetireSaved, RecoverSaved, SaveFails, SaveRefused
<1>2. ASSUME NEW i \in Ids, Deliver(i) PROVE UNCHANGED <<journal, dismissed>>
  BY <1>2 DEF Deliver, IntentSaved, Signed, SignatureSaved, HoldEnds, PublishStarts,
     PublishAccepted, PublishRejected, PublishLost, FailsUnpublished, ExpiresQueued,
     ExpiresActive, Observe
<1>3. ASSUME NEW i \in Ids, Resolve(i) PROVE UNCHANGED <<journal, dismissed>>
  BY <1>3 DEF Resolve, Acknowledge, RetireStarts, RetireGivenUp, RetireVerified, Dismiss,
     DismissLocked, RecoverCalled, RecoverLocked, RecoverLoaded, RecoverLoadFails
<1>4. CASE Compose
  BY <1>4 DEF Compose, SendPlain, SendGuarded, Send, Withdraw, RetryPlain, RetryRenewed, Retry
<1>5. CASE Purge \/ Dispose
  BY <1>5 DEF Purge, Dispose
<1> QED BY <1>1, <1>2, <1>3, <1>4, <1>5 DEF Next, Session

\* Every step settles each event and is a step of DeliveryEvidence.
LEMMA ShownInductive ==
  ASSUME Implementing, Implementing', ShownInv, "recover" \notin Calls, [Next]_vars
  PROVE  ShownInv' /\ [Evidence!EvidenceNext]_(Evidence!evidence)
<1>0. /\ TypeOK /\ ListedInv /\ AttestedInv /\ FenceInv
      /\ EvidenceInv' /\ AttestedInv' /\ FenceInv' /\ \A j \in Ids : Settles(j)
  BY DEF Implementing, FenceInv, ShownInv
<1>1. CASE Hydrate \/ HydrateFails
  BY <1>0, <1>1, HydrateShows DEF ShownInv
<1>2. CASE Restart
  BY <1>0, <1>2, RestartShows DEF ShownInv
<1>3. CASE Next /\ ~(Hydrate \/ HydrateFails \/ Restart)
  <2>1. \A j \in Ids : Settles(j)' /\ Follows(j)
    BY <1>3, WindowShows
  <2>2. /\ journal' = journal /\ dismissed \subseteq dismissed' /\ mayHold \subseteq mayHold'
        /\ disk' = disk \/ journal = "open"
    <3>1. journal' = journal /\ dismissed \subseteq dismissed'
      BY <1>3, WindowKeepsJournal
    <3>2. mayHold \subseteq mayHold' /\ (disk' = disk \/ saving # NoJob)
      BY JournalIsWritten
    <3> QED BY <1>0, <3>1, <3>2 DEF ListedInv, OpensFirst
  <2>3. Evidence!EvidenceNext
    BY <1>0, <2>1, <2>2, FollowsImplements
  <2> QED BY <2>1, <2>3 DEF ShownInv
<1>4. CASE UNCHANGED vars
  <2>1. UNCHANGED <<ops, attempts, disk, journal, dismissing, dismissed, mayHold>>
    BY <1>4 DEF vars, memory, history
  <2>2. UNCHANGED Evidence!evidence
    BY <2>1 DEF Evidence!evidence, shownNow, Has
  <2>3. ShownInv'
    BY <1>0, <2>1 DEF ShownInv, Settles, Active
  <2> QED BY <2>2, <2>3
<1> QED BY <1>1, <1>2, <1>3, <1>4

\* Every behaviour of an outbox whose callers do not use recover() shows statuses the
\* way DeliveryEvidence allows, whatever crashes, failing saves, evictions and revoked
\* access it meets (outbox.ts:241, 327-356, 532-538, 667-690, 1108).
THEOREM RefinesEvidence ==
  ASSUME "recover" \notin Calls
  PROVE  Spec => ImplementsEvidence
<1>1. Init => ShownInv /\ Evidence!EvidenceInit
  <2> SUFFICES ASSUME Init PROVE ShownInv /\ Evidence!EvidenceInit
    OBVIOUS
  <2>1. Idle.stage = "idle" /\ NoOp.place = "absent"
    BY DEF Idle, NoOp
  <2>2. \A j \in Ids : ~Has(ops, j) /\ ~Has(disk, j) /\ ~Active(j) /\ dismissing[j] = "none"
    BY <2>1 DEF Init, Empty, Has, Active
  <2>3. shownNow = [i \in Ids |-> "none"]
    BY <2>2 DEF shownNow
  <2> QED BY <2>2, <2>3 DEF Init, ShownInv, Settles, Evidence!EvidenceInit
<1>2. Implementing /\ Implementing' /\ ShownInv /\ [Next]_vars
        => ShownInv' /\ [Evidence!EvidenceNext]_(Evidence!evidence)
  BY ShownInductive
<1>3. Spec => []Implementing
  <2>1. Spec => [](EvidenceInv /\ NobodyRecovers)
    BY EvidenceInvariant
  <2>2. EvidenceInv /\ NobodyRecovers /\ ListedInv /\ AttestedInv /\ FenceInv => Implementing
    BY DEF Implementing
  <2> QED BY <2>1, <2>2, ListedHolds, PTL
<1> QED BY <1>1, <1>2, <1>3, PTL DEF Spec, ImplementsEvidence, Evidence!EvidenceSpec
=============================================================================
