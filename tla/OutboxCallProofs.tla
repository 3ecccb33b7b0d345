-------------------------- MODULE OutboxCallProofs --------------------------
(***************************************************************************)
(* What the calls of an outbox promise until their outcome, proved for all *)
(* values of the constants with the last invariants of OutboxInvariant:    *)
(*   - a policy outlives a restart (PolicyInv), a recovery record is       *)
(*     given back with the save that releases it (ReleasedInv), a command  *)
(*     has one receipt (ReceiptInv), observers wait for what is open       *)
(*     (WorkInv);                                                          *)
(*   - a recovery key has one owner, unless an acknowledgement crosses a   *)
(*     retirement (KeysInv);                                               *)
(*   - without recover(): a dismissal spares what owns a source            *)
(*     (SparedInv), and no slot is idle or given twice (SlotsInv).         *)
(* The first two sections say what one step may do to a record and to a    *)
(* save; each invariant then follows from that.                            *)
(***************************************************************************)
EXTENDS OutboxEvidenceProofs, FiniteSetTheorems

----------------------------------------------------------------------------
\* What a step does to the record of an event.

\* It keeps it, but for what a delivery, a retry or an echo changes.
Stays(j) ==
  /\ Has(ops, j) /\ Has(ops', j)
  /\ ops[j].guarded => ops'[j].guarded
  /\ ops'[j].key = ops[j].key
  /\ ops'[j].place = "confirmed" => ops[j].place = "confirmed" \/ ops[j].key = NoKey
  /\ ops'[j].delivery # ops[j].delivery
       => Active(j) \/ dismissing[j] = "none" \/ j \in mayHold

\* The save that releases or removes the receipt is written.
Commit(j, kinds) == /\ saving.kind \in kinds /\ saving.id = j
                    /\ disk' = captured /\ saving' = NoJob
Release == {"acknowledge", "retire"}

\* It gives the recovery record back.
Clears(j) == /\ Commit(j, Release) /\ Has(ops, j) /\ Has(ops', j)
             /\ ops[j].guarded => ops'[j].guarded
             /\ ops'[j].key = NoKey

\* It removes the record, or there is none.
Leaves(j) ==
  /\ ~Has(ops', j) /\ ops'[j] \in {NoOp, ops[j]}
  /\ Has(ops, j) => \/ ops[j].place = "confirmed" \/ ops[j].key = NoKey
                    \/ Commit(j, Release \cup {"dismiss"}) \/ Restart

\* It adds one, of a send or of a replacement.
Arrives(j) ==
  /\ ~Has(ops, j)
  /\ \E k \in Keys \cup {NoKey}, g \in BOOLEAN :
       /\ ops'[j] = Fresh(k, g)
       /\ \/ j \in used' \ used /\ (j \in policed' => g)
          \/ Replaces(saving, j) /\ journal = "open" /\ saving' = NoJob

\* Hydration brings it, or recover() takes it from its item or the journal.
Returns(j) == /\ ~Has(ops, j) /\ Has(disk, j) /\ journal = "loading" /\ journal' = "open"
              /\ ops'[j] = Restored(j, disk[j])
TakesBack(j) == /\ recovering[j].stage = "load" /\ recovering'[j].stage = "save"
                /\ ops'[j].place = "pending" /\ ops'[j].key \in Keys
                /\ \/ Has(disk, j) /\ ops'[j].guarded = disk[j].guarded
                   \/ ops'[j].guarded = recovering[j].item.guarded

Changes(j) == Stays(j) \/ Clears(j) \/ Leaves(j) \/ Arrives(j) \/ Returns(j) \/ TakesBack(j)

\* A record that is not touched, or is evicted, changes as it may.
LEMMA SameChanges ==
  ASSUME NEW j \in Ids,
         ops'[j] = ops[j] \/ (ops[j].place = "confirmed" /\ ops'[j] = NoOp)
  PROVE  Changes(j)
<1>1. NoOp.place = "absent"
  BY DEF NoOp
<1> QED BY <1>1 DEF Changes, Stays, Leaves, Has

\* An eviction leaves no trace of the record.
LEMMA TrimEvicts ==
  ASSUME NEW o \in [Ids -> Op], NEW p \in Trim(o), NEW j \in Ids
  PROVE  p[j] = o[j] \/ (o[j].place = "confirmed" /\ p[j] = NoOp)
BY DEF Trim

\* The end of an attempt changes the records as it may.
LEMMA FinishChanges ==
  ASSUME TypeOK, NEW i \in Ids, NEW d \in Deliveries, Finish(i, d),
         Active(i), ops[i].place = "pending"
  PROVE  \A j \in Ids : Changes(j)
<1> DEFINE updated == [ops[i] EXCEPT !.delivery = d]
           done == Settled(i, updated)
           result == [ops EXCEPT ![i] = IF done THEN [updated EXCEPT !.place = "confirmed"]
                                                ELSE updated]
<1>0. ops \in [Ids -> Op] /\ ops[i] \in Op
  BY DEF TypeOK
<1>1. /\ updated \in Op /\ [updated EXCEPT !.place = "confirmed"] \in Op
      /\ updated.key = ops[i].key /\ updated.guarded = ops[i].guarded
      /\ updated.place = "pending"
  BY <1>0 DEF Op
<1>2. /\ result \in [Ids -> Op] /\ \A j \in Ids \ {i} : result[j] = ops[j]
      /\ result[i].key = ops[i].key /\ result[i].guarded = ops[i].guarded
      /\ result[i].place \in {"pending", "confirmed"}
      /\ result[i].place = "confirmed" => done
  BY <1>0, <1>1 DEF Op
<1>3. done => ops[i].key = NoKey
  BY <1>1 DEF Settled
<1>4. ops' \in (IF done THEN Trim(result) ELSE {result})
  BY DEF Finish
<1> HIDE DEF updated, done, result
<1>5. \A j \in Ids : \/ ops'[j] = result[j]
                     \/ result[j].place = "confirmed" /\ ops'[j] = NoOp
  BY <1>2, <1>4, TrimEvicts
<1>6. \A j \in Ids \ {i} : Changes(j)
  BY <1>2, <1>5, SameChanges
<1>7. Changes(i)
  <2>1. NoOp.place = "absent"
    BY DEF NoOp
  <2> QED BY <1>2, <1>3, <1>5, <2>1 DEF Changes, Stays, Leaves, Has
<1> QED BY <1>6, <1>7

\* So do all stages of an attempt, and its echo.
LEMMA DeliverChanges ==
  ASSUME TypeOK, ListedInv, NEW i \in Ids, Deliver(i)
  PROVE  \A j \in Ids : Changes(j)
<1> USE DEF history, journalState, quietHistory
<1>0. /\ ops \in [Ids -> Op] /\ ops[i] \in Op /\ attempts[i] \in Attempt
      /\ Active(i) => ops[i].place = "pending"
  BY DEF TypeOK, ListedInv, PlacesAgree
<1>1. CASE IntentSaved(i) \/ SignatureSaved(i) \/ HoldEnds(i) \/ PublishStarts(i)
  BY <1>1, SameChanges DEF IntentSaved, SignatureSaved, HoldEnds, PublishStarts
<1>2. ASSUME NEW o \in Op, ops' = [ops EXCEPT ![i] = o], Active(i) \/ ops[i].place = "pending",
             o.place = ops[i].place, o.key = ops[i].key, o.guarded = ops[i].guarded,
             o.delivery = ops[i].delivery \/ Active(i)
      PROVE  \A j \in Ids : Changes(j)
  BY <1>0, <1>2, SameChanges DEF Changes, Stays, Has
<1>3. CASE Signed(i)
  BY <1>0, <1>2, <1>3 DEF Signed, Active, Op
<1>4. CASE ExpiresQueued(i)
  <2>1. FailedDelivery(attempts[i].prev) \in Deliveries
    BY DeliveryType DEF TypeOK
  <2> QED BY <1>0, <1>2, <1>4, <2>1 DEF ExpiresQueued, Active, Op
<1>5. ASSUME NEW d \in Deliveries, Finish(i, d), Active(i)
      PROVE  \A j \in Ids : Changes(j)
  BY <1>0, <1>5, FinishChanges
<1>6. CASE PublishAccepted(i)
  BY <1>5, <1>6 DEF PublishAccepted, Deliveries, Active
<1>7. CASE PublishRejected(i) \/ PublishLost(i) \/ FailsUnpublished(i) \/ ExpiresActive(i)
  <2>1. \A u \in BOOLEAN : CaughtDelivery(i, u) \in Deliveries
    BY DeliveryType DEF TypeOK
  <2> QED BY <1>5, <1>7, <2>1
          DEF PublishRejected, PublishLost, FailsUnpublished, ExpiresActive, Active
<1>8. CASE Observe(i)
  <2> DEFINE seen == [ops[i] EXCEPT !.signed = TRUE, !.delivery = "seen"]
             kept == (i \in Workflows /\ Active(i)) \/ ops[i].key # NoKey
             result == [ops EXCEPT ![i] = IF kept THEN seen
                                          ELSE [seen EXCEPT !.place = "confirmed"]]
  <2>1. /\ ops' \in (IF kept THEN {result} ELSE Trim(result))
        /\ ops[i].place = "pending" /\ (i \in mayHold \/ Active(i))
    BY <1>8 DEF Observe, Active
  <2>2. /\ seen \in Op /\ [seen EXCEPT !.place = "confirmed"] \in Op
        /\ seen.key = ops[i].key /\ seen.guarded = ops[i].guarded /\ seen.place = ops[i].place
    BY <1>0 DEF Op, Deliveries
  <2>3. /\ result \in [Ids -> Op] /\ \A j \in Ids \ {i} : result[j] = ops[j]
        /\ result[i].key = ops[i].key /\ result[i].guarded = ops[i].guarded
        /\ result[i].place \in {"pending", "confirmed"}
        /\ result[i].place = "confirmed" => ops[i].key = NoKey
    BY <1>0, <2>1, <2>2 DEF Op
  <2> HIDE DEF kept, result
  <2>4. \A j \in Ids : \/ ops'[j] = result[j]
                       \/ result[j].place = "confirmed" /\ ops'[j] = NoOp
    BY <2>1, <2>3, TrimEvicts
  <2>5. \A j \in Ids \ {i} : Changes(j)
    BY <2>3, <2>4, SameChanges
  <2>6. NoOp.place = "absent"
    BY DEF NoOp
  <2>7. Changes(i)
    BY <2>1, <2>3, <2>4, <2>6 DEF Changes, Stays, Leaves, Has
  <2> QED BY <2>5, <2>7
<1> QED BY <1>1, <1>3, <1>4, <1>6, <1>7, <1>8 DEF Deliver

\* A send adds a record, and a retry changes only the delivery and the policy of one.
LEMMA ComposeChanges ==
  ASSUME TypeOK, FenceInv, policed \subseteq used, Compose
  PROVE  \A j \in Ids : Changes(j)
<1>0. ops \in [Ids -> Op]
  BY DEF TypeOK
<1>1. ASSUME NEW i \in Ids, NEW k \in Keys \cup {NoKey}, NEW g \in BOOLEAN, Send(i, k, g),
             i \in policed' => g
      PROVE  \A j \in Ids : Changes(j)
  <2>1. i \in used' \ used /\ ops' = [ops EXCEPT ![i] = Fresh(k, g)]
    BY <1>1 DEF Send
  <2>2. ~Has(ops, i)
    BY <2>1 DEF FenceInv, KnownIdsUsed
  <2>3. ops'[i] = Fresh(k, g) /\ \A j \in Ids \ {i} : ops'[j] = ops[j]
    BY <1>0, <2>1
  <2>4. Arrives(i)
    BY <1>1, <2>1, <2>2, <2>3 DEF Arrives
  <2> QED BY <2>3, <2>4, SameChanges DEF Changes
<1>2. ASSUME NEW i \in Ids, NEW g \in BOOLEAN, Retry(i, g)
      PROVE  \A j \in Ids : Changes(j)
  <2>1. /\ ops[i].place = "pending" /\ dismissing[i] = "none"
        /\ ops' = [ops EXCEPT ![i].delivery = "sending", ![i].guarded = @ \/ g]
    BY <1>2 DEF Retry
  <2>2. ops[i] \in Op
    BY <1>0
  <2>3. /\ \A j \in Ids \ {i} : ops'[j] = ops[j]
        /\ ops'[i].key = ops[i].key /\ ops'[i].place = "pending"
        /\ ops[i].guarded => ops'[i].guarded
    BY <1>0, <2>1, <2>2 DEF Op
  <2>4. Changes(i)
    BY <2>1, <2>3 DEF Changes, Stays, Has
  <2> QED BY <2>3, <2>4, SameChanges
<1>3. CASE Withdraw
  BY <1>3, SameChanges DEF Withdraw
<1>4. CASE SendPlain
  <2>1. PICK i \in Ids, k \in Keys \cup {NoKey} : Send(i, k, FALSE)
    BY <1>4 DEF SendPlain
  <2>2. i \notin policed'
    BY <2>1 DEF Send
  <2> QED BY <1>1, <2>1, <2>2
<1>5. CASE SendGuarded
  BY <1>1, <1>5, OutboxAssumption DEF SendGuarded
<1>6. CASE RetryPlain \/ RetryRenewed
  BY <1>2, <1>6, OutboxAssumption DEF RetryPlain, RetryRenewed
<1> QED BY <1>3, <1>4, <1>5, <1>6 DEF Compose

\* Of the calls that resolve a receipt only recover() changes a record, to the one it
\* read before or after its load.
LEMMA ResolveChanges ==
  ASSUME TypeOK, NEW i \in Ids, Resolve(i)
  PROVE  \A j \in Ids : Changes(j)
<1> USE DEF history, journalState
<1>0. /\ ops \in [Ids -> Op] /\ disk \in [Ids -> Op]
      /\ recovering \in [Ids -> Recovering]
  BY DEF TypeOK
<1>1. ASSUME ops' = ops PROVE \A j \in Ids : Changes(j)
  BY <1>1, SameChanges
<1>2. CASE RecoverLoaded(i)
  <2> DEFINE item == IF Has(disk, i) /\ i \in restored THEN disk[i] ELSE recovering[i].item
             k == recovering[i].key
             taken == [item EXCEPT !.place = "pending", !.key = k]
  <2>1. /\ recovering[i].stage = "load"
        /\ \/ ops' = ops
           \/ /\ ops' = [ops EXCEPT ![i] = taken]
              /\ recovering' = [recovering EXCEPT ![i].stage = "save", ![i].item = NoOp]
    BY <1>2 DEF RecoverLoaded
  <2>2. k \in Keys /\ recovering[i].item \in Op
    BY <1>0, <2>1 DEF Recovering
  <2>3. taken.place = "pending" /\ taken.key = k /\ taken.guarded = item.guarded
    BY <1>0, <2>2 DEF Op
  <2>4. CASE /\ ops' = [ops EXCEPT ![i] = taken]
             /\ recovering' = [recovering EXCEPT ![i].stage = "save", ![i].item = NoOp]
    <3> HIDE DEF taken
    <3>1. ops'[i] = taken /\ \A j \in Ids \ {i} : ops'[j] = ops[j]
      BY <1>0, <2>4
    <3>2. recovering'[i].stage = "save"
      <4>1. recovering[i] \in Recovering
        BY <1>0
      <4>2. [[recovering[i] EXCEPT !.stage = "save"] EXCEPT !.item = NoOp].stage = "save"
        BY <4>1 DEF Recovering
      <4> QED BY <1>0, <2>4, <4>2
    <3>3. Changes(i)
      BY <2>1, <2>2, <2>3, <3>1, <3>2 DEF Changes, TakesBack
    <3> QED BY <3>1, <3>3, SameChanges
  <2> QED BY <1>1, <2>1, <2>4
<1>3. CASE ~RecoverLoaded(i)
  BY <1>1, <1>3 DEF Resolve, Acknowledge, RetireStarts, RetireGivenUp, RetireVerified, Dismiss,
     DismissLocked, RecoverCalled, RecoverLocked, RecoverLoadFails
<1> QED BY <1>2, <1>3

\* A saved acknowledgement clears the key of its receipt, which may then be evicted.
LEMMA ReleasedChanges ==
  ASSUME NEW o \in [Ids -> Op], NEW i \in Ids, NEW p \in Released(o, i)
  PROVE  /\ \A j \in Ids \ {i} : \/ p[j] = o[j]
                                 \/ o[j].place = "confirmed" /\ p[j] = NoOp
         /\ \/ p[i] = NoOp /\ Has(o, i)
            \/ /\ Has(o, i) /\ Has(p, i)
               /\ p[i].key = NoKey /\ p[i].guarded = o[i].guarded
               /\ p[i].delivery = o[i].delivery
               /\ p[i].place = "confirmed" \/ p[i].place = o[i].place
            \/ ~Has(o, i) /\ p[i] = o[i]
<1> DEFINE cleared == Acknowledged(o, i)
           moved == [cleared EXCEPT ![i].place = "confirmed"]
<1>1. /\ cleared \in [Ids -> Op] /\ \A j \in Ids \ {i} : cleared[j] = o[j]
      /\ Has(o, i) => /\ cleared[i].key = NoKey /\ cleared[i].guarded = o[i].guarded
                      /\ cleared[i].delivery = o[i].delivery
                      /\ cleared[i].place = o[i].place
      /\ ~Has(o, i) => cleared[i] = o[i]
  <2>1. cleared \in [Ids -> Op]
    BY AcknowledgedType
  <2> QED BY <2>1 DEF Acknowledged, Op
<1>2. [cleared[i] EXCEPT !.place = "confirmed"] \in Op
  BY <1>1 DEF Op
<1>3. /\ moved \in [Ids -> Op] /\ \A j \in Ids \ {i} : moved[j] = cleared[j]
      /\ moved[i].place = "confirmed" /\ moved[i].key = cleared[i].key
      /\ moved[i].guarded = cleared[i].guarded /\ moved[i].delivery = cleared[i].delivery
  BY <1>1, <1>2 DEF Op
<1>4. p = cleared \/ (Has(o, i) /\ p \in Trim(moved))
  BY DEF Released
<1> HIDE DEF cleared, moved
<1>5. CASE p = cleared
  BY <1>1, <1>5 DEF Has
<1>6. CASE Has(o, i) /\ p \in Trim(moved)
  <2>1. \A j \in Ids : p[j] = moved[j] \/ (moved[j].place = "confirmed" /\ p[j] = NoOp)
    BY <1>3, <1>6, TrimEvicts
  <2> QED BY <1>1, <1>3, <1>6, <2>1 DEF Has
<1> QED BY <1>4, <1>5, <1>6

\* A save that ends changes the receipts it commits.
LEMMA SavedChanges ==
  ASSUME TypeOK, FenceInv, ListedInv, \/ StatusSaved \/ AttemptSaved \/ DismissSaved
                           \/ AcknowledgeSaved \/ RetireSaved \/ RecoverSaved
  PROVE  \A j \in Ids : Changes(j)
<1>0. /\ ops \in [Ids -> Op] /\ saving \in Job /\ disk' = captured /\ saving' = NoJob
      /\ saving.kind # "none"
  BY DEF TypeOK, StatusSaved, AttemptSaved, DismissSaved, AcknowledgeSaved, RetireSaved,
         RecoverSaved, Written
<1>1. CASE StatusSaved \/ AttemptSaved \/ RecoverSaved
  BY <1>1, SameChanges DEF StatusSaved, AttemptSaved, RecoverSaved
<1>2. CASE DismissSaved
  <2>1. /\ saving.kind = "dismiss" /\ saving.id \in Ids /\ NoOp.place = "absent"
        /\ ops' = [ops EXCEPT ![saving.id] = NoOp]
    BY <1>0, <1>2 DEF DismissSaved, Job, NoOp
  <2>2. ops'[saving.id] = NoOp /\ \A j \in Ids \ {saving.id} : ops'[j] = ops[j]
    BY <1>0, <2>1
  <2>3. Changes(saving.id)
    BY <1>0, <2>1, <2>2 DEF Changes, Leaves, Commit, Has
  <2> QED BY <2>2, <2>3, SameChanges
<1>3. ASSUME NEW o \in [Ids -> Op], saving.kind \in Release, saving.id \in Ids,
             ops' \in Released(o, saving.id), o[saving.id] = ops[saving.id]
      PROVE  /\ Changes(saving.id)
             /\ \A j \in Ids \ {saving.id} :
                  \/ ops'[j] = o[j]
                  \/ o[j].place = "confirmed" /\ ops'[j] = NoOp
  <2>1. NoOp.place = "absent"
    BY DEF NoOp
  <2>2. /\ \A j \in Ids \ {saving.id} : \/ ops'[j] = o[j]
                                        \/ o[j].place = "confirmed" /\ ops'[j] = NoOp
        /\ \/ ops'[saving.id] = NoOp /\ Has(o, saving.id)
           \/ /\ Has(o, saving.id) /\ Has(ops', saving.id)
              /\ ops'[saving.id].key = NoKey
              /\ ops'[saving.id].guarded = o[saving.id].guarded
           \/ ~Has(o, saving.id) /\ ops'[saving.id] = o[saving.id]
    BY <1>3, ReleasedChanges
  <2>3. Changes(saving.id)
    BY <1>0, <1>3, <2>1, <2>2 DEF Changes, Leaves, Clears, Commit, Has
  <2> QED BY <2>2, <2>3
<1>4. CASE AcknowledgeSaved
  <2>1. saving.kind = "acknowledge" /\ saving.id \in Ids /\ ops' \in Released(ops, saving.id)
    BY <1>0, <1>4 DEF AcknowledgeSaved, Job
  <2> QED BY <1>0, <1>3, <2>1, SameChanges DEF Release
<1>5. CASE RetireSaved
  <2>1. /\ saving.kind = "retire" /\ saving.id \in Ids /\ saving.key \in Keys \cup {NoKey}
        /\ saving.next \in Ids \cup {NoId}
    BY <1>0, <1>5, OutboxAssumption DEF RetireSaved, Job
  <2>2. CASE saving.next = NoId
    BY <1>0, <1>3, <1>5, <2>1, <2>2, SameChanges DEF RetireSaved, Release
  <2>3. CASE saving.next # NoId
    <3> DEFINE n == saving.next
               o == [ops EXCEPT ![n] = Fresh(saving.key, FALSE)]
    <3>1. ops' \in Released(o, saving.id) /\ n \in Ids
      BY <1>5, <2>1, <2>3 DEF RetireSaved
    <3>2. Unknown(n) /\ dismissing[saving.id] = "save" /\ n # saving.id
      BY <2>1, <2>3 DEF FenceInv, SavesRely, ReliesWell, Unknown
    <3>3. Fresh(saving.key, FALSE) \in Op /\ Fresh(saving.key, FALSE).place = "pending"
      BY <2>1, InitialValues DEF Fresh, NoOp
    <3>4. /\ o \in [Ids -> Op] /\ o[n] = Fresh(saving.key, FALSE)
          /\ \A j \in Ids \ {n} : o[j] = ops[j]
      BY <1>0, <3>1, <3>3
    <3>5. journal = "open"
      BY <1>0 DEF ListedInv, OpensFirst, NoJob, JobOf
    <3> HIDE DEF n, o
    <3>6. Changes(saving.id) /\ \A j \in Ids \ {saving.id} :
                                  \/ ops'[j] = o[j]
                                  \/ o[j].place = "confirmed" /\ ops'[j] = NoOp
      BY <1>3, <2>1, <3>1, <3>2, <3>4 DEF Release
    <3>7. Changes(n)
      <4>1. ops'[n] = Fresh(saving.key, FALSE)
        BY <3>1, <3>2, <3>3, <3>4, <3>6
      <4>2. ~Has(ops, n) /\ Replaces(saving, n)
        BY <2>1, <3>2 DEF Unknown, Replaces, n
      <4>3. saving.key \in Keys \cup {NoKey} /\ FALSE \in BOOLEAN
        BY <2>1
      <4> QED BY <1>0, <3>1, <3>5, <4>1, <4>2, <4>3 DEF Changes, Arrives
    <3>8. \A j \in Ids \ {saving.id, n} : Changes(j)
      BY <3>4, <3>6, SameChanges
    <3> QED BY <3>6, <3>7, <3>8
  <2> QED BY <2>2, <2>3
<1> QED BY <1>1, <1>2, <1>4, <1>5

\* Hydration brings what is saved, or evicts.
LEMMA HydrateChanges ==
  ASSUME TypeOK, ListedInv, Hydrate
  PROVE  \A j \in Ids : Changes(j)
<1> DEFINE merged == [j \in Ids |-> IF Has(disk, j) THEN Restored(j, disk[j]) ELSE ops[j]]
<1>0. /\ ops \in [Ids -> Op] /\ disk \in [Ids -> Op] /\ journal = "loading"
      /\ \A j \in Ids : Has(disk, j) => ~Has(ops, j)
  BY DEF TypeOK, Hydrate, ListedInv, OpensFirst
<1>1. CASE ops' = ops
  BY <1>1, SameChanges
<1>2. CASE journal' = "open" /\ ops' \in Trim(merged)
  <2>1. merged \in [Ids -> Op]
    BY <1>0, RestoredType
  <2>2. \A j \in Ids : merged[j] = IF Has(disk, j) THEN Restored(j, disk[j]) ELSE ops[j]
    OBVIOUS
  <2> HIDE DEF merged
  <2>3. \A j \in Ids : ops'[j] = merged[j] \/ (merged[j].place = "confirmed" /\ ops'[j] = NoOp)
    BY <1>2, <2>1, TrimEvicts
  <2>4. ASSUME NEW j \in Ids, Has(disk, j) PROVE Changes(j)
    <3>1. NoOp.place = "absent"
      BY DEF NoOp
    <3> QED BY <1>0, <1>2, <2>2, <2>3, <2>4, <3>1 DEF Changes, Returns, Leaves, Has
  <2> QED BY <2>2, <2>3, <2>4, SameChanges
<1> QED BY <1>1, <1>2 DEF Hydrate

\* A revoked access drops confirmed events, and a restart forgets what is shown.
LEMMA SessionChanges ==
  ASSUME TypeOK, Session
  PROVE  \A j \in Ids : Changes(j)
<1>1. CASE Purge
  BY <1>1, SameChanges DEF Purge
<1>2. CASE Dispose
  BY <1>2, SameChanges DEF Dispose
<1>3. CASE Restart
  <2>1. NoOp.place = "absent"
    BY DEF NoOp
  <2> QED BY <1>3, <2>1 DEF Restart, Changes, Leaves, Has, Empty
<1> QED BY <1>1, <1>2, <1>3 DEF Session

\* Every step changes every record as it may.
LEMMA NextChanges ==
  ASSUME TypeOK, FenceInv, ListedInv, policed \subseteq used, [Next]_vars
  PROVE  \A j \in Ids : Changes(j)
<1>1. CASE HydrateFails \/ SaveStarts \/ SaveFails \/ SaveRefused
  BY <1>1, SameChanges DEF HydrateFails, SaveStarts, SaveFails, SaveRefused
<1>2. CASE Journal
  BY <1>1, <1>2, HydrateChanges, SavedChanges DEF Journal
<1>3. ASSUME NEW i \in Ids, Deliver(i) \/ Resolve(i) PROVE \A j \in Ids : Changes(j)
  BY <1>3, DeliverChanges, ResolveChanges
<1>4. CASE Compose \/ Session
  BY <1>4, ComposeChanges, SessionChanges
<1>5. CASE UNCHANGED vars
  BY <1>5, SameChanges DEF vars, memory
<1> QED BY <1>2, <1>3, <1>4, <1>5 DEF Next

----------------------------------------------------------------------------
\* What a step does to the saves, and to the histories.

\* A verified retirement is queued, with the key of its receipt for a new replacement.
Retires(job) ==
  /\ job.kind = "retire" /\ dismissing[job.id] = "verify" /\ journal = "open"
  /\ UNCHANGED <<ops, restored, journal, policed>>
  /\ job.next \in Ids => /\ job.next \in used' \ used
                         /\ Has(ops, job.id) /\ job.key = ops[job.id].key /\ job.key # NoKey

\* It adds no dismissal but a locked one, and no retirement but a verified one.
Queues == \A n \in DOMAIN jobs' :
  \/ jobs'[n].kind \notin {"dismiss", "retire"}
  \/ \E m \in DOMAIN jobs : jobs'[n] = jobs[m]
  \/ jobs'[n].kind = "dismiss" /\ dismissing[jobs'[n].id] = "lock" /\ UNCHANGED <<ops, disk>>
  \/ Retires(jobs'[n])

\* The save that runs goes on, ends, or is the first of the queue.
Runs ==
  \/ UNCHANGED <<saving, captured>>
  \/ saving' = NoJob /\ captured' = Empty
  \/ \E job \in Job : /\ \E m \in DOMAIN jobs : jobs[m] = job
                      /\ saving' = job /\ captured' = Capture(job)
                      /\ journal = "open" /\ saving = NoJob
                      /\ UNCHANGED <<ops, disk, policed, journal>>

\* Quiet steps queue what they may.
LEMMA QuietQueues ==
  ASSUME Quiet(jobs, jobs')
  PROVE  Queues
BY DEF Quiet, Queues, Weighty

\* So does one more save of its own.
LEMMA AppendQueuesIt ==
  ASSUME jobs \in Seq(Job), NEW job \in Job, jobs' = Append(jobs, job),
         \/ job.kind \notin {"dismiss", "retire"}
         \/ job.kind = "dismiss" /\ dismissing[job.id] = "lock" /\ UNCHANGED <<ops, disk>>
         \/ Retires(job)
  PROVE  Queues
<1>1. \A n \in DOMAIN jobs' : (n \in DOMAIN jobs /\ jobs'[n] = jobs[n]) \/ jobs'[n] = job
  OBVIOUS
<1> QED BY <1>1 DEF Queues

\* The stages of an attempt queue saves of their own, and start none.
LEMMA DeliverQueues ==
  ASSUME TypeOK, NEW i \in Ids, Deliver(i)
  PROVE  Queues
<1> USE DEF history, journalState, quietHistory
<1>0. /\ attempts \in [Ids -> Attempt] /\ jobs \in Seq(Job) /\ PushStatus(jobs) \in Seq(Job)
      /\ JobOf("attempt", i, NoId, NoKey) \in Job
      /\ JobOf("attempt", i, NoId, NoKey).kind \notin Weighty
      /\ Quiet(jobs, jobs) /\ Quiet(jobs, PushStatus(jobs))
  BY PushStatusType, PushQuiet, IntentJob DEF TypeOK, Quiet, JobOf, Weighty
<1>1. CASE IntentSaved(i) \/ Signed(i)
  BY <1>0, <1>1, AppendQuiet, QuietQueues DEF IntentSaved, Signed
<1>2. CASE SignatureSaved(i)
  BY <1>0, <1>2, PumpQuiet, QuietQueues DEF SignatureSaved
<1>3. CASE HoldEnds(i) \/ PublishStarts(i) \/ ExpiresQueued(i)
  BY <1>0, <1>3, QuietQueues DEF HoldEnds, PublishStarts, ExpiresQueued
<1>4. ASSUME NEW d \in Deliveries, Finish(i, d) PROVE Queues
  BY <1>4, FinishQuiet, QuietQueues
<1>5. CASE PublishAccepted(i)
  BY <1>4, <1>5 DEF PublishAccepted, Deliveries
<1>6. CASE PublishRejected(i) \/ PublishLost(i) \/ FailsUnpublished(i) \/ ExpiresActive(i)
  <2>1. \A u \in BOOLEAN : CaughtDelivery(i, u) \in Deliveries
    BY DeliveryType DEF TypeOK
  <2> QED BY <1>4, <1>6, <2>1
          DEF PublishRejected, PublishLost, FailsUnpublished, ExpiresActive
<1>7. CASE Observe(i)
  <2>1. \/ jobs' = PushStatus(jobs)
        \/ \E o : Pump([attempts EXCEPT ![i] = Idle], PushStatus(jobs), o)
    BY <1>7 DEF Observe
  <2> QED BY <1>0, <2>1, PumpQuiet, QuietTwice, QuietQueues
<1> QED BY <1>1, <1>2, <1>3, <1>5, <1>6, <1>7 DEF Deliver

\* So do sends and retries.
LEMMA ComposeQueues ==
  ASSUME TypeOK, Compose
  PROVE  Queues
<1>0. jobs \in Seq(Job) /\ attempts \in [Ids -> Attempt] /\ ops \in [Ids -> Op]
  BY DEF TypeOK
<1>1. ASSUME NEW i \in Ids, NEW k, NEW g, Send(i, k, g) PROVE Queues
  <2> DEFINE job == JobOf("attempt", i, NoId, NoKey)
  <2>1. job \in Job /\ job.kind \notin Weighty
    BY IntentJob DEF JobOf, Weighty
  <2>2. Schedule(i, "failed", "pending", Append(jobs, job))
    BY <1>1 DEF Send
  <2> HIDE DEF job
  <2>3. Append(jobs, job) \in Seq(Job) /\ Quiet(jobs, Append(jobs, job))
    BY <1>0, <2>1, AppendQuiet
  <2> QED BY <1>0, <2>2, <2>3, ScheduleQuiet, QuietTwice, QuietQueues DEF Deliveries
<1>2. ASSUME NEW i \in Ids, NEW g, Retry(i, g) PROVE Queues
  <2>1. Schedule(i, ops[i].delivery, "none", jobs) /\ ops[i].delivery \in Deliveries
    BY <1>0, <1>2 DEF Retry, Op
  <2> QED BY <1>0, <2>1, ScheduleQuiet, QuietQueues
<1>3. CASE Withdraw
  BY <1>3 DEF Withdraw, Queues
<1> QED BY <1>1, <1>2, <1>3, OutboxAssumption
        DEF Compose, SendPlain, SendGuarded, RetryPlain, RetryRenewed

\* A resolution queues a dismissal under its lock, a retirement with a new replacement,
\* or another save.
LEMMA ResolveQueues ==
  ASSUME TypeOK, NEW i \in Ids, Resolve(i)
  PROVE  Queues
<1> USE DEF history, journalState
<1>0. /\ jobs \in Seq(Job) /\ NoId \notin Ids /\ ops[i] \in Op
      /\ recovering[i] \in Recovering /\ Invites \subseteq Ids
  BY OutboxAssumption DEF TypeOK
<1>1. CASE Acknowledge(i)
  BY <1>0, <1>1, IntentJob, AppendQueuesIt DEF Acknowledge, JobOf
<1>2. CASE DismissLocked(i)
  <2>1. JobOf("dismiss", i, NoId, NoKey) \in Job
    BY IntentJob
  <2> QED BY <1>0, <1>2, <2>1, AppendQueuesIt DEF DismissLocked, JobOf
<1>3. CASE RetireVerified(i)
  <2>1. \/ jobs' = Append(jobs, JobOf("retire", i, NoId, NoKey))
        \/ \E n \in Invites \ used : /\ jobs' = Append(jobs, JobOf("retire", i, n, ops[i].key))
                                     /\ used' = used \cup {n}
    BY <1>3 DEF RetireVerified
  <2>4. /\ UNCHANGED <<ops, restored, journal, policed>> /\ dismissing[i] = "verify"
        /\ journal = "open" /\ Has(ops, i) /\ ops[i].key # NoKey
    BY <1>3 DEF RetireVerified, Retirable, Has
  <2>2. CASE jobs' = Append(jobs, JobOf("retire", i, NoId, NoKey))
    <3>1. JobOf("retire", i, NoId, NoKey) \in Job
      BY DEF Job, JobOf
    <3>2. Retires(JobOf("retire", i, NoId, NoKey))
      BY <1>0, <2>4 DEF Retires, JobOf
    <3> QED BY <1>0, <2>2, <3>1, <3>2, AppendQueuesIt
  <2>3. ASSUME NEW n \in Invites \ used, used' = used \cup {n},
               jobs' = Append(jobs, JobOf("retire", i, n, ops[i].key))
        PROVE  Queues
    <3>1. JobOf("retire", i, n, ops[i].key) \in Job
      BY <1>0 DEF Job, JobOf, Op
    <3>2. n \in used' \ used
      BY <2>3
    <3>3. Retires(JobOf("retire", i, n, ops[i].key))
      BY <2>4, <3>2 DEF Retires, JobOf
    <3> QED BY <1>0, <2>3, <3>1, <3>3, AppendQueuesIt
  <2> QED BY <2>1, <2>2, <2>3
<1>4. CASE RecoverLoaded(i)
  <2>1. CASE jobs' = jobs
    BY <2>1 DEF Queues
  <2>2. CASE jobs' = Append(jobs, JobOf("recover", i, NoId, recovering[i].key))
    <3>1. recovering[i].stage = "load"
      BY <1>4 DEF RecoverLoaded
    <3>2. JobOf("recover", i, NoId, recovering[i].key) \in Job
      BY <1>0, <3>1 DEF Job, JobOf, Recovering
    <3> QED BY <1>0, <2>2, <3>2, AppendQueuesIt DEF JobOf
  <2> QED BY <1>4, <2>1, <2>2 DEF RecoverLoaded
<1>5. CASE jobs' = jobs
  BY <1>5 DEF Queues
<1> QED BY <1>1, <1>2, <1>3, <1>4, <1>5
        DEF Resolve, RetireStarts, RetireGivenUp, Dismiss, RecoverCalled, RecoverLocked,
            RecoverLoadFails

\* The journal takes saves from the queue, and schedules a replacement.
LEMMA JournalQueues ==
  ASSUME TypeOK, FenceInv, Journal
  PROVE  Queues
<1> USE DEF history
<1>0. jobs \in Seq(Job) /\ attempts \in [Ids -> Attempt] /\ saving \in Job
  BY DEF TypeOK
<1>1. CASE jobs' = jobs
  BY <1>1 DEF Queues
<1>2. CASE jobs # <<>> /\ jobs' = Tail(jobs)
  <2>1. \A n \in DOMAIN jobs' : n + 1 \in DOMAIN jobs /\ jobs'[n] = jobs[n + 1]
    BY <1>0, <1>2, TailFacts
  <2> QED BY <2>1 DEF Queues
<1>3. CASE RetireSaved /\ saving.next # NoId /\ Schedule(saving.next, "failed", "none", jobs)
  <2>1. saving.next \in Ids
    BY <1>0, <1>3, OutboxAssumption DEF RetireSaved, Job
  <2> QED BY <1>0, <1>3, <2>1, ScheduleQuiet, QuietQueues DEF Deliveries
<1> QED BY <1>1, <1>2, <1>3
        DEF Journal, Hydrate, HydrateFails, SaveStarts, StatusSaved, AttemptSaved,
            DismissSaved, AcknowledgeSaved, RetireSaved, RecoverSaved, SaveFails, SaveRefused

\* Every step queues what it may.
LEMMA NextQueues ==
  ASSUME TypeOK, FenceInv, [Next]_vars
  PROVE  Queues
<1>1. CASE Session
  <2>1. jobs \in Seq(Job)
    BY DEF TypeOK
  <2>2. jobs' = PushStatus(jobs) \/ jobs' = jobs \/ jobs' = <<>>
    BY <1>1 DEF Session, Purge, Dispose, Restart
  <2>3. Quiet(jobs, jobs) /\ Quiet(jobs, <<>>)
    BY DEF Quiet
  <2> QED BY <2>1, <2>2, <2>3, PushQuiet, QuietQueues
<1>2. CASE UNCHANGED vars
  BY <1>2 DEF vars, memory, Queues
<1>3. ASSUME NEW i \in Ids, Deliver(i) \/ Resolve(i) PROVE Queues
  BY <1>3, DeliverQueues, ResolveQueues
<1> QED BY <1>1, <1>2, <1>3, JournalQueues, ComposeQueues DEF Next

\* What is used, policed and dismissed grows with sends and dismissals; recover() reads a
\* listed record, dismiss() fences one that is not delivered and spares sources, and a
\* journal is only loaded again after a restart.
Remembered ==
  /\ used \subseteq used' /\ policed \subseteq policed'
  /\ \A j \in policed' \ policed : j \in used' \ used
  /\ \A j \in dismissed' \ dismissed : saving.kind = "dismiss" /\ saving.id = j
  /\ \A j \in Ids :
       recovering'[j].stage = "load" => \/ recovering'[j] = recovering[j]
                                        \/ /\ Has(ops, j) /\ recovering'[j].item = ops[j]
                                           /\ ops' = ops
  /\ \A j \in Ids :
       dismissing'[j] = "lock" => \/ dismissing[j] = "lock"
                                  \/ /\ Has(ops, j) /\ ~Active(j)
                                     /\ ops[j].key # NoKey => ops[j].delivery = "failed"
                                     /\ UNCHANGED <<ops, disk, journal>>
  /\ journal' = "loading" => journal = "loading" \/ Restart

\* A failed save remembers.
LEMMA FailRemembers ==
  ASSUME TypeOK, NEW job, NEW q, FailJob(job, q),
         UNCHANGED <<used, policed, dismissed, journal>>
  PROVE  Remembered
<1>1. \A j \in Ids : /\ recovering'[j] \in {recovering[j], NotRecovering}
                     /\ dismissing'[j] \in {dismissing[j], "none"}
  BY DEF FailJob, TypeOK
<1>2. NotRecovering.stage = "idle"
  BY DEF NotRecovering
<1> QED BY <1>1, <1>2 DEF Remembered

\* Every step does what it may to the save that runs and to the histories.
LEMMA NextRuns ==
  ASSUME TypeOK, [Next]_vars
  PROVE  Runs /\ Remembered
<1> USE DEF history, journalState, quietHistory
<1>0. /\ recovering \in [Ids -> Recovering]
      /\ dismissing \in [Ids -> {"none", "lock", "verify", "save"}]
      /\ NotRecovering.stage = "idle" /\ jobs \in Seq(Job)
  BY DEF TypeOK, NotRecovering
<1>1. CASE SaveStarts
  <2>1. /\ Head(jobs) \in Job /\ saving' = Head(jobs) /\ captured' = Capture(Head(jobs))
        /\ 1 \in DOMAIN jobs /\ jobs[1] = Head(jobs) /\ journal = "open" /\ saving = NoJob
        /\ UNCHANGED <<ops, disk, policed, journal>>
    BY <1>0, <1>1, TailFacts DEF SaveStarts
  <2>2. Runs
    BY <2>1 DEF Runs
  <2>3. Remembered
    BY <1>1 DEF SaveStarts, Remembered
  <2> QED BY <2>2, <2>3
<1>2. CASE SaveFails \/ SaveRefused
  BY <1>2, FailRemembers DEF SaveFails, SaveRefused, Runs
<1>3. CASE Journal /\ ~(SaveStarts \/ SaveFails \/ SaveRefused)
  <2>1. Runs
    BY <1>3 DEF Journal, Hydrate, HydrateFails, StatusSaved, AttemptSaved, DismissSaved,
       AcknowledgeSaved, RetireSaved, RecoverSaved, Written, Runs
  <2>2. Remembered
    BY <1>0, <1>3 DEF Journal, Hydrate, HydrateFails, StatusSaved, AttemptSaved, DismissSaved,
       AcknowledgeSaved, RetireSaved, RecoverSaved, Remembered
  <2> QED BY <2>1, <2>2
<1>4. ASSUME NEW i \in Ids, Deliver(i) PROVE Runs /\ Remembered
  BY <1>4 DEF Deliver, IntentSaved, Signed, SignatureSaved, HoldEnds, PublishStarts,
     PublishAccepted, PublishRejected, PublishLost, FailsUnpublished, ExpiresQueued,
     ExpiresActive, Observe, Runs, Remembered
<1>5. ASSUME NEW i \in Ids, Resolve(i) PROVE Runs /\ Remembered
  <2>1. Runs
    BY <1>5 DEF Resolve, Acknowledge, RetireStarts, RetireGivenUp, RetireVerified, Dismiss,
       DismissLocked, RecoverCalled, RecoverLocked, RecoverLoaded, RecoverLoadFails, Runs
  <2> SUFFICES Remembered
    BY <2>1
  <2>2. CASE Acknowledge(i)
    BY <2>2 DEF Acknowledge, Remembered
  <2>3. CASE RetireStarts(i) \/ RetireGivenUp(i) \/ DismissLocked(i)
    BY <1>0, <2>3 DEF RetireStarts, RetireGivenUp, DismissLocked, Remembered
  <2>4. CASE RetireVerified(i)
    <3>1. /\ dismissing' = [dismissing EXCEPT ![i] = "save"] /\ used \subseteq used'
          /\ UNCHANGED <<recovering, policed, dismissed, journal>>
      BY <2>4 DEF RetireVerified
    <3> QED BY <1>0, <3>1 DEF Remembered
  <2>5. CASE Dismiss(i)
    <3>1. /\ dismissing' = [dismissing EXCEPT ![i] = "lock"] /\ Has(ops, i) /\ ~Active(i)
          /\ ops[i].key # NoKey => ops[i].delivery = "failed"
          /\ UNCHANGED <<recovering, policed, dismissed, used, journal, ops, disk>>
      BY <2>5 DEF Dismiss
    <3> QED BY <1>0, <3>1 DEF Remembered
  <2>6. CASE (\E k \in Keys : RecoverCalled(i, k)) \/ RecoverLoadFails(i)
    <3>1. /\ UNCHANGED <<policed, dismissed, used, journal, dismissing>>
          /\ \A j \in Ids : recovering'[j].stage = "load" => recovering'[j] = recovering[j]
      <4>1. ASSUME NEW k \in Keys PROVE [NotRecovering EXCEPT !.stage = "lock", !.key = k].stage = "lock"
        BY DEF NotRecovering
      <4> QED BY <1>0, <2>6, <4>1 DEF RecoverCalled, RecoverLoadFails
    <3> QED BY <3>1 DEF Remembered
  <2>7. CASE RecoverLocked(i)
    <3>1. UNCHANGED <<ops, policed, dismissed, used, journal, dismissing>>
      BY <2>7 DEF RecoverLocked
    <3>2. CASE recovering' = [recovering EXCEPT ![i] = NotRecovering]
      BY <1>0, <3>1, <3>2 DEF Remembered
    <3>3. CASE Has(ops, i) /\ recovering' = [recovering EXCEPT ![i].stage = "load",
                                                              ![i].item = ops[i]]
      <4>1. /\ \A j \in Ids \ {i} : recovering'[j] = recovering[j]
            /\ recovering'[i].item = ops[i]
        <5>1. recovering[i] \in Recovering
          BY <1>0
        <5>2. [[recovering[i] EXCEPT !.stage = "load"] EXCEPT !.item = ops[i]].item = ops[i]
          BY <5>1 DEF Recovering
        <5> QED BY <1>0, <3>3, <5>2
      <4> QED BY <3>1, <3>3, <4>1 DEF Remembered
    <3> QED BY <2>7, <3>2, <3>3 DEF RecoverLocked
  <2>8. CASE RecoverLoaded(i)
    <3>1. /\ UNCHANGED <<policed, dismissed, used, journal, dismissing>>
          /\ \/ recovering' = [recovering EXCEPT ![i] = NotRecovering]
             \/ recovering' = [recovering EXCEPT ![i].stage = "save", ![i].item = NoOp]
      BY <2>8 DEF RecoverLoaded
    <3>2. \A j \in Ids : recovering'[j].stage = "load" => recovering'[j] = recovering[j]
      <4>1. recovering[i] \in Recovering
        BY <1>0
      <4>2. [[recovering[i] EXCEPT !.stage = "save"] EXCEPT !.item = NoOp].stage = "save"
        BY <4>1 DEF Recovering
      <4> QED BY <1>0, <3>1, <4>2
    <3> QED BY <3>1, <3>2 DEF Remembered
  <2> QED BY <1>5, <2>1, <2>2, <2>3, <2>4, <2>5, <2>6, <2>7, <2>8 DEF Resolve
<1>6. CASE Compose
  <2>1. Runs
    BY <1>6 DEF Compose, SendPlain, SendGuarded, Send, Withdraw, RetryPlain, RetryRenewed,
       Retry, Runs
  <2>2. Remembered
    BY <1>6 DEF Compose, SendPlain, SendGuarded, Send, Withdraw, RetryPlain, RetryRenewed,
       Retry, Remembered
  <2> QED BY <2>1, <2>2
<1>7. CASE Session
  <2>1. CASE Restart
    <3>1. /\ saving' = NoJob /\ captured' = Empty /\ UNCHANGED <<used, policed, dismissed>>
          /\ \A j \in Ids : recovering'[j] = NotRecovering /\ dismissing'[j] = "none"
      BY <2>1 DEF Restart
    <3> QED BY <1>0, <2>1, <3>1 DEF Runs, Remembered
  <2>2. CASE Purge \/ Dispose
    BY <2>2 DEF Purge, Dispose, Runs, Remembered
  <2> QED BY <1>7, <2>1, <2>2 DEF Session
<1>8. CASE UNCHANGED vars
  BY <1>8 DEF vars, memory, Runs, Remembered
<1> QED BY <1>1, <1>2, <1>3, <1>4, <1>5, <1>6, <1>7, <1>8 DEF Next

----------------------------------------------------------------------------
\* The policy an addition was sent under outlives a restart.

\* A saved or restored record stays as guarded as the one it came from.
LEMMA GuardedCopies ==
  ASSUME ops \in [Ids -> Op], NEW i \in Ids
  PROVE  /\ \A r \in Op : Has([j \in Ids |-> r], i) => Restored(i, r) = NoOp
                                                      \/ Restored(i, r).guarded = r.guarded
         /\ \A job \in Job : Has(Capture(job), i) =>
              Replaces(job, i) \/ (Has(ops, i) /\ Capture(job)[i].guarded = ops[i].guarded)
<1>1. ASSUME NEW r \in Op, r.place # "absent"
      PROVE  Restored(i, r) = NoOp \/ Restored(i, r).guarded = r.guarded
  <2>1. Decoded(r) \in Op /\ Decoded(r).guarded = r.guarded
    BY DEF Decoded, Op, Deliveries
  <2>2. /\ [Decoded(r) EXCEPT !.place = "pending"].guarded = r.guarded
        /\ [Decoded(r) EXCEPT !.place = "confirmed"].guarded = r.guarded
    BY <2>1 DEF Op
  <2> QED BY <1>1, <2>2 DEF Restored
<1>2. ASSUME NEW job \in Job, Has(Capture(job), i)
      PROVE  Replaces(job, i) \/ (Has(ops, i) /\ Capture(job)[i].guarded = ops[i].guarded)
  <2>1. ASSUME NEW k \in Ids
        PROVE  /\ Acknowledged(ops, k) \in [Ids -> Op]
               /\ Acknowledged(ops, k)[i].place = ops[i].place
               /\ Acknowledged(ops, k)[i].guarded = ops[i].guarded
    <3>1. Acknowledged(ops, k) \in [Ids -> Op]
      BY AcknowledgedType
    <3>2. [ops[i] EXCEPT !.key = NoKey, !.acked = TRUE].guarded = ops[i].guarded
          /\ [ops[i] EXCEPT !.key = NoKey, !.acked = TRUE].place = ops[i].place
      BY DEF Op
    <3>3. Acknowledged(ops, k)[i] \in {ops[i], [ops[i] EXCEPT !.key = NoKey, !.acked = TRUE]}
      BY <3>2 DEF Acknowledged, Op
    <3> QED BY <3>1, <3>2, <3>3
  <2>2. CASE job.kind = "dismiss"
    BY <1>2, <2>2 DEF Capture, Has, NoOp
  <2>3. CASE job.kind = "retire"
    <3>1. job.id \in Ids /\ (job.next = NoId \/ job.next \in Ids)
      BY <2>3, OutboxAssumption DEF Job
    <3>2. i # job.next => Capture(job)[i] = Acknowledged(ops, job.id)[i]
      BY <2>1, <2>3, <3>1 DEF Capture
    <3> QED BY <1>2, <2>1, <2>3, <3>1, <3>2 DEF Replaces, Has
  <2>4. CASE job.kind = "acknowledge"
    <3>1. job.id \in Ids /\ Capture(job) = Acknowledged(ops, job.id)
      BY <2>4 DEF Job, Capture
    <3> QED BY <1>2, <2>1, <3>1 DEF Has
  <2>5. CASE job.kind \in {"none", "status", "attempt", "recover"}
    BY <1>2, <2>5 DEF Capture
  <2> QED BY <2>2, <2>3, <2>4, <2>5 DEF Job
<1> QED BY <1>1, <1>2 DEF Has

\* A replacement that waits for its save was given its id.
LEMMA ReplacedIsUsed ==
  ASSUME FenceInv, NEW i \in Ids, Replaced(i)
  PROVE  i \in used
BY OutboxAssumption DEF FenceInv, SavesRely, ReliesWell, Unknown, Replaced, Replaces

\* What replaces an event after a step did so before it, or is new.
LEMMA ReplacedBefore ==
  ASSUME Queues, Runs, NEW i \in Ids, Replaced(i)'
  PROVE  Replaced(i) \/ (i \in used' \ used /\ policed' = policed)
<1>1. ~Replaces(NoJob, i)
  BY DEF Replaces, NoJob, JobOf
<1>2. CASE Replaces(saving', i)
  BY <1>1, <1>2 DEF Runs, Replaced
<1>3. ASSUME NEW n \in DOMAIN jobs', Replaces(jobs'[n], i)
      PROVE  Replaced(i) \/ (i \in used' \ used /\ policed' = policed)
  BY <1>3 DEF Queues, Retires, Replaced, Replaces
<1> QED BY <1>2, <1>3 DEF Replaced, Replaces

\* The invariant holds at first and in every step.
LEMMA PolicyInductive ==
  /\ Init => PolicyInv
  /\ TypeOK /\ FenceInv /\ ListedInv /\ PolicyInv /\ [Next]_vars => PolicyInv'
<1>1. ASSUME Init PROVE PolicyInv
  BY <1>1 DEF Init, PolicyInv, Guards
<1>2. ASSUME TypeOK, FenceInv, ListedInv, PolicyInv, [Next]_vars PROVE PolicyInv'
  <2>0. /\ policed \subseteq used /\ used \subseteq Ids /\ ops \in [Ids -> Op]
        /\ disk \in [Ids -> Op]
        /\ \A j \in policed : /\ Has(ops, j) => ops[j].guarded
                              /\ Has(disk, j) => disk[j].guarded
                              /\ Has(captured, j) => captured[j].guarded
                              /\ recovering[j].stage = "load" => recovering[j].item.guarded
                              /\ ~Replaced(j)
    BY <1>2 DEF PolicyInv, Guards, TypeOK
  <2>1. Queues /\ Runs /\ Remembered /\ \A j \in Ids : Changes(j)
    BY <1>2, <2>0, NextQueues, NextRuns, NextChanges
  <2>2. policed' \subseteq used' /\ policed' \subseteq Ids
    <3>1. policed' \subseteq Ids
      BY <1>2, NextType DEF TypeOK
    <3> QED BY <2>0, <2>1, <3>1 DEF Remembered
  <2>3. \A j \in policed' \ policed : /\ j \notin used /\ ~Has(ops, j) /\ ~Has(disk, j)
                                      /\ ~Has(captured, j) /\ recovering[j].stage # "load"
                                      /\ ~Replaced(j)
    BY <1>2, <2>1, <2>2, ReplacedIsUsed DEF Remembered, FenceInv, KnownIdsUsed
  <2>4. ASSUME NEW i \in policed', Has(ops', i) PROVE ops'[i].guarded
    <3>1. Changes(i) /\ i \in Ids
      BY <2>1, <2>2
    <3>2. CASE Arrives(i)
      <4>1. \A k, g : Fresh(k, g).guarded = g
        BY DEF Fresh, NoOp
      <4> QED BY <2>0, <2>3, <3>2, <4>1 DEF Arrives, Replaced
    <3>3. CASE Returns(i)
      <4>1. /\ disk[i] \in Op /\ disk[i].place # "absent" /\ ops'[i] = Restored(i, disk[i])
            /\ ops'[i].place # "absent"
        BY <2>0, <2>4, <3>1, <3>3 DEF Returns, Has
      <4>2. Restored(i, disk[i]) = NoOp \/ Restored(i, disk[i]).guarded = disk[i].guarded
        <5>1. Has([j \in Ids |-> disk[i]], i)
          BY <3>1, <4>1 DEF Has
        <5> QED BY <2>0, <3>1, <4>1, <5>1, GuardedCopies
      <4> QED BY <2>0, <2>3, <3>3, <4>1, <4>2 DEF Returns, NoOp
    <3>4. CASE TakesBack(i)
      BY <2>0, <2>3, <3>4 DEF TakesBack
    <3>5. CASE Stays(i) \/ Clears(i)
      BY <2>0, <2>3, <3>5 DEF Stays, Clears
    <3> QED BY <2>4, <3>1, <3>2, <3>3, <3>4, <3>5 DEF Changes, Leaves
  <2>5. ASSUME NEW i \in policed', Has(captured', i) PROVE captured'[i].guarded
    <3>1. CASE captured' = captured
      BY <2>0, <2>3, <2>5, <3>1 DEF Has
    <3>2. CASE captured' = Empty
      BY <2>2, <2>5, <3>2 DEF Empty, NoOp, Has
    <3>3. ASSUME NEW job \in Job, NEW m \in DOMAIN jobs, jobs[m] = job,
                 captured' = Capture(job), policed' = policed
          PROVE  captured'[i].guarded
      <4>1. ~Replaces(job, i)
        BY <2>0, <3>3 DEF Replaced
      <4> QED BY <2>0, <2>2, <2>5, <3>3, <4>1, GuardedCopies
    <3> QED BY <2>1, <3>1, <3>2, <3>3 DEF Runs
  <2>6. ASSUME NEW i \in policed', Has(disk', i) PROVE disk'[i].guarded
    <3>1. disk' = disk \/ disk' = captured
      BY <1>2, JournalIsWritten
    <3> QED BY <2>0, <2>3, <2>6, <3>1 DEF Has
  <2>7. ASSUME NEW i \in policed', recovering'[i].stage = "load"
        PROVE  recovering'[i].item.guarded
    BY <2>0, <2>1, <2>2, <2>3, <2>7 DEF Remembered
  <2>8. ASSUME NEW i \in policed' PROVE ~Replaced(i)'
    <3>1. Replaced(i)' => Replaced(i) \/ (i \in used' \ used /\ policed' = policed)
      BY <2>1, <2>2, ReplacedBefore
    <3> QED BY <2>0, <2>3, <3>1
  <2> QED BY <2>2, <2>4, <2>5, <2>6, <2>7, <2>8 DEF PolicyInv, Guards
<1> QED BY <1>1, <1>2

\* Only the entry of the publisher starts to publish.
LEMMA OnlyPublishStarts ==
  ASSUME TypeOK, FenceInv, [Next]_vars, NEW j \in Ids, j \in Publishing' \ Publishing
  PROVE  PublishStarts(j)
<1> USE DEF history, journalState, quietHistory
<1>0. /\ attempts \in [Ids -> Attempt] /\ jobs \in Seq(Job) /\ PushStatus(jobs) \in Seq(Job)
      /\ saving \in Job /\ ops \in [Ids -> Op]
      /\ attempts'[j].stage = "publish" /\ attempts[j].stage # "publish"
  BY PushStatusType DEF TypeOK, Publishing
<1>1. attempts' # attempts
  BY <1>0
<1>2. ASSUME NEW att \in [Ids -> Attempt], NEW q \in Seq(Job), Continues(att, q),
             att[j].stage # "publish"
      PROVE  FALSE
  BY <1>0, <1>2 DEF Continues
<1>3. ASSUME NEW i \in Ids, NEW a \in Attempt, a.stage # "publish",
             attempts' = [attempts EXCEPT ![i] = a]
      PROVE  FALSE
  BY <1>0, <1>3
<1>4. ASSUME NEW i \in Ids, NEW prev \in Deliveries, NEW q \in Seq(Job),
             NEW wait \in {"none", "pending", "done", "failed"}, Schedule(i, prev, wait, q)
      PROVE  FALSE
  <2> DEFINE a == [stage |-> "queued", prev |-> prev, wait |-> wait]
  <2>1. Continues([attempts EXCEPT ![i] = a], q)
    BY <1>0, <1>4, ScheduleContinues
  <2>2. a \in Attempt /\ a.stage # "publish"
    BY DEF Attempt
  <2> HIDE DEF a
  <2>3. /\ [attempts EXCEPT ![i] = a] \in [Ids -> Attempt]
        /\ [attempts EXCEPT ![i] = a][j].stage # "publish"
    BY <1>0, <2>2
  <2> QED BY <1>2, <2>1, <2>3
<1>5. ASSUME NEW i \in Ids, NEW d \in Deliveries, Finish(i, d) PROVE FALSE
  <2>1. \A k \in Ids \ {i} : Steady(k)
    BY <1>5, FinishIsSteady
  <2>2. attempts'[i].stage = "idle"
    BY <1>5, FinishIsSteady
  <2> QED BY <1>0, <2>1, <2>2 DEF Steady, PassedOn
<1>6. ASSUME NEW k \in Ids, NEW result \in {"done", "failed"}, NEW q,
             attempts' = Told(k, result, q)
      PROVE  FALSE
  BY <1>0, <1>6, ToldFacts
<1>7. ASSUME Journal PROVE FALSE
  <2>1. CASE AttemptSaved
    BY <1>0, <1>6, <2>1 DEF AttemptSaved, Job
  <2>2. ASSUME NEW job \in Job, NEW q, FailJob(job, q) PROVE FALSE
    BY <1>1, <1>6, <2>2 DEF FailJob, Job
  <2>3. CASE SaveFails \/ SaveRefused
    <3>1. jobs # <<>> => Head(jobs) \in Job
      BY <1>0
    <3> QED BY <1>0, <2>2, <2>3, <3>1 DEF SaveFails, SaveRefused
  <2>4. CASE RetireSaved
    <3>1. saving.next # NoId => saving.next \in Ids
      BY <1>0, <2>4, OutboxAssumption DEF RetireSaved, Job
    <3> QED BY <1>0, <1>1, <1>4, <2>4, <3>1 DEF RetireSaved, Deliveries
  <2> QED BY <1>1, <1>7, <2>1, <2>3, <2>4
          DEF Journal, Hydrate, HydrateFails, SaveStarts, StatusSaved, DismissSaved,
              AcknowledgeSaved, RecoverSaved
<1>8. ASSUME NEW i \in Ids, Deliver(i), ~PublishStarts(i) PROVE FALSE
  <2>1. attempts[i] \in Attempt
    BY <1>0
  <2>2. CASE IntentSaved(i) \/ Signed(i) \/ HoldEnds(i)
    <3>1. \A s \in {"sign", "save", "hold", "slot", "prepare"}, w \in {"pending", "none"} :
            /\ [[attempts[i] EXCEPT !.stage = s] EXCEPT !.wait = w] \in Attempt
            /\ [[attempts[i] EXCEPT !.stage = s] EXCEPT !.wait = w].stage = s
            /\ [attempts[i] EXCEPT !.stage = s] \in Attempt
            /\ [attempts[i] EXCEPT !.stage = s].stage = s
      BY <2>1 DEF Attempt
    <3> QED BY <1>0, <2>2, <3>1 DEF IntentSaved, Signed, HoldEnds
  <2>3. CASE SignatureSaved(i)
    <3>1. \A s \in {"hold", "prepare"} :
            /\ [[attempts[i] EXCEPT !.stage = s] EXCEPT !.wait = "none"] \in Attempt
            /\ [[attempts[i] EXCEPT !.stage = s] EXCEPT !.wait = "none"].stage = s
      BY <2>1 DEF Attempt
    <3>2. attempts' # [attempts EXCEPT ![i].stage = "prepare", ![i].wait = "none"]
      BY <1>0, <3>1
    <3> DEFINE held == [attempts EXCEPT ![i].stage = "hold", ![i].wait = "none"]
    <3>3. Pump(held, jobs, ops)
      BY <2>3, <3>2 DEF SignatureSaved
    <3>4. held \in [Ids -> Attempt] /\ held[j].stage # "publish"
      BY <1>0, <3>1
    <3> HIDE DEF held
    <3> QED BY <1>0, <1>2, <3>3, <3>4, PumpContinues
  <2>4. CASE ExpiresQueued(i)
    BY <1>3, <2>4, InitialValues DEF ExpiresQueued, Idle
  <2>5. CASE PublishAccepted(i)
    BY <1>5, <2>5 DEF PublishAccepted, Deliveries
  <2>6. CASE PublishRejected(i) \/ PublishLost(i) \/ FailsUnpublished(i) \/ ExpiresActive(i)
    <3>1. \A u \in BOOLEAN : CaughtDelivery(i, u) \in Deliveries
      BY <1>0, DeliveryType
    <3> QED BY <1>5, <2>6, <3>1
            DEF PublishRejected, PublishLost, FailsUnpublished, ExpiresActive
  <2>7. CASE Observe(i)
    <3> DEFINE idle == [attempts EXCEPT ![i] = Idle]
    <3>1. /\ idle \in [Ids -> Attempt] /\ idle[j].stage # "publish"
      BY <1>0, InitialValues DEF Idle
    <3>2. attempts' # idle
      BY <1>0, <3>1
    <3>3. \E o : Pump(idle, PushStatus(jobs), o)
      BY <1>1, <2>7, <3>2 DEF Observe
    <3> HIDE DEF idle
    <3> QED BY <1>0, <1>2, <3>1, <3>3, PumpContinues
  <2> QED BY <1>8, <2>2, <2>3, <2>4, <2>5, <2>6, <2>7 DEF Deliver
<1>9. ASSUME NEW i \in Ids, Resolve(i) PROVE FALSE
  BY <1>1, <1>9 DEF Resolve, Acknowledge, RetireStarts, RetireGivenUp, RetireVerified, Dismiss,
     DismissLocked, RecoverCalled, RecoverLocked, RecoverLoaded, RecoverLoadFails
<1>10. ASSUME Compose PROVE FALSE
  <2>1. ASSUME NEW i \in Ids, NEW k, NEW g, Send(i, k, g) PROVE FALSE
    <3>1. Append(jobs, JobOf("attempt", i, NoId, NoKey)) \in Seq(Job)
      BY <1>0, IntentJob
    <3> QED BY <1>4, <2>1, <3>1 DEF Send, Deliveries
  <2>2. ASSUME NEW i \in Ids, NEW g, Retry(i, g) PROVE FALSE
    <3>1. Schedule(i, ops[i].delivery, "none", jobs) /\ ops[i].delivery \in Deliveries
      BY <1>0, <2>2 DEF Retry, Op
    <3> QED BY <1>0, <1>4, <3>1
  <2>3. CASE Withdraw
    BY <1>1, <2>3 DEF Withdraw
  <2> QED BY <1>10, <2>1, <2>2, <2>3, OutboxAssumption
          DEF Compose, SendPlain, SendGuarded, RetryPlain, RetryRenewed
<1>11. ASSUME Session PROVE FALSE
  <2>1. attempts' = attempts \/ attempts'[j] = Idle
    BY <1>11 DEF Session, Purge, Dispose, Restart
  <2> QED BY <1>0, <1>1, <2>1 DEF Idle
<1>12. ~UNCHANGED vars
  BY <1>1 DEF vars, memory
<1>13. PICK i \in Ids : PublishStarts(i)
  BY <1>7, <1>8, <1>9, <1>10, <1>11, <1>12 DEF Next
<1>14. i = j
  BY <1>0, <1>13 DEF PublishStarts
<1> QED BY <1>13, <1>14

\* An addition sent under a caller's policy is published only while the policy holds, also
\* after a restart has forgotten the policy: the saved record still asks for it
\* (checkAdmission(), outbox.ts:195-198, 585, 625).
THEOREM PolicyIsKept == Spec => PolicyOutlivesRestart
<1> DEFINE Step == \A i \in policed : i \in Publishing' \ Publishing => gates[i] = "open"
<1>1. TypeOK /\ FenceInv /\ ListedInv /\ PolicyInv /\ [Next]_vars => Step
  <2> SUFFICES ASSUME TypeOK, FenceInv, ListedInv, PolicyInv, [Next]_vars,
                      NEW i \in policed, i \in Publishing' \ Publishing
               PROVE  gates[i] = "open"
    OBVIOUS
  <2>1. i \in Ids
    BY DEF TypeOK
  <2>2. PublishStarts(i)
    BY <2>1, OnlyPublishStarts
  <2>3. Active(i) /\ Allowed(i)
    BY <2>2 DEF PublishStarts, Active
  <2>4. ops[i].guarded
    BY <2>1, <2>3 DEF ListedInv, PlacesAgree, PolicyInv, Guards, Has
  <2> QED BY <2>3, <2>4 DEF Allowed
<1>2. TypeOK /\ FenceInv /\ ListedInv /\ PolicyInv /\ [Next]_vars => [Step]_vars
  BY <1>1
<1>3. FenceInv => TypeOK
  BY DEF FenceInv
<1>4. Spec => []PolicyInv
  BY <1>3, PolicyInductive, ListedHolds, PTL DEF Spec
<1>5. Spec => [][Step]_vars
  BY <1>2, <1>3, <1>4, ListedHolds, PTL DEF Spec
<1> QED BY <1>5 DEF PolicyOutlivesRestart

----------------------------------------------------------------------------
\* A recovery record is given back with the save that releases it.

\* A save that releases a receipt writes it without its key.
LEMMA CaptureReleases ==
  ASSUME TypeOK, FenceInv, NEW job \in Job, NEW m \in DOMAIN jobs, jobs[m] = job,
         job.kind \in Release, Has(Capture(job), job.id)
  PROVE  Capture(job)[job.id].key = NoKey
<1>0. ops \in [Ids -> Op] /\ job.id \in Ids
  BY DEF TypeOK, Job, Release
<1>1. Acknowledged(ops, job.id) \in [Ids -> Op]
  BY <1>0, AcknowledgedType
<1>2. Has(Acknowledged(ops, job.id), job.id) => Acknowledged(ops, job.id)[job.id].key = NoKey
  BY <1>0, <1>1 DEF Acknowledged, Has, Op
<1>3. CASE job.kind = "acknowledge"
  BY <1>2, <1>3 DEF Capture
<1>4. CASE job.kind = "retire"
  <2>1. job.next # NoId => job.next # job.id
    BY <1>4 DEF FenceInv, SavesRely, ReliesWell, Unknown
  <2>2. Capture(job)[job.id] = Acknowledged(ops, job.id)[job.id]
    BY <1>0, <1>1, <1>4, <2>1 DEF Capture
  <2> QED BY <1>2, <2>2 DEF Has
<1> QED BY <1>3, <1>4 DEF Release

\* The invariant holds at first and in every step.
LEMMA ReleasedInductive ==
  /\ Init => ReleasedInv
  /\ TypeOK /\ FenceInv /\ ListedInv /\ PolicyInv /\ ReleasedInv /\ [Next]_vars => ReleasedInv'
<1>0. NoJob.kind = "none" /\ NoOp.place = "absent" /\ \A k, g : Fresh(k, g).place = "pending"
  BY DEF NoJob, JobOf, NoOp, Fresh
<1>1. ASSUME Init PROVE ReleasedInv
  BY <1>0, <1>1 DEF Init, ReleasedInv, Empty
<1>2. ASSUME TypeOK, FenceInv, ListedInv, PolicyInv, ReleasedInv, [Next]_vars PROVE ReleasedInv'
  <2>1. Runs /\ \A j \in Ids : Changes(j)
    BY <1>2, NextRuns, NextChanges DEF PolicyInv
  <2>2. ASSUME saving'.kind \in Release, Has(captured', saving'.id)
        PROVE  captured'[saving'.id].key = NoKey
    <3>1. CASE UNCHANGED <<saving, captured>>
      BY <1>2, <2>2, <3>1 DEF ReleasedInv, Release, Has
    <3>2. CASE saving' = NoJob
      BY <1>0, <2>2, <3>2 DEF Release
    <3>3. ASSUME NEW job \in Job, NEW m \in DOMAIN jobs, jobs[m] = job, saving' = job,
                 captured' = Capture(job)
          PROVE  captured'[saving'.id].key = NoKey
      BY <1>2, <2>2, <3>3, CaptureReleases
    <3> QED BY <2>1, <3>1, <3>2, <3>3 DEF Runs
  <2>3. ASSUME NEW i \in Ids, ops'[i].place = "confirmed" PROVE ops'[i].key = NoKey
    <3>1. CASE Stays(i)
      BY <1>2, <2>3, <3>1 DEF Stays, ReleasedInv
    <3>2. CASE Returns(i)
      <4>1. disk[i] \in Op /\ ops'[i] = Restored(i, disk[i]) /\ disk[i].place # "absent"
        BY <1>2, <3>2 DEF Returns, TypeOK, Has
      <4>2. Decoded(disk[i]) \in Op
        BY <4>1 DEF Decoded, Op, Deliveries
      <4>3. ~Outstanding(i, Decoded(disk[i]))
            /\ ops'[i] = [Decoded(disk[i]) EXCEPT !.place = "confirmed"]
        BY <1>0, <2>3, <4>1, <4>2 DEF Restored, Op
      <4> QED BY <4>2, <4>3 DEF Outstanding, Op
    <3> QED BY <1>0, <2>1, <2>3, <3>1, <3>2
            DEF Changes, Clears, Leaves, Arrives, TakesBack, Has
  <2> QED BY <2>2, <2>3 DEF ReleasedInv, Release
<1> QED BY <1>1, <1>2

\* A receipt gives its recovery record back only in the step that makes it durable: no
\* crash finds the record gone and the saved receipt still owning it, or the other way
\* round (outbox.ts:375-395, acknowledge(), 967-1036).
THEOREM RecoveryIsReleased == Spec => RecoveryReleasedDurably
<1> DEFINE Step == \A i \in Ids :
               Has(ops, i) /\ ops[i].key # NoKey /\ (Has(ops', i) => ops'[i].key = NoKey)
                 => ~Has(disk', i) \/ disk'[i].key = NoKey \/ journal' = "loading"
           Inv == TypeOK /\ FenceInv /\ ListedInv /\ PolicyInv /\ ReleasedInv
<1>1. Inv /\ [Next]_vars => Step
  <2> SUFFICES ASSUME Inv, [Next]_vars, NEW i \in Ids, Has(ops, i), ops[i].key # NoKey,
                      Has(ops', i) => ops'[i].key = NoKey, journal' # "loading"
               PROVE  ~Has(disk', i) \/ disk'[i].key = NoKey
    OBVIOUS
  <2>1. Changes(i)
    BY NextChanges DEF PolicyInv
  <2>2. ops[i].place # "confirmed"
    BY DEF ReleasedInv
  <2>3. NoKey \notin Keys
    BY OutboxAssumption
  <2>4. CASE Commit(i, Release)
    BY <2>4 DEF ReleasedInv, Commit, Release, Has
  <2>5. CASE Commit(i, {"dismiss"})
    BY <2>5 DEF FenceInv, SavesRely, Commit, Has
  <2>6. ~Restart
    BY DEF Restart
  <2> QED BY <2>1, <2>2, <2>3, <2>4, <2>5, <2>6
          DEF Changes, Stays, Clears, Leaves, Arrives, Returns, TakesBack, Commit, Has
<1>2. Inv /\ [Next]_vars => [Step]_vars
  BY <1>1
<1>3. FenceInv => TypeOK
  BY DEF FenceInv
<1>4. Spec => []Inv
  <2>1. Spec => []PolicyInv
    BY <1>3, PolicyInductive, ListedHolds, PTL DEF Spec
  <2>2. Spec => []ReleasedInv
    BY <1>3, <2>1, ReleasedInductive, ListedHolds, PTL DEF Spec
  <2> QED BY <1>3, <2>1, <2>2, ListedHolds, PTL
<1>5. Spec => [][Step]_vars
  BY <1>2, <1>4, PTL DEF Spec
<1> QED BY <1>5 DEF RecoveryReleasedDurably

----------------------------------------------------------------------------
\* A command is told its outcome once.

\* The step goes on with command j or leaves it alone, sends it, ends its attempt and
\* tells its sender, or ends with the window.
Reports(j) ==
  \/ receipts'[j] = receipts[j] /\ (Active(j)' <=> Active(j))
  \/ receipts'[j] = receipts[j] /\ j \in used' \ used
  \/ Active(j) /\ ~Active(j)' /\ receipts'[j] = receipts[j] + 1
  \/ receipts'[j] = receipts[j] /\ ~Active(j)' /\ (closed' \/ ~Has(ops', j))

\* A step that only continues the other attempts leaves the other commands alone.
LEMMA OthersReport ==
  ASSUME NEW att \in [Ids -> Attempt], NEW q, Continues(att, q), receipts' = receipts,
         NEW j \in Ids, att[j].stage = "idle" <=> ~Active(j)
  PROVE  Reports(j)
BY DEF Continues, Reports, Active

\* The end of an attempt tells its sender, and only him.
LEMMA FinishReports ==
  ASSUME TypeOK, NEW i \in Ids, NEW d, Finish(i, d), Active(i), NEW j \in Workflows
  PROVE  Reports(j)
<1> DEFINE idle == [attempts EXCEPT ![i] = Idle]
<1>0. /\ attempts \in [Ids -> Attempt] /\ idle \in [Ids -> Attempt] /\ j \in Ids
      /\ PushStatus(jobs) \in Seq(Job) /\ receipts \in [Ids -> Nat]
      /\ idle[i].stage = "idle" /\ \A k \in Ids \ {i} : idle[k] = attempts[k]
  BY InitialValues, PushStatusType, OutboxAssumption DEF TypeOK, Idle
<1>1. \E o : Pump(idle, PushStatus(jobs), o)
  BY DEF Finish
<1>2. receipts' = IF i \in Workflows THEN [receipts EXCEPT ![i] = @ + 1] ELSE receipts
  BY DEF Finish
<1> HIDE DEF idle
<1>3. \A k \in Ids : Active(k)' <=> idle[k].stage # "idle"
  BY <1>0, <1>1, PumpContinues DEF Continues, Active
<1>4. CASE i = j
  BY <1>0, <1>2, <1>3, <1>4 DEF Reports
<1>5. CASE i # j
  BY <1>0, <1>2, <1>3, <1>5 DEF Reports, Active
<1> QED BY <1>4, <1>5

\* Every stage of an attempt, its end and its echo report as they may.
LEMMA DeliverReports ==
  ASSUME TypeOK, NEW i \in Ids, Deliver(i), NEW j \in Workflows
  PROVE  Reports(j)
<1> USE DEF history, journalState, quietHistory
<1>0. /\ attempts \in [Ids -> Attempt] /\ attempts[i] \in Attempt /\ j \in Ids
      /\ jobs \in Seq(Job) /\ PushStatus(jobs) \in Seq(Job) /\ receipts \in [Ids -> Nat]
  BY PushStatusType, OutboxAssumption DEF TypeOK
<1>1. ASSUME NEW a \in Attempt, a.stage # "idle", Active(i), receipts' = receipts,
             attempts' = [attempts EXCEPT ![i] = a]
      PROVE  Reports(j)
  BY <1>0, <1>1 DEF Reports, Active
<1>2. CASE IntentSaved(i) \/ Signed(i) \/ HoldEnds(i) \/ PublishStarts(i)
  <2>1. \A s \in {"sign", "save", "slot", "prepare", "publish"}, w \in {"pending", "none"} :
          /\ [[attempts[i] EXCEPT !.stage = s] EXCEPT !.wait = w] \in Attempt
          /\ [[attempts[i] EXCEPT !.stage = s] EXCEPT !.wait = w].stage = s
          /\ [attempts[i] EXCEPT !.stage = s] \in Attempt
          /\ [attempts[i] EXCEPT !.stage = s].stage = s
    BY <1>0 DEF Attempt
  <2>2. Active(i) /\ receipts' = receipts
    BY <1>2 DEF IntentSaved, Signed, HoldEnds, PublishStarts, Active
  <2>3. \E a \in Attempt : a.stage # "idle" /\ attempts' = [attempts EXCEPT ![i] = a]
    <3>1. CASE IntentSaved(i) \/ Signed(i)
      <4>1. PICK s \in {"sign", "save"}, w \in {"pending", "none"} :
              attempts' = [attempts EXCEPT ![i].stage = s, ![i].wait = w]
        BY <3>1 DEF IntentSaved, Signed
      <4>2. attempts' = [attempts EXCEPT ![i] = [[attempts[i] EXCEPT !.stage = s]
                                                 EXCEPT !.wait = w]]
        BY <1>0, <4>1
      <4> QED BY <2>1, <4>2
    <3>2. CASE HoldEnds(i)
      BY <2>1, <3>2 DEF HoldEnds
    <3>3. CASE PublishStarts(i)
      BY <2>1, <3>3 DEF PublishStarts
    <3> QED BY <1>2, <3>1, <3>2, <3>3
  <2> QED BY <1>1, <2>2, <2>3
<1>3. CASE SignatureSaved(i)
  <2> DEFINE a(s) == [[attempts[i] EXCEPT !.stage = s] EXCEPT !.wait = "none"]
             held == [attempts EXCEPT ![i].stage = "hold", ![i].wait = "none"]
  <2>1. \A s \in {"hold", "prepare"} : a(s) \in Attempt /\ a(s).stage = s
    BY <1>0 DEF Attempt
  <2>2. Active(i) /\ receipts' = receipts
    BY <1>3 DEF SignatureSaved, Active
  <2>3. CASE attempts' = [attempts EXCEPT ![i].stage = "prepare", ![i].wait = "none"]
    <3>1. attempts' = [attempts EXCEPT ![i] = a("prepare")]
      BY <2>3
    <3> HIDE DEF a
    <3> QED BY <1>1, <2>1, <2>2, <3>1
  <2>4. CASE Pump(held, jobs, ops)
    <3>1. held = [attempts EXCEPT ![i] = a("hold")]
      OBVIOUS
    <3> HIDE DEF a, held
    <3>2. held \in [Ids -> Attempt] /\ (held[j].stage = "idle" <=> ~Active(j))
      BY <1>0, <2>1, <2>2, <3>1 DEF Active
    <3>3. Continues(held, jobs)
      BY <1>0, <2>4, <3>2, PumpContinues
    <3> QED BY <1>0, <2>2, <3>2, <3>3, OthersReport
  <2> QED BY <1>3, <2>3, <2>4 DEF SignatureSaved
<1>4. ASSUME NEW d, Finish(i, d), Active(i) PROVE Reports(j)
  BY <1>4, FinishReports
<1>5. CASE \/ PublishAccepted(i) \/ PublishRejected(i) \/ PublishLost(i)
           \/ FailsUnpublished(i) \/ ExpiresActive(i)
  BY <1>4, <1>5 DEF PublishAccepted, PublishRejected, PublishLost, FailsUnpublished,
                    ExpiresActive, Active
<1>6. CASE ExpiresQueued(i)
  BY <1>0, <1>6 DEF ExpiresQueued, Reports, Active, Idle
<1>7. CASE Observe(i)
  <2> DEFINE idle == [attempts EXCEPT ![i] = Idle]
  <2>1. receipts' = receipts
    BY <1>7 DEF Observe
  <2>2. CASE i = j /\ Active(i)
    <3>1. attempts' = attempts
      BY <1>7, <2>2 DEF Observe
    <3> QED BY <2>1, <3>1 DEF Reports, Active
  <2>3. CASE ~(i = j /\ Active(i))
    <3>1. \/ attempts' \in {attempts, idle}
          \/ \E o : Pump(idle, PushStatus(jobs), o)
      BY <1>7 DEF Observe
    <3>2. idle \in [Ids -> Attempt] /\ (idle[j].stage = "idle" <=> ~Active(j))
      BY <1>0, <2>3, InitialValues DEF Active, Idle
    <3> HIDE DEF idle
    <3>3. CASE attempts' \in {attempts, idle}
      BY <2>1, <3>2, <3>3 DEF Reports, Active
    <3>4. ASSUME NEW o, Pump(idle, PushStatus(jobs), o) PROVE Reports(j)
      BY <1>0, <2>1, <3>2, <3>4, PumpContinues, OthersReport
    <3> QED BY <3>1, <3>3, <3>4
  <2> QED BY <2>2, <2>3
<1> QED BY <1>2, <1>3, <1>5, <1>6, <1>7 DEF Deliver

\* Every step reports as it may: commands are sent once, and never retried or replaced.
LEMMA NextReports ==
  ASSUME TypeOK, [Next]_vars, NEW j \in Workflows
  PROVE  Reports(j)
<1> USE DEF history
<1>0. /\ attempts \in [Ids -> Attempt] /\ j \in Ids \ Invites /\ jobs \in Seq(Job)
      /\ saving \in Job /\ ops \in [Ids -> Op]
  BY OutboxAssumption DEF TypeOK
<1>1. ASSUME UNCHANGED <<attempts, receipts>> PROVE Reports(j)
  BY <1>1 DEF Reports, Active
<1>2. ASSUME NEW i \in Ids \ {j}, NEW prev \in Deliveries, NEW q \in Seq(Job),
             NEW wait \in {"none", "pending", "done", "failed"}, Schedule(i, prev, wait, q),
             receipts' = receipts
      PROVE  Reports(j)
  <2> DEFINE a == [stage |-> "queued", prev |-> prev, wait |-> wait]
  <2>1. Continues([attempts EXCEPT ![i] = a], q)
    BY <1>0, <1>2, ScheduleContinues
  <2>2. a \in Attempt
    BY DEF Attempt
  <2> HIDE DEF a
  <2>3. /\ [attempts EXCEPT ![i] = a] \in [Ids -> Attempt]
        /\ [attempts EXCEPT ![i] = a][j] = attempts[j]
    BY <1>0, <2>2
  <2> QED BY <1>0, <1>2, <2>1, <2>3, OthersReport DEF Active
<1>3. CASE Journal
  <2>1. ASSUME NEW k \in Ids, NEW result \in {"done", "failed"}, NEW q,
               attempts' = Told(k, result, q), receipts' = receipts
        PROVE  Reports(j)
    BY <1>0, <2>1, ToldFacts DEF Reports, Active
  <2>2. CASE AttemptSaved
    BY <1>0, <2>1, <2>2 DEF AttemptSaved, Job
  <2>3. ASSUME NEW job \in Job, NEW q, FailJob(job, q), receipts' = receipts PROVE Reports(j)
    BY <1>1, <2>1, <2>3 DEF FailJob, Job
  <2>4. CASE SaveFails \/ SaveRefused
    <3>1. jobs # <<>> => Head(jobs) \in Job
      BY <1>0
    <3> QED BY <1>0, <2>3, <2>4, <3>1 DEF SaveFails, SaveRefused
  <2>5. CASE RetireSaved
    <3>1. saving.next # NoId => saving.next \in Ids \ {j}
      BY <1>0, <2>5, OutboxAssumption DEF RetireSaved, Job
    <3> QED BY <1>0, <1>1, <1>2, <2>5, <3>1 DEF RetireSaved, Deliveries
  <2> QED BY <1>1, <1>3, <2>2, <2>4, <2>5
          DEF Journal, Hydrate, HydrateFails, SaveStarts, StatusSaved, DismissSaved,
              AcknowledgeSaved, RecoverSaved
<1>4. ASSUME NEW i \in Ids, Deliver(i) PROVE Reports(j)
  BY <1>4, DeliverReports
<1>5. ASSUME NEW i \in Ids, Resolve(i) PROVE Reports(j)
  BY <1>1, <1>5 DEF Resolve, Acknowledge, RetireStarts, RetireGivenUp, RetireVerified, Dismiss,
     DismissLocked, RecoverCalled, RecoverLocked, RecoverLoaded, RecoverLoadFails, journalState
<1>6. CASE Compose
  <2>1. ASSUME NEW i \in Ids, NEW k, NEW g, Send(i, k, g) PROVE Reports(j)
    <3>1. Append(jobs, JobOf("attempt", i, NoId, NoKey)) \in Seq(Job)
      BY <1>0, IntentJob
    <3>2. CASE i # j
      BY <1>2, <2>1, <3>1, <3>2 DEF Send, Deliveries
    <3>3. CASE i = j
      BY <2>1, <3>3 DEF Send, Reports
    <3> QED BY <3>2, <3>3
  <2>2. ASSUME NEW i \in Ids, NEW g, Retry(i, g) PROVE Reports(j)
    <3>1. /\ Schedule(i, ops[i].delivery, "none", jobs) /\ ops[i].delivery \in Deliveries
          /\ i # j /\ receipts' = receipts
      BY <1>0, <2>2 DEF Retry, Op
    <3> QED BY <1>0, <1>2, <3>1
  <2>3. CASE Withdraw
    BY <1>1, <2>3 DEF Withdraw
  <2> QED BY <1>6, <2>1, <2>2, <2>3, OutboxAssumption
          DEF Compose, SendPlain, SendGuarded, RetryPlain, RetryRenewed
<1>7. CASE Session
  <2>1. CASE Purge
    BY <1>1, <2>1 DEF Purge
  <2>2. CASE Dispose \/ Restart
    <3>1. NoOp.place = "absent" /\ Idle.stage = "idle"
      BY DEF NoOp, Idle
    <3>2. receipts' = receipts /\ attempts'[j] = Idle /\ (closed' \/ ops'[j] = NoOp)
      BY <1>0, <2>2 DEF Dispose, Restart, Empty
    <3> QED BY <3>1, <3>2 DEF Reports, Active, Has
  <2> QED BY <1>7, <2>1, <2>2 DEF Session
<1>8. CASE UNCHANGED vars
  BY <1>1, <1>8 DEF vars, memory
<1> QED BY <1>3, <1>4, <1>5, <1>6, <1>7, <1>8 DEF Next

\* The sender of a command is told its outcome once, when its one attempt ends, whatever
\* order echo, answer and deadline come in, and nobody is told twice, restarts included
\* (onReceipt() in deliver() and expire(), outbox.ts:513-531, 629-660).
THEOREM OneReceipt == Spec => OneReceiptPerCommand
<1> DEFINE Step == \A i \in Workflows :
                     /\ receipts'[i] <= 1
                     /\ Active(i) /\ ~Active(i)' =>
                          receipts'[i] = 1 \/ closed' \/ ~Has(ops', i)
<1>1. Init => ReceiptInv
  BY OutboxAssumption DEF Init, ReceiptInv
<1>2. ASSUME FenceInv, ReceiptInv, [Next]_vars PROVE ReceiptInv' /\ Step
  <2>1. TypeOK /\ receipts \in [Ids -> Nat]
    BY <1>2 DEF FenceInv, TypeOK
  <2>2. used \subseteq used'
    BY <1>2, <2>1, NextRuns DEF Remembered
  <2>3. ASSUME NEW i \in Workflows
        PROVE  /\ receipts'[i] <= 1 /\ (Active(i)' \/ i \notin used' => receipts'[i] = 0)
               /\ Active(i) /\ ~Active(i)' => receipts'[i] = 1 \/ closed' \/ ~Has(ops', i)
    <3>1. /\ Reports(i) /\ i \in Ids /\ receipts[i] <= 1 /\ receipts[i] \in Nat
          /\ Active(i) \/ i \notin used => receipts[i] = 0
          /\ Active(i) => i \in used
      BY <1>2, <2>1, NextReports, OutboxAssumption DEF ReceiptInv, FenceInv, KnownIdsUsed
    <3> QED BY <2>2, <3>1 DEF Reports
  <2> QED BY <2>3 DEF ReceiptInv
<1>3. FenceInv /\ ReceiptInv /\ [Next]_vars => ReceiptInv' /\ [Step]_vars
  BY <1>2
<1>4. Spec => []FenceInv
  BY ListedHolds, PTL
<1>5. Spec => [][Step]_vars
  BY <1>1, <1>3, <1>4, PTL DEF Spec
<1> QED BY <1>5 DEF OneReceiptPerCommand

----------------------------------------------------------------------------
\* A dismissal spares what owns a source.

\* What is being dismissed is fenced, known, and not delivered.
LEMMA DismissingIsFenced ==
  ASSUME FenceInv, NEW i \in Ids, Dismissing(i)
  PROVE  dismissing[i] # "none" /\ ~Active(i) /\ i \in used /\ ~Replaces(saving, i)
<1>1. dismissing[i] # "none"
  BY DEF FenceInv, SavesRely, ReliesWell, Dismissing
<1> QED BY <1>1, OutboxAssumption
        DEF FenceInv, FencesHold, KnownIdsUsed, SavesRely, ReliesWell, Unknown, Replaces

\* What is being dismissed after a step was so before it, or is dismissed now.
LEMMA DismissingBefore ==
  ASSUME Queues, Runs, Remembered, NEW i \in Ids, Dismissing(i)', ~Dismissing(i)
  PROVE  /\ Has(ops, i) /\ UNCHANGED <<ops, disk, journal>>
         /\ ops[i].key # NoKey => ops[i].delivery = "failed"
<1>1. CASE dismissing'[i] = "lock"
  BY <1>1 DEF Remembered, Dismissing
<1>2. CASE saving'.kind = "dismiss" /\ saving'.id = i
  <2>1. NoJob.kind = "none"
    BY DEF NoJob, JobOf
  <2> QED BY <1>2, <2>1 DEF Runs, Dismissing
<1>3. ASSUME NEW n \in DOMAIN jobs', jobs'[n].kind = "dismiss", jobs'[n].id = i
      PROVE  FALSE
  BY <1>3 DEF Queues, Retires, Dismissing
<1> QED BY <1>1, <1>2, <1>3 DEF Dismissing

\* The invariants a step relies on.
Sparing == /\ EvidenceInv /\ NobodyRecovers /\ FenceInv /\ ListedInv /\ PolicyInv
           /\ SparedInv

\* The invariant holds at first and in every step.
LEMMA SparedInductive ==
  /\ Init => SparedInv
  /\ Sparing /\ [Next]_vars => SparedInv'
<1>1. ASSUME Init PROVE SparedInv
  BY <1>1 DEF Init, SparedInv, Dismissing, NoJob, JobOf
<1>2. ASSUME Sparing, [Next]_vars PROVE SparedInv'
  <2>0. /\ TypeOK /\ EvidenceInv /\ NobodyRecovers /\ FenceInv /\ ListedInv /\ SparedInv
        /\ policed \subseteq used
    BY <1>2 DEF Sparing, FenceInv, PolicyInv
  <2>1. Queues /\ Runs /\ Remembered /\ \A j \in Ids : Changes(j)
    BY <1>2, <2>0, NextQueues, NextRuns, NextChanges
  <2> SUFFICES ASSUME NEW i \in Ids, Dismissing(i)'
               PROVE  /\ ops'[i].key # NoKey => ops'[i].delivery = "failed"
                      /\ journal' = "loading" => ~Has(disk', i)
    BY DEF SparedInv, Has
  <2>2. CASE ~Dismissing(i)
    <3>1. /\ Has(ops, i) /\ UNCHANGED <<ops, disk, journal>>
          /\ ops[i].key # NoKey => ops[i].delivery = "failed"
      BY <2>1, <2>2, DismissingBefore
    <3> QED BY <2>0, <3>1 DEF ListedInv, OpensFirst, Has
  <2>3. CASE Dismissing(i)
    <3>1. /\ dismissing[i] # "none" /\ ~Active(i) /\ i \in used /\ ~Replaces(saving, i)
          /\ ops[i].key # NoKey => ops[i].delivery = "failed"
          /\ journal = "loading" => ~Has(disk, i)
      BY <2>0, <2>3, DismissingIsFenced DEF SparedInv
    <3>2. NoOp.key = NoKey /\ recovering[i].stage = "idle"
      BY <2>0 DEF NoOp, NobodyRecovers, NotRecovering
    <3>3. ops'[i].key # NoKey => ops'[i].delivery = "failed"
      <4>1. CASE Stays(i)
        <5>1. i \in mayHold => ops[i].delivery # "failed"
          BY <2>0, <4>1 DEF Stays, EvidenceInv, HeldIsSafe, Safe, Has
        <5> QED BY <3>1, <4>1, <5>1 DEF Stays
      <4> QED BY <2>1, <3>1, <3>2, <4>1
              DEF Changes, Clears, Leaves, Arrives, Returns, TakesBack
    <3>4. journal' = "loading" => ~Has(disk', i)
      <4>1. ~Restart
        BY <2>0, <3>2 DEF Restart, Dismissing, NoJob, JobOf
      <4>2. journal = "loading" => disk' = disk
        BY <1>2, <2>0, JournalIsWritten DEF ListedInv, OpensFirst
      <4> QED BY <2>1, <3>1, <4>1, <4>2 DEF Remembered, Has
    <3> QED BY <3>3, <3>4
  <2> QED BY <2>2, <2>3
<1> QED BY <1>1, <1>2

\* A dismissal removes a receipt that owns a source only when its delivery failed, also
\* when an echo, a save or a retirement comes between the call and its save (dismiss(),
\* outbox.ts:1078-1099).
THEOREM DismissalSpares ==
  ASSUME "recover" \notin Calls
  PROVE  Spec => DismissalSparesReceipts
<1> DEFINE Step == \A i \in dismissed' \ dismissed :
                     ops[i].key # NoKey => ops[i].delivery = "failed"
<1>1. Sparing /\ [Next]_vars => [Step]_vars
  <2> SUFFICES ASSUME Sparing, [Next]_vars, NEW i \in dismissed' \ dismissed
               PROVE  ops[i].key # NoKey => ops[i].delivery = "failed"
    OBVIOUS
  <2>1. saving.kind = "dismiss" /\ saving.id = i /\ i \in Ids
    BY NextRuns, NextType DEF Sparing, FenceInv, Remembered, TypeOK
  <2> QED BY <2>1 DEF Sparing, SparedInv, Dismissing
<1>2. Spec => []Sparing
  <2>1. FenceInv => TypeOK
    BY DEF FenceInv
  <2>2. Spec => []PolicyInv
    BY <2>1, PolicyInductive, ListedHolds, PTL DEF Spec
  <2>3. Spec => [](EvidenceInv /\ NobodyRecovers)
    BY EvidenceInvariant
  <2>4. EvidenceInv /\ NobodyRecovers /\ FenceInv /\ ListedInv /\ PolicyInv /\ SparedInv
          <=> Sparing
    BY DEF Sparing
  <2> QED BY <2>2, <2>3, <2>4, SparedInductive, ListedHolds, PTL DEF Spec
<1>3. Spec => [][Step]_vars
  BY <1>1, <1>2, PTL DEF Spec
<1> QED BY <1>3 DEF DismissalSparesReceipts

----------------------------------------------------------------------------
\* Observers wait for what is open.

\* The step leaves event j alone, but for its signature, an eviction, an end of its
\* observers, a slot passed on, or the call or the end of recover().
Idles(j) ==
  /\ \/ ops'[j].place = ops[j].place /\ ops'[j].delivery = ops[j].delivery
     \/ ops[j].place = "confirmed" /\ ops'[j] = NoOp
  /\ j \in work' => j \in work
  /\ attempts'[j].prev = attempts[j].prev /\ (Active(j)' <=> Active(j))
  /\ \/ recovering'[j] \in {recovering[j], NotRecovering}
     \/ /\ recovering'[j].stage # "load"
        /\ recovering[j] # NotRecovering \/ j \notin Workflows
  /\ j \in restored' => j \in restored
  /\ closed' = closed

\* Such a step keeps the invariant of j.
LEMMA IdlesKeepsWork ==
  ASSUME ListedInv, NEW j \in Ids, WorkOf(j), Idles(j)
  PROVE  WorkOf(j)'
<1>1. NoOp.place = "absent" /\ NotRecovering.stage = "idle"
  BY DEF NoOp, NotRecovering
<1>2. Active(j) \/ j \in work => ops[j].place = "pending"
  BY DEF ListedInv, PlacesAgree, WorkOf
<1> QED BY <1>1, <1>2 DEF WorkOf, Idles, Has

\* The attempt of j ends with d, which attests what the attempt remembered, and lets
\* observers go when it attests more.
LEMMA EndKeepsWork ==
  ASSUME NEW j \in Ids, WorkOf(j), NEW d, ops[j].place = "pending",
         ops'[j].delivery = d \/ ~Has(ops', j),
         ops'[j].place = "pending" \/ d \in Attests,
         ~Active(j)', Active(j), j \in work' => j \in work,
         UNCHANGED <<recovering, restored, closed>>,
         attempts[j].prev \in Attests => d \in Attests,
         d \in Attests => \/ j \notin work' \/ ops[j].delivery \in Attests
                          \/ attempts[j].prev \in Attests
  PROVE  WorkOf(j)'
<1>1. NotRecovering.stage # "load"
  BY DEF NotRecovering
<1>2. j \in work' => /\ ops'[j].place = "pending" /\ ops'[j].delivery \notin Attests
                     /\ j \notin restored'
  BY DEF WorkOf, Has
<1>3. recovering[j].stage = "load" /\ recovering[j].item.delivery \in Attests /\ ~closed =>
        /\ j \notin work'
        /\ Has(ops', j) => ops'[j].delivery \in Attests
  BY <1>1 DEF WorkOf, Has
<1> QED BY <1>2, <1>3 DEF WorkOf

\* What an attempt remembers of earlier deliveries its end attests, and nothing new.
LEMMA CaughtAttests ==
  ASSUME NEW i \in Ids
  PROVE  /\ \A u \in BOOLEAN :
              /\ attempts[i].prev \in Attests => CaughtDelivery(i, u) \in Attests
              /\ CaughtDelivery(i, u) \in Attests => \/ attempts[i].prev \in Attests
                                                     \/ ops[i].delivery \in Attests
         /\ FailedDelivery(attempts[i].prev) \in Attests <=> attempts[i].prev \in Attests
BY DEF CaughtDelivery, FailedDelivery, Attests

\* The end of an attempt keeps the invariant.
LEMMA FinishKeepsWork ==
  ASSUME TypeOK, ListedInv, WorkInv, NEW i \in Ids, NEW d \in Deliveries, Finish(i, d),
         Active(i), work' \in {work, work \ {i}}, UNCHANGED <<recovering, restored, closed>>,
         attempts[i].prev \in Attests => d \in Attests,
         d \in Attests => \/ i \notin work' \/ ops[i].delivery \in Attests
                          \/ attempts[i].prev \in Attests
  PROVE  \A j \in Ids \ Invites : WorkOf(j)'
<1> DEFINE updated == [ops[i] EXCEPT !.delivery = d]
           done == Settled(i, updated)
           result == [ops EXCEPT ![i] = IF done THEN [updated EXCEPT !.place = "confirmed"]
                                                ELSE updated]
           idle == [attempts EXCEPT ![i] = Idle]
<1>0. /\ ops \in [Ids -> Op] /\ ops[i] \in Op /\ attempts \in [Ids -> Attempt]
      /\ idle \in [Ids -> Attempt] /\ PushStatus(jobs) \in Seq(Job)
      /\ ops[i].place = "pending"
      /\ idle[i].stage = "idle" /\ \A j \in Ids \ {i} : idle[j] = attempts[j]
  BY InitialValues, PushStatusType DEF TypeOK, Idle, ListedInv, PlacesAgree
<1>1. /\ updated \in Op /\ [updated EXCEPT !.place = "confirmed"] \in Op
      /\ updated.delivery = d /\ updated.place = "pending"
      /\ [updated EXCEPT !.place = "confirmed"].delivery = d
  BY <1>0 DEF Op
<1>2. i \notin Invites /\ done => d \in Attests
  BY <1>1 DEF Settled, Attests
<1>3. /\ result \in [Ids -> Op] /\ \A j \in Ids \ {i} : result[j] = ops[j]
      /\ result[i].delivery = d /\ (result[i].place = "pending" \/ done)
  BY <1>0, <1>1
<1>4. ops' \in (IF done THEN Trim(result) ELSE {result}) /\ Pump(idle, PushStatus(jobs), result)
  BY DEF Finish
<1> HIDE DEF updated, done, result, idle
<1>5. \A j \in Ids : \/ ops'[j] = result[j]
                     \/ done /\ result[j].place = "confirmed" /\ ops'[j] = NoOp
  BY <1>3, <1>4, TrimEvicts
<1>6. \A j \in Ids : /\ attempts'[j].prev = idle[j].prev
                     /\ Active(j)' <=> idle[j].stage # "idle"
  BY <1>0, <1>4, PumpContinues DEF Continues, Active
<1>7. ASSUME NEW j \in Ids \ Invites, j # i PROVE WorkOf(j)'
  <2>1. Idles(j)
    BY <1>0, <1>3, <1>5, <1>6, <1>7 DEF Idles, Active
  <2> QED BY <2>1, IdlesKeepsWork DEF WorkInv
<1>8. ASSUME i \notin Invites PROVE WorkOf(i)'
  <2>1. NoOp.place = "absent"
    BY DEF NoOp
  <2>2. /\ ops'[i].delivery = d \/ ~Has(ops', i)
        /\ ops'[i].place = "pending" \/ d \in Attests
        /\ ~Active(i)' /\ (i \in work' => i \in work)
    BY <1>0, <1>2, <1>3, <1>5, <1>6, <1>8, <2>1 DEF Has
  <2>3. WorkOf(i)
    BY <1>8 DEF WorkInv
  <2> QED BY <1>0, <2>2, <2>3, EndKeepsWork
<1> QED BY <1>7, <1>8

\* Every stage of an attempt, its end and its echo keep the invariant.
LEMMA DeliverKeepsWork ==
  ASSUME TypeOK, ListedInv, WorkInv, NEW i \in Ids, Deliver(i)
  PROVE  \A j \in Ids \ Invites : WorkOf(j)'
<1> USE DEF history, journalState, quietHistory
<1>0. /\ attempts \in [Ids -> Attempt] /\ attempts[i] \in Attempt
      /\ ops \in [Ids -> Op] /\ ops[i] \in Op
      /\ jobs \in Seq(Job) /\ PushStatus(jobs) \in Seq(Job)
      /\ \A j \in Ids : Active(j) => ops[j].place = "pending"
  BY PushStatusType DEF TypeOK, ListedInv, PlacesAgree
<1>1. ASSUME NEW att \in [Ids -> Attempt],
             attempts' = att \/ \E q \in Seq(Job) : \E o : Pump(att, q, o),
             \A j \in Ids : /\ att[j].prev = attempts[j].prev
                            /\ att[j].stage = "idle" <=> ~Active(j),
             \A j \in Ids : /\ ops'[j].place = ops[j].place
                            /\ ops'[j].delivery = ops[j].delivery,
             UNCHANGED <<work, restored, recovering, closed>>
      PROVE  \A j \in Ids \ Invites : WorkOf(j)'
  <2>1. \A j \in Ids : /\ attempts'[j].prev = att[j].prev
                       /\ attempts'[j].stage = "idle" <=> att[j].stage = "idle"
    BY <1>1, PumpContinues DEF Continues
  <2>2. \A j \in Ids : Idles(j)
    BY <1>1, <2>1 DEF Idles, Active
  <2> QED BY <2>2, IdlesKeepsWork DEF WorkInv
<1>2. ASSUME NEW a \in Attempt, a.stage # "idle", Active(i), a.prev = attempts[i].prev
      PROVE  /\ [attempts EXCEPT ![i] = a] \in [Ids -> Attempt]
             /\ \A j \in Ids : /\ [attempts EXCEPT ![i] = a][j].prev = attempts[j].prev
                               /\ [attempts EXCEPT ![i] = a][j].stage = "idle" <=> ~Active(j)
  BY <1>0, <1>2 DEF Active
<1>3. \A s \in {"sign", "save", "slot", "prepare", "publish", "hold"}, w \in {"pending", "none"} :
        /\ [[attempts[i] EXCEPT !.stage = s] EXCEPT !.wait = w] \in Attempt
        /\ [[attempts[i] EXCEPT !.stage = s] EXCEPT !.wait = w].stage = s
        /\ [[attempts[i] EXCEPT !.stage = s] EXCEPT !.wait = w].prev = attempts[i].prev
        /\ [attempts[i] EXCEPT !.stage = s] \in Attempt
        /\ [attempts[i] EXCEPT !.stage = s].stage = s
        /\ [attempts[i] EXCEPT !.stage = s].prev = attempts[i].prev
  BY <1>0 DEF Attempt
<1>4. CASE IntentSaved(i) \/ Signed(i)
  <2>1. PICK s \in {"sign", "save"}, w \in {"pending", "none"} :
          attempts' = [attempts EXCEPT ![i].stage = s, ![i].wait = w]
    BY <1>4 DEF IntentSaved, Signed
  <2>2. attempts' = [attempts EXCEPT ![i] = [[attempts[i] EXCEPT !.stage = s]
                                             EXCEPT !.wait = w]]
    BY <1>0, <2>1
  <2>3. /\ Active(i) /\ UNCHANGED <<work, restored, recovering, closed>>
        /\ ops' = ops \/ ops' = [ops EXCEPT ![i].signed = TRUE]
    BY <1>4 DEF IntentSaved, Signed, Active
  <2>4. \A j \in Ids : ops'[j].place = ops[j].place /\ ops'[j].delivery = ops[j].delivery
    BY <1>0, <2>3 DEF Op
  <2>5. PICK a \in Attempt : /\ a.stage # "idle" /\ a.prev = attempts[i].prev
                             /\ attempts' = [attempts EXCEPT ![i] = a]
    BY <1>3, <2>2
  <2> QED BY <1>1, <1>2, <2>3, <2>4, <2>5
<1>5. CASE HoldEnds(i) \/ PublishStarts(i)
  <2>1. PICK a \in Attempt : /\ a.stage # "idle" /\ a.prev = attempts[i].prev
                             /\ attempts' = [attempts EXCEPT ![i] = a]
    BY <1>3, <1>5 DEF HoldEnds, PublishStarts
  <2>2. Active(i) /\ UNCHANGED <<ops, work, restored, recovering, closed>>
    BY <1>5 DEF HoldEnds, PublishStarts, Active
  <2> QED BY <1>1, <1>2, <2>1, <2>2
<1>6. CASE SignatureSaved(i)
  <2> DEFINE a(s) == [[attempts[i] EXCEPT !.stage = s] EXCEPT !.wait = "none"]
  <2>1. Active(i) /\ UNCHANGED <<ops, work, restored, recovering, closed>>
    BY <1>6 DEF SignatureSaved, Active
  <2>2. \/ attempts' = [attempts EXCEPT ![i] = a("prepare")]
        \/ Pump([attempts EXCEPT ![i] = a("hold")], jobs, ops)
    BY <1>6 DEF SignatureSaved
  <2>3. \A s \in {"hold", "prepare"} : /\ a(s) \in Attempt /\ a(s).stage # "idle"
                                       /\ a(s).prev = attempts[i].prev
    BY <1>3
  <2> HIDE DEF a
  <2> QED BY <1>0, <1>1, <1>2, <2>1, <2>2, <2>3
<1>7. CASE PublishAccepted(i)
  <2>1. PICK d \in Attests : Finish(i, d)
    BY <1>7 DEF PublishAccepted, Attests
  <2>2. /\ d \in Deliveries /\ Active(i) /\ work' = work \ {i}
        /\ UNCHANGED <<recovering, restored, closed>>
    BY <1>7 DEF PublishAccepted, Attests, Deliveries, Active
  <2> QED BY <2>1, <2>2, FinishKeepsWork
<1>8. CASE PublishRejected(i) \/ PublishLost(i) \/ FailsUnpublished(i) \/ ExpiresActive(i)
  <2>1. PICK u \in BOOLEAN : Finish(i, CaughtDelivery(i, u))
    BY <1>8 DEF PublishRejected, PublishLost, FailsUnpublished, ExpiresActive
  <2>2. CaughtDelivery(i, u) \in Deliveries
    BY DeliveryType DEF TypeOK
  <2>3. Active(i) /\ UNCHANGED <<work, recovering, restored, closed>>
    BY <1>8 DEF PublishRejected, PublishLost, FailsUnpublished, ExpiresActive, Active
  <2> QED BY <2>1, <2>2, <2>3, CaughtAttests, FinishKeepsWork
<1>9. CASE ExpiresQueued(i)
  <2> DEFINE d == FailedDelivery(attempts[i].prev)
  <2>1. d \in Deliveries
    BY DeliveryType DEF TypeOK
  <2>2. /\ Active(i) /\ attempts' = [attempts EXCEPT ![i] = Idle]
        /\ ops' = [ops EXCEPT ![i].delivery = d]
        /\ UNCHANGED <<work, recovering, restored, closed>>
    BY <1>9 DEF ExpiresQueued, Active
  <2>3. d \in Attests <=> attempts[i].prev \in Attests
    BY CaughtAttests
  <2> HIDE DEF d
  <2>4. /\ ops'[i].delivery = d /\ ops'[i].place = "pending" /\ ops[i].place = "pending"
        /\ ~Active(i)'
    BY <1>0, <2>1, <2>2 DEF Op, Active, Idle
  <2>5. ASSUME NEW j \in Ids \ Invites, j # i PROVE WorkOf(j)'
    <3>1. Idles(j)
      BY <1>0, <2>2, <2>5 DEF Idles, Active
    <3> QED BY <3>1, IdlesKeepsWork DEF WorkInv
  <2>6. i \notin Invites => WorkOf(i)'
    BY <2>2, <2>3, <2>4, EndKeepsWork DEF WorkInv
  <2> QED BY <2>5, <2>6
<1>10. CASE Observe(i)
  <2> DEFINE stays == i \in Workflows /\ Active(i)
             seen == [ops[i] EXCEPT !.signed = TRUE, !.delivery = "seen"]
             kept == stays \/ ops[i].key # NoKey
             result == [ops EXCEPT ![i] = IF kept THEN seen
                                          ELSE [seen EXCEPT !.place = "confirmed"]]
             idle == [attempts EXCEPT ![i] = Idle]
  <2>1. /\ ops' \in (IF kept THEN {result} ELSE Trim(result))
        /\ \/ attempts' = attempts /\ (stays \/ attempts = idle)
           \/ attempts' = idle \/ \E q \in Seq(Job) : \E o : Pump(idle, q, o)
        /\ work' = work \ {i} /\ UNCHANGED <<recovering, restored, closed>>
    BY <1>0, <1>10 DEF Observe
  <2>2. /\ seen \in Op /\ [seen EXCEPT !.place = "confirmed"] \in Op
        /\ seen.delivery = "seen" /\ [seen EXCEPT !.place = "confirmed"].delivery = "seen"
    BY <1>0 DEF Op, Deliveries
  <2>3. /\ result \in [Ids -> Op] /\ \A j \in Ids \ {i} : result[j] = ops[j]
        /\ result[i].delivery = "seen"
        /\ idle \in [Ids -> Attempt] /\ idle[i].stage = "idle"
        /\ \A j \in Ids \ {i} : idle[j] = attempts[j]
    BY <1>0, <2>2, InitialValues DEF Idle
  <2>4. stays => i \in Workflows
    OBVIOUS
  <2> HIDE DEF stays, kept, seen, result, idle
  <2>5. \A j \in Ids : \/ ops'[j] = result[j]
                       \/ result[j].place = "confirmed" /\ ops'[j] = NoOp
    BY <2>1, <2>3, TrimEvicts
  <2>6. /\ \A j \in Ids \ {i} : /\ attempts'[j].prev = attempts[j].prev
                                /\ attempts'[j].stage = "idle" <=> attempts[j].stage = "idle"
        /\ attempts'[i].stage = "idle" \/ (i \in Workflows /\ attempts' = attempts)
    BY <2>1, <2>3, <2>4, PumpContinues DEF Continues
  <2>7. ASSUME NEW j \in Ids \ Invites, j # i PROVE WorkOf(j)'
    <3>1. Idles(j)
      BY <2>1, <2>3, <2>5, <2>6, <2>7 DEF Idles, Active
    <3> QED BY <3>1, IdlesKeepsWork DEF WorkInv
  <2>8. ASSUME i \notin Invites PROVE WorkOf(i)'
    <3>1. WorkOf(i)
      BY <2>8 DEF WorkInv
    <3>2. NoOp.place = "absent" /\ NotRecovering.stage # "load"
      BY DEF NoOp, NotRecovering
    <3>3. i \notin work' /\ (Has(ops', i) => ops'[i].delivery \in Attests)
      BY <2>1, <2>3, <2>5, <3>2 DEF Has, Attests
    <3>4. Active(i)' => i \in Workflows /\ Active(i)
      BY <2>6 DEF Active
    <3> QED BY <2>1, <3>1, <3>2, <3>3, <3>4 DEF WorkOf
  <2> QED BY <2>7, <2>8
<1> QED BY <1>4, <1>5, <1>6, <1>7, <1>8, <1>9, <1>10 DEF Deliver

\* A send adds an event nobody knows, and a retry takes observers for an event that
\* attests nothing yet.
LEMMA ComposeKeepsWork ==
  ASSUME TypeOK, FenceInv, ListedInv, WorkInv, Compose
  PROVE  \A j \in Ids \ Invites : WorkOf(j)'
<1>0. attempts \in [Ids -> Attempt] /\ ops \in [Ids -> Op] /\ jobs \in Seq(Job)
  BY DEF TypeOK
<1>1. ASSUME NEW i \in Ids, NEW prev \in Deliveries, NEW q \in Seq(Job),
             NEW wait \in {"none", "pending", "done", "failed"}, Schedule(i, prev, wait, q)
      PROVE  /\ attempts'[i].prev = prev /\ attempts'[i].stage # "idle"
             /\ \A j \in Ids \ {i} : /\ attempts'[j].prev = attempts[j].prev
                                     /\ Active(j)' <=> Active(j)
  <2> DEFINE a == [stage |-> "queued", prev |-> prev, wait |-> wait]
  <2>1. Continues([attempts EXCEPT ![i] = a], q)
    BY <1>0, <1>1, ScheduleContinues
  <2>2. a \in Attempt /\ a.prev = prev /\ a.stage # "idle"
    BY DEF Attempt
  <2> HIDE DEF a
  <2>3. /\ [attempts EXCEPT ![i] = a][i] = a
        /\ \A j \in Ids \ {i} : [attempts EXCEPT ![i] = a][j] = attempts[j]
    BY <1>0, <2>2
  <2> QED BY <2>1, <2>2, <2>3 DEF Continues, Active
<1>2. ASSUME NEW i \in Ids, NEW k \in Keys \cup {NoKey}, NEW g \in BOOLEAN, Send(i, k, g)
      PROVE  \A j \in Ids \ Invites : WorkOf(j)'
  <2>1. /\ i \notin used /\ ops' = [ops EXCEPT ![i] = Fresh(k, g)]
        /\ work' = work \cup {i} /\ UNCHANGED <<restored, recovering, closed>>
        /\ Schedule(i, "failed", "pending", Append(jobs, JobOf("attempt", i, NoId, NoKey)))
    BY <1>2 DEF Send
  <2>2. /\ Fresh(k, g).place = "pending" /\ Fresh(k, g).delivery = "sending"
        /\ "sending" \notin Attests /\ "failed" \notin Attests
    BY DEF Fresh, NoOp, Attests
  <2>3. Append(jobs, JobOf("attempt", i, NoId, NoKey)) \in Seq(Job)
    BY <1>0, IntentJob
  <2>4. /\ attempts'[i].prev = "failed"
        /\ \A j \in Ids \ {i} : /\ attempts'[j].prev = attempts[j].prev
                                /\ Active(j)' <=> Active(j)
    BY <1>1, <2>1, <2>3 DEF Deliveries
  <2>5. ASSUME NEW j \in Ids \ Invites, j # i PROVE WorkOf(j)'
    <3>1. Idles(j)
      BY <1>0, <2>1, <2>4, <2>5 DEF Idles
    <3> QED BY <3>1, IdlesKeepsWork DEF WorkInv
  <2>6. i \notin Invites => WorkOf(i)'
    <3>1. i \notin restored /\ recovering[i].stage # "load"
      BY <2>1 DEF WorkInv, FenceInv, KnownIdsUsed
    <3>2. ops'[i].place = "pending" /\ ops'[i].delivery = "sending"
      BY <1>0, <2>1, <2>2
    <3> QED BY <2>1, <2>2, <2>4, <3>1, <3>2 DEF WorkOf, WorkInv
  <2> QED BY <2>5, <2>6
<1>3. ASSUME NEW i \in Ids, NEW g \in BOOLEAN, Retry(i, g)
      PROVE  \A j \in Ids \ Invites : WorkOf(j)'
  <2> DEFINE old == ops[i].delivery
  <2>1. /\ ops[i].place = "pending" /\ ~Active(i) /\ restored' = restored \ {i}
        /\ work' = IF old \in {"failed", "unknown"} THEN work \cup {i} ELSE work
        /\ ops' = [ops EXCEPT ![i].delivery = "sending", ![i].guarded = @ \/ g]
        /\ Schedule(i, old, "none", jobs) /\ UNCHANGED <<recovering, closed>>
    BY <1>3 DEF Retry
  <2>2. old \in Deliveries /\ ops[i] \in Op
    BY <1>0 DEF Op
  <2>3. /\ \A j \in Ids \ {i} : ops'[j] = ops[j]
        /\ ops'[i].place = "pending" /\ ops'[i].delivery = "sending"
    BY <1>0, <2>1, <2>2 DEF Op
  <2>4. /\ attempts'[i].prev = old /\ Active(i)'
        /\ \A j \in Ids \ {i} : /\ attempts'[j].prev = attempts[j].prev
                                /\ Active(j)' <=> Active(j)
    BY <1>0, <1>1, <2>1, <2>2 DEF Active
  <2>5. ASSUME NEW j \in Ids \ Invites, j # i PROVE WorkOf(j)'
    <3>1. Idles(j)
      BY <1>0, <2>1, <2>3, <2>4, <2>5 DEF Idles
    <3> QED BY <3>1, IdlesKeepsWork DEF WorkInv
  <2>6. i \notin Invites => WorkOf(i)'
    <3>1. "sending" \notin Attests /\ Attests \cap {"failed", "unknown"} = {}
      BY DEF Attests
    <3> QED BY <2>1, <2>3, <2>4, <3>1 DEF WorkOf, WorkInv, Has
  <2> QED BY <2>5, <2>6
<1>4. CASE Withdraw
  <2>1. \A j \in Ids : Idles(j)
    BY <1>4 DEF Withdraw, Idles, Active
  <2> QED BY <2>1, IdlesKeepsWork DEF WorkInv
<1> QED BY <1>2, <1>3, <1>4, OutboxAssumption
        DEF Compose, SendPlain, SendGuarded, RetryPlain, RetryRenewed

\* Of the calls that resolve a receipt recover() alone matters: what it holds across its
\* load attests nothing that observers still wait for.
LEMMA ResolveKeepsWork ==
  ASSUME TypeOK, ListedInv, WorkInv, NEW i \in Ids, Resolve(i)
  PROVE  \A j \in Ids \ Invites : WorkOf(j)'
<1> USE DEF history, journalState
<1>0. /\ ops \in [Ids -> Op] /\ disk \in [Ids -> Op] /\ recovering \in [Ids -> Recovering]
      /\ NotRecovering.stage # "load" /\ NotRecovering \in Recovering
      /\ \A j \in Ids : Active(j) => ops[j].place = "pending"
  BY DEF TypeOK, NotRecovering, Recovering, ListedInv, PlacesAgree, NoOp, Op, Deliveries
<1>1. ASSUME \A j \in Ids \ Invites : Idles(j) PROVE \A j \in Ids \ Invites : WorkOf(j)'
  BY <1>1, IdlesKeepsWork DEF WorkInv
<1>2. CASE \/ Acknowledge(i) \/ RetireStarts(i) \/ RetireGivenUp(i) \/ RetireVerified(i)
           \/ Dismiss(i) \/ DismissLocked(i)
  BY <1>1, <1>2 DEF Acknowledge, RetireStarts, RetireGivenUp, RetireVerified, Dismiss,
                    DismissLocked, Idles, Active
<1>3. ASSUME NEW r \in Recovering, recovering' = [recovering EXCEPT ![i] = r],
             \/ r = NotRecovering
             \/ r.stage # "load" /\ (recovering[i] # NotRecovering \/ i \notin Workflows),
             UNCHANGED <<ops, restored, attempts, work, closed>>
      PROVE  \A j \in Ids \ Invites : WorkOf(j)'
  BY <1>0, <1>1, <1>3 DEF Idles, Active
<1>4. CASE RecoverLoadFails(i)
  BY <1>0, <1>3, <1>4 DEF RecoverLoadFails
<1>5. ASSUME NEW k \in Keys, RecoverCalled(i, k) PROVE \A j \in Ids \ Invites : WorkOf(j)'
  <2> DEFINE r == [NotRecovering EXCEPT !.stage = "lock", !.key = k]
  <2>1. r \in Recovering /\ r.stage = "lock"
    BY DEF NotRecovering, Recovering, NoOp, Op, Deliveries
  <2>2. /\ recovering' = [recovering EXCEPT ![i] = r] /\ i \notin Workflows
        /\ UNCHANGED <<ops, restored, attempts, work, closed>>
    BY <1>5 DEF RecoverCalled
  <2> HIDE DEF r
  <2> QED BY <1>3, <2>1, <2>2
<1>6. CASE RecoverLocked(i)
  <2>1. recovering[i].stage = "lock" /\ UNCHANGED <<ops, restored, attempts, work, closed>>
    BY <1>6 DEF RecoverLocked
  <2>2. CASE recovering' = [recovering EXCEPT ![i] = NotRecovering]
    BY <1>0, <1>3, <2>1, <2>2
  <2>3. CASE recovering' = [recovering EXCEPT ![i].stage = "load", ![i].item = ops[i]]
    <3>1. recovering'[i].item = ops[i] /\ \A j \in Ids \ {i} : recovering'[j] = recovering[j]
      BY <1>0, <2>1, <2>3 DEF Recovering
    <3>2. recovering[i] # NotRecovering
      BY <2>1 DEF NotRecovering
    <3>3. \A j \in Ids \ {i} : Idles(j)
      BY <2>1, <3>1 DEF Idles, Active
    <3>4. i \notin Invites => WorkOf(i)'
      BY <2>1, <3>1, <3>2 DEF WorkOf, WorkInv, Active, Has
    <3> QED BY <3>3, <3>4, IdlesKeepsWork DEF WorkInv
  <2> QED BY <1>6, <2>2, <2>3 DEF RecoverLocked
<1>7. CASE RecoverLoaded(i)
  <2> DEFINE held == recovering[i].item
             item == IF Has(disk, i) /\ i \in restored THEN disk[i] ELSE held
             k == recovering[i].key
             taken == [item EXCEPT !.place = "pending", !.key = k]
  <2>1. recovering[i].stage = "load" /\ UNCHANGED <<attempts, work, closed>>
    BY <1>7 DEF RecoverLoaded
  <2>2. CASE /\ recovering' = [recovering EXCEPT ![i] = NotRecovering]
             /\ UNCHANGED <<ops, restored>>
    BY <1>0, <1>3, <2>1, <2>2
  <2>3. CASE /\ recovering' = [recovering EXCEPT ![i].stage = "save", ![i].item = NoOp]
             /\ restored' \in {restored, restored \ {i}}
             /\ ops' = [ops EXCEPT ![i] = taken]
    <3>1. held \in Op /\ recovering[i] # NotRecovering /\ item \in Op
      BY <1>0, <2>1 DEF Recovering
    <3>2. taken.place = "pending" /\ taken.delivery = item.delivery
      BY <3>1 DEF Op
    <3>3. i \notin restored => item = held
      OBVIOUS
    <3> HIDE DEF item, taken
    <3>4. /\ ops'[i] = taken /\ \A j \in Ids \ {i} : ops'[j] = ops[j]
          /\ recovering'[i].stage = "save"
          /\ \A j \in Ids \ {i} : recovering'[j] = recovering[j]
      BY <1>0, <2>1, <2>3 DEF Recovering
    <3>5. \A j \in Ids \ {i} : Idles(j)
      BY <2>1, <2>3, <3>4 DEF Idles, Active
    <3>6. ASSUME i \notin Invites PROVE WorkOf(i)'
      <4>1. WorkOf(i) /\ (i \in work \/ Active(i) => ~closed /\ i \notin restored)
        BY <3>6 DEF WorkInv, WorkOf
      <4>2. i \in work => held.delivery \notin Attests
        BY <2>1, <4>1 DEF WorkOf
      <4>3. Active(i) /\ held.delivery \in Attests => attempts[i].prev \in Attests
        BY <1>0, <2>1, <3>1, <4>1 DEF WorkOf, Has
      <4> QED BY <2>1, <2>3, <3>1, <3>2, <3>3, <3>4, <4>1, <4>2, <4>3 DEF WorkOf, Active
    <3> QED BY <3>5, <3>6, IdlesKeepsWork DEF WorkInv
  <2> QED BY <1>7, <2>2, <2>3 DEF RecoverLoaded
<1> QED BY <1>2, <1>4, <1>5, <1>6, <1>7 DEF Resolve

\* A save that ends takes the observers of what it removes, moves only what was seen, and
\* schedules additions only.
LEMMA SavedKeepsWork ==
  ASSUME TypeOK, FenceInv, ListedInv, WorkInv,
         \/ StatusSaved \/ AttemptSaved \/ DismissSaved
         \/ AcknowledgeSaved \/ RetireSaved \/ RecoverSaved
  PROVE  \A j \in Ids \ Invites : WorkOf(j)'
<1>0. /\ ops \in [Ids -> Op] /\ saving \in Job /\ attempts \in [Ids -> Attempt]
      /\ jobs \in Seq(Job) /\ NotRecovering.stage # "load" /\ NoOp.place = "absent"
      /\ recovering \in [Ids -> Recovering]
  BY DEF TypeOK, NotRecovering, NoOp
<1>1. ASSUME \A j \in Ids \ Invites : Idles(j) PROVE \A j \in Ids \ Invites : WorkOf(j)'
  BY <1>1, IdlesKeepsWork DEF WorkInv
<1>2. CASE StatusSaved \/ RecoverSaved
  BY <1>0, <1>1, <1>2 DEF StatusSaved, RecoverSaved, Idles, Active
<1>3. CASE AttemptSaved
  <2>1. saving.id \in Ids /\ attempts' = Told(saving.id, "done", jobs)
    BY <1>0, <1>3 DEF AttemptSaved, Job
  <2>2. \A j \in Ids : /\ attempts'[j].prev = attempts[j].prev
                       /\ Active(j)' <=> Active(j)
    BY <1>0, <2>1, ToldFacts DEF Active
  <2> QED BY <1>1, <1>3, <2>2 DEF AttemptSaved, Idles
<1>4. CASE DismissSaved
  <2>1. PICK i \in Ids : /\ saving.kind = "dismiss" /\ saving.id = i /\ work' = work \ {i}
                         /\ ops' = [ops EXCEPT ![i] = NoOp]
                         /\ UNCHANGED <<attempts, recovering, restored, closed>>
    BY <1>0, <1>4 DEF DismissSaved, Job
  <2>2. ~Active(i)
    BY <2>1 DEF FenceInv, SavesRely, ReliesWell, FencesHold
  <2>3. \A j \in Ids \ {i} : Idles(j)
    BY <1>0, <2>1 DEF Idles, Active
  <2>4. ~Has(ops', i) /\ i \notin work'
    BY <1>0, <2>1 DEF Has
  <2>5. i \notin Invites => WorkOf(i)'
    BY <2>1, <2>2, <2>4 DEF WorkOf, WorkInv, Active
  <2> QED BY <2>3, <2>5, IdlesKeepsWork DEF WorkInv
<1>5. ASSUME NEW o \in [Ids -> Op], NEW i \in Ids, ops' \in Released(o, i),
             \A j \in Ids \ Invites : o[j] = ops[j],
             \A j \in Ids \ Invites : /\ attempts'[j].prev = attempts[j].prev
                                      /\ Active(j)' <=> Active(j),
             UNCHANGED <<work, recovering, restored, closed>>
      PROVE  \A j \in Ids \ Invites : WorkOf(j)'
  <2>1. /\ \A j \in Ids \ {i} : \/ ops'[j] = o[j]
                                \/ o[j].place = "confirmed" /\ ops'[j] = NoOp
        /\ \/ ops'[i] = NoOp /\ Has(o, i)
           \/ /\ Has(o, i) /\ Has(ops', i) /\ ops'[i].delivery = o[i].delivery
              /\ ops'[i].place = "confirmed" \/ ops'[i].place = o[i].place
           \/ ~Has(o, i) /\ ops'[i] = o[i]
    BY <1>5, ReleasedChanges
  <2>2. \/ Has(o, i) /\ ~Active(i) /\ (o[i].delivery = "seen" \/ i \in Invites)
        \/ ops' = Acknowledged(o, i)
    BY <1>5 DEF Released
  <2>3. Acknowledged(o, i)[i].place = o[i].place
    BY DEF Acknowledged, Op
  <2>4. \A j \in (Ids \ Invites) \ {i} : Idles(j)
    BY <1>5, <2>1 DEF Idles
  <2>5. ASSUME i \notin Invites PROVE WorkOf(i)'
    <3>1. WorkOf(i) /\ o[i] = ops[i] /\ "seen" \in Attests
      BY <1>5, <2>5 DEF WorkInv, Attests
    <3>2. ops'[i].place # ops[i].place => i \notin work /\ ~Active(i)
      BY <2>2, <2>3, <2>5, <3>1 DEF WorkOf
    <3>3. Has(ops', i) => Has(ops, i) /\ ops'[i].delivery = ops[i].delivery
      BY <1>0, <2>1, <3>1 DEF Has
    <3>4. i \in work \/ Active(i) => Has(ops, i)
      BY <3>1 DEF WorkOf, ListedInv, PlacesAgree, Has
    <3>5. i \in work \/ Active(i) => /\ ops'[i].place = ops[i].place
                                     /\ ops'[i].delivery = ops[i].delivery
      BY <3>2, <3>3, <3>4 DEF Has
    <3>6. /\ i \in work' <=> i \in work
          /\ attempts'[i].prev = attempts[i].prev /\ (Active(i)' <=> Active(i))
      BY <1>5, <2>5
    <3> QED BY <1>5, <3>1, <3>3, <3>5, <3>6 DEF WorkOf
  <2> QED BY <2>4, <2>5, IdlesKeepsWork DEF WorkInv
<1>6. CASE AcknowledgeSaved
  <2>1. saving.id \in Ids /\ ops' \in Released(ops, saving.id)
        /\ UNCHANGED <<attempts, work, recovering, restored, closed>>
    BY <1>0, <1>6 DEF AcknowledgeSaved, Job
  <2> QED BY <1>0, <1>5, <2>1 DEF Active
<1>7. CASE RetireSaved
  <2>1. /\ saving.id \in Ids /\ saving.next \in Invites \cup {NoId}
        /\ saving.key \in Keys \cup {NoKey}
        /\ UNCHANGED <<work, recovering, restored, closed>>
    BY <1>0, <1>7 DEF RetireSaved, Job
  <2>2. CASE saving.next = NoId
    <3>1. ops' \in Released(ops, saving.id) /\ attempts' = attempts
      BY <1>7, <2>2 DEF RetireSaved
    <3> QED BY <1>0, <1>5, <2>1, <3>1 DEF Active
  <2>3. CASE saving.next # NoId
    <3> DEFINE n == saving.next
               o == [ops EXCEPT ![n] = Fresh(saving.key, FALSE)]
               a == [stage |-> "queued", prev |-> "failed", wait |-> "none"]
    <3>1. /\ ops' \in Released(o, saving.id) /\ n \in Invites /\ n \in Ids
          /\ attempts' = attempts \/ Schedule(n, "failed", "none", jobs)
      BY <1>7, <2>1, <2>3, OutboxAssumption DEF RetireSaved
    <3>2. Fresh(saving.key, FALSE) \in Op /\ a \in Attempt
      BY <2>1, InitialValues DEF Fresh, NoOp, Attempt, Deliveries
    <3>3. Schedule(n, "failed", "none", jobs) => Continues([attempts EXCEPT ![n] = a], jobs)
      BY <1>0, <3>1, ScheduleContinues DEF Deliveries
    <3> HIDE DEF n, a
    <3>4. /\ o \in [Ids -> Op] /\ \A j \in Ids \ Invites : o[j] = ops[j]
          /\ \A j \in Ids \ Invites : [attempts EXCEPT ![n] = a][j] = attempts[j]
      BY <1>0, <3>1, <3>2
    <3> HIDE DEF o
    <3>5. \A j \in Ids \ Invites : /\ attempts'[j].prev = attempts[j].prev
                                   /\ Active(j)' <=> Active(j)
      BY <3>1, <3>3, <3>4 DEF Continues, Active
    <3> QED BY <1>5, <2>1, <3>1, <3>4, <3>5
  <2> QED BY <2>2, <2>3
<1> QED BY <1>2, <1>3, <1>4, <1>6, <1>7

\* So does the rest of the journal: what hydration brings was not sent here.
LEMMA JournalKeepsWork ==
  ASSUME TypeOK, FenceInv, ListedInv, WorkInv, Journal
  PROVE  \A j \in Ids \ Invites : WorkOf(j)'
<1> USE DEF history
<1>0. /\ ops \in [Ids -> Op] /\ disk \in [Ids -> Op] /\ jobs \in Seq(Job) /\ saving \in Job
      /\ attempts \in [Ids -> Attempt] /\ recovering \in [Ids -> Recovering]
      /\ NotRecovering.stage # "load" /\ NoOp.place = "absent"
  BY DEF TypeOK, NotRecovering, NoOp
<1>1. ASSUME \A j \in Ids : Idles(j) PROVE \A j \in Ids \ Invites : WorkOf(j)'
  BY <1>1, IdlesKeepsWork DEF WorkInv
<1>2. CASE HydrateFails \/ SaveStarts
  BY <1>1, <1>2 DEF HydrateFails, SaveStarts, Idles, Active
<1>3. CASE SaveFails \/ SaveRefused
  <2>1. PICK job \in Job : \E q : FailJob(job, q)
    <3>1. jobs # <<>> => Head(jobs) \in Job
      BY <1>0
    <3> QED BY <1>0, <1>3, <3>1 DEF SaveFails, SaveRefused
  <2>2. UNCHANGED <<ops, restored, closed>>
    BY <1>3 DEF SaveFails, SaveRefused
  <2>3. \A j \in Ids : /\ recovering'[j] \in {recovering[j], NotRecovering}
                       /\ j \in work' => j \in work
    BY <1>0, <2>1 DEF FailJob
  <2>4. \A j \in Ids : /\ attempts'[j].prev = attempts[j].prev
                       /\ Active(j)' <=> Active(j)
    BY <1>0, <2>1, ToldFacts DEF FailJob, Job, Active
  <2>5. \A j \in Ids : Idles(j)
    BY <2>2, <2>3, <2>4 DEF Idles
  <2> QED BY <1>1, <2>5
<1>4. CASE Hydrate
  <2> DEFINE merged == [j \in Ids |-> IF Has(disk, j) THEN Restored(j, disk[j]) ELSE ops[j]]
  <2>1. /\ UNCHANGED <<attempts, work, recovering, closed>>
        /\ \/ UNCHANGED <<ops, restored>>
           \/ /\ ops' \in Trim(merged)
              /\ restored' = {j \in Ids : /\ Has(disk, j)
                                          /\ Outstanding(j, Decoded(disk[j]))}
    BY <1>4 DEF Hydrate
  <2>2. \A j \in Ids : /\ recovering[j].stage # "load"
                       /\ Has(disk, j) => ~Has(ops, j)
    BY <1>4 DEF Hydrate, ListedInv, OpensFirst
  <2>3. CASE UNCHANGED <<ops, restored>>
    BY <1>1, <2>1, <2>3 DEF Idles, Active
  <2>4. CASE ops' \in Trim(merged) /\ restored' = {j \in Ids : /\ Has(disk, j)
                                          /\ Outstanding(j, Decoded(disk[j]))}
    <3>1. merged \in [Ids -> Op] /\ \A j \in Ids : ~Has(disk, j) => merged[j] = ops[j]
      BY <1>0, RestoredType
    <3> HIDE DEF merged
    <3>2. \A j \in Ids : \/ ops'[j] = merged[j]
                         \/ merged[j].place = "confirmed" /\ ops'[j] = NoOp
      BY <2>4, <3>1, TrimEvicts
    <3>3. ASSUME NEW j \in Ids \ Invites, ~Has(disk, j) PROVE WorkOf(j)'
      <4>1. Idles(j)
        BY <2>1, <2>4, <3>1, <3>2, <3>3 DEF Idles, Active
      <4> QED BY <4>1, IdlesKeepsWork DEF WorkInv
    <3>4. ASSUME NEW j \in Ids \ Invites, Has(disk, j) PROVE WorkOf(j)'
      <4>1. ~Active(j) /\ j \notin work
        BY <2>2, <3>4 DEF ListedInv, PlacesAgree, WorkInv, WorkOf, Has
      <4> QED BY <2>1, <2>2, <4>1 DEF WorkInv, WorkOf, Active
    <3> QED BY <3>3, <3>4
  <2> QED BY <2>1, <2>3, <2>4
<1> QED BY <1>2, <1>3, <1>4, SavedKeepsWork DEF Journal

\* A revoked access hides confirmed events, and dispose() and a restart end it all.
LEMMA SessionKeepsWork ==
  ASSUME TypeOK, WorkInv, ListedInv, Session
  PROVE  \A j \in Ids \ Invites : WorkOf(j)'
<1>1. CASE Purge
  <2>1. \A j \in Ids : Idles(j)
    BY <1>1 DEF Purge, Idles, Active
  <2> QED BY <2>1, IdlesKeepsWork DEF WorkInv
<1>2. CASE Dispose \/ Restart
  <2>1. NotRecovering.stage # "load" /\ Idle.stage = "idle"
    BY DEF NotRecovering, Idle
  <2> QED BY <1>2, <2>1 DEF Dispose, Restart, WorkInv, WorkOf, Active, journalState
<1> QED BY <1>1, <1>2 DEF Session

\* After dispose() nothing is delivered and nobody waits, until a restart.
LEMMA ClosedIsOver ==
  ASSUME TypeOK, WorkInv, [Next]_vars, closed'
  PROVE  \A j \in Ids : j \notin work' /\ ~Active(j)'
<1> USE DEF history, journalState
<1>0. Idle.stage = "idle" /\ attempts \in [Ids -> Attempt]
  BY DEF Idle, TypeOK
<1>1. CASE Dispose
  BY <1>0, <1>1 DEF Dispose, Active
<1>2. CASE ~Dispose
  <2>1. closed
    BY <1>2 DEF Next, vars, memory, Journal, Hydrate, HydrateFails, SaveStarts, StatusSaved,
       AttemptSaved, DismissSaved, AcknowledgeSaved, RetireSaved, RecoverSaved, SaveFails,
       SaveRefused, Deliver, IntentSaved, Signed, SignatureSaved, HoldEnds, PublishStarts,
       PublishAccepted, PublishRejected, PublishLost, FailsUnpublished, ExpiresQueued,
       ExpiresActive, Observe, Resolve, Acknowledge, RetireStarts, RetireGivenUp,
       RetireVerified, Dismiss, DismissLocked, RecoverCalled, RecoverLocked, RecoverLoaded,
       RecoverLoadFails, Compose, SendPlain, SendGuarded, Send, Withdraw, RetryPlain,
       RetryRenewed, Retry, Session, Purge, Restart
  <2>2. \A j \in Ids : j \notin work /\ ~Active(j)
    BY <2>1 DEF WorkInv
  <2>3. ASSUME work' \subseteq work, \A j \in Ids : Active(j)' <=> Active(j)
        PROVE  \A j \in Ids : j \notin work' /\ ~Active(j)'
    BY <2>2, <2>3
  <2>4. CASE Journal
    <3>1. work' \subseteq work
      BY <2>4 DEF Journal, Hydrate, HydrateFails, SaveStarts, StatusSaved, AttemptSaved,
         DismissSaved, AcknowledgeSaved, RetireSaved, RecoverSaved, SaveFails, SaveRefused,
         FailJob
    <3>2. attempts' = attempts \/ \E i \in Ids, r \in {"done", "failed"} : \E q :
                                    attempts' = Told(i, r, q)
      <4>1. saving \in Job /\ (jobs # <<>> => Head(jobs) \in Job)
        BY DEF TypeOK
      <4>2. \A job \in Job : job.kind = "attempt" => job.id \in Ids
        BY DEF Job
      <4> QED BY <2>1, <2>4, <4>1, <4>2
              DEF Journal, Hydrate, HydrateFails, SaveStarts, StatusSaved, AttemptSaved,
                  DismissSaved, AcknowledgeSaved, RetireSaved, RecoverSaved, SaveFails,
                  SaveRefused, FailJob
    <3>3. \A j \in Ids : Active(j)' <=> Active(j)
      BY <1>0, <3>2, ToldFacts DEF Active
    <3> QED BY <2>3, <3>1, <3>3
  <2>5. ASSUME NEW i \in Ids, Deliver(i) PROVE FALSE
    BY <2>1, <2>2, <2>5 DEF Deliver, Active, IntentSaved, Signed, SignatureSaved, HoldEnds,
       PublishStarts, PublishAccepted, PublishRejected, PublishLost, FailsUnpublished,
       ExpiresQueued, ExpiresActive, Observe
  <2>6. ASSUME NEW i \in Ids, Resolve(i) PROVE \A j \in Ids : j \notin work' /\ ~Active(j)'
    BY <2>1, <2>3, <2>6 DEF Resolve, Acknowledge, RetireStarts, RetireGivenUp, RetireVerified,
       Retirable, Dismiss, DismissLocked, RecoverCalled, RecoverLocked, RecoverLoaded,
       RecoverLoadFails, Active
  <2>7. CASE Compose
    BY <2>1, <2>3, <2>7 DEF Compose, SendPlain, SendGuarded, Send, Withdraw, RetryPlain,
       RetryRenewed, Retry, Active
  <2>8. CASE Session \/ UNCHANGED vars
    BY <1>2, <2>3, <2>8 DEF Session, Purge, Restart, vars, memory, Active
  <2> QED BY <2>4, <2>5, <2>6, <2>7, <2>8 DEF Next
<1> QED BY <1>1, <1>2

\* Hydration brings known ids only.
LEMMA RestoredIsUsed ==
  ASSUME TypeOK, FenceInv, WorkInv, [Next]_vars
  PROVE  restored' \subseteq used'
<1> USE DEF history, journalState, quietHistory
<1>1. used \subseteq used'
  BY NextRuns DEF Remembered
<1>2. CASE Hydrate
  BY <1>1, <1>2 DEF Hydrate, FenceInv, KnownIdsUsed, WorkInv
<1>3. CASE ~Hydrate
  <2>1. restored' \subseteq restored
    BY <1>3 DEF Next, vars, memory, Journal, HydrateFails, SaveStarts, StatusSaved,
       AttemptSaved, DismissSaved, AcknowledgeSaved, RetireSaved, RecoverSaved, SaveFails,
       SaveRefused, Deliver, IntentSaved, Signed, SignatureSaved, HoldEnds, PublishStarts,
       PublishAccepted, PublishRejected, PublishLost, FailsUnpublished, ExpiresQueued,
       ExpiresActive, Observe, Resolve, Acknowledge, RetireStarts, RetireGivenUp,
       RetireVerified, Dismiss, DismissLocked, RecoverCalled, RecoverLocked, RecoverLoaded,
       RecoverLoadFails, Compose, SendPlain, SendGuarded, Send, Withdraw, RetryPlain,
       RetryRenewed, Retry, Session, Purge, Dispose, Restart
  <2> QED BY <1>1, <2>1 DEF WorkInv
<1> QED BY <1>2, <1>3

\* Every step keeps the invariant.
LEMMA WorkInductive ==
  /\ Init => WorkInv
  /\ TypeOK /\ FenceInv /\ ListedInv /\ WorkInv /\ [Next]_vars => WorkInv'
<1>1. Init => WorkInv
  <2>1. NotRecovering.stage # "load" /\ Idle.stage = "idle"
    BY DEF NotRecovering, Idle
  <2> QED BY <2>1, OutboxAssumption DEF Init, WorkInv, WorkOf, Active
<1>2. ASSUME TypeOK, FenceInv, ListedInv, WorkInv, [Next]_vars PROVE WorkInv'
  <2>1. CASE UNCHANGED vars
    <3>1. UNCHANGED <<ops, restored, attempts, work, closed, recovering, used>>
      BY <2>1 DEF vars, memory, history
    <3> QED BY <1>2, <3>1 DEF WorkInv, WorkOf, Active, Has
  <2>2. CASE Next
    <3>1. \A j \in Ids \ Invites : WorkOf(j)'
      BY <1>2, <2>2, JournalKeepsWork, DeliverKeepsWork, ResolveKeepsWork, ComposeKeepsWork,
         SessionKeepsWork DEF Next
    <3> QED BY <1>2, <3>1, ClosedIsOver, RestoredIsUsed DEF WorkInv
  <2> QED BY <1>2, <2>1, <2>2
<1> QED BY <1>1, <1>2

\* Observers wait only for an event whose delivery is still open: every step that attests
\* it, moves it or removes it lets them go, and recover(), which puts a record back that
\* it read before its load, puts back none that attests more than is shown
\* (deliveryWork, outbox.ts:253-284, 553-716, 901-966, 1122-1176).
THEOREM WorkStaysOpen == Spec => []WorkIsOpen
<1>1. FenceInv => TypeOK
  BY DEF FenceInv
<1>2. Spec => [](WorkInv /\ TypeOK)
  BY <1>1, WorkInductive, ListedHolds, PTL DEF Spec
<1>3. WorkInv /\ TypeOK => WorkIsOpen
  BY DEF WorkInv, WorkOf, WorkIsOpen, TypeOK, Op, Deliveries, Attests
<1> QED BY <1>2, <1>3, PTL

----------------------------------------------------------------------------
\* Slots are neither exceeded nor idle.

\* The slots att uses can be counted, and fit; some attempt waits for a slot.
Fits(att) == IsFiniteSet(Busy(att)) /\ Cardinality(Busy(att)) <= MaxInflight
Waits(att) == \E i \in Ids : att[i].stage \in {"queued", "slot"}

\* The invariant, said of the attempts.
LEMMA SlotsFit == SlotsInv <=> Fits(attempts) /\ (Waits(attempts) => Full(attempts))
BY DEF SlotsInv, SlotsInUse, Fits, Waits

\* Attempts that use the same slots fit as well, and are as full.
LEMMA SameSlots ==
  ASSUME NEW att, NEW p, Busy(p) = Busy(att)
  PROVE  /\ Fits(att) => Fits(p)
         /\ Full(p) <=> Full(att)
BY DEF Fits, Full

\* One more slot is taken while one is free, and one attempt less waits.
LEMMA SlotTaken ==
  ASSUME NEW att \in [Ids -> Attempt], NEW p, NEW i \in Ids, Fits(att), ~Full(att),
         i \notin Busy(att), Busy(p) = Busy(att) \cup {i}
  PROVE  Fits(p) /\ Cardinality(Busy(p)) = Cardinality(Busy(att)) + 1
<1>1. /\ Cardinality(Busy(att)) \in Nat /\ IsFiniteSet(Busy(p))
      /\ Cardinality(Busy(p)) = Cardinality(Busy(att)) + 1
  BY FS_CardinalityType, FS_AddElement DEF Fits
<1> QED BY <1>1, OutboxAssumption DEF Fits, Full

\* A delivery that starts takes a slot.
LEMMA LaunchTakes ==
  ASSUME NEW att \in [Ids -> Attempt], NEW q, NEW C \in SUBSET Ids, Fits(att), ~closed,
         \A i \in C : att[i].stage = "queued", Launch(att, q, C)
  PROVE  \/ attempts' = att /\ (Full(att) \/ C = {})
         \/ /\ ~Full(att) /\ Fits(attempts') /\ (Waits(attempts') => Waits(att))
            /\ Cardinality(Busy(attempts')) = Cardinality(Busy(att)) + 1
            /\ \E i \in C : /\ attempts'[i].stage = "intent"
                            /\ \A j \in Ids \ {i} : attempts'[j] = att[j]
<1>1. CASE Full(att) \/ C = {}
  BY <1>1 DEF Launch
<1>2. CASE ~(Full(att) \/ C = {})
  <2>1. PICK i \in C : attempts' = Started(att, i)
    BY <1>2 DEF Launch
  <2>2. /\ attempts'[i].stage = "intent" /\ att[i].stage = "queued"
        /\ \A j \in Ids \ {i} : attempts'[j] = att[j]
    BY <2>1 DEF Started
  <2>3. i \notin Busy(att) /\ Busy(attempts') = Busy(att) \cup {i}
    BY <2>2 DEF Busy
  <2>4. Fits(attempts') /\ Cardinality(Busy(attempts')) = Cardinality(Busy(att)) + 1
    BY <1>2, <2>3, SlotTaken
  <2> QED BY <1>2, <2>2, <2>4 DEF Waits
<1> QED BY <1>1, <1>2

\* A slot that was given up is passed on to an attempt that waits, if one does.
LEMMA PumpFills ==
  ASSUME NEW att \in [Ids -> Attempt], NEW q, NEW o, Fits(att), ~closed, Pump(att, q, o),
         Waits(att) => Cardinality(Busy(att)) + 1 >= MaxInflight,
         \A j \in Ids : att[j].stage = "queued" => /\ o[j].place = "pending"
                                                   /\ o[j].delivery = "sending"
  PROVE  Fits(attempts') /\ (Waits(attempts') => Full(attempts'))
<1> DEFINE C == {i \in PendingIn(o) : att[i].stage = "queued" /\ o[i].delivery = "sending"}
<1>0. Cardinality(Busy(att)) \in Nat
  BY FS_CardinalityType DEF Fits
<1>1. ASSUME NEW i \in Ids, att[i].stage = "slot", ~Full(att),
             attempts' = [att EXCEPT ![i].stage = "prepare"]
      PROVE  Fits(attempts') /\ Full(attempts')
  <2>1. /\ attempts'[i].stage = "prepare"
        /\ \A j \in Ids \ {i} : attempts'[j] = att[j]
    BY <1>1 DEF Attempt
  <2>2. i \notin Busy(att) /\ Busy(attempts') = Busy(att) \cup {i}
    BY <1>1, <2>1 DEF Busy
  <2>3. Waits(att)
    BY <1>1 DEF Waits
  <2>4. Fits(attempts') /\ Cardinality(Busy(attempts')) = Cardinality(Busy(att)) + 1
    BY <1>1, <2>2, SlotTaken
  <2> QED BY <2>3, <2>4, OutboxAssumption DEF Full
<1>2. CASE /\ Launch(att, q, C)
           /\ {i \in Ids : att[i].stage = "slot"} = {} \/ Full(att)
  <2>1. C \in SUBSET Ids /\ \A i \in C : att[i].stage = "queued"
    BY DEF PendingIn
  <2>2. C = {} => ~Waits(att) \/ Full(att)
    BY <1>2 DEF Waits, PendingIn
  <2> HIDE DEF C
  <2>3. CASE attempts' = att /\ (Full(att) \/ C = {})
    BY <2>2, <2>3
  <2>4. CASE /\ Fits(attempts') /\ (Waits(attempts') => Waits(att))
             /\ Cardinality(Busy(attempts')) = Cardinality(Busy(att)) + 1
    BY <1>0, <2>4, OutboxAssumption DEF Full
  <2> QED BY <1>2, <2>1, <2>3, <2>4, LaunchTakes
<1> QED BY <1>1, <1>2 DEF Pump

\* The end of an attempt, or its hold, passes its slot on.
LEMMA EndFills ==
  ASSUME TypeOK, ListedInv, ShownInv, SlotsInv, ~closed, NEW i \in Ids, NEW a \in Attempt,
         a.stage \in {"idle", "hold"}, NEW q, NEW o, Pump([attempts EXCEPT ![i] = a], q, o),
         \A j \in Ids \ {i} : o[j] = ops[j]
  PROVE  SlotsInv'
<1> DEFINE att == [attempts EXCEPT ![i] = a]
<1>1. /\ att \in [Ids -> Attempt] /\ att[i] = a /\ \A j \in Ids \ {i} : att[j] = attempts[j]
  BY DEF TypeOK
<1>2. \A j \in Ids : att[j].stage = "queued" => /\ o[j].place = "pending"
                                                /\ o[j].delivery = "sending"
  BY <1>1 DEF ListedInv, PlacesAgree, ShownInv, Settles, Active
<1> HIDE DEF att
<1>3. Fits(attempts) /\ (Waits(attempts) => Full(attempts))
  BY SlotsFit
<1>4. Busy(att) = Busy(attempts) \ {i}
  BY <1>1 DEF Busy
<1>5. /\ Cardinality(Busy(attempts)) \in Nat /\ IsFiniteSet(Busy(att))
      /\ Cardinality(Busy(att)) \in Nat
      /\ Cardinality(Busy(att)) \in {Cardinality(Busy(attempts)), Cardinality(Busy(attempts)) - 1}
  BY <1>3, <1>4, FS_CardinalityType, FS_RemoveElement DEF Fits
<1>6. Waits(att) => Waits(attempts)
  BY <1>1 DEF Waits
<1>7. Fits(att) /\ (Waits(att) => Cardinality(Busy(att)) + 1 >= MaxInflight)
  BY <1>3, <1>5, <1>6, OutboxAssumption DEF Fits, Full
<1>8. Fits(attempts') /\ (Waits(attempts') => Full(attempts'))
  BY <1>1, <1>2, <1>7, PumpFills DEF att
<1> QED BY <1>8, SlotsFit DEF SlotsInv, SlotsInUse, Fits, Waits, Full

\* A scheduled attempt starts while a slot is free, and waits only when none is.
LEMMA ScheduleFills ==
  ASSUME TypeOK, SlotsInv, ~closed, NEW i \in Ids, ~Active(i), NEW prev \in Deliveries,
         NEW wait \in {"none", "pending", "done", "failed"}, NEW q,
         Schedule(i, prev, wait, q)
  PROVE  SlotsInv'
<1> DEFINE a == [stage |-> "queued", prev |-> prev, wait |-> wait]
           att == [attempts EXCEPT ![i] = a]
<1>1. /\ a \in Attempt /\ a.stage = "queued"
  BY DEF Attempt
<1>2. Launch(att, q, {i})
  BY DEF Schedule
<1> HIDE DEF a
<1>3. /\ att \in [Ids -> Attempt] /\ att[i] = a /\ \A j \in Ids \ {i} : att[j] = attempts[j]
  BY <1>1 DEF TypeOK
<1> HIDE DEF att
<1>4. Busy(att) = Busy(attempts)
  BY <1>1, <1>3 DEF Busy, Active
<1>5. /\ Fits(attempts) /\ (Waits(attempts) => Full(attempts))
      /\ Fits(att) /\ (Full(att) <=> Full(attempts))
  BY <1>4, SlotsFit, SameSlots
<1>6. \/ attempts' = att /\ Full(att)
      \/ /\ ~Full(att) /\ Fits(attempts')
         /\ attempts'[i].stage = "intent" /\ \A j \in Ids \ {i} : attempts'[j] = att[j]
  BY <1>1, <1>2, <1>3, <1>5, LaunchTakes
<1>7. Fits(attempts') /\ (Waits(attempts') => Full(attempts'))
  BY <1>3, <1>5, <1>6 DEF Waits
<1> QED BY <1>7 DEF SlotsInv, SlotsInUse, Fits, Waits, Full

\* A step that takes or gives up no slot, and lets nobody else wait, keeps the invariant.
LEMMA StandsFills ==
  ASSUME SlotsInv, \A j \in Ids : \/ attempts'[j].stage = attempts[j].stage
                                  \/ j \in Busy(attempts) /\ j \in Busy(attempts')
                                  \/ j \notin Busy(attempts) /\ attempts'[j].stage = "idle"
  PROVE  SlotsInv'
<1>1. Busy(attempts') = Busy(attempts)
  BY DEF Busy
<1>2. Waits(attempts') => Waits(attempts)
  BY DEF Waits, Busy
<1>3. Fits(attempts') /\ (Waits(attempts') => Full(attempts'))
  BY <1>1, <1>2, SlotsFit, SameSlots
<1> QED BY <1>3 DEF SlotsInv, SlotsInUse, Fits, Waits, Full

\* The end of an attempt passes its slot on.
LEMMA FinishFills ==
  ASSUME TypeOK, ListedInv, ShownInv, SlotsInv, ~closed, NEW i \in Ids, NEW d, Finish(i, d)
  PROVE  SlotsInv'
<1> DEFINE updated == [ops[i] EXCEPT !.delivery = d]
           done == Settled(i, updated)
           result == [ops EXCEPT ![i] = IF done THEN [updated EXCEPT !.place = "confirmed"]
                                                ELSE updated]
<1>1. Pump([attempts EXCEPT ![i] = Idle], PushStatus(jobs), result)
  BY DEF Finish
<1>2. \A j \in Ids \ {i} : result[j] = ops[j]
  BY DEF TypeOK
<1> HIDE DEF result
<1> QED BY <1>1, <1>2, InitialValues, EndFills DEF Idle

\* So do all stages of an attempt.
LEMMA DeliverFills ==
  ASSUME TypeOK, ListedInv, WorkInv, ShownInv, SlotsInv, NEW i \in Ids, Deliver(i)
  PROVE  SlotsInv'
<1> USE DEF history, journalState, quietHistory
<1>0. /\ attempts \in [Ids -> Attempt] /\ attempts[i] \in Attempt /\ ops \in [Ids -> Op]
      /\ Idle \in Attempt /\ Idle.stage = "idle" /\ (Active(i) => ~closed)
  BY InitialValues DEF TypeOK, Idle, WorkInv
<1>1. ASSUME NEW s, \/ attempts[i].stage = s
                    \/ i \in Busy(attempts) /\ s \in {"sign", "save", "prepare", "publish"},
             \/ attempts' = [attempts EXCEPT ![i].stage = s]
             \/ \E w : attempts' = [attempts EXCEPT ![i].stage = s, ![i].wait = w]
      PROVE  SlotsInv'
  <2>1. attempts'[i].stage = s /\ \A j \in Ids \ {i} : attempts'[j] = attempts[j]
    BY <1>0, <1>1 DEF Attempt
  <2> QED BY <1>1, <2>1, StandsFills DEF Busy
<1>2. CASE IntentSaved(i) \/ Signed(i) \/ PublishStarts(i)
  <2>1. i \in Busy(attempts)
    BY <1>2 DEF IntentSaved, Signed, PublishStarts, Busy
  <2> QED BY <1>1, <1>2, <2>1 DEF IntentSaved, Signed, PublishStarts
<1>3. CASE HoldEnds(i)
  <2>1. CASE Full(attempts)
    <3>1. /\ attempts'[i].stage = "slot" /\ attempts[i].stage = "hold"
          /\ \A j \in Ids \ {i} : attempts'[j] = attempts[j]
      BY <1>0, <1>3, <2>1 DEF HoldEnds, Attempt
    <3>2. Busy(attempts') = Busy(attempts)
      BY <3>1 DEF Busy
    <3>3. Fits(attempts') /\ Full(attempts')
      BY <2>1, <3>2, SlotsFit, SameSlots
    <3> QED BY <3>3 DEF SlotsInv, SlotsInUse, Fits, Full
  <2>2. CASE ~Full(attempts)
    <3>1. /\ attempts'[i].stage = "prepare" /\ attempts[i].stage = "hold"
          /\ \A j \in Ids \ {i} : attempts'[j] = attempts[j]
      BY <1>0, <1>3, <2>2 DEF HoldEnds, Attempt
    <3>2. i \notin Busy(attempts) /\ Busy(attempts') = Busy(attempts) \cup {i}
      BY <3>1 DEF Busy
    <3>3. Fits(attempts') /\ ~Waits(attempts')
      BY <1>0, <2>2, <3>1, <3>2, SlotsFit, SlotTaken DEF Waits
    <3> QED BY <3>3 DEF SlotsInv, SlotsInUse, Fits, Waits
  <2> QED BY <2>1, <2>2
<1>4. CASE SignatureSaved(i)
  <2> DEFINE a == [[attempts[i] EXCEPT !.stage = "hold"] EXCEPT !.wait = "none"]
  <2>1. i \in Busy(attempts) /\ Active(i)
    BY <1>4 DEF SignatureSaved, Busy, Active
  <2>2. a \in Attempt /\ a.stage = "hold"
    BY <1>0 DEF Attempt
  <2>3. \/ attempts' = [attempts EXCEPT ![i].stage = "prepare", ![i].wait = "none"]
        \/ Pump([attempts EXCEPT ![i] = a], jobs, ops)
    BY <1>4 DEF SignatureSaved
  <2> HIDE DEF a
  <2> QED BY <1>0, <1>1, <2>1, <2>2, <2>3, EndFills
<1>5. CASE \/ PublishAccepted(i) \/ PublishRejected(i) \/ PublishLost(i)
           \/ FailsUnpublished(i) \/ ExpiresActive(i)
  <2>1. Active(i) /\ \E d : Finish(i, d)
    BY <1>5 DEF PublishAccepted, PublishRejected, PublishLost, FailsUnpublished,
                ExpiresActive, Active
  <2> QED BY <1>0, <2>1, FinishFills
<1>6. CASE ExpiresQueued(i)
  <2>1. i \notin Busy(attempts) /\ attempts' = [attempts EXCEPT ![i] = Idle]
    BY <1>6 DEF ExpiresQueued, Busy
  <2> QED BY <1>0, <2>1, StandsFills
<1>7. CASE Observe(i)
  <2> DEFINE seen == [ops[i] EXCEPT !.signed = TRUE, !.delivery = "seen"]
             r(kept) == [ops EXCEPT ![i] = IF kept THEN seen
                                           ELSE [seen EXCEPT !.place = "confirmed"]]
  <2>1. /\ ~closed
        /\ \/ attempts' = attempts
           \/ ~Controlled(i) /\ attempts' = [attempts EXCEPT ![i] = Idle]
           \/ \E kept \in BOOLEAN :
                Pump([attempts EXCEPT ![i] = Idle], PushStatus(jobs), r(kept))
    BY <1>7 DEF Observe
  <2>2. \A kept \in BOOLEAN : \A j \in Ids \ {i} : r(kept)[j] = ops[j]
    BY <1>0
  <2> HIDE DEF r
  <2>3. CASE attempts' = attempts
    BY <2>3, StandsFills
  <2>4. CASE ~Controlled(i) /\ attempts' = [attempts EXCEPT ![i] = Idle]
    <3>1. i \notin Busy(attempts)
      BY <2>4 DEF Controlled, Busy
    <3> QED BY <1>0, <2>4, <3>1, StandsFills
  <2> QED BY <1>0, <2>1, <2>2, <2>3, <2>4, EndFills
<1> QED BY <1>2, <1>3, <1>4, <1>5, <1>6, <1>7 DEF Deliver

\* Every step keeps the invariant, unless recover() is called: it may put back a status
\* it read before a retry, and the pump then passes that retry over.
LEMMA SlotsInductive ==
  ASSUME FenceInv, ListedInv, WorkInv, ShownInv, SlotsInv, [Next]_vars
  PROVE  SlotsInv'
<1> USE DEF history, journalState
<1>0. /\ TypeOK /\ attempts \in [Ids -> Attempt] /\ ops \in [Ids -> Op] /\ saving \in Job
      /\ Idle.stage = "idle" /\ (jobs # <<>> => Head(jobs) \in Job)
  BY DEF FenceInv, TypeOK, Idle
<1>1. ASSUME attempts' = attempts PROVE SlotsInv'
  BY <1>1, StandsFills
<1>2. CASE Journal
  <2>1. ASSUME NEW i \in Ids, NEW r \in {"done", "failed"}, NEW q, attempts' = Told(i, r, q)
        PROVE  SlotsInv'
    BY <1>0, <2>1, ToldFacts, StandsFills
  <2>2. CASE AttemptSaved
    BY <1>0, <2>1, <2>2 DEF AttemptSaved, Job
  <2>3. CASE SaveFails \/ SaveRefused
    <3>1. PICK job \in Job : \E q : FailJob(job, q)
      BY <1>0, <2>3 DEF SaveFails, SaveRefused
    <3> QED BY <1>1, <2>1, <3>1 DEF FailJob, Job
  <2>4. CASE RetireSaved
    <3>1. PICK n \in Ids \cup {NoId} : n = saving.next
      BY <1>0, <2>4, OutboxAssumption DEF RetireSaved, Job
    <3>2. n # NoId => n \in Ids /\ ~Active(n)
      BY <2>4, <3>1 DEF RetireSaved, FenceInv, SavesRely, ReliesWell, Unknown
    <3>3. \/ attempts' = attempts
          \/ n # NoId /\ ~closed /\ Schedule(n, "failed", "none", jobs)
      BY <2>4, <3>1 DEF RetireSaved
    <3> QED BY <1>0, <1>1, <3>2, <3>3, ScheduleFills DEF Deliveries
  <2> QED BY <1>1, <1>2, <2>2, <2>3, <2>4
          DEF Journal, Hydrate, HydrateFails, SaveStarts, StatusSaved, DismissSaved,
              AcknowledgeSaved, RecoverSaved
<1>3. ASSUME NEW i \in Ids, Deliver(i) PROVE SlotsInv'
  BY <1>0, <1>3, DeliverFills
<1>4. ASSUME NEW i \in Ids, Resolve(i) PROVE SlotsInv'
  BY <1>1, <1>4 DEF Resolve, Acknowledge, RetireStarts, RetireGivenUp, RetireVerified, Dismiss,
     DismissLocked, RecoverCalled, RecoverLocked, RecoverLoaded, RecoverLoadFails
<1>5. CASE Compose
  <2>1. ASSUME NEW i \in Ids, NEW k, NEW g, Send(i, k, g) PROVE SlotsInv'
    <3>1. ~Active(i) /\ ~closed
      BY <2>1 DEF Send, FenceInv, KnownIdsUsed
    <3>2. Schedule(i, "failed", "pending", Append(jobs, JobOf("attempt", i, NoId, NoKey)))
      BY <2>1 DEF Send
    <3> QED BY <1>0, <3>1, <3>2, ScheduleFills DEF Deliveries
  <2>2. ASSUME NEW i \in Ids, NEW g, Retry(i, g) PROVE SlotsInv'
    <3>1. /\ ~Active(i) /\ ~closed /\ Schedule(i, ops[i].delivery, "none", jobs)
          /\ ops[i].delivery \in Deliveries
      BY <1>0, <2>2 DEF Retry, Op
    <3> QED BY <1>0, <3>1, ScheduleFills
  <2>3. CASE Withdraw
    BY <1>1, <2>3 DEF Withdraw
  <2> QED BY <1>5, <2>1, <2>2, <2>3, OutboxAssumption
          DEF Compose, SendPlain, SendGuarded, RetryPlain, RetryRenewed
<1>6. CASE Session
  <2>1. CASE Purge
    BY <1>1, <2>1 DEF Purge
  <2>2. CASE attempts' = [j \in Ids |-> Idle]
    <3>1. Busy(attempts') = {} /\ ~Waits(attempts')
      BY <1>0, <2>2 DEF Busy, Waits
    <3>2. Fits(attempts')
      BY <3>1, FS_EmptySet, OutboxAssumption DEF Fits
    <3> QED BY <3>1, <3>2 DEF SlotsInv, SlotsInUse, Fits, Waits
  <2> QED BY <1>6, <2>1, <2>2 DEF Session, Dispose, Restart
<1>7. CASE UNCHANGED vars
  BY <1>1, <1>7 DEF vars, memory
<1> QED BY <1>2, <1>3, <1>4, <1>5, <1>6, <1>7 DEF Next

\* No more deliveries run than there are slots, and none waits while a slot is free: the
\* end of every attempt, an echo and a hold pass the slot on, and after dispose() nothing
\* waits (pumpDeliveries(), schedule() and deliver(), outbox.ts:285-307, 539-552, 553-716).
THEOREM SlotsAreUsed ==
  ASSUME "recover" \notin Calls
  PROVE  Spec => []SlotsInUse
<1>1. Init => ShownInv /\ SlotsInv
  <2> SUFFICES ASSUME Init PROVE ShownInv /\ SlotsInv
    OBVIOUS
  <2>1. /\ Idle.stage = "idle" /\ NoOp.place = "absent"
        /\ \A j \in Ids : attempts[j] = Idle /\ ops[j] = NoOp
    BY DEF Idle, NoOp, Init, Empty
  <2>2. Busy(attempts) = {} /\ ~Waits(attempts)
    BY <2>1 DEF Busy, Waits
  <2>3. Fits(attempts)
    BY <2>2, FS_EmptySet, OutboxAssumption DEF Fits
  <2> QED BY <2>1, <2>2, <2>3, SlotsFit DEF ShownInv, Settles, Active
<1>2. FenceInv => TypeOK
  BY DEF FenceInv
<1>3. Spec => []Implementing
  <2>1. Spec => [](EvidenceInv /\ NobodyRecovers)
    BY EvidenceInvariant
  <2>2. EvidenceInv /\ NobodyRecovers /\ ListedInv /\ AttestedInv /\ FenceInv => Implementing
    BY DEF Implementing
  <2> QED BY <2>1, <2>2, ListedHolds, PTL
<1>4. Spec => []WorkInv
  BY <1>2, WorkInductive, ListedHolds, PTL DEF Spec
<1>5. Implementing /\ Implementing' /\ ShownInv /\ [Next]_vars => ShownInv'
  BY ShownInductive
<1>6. Spec => []ShownInv
  BY <1>1, <1>3, <1>5, PTL DEF Spec
<1>7. FenceInv /\ ListedInv /\ WorkInv /\ ShownInv /\ SlotsInv /\ [Next]_vars => SlotsInv'
  BY SlotsInductive
<1>8. Spec => []SlotsInv
  BY <1>1, <1>4, <1>6, <1>7, ListedHolds, PTL DEF Spec
<1> QED BY <1>8, PTL DEF SlotsInv

----------------------------------------------------------------------------
\* A recovery key has one owner.

\* In the records o no key has two owners.
OneOwner(o) == \A i, j \in Ids : KeyOf(o, i) = KeyOf(o, j) /\ KeyOf(o, i) # NoKey => i = j

\* What the promise says of the screen, the journal and the save.
LEMMA OwnersAgree ==
  /\ OneOwnerPerKey <=> OneOwner(ops) /\ OneOwner(disk) /\ OneOwner(captured)
  /\ OneOwnerPerKey' <=> OneOwner(ops') /\ OneOwner(disk') /\ OneOwner(captured')
BY DEF OneOwnerPerKey, OneOwner, KeyOf

\* The invariants a step relies on.
Owning == /\ TypeOK /\ FenceInv /\ ListedInv /\ PolicyInv /\ ReleasedInv /\ WorkInv
          /\ KeysInv

\* Who owns a key is pending, so a key that is not taken has no owner.
LEMMA NotTaken ==
  ASSUME Owning, NEW i \in Ids, NEW k \in Keys, ~KeyTaken(k, i)
  PROVE  \A j \in Ids \ {i} : OwnKey(j) # k
<1>1. k # NoKey /\ ops \in [Ids -> Op]
  BY OutboxAssumption DEF Owning, TypeOK
<1>2. \A j \in Ids : ops[j].place \in {"absent", "pending", "confirmed"}
  BY <1>1 DEF Op
<1> QED BY <1>1, <1>2 DEF Owning, ReleasedInv, OwnKey, KeyOf, KeyTaken, PendingIn, Has

\* An acknowledgement takes the key of its receipt.
LEMMA AcknowledgedKeys ==
  ASSUME NEW o \in [Ids -> Op], NEW i \in Ids, NEW j \in Ids
  PROVE  /\ KeyOf(Acknowledged(o, i), j) = IF j = i THEN NoKey ELSE KeyOf(o, j)
         /\ j # i => Acknowledged(o, i)[j] = o[j]
<1>1. [o[i] EXCEPT !.key = NoKey, !.acked = TRUE].key = NoKey
  <2>1. [[o[i] EXCEPT !.key = NoKey] EXCEPT !.acked = TRUE].key = NoKey
    BY DEF Op
  <2> QED BY <2>1
<1> QED BY <1>1, AcknowledgedType DEF Acknowledged, KeyOf, Has

\* So does its commit.
LEMMA ReleasedKeys ==
  ASSUME NEW o \in [Ids -> Op], NEW i \in Ids, NEW p \in Released(o, i), NEW j \in Ids,
         o[j].place = "confirmed" => o[j].key = NoKey
  PROVE  KeyOf(p, j) = IF j = i THEN NoKey ELSE KeyOf(o, j)
<1>1. NoOp.place = "absent"
  BY DEF NoOp
<1> QED BY <1>1, ReleasedChanges DEF KeyOf, Has

\* What a save that is queued would write names no key twice, and of a hydrated receipt
\* the key it owns, unless it releases it.
LEMMA CaptureOwns ==
  ASSUME Owning, NEW job \in Job, NEW m \in DOMAIN jobs, jobs[m] = job
  PROVE  /\ OneOwner(Capture(job))
         /\ \A j \in restored : Has(Capture(job), j) =>
              \/ Capture(job)[j].key = OwnKey(j)
              \/ job.kind \in {"acknowledge", "retire"} /\ job.id = j
<1>0. /\ ops \in [Ids -> Op] /\ OneOwner(ops) /\ restored \subseteq Ids /\ Pledged(job)
      /\ job.kind = "retire" /\ job.next # NoId => Unknown(job.next) /\ dismissing[job.id] # "none"
  BY OwnersAgree DEF Owning, TypeOK, KeysInv, FenceInv, SavesRely, ReliesWell
<1>1. CASE job.kind \notin {"dismiss", "acknowledge", "retire"}
  BY <1>0, <1>1 DEF Capture, OwnKey, KeyOf
<1>2. CASE job.kind = "dismiss"
  <2>1. job.id \in Ids /\ NoOp.place = "absent" /\ Capture(job) = [ops EXCEPT ![job.id] = NoOp]
    BY <1>2 DEF Capture, Job, NoOp
  <2>2. \A j \in Ids : Capture(job)[j] = IF j = job.id THEN NoOp ELSE ops[j]
    BY <1>0, <2>1
  <2> QED BY <1>0, <2>1, <2>2 DEF OneOwner, OwnKey, KeyOf, Has
<1>3. CASE job.kind \in Release /\ Capture(job) = Acknowledged(ops, job.id)
  <2>1. job.id \in Ids
    BY <1>3 DEF Job, Release
  <2>2. \A j \in Ids : /\ KeyOf(Capture(job), j) = IF j = job.id THEN NoKey ELSE KeyOf(ops, j)
                       /\ j # job.id => Capture(job)[j] = ops[j]
    BY <1>0, <1>3, <2>1, AcknowledgedKeys
  <2>3. OneOwner(Capture(job))
    BY <1>0, <2>2 DEF OneOwner
  <2> QED BY <1>0, <1>3, <2>2, <2>3 DEF OwnKey, KeyOf, Has, Release
<1>4. CASE job.kind = "retire" /\ job.next # NoId
  <2> DEFINE n == job.next
             cleared == Acknowledged(ops, job.id)
  <2>1. job.id \in Ids /\ n \in Ids /\ n # job.id /\ job.key \in Keys \cup {NoKey}
    BY <1>0, <1>4, OutboxAssumption DEF Job, Unknown
  <2>2. /\ cleared \in [Ids -> Op] /\ Capture(job) = [cleared EXCEPT ![n] = Fresh(job.key, FALSE)]
        /\ Fresh(job.key, FALSE).key = job.key
    BY <1>0, <1>4, <2>1, AcknowledgedType DEF Capture, Fresh, NoOp
  <2>3. \A j \in Ids : /\ KeyOf(cleared, j) = IF j = job.id THEN NoKey ELSE KeyOf(ops, j)
                       /\ j # job.id => cleared[j] = ops[j]
    BY <1>0, <2>1, AcknowledgedKeys
  <2>4. n \notin restored /\ OwnKey(job.id) = job.key
    BY <1>0, <1>4 DEF Pledged
  <2> HIDE DEF n, cleared
  <2>5. \A j \in Ids \ {n} : Capture(job)[j] = cleared[j]
    BY <2>1, <2>2
  <2>6. KeyOf(Capture(job), n) \in {NoKey, job.key}
    BY <2>1, <2>2 DEF KeyOf
  <2>7. \A j \in Ids \ {n} : KeyOf(Capture(job), j) = IF j = job.id THEN NoKey ELSE KeyOf(ops, j)
    BY <2>3, <2>5 DEF KeyOf, Has
  <2>8. OneOwner(Capture(job))
    BY <1>0, <2>1, <2>4, <2>6, <2>7 DEF OneOwner, OwnKey
  <2> QED BY <1>0, <1>4, <2>3, <2>4, <2>5, <2>8 DEF OwnKey, KeyOf, Has
<1> QED BY <1>1, <1>2, <1>3, <1>4 DEF Capture, Release

\* The saves under way after a step write each key once and keep their pledge, if the
\* retirements among them still find their receipt's key, and their replacement apart.
LEMMA SavesOwn ==
  ASSUME Owning, TypeOK', [Next]_vars,
         \A job \in Job :
              /\ job.kind = "retire" /\ job.next # NoId /\ Pledged(job)
              /\ job = saving \/ \E m \in DOMAIN jobs : jobs[m] = job
              /\ job = saving' \/ \E n \in DOMAIN jobs' : jobs'[n] = job
           => /\ OwnKey(job.id)' = OwnKey(job.id)
              /\ job.next \notin restored' /\ journal' = "open"
  PROVE  /\ OneOwner(disk') /\ OneOwner(captured')
         /\ Pledged(saving)' /\ (\A n \in DOMAIN jobs : Pledged(jobs[n]))'
<1>0. /\ saving \in Job /\ saving' \in Job /\ jobs \in Seq(Job) /\ jobs' \in Seq(Job)
      /\ OneOwner(ops) /\ OneOwner(disk) /\ OneOwner(captured)
      /\ Pledged(saving) /\ \A n \in DOMAIN jobs : Pledged(jobs[n])
  BY OwnersAgree DEF Owning, TypeOK, KeysInv
<1>1. Runs /\ Remembered /\ Queues /\ restored \subseteq used
  BY NextRuns, NextQueues DEF Owning, WorkInv
<1>2. ASSUME NEW job \in Job, Pledged(job),
             job = saving \/ \E m \in DOMAIN jobs : jobs[m] = job,
             job = saving' \/ \E n \in DOMAIN jobs' : jobs'[n] = job
      PROVE  Pledged(job)'
  <2>1. job.kind = "retire" /\ job.next # NoId
          => /\ OwnKey(job.id)' = OwnKey(job.id)
             /\ job.next \notin restored' /\ journal' = "open"
    BY <1>2
  <2> QED BY <1>2, <2>1 DEF Pledged
<1>3. OneOwner(disk')
  BY <1>0, JournalIsWritten
<1>4. OneOwner(captured')
  <2>1. OneOwner(Empty)
    BY DEF OneOwner, KeyOf, Has, Empty, NoOp
  <2> QED BY <1>0, <1>1, <2>1, CaptureOwns DEF Runs
<1>5. Pledged(saving)'
  <2>1. PICK job \in Job : job = saving'
    BY <1>0
  <2>2. CASE job = NoJob
    BY <2>1, <2>2 DEF Pledged, NoJob, JobOf
  <2>3. CASE job = saving
    <3>1. Pledged(job)'
      BY <1>0, <1>2, <2>1, <2>3
    <3> QED BY <2>1, <3>1 DEF Pledged
  <2>4. CASE \E m \in DOMAIN jobs : jobs[m] = job
    <3>1. Pledged(job)'
      BY <1>0, <1>2, <2>1, <2>4
    <3> QED BY <2>1, <3>1 DEF Pledged
  <2> QED BY <1>1, <2>1, <2>2, <2>3, <2>4 DEF Runs
<1>6. ASSUME NEW n \in DOMAIN jobs' PROVE Pledged(jobs[n])'
  <2>1. PICK job \in Job : job = jobs'[n]
    BY <1>0, <1>6
  <2>2. CASE job.kind # "retire"
    BY <2>1, <2>2 DEF Pledged
  <2>3. CASE \E m \in DOMAIN jobs : jobs[m] = job
    <3>1. Pledged(job)'
      BY <1>0, <1>2, <1>6, <2>1, <2>3
    <3> QED BY <2>1, <3>1 DEF Pledged
  <2>4. CASE Retires(job)
    <3>1. job.id \in Ids /\ job.next \in Ids \cup {NoId}
      BY <2>4, OutboxAssumption DEF Retires, Job
    <3>2. job.next # NoId => /\ job.key # NoKey /\ OwnKey(job.id)' = job.key
                             /\ job.next \notin restored' /\ journal' = "open"
      BY <1>1, <2>4, <3>1 DEF Retires, OwnKey, KeyOf, Has
    <3> QED BY <2>1, <3>2 DEF Pledged
  <2> QED BY <1>1, <1>6, <2>1, <2>2, <2>3, <2>4 DEF Queues
<1> QED BY <1>3, <1>4, <1>5, <1>6

\* A receipt whose key stays is still known by it, where it was.
LEMMA OwnerStays ==
  ASSUME Owning, [Next]_vars, NEW i \in Ids, OwnKey(i)' = OwnKey(i),
         i \in restored' => i \in restored,
         disk' = disk \/ saving.kind \notin {"acknowledge", "retire"}
  PROVE  OwnerOf(i)'
<1>0. Runs /\ Remembered /\ OwnerOf(i)
  BY NextRuns DEF Owning, KeysInv
<1>1. ASSUME recovering'[i].stage = "load", OwnKey(i)' # NoKey
      PROVE  recovering'[i].item.key = OwnKey(i)'
  BY <1>0, <1>1 DEF Remembered, OwnerOf, OwnKey, KeyOf
<1>2. ASSUME i \in restored', Has(disk', i) PROVE disk'[i].key = OwnKey(i)'
  BY <1>0, <1>2, JournalIsWritten DEF OwnerOf, Has
<1>3. ASSUME i \in restored', saving' # NoJob, Has(captured', i)
      PROVE  \/ captured'[i].key = OwnKey(i)'
             \/ saving'.kind \in {"acknowledge", "retire"} /\ saving'.id = i
  BY <1>0, <1>3, CaptureOwns DEF Runs, OwnerOf, Has
<1> QED BY <1>1, <1>2, <1>3 DEF OwnerOf, Has

\* What leaves every key where it is keeps the invariant.
Keeps == /\ \A j \in Ids : OwnKey(j)' = OwnKey(j)
         /\ restored' \subseteq restored
         /\ journal' = journal \/ (journal = "loading" /\ journal' = "broken")
         /\ disk' = disk \/ saving.kind \notin Release
LEMMA KeepsOwn ==
  ASSUME Owning, TypeOK', [Next]_vars, Keeps
  PROVE  KeysInv'
<1>1. \A j \in Ids : OwnKey(j)' = OwnKey(j)
  BY DEF Keeps
<1>2. OneOwner(ops')
  BY <1>1, OwnersAgree DEF Owning, KeysInv, OneOwner, OwnKey
<1>3. journal' # "open" => \A j \in Ids : OwnKey(j)' = NoKey
  BY <1>1 DEF Keeps, Owning, KeysInv
<1>4. \A j \in Ids : OwnerOf(j)'
  BY <1>1, OwnerStays DEF Keeps, Release
<1>5. /\ OneOwner(disk') /\ OneOwner(captured')
      /\ Pledged(saving)' /\ (\A n \in DOMAIN jobs : Pledged(jobs[n]))'
  <2>1. \A job \in Job :
          job.kind = "retire" /\ job.next # NoId /\ Pledged(job)
            => /\ OwnKey(job.id)' = OwnKey(job.id)
               /\ job.next \notin restored' /\ journal' = "open"
    BY <1>1 DEF Keeps, Pledged, Job
  <2> QED BY <2>1, SavesOwn
<1> QED BY <1>2, <1>3, <1>4, <1>5, OwnersAgree DEF KeysInv

\* A send that must be recoverable takes a key nobody owns.
LEMMA SendOwns ==
  ASSUME Owning, TypeOK', [Next]_vars,
         NEW i \in Ids, NEW k \in Keys \cup {NoKey}, NEW g \in BOOLEAN, Send(i, k, g)
  PROVE  KeysInv'
<1>0. /\ ops \in [Ids -> Op] /\ i \notin used /\ ops' = [ops EXCEPT ![i] = Fresh(k, g)]
      /\ k # NoKey => journal = "open" /\ ~KeyTaken(k, i)
      /\ UNCHANGED <<restored, saving, captured, journal, recovering, disk, dismissing>>
  BY DEF Owning, TypeOK, Send
<1>1. i \notin restored /\ recovering[i].stage # "load" /\ dismissing[i] = "none"
  BY <1>0 DEF Owning, WorkInv, FenceInv, KnownIdsUsed
<1>2. OwnKey(i)' = k /\ \A j \in Ids \ {i} : OwnKey(j)' = OwnKey(j)
  <2>1. Fresh(k, g).place = "pending" /\ Fresh(k, g).key = k
    BY DEF Fresh, NoOp
  <2> QED BY <1>0, <2>1 DEF OwnKey, KeyOf, Has
<1>3. OneOwner(ops')
  <2>1. k # NoKey => \A j \in Ids \ {i} : OwnKey(j) # k
    BY <1>0, NotTaken
  <2>2. OneOwner(ops)
    BY OwnersAgree DEF Owning, KeysInv
  <2> QED BY <1>2, <2>1, <2>2 DEF OneOwner, OwnKey
<1>4. journal' # "open" => \A j \in Ids : OwnKey(j)' = NoKey
  BY <1>0, <1>2 DEF Owning, KeysInv
<1>5. \A j \in Ids : OwnerOf(j)'
  <2>1. \A j \in Ids \ {i} : OwnerOf(j)'
    BY <1>0, <1>2, OwnerStays
  <2>2. OwnerOf(i)'
    BY <1>0, <1>1 DEF OwnerOf
  <2> QED BY <2>1, <2>2
<1>6. /\ OneOwner(disk') /\ OneOwner(captured')
      /\ Pledged(saving)' /\ (\A n \in DOMAIN jobs : Pledged(jobs[n]))'
  <2>1. ASSUME NEW job \in Job, job.kind = "retire", job.next # NoId, Pledged(job),
               job = saving \/ \E m \in DOMAIN jobs : jobs[m] = job
        PROVE  /\ OwnKey(job.id)' = OwnKey(job.id)
               /\ job.next \notin restored' /\ journal' = "open"
    <3>1. dismissing[job.id] = "save" /\ job.id \in Ids
      BY <2>1 DEF Owning, FenceInv, SavesRely, ReliesWell, Job
    <3> QED BY <1>0, <1>1, <1>2, <2>1, <3>1 DEF Pledged
  <2> QED BY <2>1, SavesOwn
<1> QED BY <1>3, <1>4, <1>5, <1>6, OwnersAgree DEF KeysInv

\* Hydration brings the keys of the journal, before anybody owns one.
LEMMA HydrateOwns ==
  ASSUME Owning, TypeOK', [Next]_vars, Hydrate, journal' = "open"
  PROVE  KeysInv'
<1> DEFINE merged == [j \in Ids |-> IF Has(disk, j) THEN Restored(j, disk[j]) ELSE ops[j]]
           pending == {j \in Ids : Has(disk, j) /\ Outstanding(j, Decoded(disk[j]))}
<1>0. /\ ops \in [Ids -> Op] /\ disk \in [Ids -> Op] /\ journal = "loading" /\ saving = NoJob
      /\ \A j \in Ids : OwnKey(j) = NoKey /\ recovering[j].stage # "load"
      /\ ops' \in Trim(merged) /\ restored' = pending
      /\ UNCHANGED <<saving, captured, recovering, disk>>
  BY DEF Owning, TypeOK, KeysInv, ListedInv, OpensFirst, Hydrate
<1>1. merged \in [Ids -> Op]
  BY <1>0, RestoredType
<1>2. ASSUME NEW j \in Ids PROVE OwnKey(j)' = KeyOf(disk, j)
  <2>1. ops'[j] = merged[j] \/ (merged[j].place = "confirmed" /\ ops'[j] = NoOp)
    BY <1>0, <1>1, TrimEvicts
  <2>2. NoOp.place = "absent"
    BY DEF NoOp
  <2>3. CASE ~Has(disk, j)
    BY <1>0, <2>1, <2>2, <2>3 DEF OwnKey, KeyOf, Has
  <2>4. CASE Has(disk, j)
    <3>1. Decoded(disk[j]) \in Op /\ Decoded(disk[j]).key = disk[j].key
      BY <1>0 DEF Decoded, Op, Deliveries
    <3>2. /\ [Decoded(disk[j]) EXCEPT !.place = "pending"].key = disk[j].key
          /\ [Decoded(disk[j]) EXCEPT !.place = "pending"].place = "pending"
          /\ [Decoded(disk[j]) EXCEPT !.place = "confirmed"].key = disk[j].key
      BY <3>1 DEF Op
    <3>3. ~Outstanding(j, Decoded(disk[j])) => disk[j].key = NoKey
      BY <3>1 DEF Outstanding
    <3>4. merged[j] = Restored(j, disk[j]) /\ disk[j].place # "absent"
      BY <2>4 DEF Has
    <3> HIDE DEF merged
    <3> QED BY <2>1, <2>2, <2>4, <3>2, <3>3, <3>4 DEF Restored, OwnKey, KeyOf, Has
  <2> QED BY <2>3, <2>4
<1>3. OneOwner(ops')
  BY <1>2, OwnersAgree DEF Owning, KeysInv, OneOwner, OwnKey
<1>4. \A j \in Ids : OwnerOf(j)'
  BY <1>0, <1>2 DEF OwnerOf, KeyOf, Has
<1>5. /\ OneOwner(disk') /\ OneOwner(captured')
      /\ Pledged(saving)' /\ (\A n \in DOMAIN jobs : Pledged(jobs[n]))'
  <2>1. \A job \in Job : job.kind = "retire" /\ job.next # NoId => ~Pledged(job)
    BY <1>0 DEF Pledged
  <2> QED BY <2>1, SavesOwn
<1> QED BY <1>3, <1>4, <1>5, OwnersAgree DEF KeysInv

\* A resolution that is saved takes the key of its receipt, and a retirement gives it to
\* the replacement.
LEMMA CommitKeys ==
  ASSUME Owning, DismissSaved \/ AcknowledgeSaved \/ RetireSaved, NEW j \in Ids
  PROVE  OwnKey(j)' = IF j = saving.id THEN NoKey
                      ELSE IF saving.kind = "retire" /\ j = saving.next THEN saving.key
                      ELSE OwnKey(j)
<1>0. /\ ops \in [Ids -> Op] /\ saving \in Job /\ \A i \in Ids : ops[i] \in Op
      /\ \A i \in Ids : ops[i].place = "confirmed" => ops[i].key = NoKey
  BY DEF Owning, TypeOK, ReleasedInv
<1>1. CASE DismissSaved
  <2>1. /\ saving.kind = "dismiss" /\ saving.id \in Ids /\ NoOp.place = "absent"
        /\ ops' = [ops EXCEPT ![saving.id] = NoOp]
    BY <1>0, <1>1 DEF DismissSaved, Job, NoOp
  <2> QED BY <1>0, <2>1 DEF OwnKey, KeyOf, Has
<1>2. CASE AcknowledgeSaved
  <2>1. /\ saving.kind = "acknowledge" /\ saving.id \in Ids
        /\ ops' \in Released(ops, saving.id)
    BY <1>0, <1>2 DEF AcknowledgeSaved, Job
  <2>2. KeyOf(ops', j) = IF j = saving.id THEN NoKey ELSE KeyOf(ops, j)
    BY <1>0, <2>1, ReleasedKeys
  <2> QED BY <2>1, <2>2 DEF OwnKey
<1>3. CASE RetireSaved
  <2>1. /\ saving.kind = "retire" /\ saving.id \in Ids
        /\ saving.next \in Ids \cup {NoId} /\ saving.key \in Keys \cup {NoKey}
    BY <1>0, <1>3, OutboxAssumption DEF RetireSaved, Job
  <2>2. CASE saving.next = NoId
    <3>1. KeyOf(ops', j) = IF j = saving.id THEN NoKey ELSE KeyOf(ops, j)
      BY <1>0, <1>3, <2>1, <2>2, ReleasedKeys DEF RetireSaved
    <3> QED BY <2>1, <2>2, <3>1, OutboxAssumption DEF OwnKey
  <2>3. CASE saving.next # NoId
    <3> DEFINE n == saving.next
               o == [ops EXCEPT ![n] = Fresh(saving.key, FALSE)]
    <3>1. ops' \in Released(o, saving.id) /\ n \in Ids
      BY <1>3, <2>1, <2>3 DEF RetireSaved
    <3>2. /\ Fresh(saving.key, FALSE) \in Op /\ Fresh(saving.key, FALSE).place = "pending"
          /\ Fresh(saving.key, FALSE).key = saving.key
      BY <2>1, InitialValues DEF Fresh, NoOp
    <3>3. /\ o \in [Ids -> Op] /\ o[n] = Fresh(saving.key, FALSE)
          /\ \A i \in Ids \ {n} : o[i] = ops[i]
      BY <1>0, <3>1, <3>2
    <3>4. n # saving.id
      BY <2>1, <2>3 DEF Owning, FenceInv, SavesRely, ReliesWell, Unknown
    <3>5. n = saving.next
      OBVIOUS
    <3> HIDE DEF n, o
    <3>6. o[j].place = "confirmed" => o[j].key = NoKey
      BY <1>0, <3>2, <3>3
    <3>7. KeyOf(ops', j) = IF j = saving.id THEN NoKey ELSE KeyOf(o, j)
      BY <2>1, <3>1, <3>3, <3>6, ReleasedKeys
    <3> QED BY <2>1, <3>2, <3>3, <3>4, <3>5, <3>7 DEF OwnKey, KeyOf, Has
  <2> QED BY <2>1, <2>2, <2>3
<1> QED BY <1>1, <1>2, <1>3

\* The commit of a resolution keeps the invariant.
LEMMA CommitOwns ==
  ASSUME Owning, TypeOK', [Next]_vars, ~Crossed,
         DismissSaved \/ AcknowledgeSaved \/ RetireSaved
  PROVE  KeysInv'
<1>0. /\ saving.kind \in {"dismiss", "acknowledge", "retire"} /\ saving.id \in Ids
      /\ disk' = captured /\ saving' = NoJob /\ saving # NoJob
      /\ UNCHANGED <<restored, journal, recovering>>
  BY DEF Owning, TypeOK, DismissSaved, AcknowledgeSaved, RetireSaved, Written, Job, NoJob, JobOf
<1>1. \A j \in Ids : OwnKey(j)' = IF j = saving.id THEN NoKey
                                  ELSE IF saving.kind = "retire" /\ j = saving.next
                                  THEN saving.key ELSE OwnKey(j)
  BY CommitKeys
<1>2. /\ Pledged(saving) /\ journal = "open" /\ OneOwner(ops)
      /\ saving.kind = "retire" /\ saving.next # NoId => Unknown(saving.next)
      /\ NoId \notin Ids
  BY <1>0, OwnersAgree, OutboxAssumption
     DEF Owning, KeysInv, ListedInv, OpensFirst, FenceInv, SavesRely, ReliesWell
<1>3. \A j \in Ids : saving.kind = "retire" /\ j = saving.next =>
        /\ saving.key = OwnKey(saving.id) /\ j \notin restored /\ recovering[j].stage # "load"
  BY <1>2 DEF Pledged, Unknown
<1>4. OneOwner(ops')
  <2>1. \A j \in Ids : /\ KeyOf(ops', j) \in {NoKey, saving.key, OwnKey(j)}
                       /\ KeyOf(ops', j) = IF j = saving.id THEN NoKey
                                  ELSE IF saving.kind = "retire" /\ j = saving.next
                                  THEN saving.key ELSE KeyOf(ops, j)
    BY <1>1 DEF OwnKey
  <2> QED BY <1>0, <1>2, <1>3, <2>1 DEF OneOwner, OwnKey
<1>5. ASSUME NEW j \in Ids PROVE OwnerOf(j)'
  <2>1. ASSUME recovering'[j].stage = "load", OwnKey(j)' # NoKey
        PROVE  recovering'[j].item.key = OwnKey(j)'
    BY <1>0, <1>1, <1>3, <2>1 DEF Owning, KeysInv, OwnerOf
  <2>2. ASSUME j \in restored', Has(disk', j) PROVE disk'[j].key = OwnKey(j)'
    <3>1. OwnKey(j)' = IF j = saving.id THEN NoKey ELSE OwnKey(j)
      BY <1>0, <1>1, <1>3, <2>2
    <3>2. CASE j = saving.id
      BY <1>0, <2>2, <3>1, <3>2
         DEF Owning, FenceInv, SavesRely, ReleasedInv, Has
    <3>3. CASE j # saving.id
      BY <1>0, <2>2, <3>1, <3>3 DEF Owning, KeysInv, OwnerOf, Has
    <3> QED BY <3>2, <3>3
  <2> QED BY <1>0, <2>1, <2>2 DEF OwnerOf, Has
<1>6. /\ OneOwner(disk') /\ OneOwner(captured')
      /\ Pledged(saving)' /\ (\A n \in DOMAIN jobs : Pledged(jobs[n]))'
  <2>1. ASSUME NEW job \in Job, job.kind = "retire", job.next # NoId, Pledged(job),
               job = saving \/ \E m \in DOMAIN jobs : jobs[m] = job,
               job = saving' \/ \E n \in DOMAIN jobs' : jobs'[n] = job
        PROVE  /\ OwnKey(job.id)' = OwnKey(job.id)
               /\ job.next \notin restored' /\ journal' = "open"
    <3>1. dismissing[job.id] = "save" /\ job.id \in Ids
      BY <2>1 DEF Owning, FenceInv, SavesRely, ReliesWell, Job
    <3>2. PICK m \in DOMAIN jobs : jobs[m] = job
      <4>1. NoJob.kind = "none"
        BY DEF NoJob, JobOf
      <4>2. job # saving \/ \E m \in DOMAIN jobs : jobs[m] = job
        <5>1. CASE job = saving
          <6>1. PICK n \in DOMAIN jobs' : jobs'[n] = job
            BY <1>0, <2>1, <4>1
          <6>2. Queues
            BY NextQueues DEF Owning
          <6>3. ~Retires(job)
            BY <3>1 DEF Retires
          <6> QED BY <2>1, <6>1, <6>2, <6>3 DEF Queues
        <5> QED BY <5>1
      <4> QED BY <2>1, <4>2
    <3>3. saving.id # job.id
      <4>1. ~Clash(job, saving)
        BY <3>2 DEF Owning, FenceInv, SavesApart
      <4>2. saving.kind # "acknowledge" \/ saving.id # job.id
        BY <2>1, <3>2 DEF Crossed
      <4> QED BY <1>0, <2>1, <4>1, <4>2 DEF Clash
    <3>4. ~(saving.kind = "retire" /\ job.id = saving.next)
      BY <1>2, <3>1 DEF Unknown
    <3> QED BY <1>0, <1>1, <1>2, <2>1, <3>1, <3>3, <3>4 DEF Pledged
  <2> QED BY <2>1, SavesOwn
<1> QED BY <1>0, <1>2, <1>4, <1>5, <1>6, OwnersAgree DEF KeysInv

\* recover() takes a key nobody else owns for a receipt that owns it or none.
LEMMA RecoverOwns ==
  ASSUME Owning, TypeOK', [Next]_vars, NEW i \in Ids, RecoverLoaded(i)
  PROVE  KeysInv'
<1> USE DEF history
<1> DEFINE item == IF Has(disk, i) /\ i \in restored THEN disk[i] ELSE recovering[i].item
           k == recovering[i].key
           taken == [item EXCEPT !.place = "pending", !.key = k]
<1>0. /\ ops \in [Ids -> Op] /\ disk \in [Ids -> Op] /\ recovering \in [Ids -> Recovering]
      /\ recovering[i].stage = "load"
      /\ UNCHANGED <<saving, captured, journal, disk, dismissing>>
  BY DEF Owning, TypeOK, RecoverLoaded
<1>1. CASE UNCHANGED <<ops, restored>>
  <2>1. Keeps
    BY <1>0, <1>1 DEF Keeps, OwnKey, KeyOf, Has
  <2> QED BY <2>1, KeepsOwn
<1>2. CASE ~UNCHANGED <<ops, restored>>
  <2>1. /\ i \in restored => Has(disk, i)
        /\ item.key \in {k, NoKey} /\ ~KeyTaken(k, i)
        /\ restored' = IF item.key = NoKey THEN restored \ {i} ELSE restored
        /\ ops' = [ops EXCEPT ![i] = taken]
        /\ recovering' = [recovering EXCEPT ![i].stage = "save", ![i].item = NoOp]
    BY <1>2 DEF RecoverLoaded
  <2>2. k \in Keys /\ recovering[i].item \in Op
    BY <1>0 DEF Recovering
  <2>3. taken.place = "pending" /\ taken.key = k
    <3>1. item \in Op
      BY <1>0, <2>2
    <3>2. [[item EXCEPT !.place = "pending"] EXCEPT !.key = k].key = k
      BY <3>1 DEF Op
    <3>3. [[item EXCEPT !.place = "pending"] EXCEPT !.key = k].place = "pending"
      BY <3>1 DEF Op
    <3> QED BY <3>2, <3>3
  <2>4. recovering'[i].stage = "save"
    <3>1. [[recovering[i] EXCEPT !.stage = "save"] EXCEPT !.item = NoOp].stage = "save"
      BY <1>0 DEF Recovering
    <3> QED BY <1>0, <2>1, <3>1
  <2>5. i \in restored' => i \in restored /\ Has(disk, i) /\ item = disk[i] /\ disk[i].key = k
    BY <2>1, <2>2, OutboxAssumption
  <2>6. OwnKey(i) \in {NoKey, k}
    BY <1>0, <2>1, <2>2, OutboxAssumption DEF Owning, KeysInv, OwnerOf
  <2>7. journal = "open"
    BY <1>0 DEF Owning, ListedInv, OpensFirst
  <2> HIDE DEF item, k, taken
  <2>8. OwnKey(i)' = k /\ \A j \in Ids \ {i} : OwnKey(j)' = OwnKey(j)
    BY <1>0, <2>1, <2>3 DEF OwnKey, KeyOf, Has
  <2>9. OneOwner(ops')
    <3>1. \A j \in Ids \ {i} : OwnKey(j) # k
      BY <2>1, <2>2, NotTaken
    <3>2. OneOwner(ops)
      BY OwnersAgree DEF Owning, KeysInv
    <3> QED BY <2>8, <3>1, <3>2 DEF OneOwner, OwnKey
  <2>10. \A j \in Ids : OwnerOf(j)'
    <3>1. \A j \in Ids \ {i} : OwnerOf(j)'
      BY <1>0, <2>1, <2>8, OwnerStays
    <3>2. i \in restored' => OwnerOf(i)'
      <4>1. i \in restored' => OwnKey(i)' = OwnKey(i)
        BY <2>5, <2>8 DEF Owning, KeysInv, OwnerOf
      <4> QED BY <1>0, <2>5, <4>1, OwnerStays
    <3>3. i \notin restored' => OwnerOf(i)'
      BY <2>4 DEF OwnerOf
    <3> QED BY <3>1, <3>2, <3>3
  <2>11. /\ OneOwner(disk') /\ OneOwner(captured')
         /\ Pledged(saving)' /\ (\A n \in DOMAIN jobs : Pledged(jobs[n]))'
    <3>1. ASSUME NEW job \in Job, job.kind = "retire", job.next # NoId, Pledged(job)
          PROVE  /\ OwnKey(job.id)' = OwnKey(job.id)
                 /\ job.next \notin restored' /\ journal' = "open"
      BY <1>0, <2>1, <2>6, <2>8, <3>1 DEF Pledged, Job
    <3> QED BY <3>1, SavesOwn
  <2> QED BY <1>0, <2>7, <2>9, <2>10, <2>11, OwnersAgree DEF KeysInv
<1> QED BY <1>1, <1>2

\* After a restart nobody owns a key.
LEMMA RestartOwns ==
  ASSUME Owning, TypeOK', [Next]_vars, Restart
  PROVE  KeysInv'
<1>0. /\ NoOp.place = "absent" /\ NotRecovering.stage = "idle" /\ NoJob.kind = "none"
      /\ ops' = Empty /\ restored' = {} /\ recovering' = [i \in Ids |-> NotRecovering]
      /\ saving' = NoJob /\ jobs' = <<>>
  BY DEF Restart, NoOp, NotRecovering, NoJob, JobOf
<1>1. \A j \in Ids : OwnKey(j)' = NoKey
  BY <1>0 DEF OwnKey, KeyOf, Has, Empty
<1>2. OneOwner(ops')
  BY <1>1 DEF OneOwner, OwnKey
<1>3. \A j \in Ids : OwnerOf(j)'
  BY <1>0 DEF OwnerOf
<1>4. /\ OneOwner(disk') /\ OneOwner(captured')
      /\ Pledged(saving)' /\ (\A n \in DOMAIN jobs : Pledged(jobs[n]))'
  <2>1. ~\E n \in DOMAIN jobs' : TRUE
    BY <1>0
  <2> QED BY <1>0, <2>1, SavesOwn
<1> QED BY <1>1, <1>2, <1>3, <1>4, OwnersAgree DEF KeysInv

\* A record that is not sent, released or recovered keeps its key.
LEMMA KeyStays ==
  ASSUME Owning, NEW j \in Ids, Changes(j), UNCHANGED <<used, saving, journal, recovering>>
  PROVE  OwnKey(j)' = OwnKey(j)
<1>1. saving.kind \in Release \cup {"dismiss"} => saving # NoJob
  BY DEF NoJob, JobOf, Release
<1>0. Replaces(saving, j) => saving # NoJob
  BY DEF NoJob, JobOf, Replaces
<1>2. ~Restart \/ OwnKey(j) = NoKey
  BY DEF Restart, Owning, KeysInv
<1>3. CASE Stays(j)
  BY <1>3 DEF Stays, OwnKey, KeyOf
<1>4. CASE Leaves(j)
  BY <1>1, <1>2, <1>4 DEF Leaves, Commit, Owning, ReleasedInv, OwnKey, KeyOf, Has
<1>5. ~Clears(j) /\ ~Arrives(j) /\ ~Returns(j) /\ ~TakesBack(j)
  BY <1>0, <1>1 DEF Clears, Commit, Arrives, Returns, TakesBack
<1> QED BY <1>3, <1>4, <1>5 DEF Changes

\* Every other step leaves the keys where they are.
LEMMA OtherKeeps ==
  ASSUME Owning, [Next]_vars, ~Restart, ~(DismissSaved \/ AcknowledgeSaved \/ RetireSaved),
         ~(Hydrate /\ journal' = "open"), \A i \in Ids : ~RecoverLoaded(i),
         \A i \in Ids, k \in Keys \cup {NoKey}, g \in BOOLEAN : ~Send(i, k, g)
  PROVE  Keeps
<1> USE DEF history, journalState, quietHistory
<1>0. \A j \in Ids : Changes(j)
  BY NextChanges DEF Owning, PolicyInv
<1>1. ASSUME ops' = ops, restored' \subseteq restored, journal' = journal,
             disk' = disk \/ saving.kind \notin Release
      PROVE  Keeps
  BY <1>1 DEF Keeps, OwnKey, KeyOf, Has
<1>2. ASSUME UNCHANGED <<used, saving, journal, recovering, disk>>, restored' \subseteq restored
      PROVE  Keeps
  BY <1>0, <1>2, KeyStays DEF Keeps
<1>3. CASE Journal
  <2>1. CASE Hydrate \/ HydrateFails
    BY <2>1 DEF Hydrate, HydrateFails, Keeps, OwnKey, KeyOf, Has
  <2>2. CASE SaveStarts \/ SaveFails \/ SaveRefused
    BY <1>1, <2>2 DEF SaveStarts, SaveFails, SaveRefused
  <2>3. CASE StatusSaved \/ AttemptSaved \/ RecoverSaved
    BY <1>1, <2>3 DEF StatusSaved, AttemptSaved, RecoverSaved, Release
  <2> QED BY <1>3, <2>1, <2>2, <2>3 DEF Journal
<1>4. ASSUME NEW i \in Ids, Deliver(i) PROVE Keeps
  BY <1>2, <1>4 DEF Deliver, IntentSaved, Signed, SignatureSaved, HoldEnds, PublishStarts,
     PublishAccepted, PublishRejected, PublishLost, FailsUnpublished, ExpiresQueued,
     ExpiresActive, Observe
<1>5. ASSUME NEW i \in Ids, Resolve(i) PROVE Keeps
  BY <1>1, <1>5 DEF Resolve, Acknowledge, RetireStarts, RetireGivenUp, RetireVerified, Dismiss,
     DismissLocked, RecoverCalled, RecoverLocked, RecoverLoadFails
<1>6. CASE Compose
  <2>1. CASE Withdraw
    BY <1>1, <2>1 DEF Withdraw
  <2>2. CASE RetryPlain \/ RetryRenewed
    BY <1>2, <2>2 DEF RetryPlain, RetryRenewed, Retry
  <2>3. ~SendPlain /\ ~SendGuarded
    BY OutboxAssumption DEF SendPlain, SendGuarded
  <2> QED BY <1>6, <2>1, <2>2, <2>3 DEF Compose
<1>7. CASE Session
  BY <1>1, <1>2, <1>7 DEF Session, Purge, Dispose
<1>8. CASE UNCHANGED vars
  BY <1>1, <1>8 DEF vars, memory
<1> QED BY <1>3, <1>4, <1>5, <1>6, <1>7, <1>8 DEF Next

\* The invariant holds at first and in every step.
LEMMA KeysInductive ==
  /\ Init => KeysInv
  /\ Owning /\ TypeOK' /\ ~Crossed /\ [Next]_vars => KeysInv'
<1>1. ASSUME Init PROVE KeysInv
  <2>1. /\ NoOp.place = "absent" /\ NotRecovering.stage = "idle" /\ NoJob.kind = "none"
        /\ ops = Empty /\ disk = Empty /\ captured = Empty /\ restored = {} /\ jobs = <<>>
        /\ saving = NoJob /\ recovering = [i \in Ids |-> NotRecovering]
    BY <1>1 DEF Init, NoOp, NotRecovering, NoJob, JobOf
  <2>2. \A j \in Ids : KeyOf(Empty, j) = NoKey
    BY <2>1 DEF KeyOf, Has, Empty
  <2>3. OneOwnerPerKey
    BY <2>1, <2>2, OwnersAgree DEF OneOwner
  <2>4. Pledged(saving) /\ \A n \in DOMAIN jobs : Pledged(jobs[n])
    BY <2>1 DEF Pledged
  <2>5. \A j \in Ids : OwnerOf(j)
    BY <2>1 DEF OwnerOf
  <2> QED BY <2>1, <2>2, <2>3, <2>4, <2>5 DEF KeysInv, OwnKey
<1>2. ASSUME Owning, TypeOK', ~Crossed, [Next]_vars PROVE KeysInv'
  <2>1. CASE Restart
    BY <1>2, <2>1, RestartOwns
  <2>2. CASE DismissSaved \/ AcknowledgeSaved \/ RetireSaved
    BY <1>2, <2>2, CommitOwns
  <2>3. CASE Hydrate /\ journal' = "open"
    BY <1>2, <2>3, HydrateOwns
  <2>4. CASE \E i \in Ids : RecoverLoaded(i)
    BY <1>2, <2>4, RecoverOwns
  <2>5. CASE \E i \in Ids, k \in Keys \cup {NoKey}, g \in BOOLEAN : Send(i, k, g)
    BY <1>2, <2>5, SendOwns
  <2>6. CASE Keeps
    BY <1>2, <2>6, KeepsOwn
  <2> QED BY <1>2, <2>1, <2>2, <2>3, <2>4, <2>5, <2>6, OtherKeeps
<1> QED BY <1>1, <1>2

\* A draft, a follow-up or an addition has one unresolved event that owns it, on screen,
\* in the journal and in the save that runs, with recover() and across restarts, as long
\* as no plain acknowledgement crosses a retirement of the same receipt: send() and
\* recover() take a key nobody owns, and a retirement passes it on in the save that
\* releases its receipt (outbox.ts:359, 735-744, 901-966, 967-1036). Where one does cross
\* it, the key is free between the two saves and a new send may take it: the finding of
\* the run two_owners, and by this theorem the only way to it.
THEOREM KeysHaveOneOwner == Spec /\ []~Crossed => []OneOwnerPerKey
<1>1. FenceInv => TypeOK
  BY DEF FenceInv
<1>2. Spec => [](TypeOK /\ FenceInv /\ ListedInv /\ PolicyInv /\ ReleasedInv /\ WorkInv)
  <2>1. Spec => []PolicyInv
    BY <1>1, PolicyInductive, ListedHolds, PTL DEF Spec
  <2>2. Spec => []ReleasedInv
    BY <1>1, <2>1, ReleasedInductive, ListedHolds, PTL DEF Spec
  <2>3. Spec => []WorkInv
    BY <1>1, WorkInductive, ListedHolds, PTL DEF Spec
  <2> QED BY <1>1, <2>1, <2>2, <2>3, ListedHolds, PTL
<1>3. Init => KeysInv
  BY KeysInductive
<1>4. Owning /\ TypeOK' /\ ~Crossed /\ [Next]_vars => KeysInv'
  BY KeysInductive
<1>5. Owning <=> /\ TypeOK /\ FenceInv /\ ListedInv /\ PolicyInv /\ ReleasedInv
                 /\ WorkInv /\ KeysInv
  BY DEF Owning
<1>6. Spec /\ []~Crossed => []KeysInv
  BY <1>2, <1>3, <1>4, <1>5, PTL DEF Spec
<1>7. KeysInv => OneOwnerPerKey
  BY DEF KeysInv
<1> QED BY <1>6, <1>7, PTL
=============================================================================
