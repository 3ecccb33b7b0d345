------------------------------- MODULE Outbox -------------------------------
(***************************************************************************)
(* One window's outbox: the journal of outgoing events, the attempts that  *)
(* deliver them, and the calls that resolve them                           *)
(* (src/features/relay/outbox.ts).                                         *)
(*                                                                         *)
(* Every asynchronous step of the code is an action of its own, so the     *)
(* model interleaves what the event loop interleaves: journal saves, one   *)
(* at a time in call order; the stages of an attempt between two awaits;   *)
(* timers; relay echoes; callers; the end of the process.                  *)
(*                                                                         *)
(* Abstracted: the content of an event (an id names it), error texts, the  *)
(* byte allowances, created_at, and the value of a recovery record (its    *)
(* key determines it).                                                     *)
(***************************************************************************)
EXTENDS Naturals, Sequences, FiniteSets

CONSTANTS
  Ids,          \* events this viewer may send
  NoId,         \* no event
  Keys,         \* recovery keys: the draft, follow-up or addition a send came from
  NoKey,        \* no recovery record
  Invites,      \* kind 9000: additions of channel members
  Creations,    \* kind 9007: channel creations
  Workflows,    \* commands that wait for a receipt (awaitsReceipt)
  Held,         \* events of a channel whose creation may still be running
  Readable,     \* events the session may still show after a revoked access
  MaxInflight,  \* delivery slots (3)
  MaxPending,   \* MAX_PENDING (256)
  MaxConfirmed, \* entries of the confirmed cache (MAX_CONFIRMED, 2048)
  MaxJobs,      \* bound: callers wait while this many saves are queued
  Calls         \* the optional callers and faults an instance exercises

CallNames == {"retry", "dismiss", "acknowledge", "retire", "recover", "purge",
              "dispose", "restart", "saveFault", "loadFault", "guard"}

ASSUME OutboxAssumption ==
  /\ NoId \notin Ids
  /\ NoKey \notin Keys
  /\ Invites \subseteq Ids /\ Creations \subseteq Ids /\ Workflows \subseteq Ids
  /\ Held \subseteq Ids \ (Invites \cup Creations) /\ Readable \subseteq Ids
  /\ Invites \cap Workflows = {}
  /\ MaxInflight \in Nat \ {0} /\ MaxPending \in Nat
  /\ MaxConfirmed \in Nat /\ MaxJobs \in Nat
  /\ Calls \subseteq CallNames

VARIABLES
  ops,        \* visible: pending intent (snapshot) and confirmed events (completed)
  restored,   \* restoredReceipts: hydrated receipts no attempt of ours owns
  attempts,   \* one record per queued or active delivery
  gates,      \* admissionGates: a caller's policy for a guarded addition
  work,       \* deliveryWork: events whose observers still wait for delivery
  jobs,       \* the durable chain: saves that wait for their turn
  saving,     \* the save that runs
  captured,   \* the records it writes
  journal,    \* hydration: "loading", "open" or "broken" (storageError)
  closed,     \* dispose() was called
  purged,     \* confirmedInvalidated
  dismissing, \* the fence of dismiss() and of a retirement, and its progress
  locks,      \* storage.lock: receipts whose cross-window lock is held
  recovering, \* the progress of recover()
  disk,       \* the saved journal: survives a restart
  used,       \* history: ids ever given to an event
  mayHold,    \* history: events some publish was not refused, so the relay may hold them
  receipts,   \* history: receipts given to the workflow that sent each command
  consumed,   \* history: sources recover() let its caller delete
  dismissed,  \* history: events whose dismissal is durable
  policed     \* history: additions sent under a caller's policy

memory == <<ops, restored, attempts, gates, work, jobs, saving, captured,
            journal, closed, purged, dismissing, locks, recovering>>
history == <<used, mayHold, receipts, consumed, dismissed, policed>>
vars == <<memory, disk, history>>

----------------------------------------------------------------------------
\* Records.

Deliveries == {"sending", "accepted", "unknown", "failed", "seen"}
Op == [place: {"absent", "pending", "confirmed"}, delivery: Deliveries,
       signed: BOOLEAN, key: Keys \cup {NoKey}, acked: BOOLEAN, guarded: BOOLEAN]
NoOp == [place |-> "absent", delivery |-> "unknown", signed |-> FALSE,
         key |-> NoKey, acked |-> FALSE, guarded |-> FALSE]
\* What send() adds to the snapshot.
Fresh(k, guarded) == [NoOp EXCEPT !.place = "pending", !.delivery = "sending",
                                  !.key = k, !.guarded = guarded]
Empty == [i \in Ids |-> NoOp]

\* "slot" waits for a slot after a hold; wait is the save an attempt awaits.
Attempt == [stage: {"idle", "queued", "intent", "sign", "save", "hold", "slot",
                    "prepare", "publish"},
            prev: Deliveries, wait: {"none", "pending", "done", "failed"}]
Idle == [stage |-> "idle", prev |-> "failed", wait |-> "none"]

\* A save and who waits for it; next is the replacement a retirement adds.
Job == [kind: {"none", "status"}, id: {NoId}, next: {NoId}, key: {NoKey}]
       \cup [kind: {"attempt", "dismiss", "acknowledge"}, id: Ids, next: {NoId},
             key: {NoKey}]
       \cup [kind: {"retire"}, id: Ids, next: Invites \cup {NoId}, key: Keys \cup {NoKey}]
       \cup [kind: {"recover"}, id: Ids, next: {NoId}, key: Keys]
JobOf(kind, i, n, k) == [kind |-> kind, id |-> i, next |-> n, key |-> k]
NoJob == JobOf("none", NoId, NoId, NoKey)
Status == JobOf("status", NoId, NoId, NoKey)

Recovering == [stage: {"idle"}, key: {NoKey}, item: {NoOp}]
              \cup [stage: {"lock", "load", "save"}, key: Keys, item: Op]
NotRecovering == [stage |-> "idle", key |-> NoKey, item |-> NoOp]

Has(o, i) == o[i].place # "absent"
PendingIn(o) == {i \in Ids : o[i].place = "pending"}
Active(i) == attempts[i].stage # "idle"
\* An attempt with a controller; one on hold, or back from it, uses no slot.
Controlled(i) == attempts[i].stage \notin {"idle", "queued"}
Busy(att) == {i \in Ids :
                att[i].stage \in {"intent", "sign", "save", "prepare", "publish"}}
Full(att) == Cardinality(Busy(att)) >= MaxInflight
Room == Len(jobs) < MaxJobs

\* A saved or observed event leaves the pending snapshot once nothing is owed.
Settled(i, o) == /\ (i \in Invites /\ o.acked) \/ o.delivery = "seen"
                 /\ o.key = NoKey
KeyTaken(k, except) ==
  \E j \in PendingIn(ops) \ {except} : k # NoKey /\ ops[j].key = k
\* Deliver only while the caller's policy allows it (checkAdmission).
Allowed(i) == ops[i].guarded => gates[i] = "open"

\* The confirmed cache evicts an entry when it outgrows its budget.
Trim(o) ==
  LET kept == {i \in Ids : o[i].place = "confirmed"}
  IN  IF Cardinality(kept) <= MaxConfirmed THEN {o}
      ELSE {[o EXCEPT ![v] = NoOp] : v \in kept}

\* persist(): a plain save that would wait right behind another is one with it.
PushStatus(q) == IF q # <<>> /\ q[Len(q)] = Status THEN q ELSE Append(q, Status)

----------------------------------------------------------------------------
\* Scheduling. Which queued delivery starts first is left open.

\* deliver() takes a slot; a retry saves its intent first, a send already has.
Started(att, i) ==
  [att EXCEPT ![i] = [stage |-> "intent", prev |-> att[i].prev,
                      wait |-> IF att[i].wait = "none" THEN "pending"
                                                       ELSE att[i].wait]]
StartJobs(att, i, q) ==
  IF att[i].wait = "none" THEN Append(q, JobOf("attempt", i, NoId, NoKey)) ELSE q

Launch(att, q, candidates) ==
  IF closed \/ Full(att) \/ candidates = {}
  THEN attempts' = att /\ jobs' = q
  ELSE \E i \in candidates : /\ attempts' = Started(att, i)
                             /\ jobs' = StartJobs(att, i, q)

\* pumpDeliveries(): a released hold first, then queued deliveries.
Pump(att, q, o) ==
  LET waiters == {i \in Ids : att[i].stage = "slot"}
  IN  IF waiters # {} /\ ~closed /\ ~Full(att)
      THEN /\ \E i \in waiters : attempts' = [att EXCEPT ![i].stage = "prepare"]
           /\ jobs' = q
      ELSE Launch(att, q, {i \in PendingIn(o) : /\ att[i].stage = "queued"
                                               /\ o[i].delivery = "sending"})

\* schedule(): queue an attempt and start it when a slot is free.
Schedule(i, prev, wait, q) ==
  Launch([attempts EXCEPT ![i] = [stage |-> "queued", prev |-> prev, wait |-> wait]],
         q, {i})

\* Mutants: the previous attempt's evidence is forgotten; a status nobody knows.
FailedDeliveryForgets(prev) == IF prev \in {"accepted", "seen"} THEN prev ELSE "failed"
FailedDeliveryRefused(prev) ==
  IF prev \in {"unknown", "accepted", "seen"} THEN prev ELSE "refused"

FailedDelivery(prev) ==
  IF prev \in {"unknown", "accepted", "seen"} THEN prev ELSE "failed"

\* Mutant: an unanswered publish counts as failed.
CaughtDeliveryCertain(i, uncertain) ==
  LET prev == attempts[i].prev
  IN  IF ops[i].delivery = "seen" \/ prev = "seen" THEN "seen"
      ELSE IF prev = "accepted" THEN "accepted" ELSE FailedDelivery(prev)

\* What the catch clause of deliver() records; uncertain: the publisher was
\* entered and did not refuse.
CaughtDelivery(i, uncertain) ==
  LET prev == attempts[i].prev
  IN  IF ops[i].delivery = "seen" \/ prev = "seen" THEN "seen"
      ELSE IF prev = "accepted" THEN "accepted"
      ELSE IF uncertain THEN "unknown"
      ELSE FailedDelivery(prev)

\* The end of deliver(): the status, its save, and the finally clause.
Finish(i, delivery) ==
  LET updated == [ops[i] EXCEPT !.delivery = delivery]
      done == Settled(i, updated)
      result == [ops EXCEPT ![i] = IF done THEN [updated EXCEPT !.place = "confirmed"]
                                           ELSE updated]
      idle == [attempts EXCEPT ![i] = Idle]
  IN  /\ ops' \in (IF done THEN Trim(result) ELSE {result})
      /\ Pump(idle, PushStatus(jobs), result)
      /\ gates' = IF delivery \in {"accepted", "seen"}
                  THEN [gates EXCEPT ![i] = "none"] ELSE gates
      /\ receipts' = IF i \in Workflows THEN [receipts EXCEPT ![i] = @ + 1]
                                        ELSE receipts

journalState == <<saving, captured, journal, purged, dismissing, locks,
                  recovering, disk>>
quietHistory == <<used, consumed, dismissed, policed>>

----------------------------------------------------------------------------
\* Hydration.

\* Mutants: a signature passes for an echo; a saved "sending" is restored as such;
\* the caller's policy is forgotten.
DecodedSigned(r) ==
  [r EXCEPT !.delivery = IF r.signed THEN "seen"
                         ELSE IF r.delivery = "failed" THEN "failed" ELSE "unknown"]
DecodedUnguarded(r) ==
  [r EXCEPT !.guarded = FALSE,
            !.delivery = IF r.delivery = "seen" /\ r.signed THEN "seen"
                         ELSE IF r.delivery = "failed" THEN "failed" ELSE "unknown"]

\* decode(): what an earlier session left sending or accepted is unknown now.
Decoded(r) ==
  [r EXCEPT !.delivery = IF r.delivery = "seen" /\ r.signed THEN "seen"
                         ELSE IF r.delivery = "failed" THEN "failed"
                         ELSE "unknown"]
Outstanding(i, r) ==
  \/ ~(i \in Invites /\ r.acked) /\ r.delivery # "seen"
  \/ r.key # NoKey
\* Mutant: the confirmed cache returns after a revoked access.
RestoredAnyway(i, r) ==
  IF r.place = "absent" THEN NoOp
  ELSE [Decoded(r) EXCEPT !.place = IF Outstanding(i, Decoded(r)) THEN "pending"
                                                                  ELSE "confirmed"]

\* restore(): pending intent always returns; after a revoked access only the
\* channel creations that stay readable return from the confirmed cache.
Restored(i, r) ==
  IF r.place = "absent" THEN NoOp
  ELSE IF Outstanding(i, Decoded(r)) THEN [Decoded(r) EXCEPT !.place = "pending"]
  ELSE IF ~purged \/ i \in Creations \cap Readable
       THEN [Decoded(r) EXCEPT !.place = "confirmed"]
  ELSE NoOp

Hydrate ==
  LET pending == {i \in Ids : /\ Has(disk, i)
                              /\ Outstanding(i, Decoded(disk[i]))}
  IN  /\ journal = "loading"
      /\ IF Cardinality(pending) > MaxPending
         THEN journal' = "broken" /\ UNCHANGED <<ops, restored>>
         ELSE /\ journal' = "open"
              /\ restored' = pending
              /\ ops' \in Trim([i \in Ids |-> IF Has(disk, i) THEN Restored(i, disk[i])
                                                              ELSE ops[i]])
      /\ UNCHANGED <<attempts, gates, work, jobs, saving, captured, closed, purged,
                     dismissing, locks, recovering, disk, history>>

HydrateFails ==
  /\ "loadFault" \in Calls
  /\ journal = "loading"
  /\ journal' = "broken"
  /\ UNCHANGED <<ops, restored, attempts, gates, work, jobs, saving, captured,
                 closed, purged, dismissing, locks, recovering, disk, history>>

----------------------------------------------------------------------------
\* Saves: persist() and what it commits.

\* The records a save writes, read when its turn comes.
Acknowledged(o, i) == IF Has(o, i)
                      THEN [o EXCEPT ![i].key = NoKey, ![i].acked = TRUE] ELSE o
\* Mutant: a replacement is saved without retiring its predecessor.
CaptureBoth(job) ==
  CASE job.kind = "dismiss" -> [ops EXCEPT ![job.id] = NoOp]
    [] job.kind = "retire" /\ job.next # NoId ->
         [ops EXCEPT ![job.next] = Fresh(job.key, FALSE)]
    [] job.kind \in {"acknowledge", "retire"} -> Acknowledged(ops, job.id)
    [] OTHER -> ops

Capture(job) ==
  LET cleared == Acknowledged(ops, job.id)
  IN  CASE job.kind = "dismiss" -> [ops EXCEPT ![job.id] = NoOp]
        [] job.kind = "acknowledge" -> cleared
        [] job.kind = "retire" ->
             IF job.next = NoId THEN cleared
             ELSE [cleared EXCEPT ![job.next] = Fresh(job.key, FALSE)]
        [] OTHER -> ops

\* Mutant: a save does not wait for hydration.
SaveStartsEarly ==
  /\ journal # "broken" /\ saving = NoJob /\ jobs # <<>>
  /\ saving' = Head(jobs)
  /\ captured' = Capture(Head(jobs))
  /\ jobs' = Tail(jobs)
  /\ UNCHANGED <<ops, restored, attempts, gates, work, journal, closed, purged,
                 dismissing, locks, recovering, disk, history>>

SaveStarts ==
  /\ journal = "open" /\ saving = NoJob /\ jobs # <<>>
  /\ saving' = Head(jobs)
  /\ captured' = Capture(Head(jobs))
  /\ jobs' = Tail(jobs)
  /\ UNCHANGED <<ops, restored, attempts, gates, work, journal, closed, purged,
                 dismissing, locks, recovering, disk, history>>

\* Mutant: a failed save is swallowed.
ToldDone(i, result, q) == [attempts EXCEPT ![i].wait = "done"]

\* The attempt a finished save releases, unless a newer save of it is queued.
Told(i, result, q) ==
  IF attempts[i].wait = "pending" /\ \A n \in DOMAIN q : q[n].kind = "attempt"
                                                         => q[n].id # i
  THEN [attempts EXCEPT ![i].wait = result] ELSE attempts

Written == /\ disk' = captured
           /\ saving' = NoJob
           /\ captured' = Empty

StatusSaved ==
  /\ saving.kind = "status"
  /\ Written
  /\ UNCHANGED <<ops, restored, attempts, gates, work, jobs, journal, closed,
                 purged, dismissing, locks, recovering, history>>

AttemptSaved ==
  /\ saving.kind = "attempt"
  /\ Written
  /\ attempts' = Told(saving.id, "done", jobs)
  /\ UNCHANGED <<ops, restored, gates, work, jobs, journal, closed, purged,
                 dismissing, locks, recovering, history>>

DismissSaved ==
  LET i == saving.id
  IN  /\ saving.kind = "dismiss"
      /\ Written
      /\ ops' = [ops EXCEPT ![i] = NoOp]
      /\ work' = work \ {i}
      /\ gates' = [gates EXCEPT ![i] = "none"]
      /\ dismissing' = [dismissing EXCEPT ![i] = "none"]
      /\ locks' = locks \ {i}
      /\ dismissed' = dismissed \cup {i}
      /\ UNCHANGED <<restored, attempts, jobs, journal, closed, purged, recovering,
                     used, mayHold, receipts, consumed, policed>>

\* The receipt gives its recovery record back once that is durable; an invitation
\* or a seen event then leaves the pending snapshot.
Released(o, i) ==
  LET cleared == Acknowledged(o, i)
  IN  IF /\ Has(o, i) /\ ~Active(i)
         /\ o[i].delivery = "seen" \/ i \in Invites
      THEN Trim([cleared EXCEPT ![i].place = "confirmed"])
      ELSE {cleared}

AcknowledgeSaved ==
  /\ saving.kind = "acknowledge"
  /\ Written
  /\ ops' \in Released(ops, saving.id)
  /\ UNCHANGED <<restored, attempts, gates, work, jobs, journal, closed, purged,
                 dismissing, locks, recovering, history>>

\* A retirement also ends its fence, and its replacement joins and is scheduled.
RetireSaved ==
  LET n == saving.next
  IN  /\ saving.kind = "retire"
      /\ Written
      /\ dismissing' = [dismissing EXCEPT ![saving.id] = "none"]
      /\ IF n = NoId
         THEN ops' \in Released(ops, saving.id) /\ UNCHANGED <<attempts, jobs>>
         ELSE /\ ops' \in Released([ops EXCEPT ![n] = Fresh(saving.key, FALSE)],
                                   saving.id)
              /\ IF closed THEN UNCHANGED <<attempts, jobs>>
                           ELSE Schedule(n, "failed", "none", jobs)
      /\ UNCHANGED <<restored, gates, work, journal, closed, purged, locks,
                     recovering, history>>

RecoverSaved ==
  LET i == saving.id
  IN  /\ saving.kind = "recover"
      /\ Written
      /\ consumed' = consumed \cup {<<i, saving.key>>}
      /\ recovering' = [recovering EXCEPT ![i] = NotRecovering]
      /\ locks' = locks \ {i}
      /\ UNCHANGED <<ops, restored, attempts, gates, work, jobs, journal, closed,
                     purged, dismissing, used, mayHold, receipts, dismissed, policed>>

\* A failed save leaves the disk and fails who waits for it.
FailJob(job, q) ==
  /\ attempts' = IF job.kind = "attempt" THEN Told(job.id, "failed", q) ELSE attempts
  /\ dismissing' = IF job.kind \in {"dismiss", "retire"}
                   THEN [dismissing EXCEPT ![job.id] = "none"] ELSE dismissing
  /\ locks' = IF job.kind \in {"dismiss", "recover"} THEN locks \ {job.id} ELSE locks
  /\ recovering' = IF job.kind = "recover"
                   THEN [recovering EXCEPT ![job.id] = NotRecovering] ELSE recovering
  /\ work' = IF job.kind = "retire" THEN work \ {job.next} ELSE work

SaveFails ==
  /\ "saveFault" \in Calls
  /\ saving # NoJob
  /\ FailJob(saving, jobs)
  /\ saving' = NoJob /\ captured' = Empty
  /\ UNCHANGED <<ops, restored, gates, jobs, journal, closed, purged, disk, history>>

\* Nothing is saved to a journal that could not be loaded.
SaveRefused ==
  /\ journal = "broken" /\ jobs # <<>>
  /\ FailJob(Head(jobs), Tail(jobs))
  /\ jobs' = Tail(jobs)
  /\ UNCHANGED <<ops, restored, gates, saving, captured, journal, closed, purged,
                 disk, history>>

----------------------------------------------------------------------------
\* Sends and retries.

\* send(): a new event joins the snapshot, saves its intent and is scheduled.
\* A source that must be recoverable waits for hydration and holds its key alone.
Send(i, k, guard) ==
  /\ Room /\ ~closed /\ journal # "broken"
  /\ i \notin used
  /\ k # NoKey => journal = "open" /\ ~KeyTaken(k, i)
  /\ Cardinality(PendingIn(ops)) < MaxPending
  /\ ops' = [ops EXCEPT ![i] = Fresh(k, guard)]
  /\ gates' = IF guard THEN [gates EXCEPT ![i] = "open"] ELSE gates
  /\ work' = work \cup {i}
  /\ used' = used \cup {i}
  /\ policed' = IF guard THEN policed \cup {i} ELSE policed
  /\ Schedule(i, "failed", "pending", Append(jobs, JobOf("attempt", i, NoId, NoKey)))
  /\ UNCHANGED <<restored, saving, captured, journal, closed, purged, dismissing,
                 locks, recovering, disk, mayHold, receipts, consumed, dismissed>>

SendPlain == \E i \in Ids : \E k \in Keys \cup {NoKey} :
               (i \in Workflows => k = NoKey) /\ Send(i, k, FALSE)
SendGuarded == "guard" \in Calls /\ \E i \in Invites : Send(i, NoKey, TRUE)

\* The caller withdraws the policy it sent an addition under.
Withdraw ==
  \E i \in Invites :
    /\ gates[i] = "open"
    /\ gates' = [gates EXCEPT ![i] = "shut"]
    /\ UNCHANGED <<ops, restored, attempts, work, jobs, saving, captured, journal,
                   closed, purged, dismissing, locks, recovering, disk, history>>

\* Mutant: a retry does not respect the fence of a dismissal.
RetryUnfenced(i, renewed) ==
  /\ "retry" \in Calls /\ Room /\ ~closed
  /\ ops[i].place = "pending" /\ ~(i \in Invites /\ ops[i].acked)
  /\ i \notin Workflows /\ ~Active(i)
  /\ restored' = restored \ {i}
  /\ work' = work \cup {i}
  /\ ops' = [ops EXCEPT ![i].delivery = "sending"]
  /\ Schedule(i, ops[i].delivery, "none", jobs)
  /\ UNCHANGED <<gates, saving, captured, journal, closed, purged, dismissing, locks,
                 recovering, disk, history>>

\* retry(): the user sends a resolved or restored event again, under the policy
\* it was sent with or a renewed one. A workflow command is never replayed.
Retry(i, renewed) ==
  LET item == ops[i]
  IN  /\ "retry" \in Calls /\ Room /\ ~closed
      /\ item.place = "pending" /\ ~(i \in Invites /\ item.acked)
      /\ i \notin Workflows /\ ~Active(i) /\ dismissing[i] = "none"
      /\ item.guarded /\ ~renewed => gates[i] = "open"
      /\ restored' = restored \ {i}
      /\ gates' = IF renewed THEN [gates EXCEPT ![i] = "open"] ELSE gates
      /\ work' = IF item.delivery \in {"failed", "unknown"} THEN work \cup {i} ELSE work
      /\ ops' = [ops EXCEPT ![i].delivery = "sending",
                            ![i].guarded = @ \/ renewed]
      /\ Schedule(i, item.delivery, "none", jobs)
      /\ UNCHANGED <<saving, captured, journal, closed, purged, dismissing, locks,
                     recovering, disk, history>>

RetryPlain == \E i \in Ids : Retry(i, FALSE)
RetryRenewed == "guard" \in Calls /\ \E i \in Invites : Retry(i, TRUE)

----------------------------------------------------------------------------
\* The stages of an attempt: deliver() from one await to the next.

\* The intent is durable: sign it, or reuse the signature of an earlier attempt.
IntentSaved(i) ==
  /\ attempts[i].stage = "intent" /\ attempts[i].wait = "done" /\ Allowed(i)
  /\ IF ops[i].signed
     THEN /\ attempts' = [attempts EXCEPT ![i].stage = "save", ![i].wait = "pending"]
          /\ jobs' = Append(jobs, JobOf("attempt", i, NoId, NoKey))
     ELSE /\ attempts' = [attempts EXCEPT ![i].stage = "sign", ![i].wait = "none"]
          /\ UNCHANGED jobs
  /\ UNCHANGED <<ops, restored, gates, work, closed, journalState, history>>

Signed(i) ==
  /\ attempts[i].stage = "sign"
  /\ ops' = [ops EXCEPT ![i].signed = TRUE]
  /\ attempts' = [attempts EXCEPT ![i].stage = "save", ![i].wait = "pending"]
  /\ jobs' = Append(jobs, JobOf("attempt", i, NoId, NoKey))
  /\ UNCHANGED <<restored, gates, work, closed, journalState, history>>

\* Mutant: a hold does not pass its slot on.
SignatureSavedHoardsSlot(i) ==
  /\ attempts[i].stage = "save" /\ attempts[i].wait = "done"
  /\ \E stage \in {"prepare"} \cup (IF i \in Held THEN {"hold"} ELSE {}) :
       attempts' = [attempts EXCEPT ![i].stage = stage, ![i].wait = "none"]
  /\ UNCHANGED <<ops, restored, gates, work, jobs, closed, journalState, history>>

\* The signature is durable: prepare, or give the slot up and wait for the channel.
SignatureSaved(i) ==
  /\ attempts[i].stage = "save" /\ attempts[i].wait = "done"
  /\ \/ /\ attempts' = [attempts EXCEPT ![i].stage = "prepare", ![i].wait = "none"]
        /\ UNCHANGED jobs
     \/ /\ i \in Held
        /\ Pump([attempts EXCEPT ![i].stage = "hold", ![i].wait = "none"], jobs, ops)
  /\ UNCHANGED <<ops, restored, gates, work, closed, journalState, history>>

HoldEnds(i) ==
  /\ attempts[i].stage = "hold"
  /\ attempts' = [attempts EXCEPT ![i].stage = IF Full(attempts) THEN "slot"
                                                                ELSE "prepare"]
  /\ UNCHANGED <<ops, restored, gates, work, jobs, closed, journalState, history>>

\* The last check and the entry of the publisher are one synchronous step.
PublishStarts(i) ==
  /\ attempts[i].stage = "prepare" /\ Allowed(i)
  /\ attempts' = [attempts EXCEPT ![i].stage = "publish"]
  /\ UNCHANGED <<ops, restored, gates, work, jobs, closed, journalState, history>>

\* Mutant: the observers of an accepted send are kept.
PublishAcceptedSilently(i) ==
  /\ attempts[i].stage = "publish"
  /\ Finish(i, IF ops[i].delivery = "seen" \/ attempts[i].prev = "seen"
               THEN "seen" ELSE "accepted")
  /\ mayHold' = mayHold \cup {i}
  /\ UNCHANGED <<restored, work, closed, journalState, quietHistory>>

PublishAccepted(i) ==
  /\ attempts[i].stage = "publish"
  /\ Finish(i, IF ops[i].delivery = "seen" \/ attempts[i].prev = "seen"
               THEN "seen" ELSE "accepted")
  /\ work' = work \ {i}
  /\ mayHold' = mayHold \cup {i}
  /\ UNCHANGED <<restored, closed, journalState, quietHistory>>

\* PublishRejected: the request never left, or the relay refused it.
PublishRejected(i) ==
  /\ attempts[i].stage = "publish"
  /\ Finish(i, CaughtDelivery(i, FALSE))
  /\ UNCHANGED <<restored, work, closed, journalState, mayHold, quietHistory>>

\* The answer is lost, unreadable or late (expire() aborts the controller).
PublishLost(i) ==
  /\ attempts[i].stage = "publish"
  /\ Finish(i, CaughtDelivery(i, TRUE))
  /\ mayHold' = mayHold \cup {i}
  /\ UNCHANGED <<restored, work, closed, journalState, quietHistory>>

\* An attempt fails before it enters the publisher: the journal refused a save,
\* the policy was withdrawn, the signer, the hold or the preparation failed.
FailsUnpublished(i) ==
  /\ \/ attempts[i].stage \in {"intent", "save"} /\ attempts[i].wait = "failed"
     \/ attempts[i].stage = "intent" /\ attempts[i].wait = "done" /\ ~Allowed(i)
     \/ attempts[i].stage \in {"sign", "hold", "prepare"}
  /\ Finish(i, CaughtDelivery(i, FALSE))
  /\ UNCHANGED <<restored, work, closed, journalState, mayHold, quietHistory>>

\* expire(): the deadline runs except during a hold. Without a controller the
\* attempt is removed in place; a publishing one ends as PublishLost.
ExpiresQueued(i) ==
  /\ attempts[i].stage = "queued"
  /\ attempts' = [attempts EXCEPT ![i] = Idle]
  /\ ops' = [ops EXCEPT ![i].delivery = FailedDelivery(attempts[i].prev)]
  /\ jobs' = PushStatus(jobs)
  /\ receipts' = IF i \in Workflows THEN [receipts EXCEPT ![i] = @ + 1] ELSE receipts
  /\ UNCHANGED <<restored, gates, work, closed, journalState, mayHold, quietHistory>>

\* Mutant: the timer is not armed again when a hold ends.
ExpiresBeforeHold(i) ==
  /\ attempts[i].stage \in {"intent", "sign", "save"}
  /\ Finish(i, CaughtDelivery(i, FALSE))
  /\ UNCHANGED <<restored, work, closed, journalState, mayHold, quietHistory>>

ExpiresActive(i) ==
  /\ attempts[i].stage \in {"intent", "sign", "save", "slot", "prepare"}
  /\ Finish(i, CaughtDelivery(i, FALSE))
  /\ UNCHANGED <<restored, work, closed, journalState, mayHold, quietHistory>>

\* Mutant: an echo ends a command that still waits for its receipt.
ObserveEndsAll(i) ==
  LET seen == [ops[i] EXCEPT !.signed = TRUE, !.delivery = "seen"]
      kept == ops[i].key # NoKey
      result == [ops EXCEPT ![i] = IF kept THEN seen
                                   ELSE [seen EXCEPT !.place = "confirmed"]]
  IN  /\ Room /\ ~closed
      /\ i \in mayHold \/ attempts[i].stage = "publish"
      /\ ops[i].place = "pending"
      /\ work' = work \ {i}
      /\ ops' = result
      /\ gates' = gates
      /\ Pump([attempts EXCEPT ![i] = Idle], PushStatus(jobs), result)
      /\ mayHold' = mayHold \cup {i}
      /\ UNCHANGED <<restored, closed, journalState, receipts, quietHistory>>

\* observe(): the relay's verified copy arrives, as an echo or in history. It ends
\* the attempt, except that of a command, which still waits for its receipt.
Observe(i) ==
  LET stays == i \in Workflows /\ Active(i)
      seen == [ops[i] EXCEPT !.signed = TRUE, !.delivery = "seen"]
      kept == stays \/ ops[i].key # NoKey
      result == [ops EXCEPT ![i] = IF kept THEN seen
                                   ELSE [seen EXCEPT !.place = "confirmed"]]
  IN  /\ Room /\ ~closed
      /\ i \in mayHold \/ attempts[i].stage = "publish"
      /\ ops[i].place = "pending"
      /\ work' = work \ {i}
      /\ ops' \in (IF kept THEN {result} ELSE Trim(result))
      /\ gates' = IF Controlled(i) /\ ~stays THEN [gates EXCEPT ![i] = "none"] ELSE gates
      /\ IF Controlled(i) /\ ~stays
         THEN Pump([attempts EXCEPT ![i] = Idle], PushStatus(jobs), result)
         ELSE /\ attempts' = IF stays THEN attempts ELSE [attempts EXCEPT ![i] = Idle]
              /\ jobs' = PushStatus(jobs)
      /\ mayHold' = mayHold \cup {i}
      /\ UNCHANGED <<restored, closed, journalState, receipts, quietHistory>>

----------------------------------------------------------------------------
\* Calls that resolve a receipt.

\* Mutant: the recovery record is given up before that is saved.
AcknowledgeAtOnce(i) ==
  /\ "acknowledge" \in Calls /\ Room /\ journal = "open" /\ ~closed
  /\ Has(ops, i) /\ ops[i].key # NoKey
  /\ i \in Invites \/ ops[i].delivery \in {"accepted", "seen"}
  /\ ops' = Acknowledged(ops, i)
  /\ jobs' = Append(jobs, JobOf("acknowledge", i, NoId, NoKey))
  /\ UNCHANGED <<restored, attempts, gates, work, closed, journalState, history>>

\* acknowledge(): the caller has confirmed delivery, or a fresh member roster;
\* the receipt gives up its recovery record once that is saved.
Acknowledge(i) ==
  /\ "acknowledge" \in Calls /\ Room /\ journal = "open" /\ ~closed
  /\ Has(ops, i) /\ ops[i].key # NoKey
  /\ i \in Invites \/ ops[i].delivery \in {"accepted", "seen"}
  /\ jobs' = Append(jobs, JobOf("acknowledge", i, NoId, NoKey))
  /\ UNCHANGED <<ops, restored, attempts, gates, work, closed, journalState, history>>

\* acknowledge(verifyRetirement): an invitation past its delivery window is
\* verified under the fence that also stops retries and dismissals.
Retirable(i, recorded) ==
  /\ ~closed /\ ~Active(i)
  /\ ops[i].place = "pending" /\ i \in Invites /\ ops[i].key # NoKey
  /\ ops[i].delivery \in {"unknown", "failed"} \/ (recorded /\ ops[i].delivery = "seen")

RetireStarts(i) ==
  /\ "retire" \in Calls /\ journal = "open"
  /\ dismissing[i] = "none" /\ Retirable(i, TRUE)
  /\ dismissing' = [dismissing EXCEPT ![i] = "verify"]
  /\ UNCHANGED <<ops, restored, attempts, gates, work, jobs, saving, captured, journal,
                 closed, purged, locks, recovering, disk, history>>

RetireGivenUp(i) ==
  /\ dismissing[i] = "verify"
  /\ dismissing' = [dismissing EXCEPT ![i] = "none"]
  /\ UNCHANGED <<ops, restored, attempts, gates, work, jobs, saving, captured, journal,
                 closed, purged, locks, recovering, disk, history>>

RetireVerified(i) ==
  /\ Room /\ journal = "open" /\ dismissing[i] = "verify"
  /\ \E recorded \in BOOLEAN : Retirable(i, recorded)
  /\ \/ /\ jobs' = Append(jobs, JobOf("retire", i, NoId, NoKey))
        /\ UNCHANGED <<work, used>>
     \/ \E n \in Invites \ used :
          /\ ~KeyTaken(ops[i].key, i) /\ Cardinality(PendingIn(ops)) < MaxPending
          /\ jobs' = Append(jobs, JobOf("retire", i, n, ops[i].key))
          /\ work' = work \cup {n}
          /\ used' = used \cup {n}
  /\ dismissing' = [dismissing EXCEPT ![i] = "save"]
  /\ UNCHANGED <<ops, restored, attempts, gates, saving, captured, journal, closed,
                 purged, locks, recovering, disk, mayHold, receipts, consumed,
                 dismissed, policed>>

\* Mutant: a receipt that owns a source may be dismissed.
DismissAny(i) ==
  /\ "dismiss" \in Calls /\ ~closed
  /\ dismissing[i] = "none" /\ ~Active(i) /\ Has(ops, i)
  /\ dismissing' = [dismissing EXCEPT ![i] = "lock"]
  /\ UNCHANGED <<ops, restored, attempts, gates, work, jobs, saving, captured, journal,
                 closed, purged, locks, recovering, disk, history>>

\* dismiss(): fenced at once, removed under the receipt's cross-window lock.
Dismiss(i) ==
  /\ "dismiss" \in Calls /\ ~closed
  /\ dismissing[i] = "none" /\ ~Active(i) /\ Has(ops, i)
  /\ ops[i].key # NoKey => ops[i].delivery = "failed"
  /\ dismissing' = [dismissing EXCEPT ![i] = "lock"]
  /\ UNCHANGED <<ops, restored, attempts, gates, work, jobs, saving, captured, journal,
                 closed, purged, locks, recovering, disk, history>>

\* Mutant: a dismissal does not wait for the receipt's lock.
DismissUnlocked(i) ==
  /\ Room /\ dismissing[i] = "lock"
  /\ dismissing' = [dismissing EXCEPT ![i] = "save"]
  /\ jobs' = Append(jobs, JobOf("dismiss", i, NoId, NoKey))
  /\ UNCHANGED <<ops, restored, attempts, gates, work, saving, captured, journal,
                 closed, purged, locks, recovering, disk, history>>

DismissLocked(i) ==
  /\ Room /\ dismissing[i] = "lock" /\ i \notin locks
  /\ dismissing' = [dismissing EXCEPT ![i] = "save"]
  /\ locks' = locks \cup {i}
  /\ jobs' = Append(jobs, JobOf("dismiss", i, NoId, NoKey))
  /\ UNCHANGED <<ops, restored, attempts, gates, work, saving, captured, journal,
                 closed, purged, recovering, disk, history>>

\* recover(): a caller asks the receipt to own its source, first under the lock.
RecoverCalled(i, k) ==
  /\ "recover" \in Calls
  /\ recovering[i] = NotRecovering /\ Has(ops, i) /\ i \notin Workflows
  /\ <<i, k>> \notin consumed
  /\ recovering' = [recovering EXCEPT ![i] = [NotRecovering EXCEPT !.stage = "lock",
                                                                   !.key = k]]
  /\ UNCHANGED <<ops, restored, attempts, gates, work, jobs, saving, captured, journal,
                 closed, purged, dismissing, locks, disk, history>>

\* The item is read here, before the shared journal is loaded.
RecoverLocked(i) ==
  /\ recovering[i].stage = "lock" /\ i \notin locks /\ journal # "loading"
  /\ IF closed \/ journal = "broken" \/ ~Has(ops, i) \/ dismissing[i] # "none"
     THEN recovering' = [recovering EXCEPT ![i] = NotRecovering] /\ UNCHANGED locks
     ELSE /\ recovering' = [recovering EXCEPT ![i].stage = "load", ![i].item = ops[i]]
          /\ locks' = locks \cup {i}
  /\ UNCHANGED <<ops, restored, attempts, gates, work, jobs, saving, captured, journal,
                 closed, purged, dismissing, disk, history>>

\* The shared record wins over a receipt this window only hydrated.
RecoverLoaded(i) ==
  LET shared == disk[i]
      k == recovering[i].key
      item == IF Has(disk, i) /\ i \in restored THEN shared ELSE recovering[i].item
      removed == ~Has(disk, i) /\ i \in restored
      owned == ~removed /\ ((Has(disk, i) /\ shared.key = k) \/ item.acked)
      refused == \/ removed
                 \/ item.key \notin {k, NoKey} \/ KeyTaken(k, i)
                 \/ ops[i].place # "pending" /\ Cardinality(PendingIn(ops)) >= MaxPending
  IN  /\ recovering[i].stage = "load"
      /\ IF owned \/ refused
         THEN /\ recovering' = [recovering EXCEPT ![i] = NotRecovering]
              /\ locks' = locks \ {i}
              /\ consumed' = IF owned THEN consumed \cup {<<i, k>>} ELSE consumed
              /\ UNCHANGED <<ops, restored, jobs>>
         ELSE /\ Room
              /\ recovering' = [recovering EXCEPT ![i].stage = "save", ![i].item = NoOp]
              /\ restored' = IF item.key = NoKey THEN restored \ {i} ELSE restored
              /\ ops' = [ops EXCEPT ![i] = [item EXCEPT !.place = "pending", !.key = k]]
              /\ jobs' = Append(jobs, JobOf("recover", i, NoId, k))
              /\ UNCHANGED <<locks, consumed>>
      /\ UNCHANGED <<attempts, gates, work, saving, captured, journal, closed, purged,
                     dismissing, disk, used, mayHold, receipts, dismissed, policed>>

\* The shared journal cannot be read: the call fails and frees the lock.
RecoverLoadFails(i) ==
  /\ "loadFault" \in Calls
  /\ recovering[i].stage = "load"
  /\ recovering' = [recovering EXCEPT ![i] = NotRecovering]
  /\ locks' = locks \ {i}
  /\ UNCHANGED <<ops, restored, attempts, gates, work, jobs, saving, captured, journal,
                 closed, purged, dismissing, disk, history>>

----------------------------------------------------------------------------
\* The session around the outbox.

\* purgeConfirmed(): a revoked access drops the confirmed events it hides.
Purge ==
  /\ "purge" \in Calls /\ Room /\ ~purged
  /\ purged' = TRUE
  /\ ops' = [i \in Ids |-> IF ops[i].place = "confirmed" /\ i \notin Readable
                           THEN NoOp ELSE ops[i]]
  /\ jobs' = PushStatus(jobs)
  /\ UNCHANGED <<restored, attempts, gates, work, saving, captured, journal, closed,
                 dismissing, locks, recovering, disk, history>>

Publishing == {i \in Ids : attempts[i].stage = "publish"}

\* dispose(): deliveries end without a status; queued saves still run.
Dispose ==
  /\ "dispose" \in Calls /\ ~closed
  /\ closed' = TRUE
  /\ gates' = [i \in Ids |-> "none"]
  /\ attempts' = [i \in Ids |-> Idle]
  /\ work' = {}
  /\ mayHold' = mayHold \cup Publishing
  /\ UNCHANGED <<ops, restored, jobs, journalState, quietHistory, receipts>>

\* The process ends anywhere, and the journal is opened again; the transaction
\* that was being written is committed or not.
Restart ==
  /\ "restart" \in Calls
  /\ ops' = Empty /\ restored' = {}
  /\ attempts' = [i \in Ids |-> Idle]
  /\ gates' = [i \in Ids |-> "none"]
  /\ work' = {}
  /\ jobs' = <<>> /\ saving' = NoJob /\ captured' = Empty
  /\ journal' = "loading" /\ closed' = FALSE /\ purged' = FALSE
  /\ dismissing' = [i \in Ids |-> "none"]
  /\ locks' = {}
  /\ recovering' = [i \in Ids |-> NotRecovering]
  /\ disk' \in {disk} \cup (IF saving # NoJob THEN {captured} ELSE {})
  /\ mayHold' = mayHold \cup Publishing
  /\ UNCHANGED <<used, receipts, consumed, dismissed, policed>>

----------------------------------------------------------------------------

\* A journal that was never used.
Init ==
  /\ ops = Empty /\ restored = {} /\ attempts = [i \in Ids |-> Idle]
  /\ gates = [i \in Ids |-> "none"] /\ work = {}
  /\ jobs = <<>> /\ saving = NoJob /\ captured = Empty
  /\ journal = "loading" /\ closed = FALSE /\ purged = FALSE
  /\ dismissing = [i \in Ids |-> "none"] /\ locks = {}
  /\ recovering = [i \in Ids |-> NotRecovering]
  /\ disk = Empty
  /\ used = {} /\ mayHold = {} /\ receipts = [i \in Ids |-> 0]
  /\ consumed = {} /\ dismissed = {} /\ policed = {}

Journal == \/ Hydrate \/ HydrateFails \/ SaveStarts \/ StatusSaved \/ AttemptSaved
           \/ DismissSaved \/ AcknowledgeSaved \/ RetireSaved \/ RecoverSaved
           \/ SaveFails \/ SaveRefused
Deliver(i) == \/ IntentSaved(i) \/ Signed(i) \/ SignatureSaved(i) \/ HoldEnds(i)
              \/ PublishStarts(i) \/ PublishAccepted(i) \/ PublishRejected(i)
              \/ PublishLost(i) \/ FailsUnpublished(i) \/ ExpiresQueued(i)
              \/ ExpiresActive(i) \/ Observe(i)
Resolve(i) == \/ Acknowledge(i) \/ RetireStarts(i) \/ RetireGivenUp(i)
              \/ RetireVerified(i) \/ Dismiss(i) \/ DismissLocked(i)
              \/ \E k \in Keys : RecoverCalled(i, k)
              \/ RecoverLocked(i) \/ RecoverLoaded(i) \/ RecoverLoadFails(i)
Compose == SendPlain \/ SendGuarded \/ Withdraw \/ RetryPlain \/ RetryRenewed
Session == Purge \/ Dispose \/ Restart

Next == \/ Journal
        \/ \E i \in Ids : Deliver(i) \/ Resolve(i)
        \/ Compose
        \/ Session

Spec == Init /\ [][Next]_vars

\* The deadline timer of every attempt fires, and the channel creation a hold waits
\* for resolves or rejects. Nothing is assumed of the signer, the relay or the disk.
Timers(i) == ExpiresQueued(i) \/ ExpiresActive(i) \/ PublishLost(i)
Holds(i) == HoldEnds(i) \/ (attempts[i].stage = "hold" /\ FailsUnpublished(i))
Fairness == \A i \in Ids : WF_vars(Timers(i)) /\ WF_vars(Holds(i))
FairSpec == Spec /\ Fairness

----------------------------------------------------------------------------
\* Correctness.

\* Every variable has its type, and a save runs exactly while it holds records.
TypeOK ==
  /\ ops \in [Ids -> Op] /\ disk \in [Ids -> Op] /\ captured \in [Ids -> Op]
  /\ restored \subseteq Ids /\ work \subseteq Ids /\ locks \subseteq Ids
  /\ attempts \in [Ids -> Attempt]
  /\ gates \in [Ids -> {"none", "open", "shut"}]
  /\ jobs \in Seq(Job) /\ saving \in Job
  /\ journal \in {"loading", "open", "broken"}
  /\ closed \in BOOLEAN /\ purged \in BOOLEAN
  /\ dismissing \in [Ids -> {"none", "lock", "verify", "save"}]
  /\ recovering \in [Ids -> Recovering]
  /\ used \subseteq Ids /\ mayHold \subseteq Ids
  /\ receipts \in [Ids -> Nat]
  /\ consumed \subseteq Ids \X Keys
  /\ dismissed \subseteq Ids /\ policed \subseteq Ids

\* "Not sent" is said, and saved, only of an event no publish of which may have
\* reached the relay: not after a failed retry of an earlier dispatched attempt
\* (outbox.ts:241), nor after a crash in the middle of a publish.
FailedMeansUndelivered ==
  \A i \in mayHold \cup Publishing :
    /\ ~(Has(ops, i) /\ ops[i].delivery = "failed")
    /\ ~(Has(disk, i) /\ disk[i].delivery = "failed")

\* "Accepted" and "seen" are said, saved and remembered by a retry only of an
\* event the relay may hold.
EvidenceIsReal ==
  LET real(r, i) == r.delivery \in {"accepted", "seen"} => i \in mayHold
  IN  \A i \in Ids : /\ real(ops[i], i) /\ real(disk[i], i)
                     /\ attempts[i].prev \in {"accepted", "seen"} => i \in mayHold

\* An event enters the publisher only when its signed copy is saved as possibly
\* dispatched, so that a crash from then on restores it as unknown.
DurableBeforeDispatch ==
  \A i \in Publishing : /\ Has(disk, i) /\ disk[i].signed
                        /\ disk[i].delivery # "failed"

\* Slots are never exceeded, and never idle while a delivery waits for one: every
\* end of an attempt and every hold passes its slot on.
SlotsInUse ==
  /\ Cardinality(Busy(attempts)) <= MaxInflight
  /\ (\E i \in Ids : attempts[i].stage \in {"queued", "slot"}) => Full(attempts)

\* A recovery key belongs to one unresolved event, on screen, on disk and in the
\* save that is being written (outbox.ts:359).
OneOwnerPerKey ==
  \A o \in {ops, disk, captured} : \A i, j \in Ids :
    Has(o, i) /\ Has(o, j) /\ o[i].key = o[j].key /\ o[i].key # NoKey => i = j

\* A dismissed event is gone for good: it never returns to the screen or the
\* journal, and no attempt delivers it while or after its dismissal.
DismissedStaysGone ==
  \A i \in Ids :
    /\ i \in dismissed => ~Has(ops, i) /\ ~Has(disk, i) /\ ~Has(captured, i)
    /\ i \in dismissed \/ dismissing[i] # "none" => ~Active(i)

\* Observers wait only for an event whose delivery is still open, none is kept for
\* a delivered or removed event. (An addition acknowledged from the roster is the
\* exception: nothing tells its observers.)
WorkIsOpen ==
  \A i \in work \ Invites :
    ops[i].place = "pending" /\ ops[i].delivery \in {"sending", "failed", "unknown"}

\* The sender of a workflow command is told its outcome once, when its one attempt
\* ends, whatever order echo, answer and deadline come in.
OneReceiptPerCommand ==
  [][\A i \in Workflows :
       /\ receipts'[i] <= 1
       /\ Active(i) /\ ~Active(i)' =>
            receipts'[i] = 1 \/ closed' \/ ~Has(ops', i)]_vars

\* An addition sent under a caller's policy is published only while the policy
\* holds, also after a restart, which forgets the policy itself.
PolicyOutlivesRestart ==
  [][\A i \in policed : i \in Publishing' \ Publishing => gates[i] = "open"]_vars

\* A receipt gives its recovery record back only in the step that makes it durable
\* (outbox.ts:375); a restart falls back to the saved journal.
RecoveryReleasedDurably ==
  [][\A i \in Ids :
       Has(ops, i) /\ ops[i].key # NoKey /\ (Has(ops', i) => ops'[i].key = NoKey)
         => ~Has(disk', i) \/ disk'[i].key = NoKey \/ journal' = "loading"]_vars

\* A dismissal removes a receipt that owns a source only when its delivery failed
\* (outbox.ts:946).
DismissalSparesReceipts ==
  [][\A i \in dismissed' \ dismissed :
       ops[i].key # NoKey => ops[i].delivery = "failed"]_vars

\* Intent that is saved and not delivered leaves the journal only by a dismissal:
\* no save that was queued before hydration, no revoked access and no eviction
\* erases it (outbox.ts:338, 1108). A dismissal may also commit as the process ends,
\* and an addition may be resolved by the roster.
UndeliveredIntentKept ==
  [][\A i \in Ids \ (mayHold' \cup Invites) :
       Has(disk, i) /\ ~Has(disk', i) => i \in dismissed' \/ dismissing[i] = "save"]_vars

\* What a revoked access hides stays hidden: neither the saved journal nor a queued
\* save brings a confirmed event back, except a channel creation still readable.
RevokedStaysHidden ==
  [][\A i \in Ids : purged /\ ~Has(ops, i) /\ ops'[i].place = "confirmed"
                    => i \in Creations \cap Readable]_vars

\* A saved journal can be loaded again: it never holds more pending events than
\* hydration accepts (the check of outbox.ts:465).
SavedJournalFits ==
  Cardinality({i \in Ids : Has(disk, i) /\ Outstanding(i, Decoded(disk[i]))})
    <= MaxPending

\* Every send and retry comes to an end, whatever the relay, the signer or the
\* disk do: some status replaces "sending".
EverySendSettles ==
  \A i \in Ids : Active(i) ~> ~Active(i)
=============================================================================
