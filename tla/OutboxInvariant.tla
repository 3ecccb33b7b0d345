--------------------------- MODULE OutboxInvariant ---------------------------
(***************************************************************************)
(* The inductive invariants behind the promises of an outbox.  EvidenceInv *)
(* says why no step of an outbox whose callers do not use recover() can    *)
(* show or save "failed" for an event the relay may hold, AttestedInv why  *)
(* none, recover() included, can say "accepted" or "seen" of another,      *)
(* FenceInv why none brings a dismissed event back, DispatchInv why the    *)
(* signed event is saved before its publish, ListedInv why saved intent    *)
(* stays listed, ShownInv why statuses change as DeliveryEvidence allows.  *)
(* The last section says why what a call promised holds until its outcome: *)
(* policies, released recovery records, receipts, dismissals, observers,   *)
(* slots, the owners of keys.  OutboxProofs proves AttestedInv,            *)
(* OutboxCallProofs the last section, OutboxEvidenceProofs the others.     *)
(***************************************************************************)
EXTENDS Outbox

\* A record that claims no failure.
Safe(r) == r.place # "absent" => r.delivery # "failed"

\* A save of the intent of i waits in q.
QueuedFor(q, i) == \E n \in DOMAIN q : q[n].kind = "attempt" /\ q[n].id = i

\* The replacement a retirement adds once it is saved.
Replaces(job, i) == job.kind = "retire" /\ job.next = i

\* Past its first save an attempt is durable.
DurableAttempt(a) == /\ a.stage # "idle"
                     /\ a.stage \notin {"queued", "intent"} \/ a.wait = "done"
Durable(i) == DurableAttempt(attempts[i])

\* Ids are never used twice.
IdsAreFresh ==
  \A i \in Ids : \/ ops[i].place # "absent" \/ disk[i].place # "absent"
                 \/ captured[i].place # "absent" \/ Active(i) \/ i \in mayHold
                 => i \in used

\* What is sent before hydration is not what hydration brings, nor is it saved.
LoadingIsApart ==
  journal = "loading" =>
    /\ saving = NoJob /\ captured = Empty
    /\ \A i \in Ids : disk[i].place # "absent"
                      => ~Active(i) /\ ops[i].place = "absent"

\* A replacement that waits for its save is known to nobody yet, and comes once.
ReplacementsAreNew ==
  /\ \A i \in Ids : Replaces(saving, i) \/ (\E n \in DOMAIN jobs : Replaces(jobs[n], i))
       => /\ i \in used \ mayHold /\ ~Active(i) /\ ops[i].place = "absent"
          /\ journal # "loading"
  /\ \A i \in Ids, n \in DOMAIN jobs : Replaces(jobs[n], i) =>
       /\ ~Replaces(saving, i)
       /\ \A m \in DOMAIN jobs : Replaces(jobs[m], i) => m = n

\* Only an attempt shows "sending", and nothing it delivers shows "failed".
AttemptsOwnSending ==
  \A i \in Ids :
    /\ ~closed /\ ops[i].place = "pending" /\ ops[i].delivery = "sending" => Active(i)
    /\ Active(i) => Safe(ops[i])

\* An attempt that waits for a save has one queued, or running with its intent.
SavesCarryIntent ==
  \A i \in Ids : attempts[i].wait = "pending" =>
    /\ Active(i)
    /\ \/ QueuedFor(jobs, i)
       \/ saving.kind = "attempt" /\ saving.id = i /\ Safe(captured[i])

\* Of a durable attempt no record that says "failed" is on disk or on its way there.
DurableIsSafe == \A i \in Ids : Durable(i) => Safe(disk[i]) /\ Safe(captured[i])

\* An event the relay may hold is nowhere "failed", and the attempt that sends it
\* again remembers that it was not. (A command seen in flight keeps its attempt;
\* a record that left the list has no status to get wrong.)
Remembers(i) == \/ attempts[i].prev \in {"unknown", "accepted", "seen"}
                \/ attempts[i].stage = "publish" /\ ops[i].delivery = "seen"
                \/ ops[i].place = "absent" /\ ~ops[i].acked
HeldIsSafe ==
  \A i \in mayHold : /\ Safe(ops[i]) /\ Safe(disk[i]) /\ Safe(captured[i])
                     /\ Active(i) => Remembers(i)

\* The inductive invariant: saved, captured and shown records and the memory of
\* retries agree, in every state, on what no publish has disproved
\* (outbox.ts:241, 532-538, 573-583).
EvidenceInv == /\ TypeOK /\ IdsAreFresh /\ LoadingIsApart /\ ReplacementsAreNew
               /\ AttemptsOwnSending /\ SavesCarryIntent /\ DurableIsSafe /\ HeldIsSafe

----------------------------------------------------------------------------
\* What stands behind "accepted" and "seen", with recover() as well.

Attests == {"accepted", "seen"}
\* Records, and the memories of retries, that attest only what h may hold.
RecordsAttest(o, h) == \A j \in Ids : o[j].delivery \in Attests => j \in h
RetriesAttest(att, h) == \A j \in Ids : att[j].prev \in Attests => j \in h
RecoveriesAttest(rec, h) == \A j \in Ids : rec[j].item.delivery \in Attests => j \in h

\* The inductive invariant behind EvidenceIsReal: shown, saved, captured and
\* remembered records, and the item recover() holds across its load, attest only
\* what the relay may hold (outbox.ts:532-538, 573-583, 892-915).
AttestedInv == /\ TypeOK
               /\ RecordsAttest(ops, mayHold) /\ RecordsAttest(disk, mayHold)
               /\ RecordsAttest(captured, mayHold)
               /\ RetriesAttest(attempts, mayHold)
               /\ RecoveriesAttest(recovering, mayHold)

----------------------------------------------------------------------------
\* Why a dismissed event does not come back.

\* Two saves that must not both be under way: of one fence, of one cross-window
\* lock, or of one replacement.
Clash(p, q) ==
  \/ p.id = q.id /\ p.kind \in {"dismiss", "retire"} /\ q.kind \in {"dismiss", "retire"}
  \/ p.id = q.id /\ p.kind \in {"dismiss", "recover"} /\ q.kind \in {"dismiss", "recover"}
  \/ p.kind = "retire" /\ q.kind = "retire" /\ p.next = q.next /\ p.next # NoId

\* What is not known yet, nor being given up, nor read by recover().
Unknown(i) == /\ ~Active(i) /\ ~Has(ops, i) /\ dismissing[i] = "none"
              /\ i \in used \ dismissed /\ recovering[i].stage # "load"
              /\ journal # "loading"

\* What a save under way relies on: its fence, its lock, and that its replacement
\* is new.
ReliesWell(job) ==
  /\ job.kind \in {"dismiss", "retire"} => dismissing[job.id] = "save"
  /\ job.kind \in {"dismiss", "recover"} => job.id \in locks
  /\ job.kind = "recover" => recovering[job.id].stage = "save"
  /\ job.kind = "dismiss" => recovering[job.id].stage \notin {"load", "save"}
  /\ job.kind = "retire" /\ job.next # NoId => Unknown(job.next)

SavesRely == /\ ReliesWell(saving) /\ \A n \in DOMAIN jobs : ReliesWell(jobs[n])
             /\ saving.kind = "dismiss" => ~Has(captured, saving.id)
SavesApart == /\ \A n \in DOMAIN jobs : ~Clash(jobs[n], saving)
              /\ \A m, n \in DOMAIN jobs : Clash(jobs[m], jobs[n]) => m = n

\* What is known of an id says that it was used.
KnownIdsUsed ==
  \A i \in Ids : \/ Has(ops, i) \/ Has(disk, i) \/ Has(captured, i) \/ Active(i)
                 \/ i \in dismissed \/ dismissing[i] # "none"
                 \/ recovering[i].stage = "load"
                 => i \in used

\* recover() holds the receipt's lock from its load to its save.
RecoveriesLock == \A i \in Ids : recovering[i].stage \in {"load", "save"} => i \in locks

\* No event that is dismissed is known, nor about to be put back.
GoneForGood ==
  \A i \in dismissed : /\ ~Has(ops, i) /\ ~Has(disk, i) /\ ~Has(captured, i)
                       /\ ~Active(i) /\ recovering[i].stage # "load"

\* A fenced receipt is not delivered.
FencesHold == \A i \in Ids : dismissing[i] # "none" => ~Active(i)

\* The inductive invariant behind DismissedStaysGone: fences, locks and the saves
\* that rely on them (outbox.ts:901-1022, 1078-1099).
FenceInv == /\ TypeOK /\ SavesRely /\ SavesApart /\ KnownIdsUsed /\ RecoveriesLock
            /\ GoneForGood /\ FencesHold

----------------------------------------------------------------------------
\* Why a crash in the middle of a publish finds the signed event saved.

SignedStages == {"save", "hold", "slot", "prepare", "publish"}
\* An attempt whose signature is saved.
Sealed(a) == a.stage \in SignedStages /\ (a.stage = "save" => a.wait = "done")
\* A signed record.
Kept(r) == r.place # "absent" /\ r.signed

\* An attempt belongs to a pending record, signed from its signature on; once that is
\* saved it is on disk and in every save under way, and until then its save is queued
\* or running with it.
Dispatched(i) ==
  /\ Active(i) => ops[i].place = "pending"
  /\ attempts[i].stage \in SignedStages => ops[i].signed
  /\ Sealed(attempts[i]) => Kept(disk[i]) /\ (saving # NoJob => Kept(captured[i]))
  /\ attempts[i].stage = "save" /\ attempts[i].wait = "pending" =>
       \/ QueuedFor(jobs, i)
       \/ saving.kind = "attempt" /\ saving.id = i /\ Kept(captured[i])

\* The invariant behind DurableBeforeDispatch, beside EvidenceInv and FenceInv
\* (outbox.ts:573-601, 614-628).
DispatchInv == \A i \in Ids : Dispatched(i)

----------------------------------------------------------------------------
\* Why saved intent stays in the journal until it is delivered or dismissed.

\* What may leave the list on its own: what the relay holds, and additions.
Delivered(i) == i \in mayHold \cup Invites

\* Unless the journal is open no save runs, what is sent is apart from what is saved,
\* and nothing is recovered.
OpensFirst ==
  journal # "open" =>
    /\ saving = NoJob
    /\ \A i \in Ids : (Has(disk, i) => ~Has(ops, i)) /\ recovering[i].stage # "load"

\* Attempts belong to pending records, and a record is confirmed when delivered.
PlacesAgree ==
  \A i \in Ids : /\ Active(i) => ops[i].place = "pending"
                 /\ ops[i].place = "confirmed" => Delivered(i)

\* What is saved is listed.
SavedIsListed ==
  journal = "open" => \A i \in Ids : Has(disk, i) => Has(ops, i) \/ Delivered(i)

\* A save brings what is listed, and leaves out only what it dismisses.
SavesKeep ==
  saving # NoJob =>
    \A i \in Ids :
      /\ Has(captured, i) => Has(ops, i) \/ Replaces(saving, i) \/ Delivered(i)
      /\ Has(disk, i) =>
           Has(captured, i) \/ Delivered(i) \/ (saving.kind = "dismiss" /\ saving.id = i)

\* The invariant behind UndeliveredIntentKept and RevokedStaysHidden
\* (outbox.ts:327-357, 458-507, 699-713, 1108-1121).
ListedInv == OpensFirst /\ PlacesAgree /\ SavedIsListed /\ SavesKeep

----------------------------------------------------------------------------
\* Why the statuses shown change as DeliveryEvidence allows.

\* What is fenced is not being sent; what is delivered shows "sending", or was seen
\* while its publish was under way; a command is published once.
Settles(i) ==
  /\ dismissing[i] # "none" /\ ops[i].place = "pending" => ops[i].delivery # "sending"
  /\ Active(i) => \/ ops[i].delivery = "sending"
                  \/ ops[i].delivery = "seen" /\ attempts[i].stage = "publish"
  /\ i \in Workflows /\ Active(i) /\ attempts[i].stage # "publish" => i \notin mayHold

\* The invariant behind ImplementsEvidence, beside the others.
ShownInv == \A i \in Ids : Settles(i)

----------------------------------------------------------------------------
\* Why what a call promised holds until its outcome.

\* A save under way adds i.
Replaced(i) == Replaces(saving, i) \/ \E n \in DOMAIN jobs : Replaces(jobs[n], i)

\* Records of additions sent under a policy say so.
Guards(o) == \A i \in policed : Has(o, i) => o[i].guarded

\* The invariant behind PolicyOutlivesRestart: shown, saved, captured and remembered
\* records of such additions stay guarded, and none of them is a replacement.
PolicyInv == /\ policed \subseteq used
             /\ Guards(ops) /\ Guards(disk) /\ Guards(captured)
             /\ \A i \in policed : /\ recovering[i].stage = "load" => recovering[i].item.guarded
                                   /\ ~Replaced(i)

\* The invariant behind RecoveryReleasedDurably: a save that releases a receipt writes it
\* released, and what may be evicted owes no source anything.
ReleasedInv ==
  /\ saving.kind \in {"acknowledge", "retire"} /\ Has(captured, saving.id)
       => captured[saving.id].key = NoKey
  /\ \A i \in Ids : ops[i].place = "confirmed" => ops[i].key = NoKey

\* The invariant behind OneReceiptPerCommand: a command whose attempt is not over, or
\* that was not sent, has told nobody an outcome.
ReceiptInv ==
  \A i \in Workflows : /\ receipts[i] <= 1
                       /\ Active(i) \/ i \notin used => receipts[i] = 0

\* A dismissal of i waits for its lock or its save.
Dismissing(i) ==
  \/ dismissing[i] = "lock" \/ (saving.kind = "dismiss" /\ saving.id = i)
  \/ \E n \in DOMAIN jobs : jobs[n].kind = "dismiss" /\ jobs[n].id = i

\* The invariant behind DismissalSparesReceipts: what is being dismissed owns no source
\* or failed, and hydration will not bring it.
SparedInv ==
  \A i \in Ids : Dismissing(i) =>
    /\ ops[i].key # NoKey => ops[i].delivery = "failed"
    /\ journal = "loading" => ~Has(disk, i)

\* The invariant behind WorkIsOpen: observers wait for a pending event of this window
\* whose delivery is open and was not attested before; what is delivered was not
\* hydrated, and a retry remembers what it shows; and the item recover() holds across
\* its load attests only what is attested still.
WorkOf(i) ==
  /\ i \in work => /\ ops[i].place = "pending" /\ ops[i].delivery \notin Attests
                   /\ i \notin restored /\ (Active(i) => attempts[i].prev \notin Attests)
  /\ recovering[i] # NotRecovering => i \notin Workflows
  /\ Active(i) => /\ i \notin restored
                  /\ ops[i].delivery \in Attests => \/ attempts[i].prev \in Attests
                                                   \/ i \in Workflows
  /\ recovering[i].stage = "load" /\ recovering[i].item.delivery \in Attests /\ ~closed =>
       /\ i \notin work
       /\ Has(ops, i) => \/ ops[i].delivery \in Attests
                         \/ Active(i) /\ attempts[i].prev \in Attests
WorkInv == /\ restored \subseteq used
           /\ closed => \A i \in Ids : i \notin work /\ ~Active(i)
           /\ \A i \in Ids \ Invites : WorkOf(i)

\* The invariant behind SlotsInUse, beside the others: the slots in use can be counted.
SlotsInv == IsFiniteSet(Busy(attempts)) /\ SlotsInUse

\* The key i owns in the records o, if any.
KeyOf(o, i) == IF Has(o, i) THEN o[i].key ELSE NoKey
OwnKey(i) == KeyOf(ops, i)

\* A retirement hands its replacement, which hydration did not bring, the key its receipt
\* still owns.
Pledged(job) ==
  job.kind = "retire" /\ job.next # NoId =>
    /\ job.key # NoKey /\ OwnKey(job.id) = job.key
    /\ job.next \notin restored /\ journal = "open"

\* The item recover() holds across its load names the key the receipt owns here; so do,
\* for a hydrated receipt, the journal and the save that runs, unless that releases it.
OwnerOf(i) ==
  /\ recovering[i].stage = "load" /\ OwnKey(i) # NoKey => recovering[i].item.key = OwnKey(i)
  /\ i \in restored =>
       /\ Has(disk, i) => disk[i].key = OwnKey(i)
       /\ saving # NoJob /\ Has(captured, i) =>
            \/ captured[i].key = OwnKey(i)
            \/ saving.kind \in {"acknowledge", "retire"} /\ saving.id = i

\* A plain acknowledgement is being saved ahead of a retirement that hands on the key of
\* the same receipt: acknowledge() is not fenced by the retirement (outbox.ts:967-1036).
Crossed == /\ saving.kind = "acknowledge"
           /\ \E n \in DOMAIN jobs : /\ jobs[n].kind = "retire" /\ jobs[n].next # NoId
                                     /\ jobs[n].id = saving.id

\* The invariant behind OneOwnerPerKey, as long as no acknowledgement crosses a
\* retirement.
KeysInv ==
  /\ OneOwnerPerKey
  /\ journal # "open" => \A i \in Ids : OwnKey(i) = NoKey
  /\ Pledged(saving) /\ \A n \in DOMAIN jobs : Pledged(jobs[n])
  /\ \A i \in Ids : OwnerOf(i)
=============================================================================
