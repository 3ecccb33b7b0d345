-------------------------- MODULE OutboxRefinement --------------------------
(***************************************************************************)
(* Outbox implements DeliveryEvidence: the status of an event is that of   *)
(* the listed record or, until the journal is open, the one its saved      *)
(* record will be restored with.                                           *)
(***************************************************************************)
EXTENDS Outbox

shownNow ==
  [i \in Ids |-> IF Has(ops, i) THEN ops[i].delivery
                 ELSE IF journal # "open" /\ Has(disk, i)
                      THEN Decoded(disk[i]).delivery
                 ELSE "none"]

\* What the relay may hold includes a publish that has not answered yet only
\* when it ends: until then the event is shown as sending.
Evidence == INSTANCE DeliveryEvidence WITH shown <- shownNow, gone <- dismissed,
                                             Additions <- Invites

\* Every behaviour of the outbox, with its retries, lost answers, crashes and
\* failed saves, shows statuses the way DeliveryEvidence allows.
ImplementsEvidence == Evidence!EvidenceSpec
=============================================================================
