-------------------------- MODULE DeliveryEvidence --------------------------
(***************************************************************************)
(* What an outbox promises about delivery, without attempts, saves, slots  *)
(* or timers: the status it shows for each event, and how that status may  *)
(* change given what the relay may hold.                                   *)
(*                                                                         *)
(* The user acts on the status.  "failed" offers to remove the event or to *)
(* write it again, so it must not be shown of an event the relay may hold; *)
(* "accepted" and "seen" release drafts, so they must be real.             *)
(* Outbox implements this specification (see OutboxRefinement).            *)
(***************************************************************************)
CONSTANTS
  Ids,       \* events
  Additions  \* additions of members, which a fresh roster may settle as well

VARIABLES
  shown,   \* the delivery status of each event, "none" when it is not listed
  mayHold, \* events some publish of which was not refused
  gone     \* events the user removed

evidence == <<shown, mayHold, gone>>

Shown == {"none", "sending", "failed", "unknown", "accepted", "seen"}

EvidenceTypeOK == /\ shown \in [Ids -> Shown]
                  /\ mayHold \subseteq Ids /\ gone \subseteq Ids

EvidenceInit == shown = [i \in Ids |-> "none"] /\ mayHold = {} /\ gone = {}

\* A status that claims something about the relay must agree with it.
Justified(i, status) ==
  /\ status = "failed" => i \notin mayHold'
  /\ status \in {"accepted", "seen"} => i \in mayHold'

\* An event is sent once and sent again; a delivery ends with a justified status;
\* the relay's own copy is the last word; an event that is being delivered leaves the
\* list only as settled history, and a removed one never comes back.
StatusChanges(i) ==
  \/ shown'[i] = shown[i]
  \/ shown'[i] = "sending" /\ i \notin gone
  \/ shown[i] = "sending" /\ shown'[i] # "none" /\ Justified(i, shown'[i])
  \/ shown[i] # "none" /\ shown'[i] = "seen" /\ Justified(i, "seen")
  \/ shown'[i] = "none" /\ (shown[i] = "sending" => i \in mayHold' \cup Additions)

Progress == \A i \in Ids : StatusChanges(i)

\* After a restart nothing is being sent, and a status is what the journal last
\* saved: older, never wrong. An event that was not listed returns only if it was
\* settled and had left the list as confirmed history, or joins as an addition whose
\* save was under way.
Reopen ==
  \A i \in Ids :
    /\ shown'[i] \notin {"sending", "accepted"} /\ Justified(i, shown'[i])
    /\ shown[i] = "none" => shown'[i] = "none" \/ i \in (mayHold \cup Additions) \ gone

EvidenceNext == /\ mayHold \subseteq mayHold' /\ gone \subseteq gone'
                /\ \A i \in gone' : shown'[i] = "none"
                /\ Progress \/ Reopen

EvidenceSpec == EvidenceInit /\ [][EvidenceNext]_evidence
=============================================================================
