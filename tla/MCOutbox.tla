------------------------------ MODULE MCOutbox ------------------------------
(***************************************************************************)
(* Small instances of Outbox: which events, which callers and which        *)
(* faults each configuration exercises.                                    *)
(***************************************************************************)
EXTENDS OutboxRefinement, OutboxInvariant, TLC

CONSTANTS m1, m2, m3, k1

DeliveryCalls == {"retry", "restart", "saveFault"}
EvidenceCalls == {"retry", "dismiss", "restart", "saveFault"}
RosterCalls == {"acknowledge", "retire"}
AdoptionCalls == {"retry", "acknowledge", "dismiss", "recover", "restart", "loadFault"}
RecoverCalls == {"retry", "recover", "restart"}
OutcomeCalls == {"retry", "acknowledge", "retire", "guard", "dispose", "restart", "saveFault"}
SessionCalls == {"retry", "acknowledge", "dismiss", "recover", "purge", "dispose", "restart",
                 "loadFault"}

\* Two instances that share a run, as its constraint: a caller resolves the one receipt
\* m3, or the session around the others ends.
Adopts == used \subseteq {m3} /\ ~purged /\ ~closed
Ends ==
  /\ m3 \notin used /\ \A i \in Ids : ops[i].key = NoKey /\ recovering[i] = NotRecovering
  /\ \A n \in DOMAIN jobs : jobs[n].kind # "acknowledge"
Apart == Adopts \/ Ends

\* Likewise: an addition is retired or acknowledged, or the command m3 and an addition
\* that no source owns, and that may be guarded, await their outcome.
Retires == m3 \notin used /\ ~closed /\ \A i \in Ids : ~ops[i].guarded
Commands ==
  /\ Cardinality(used \cap Invites) < 2
  /\ \A i \in Ids : ops[i].key = NoKey /\ disk[i].key = NoKey
Outcomes == Retires \/ Commands

AdditionsAlike == Permutations(Invites)
=============================================================================
