------------------------------ MODULE MCRelay -------------------------------
(***************************************************************************)
(* Small instances of the parts through which the client talks to a relay: *)
(* the request lane, the send clock and the recovery of background reads.  *)
(* They share no state, so a behaviour exercises one of them, chosen in    *)
(* its initial state; the others rest.                                     *)
(***************************************************************************)
EXTENDS ApiAdmission, MessageClock, Recovery

CONSTANTS f1, f2, b1, b2, b3   \* requests, of the foreground and the background

\* The types of the three parts.
RelayTypeOK == LaneTypeOK /\ ClockTypeOK /\ RecoveryTypeOK

VARIABLE part

Init ==
  /\ part \in {"lane", "clock", "recovery"}
  /\ LaneInit /\ ClockInit /\ RecoveryInit

Next ==
  /\ UNCHANGED part
  /\ \/ part = "lane" /\ LaneNext /\ UNCHANGED <<clockVars, recovery>>
     \/ part = "clock" /\ ClockNext /\ UNCHANGED <<lane, recovery>>
     \/ part = "recovery" /\ RecoveryNext /\ UNCHANGED <<lane, clockVars>>

\* No fair action is enabled in LaneInit or RecoveryInit, so the fairness of a part
\* that rests asks nothing.
RelaySpec ==
  Init /\ [][Next]_<<part, lane, clockVars, recovery>> /\ LaneFairness /\ FairRecovery
=============================================================================
