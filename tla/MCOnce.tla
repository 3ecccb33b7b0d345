------------------------------- MODULE MCOnce -------------------------------
(***************************************************************************)
(* Small instances of two parts whose work must be done once and stay      *)
(* done: callers that resolve the receipts of an outbox, and an agent that *)
(* takes up the events its relay stored while it was away. They are        *)
(* independent, so a behaviour exercises one of them, chosen in its        *)
(* initial state; the other rests.                                         *)
(***************************************************************************)
EXTENDS Outbox, CatchUp

CONSTANTS m1, m2, k1

ReceiptCalls == {"retry", "acknowledge", "dismiss", "retire", "saveFault"}

VARIABLE part

OnceInit ==
  /\ part \in {"outbox", "catchUp"}
  /\ Init /\ CatchUpInit
  /\ polled => part = "catchUp"

OnceNext ==
  /\ UNCHANGED part
  /\ \/ part = "outbox" /\ Next /\ UNCHANGED catchUp
     \/ part = "catchUp" /\ CatchUpNext /\ UNCHANGED vars

OnceSpec == OnceInit /\ [][OnceNext]_<<part, vars, catchUp>>
=============================================================================
