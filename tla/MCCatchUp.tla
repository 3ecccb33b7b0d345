----------------------------- MODULE MCCatchUp ------------------------------
(***************************************************************************)
(* Small instances of one stream of an agent, where two promises of the    *)
(* code break. RouteSpec: the stream of one channel whose route drops      *)
(* while a window of it is given: three events, no edits, replays or       *)
(* failing reads. PolledSpec: a stream that is polled, with two events and *)
(* one upset.                                                              *)
(***************************************************************************)
EXTENDS CatchUp

RouteAlone == ~polled /\ on /\ runner.backlog = {} /\ pass.stage # "failed"
RouteSpec == CatchUpInit /\ RouteAlone /\ [][CatchUpNext /\ RouteAlone']_catchUp

OnlyPolled == polled = TRUE
PolledSpec == CatchUpInit /\ OnlyPolled /\ [][CatchUpNext]_catchUp

\* "Every event of the stream created at or before `through` was delivered or skipped"
\* (catch-up.ts:20): an event the checkpoint has gone past was given, or the running
\* program has it in its backlog, but for those of a time the watch was off and those
\* older than a bound let go.
DeliveredOrSkipped ==
  \A e \in OnRelay :
    on /\ at[e] > Larger(base, checkpoint.shrunk) /\ ~Undelivered(checkpoint, e) =>
      taken[e] > 0 \/ e \in runner.backlog
=============================================================================
