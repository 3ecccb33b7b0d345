---------------------------- MODULE ApiAdmission ----------------------------
(***************************************************************************)
(* One principal's API lane (src/features/relay/http-admission.ts) as      *)
(* signedPost drives it (transport.ts): every request is prepared, waits   *)
(* its turn, runs and is answered; the relay may pause the lane; a lossy   *)
(* presence snapshot runs beside the ordinary slots.                       *)
(*                                                                         *)
(* Time is abstracted to whether the cooldown (pausedUntil) and the        *)
(* presence interval (presenceNext) have passed. Requests may share an     *)
(* abort signal. Its listeners run one by one, and a browser runs the      *)
(* reactions of settled promises between those of a signal that aborts by  *)
(* itself, so a ticket may be started whose signal has already aborted.    *)
(***************************************************************************)
EXTENDS Integers, Sequences, FiniteSets

CONSTANTS
  Requests,     \* calls that may be in progress at once
  Foreground,   \* those of the page on screen; the others are background
  MaxActive,    \* requests that run at once (6)
  MaxQueue,     \* requests that wait (128)
  MaxPreparing  \* requests between entry and answer (128)

ASSUME LaneAssumption ==
  /\ Foreground \subseteq Requests
  /\ MaxActive \in Nat \ {0} /\ MaxQueue \in Nat /\ MaxPreparing \in Nat

VARIABLES
  queue,     \* tickets in arrival order
  signalled, \* tickets whose signal has aborted, and whose listener has yet to run
  running,   \* requests that hold a slot (active)
  answered,  \* how the latest call of each request ended, "waiting" until then
  paused,    \* the relay's cooldown has not passed
  presence,  \* the snapshot lease: "free", "busy"
  cooling    \* the presence interval has not passed

lane == <<queue, signalled, running, answered, paused, presence, cooling>>

Answers == {"waiting", "result", "paused", "capacity", "cancelled"}
Queued == {queue[n] : n \in DOMAIN queue}
\* prepare() counts a request until its answer; a snapshot is counted twice.
Preparing == Cardinality(running) + Len(queue) + (IF presence = "busy" THEN 2 ELSE 0)

\* q without the tickets gone.
Without(q, gone) ==
  LET kept == {n \in DOMAIN q : q[n] \notin gone}
  IN  [m \in 1..Cardinality(kept) |->
         q[CHOOSE n \in kept : Cardinality({k \in kept : k <= n}) = m]]

\* pump() takes the mth ticket of q before the nth.
Sooner(q, m, n) ==
  \/ q[m] \in Foreground /\ q[n] \notin Foreground
  \/ (q[m] \in Foreground <=> q[n] \in Foreground) /\ m < n

\* The places of q whose start() does not throw, and the first pump() comes to.
Startable(q) == {n \in DOMAIN q : q[n] \notin signalled}
NextPlace(q) == CHOOSE n \in Startable(q) : \A m \in Startable(q) : m = n \/ Sooner(q, n, m)
\* The tickets pump() starts, and those before them whose start() throws.
Started(q) == IF Startable(q) = {} THEN {} ELSE {q[NextPlace(q)]}
Thrown(q) == {q[n] : n \in {m \in DOMAIN q \ Startable(q) : Startable(q) = {} \/ Sooner(q, m, NextPlace(q))}}

\* A mutant: start() that throws does not finish(), and its slot stays taken.
PumpLeaksSlot(q, busy, replies) ==
  /\ IF q # <<>> /\ ~paused /\ Cardinality(busy) < MaxActive
     THEN LET n == CHOOSE k \in DOMAIN q : \A m \in DOMAIN q : m = k \/ Sooner(q, k, m)
          IN  /\ queue' = Without(q, {q[n]}) /\ running' = busy \cup {q[n]}
              /\ answered' = IF q[n] \in signalled THEN [replies EXCEPT ![q[n]] = "cancelled"]
                                                  ELSE replies
     ELSE queue' = q /\ running' = busy /\ answered' = replies
  /\ signalled' = signalled \cap Queued'

\* A mutant: pump() takes one ticket for the slot, and ends when its start() throws.
PumpTakesOne(q, busy, replies) ==
  /\ IF q # <<>> /\ ~paused /\ Cardinality(busy) < MaxActive
     THEN LET n == CHOOSE k \in DOMAIN q : \A m \in DOMAIN q : m = k \/ Sooner(q, k, m)
          IN  /\ queue' = Without(q, {q[n]})
              /\ running' = busy \cup ({q[n]} \ signalled)
              /\ answered' = IF q[n] \in signalled THEN [replies EXCEPT ![q[n]] = "cancelled"]
                                                  ELSE replies
     ELSE queue' = q /\ running' = busy /\ answered' = replies
  /\ signalled' = signalled \cap Queued'

\* pump() after a change left the queue q, the running requests busy and the answers
\* replies: a free slot goes to the oldest foreground ticket, else to the oldest. One whose
\* signal has aborted throws in start(), which finishes it and pumps again.
Pump(q, busy, replies) ==
  /\ IF q # <<>> /\ ~paused /\ Cardinality(busy) < MaxActive
     THEN /\ queue' = Without(q, Started(q) \cup Thrown(q))
          /\ running' = busy \cup Started(q)
          /\ answered' = [r \in Requests |-> IF r \in Thrown(q) THEN "cancelled" ELSE replies[r]]
     ELSE queue' = q /\ running' = busy /\ answered' = replies
  /\ signalled' = signalled \cap Queued'

LaneInit ==
  /\ queue = <<>> /\ signalled = {} /\ running = {} /\ answered = [r \in Requests |-> "result"]
  /\ paused = FALSE /\ presence = "free" /\ cooling = FALSE

\* Mutant: a full lane answers with a status callers do not know.
RequestDeferred(r) ==
  /\ answered[r] # "waiting"
  /\ IF paused \/ Preparing >= MaxPreparing \/ Len(queue) >= MaxQueue
     THEN answered' = [answered EXCEPT ![r] = "deferred"] /\ UNCHANGED <<queue, signalled, running>>
     ELSE Pump(Append(queue, r), running, [answered EXCEPT ![r] = "waiting"])
  /\ UNCHANGED <<paused, presence, cooling>>

\* run() inside prepare(): refused at once, or queued and pumped.
Request(r) ==
  LET refusal == IF paused THEN "paused"
                 ELSE IF Preparing >= MaxPreparing \/ Len(queue) >= MaxQueue
                      THEN "capacity" ELSE "waiting"
      replies == [answered EXCEPT ![r] = refusal]
  IN  /\ answered[r] # "waiting"
      /\ IF refusal = "waiting" THEN Pump(Append(queue, r), running, replies)
         ELSE answered' = replies /\ UNCHANGED <<queue, signalled, running>>
      /\ UNCHANGED <<paused, presence, cooling>>

\* The work settles: finish() frees the slot and pumps.
Finish(r) ==
  /\ r \in running
  /\ Pump(queue, running \ {r}, [answered EXCEPT ![r] = "result"])
  /\ UNCHANGED <<paused, presence, cooling>>

\* Mutant: a cooldown only stops new calls; queued ones wait for the next finish.
PauseKeepsQueue ==
  /\ running # {} \/ presence = "busy"
  /\ paused' = TRUE
  /\ UNCHANGED <<queue, signalled, running, answered, presence, cooling>>

\* A running request, or the snapshot, is answered with the relay's quota:
\* pause() rejects everything that waits.
Pause ==
  /\ running # {} \/ presence = "busy"
  /\ paused' = TRUE
  /\ queue' = <<>> /\ signalled' = {}
  /\ answered' = [r \in Requests |-> IF r \in Queued THEN "paused" ELSE answered[r]]
  /\ UNCHANGED <<running, presence, cooling>>

CooldownEnds == paused /\ paused' = FALSE
                /\ UNCHANGED <<queue, signalled, running, answered, presence, cooling>>

\* The signal that the waiting requests aborting share aborts. A running one ends by its
\* own work.
Signals(aborting) ==
  /\ aborting # {} /\ signalled' = signalled \cup aborting
  /\ UNCHANGED <<queue, running, answered, paused, presence, cooling>>

\* abort(): the listener of the nth request that waits runs.
Abort(n) ==
  /\ queue[n] \in signalled
  /\ Pump(Without(queue, {queue[n]}), running, [answered EXCEPT ![queue[n]] = "cancelled"])
  /\ UNCHANGED <<paused, presence, cooling>>

\* tryPresence() and the snapshot behind it, which needs two preparations.
PresenceStarts ==
  /\ presence = "free" /\ ~cooling /\ ~paused
  /\ cooling' = TRUE
  /\ presence' = IF Preparing + 2 <= MaxPreparing THEN "busy" ELSE "free"
  /\ UNCHANGED <<queue, signalled, running, answered, paused>>

PresenceEnds == presence = "busy" /\ presence' = "free"
                /\ UNCHANGED <<queue, signalled, running, answered, paused, cooling>>
PresenceCooled == cooling /\ cooling' = FALSE
                  /\ UNCHANGED <<queue, signalled, running, answered, paused, presence>>

LaneNext ==
  \/ \E r \in Requests : Request(r) \/ Finish(r)
  \/ \E aborting \in SUBSET (Queued \ signalled) : Signals(aborting)
  \/ \E n \in DOMAIN queue : Abort(n)
  \/ Pause \/ CooldownEnds \/ PresenceStarts \/ PresenceEnds \/ PresenceCooled

LaneSpec == LaneInit /\ [][LaneNext]_lane

\* Every admitted request settles: it is bounded by its own deadline.
LaneFairness == \A r \in Requests : WF_lane(Finish(r))

----------------------------------------------------------------------------
\* Correctness.

\* The types of the lane. An answer is always one the caller can tell apart.
LaneTypeOK ==
  /\ queue \in Seq(Requests) /\ signalled \subseteq Requests /\ running \subseteq Requests
  /\ answered \in [Requests -> Answers]
  /\ paused \in BOOLEAN /\ presence \in {"free", "busy"} /\ cooling \in BOOLEAN

\* Every call without an answer is queued or running, in one place only, and no
\* bound is exceeded: no ticket is lost, none runs twice, and one whose signal aborts while
\* it is started keeps no slot.
EveryTicketCounted ==
  /\ {r \in Requests : answered[r] = "waiting"} = Queued \cup running
  /\ Queued \cap running = {} /\ signalled \subseteq Queued
  /\ \A m, n \in DOMAIN queue : queue[m] = queue[n] => m = n
  /\ Cardinality(running) <= MaxActive /\ Preparing <= MaxPreparing

\* "Available capacity dispatches immediately; only server cooldowns pause starts.
\* Cooldowns reject queued work" (http-admission.ts:135): a ticket waits only while
\* every slot is taken and no cooldown runs, also when the signals of those before it
\* abort as pump() comes to them.
WaitsOnlyForSlots == queue # <<>> => Cardinality(running) = MaxActive /\ ~paused

\* A foreground request is answered, however many background calls arrive.
ForegroundAnswered ==
  \A r \in Foreground : answered[r] = "waiting" ~> answered[r] # "waiting"
=============================================================================
