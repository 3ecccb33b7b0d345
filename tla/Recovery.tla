------------------------------ MODULE Recovery ------------------------------
(***************************************************************************)
(* The recovery owner of a relay session (src/features/relay/recovery.ts): *)
(* it watches the session's background reads (sources), retries the failed *)
(* ones with a growing delay for as long as any fails, shows a notice once *)
(* that has lasted, and repeats every read after credentials change.       *)
(*                                                                         *)
(* A source has at most one read in flight; a retry joins it. Callbacks    *)
(* are synchronous: a source publishes its status and evaluate() runs      *)
(* before the old read is released, all within one step here.              *)
(***************************************************************************)
EXTENDS Naturals

CONSTANTS
  Sources,          \* the background reads
  Live,             \* the live layer, which owns its own reconnection
  Reauthorizing,    \* sources that read again after a read in flight
  MaxAttempt,       \* last index of RECOVERY_DELAYS_MS; later delays are equal
  MaxReauthorized   \* bound: credential changes

ASSUME RecoveryAssumption ==
  /\ Live \in Sources /\ Reauthorizing \subseteq Sources \ {Live}
  /\ MaxAttempt \in Nat /\ MaxReauthorized \in Nat

VARIABLES
  status,        \* what each source reports
  reading,       \* sources with a read in flight
  again,         \* sources that will read again when it ends
  asked,         \* credentials of each source's latest read, by generation
  owner,         \* the recovery owner's fields
  reauthorized,  \* generation of the credentials
  over           \* disposed

recovery == <<status, reading, again, asked, owner, reauthorized, over>>

Statuses == {"failed", "busy", "settled"}
Owners == [recovering : BOOLEAN, attempt : 0..MaxAttempt, shown : BOOLEAN,
           timer : BOOLEAN, notice : BOOLEAN,
           stale : SUBSET Sources, turn : SUBSET Sources]
Idle(o) == [o EXCEPT !.recovering = FALSE, !.attempt = 0, !.shown = FALSE,
                     !.notice = FALSE, !.timer = FALSE]

Reports(st, value) == {s \in Sources : st[s] = value}

\* Mutant: evaluate() retries them at once, which joins the read that is ending.
UnstaleAtOnce(o, st) == [o EXCEPT !.stale = @ \cap Reports(st, "busy")]

\* Stale sources whose old read has settled retry in a turn of their own.
Unstale(o, st) == [o EXCEPT !.stale = @ \cap Reports(st, "busy"),
                            !.turn = @ \cup (o.stale \ Reports(st, "busy"))]

\* Mutant: a read in flight counts as recovered.
EvaluatedEagerly(o, st) ==
  IF Reports(st, "failed") = {} THEN Idle(Unstale(o, st))
  ELSE [Unstale(o, st) EXCEPT !.recovering = TRUE, !.timer = TRUE,
                              !.notice = @ \/ ~o.shown]

\* Mutant: after the last delay no further retry is scheduled.
EvaluatedFinitely(o, st) ==
  IF Reports(st, "failed") # {}
  THEN [Unstale(o, st) EXCEPT !.recovering = TRUE, !.notice = @ \/ ~o.shown,
                              !.timer = o.timer \/ o.attempt < MaxAttempt]
  ELSE IF o.recovering /\ Reports(st, "busy") # {}
       THEN [Unstale(o, st) EXCEPT !.timer = FALSE]
  ELSE Idle(Unstale(o, st))

\* Mutant: the notice's timer survives recovery.
EvaluatedNoisily(o, st) ==
  IF Reports(st, "failed") # {}
  THEN [Unstale(o, st) EXCEPT !.recovering = TRUE, !.timer = TRUE,
                              !.notice = @ \/ ~o.shown]
  ELSE IF o.recovering /\ Reports(st, "busy") # {}
       THEN [Unstale(o, st) EXCEPT !.timer = FALSE]
  ELSE [Idle(Unstale(o, st)) EXCEPT !.notice = o.notice]

\* evaluate() over the statuses st.
Evaluated(o, st) ==
  IF Reports(st, "failed") # {}
  THEN [Unstale(o, st) EXCEPT !.recovering = TRUE, !.timer = TRUE,
                              !.notice = @ \/ ~o.shown]
  ELSE IF o.recovering /\ Reports(st, "busy") # {}
       THEN [Unstale(o, st) EXCEPT !.timer = FALSE]
  ELSE Idle(Unstale(o, st))

\* The sources rs are asked to read with credentials g: one with a read in
\* flight joins it, the others start one and say so, except that a ready catalog
\* revalidates unseen and a connected live layer has nothing to repeat. The
\* sources of later read once more when the read in flight has ended.
ReadsStart(rs, later, st, g) ==
  \E quiet \in SUBSET (Reauthorizing \cap Reports(st, "settled")),
     still \in SUBSET ({Live} \cap Reports(st, "settled")) :
    LET started == rs \ (reading \cup still)
    IN  /\ status' = [s \in Sources |-> IF s \in started \ quiet THEN "busy" ELSE st[s]]
        /\ reading' = reading \cup started
        /\ asked' = [s \in Sources |-> IF s \in started THEN g ELSE asked[s]]
        /\ again' = (again \ started) \cup later

RecoveryInit ==
  /\ status = [s \in Sources |-> "settled"] /\ reading = {} /\ again = {}
  /\ asked = [s \in Sources |-> 0]
  /\ owner = [recovering |-> FALSE, attempt |-> 0, shown |-> FALSE, timer |-> FALSE,
              notice |-> FALSE, stale |-> {}, turn |-> {}]
  /\ reauthorized = 0 /\ over = FALSE

\* A source publishes: its subscription runs evaluate() on the new statuses.
Published(o) == owner' = IF over THEN o ELSE Evaluated(o, status')

\* Some other caller opens or repeats the read of s.
Opens(s) ==
  /\ s \notin reading
  /\ ReadsStart({s}, {}, status, reauthorized) /\ Published(owner)
  /\ UNCHANGED <<reauthorized, over>>

\* The live layer loses its connection.
Disconnects ==
  /\ status[Live] = "settled" /\ Live \notin reading
  /\ status' = [status EXCEPT ![Live] = "failed"] /\ Published(owner)
  /\ UNCHANGED <<reading, again, asked, reauthorized, over>>

\* The read of s ends: with a failure a retry can fix, or settled.
ReadEnds(s) ==
  /\ s \in reading /\ reading' = reading \ {s}
  /\ \E outcome \in {"failed", "settled"} :
       /\ s = Live => outcome = "failed"
       /\ status' = [status EXCEPT ![s] = outcome]
  /\ Published(owner)
  /\ UNCHANGED <<again, asked, reauthorized, over>>

\* The live layer connects: evaluate() sees it first, then the session retries
\* every other failed source at once (retryNow with the live layer excepted).
Connects ==
  /\ Live \in reading
  /\ LET st == [status EXCEPT ![Live] = "settled"]
         o == [Evaluated(owner, st) EXCEPT !.timer = FALSE, !.attempt = 0]
         failed == Reports(st, "failed")
     IN  /\ reading' = (reading \ {Live}) \cup failed
         /\ status' = [s \in Sources |-> IF s \in failed THEN "busy" ELSE st[s]]
         /\ asked' = [s \in Sources |-> IF s \in failed THEN reauthorized ELSE asked[s]]
         /\ owner' = IF over THEN owner ELSE Evaluated(o, status')
  /\ ~over
  /\ UNCHANGED <<again, reauthorized, over>>

\* A source told to read again after the read that has ended does so.
ReadsAgain(s) ==
  /\ s \in again \ reading
  /\ ReadsStart({s}, {}, status, reauthorized) /\ Published(owner)
  /\ UNCHANGED <<reauthorized, over>>

\* The delay has passed: run() retries every failed source, then evaluates.
TimerFires ==
  /\ owner.timer /\ ~over
  /\ ReadsStart(Reports(status, "failed"), {}, status, reauthorized)
  /\ Published([owner EXCEPT !.timer = FALSE,
                             !.attempt = IF @ < MaxAttempt THEN @ + 1 ELSE @])
  /\ UNCHANGED <<reauthorized, over>>

NoticeFires ==
  /\ owner.notice /\ ~over
  /\ owner' = [owner EXCEPT !.notice = FALSE, !.shown = @ \/ owner.recovering]
  /\ UNCHANGED <<status, reading, again, asked, reauthorized, over>>

\* The turn of a stale source: its old read is released, so it reads anew.
TurnComes(s) ==
  /\ s \in owner.turn /\ ~over
  /\ ReadsStart({s}, {}, status, reauthorized)
  /\ Published([owner EXCEPT !.turn = @ \ {s}])
  /\ UNCHANGED <<reauthorized, over>>

\* A wake, network or user signal: retryNow().
RetryNow ==
  /\ ~over
  /\ ReadsStart(Reports(status, "failed"), {}, status, reauthorized)
  /\ Published([owner EXCEPT !.timer = FALSE, !.attempt = 0])
  /\ UNCHANGED <<reauthorized, over>>

\* Credentials changed: every source reads again; a plain source that is busy with
\* a read under the old ones waits for it to settle.
RetryAll ==
  LET stale == Reports(status, "busy") \ Reauthorizing
  IN  /\ ~over /\ reauthorized < MaxReauthorized
      /\ reauthorized' = reauthorized + 1
      /\ ReadsStart(Sources \ stale, Reauthorizing \cap reading, status, reauthorized + 1)
      /\ Published([owner EXCEPT !.timer = FALSE, !.attempt = 0,
                                 !.stale = @ \cup stale])
      /\ UNCHANGED over

Disposes ==
  /\ ~over /\ over' = TRUE
  /\ owner' = [owner EXCEPT !.timer = FALSE, !.notice = FALSE, !.stale = {}]
  /\ UNCHANGED <<status, reading, again, asked, reauthorized>>

RecoveryNext ==
  \/ \E s \in Sources : Opens(s) \/ ReadEnds(s) \/ ReadsAgain(s)
                        \/ TurnComes(s)
  \/ Disconnects \/ Connects \/ TimerFires \/ NoticeFires \/ RetryNow \/ RetryAll
  \/ Disposes

RecoverySpec == RecoveryInit /\ [][RecoveryNext]_recovery

\* Timers fire, and every read ends: each carries a deadline of its own.
FairRecovery ==
  /\ WF_recovery(TimerFires)
  /\ \A s \in Sources : /\ WF_recovery(ReadEnds(s) \/ (s = Live /\ Connects))
                        /\ WF_recovery(ReadsAgain(s)) /\ WF_recovery(TurnComes(s))

----------------------------------------------------------------------------
\* Correctness.

\* Types.
RecoveryTypeOK ==
  /\ status \in [Sources -> Statuses] /\ reading \subseteq Sources
  /\ again \subseteq Reauthorizing /\ asked \in [Sources -> 0..MaxReauthorized]
  /\ owner \in Owners /\ reauthorized \in 0..MaxReauthorized /\ over \in BOOLEAN

\* The owner's timers agree with what the sources show: a retry is scheduled exactly
\* while something fails, recovery has either shown its notice or will, and once every
\* source has settled nothing of it is left (evaluate(), lines 138-185).
OwnerAgrees ==
  ~over =>
    /\ owner.timer <=> Reports(status, "failed") # {}
    /\ owner.recovering <=> owner.shown \/ owner.notice
    /\ Reports(status, "settled") = Sources => owner = [Idle(owner) EXCEPT !.stale = {}]

\* "A retry in flight is not proof of recovery: keep the notice and the delay sequence
\* until every source settles" (line 152): only a signal restarts the delays earlier,
\* and nothing takes the notice down earlier.
DelaysGrow ==
  [][~over' =>
       /\ owner'.attempt < owner.attempt =>
            Reports(status', "settled") = Sources \/ RetryNow \/ RetryAll \/ Connects
       /\ owner.shown /\ ~owner'.shown => Reports(status', "failed") = {}
                                          /\ Reports(status', "busy") = {}]_recovery

\* "It never gives up" (line 5): whatever fails is tried again, unless disposed.
NeverGivesUp ==
  \A s \in Sources : status[s] = "failed" ~> status[s] # "failed" \/ over

\* "A source busy with a read begun under the old credentials retries again once that
\* read settles" (lines 38-41): after a credential change every source, settled, busy
\* or reading unseen, reads with credentials at least as new.
ReadsWithNewCredentials ==
  \A s \in Sources \ {Live} : \A g \in 1..MaxReauthorized :
    reauthorized = g ~> asked[s] >= g \/ over
=============================================================================
