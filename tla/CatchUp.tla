------------------------------ MODULE CatchUp -------------------------------
(***************************************************************************)
(* How an agent catches up on what its watch missed: one stream of one     *)
(* event watch (src/features/agents/catch-up.ts) and the runner that reads *)
(* it (src/features/agents/runner.ts). The runner hears events live, by    *)
(* replay when a route comes back, and by reading windows of the relay's   *)
(* history; only the stream's checkpoint survives the end of the program.  *)
(*                                                                         *)
(* A stream of one channel is covered while that channel's route is live:  *)
(* a tick moves its checkpoint to the present. Any other stream is polled, *)
(* each read reaching back Overlap before the end of the last one, for     *)
(* events the relay stores late. An event is given once the runner takes   *)
(* it: its jobs, the watch's classifier and rosters are not modelled.      *)
(***************************************************************************)
EXTENDS Integers, FiniteSets

CONSTANTS
  Posts,      \* events, by ids that order those of one second
  Drift,      \* how late the relay stores an event
  Overlap,    \* POLL_OVERLAP
  PollLag,    \* CATCH_UP_POLL_LAG
  HeardLimit, HeardMost,   \* HEARD_LIMIT, HEARD_MOST
  PageSize, MaxPages,      \* CATCH_UP_PAGE, CATCH_UP_PAGES
  BatchSize,  \* CATCH_UP_BATCH
  MaxClock,   \* bound: the clock
  MaxUpsets   \* bound: drops, failures, edits and ends of the program

ASSUME CatchUpAssumption ==
  /\ Posts \subseteq Nat \ {0} /\ IsFiniteSet(Posts)
  /\ {Drift, Overlap, PollLag, HeardLimit, HeardMost, MaxClock, MaxUpsets} \subseteq Nat
  /\ {PageSize, MaxPages, BatchSize} \subseteq Nat \ {0} /\ Drift < Overlap

NoTime == -1
NoPost == 0

VARIABLES
  polled,      \* live does not cover the stream
  clock,       \* in units of which Drift is a few
  at,          \* created_at of each event the relay stores, or NoTime
  fly,         \* events on their way to the runner on a live route
  checkpoint,  \* the stream's checkpoint, saved as it changes
  on,          \* the watch is enabled
  alive,       \* the program runs
  link,        \* the connection: since when, its live route and its coverage
  runner,      \* the runner's memory: seen, backlog, quiet, started, start
  pass,        \* the catch-up under way or last run
  taken,       \* how often each event was given to the watch
  base,        \* everything up to here may be skipped: off, or past the bounds
  owed,        \* auxiliary: events gone past while the route was down, for a replay to bring
  lost,        \* auxiliary: events gone past that no route, replay or backlog holds any more
  upsets       \* drops, failures, edits and ends so far

catchUp == <<polled, clock, at, fly, checkpoint, on, alive, link, runner, pass, taken, base,
             owed, lost, upsets>>

OnRelay == {e \in Posts : at[e] # NoTime}
Larger(a, b) == IF a > b THEN a ELSE b
Smaller(a, b) == IF a < b THEN a ELSE b

\* oldestFirst: delivery order; the relay's pages are newest first, ties by id.
Before(a, b) == at[a] < at[b] \/ (at[a] = at[b] /\ a < b)
Newer(a, b) == at[a] > at[b] \/ (at[a] = at[b] /\ a < b)
\* The n first of S in delivery order.
Oldest(S, n) == {e \in S : Cardinality({d \in S : Before(d, e)}) < n}

\* An event of the stream that is past its checkpoint.
Undelivered(c, e) ==
  /\ at[e] > c.through /\ e \notin c.heard
  /\ c.after # NoPost => Before(c.after, e)

(***************************************************************************)
(* Checkpoints. Two fields are auxiliary: shrunk is the latest time        *)
(* `through` moved to only because the list of heard events was full, and  *)
(* forgot the latest of an event that even the longest list dropped.       *)
(***************************************************************************)
From(t) == [through |-> t, upper |-> NoTime, read |-> NoTime, after |-> NoPost, heard |-> {},
            shrunk |-> NoTime, forgot |-> NoTime]

\* The latest time of an event of S.
Latest(S) == CHOOSE t \in {at[e] : e \in S} : \A e \in S : at[e] <= t

\* c with the events heard as what it heard past it, within the limits.
HeardOf(c, heard) ==
  LET done == {e \in heard : at[e] > c.through}
      surplus == Cardinality(done) - HeardLimit
      bound == IF c.upper = NoTime THEN Larger(c.through, c.read)
               ELSE IF c.after # NoPost THEN at[c.after] - 1 ELSE c.through
      through == IF surplus > 0
                 THEN Larger(c.through, Smaller(bound, Latest(Oldest(done, surplus))))
                 ELSE c.through
      past == {e \in done : at[e] > through}
      lapsed == Oldest(past, Cardinality(past) - HeardMost)
  IN  [c EXCEPT !.through = through,
                !.read = IF @ > through THEN @ ELSE NoTime,
                !.heard = past \ lapsed,
                !.shrunk = IF through > c.through THEN Larger(@, Smaller(through, c.read)) ELSE @,
                !.forgot = IF lapsed = {} THEN @ ELSE Larger(@, Latest(lapsed))]

\* setCheckpoint: c replaces the checkpoint old, keeping what that had heard.
Kept(old, c) == HeardOf([c EXCEPT !.shrunk = Larger(@, old.shrunk), !.forgot = Larger(@, old.forgot)],
                        old.heard \cup c.heard)

\* A mutant: what is heard live is not saved.
HeardInMemory(c, e) == c
\* heardIn: the stream heard e, unless it is not past its checkpoint.
HeardIn(c, e) == IF Undelivered(c, e) THEN HeardOf(c, c.heard \cup {e}) ELSE c

\* The checkpoint once the events given of the window w of pass p are delivered.
Admitted(p, given, heard, overlap) ==
  LET last == CHOOSE e \in given : \A d \in given : d = e \/ Before(d, e)
      passed == IF p.from.after = NoPost THEN {}
                ELSE {e \in p.read : /\ at[e] = at[p.from.after]
                                     /\ e = p.from.after \/ Before(e, p.from.after)}
  IN  IF overlap = 0
      THEN [From(at[last] - 1) EXCEPT !.upper = p.upper, !.after = last]
      ELSE HeardOf([From(Larger(p.from.through, Smaller(at[last] - 1, p.upper - overlap)))
                      EXCEPT !.upper = p.upper],
                   heard \cup passed \cup given)

\* The checkpoint once all of the window is.
Finished(p, heard, overlap) ==
  IF overlap = 0 THEN From(p.upper)
  ELSE HeardOf([From(Larger(p.from.through, p.upper - overlap)) EXCEPT !.read = p.upper],
               heard \cup p.read)

\* checkpointOf: the saved checkpoint c as the next start reads it; the stream starts
\* anew when it is not valid.
Reopened(c) ==
  LET valid == /\ c.upper # NoTime => c.upper > c.through
               /\ c.after # NoPost => c.upper # NoTime /\ at[c.after] \in c.through+1..c.upper
  IN  IF valid THEN HeardOf([c EXCEPT !.read = IF @ > c.through THEN @ ELSE NoTime], c.heard)
      ELSE From(clock)

(***************************************************************************)
(* Passes. A pass reads windows page by page and gives each in batches;    *)
(* its fields of a window are those of the last one read.                  *)
(***************************************************************************)
NoPass == [stage |-> "none", first |-> TRUE, at |-> NoTime, behind |-> FALSE, from |-> From(NoTime),
           upper |-> NoTime, read |-> {}, pages |-> 0, left |-> {}, given |-> {}]

\* coveredSince for the stream, after liveOf has looked at the route.
Coverage(l) == IF polled \/ l.since = NoTime \/ ~l.route THEN NoTime
               ELSE IF l.covered = NoTime THEN clock ELSE l.covered
OverlapNow(l) == IF Coverage(l) = NoTime THEN Overlap ELSE 0
\* A mutant: a route that comes back covers all since the connection was made.
DueAtConnect(l) == l.since
\* The time up to which a covered stream must be read before ticks move it.
Due(l) == Larger(l.since, Coverage(l))

\* Up to when the pass p reads.
UpperOf(p, l) ==
  IF p.first THEN IF Coverage(l) = NoTime THEN Larger(l.since, p.at - PollLag) ELSE l.since
  ELSE Larger(p.at - PollLag, IF p.behind THEN Due(l) ELSE l.since)

\* readWindow begins, or finds nothing to read and the pass is done.
Begun(p, c, l) ==
  LET upper == IF c.upper # NoTime THEN c.upper ELSE UpperOf(p, l)
  IN  IF c.through + 1 > upper \/ (c.upper = NoTime /\ c.read >= upper)
      THEN [NoPass EXCEPT !.stage = "done"]
      ELSE [p EXCEPT !.stage = "reading", !.from = c, !.upper = upper, !.read = {},
                     !.pages = 0, !.left = {}, !.given = {}]

\* setCheckpoint(window.checkpoint), and all of an empty window is done at once.
Windowed(p, c, l) ==
  LET w == [From(p.from.through) EXCEPT !.upper = p.upper, !.after = p.from.after]
      c1 == Kept(c, w)
      c2 == Kept(c1, Finished(p, c1.heard, OverlapNow(l)))
  IN  IF p.left # {} THEN <<[p EXCEPT !.stage = "giving"], c1>> ELSE <<Begun(p, c2, l), c2>>

CatchUpInit ==
  /\ polled \in BOOLEAN /\ clock = 0 /\ at = [e \in Posts |-> NoTime] /\ fly = {}
  /\ checkpoint = From(0) /\ on = TRUE /\ alive = TRUE
  /\ link = [since |-> NoTime, route |-> FALSE, covered |-> NoTime]
  /\ runner = [seen |-> {}, backlog |-> {}, quiet |-> FALSE, started |-> NoTime, start |-> 0]
  /\ pass = NoPass /\ taken = [e \in Posts |-> 0] /\ base = 0
  /\ owed = {} /\ lost = {} /\ upsets = 0

\* How far the stream was read.
Reached(c) == IF c.read # NoTime THEN c.read ELSE c.through

\* catchUp(tick) with the checkpoint c, the connection l, the runner r, the watch o,
\* and the pass old, which is NoPass when the attention has changed. due: the time
\* to poll, or to try a failed pass again, has come.
CatchesUp(tick, due, c, l, r, o, old) ==
  LET l1 == [l EXCEPT !.covered = Coverage(l)]
      moves == IF o THEN r.quiet ELSE c.through < clock
      reads == o /\ ~r.quiet /\ l.since # NoTime
      ticks(k) == l1.covered # NoTime /\ Reached(k) >= Due(l1)
      c1 == IF \/ moves
               \/ /\ tick /\ reads /\ old.stage = "done" /\ ticks(c)
                  /\ c.upper = NoTime /\ c.through < clock
            THEN Kept(c, From(clock)) ELSE c
      behind == Reached(c1) < Due(l1)
      next == [NoPass EXCEPT !.first = FALSE, !.at = clock, !.behind = behind]
  IN  /\ link' = l1 /\ checkpoint' = c1 /\ on' = o
      /\ runner' = [r EXCEPT !.quiet = ~o,
                             !.started = IF ~o THEN NoTime ELSE IF r.quiet THEN clock ELSE @]
      /\ base' = IF moves THEN Larger(base, clock) ELSE base
      /\ pass' = IF ~reads THEN NoPass
                 ELSE IF old.stage = "none" \/ (old.stage = "failed" /\ due)
                 THEN Begun([NoPass EXCEPT !.at = clock], c1, l1)
                 ELSE IF old.stage = "done" /\ (behind \/ (~ticks(c1) /\ due))
                 THEN Begun(next, c1, l1)
                 ELSE old

Upset == upsets < MaxUpsets /\ upsets' = upsets + 1

\* What the relay has left for the window, below its last page.
Below(p) ==
  {e \in OnRelay : /\ at[e] > p.from.through /\ at[e] <= p.upper
                  /\ \A d \in p.read : Newer(d, e)}

\* On its way to the runner on the route of a covered stream.
Unheard == IF polled THEN {} ELSE fly \ runner.seen

\* A replay of the route would bring e: created since the program's listener started.
Replayable(e) == alive /\ e \in OnRelay \ runner.seen /\ at[e] >= runner.start

\* The stream has gone past e: its checkpoint has, a tick may take it past what was read
\* since the program started, or the window under way does not read e any more.
Behind(e) ==
  \/ ~Undelivered(checkpoint, e)
  \/ alive /\ runner.start <= checkpoint.read /\ at[e] <= checkpoint.read
  \/ /\ pass.stage \in {"reading", "giving"}
     /\ \/ ~Undelivered(pass.from, e)
        \/ /\ at[e] <= pass.upper /\ e \notin pass.read
           /\ pass.stage = "reading" => e \notin Below(pass)

\* No live route brings the events of S: those the stream has gone past are owed by a
\* replay, or lost. The others a later window reads.
Leaves(S) ==
  LET behind == {e \in S : Behind(e)'}
      replayed == {e \in behind : Replayable(e)'}
  IN  owed' = owed \cup replayed /\ lost' = lost \cup (behind \ replayed)

TimePasses ==
  /\ clock < MaxClock /\ clock' = clock + 1
  /\ UNCHANGED <<polled, at, fly, checkpoint, on, alive, link, runner, pass, taken, base, owed, lost, upsets>>

\* The relay stores e, created up to Drift ago. A live route of the stream sends it; one
\* of another stream may. The overlap of a polled stream reaches back to it.
Stores(e, t) ==
  /\ at[e] = NoTime /\ t \in Larger(0, clock - Drift)..clock
  /\ at' = [at EXCEPT ![e] = t]
  /\ UNCHANGED <<polled, clock, checkpoint, on, alive, link, runner, pass, taken, base, upsets>>
  /\ \/ link.route /\ fly' = fly \cup {e} /\ UNCHANGED <<owed, lost>>
     \/ (polled \/ ~link.route) /\ fly' = fly /\ Leaves(IF polled THEN {} ELSE {e})

\* The connection is made, with the stream's route or before it.
LinkMade ==
  /\ alive /\ link.since = NoTime
  /\ \E route \in BOOLEAN :
       CatchesUp(FALSE, FALSE, checkpoint, [since |-> clock, route |-> route, covered |-> NoTime], runner, on, pass)
  /\ UNCHANGED <<polled, clock, at, fly, alive, taken, owed, lost, upsets>>

\* The connection drops, with what it was about to send.
LinkDrops ==
  /\ alive /\ link.since # NoTime /\ Upset
  /\ CatchesUp(FALSE, FALSE, checkpoint, [since |-> NoTime, route |-> FALSE, covered |-> NoTime], runner, on, pass)
  /\ fly' = {} /\ UNCHANGED <<polled, clock, at, alive, taken>> /\ Leaves(Unheard)

\* The stream's route goes live, or drops and is set up again.
RouteLive ==
  /\ alive /\ link.since # NoTime /\ ~link.route
  /\ \E due \in BOOLEAN : CatchesUp(FALSE, due, checkpoint, [link EXCEPT !.route = TRUE], runner, on, pass)
  /\ UNCHANGED <<polled, clock, at, fly, alive, taken, owed, lost, upsets>>

RouteDrops ==
  /\ alive /\ link.route /\ Upset
  /\ \E due \in BOOLEAN : CatchesUp(FALSE, due, checkpoint, [link EXCEPT !.route = FALSE], runner, on, pass)
  /\ fly' = {} /\ UNCHANGED <<polled, clock, at, alive, taken>> /\ Leaves(Unheard)

\* The interval timer fires.
Ticks(due) ==
  /\ alive /\ CatchesUp(TRUE, due, checkpoint, link, runner, on, pass)
  /\ UNCHANGED <<polled, clock, at, fly, alive, taken, owed, lost, upsets>>

\* The agent's attention changes: another watch of it, or this one is turned off or on.
Edits ==
  /\ alive /\ Upset
  /\ \E o \in BOOLEAN : CatchesUp(FALSE, FALSE, checkpoint, link, runner, o, NoPass)
  /\ UNCHANGED <<polled, clock, at, fly, alive, taken, owed, lost>>

\* A page of the window arrives: the newest of what is left. An empty one ends the
\* window. Past the most pages, or so many bytes, the oldest second reached is
\* skipped with everything older, if anything is left.
PageArrives ==
  /\ pass.stage = "reading"
  /\ LET below == Below(pass)
         page == {e \in below : Cardinality({d \in below : Newer(d, e)}) < PageSize}
         reached == CHOOSE t \in {at[e] : e \in pass.read} : \A e \in pass.read : t <= at[e]
         whole == {e \in pass.read : at[e] > reached}
         pending(S) == {e \in S : Undelivered(pass.from, e)}
         ended == Windowed([pass EXCEPT !.left = pending(pass.read)], checkpoint, link)
         cut == Windowed([pass EXCEPT !.left = pending(whole), !.read = whole,
                            !.from.through = Larger(reached, @),
                            !.from.after = IF @ # NoPost /\ at[@] > reached THEN @ ELSE NoPost],
                         checkpoint, link)
     IN  \/ /\ below = {}
            /\ pass' = ended[1] /\ checkpoint' = ended[2] /\ UNCHANGED base
         \/ /\ below # {} /\ pass.pages > 0
            /\ pass' = cut[1] /\ checkpoint' = cut[2] /\ base' = Larger(base, reached)
         \/ /\ below # {} /\ pass.pages < MaxPages
            /\ pass' = [pass EXCEPT !.read = @ \cup page, !.pages = @ + 1]
            /\ UNCHANGED <<checkpoint, base>>
  /\ UNCHANGED <<polled, clock, at, fly, on, alive, link, runner, taken, owed, lost, upsets>>

PageFails ==
  /\ pass.stage = "reading" /\ Upset
  /\ pass' = [NoPass EXCEPT !.stage = "failed"]
  /\ UNCHANGED <<polled, clock, at, fly, checkpoint, on, alive, link, runner, taken, base, owed, lost>>

\* The agent has room for the n oldest of the window: those not seen yet, and past
\* the checkpoint, are given, and the checkpoint follows.
Gives(n) ==
  /\ pass.stage = "giving" /\ n <= Cardinality(pass.left)
  /\ LET batch == Oldest(pass.left, n)
         p == [pass EXCEPT !.left = @ \ batch, !.given = @ \cup batch]
         c1 == Kept(checkpoint, Admitted(p, p.given, checkpoint.heard, OverlapNow(link)))
         c2 == Kept(c1, Finished(p, c1.heard, OverlapNow(link)))
     IN  /\ taken' = [e \in Posts |->
                        IF e \in batch \ runner.seen /\ Undelivered(checkpoint, e)
                        THEN taken[e] + 1 ELSE taken[e]]
         /\ runner' = [runner EXCEPT !.seen = @ \cup batch]
         /\ checkpoint' = IF p.left = {} THEN c2 ELSE c1
         /\ pass' = IF p.left = {} THEN Begun(p, c2, link) ELSE p
  /\ UNCHANGED <<polled, clock, at, fly, on, alive, link, base, owed, lost, upsets>>

\* hear: a live event is given once, and the checkpoint saves that it was heard.
Hears(e) ==
  /\ e \in fly /\ fly' = fly \ {e}
  /\ IF e \in runner.seen THEN UNCHANGED <<runner, taken, checkpoint>>
     ELSE /\ runner' = [runner EXCEPT !.seen = @ \cup {e}]
          /\ taken' = IF on THEN [taken EXCEPT ![e] = @ + 1] ELSE taken
          /\ checkpoint' = HeardIn(checkpoint, e)
  /\ UNCHANGED <<polled, clock, at, on, alive, link, pass, base, owed, lost, upsets>>

\* A replay of the route holds e, which waits until there is room for it.
Replays(e) ==
  /\ link.route /\ Replayable(e)
  /\ runner' = [runner EXCEPT !.seen = @ \cup {e}, !.backlog = @ \cup {e}]
  /\ UNCHANGED <<polled, clock, at, fly, checkpoint, on, alive, link, pass, taken, base, owed, lost, upsets>>

\* admit: there is room for a replayed event; the watch does not wake for one from
\* before it was turned on.
Admits(e) ==
  /\ e \in runner.backlog
  /\ runner' = [runner EXCEPT !.backlog = @ \ {e}]
  /\ taken' = IF on /\ at[e] >= runner.started THEN [taken EXCEPT ![e] = @ + 1] ELSE taken
  /\ checkpoint' = HeardIn(checkpoint, e)
  /\ UNCHANGED <<polled, clock, at, fly, on, alive, link, pass, base, owed, lost, upsets>>

\* What a running program may still be given although the stream has gone past it.
Coming == runner.backlog \cup Unheard \cup {e \in owed : Replayable(e)}

\* The program ends, with all it holds in memory, and starts a second later or more.
\* What was still coming and the checkpoint has gone past, nothing brings any more.
ProgramEnds ==
  /\ alive /\ clock < MaxClock /\ Upset
  /\ clock' = clock + 1 /\ alive' = FALSE /\ fly' = {} /\ pass' = NoPass
  /\ owed' = {} /\ lost' = lost \cup {e \in Coming : ~Undelivered(checkpoint, e)}
  /\ link' = [since |-> NoTime, route |-> FALSE, covered |-> NoTime]
  /\ runner' = [seen |-> {}, backlog |-> {}, quiet |-> FALSE, started |-> NoTime, start |-> 0]
  /\ UNCHANGED <<polled, at, checkpoint, on, taken, base>>

ProgramStarts ==
  /\ ~alive /\ alive' = TRUE
  /\ CatchesUp(FALSE, FALSE, Reopened(checkpoint), link, [runner EXCEPT !.start = clock], on, pass)
  /\ UNCHANGED <<polled, clock, at, fly, taken, owed, lost, upsets>>

CatchUpNext ==
  \/ TimePasses \/ LinkMade \/ LinkDrops \/ RouteLive \/ RouteDrops \/ Edits
  \/ \E due \in BOOLEAN : Ticks(due)
  \/ \E e \in Posts, t \in 0..MaxClock : Stores(e, t)
  \/ PageArrives \/ PageFails \/ \E n \in 1..BatchSize : Gives(n)
  \/ \E e \in Posts : Hears(e) \/ Replays(e) \/ Admits(e)
  \/ ProgramEnds \/ ProgramStarts

CatchUpSpec == CatchUpInit /\ [][CatchUpNext]_catchUp

Times == 0..MaxClock
Maybe == Times \cup {NoTime}
Checkpoints == [through : Maybe, upper : Maybe, read : Maybe, after : Posts \cup {NoPost},
                heard : SUBSET Posts, shrunk : Maybe, forgot : Maybe]
Links == [since : Maybe, route : BOOLEAN, covered : Maybe]
Runners == [seen : SUBSET Posts, backlog : SUBSET Posts, quiet : BOOLEAN, started : Maybe,
            start : Times]
Passes == [stage : {"none", "reading", "giving", "failed", "done"}, first : BOOLEAN, at : Maybe,
           behind : BOOLEAN, from : Checkpoints, upper : Maybe, read : SUBSET Posts,
           pages : 0..MaxPages, left : SUBSET Posts, given : SUBSET Posts]
CatchUpTypeOK ==
  /\ polled \in BOOLEAN /\ clock \in Times /\ at \in [Posts -> Maybe]
  /\ fly \subseteq OnRelay /\ owed \cup lost \subseteq OnRelay /\ on \in BOOLEAN /\ alive \in BOOLEAN
  /\ checkpoint \in Checkpoints /\ checkpoint.through # NoTime
  /\ link \in Links /\ runner \in Runners /\ pass \in Passes
  /\ taken \in [Posts -> Nat] /\ base \in Times /\ upsets \in 0..MaxUpsets

\* No event wakes the agent twice, whether it is heard live, replayed or read, and
\* however often the program ends; a full list of heard events may forget some.
GivenOnce ==
  \A e \in OnRelay : at[e] > Larger(checkpoint.shrunk, checkpoint.forgot) => taken[e] <= 1

\* An event the checkpoint has gone past was given, or is still coming to the running
\* program - it waits in the backlog, is on its way on a covered stream's route, or was
\* stored while that route was down and a replay reaches back to it - but for those of
\* a time the watch was off, those older than a bound let go, and those lost: gone past
\* while no replay reaches back to them, or still coming when the program ended.
NothingPassedOver ==
  \A e \in OnRelay :
    on /\ at[e] > Larger(base, checkpoint.shrunk) /\ ~Undelivered(checkpoint, e) =>
      taken[e] > 0 \/ e \in Coming \cup lost
=============================================================================
