----------------------------- MODULE ReadState ------------------------------
(***************************************************************************)
(* Publication of read markers by one installation (read-state.ts,         *)
(* packReadState in read-state-model.ts). The windows of the installation  *)
(* share a saved journal; one of them at a time holds the publisher lock   *)
(* and flushes: it retries the pending operation, reads its own slots,     *)
(* packs its own markers into blobs, and for each changed blob saves the   *)
(* signed event, publishes it and reads it back.                           *)
(*                                                                         *)
(* Every await of the flush ends a step, so other windows mark, the floor  *)
(* moves, published events arrive late, the flush fails and its window     *)
(* closes in between. Marker values are times of ten digits, so a blob     *)
(* holds as many as it has room for, whatever their values.                *)
(***************************************************************************)
EXTENDS Naturals, FiniteSets

CONSTANTS
  Markers,         \* channels and threads with a marker
  MaxSlots,     \* bound: coordinates ever created (READ_STATE_SLOTS in use)
  Room,         \* markers a blob holds
  MaxValue,     \* bound: times
  MaxRevision,  \* bound: mutations of the journal
  MaxVersion,   \* bound: versions signed
  MaxFloor,     \* bound: how far the retention floor moves
  MaxRestores,  \* bound: restored profiles
  NoOperation          \* no pending operation

Slots == 1..MaxSlots
Values == [Markers -> 0..MaxValue]   \* 0: no marker
Events == [slot : Slots, version : Nat, values : Values]
PendingOperations == [event : Events, revision : Nat]

ASSUME ReadStateAssumption ==
  /\ MaxSlots \in Nat \ {0} /\ Room \in Nat \ {0} /\ MaxValue \in Nat
  /\ MaxRevision \in Nat /\ MaxVersion \in Nat /\ MaxFloor \in Nat /\ MaxRestores \in Nat
  /\ NoOperation \notin PendingOperations

VARIABLES
  readJournal,   \* the saved record; its marks are history
  relay,     \* the newest event of each coordinate
  flight,       \* published events that may still arrive
  floor,     \* markers at or below it count as read
  flush,      \* the flush of the window that holds the publisher lock
  made,      \* history: slots ever created
  backup,    \* the profile as it was backed up
  restores   \* history: number of restores

readState == <<readJournal, relay, flight, floor, flush, made, backup, restores>>

Nothing == [k \in Markers |-> 0]
Blank == [version |-> 0, values |-> Nothing]
NewJournal == [own |-> Nothing, slots |-> {1}, revision |-> 0, accepted |-> 0,
               version |-> 0, pending |-> NoOperation, marks |-> {}]
AtRest == [stage |-> "rest", recover |-> FALSE, expired |-> FALSE, revision |-> 0,
           seen |-> [s \in Slots |-> Blank], todo |-> {}]

Later(a, b) == IF a >= b THEN a ELSE b

\* Mutant: what its own slots carry is not taken back.
RecoveredNot(own, seen) == {[k \in Markers |-> IF own[k] > floor THEN own[k] ELSE 0]}

\* advanceOwn() over what the slots read carry: the greatest value of each marker,
\* without those the floor already reads. The set has one member.
Recovered(own, seen) ==
  {join \in Values : \A k \in Markers :
     LET known == {own[k]} \cup {seen[s].values[k] : s \in Slots}
     IN  IF \A v \in known : v <= floor
         THEN join[k] = 0
         ELSE join[k] \in known /\ \A v \in known : v <= join[k]}

\* A blob with the values of the markers placed in slot s.
Blob(own, place, s) ==
  [k \in Markers |-> IF k \in DOMAIN place /\ place[k] = s THEN own[k] ELSE 0]

\* packReadState(): a marker keeps the first slot that carries it; the others fill
\* slots with room, in an order left open, and new ones when all are full.
Placements(own, seen, owned) ==
  LET held == {k \in Markers : own[k] > 0}
      homes(k) == {s \in owned : seen[s].values[k] > 0}
  IN  {place \in [held -> owned \cup (Slots \ made)] :
         LET load(s) == Cardinality({k \in held : place[k] = s})
         IN  /\ \A k \in held : homes(k) # {} =>
                  place[k] \in homes(k) /\ \A s \in homes(k) : place[k] <= s
             /\ \A s \in Slots : load(s) <= Room
             /\ \A k \in held : place[k] \notin owned => \A s \in owned : load(s) >= Room}

\* A replaceable event replaces an older one of its coordinate.
Replaces(e) ==
  relay' = [relay EXCEPT ![e.slot] =
              IF e.version > @.version
              THEN [version |-> e.version, values |-> e.values] ELSE @]

ReadStateInit ==
  /\ readJournal = NewJournal /\ relay = [s \in Slots |-> Blank] /\ flight = {}
  /\ floor = 0 /\ flush = AtRest /\ made = {1} /\ backup = NewJournal /\ restores = 0

\* A window marks k as read up to v: mutate() with a timestamp.
Marks(k, v) ==
  /\ readJournal.revision < MaxRevision
  /\ \E own \in Recovered([readJournal.own EXCEPT ![k] = Later(@, v)], AtRest.seen) :
       readJournal' = [readJournal EXCEPT
         !.own = own, !.revision = @ + 1,
         !.marks = @ \cup {[key |-> k, value |-> v, revision |-> readJournal.revision + 1]}]
  /\ UNCHANGED <<relay, flight, floor, flush, made, backup, restores>>

\* A local-only mutation: it needs no publication of its own.
MarksUnread ==
  /\ readJournal.revision < MaxRevision
  /\ readJournal' = [readJournal EXCEPT
       !.revision = @ + 1,
       !.accepted = IF @ = readJournal.revision THEN @ + 1 ELSE @]
  /\ UNCHANGED <<relay, flight, floor, flush, made, backup, restores>>

\* flush() has the lock: the pending operation first, then what is unpublished.
Begins ==
  /\ flush.stage = "rest"
  /\ readJournal.pending # NoOperation \/ readJournal.revision > readJournal.accepted
  /\ flush' = IF readJournal.pending # NoOperation
              THEN [AtRest EXCEPT !.stage = "publish", !.recover = TRUE]
              ELSE [AtRest EXCEPT !.stage = "read"]
  /\ UNCHANGED <<readJournal, relay, flight, floor, made, backup, restores>>

\* publishPending() sends the exact event of the pending operation.
Publishes ==
  /\ flush.stage = "publish"
  /\ flight' = flight \cup {readJournal.pending.event}
  /\ flush' = [flush EXCEPT !.stage = "sent"]
  /\ UNCHANGED <<readJournal, relay, floor, made, backup, restores>>

Accepted ==
  /\ flush.stage = "sent" /\ Replaces(readJournal.pending.event)
  /\ flight' = flight \ {readJournal.pending.event}
  /\ flush' = [flush EXCEPT !.stage = "observe"]
  /\ UNCHANGED <<readJournal, floor, made, backup, restores>>

\* The relay refuses an old timestamp, and so every copy that is still to arrive.
Expires ==
  /\ flush.stage = "sent" /\ flush.recover
  /\ flight' = flight \ {readJournal.pending.event}
  /\ flush' = [flush EXCEPT !.stage = "observe", !.expired = TRUE]
  /\ UNCHANGED <<readJournal, relay, floor, made, backup, restores>>

\* The coordinate of the pending operation is read back.
Observes ==
  /\ flush.stage = "observe"
  /\ flush' = [flush EXCEPT !.stage = "check",
       !.seen = [AtRest.seen EXCEPT ![readJournal.pending.event.slot] =
                   relay[readJournal.pending.event.slot]]]
  /\ UNCHANGED <<readJournal, relay, flight, floor, made, backup, restores>>

\* What the flush does after its pending operation, with the journal j.
Resumes(j) ==
  IF ~flush.recover /\ flush.todo # {} THEN [flush EXCEPT !.stage = "queue"]
  ELSE IF flush.recover /\ j.revision > j.accepted THEN [AtRest EXCEPT !.stage = "read"]
  ELSE AtRest

\* What is known of the own slots once an event was published and read back: an event
\* that is not observed counts for its values.
SeenOnRelay(e) == \A k \in Markers : e.values[k] <= flush.seen[e.slot].values[k]
Merged(e) ==
  IF SeenOnRelay(e) THEN flush.seen
  ELSE [flush.seen EXCEPT ![e.slot].values = [k \in Markers |-> Later(@[k], e.values[k])]]

\* Only an observed payload is acknowledged.
Answered(own) ==
  IF SeenOnRelay(readJournal.pending.event)
  THEN [readJournal EXCEPT !.own = own, !.pending = NoOperation,
          !.accepted = Later(@, readJournal.pending.revision)]
  ELSE [readJournal EXCEPT !.own = own]

\* An expired event that is not observed will be replaced; any other stays for the
\* next flush.
Checks ==
  /\ flush.stage = "check" /\ (SeenOnRelay(readJournal.pending.event) \/ flush.expired)
  /\ \E own \in Recovered(readJournal.own, Merged(readJournal.pending.event)) :
       readJournal' = Answered(own) /\ flush' = Resumes(Answered(own))
  /\ UNCHANGED <<relay, flight, floor, made, backup, restores>>

\* The own slots are read.
Reads ==
  /\ flush.stage = "read"
  /\ flush' = [flush EXCEPT !.stage = "plan",
       !.seen = [s \in Slots |-> IF s \in readJournal.slots THEN relay[s] ELSE Blank]]
  /\ UNCHANGED <<readJournal, relay, flight, floor, made, backup, restores>>

\* The new slots of a placement, and the slots whose blob has a value they miss.
Fresh(place) == {place[k] : k \in DOMAIN place} \ readJournal.slots
Changed(own, place) ==
  {s \in readJournal.slots \cup Fresh(place) : \E k \in Markers :
     Blob(own, place, s)[k] > flush.seen[s].values[k]}

\* Their blobs, with versions above all this installation signed or read. A blob that
\* drops a marker is published after the others.
Signed(own, place, s) ==
  [slot |-> s, values |-> Blob(own, place, s),
   version |-> Later(readJournal.version, flush.seen[s].version) + 1]
Drops(own, place, s) ==
  \E k \in Markers : flush.seen[s].values[k] > 0 /\ Blob(own, place, s)[k] = 0
Plan(own, place) ==
  {[event |-> Signed(own, place, s), drops |-> Drops(own, place, s)] : s \in Changed(own, place)}

\* The slots read are ingested and the own markers packed; new slots are saved.
PlansAs(own, place) ==
  /\ made' = made \cup Fresh(place)
  /\ IF Changed(own, place) = {}
     THEN /\ readJournal' = [readJournal EXCEPT !.own = own, !.pending = NoOperation,
                               !.accepted = readJournal.revision]
          /\ flush' = AtRest
     ELSE /\ readJournal' = [readJournal EXCEPT !.own = own, !.slots = @ \cup Fresh(place)]
          /\ flush' = [flush EXCEPT !.stage = "queue", !.revision = readJournal.revision,
                                    !.todo = Plan(own, place)]
Plans ==
  /\ flush.stage = "plan" /\ readJournal.version < MaxVersion
  /\ \A s \in readJournal.slots : flush.seen[s].version < MaxVersion
  /\ \E own \in Recovered(readJournal.own, flush.seen) :
     \E place \in Placements(own, flush.seen, readJournal.slots) : PlansAs(own, place)
  /\ UNCHANGED <<relay, flight, floor, backup, restores>>

\* Mutant: every blob acknowledges the revision.
SavesPendingEarly(b) ==
  /\ flush.stage = "queue" /\ (b.drops => \A o \in flush.todo : o.drops)
  /\ readJournal' = [readJournal EXCEPT
       !.version = Later(@, b.event.version),
       !.pending = [event |-> b.event, revision |-> flush.revision]]
  /\ flush' = [flush EXCEPT !.stage = "publish", !.todo = @ \ {b}]
  /\ UNCHANGED <<relay, flight, floor, made, backup, restores>>

\* The next blob becomes the pending operation; one that drops a marker goes last,
\* and only the last acknowledges the revision.
SavesPending(b) ==
  /\ flush.stage = "queue" /\ (b.drops => \A o \in flush.todo : o.drops)
  /\ readJournal' = [readJournal EXCEPT
       !.version = Later(@, b.event.version),
       !.pending = [event |-> b.event,
                    revision |-> IF flush.todo = {b} THEN flush.revision ELSE readJournal.accepted]]
  /\ flush' = [flush EXCEPT !.stage = "publish", !.todo = @ \ {b}]
  /\ UNCHANGED <<relay, flight, floor, made, backup, restores>>

\* Signer, relay or storage fail or answer too late, or the window closes; the
\* request of a publication may still arrive.
Fails ==
  /\ flush.stage # "rest" /\ flush' = AtRest
  /\ UNCHANGED <<readJournal, relay, flight, floor, made, backup, restores>>

\* A copy arrives late; later ones change nothing.
ArrivesLate(e) ==
  /\ Replaces(e) /\ flight' = flight \ {e}
  /\ UNCHANGED <<readJournal, floor, flush, made, backup, restores>>

Ages ==
  /\ floor < MaxFloor /\ floor' = floor + 1
  /\ UNCHANGED <<readJournal, relay, flight, flush, made, backup, restores>>

\* The profile is backed up with no operation pending, and restored with nothing in
\* flight.
BacksUp ==
  /\ restores < MaxRestores /\ flush.stage = "rest" /\ readJournal.pending = NoOperation
  /\ backup' = readJournal
  /\ UNCHANGED <<readJournal, relay, flight, floor, flush, made, restores>>
RestoresBackup ==
  /\ restores < MaxRestores /\ flush.stage = "rest" /\ restores' = restores + 1
  /\ readJournal' = backup /\ flight' = {}
  /\ UNCHANGED <<relay, floor, flush, made, backup>>

ReadStateNext ==
  \/ \E k \in Markers, v \in 1..MaxValue : Marks(k, v)
  \/ MarksUnread \/ Begins \/ Publishes \/ Accepted \/ Expires \/ Observes \/ Checks
  \/ Reads \/ Plans \/ \E b \in flush.todo : SavesPending(b)
  \/ Fails \/ \E e \in flight : ArrivesLate(e)
  \/ Ages \/ BacksUp \/ RestoresBackup

ReadStateSpec == ReadStateInit /\ [][ReadStateNext]_readState

----------------------------------------------------------------------------
\* Correctness.

\* The relay's own slots, or the floor, read k up to v.
Carried(k, v) == v <= floor \/ \E s \in Slots : relay[s].values[k] >= v

\* "Only the last blob acknowledges the revision: a partial publication never marks
\* local intent as synchronized" (read-state.ts:762): every marker of an acknowledged
\* revision is on the relay, whatever failed, arrived late or was restored since.
AcceptedIsPublished ==
  \A m \in readJournal.marks : m.revision <= readJournal.accepted => Carried(m.key, m.value)

\* "No frontier is ever off the relay" (read-state.ts:693) and "a restored journal never
\* republishes an older frontier" (docs/unread.md:434): no step takes back on the relay
\* what it carried, between two blobs, after a late arrival, or with an old journal.
NeverRewound ==
  [][\A k \in Markers, v \in 1..MaxValue : Carried(k, v) => Carried(k, v)']_readState
=============================================================================
