--------------------------- MODULE ReadStateProofs --------------------------
(***************************************************************************)
(* Proofs about ReadState: an acknowledged revision is on the relay, and   *)
(* no step takes back what the relay carried, for any markers, room and    *)
(* bounds.                                                                 *)
(***************************************************************************)
EXTENDS ReadState, TLAPS

Slot == [version : Nat, values : Values]
Mark == [key : Markers, value : 1..MaxValue, revision : Nat]
Journal == [own : Values, slots : SUBSET Slots, revision : Nat, accepted : Nat,
            version : Nat, pending : PendingOperations \cup {NoOperation}, marks : SUBSET Mark]
Stages == {"rest", "publish", "sent", "observe", "check", "read", "plan", "queue"}
Task == [stage : Stages, recover : BOOLEAN, expired : BOOLEAN, revision : Nat,
         seen : [Slots -> Slot], todo : SUBSET [event : Events, drops : BOOLEAN]]

Types ==
  /\ readJournal \in Journal /\ backup \in Journal
  /\ relay \in [Slots -> Slot] /\ flight \in SUBSET Events /\ floor \in Nat
  /\ flush \in Task /\ made \in SUBSET Slots /\ restores \in Nat

Sending == {"publish", "sent", "observe", "check"}

\* Where the flush is, what it has read, and what may still arrive: nothing but the
\* pending operation, and nothing once that was answered.
Flush ==
  /\ flush.stage \in Sending => readJournal.pending # NoOperation
  /\ flush.recover \/ flush.stage \in {"rest", "read", "plan"} => flush.todo = {}
  /\ flush.recover => flush.stage \in Sending
  /\ flush.expired => flush.recover
  /\ flush.stage \in {"observe", "check", "read", "plan", "queue"} => flight = {}
  /\ flight # {} => readJournal.pending # NoOperation /\ flight = {readJournal.pending.event}
  /\ flush.stage = "check" =>
       flush.seen[readJournal.pending.event.slot] = relay[readJournal.pending.event.slot]
  /\ flush.stage = "plan" =>
       flush.seen = [s \in Slots |-> IF s \in readJournal.slots THEN relay[s] ELSE Blank]

\* Slots: a backup has no more than the journal, unused ones are blank, and events
\* are for slots of the journal, one blob for each.
Owned ==
  /\ backup.slots \subseteq readJournal.slots /\ readJournal.slots \subseteq made
  /\ backup.pending = NoOperation
  /\ \A s \in Slots \ made : relay[s] = Blank
  /\ readJournal.pending # NoOperation => readJournal.pending.event.slot \in readJournal.slots
  /\ \A b \in flush.todo :
       /\ b.event.slot \in readJournal.slots
       /\ \A o \in flush.todo : o.event.slot = b.event.slot => o = b
       /\ flush.stage \in Sending => readJournal.pending.event.slot # b.event.slot

\* e takes nothing from its slot that the floor does not read, and a marker it
\* carries is in no other slot.
Succeeds(e) ==
  \A k \in Markers :
    /\ relay[e.slot].values[k] <= floor \/ relay[e.slot].values[k] <= e.values[k]
    /\ e.values[k] > 0 =>
         \A s \in readJournal.slots : s # e.slot => relay[s].values[k] = 0

\* A marker is carried by one slot.
Single ==
  /\ \A k \in Markers, s, t \in readJournal.slots :
       s # t => relay[s].values[k] = 0 \/ relay[t].values[k] = 0
  /\ readJournal.pending # NoOperation => Succeeds(readJournal.pending.event)
  /\ \A b \in flush.todo : Succeeds(b.event)
  /\ \A b, o \in flush.todo, k \in Markers :
       b # o => b.event.values[k] = 0 \/ o.event.values[k] = 0
  /\ flush.stage \in Sending => \A b \in flush.todo, k \in Markers :
       b.event.values[k] = 0 \/ readJournal.pending.event.values[k] = 0

\* Saved markers are kept, and those of an acknowledged revision are on the relay.
Kept(j) ==
  \A m \in j.marks :
    /\ m.revision <= j.revision
    /\ m.value <= floor \/ j.own[m.key] >= m.value
    /\ m.revision <= j.accepted => Carried(m.key, m.value)

\* What the pending operation, or the rest of a plan, acknowledges is on the relay or
\* in the events to come.
Underway ==
  \A m \in readJournal.marks :
    /\ readJournal.pending # NoOperation /\ m.revision <= readJournal.pending.revision =>
         Carried(m.key, m.value) \/ readJournal.pending.event.values[m.key] >= m.value
    /\ flush.stage = "queue" \/ flush.todo # {} =>
         (m.revision <= flush.revision =>
            \/ Carried(m.key, m.value)
            \/ \E b \in flush.todo : b.event.values[m.key] >= m.value
            \/ flush.stage # "queue" /\ readJournal.pending.event.values[m.key] >= m.value)

Acknowledged ==
  /\ readJournal.accepted <= readJournal.revision
  /\ readJournal.pending # NoOperation => readJournal.pending.revision <= readJournal.revision
  /\ flush.stage = "queue" \/ flush.todo # {} => flush.revision <= readJournal.revision
  /\ backup.accepted <= backup.revision

IReadState ==
  /\ Types /\ Flush /\ Owned /\ Single /\ Kept(readJournal) /\ Kept(backup)
  /\ Underway /\ Acknowledged

----------------------------------------------------------------------------
\* The operators.

\* Markers recovered from what was read keep every value above the floor.
LEMMA RecoveredKeeps ==
  ASSUME NEW own \in Values, NEW seen \in [Slots -> Slot], floor \in Nat,
         NEW join \in Recovered(own, seen)
  PROVE  /\ join \in Values
         /\ \A k \in Markers : own[k] <= floor \/ own[k] <= join[k]
         /\ \A k \in Markers, s \in Slots :
              seen[s].values[k] <= floor \/ seen[s].values[k] <= join[k]
<1>1. join \in Values  BY DEF Recovered
<1>2. ASSUME NEW k \in Markers, NEW v \in {own[k]} \cup {seen[s].values[k] : s \in Slots}
      PROVE  v <= floor \/ v <= join[k]
  BY DEF Recovered
<1> QED  BY <1>1, <1>2

\* A placed marker stays in a slot that carries it.
LEMMA PlacedAtHome ==
  ASSUME NEW own \in Values, NEW seen, NEW owned, NEW place \in Placements(own, seen, owned)
  PROVE  /\ place \in [{k \in Markers : own[k] > 0} -> owned \cup (Slots \ made)]
         /\ \A k \in Markers : own[k] > 0 /\ (\E s \in owned : seen[s].values[k] > 0) =>
              place[k] \in owned /\ seen[place[k]].values[k] > 0
BY DEF Placements

LEMMA BlobValues ==
  ASSUME NEW own \in Values, NEW place, NEW s
  PROVE  Blob(own, place, s) \in Values
BY ReadStateAssumption DEF Blob, Values

LEMMA AtRestTyped == AtRest \in Task /\ AtRest.seen \in [Slots -> Slot] /\ Blank \in Slot
<1>1. Nothing \in Values  BY ReadStateAssumption DEF Nothing, Values
<1>2. Blank \in Slot  BY <1>1 DEF Blank, Slot
<1> QED  BY <1>2 DEF AtRest, Task, Stages

----------------------------------------------------------------------------
\* Types.

LEMMA ReplacesTyped ==
  ASSUME relay \in [Slots -> Slot], NEW e \in Events, Replaces(e)
  PROVE  relay' \in [Slots -> Slot]
BY DEF Replaces, Slot, Events

LEMMA PlanTyped ==
  ASSUME Types, NEW own \in Values,
         NEW place \in Placements(own, flush.seen, readJournal.slots)
  PROVE  /\ Fresh(place) \subseteq Slots \ readJournal.slots
         /\ Fresh(place) \cap made \subseteq readJournal.slots
         /\ Plan(own, place) \subseteq [event : Events, drops : BOOLEAN]
<1>1. /\ flush.seen \in [Slots -> Slot] /\ readJournal.version \in Nat
      /\ readJournal.slots \in SUBSET Slots
  BY DEF Types, Task, Journal
<1>2. place \in [{k \in Markers : own[k] > 0} -> readJournal.slots \cup (Slots \ made)]
  BY PlacedAtHome
<1>3. /\ Fresh(place) \subseteq Slots \ readJournal.slots
      /\ Fresh(place) \cap made \subseteq readJournal.slots
  BY <1>1, <1>2 DEF Fresh
<1>4. ASSUME NEW s \in Changed(own, place)
      PROVE  Signed(own, place, s) \in Events /\ Drops(own, place, s) \in BOOLEAN
  <2>1. s \in Slots  BY <1>1, <1>3 DEF Changed
  <2>2. flush.seen[s].version \in Nat  BY <1>1, <2>1 DEF Slot
  <2> QED  BY <1>1, <2>1, <2>2, BlobValues DEF Signed, Drops, Events, Later
<1> QED  BY <1>3, <1>4 DEF Plan

LEMMA PlansTyped ==
  ASSUME Types, Plans
  PROVE  readJournal' \in Journal /\ flush' \in Task /\ made' \in SUBSET Slots
<1>1. /\ flush.seen \in [Slots -> Slot] /\ readJournal \in Journal /\ flush \in Task
      /\ readJournal.own \in Values /\ floor \in Nat /\ made \in SUBSET Slots
  BY DEF Types, Task, Journal
<1>a. PICK own \in Recovered(readJournal.own, flush.seen) :
        \E place \in Placements(own, flush.seen, readJournal.slots) : PlansAs(own, place)
  BY DEF Plans
<1>2. PICK place \in Placements(own, flush.seen, readJournal.slots) : PlansAs(own, place)
  BY <1>a
<1>3. own \in Values  BY <1>1, RecoveredKeeps
<1>4. /\ Fresh(place) \subseteq Slots
      /\ Plan(own, place) \subseteq [event : Events, drops : BOOLEAN]
  BY <1>3, PlanTyped
<1>5. CASE Changed(own, place) = {}
  BY <1>1, <1>2, <1>3, <1>4, <1>5, AtRestTyped DEF PlansAs, Journal
<1>6. CASE Changed(own, place) # {}
  <2>1. /\ readJournal' = [readJournal EXCEPT !.own = own, !.slots = @ \cup Fresh(place)]
        /\ flush' = [flush EXCEPT !.stage = "queue", !.revision = readJournal.revision,
                                  !.todo = Plan(own, place)]
        /\ made' = made \cup Fresh(place)
    BY <1>2, <1>6 DEF PlansAs
  <2>2. readJournal' \in Journal  BY <1>1, <1>3, <1>4, <2>1 DEF Journal
  <2>3. flush' \in Task  BY <1>1, <1>4, <2>1 DEF Task, Journal, Stages
  <2> QED  BY <1>1, <1>4, <2>1, <2>2, <2>3
<1> QED  BY <1>5, <1>6

LEMMA ChecksTyped ==
  ASSUME Types, Flush, Checks
  PROVE  /\ Merged(readJournal.pending.event) \in [Slots -> Slot]
         /\ readJournal' \in Journal /\ flush' \in Task
<1> DEFINE e == readJournal.pending.event
<1>1. /\ flush.seen \in [Slots -> Slot] /\ readJournal \in Journal /\ flush \in Task
      /\ readJournal.own \in Values /\ floor \in Nat /\ flush.stage = "check"
  BY DEF Types, Task, Journal, Checks
<1>2. readJournal.pending \in PendingOperations /\ e \in Events /\ readJournal.pending.revision \in Nat
  BY <1>1 DEF Flush, Sending, Journal, PendingOperations
<1>3. Merged(e) \in [Slots -> Slot]
  <2>1. flush.seen[e.slot] \in Slot /\ e.values \in Values /\ e.slot \in Slots
    BY <1>1, <1>2 DEF Events
  <2>2. [k \in Markers |-> Later(flush.seen[e.slot].values[k], e.values[k])] \in Values
    BY <2>1 DEF Values, Later, Slot
  <2> QED  BY <1>1, <2>1, <2>2 DEF Merged, Slot
<1>4. PICK own \in Recovered(readJournal.own, Merged(e)) :
        readJournal' = Answered(own) /\ flush' = Resumes(Answered(own))
  BY DEF Checks
<1>5. own \in Values  BY <1>1, <1>3, RecoveredKeeps
<1>6. readJournal' \in Journal
  BY <1>1, <1>2, <1>4, <1>5 DEF Answered, Journal, Later
<1>7. flush' \in Task
  BY <1>1, <1>4, AtRestTyped DEF Resumes, Task, Stages
<1> QED  BY <1>3, <1>6, <1>7

\* A window's mark: the marker is kept, and none is lost.
LEMMA MarksKeeps ==
  ASSUME Types, NEW k \in Markers, NEW v \in 1..MaxValue, Marks(k, v)
  PROVE  /\ readJournal' \in Journal
         /\ \A j \in Markers :
              readJournal.own[j] <= floor \/ readJournal.own[j] <= readJournal'.own[j]
         /\ v <= floor \/ v <= readJournal'.own[k]
<1> DEFINE raised == [readJournal.own EXCEPT ![k] = Later(@, v)]
<1>1. /\ readJournal \in Journal /\ readJournal.own \in Values /\ floor \in Nat
      /\ v \in Nat /\ MaxValue \in Nat
  BY ReadStateAssumption DEF Types, Journal
<1>2. raised \in Values /\ v <= raised[k] /\ \A j \in Markers : readJournal.own[j] <= raised[j]
  BY <1>1 DEF Values, Later
<1>3. PICK own \in Recovered(raised, AtRest.seen) :
        readJournal' = [readJournal EXCEPT
          !.own = own, !.revision = @ + 1,
          !.marks = @ \cup {[key |-> k, value |-> v, revision |-> readJournal.revision + 1]}]
  BY DEF Marks
<1>4. /\ own \in Values
      /\ \A j \in Markers : raised[j] <= floor \/ raised[j] <= own[j]
  BY <1>1, <1>2, AtRestTyped, RecoveredKeeps
<1>5. readJournal' \in Journal /\ readJournal'.own = own
  <2>1. readJournal.revision \in Nat /\ readJournal.marks \in SUBSET Mark  BY <1>1 DEF Journal
  <2>2. [key |-> k, value |-> v, revision |-> readJournal.revision + 1] \in Mark
    BY <2>1 DEF Mark
  <2>3. readJournal.revision + 1 \in Nat  BY <2>1
  <2> QED  BY <1>1, <1>3, <1>4, <2>1, <2>2, <2>3 DEF Journal
<1>6. \A j \in Markers : raised[j] \in Nat /\ own[j] \in Nat /\ readJournal.own[j] \in Nat
  BY <1>1, <1>2, <1>4 DEF Values
<1> QED  BY <1>1, <1>2, <1>4, <1>5, <1>6

LEMMA TypesNext ==
  ASSUME Types, Flush, ReadStateNext
  PROVE  Types'
<1>1. /\ readJournal \in Journal /\ backup \in Journal
      /\ relay \in [Slots -> Slot] /\ flight \in SUBSET Events /\ floor \in Nat
      /\ flush \in Task /\ made \in SUBSET Slots /\ restores \in Nat
  BY DEF Types
<1>2. flush.stage \in Sending =>
        readJournal.pending \in PendingOperations /\ readJournal.pending.event \in Events
  BY <1>1 DEF Flush, Journal, PendingOperations
<1>3. CASE \E k \in Markers, v \in 1..MaxValue : Marks(k, v)
  BY <1>1, <1>3, MarksKeeps DEF Types, Marks
<1>4. CASE MarksUnread
  <2> DEFINE accepted == IF readJournal.accepted = readJournal.revision
                         THEN readJournal.accepted + 1 ELSE readJournal.accepted
  <2>1. readJournal.revision + 1 \in Nat /\ accepted \in Nat  BY <1>1 DEF Journal
  <2>2. readJournal' = [readJournal EXCEPT !.revision = readJournal.revision + 1,
                                           !.accepted = accepted]
    BY <1>4 DEF MarksUnread
  <2> HIDE DEF accepted
  <2>3. readJournal' \in Journal  BY <1>1, <2>1, <2>2 DEF Journal
  <2> QED  BY <1>1, <1>4, <2>3 DEF MarksUnread, Types
<1>5. CASE Begins  BY <1>1, <1>5, AtRestTyped DEF Begins, Types, Task, Stages
<1>6. CASE Publishes
  BY <1>1, <1>2, <1>6 DEF Publishes, Types, Task, Stages, Sending
<1>7. CASE Accepted
  <2>1. readJournal.pending.event \in Events  BY <1>2, <1>7 DEF Accepted, Sending
  <2>2. relay' \in [Slots -> Slot]  BY <1>1, <1>7, <2>1, ReplacesTyped DEF Accepted
  <2> QED  BY <1>1, <1>7, <2>2 DEF Accepted, Types, Task, Stages
<1>8. CASE Expires  BY <1>1, <1>8 DEF Expires, Types, Task, Stages
<1>9. CASE Observes
  <2>1. readJournal.pending.event.slot \in Slots  BY <1>2, <1>9 DEF Observes, Sending, Events
  <2>2. [AtRest.seen EXCEPT ![readJournal.pending.event.slot] =
           relay[readJournal.pending.event.slot]] \in [Slots -> Slot]
    BY <1>1, <2>1, AtRestTyped
  <2> QED  BY <1>1, <1>9, <2>2 DEF Observes, Types, Task, Stages
<1>10. CASE Checks  BY <1>1, <1>10, ChecksTyped DEF Checks, Types
<1>11. CASE Reads
  <2>1. [s \in Slots |-> IF s \in readJournal.slots THEN relay[s] ELSE Blank] \in [Slots -> Slot]
    BY <1>1, AtRestTyped
  <2> QED  BY <1>1, <1>11, <2>1 DEF Reads, Types, Task, Stages
<1>12. CASE Plans  BY <1>1, <1>12, PlansTyped DEF Plans, Types
<1>13. CASE \E b \in flush.todo : SavesPending(b)
  <2>1. PICK b \in flush.todo : SavesPending(b)  BY <1>13
  <2>2. b.event \in Events /\ b.event.version \in Nat /\ flush.revision \in Nat
    BY <1>1 DEF Task, Events
  <2>3. readJournal' \in Journal
    BY <1>1, <2>1, <2>2 DEF SavesPending, Journal, PendingOperations, Later
  <2> QED  BY <1>1, <2>1, <2>3 DEF SavesPending, Types, Task, Stages
<1>14. CASE Fails  BY <1>1, <1>14, AtRestTyped DEF Fails, Types
<1>15. CASE \E e \in flight : ArrivesLate(e)
  <2>1. PICK e \in flight : ArrivesLate(e)  BY <1>15
  <2>2. relay' \in [Slots -> Slot]  BY <1>1, <2>1, ReplacesTyped DEF ArrivesLate
  <2> QED  BY <1>1, <2>1, <2>2 DEF ArrivesLate, Types
<1>16. CASE Ages  BY <1>1, <1>16 DEF Ages, Types
<1>17. CASE BacksUp  BY <1>1, <1>17 DEF BacksUp, Types
<1>18. CASE RestoresBackup  BY <1>1, <1>18 DEF RestoresBackup, Types
<1> QED
  BY <1>3, <1>4, <1>5, <1>6, <1>7, <1>8, <1>9, <1>10, <1>11, <1>12, <1>13, <1>14, <1>15,
     <1>16, <1>17, <1>18 DEF ReadStateNext

----------------------------------------------------------------------------
\* Where the flush is, and the slots.

LEMMA FlushNext ==
  ASSUME Types, Flush, Owned, ReadStateNext
  PROVE  Flush'
<1>1. /\ readJournal \in Journal /\ relay \in [Slots -> Slot] /\ flush \in Task
  BY DEF Types
<1>2. AtRest.stage = "rest" /\ ~AtRest.recover /\ ~AtRest.expired /\ AtRest.todo = {}
  BY DEF AtRest
<1>3. CASE \E k \in Markers, v \in 1..MaxValue : Marks(k, v)
  <2>1. readJournal'.pending = readJournal.pending /\ readJournal'.slots = readJournal.slots
    BY <1>1, <1>3 DEF Marks, Journal
  <2> QED  BY <1>3, <2>1 DEF Marks, Flush
<1>4. CASE MarksUnread
  <2>1. readJournal'.pending = readJournal.pending /\ readJournal'.slots = readJournal.slots
    BY <1>1, <1>4 DEF MarksUnread, Journal
  <2> QED  BY <1>4, <2>1 DEF MarksUnread, Flush
<1>5. CASE Begins
  <2>1. /\ flush'.stage = IF readJournal.pending # NoOperation THEN "publish" ELSE "read"
        /\ flush'.todo = {} /\ ~flush'.expired
        /\ readJournal.pending = NoOperation => ~flush'.recover
    BY <1>5 DEF Begins, AtRest
  <2> QED  BY <1>5, <2>1 DEF Begins, Flush, Sending
<1>6. CASE Publishes
  <2>1. flush'.stage = "sent" /\ flush'.todo = flush.todo /\ flush'.recover = flush.recover
        /\ flush'.expired = flush.expired
    BY <1>1, <1>6 DEF Publishes, Task
  <2> QED  BY <1>6, <2>1 DEF Publishes, Flush, Sending
<1>7. CASE Accepted
  <2>1. flush'.stage = "observe" /\ flush'.todo = flush.todo /\ flush'.recover = flush.recover
        /\ flush'.expired = flush.expired
    BY <1>1, <1>7 DEF Accepted, Task
  <2> QED  BY <1>7, <2>1 DEF Accepted, Flush, Sending
<1>8. CASE Expires
  <2>1. flush'.stage = "observe" /\ flush'.todo = flush.todo /\ flush'.recover = flush.recover
    BY <1>1, <1>8 DEF Expires, Task
  <2> QED  BY <1>8, <2>1 DEF Expires, Flush, Sending
<1>9. CASE Observes
  <2>1. readJournal.pending.event.slot \in Slots
    BY <1>1, <1>9 DEF Observes, Flush, Sending, Journal, PendingOperations, Events
  <2>2. /\ flush'.stage = "check" /\ flush'.todo = flush.todo /\ flush'.recover = flush.recover
        /\ flush'.expired = flush.expired
        /\ flush'.seen[readJournal.pending.event.slot] = relay[readJournal.pending.event.slot]
    BY <1>1, <1>9, <2>1, AtRestTyped DEF Observes, Task
  <2> QED  BY <1>9, <2>2 DEF Observes, Flush, Sending
<1>10. CASE Checks
  <2>1. PICK own : readJournal' = Answered(own) /\ flush' = Resumes(Answered(own))
    BY <1>10 DEF Checks
  <2>2. /\ flush'.stage \in {"rest", "read", "queue"}
        /\ flush'.stage = "queue" => ~flush'.recover /\ flush'.expired = flush.expired
        /\ flush'.stage # "queue" => flush'.todo = {} /\ ~flush'.expired /\ ~flush'.recover
        /\ flush'.stage = "queue" => ~flush.recover
    BY <1>1, <2>1, <1>2 DEF Resumes, Task, AtRest
  <2> QED  BY <1>10, <2>2 DEF Checks, Flush, Sending
<1>11. CASE Reads
  <2>1. /\ flush'.stage = "plan" /\ flush'.todo = flush.todo /\ flush'.recover = flush.recover
        /\ flush'.expired = flush.expired
        /\ flush'.seen = [s \in Slots |-> IF s \in readJournal.slots THEN relay[s] ELSE Blank]
    BY <1>1, <1>11 DEF Reads, Task
  <2> QED  BY <1>11, <2>1 DEF Reads, Flush, Sending
<1>12. CASE Plans
  <2>1. PICK own, place : PlansAs(own, place)  BY <1>12 DEF Plans
  <2>2. CASE flush' = AtRest  BY <1>2, <1>12, <2>2 DEF Plans, Flush, Sending
  <2>3. CASE flush' = [flush EXCEPT !.stage = "queue", !.revision = readJournal.revision,
                                    !.todo = Plan(own, place)]
    <3>1. /\ flush'.stage = "queue" /\ flush'.recover = flush.recover
          /\ flush'.expired = flush.expired
      BY <1>1, <2>3 DEF Task
    <3> QED  BY <1>12, <3>1 DEF Plans, Flush, Sending
  <2> QED  BY <2>1, <2>2, <2>3 DEF PlansAs
<1>13. CASE \E b \in flush.todo : SavesPending(b)
  <2>1. PICK b \in flush.todo : SavesPending(b)  BY <1>13
  <2>2. /\ readJournal'.pending.event = b.event
        /\ readJournal'.pending \in PendingOperations
    <3>1. /\ b.event \in Events /\ flush.revision \in Nat /\ readJournal.accepted \in Nat
      BY <1>1 DEF Task, Journal
    <3> QED  BY <1>1, <2>1, <3>1 DEF SavesPending, Journal, PendingOperations
  <2>3. /\ flush'.stage = "publish" /\ flush'.todo = flush.todo \ {b}
        /\ flush'.recover = flush.recover /\ flush'.expired = flush.expired
    BY <1>1, <2>1 DEF SavesPending, Task
  <2> QED  BY <2>1, <2>2, <2>3, ReadStateAssumption DEF SavesPending, Flush, Sending
<1>14. CASE Fails  BY <1>2, <1>14 DEF Fails, Flush, Sending
<1>15. CASE \E e \in flight : ArrivesLate(e)
  BY <1>1, <1>15 DEF ArrivesLate, Flush
<1>16. CASE Ages  BY <1>16 DEF Ages, Flush
<1>17. CASE BacksUp  BY <1>17 DEF BacksUp, Flush
<1>18. CASE RestoresBackup  BY <1>18 DEF RestoresBackup, Flush, Sending
<1> QED
  BY <1>3, <1>4, <1>5, <1>6, <1>7, <1>8, <1>9, <1>10, <1>11, <1>12, <1>13, <1>14, <1>15,
     <1>16, <1>17, <1>18 DEF ReadStateNext

\* The blobs of a plan are for different slots and disjoint.
LEMMA PlanDisjoint ==
  ASSUME NEW own \in Values, NEW place, NEW b \in Plan(own, place), NEW o \in Plan(own, place)
  PROVE  /\ b.event.slot \in readJournal.slots \cup Fresh(place)
         /\ o.event.slot = b.event.slot => o = b
         /\ b # o => \A k \in Markers : b.event.values[k] = 0 \/ o.event.values[k] = 0
<1>1. PICK s \in Changed(own, place) :
        b = [event |-> Signed(own, place, s), drops |-> Drops(own, place, s)]
  BY DEF Plan
<1>2. PICK t \in Changed(own, place) :
        o = [event |-> Signed(own, place, t), drops |-> Drops(own, place, t)]
  BY DEF Plan
<1>3. b.event.slot = s /\ b.event.values = Blob(own, place, s)  BY <1>1 DEF Signed
<1>4. o.event.slot = t /\ o.event.values = Blob(own, place, t)  BY <1>2 DEF Signed
<1>5. s # t => \A k \in Markers : Blob(own, place, s)[k] = 0 \/ Blob(own, place, t)[k] = 0
  BY DEF Blob
<1> QED  BY <1>1, <1>2, <1>3, <1>4, <1>5 DEF Changed

\* A published event only reaches a slot of the journal.
LEMMA ReplacesOne ==
  ASSUME relay \in [Slots -> Slot], NEW e \in Events, Replaces(e)
  PROVE  /\ \A s \in Slots : s # e.slot => relay'[s] = relay[s]
         /\ relay'[e.slot] = relay[e.slot] \/ relay'[e.slot].values = e.values
BY DEF Replaces, Events

LEMMA OwnedNext ==
  ASSUME Types, Flush, Owned, ReadStateNext
  PROVE  Owned'
<1>1. /\ readJournal \in Journal /\ relay \in [Slots -> Slot] /\ flush \in Task
      /\ flight \in SUBSET Events /\ made \in SUBSET Slots
  BY DEF Types
<1>2. AtRest.stage = "rest" /\ AtRest.todo = {}  BY DEF AtRest
<1>3. CASE \E k \in Markers, v \in 1..MaxValue : Marks(k, v)
  <2>1. readJournal'.pending = readJournal.pending /\ readJournal'.slots = readJournal.slots
    BY <1>1, <1>3 DEF Marks, Journal
  <2> QED  BY <1>3, <2>1 DEF Marks, Owned
<1>4. CASE MarksUnread
  <2>1. readJournal'.pending = readJournal.pending /\ readJournal'.slots = readJournal.slots
    BY <1>1, <1>4 DEF MarksUnread, Journal
  <2> QED  BY <1>4, <2>1 DEF MarksUnread, Owned
<1>5. CASE Begins
  <2>1. flush'.todo = {}  BY <1>5 DEF Begins, AtRest
  <2> QED  BY <1>5, <2>1 DEF Begins, Owned
<1>6. CASE Publishes
  <2>1. flush'.todo = flush.todo  BY <1>1, <1>6 DEF Publishes, Task
  <2> QED  BY <1>6, <2>1 DEF Publishes, Owned, Sending
<1>7. CASE Accepted
  <2>1. flush'.todo = flush.todo  BY <1>1, <1>7 DEF Accepted, Task
  <2>2. readJournal.pending \in PendingOperations  BY <1>1, <1>7 DEF Accepted, Flush, Sending, Journal
  <2>3. \A s \in Slots \ made : relay'[s] = Blank
    BY <1>1, <1>7, <2>2, ReplacesOne, ReadStateAssumption
    DEF Accepted, Owned, PendingOperations
  <2> QED  BY <1>7, <2>1, <2>3 DEF Accepted, Owned, Sending
<1>8. CASE Expires
  <2>1. flush'.todo = flush.todo  BY <1>1, <1>8 DEF Expires, Task
  <2> QED  BY <1>8, <2>1 DEF Expires, Owned, Sending
<1>9. CASE Observes
  <2>1. flush'.todo = flush.todo  BY <1>1, <1>9 DEF Observes, Task
  <2> QED  BY <1>9, <2>1 DEF Observes, Owned, Sending
<1>10. CASE Checks
  <2>1. PICK own : readJournal' = Answered(own) /\ flush' = Resumes(Answered(own))
    BY <1>10 DEF Checks
  <2>2. /\ flush'.todo \in {{}, flush.todo} /\ flush'.stage \notin Sending
    BY <1>1, <2>1, <1>2 DEF Resumes, Task, AtRest, Sending
  <2>3. /\ readJournal'.slots = readJournal.slots
        /\ readJournal'.pending \in {NoOperation, readJournal.pending}
    BY <1>1, <2>1 DEF Answered, Journal
  <2> QED  BY <1>10, <2>2, <2>3 DEF Checks, Owned
<1>11. CASE Reads
  <2>1. flush'.todo = flush.todo /\ flush'.stage = "plan"  BY <1>1, <1>11 DEF Reads, Task
  <2> QED  BY <1>11, <2>1 DEF Reads, Owned, Sending
<1>12. CASE Plans
  <2>a. PICK own \in Recovered(readJournal.own, flush.seen) :
          \E place \in Placements(own, flush.seen, readJournal.slots) : PlansAs(own, place)
    BY <1>12 DEF Plans
  <2>1. PICK place \in Placements(own, flush.seen, readJournal.slots) : PlansAs(own, place)
    BY <2>a
  <2>2. own \in Values
    BY <1>1, RecoveredKeeps DEF Types, Journal, Task
  <2>3. made' = made \cup Fresh(place)  BY <2>1 DEF PlansAs
  <2>4. CASE Changed(own, place) = {}
    <3>1. /\ flush' = AtRest
          /\ readJournal' = [readJournal EXCEPT !.own = own, !.pending = NoOperation,
                                               !.accepted = readJournal.revision]
      BY <2>1, <2>4 DEF PlansAs
    <3>2. readJournal'.slots = readJournal.slots /\ readJournal'.pending = NoOperation
      BY <1>1, <3>1 DEF Journal
    <3> QED  BY <1>2, <1>12, <2>3, <3>1, <3>2 DEF Plans, Owned
  <2>5. CASE Changed(own, place) # {}
    <3>1. /\ flush'.todo = Plan(own, place) /\ flush'.stage = "queue"
          /\ readJournal'.slots = readJournal.slots \cup Fresh(place)
          /\ readJournal'.pending = readJournal.pending
      BY <1>1, <2>1, <2>5 DEF PlansAs, Task, Journal
    <3>2. \A b \in Plan(own, place) :
            /\ b.event.slot \in readJournal'.slots
            /\ \A o \in Plan(own, place) : o.event.slot = b.event.slot => o = b
      BY <2>2, <3>1, PlanDisjoint
    <3> QED  BY <1>12, <2>3, <3>1, <3>2 DEF Plans, Owned, Sending
  <2> QED  BY <2>4, <2>5
<1>13. CASE \E b \in flush.todo : SavesPending(b)
  <2>1. PICK b \in flush.todo : SavesPending(b)  BY <1>13
  <2>2. /\ readJournal'.pending.event = b.event /\ readJournal'.slots = readJournal.slots
        /\ flush'.todo = flush.todo \ {b}
    BY <1>1, <2>1 DEF SavesPending, Journal, Task
  <2> QED  BY <2>1, <2>2 DEF SavesPending, Owned
<1>14. CASE Fails  BY <1>2, <1>14 DEF Fails, Owned
<1>15. CASE \E e \in flight : ArrivesLate(e)
  <2>1. PICK e \in flight : ArrivesLate(e)  BY <1>15
  <2>2. e \in Events /\ e = readJournal.pending.event /\ readJournal.pending # NoOperation
    BY <1>1 DEF Flush
  <2>3. \A s \in Slots \ made : relay'[s] = Blank
    BY <1>1, <2>1, <2>2, ReplacesOne DEF ArrivesLate, Owned
  <2> QED  BY <2>1, <2>3 DEF ArrivesLate, Owned
<1>16. CASE Ages  BY <1>16 DEF Ages, Owned
<1>17. CASE BacksUp  BY <1>17 DEF BacksUp, Owned
<1>18. CASE RestoresBackup
  BY <1>18 DEF RestoresBackup, Owned, Flush
<1> QED
  BY <1>3, <1>4, <1>5, <1>6, <1>7, <1>8, <1>9, <1>10, <1>11, <1>12, <1>13, <1>14, <1>15,
     <1>16, <1>17, <1>18 DEF ReadStateNext

----------------------------------------------------------------------------
\* One slot carries a marker, and no event takes one back.

\* A step that publishes nothing and plans nothing.
LEMMA SingleQuiet ==
  ASSUME Types, Single, relay' = relay, floor' \in Nat, floor <= floor',
         readJournal'.slots \subseteq readJournal.slots,
         readJournal'.pending \in {NoOperation, readJournal.pending},
         flush'.todo \in {{}, flush.todo},
         flush'.stage \in Sending =>
           flush'.todo = {} \/ (flush.stage \in Sending /\ readJournal'.pending = readJournal.pending)
  PROVE  Single'
<1>1. /\ floor \in Nat /\ readJournal.slots \subseteq Slots
      /\ readJournal.pending \in PendingOperations \cup {NoOperation}
      /\ \A b \in flush.todo : b.event \in Events
  BY DEF Types, Journal, Task
<1>2. \A s \in Slots, k \in Markers : relay[s].values[k] \in Nat
  BY DEF Types, Slot, Values
<1>3. ASSUME NEW e \in Events, Succeeds(e)
      PROVE  \A k \in Markers :
               /\ relay[e.slot].values[k] <= floor' \/ relay[e.slot].values[k] <= e.values[k]
               /\ e.values[k] > 0 =>
                    \A s \in readJournal'.slots : s # e.slot => relay[s].values[k] = 0
  BY <1>1, <1>2, <1>3 DEF Succeeds, Events
<1>4. readJournal'.pending # NoOperation =>
        readJournal.pending # NoOperation /\ readJournal'.pending = readJournal.pending
        /\ readJournal.pending.event \in Events
  BY <1>1 DEF PendingOperations
<1>5. \A k \in Markers, s, t \in readJournal'.slots :
        s # t => relay[s].values[k] = 0 \/ relay[t].values[k] = 0
  BY DEF Single
<1>6. readJournal'.pending # NoOperation => Succeeds(readJournal.pending.event)'
  BY <1>3, <1>4 DEF Single, Succeeds
<1>7. \A b \in flush'.todo : b.event \in Events /\ Succeeds(b.event)
  BY <1>1 DEF Single
<1>8. \A b \in flush'.todo, k \in Markers :
        /\ relay[b.event.slot].values[k] <= floor'
             \/ relay[b.event.slot].values[k] <= b.event.values[k]
        /\ b.event.values[k] > 0 =>
             \A s \in readJournal'.slots : s # b.event.slot => relay[s].values[k] = 0
  BY <1>3, <1>7
<1>9. /\ \A b, o \in flush'.todo, k \in Markers :
           b # o => b.event.values[k] = 0 \/ o.event.values[k] = 0
      /\ flush'.stage \in Sending => \A b \in flush'.todo, k \in Markers :
           b.event.values[k] = 0 \/ readJournal'.pending.event.values[k] = 0
  BY DEF Single
<1> QED  BY <1>4, <1>5, <1>6, <1>8, <1>9 DEF Single, Succeeds

\* The event of the pending operation reaches the relay.
LEMMA SingleReplaces ==
  ASSUME Types, Owned, Single, readJournal.pending # NoOperation,
         Replaces(readJournal.pending.event), UNCHANGED <<readJournal, floor>>,
         flush'.todo = flush.todo, flush'.stage \in Sending => flush.stage \in Sending,
         flush.stage \in Sending \/ flush.todo = {}
  PROVE  Single'
<1> DEFINE e == readJournal.pending.event
<1>1. /\ relay \in [Slots -> Slot] /\ readJournal.slots \subseteq Slots /\ e \in Events
      /\ readJournal.pending \in PendingOperations
      /\ \A b \in flush.todo : b.event \in Events
  BY DEF Types, Journal, Task, PendingOperations
<1>2. /\ \A s \in Slots, k \in Markers : relay[s].values[k] \in Nat
      /\ \A k \in Markers : e.values[k] \in Nat
  BY <1>1 DEF Slot, Values, Events
<1>3. /\ \A s \in Slots : s # e.slot => relay'[s] = relay[s]
      /\ relay'[e.slot] = relay[e.slot] \/ relay'[e.slot].values = e.values
  BY <1>1, ReplacesOne
<1>4. Succeeds(e)  BY DEF Single
<1>5. \A k \in Markers, s, t \in readJournal.slots :
        s # t => relay'[s].values[k] = 0 \/ relay'[t].values[k] = 0
  BY <1>1, <1>2, <1>3, <1>4 DEF Single, Succeeds
<1>6. Succeeds(e)'
  BY <1>1, <1>2, <1>3, <1>4 DEF Succeeds
<1>7. ASSUME NEW b \in flush.todo
      PROVE  \A k \in Markers :
        /\ relay'[b.event.slot].values[k] <= floor
             \/ relay'[b.event.slot].values[k] <= b.event.values[k]
        /\ b.event.values[k] > 0 =>
             \A s \in readJournal.slots : s # b.event.slot => relay'[s].values[k] = 0
  <2>1. b.event.slot # e.slot /\ b.event.slot \in readJournal.slots /\ Succeeds(b.event)
    BY <1>7 DEF Owned, Single
  <2>2. \A k \in Markers : b.event.values[k] = 0 \/ e.values[k] = 0
    BY <1>7 DEF Single
  <2>3. \A k \in Markers : b.event.values[k] \in Nat  BY <1>1 DEF Events, Values
  <2> QED  BY <1>1, <1>2, <1>3, <2>1, <2>2, <2>3 DEF Succeeds
<1> QED  BY <1>5, <1>6, <1>7 DEF Single, Succeeds

\* Packing keeps a marker where the relay has it, so a planned event takes none back.
LEMMA PlanSucceeds ==
  ASSUME Types, Flush, Owned, Single, flush.stage = "plan",
         NEW own \in Recovered(readJournal.own, flush.seen),
         NEW place \in Placements(own, flush.seen, readJournal.slots),
         NEW b \in Plan(own, place), NEW k \in Markers
  PROVE  /\ relay[b.event.slot].values[k] <= floor
              \/ relay[b.event.slot].values[k] <= b.event.values[k]
         /\ b.event.values[k] > 0 =>
              \A s \in readJournal.slots \cup Fresh(place) :
                s # b.event.slot => relay[s].values[k] = 0
<1>1. /\ relay \in [Slots -> Slot] /\ readJournal.slots \subseteq Slots /\ floor \in Nat
      /\ readJournal.slots \subseteq made /\ flush.seen \in [Slots -> Slot]
      /\ readJournal.own \in Values
      /\ flush.seen = [s \in Slots |-> IF s \in readJournal.slots THEN relay[s] ELSE Blank]
  BY DEF Types, Journal, Task, Owned, Flush
<1>2. /\ own \in Values
      /\ \A s \in Slots : flush.seen[s].values[k] <= floor \/ flush.seen[s].values[k] <= own[k]
  BY <1>1, RecoveredKeeps
<1>3. /\ place \in [{j \in Markers : own[j] > 0} -> readJournal.slots \cup (Slots \ made)]
      /\ own[k] > 0 /\ (\E s \in readJournal.slots : flush.seen[s].values[k] > 0) =>
           place[k] \in readJournal.slots /\ flush.seen[place[k]].values[k] > 0
  BY <1>2, PlacedAtHome
<1>4. PICK t \in Changed(own, place) :
        b = [event |-> Signed(own, place, t), drops |-> Drops(own, place, t)]
  BY DEF Plan
<1>5. b.event.slot = t /\ b.event.values = Blob(own, place, t)  BY <1>4 DEF Signed
<1>6. Fresh(place) \subseteq Slots \ made /\ t \in readJournal.slots \cup Fresh(place)
  BY <1>1, <1>3 DEF Fresh, Changed
<1>7. \A s \in Fresh(place) : relay[s].values[k] = 0
  BY <1>6 DEF Owned, Blank, Nothing
<1>8. \A s \in Slots : relay[s].values[k] \in Nat
  BY <1>1 DEF Slot, Values
<1>9. own[k] \in Nat  BY <1>2 DEF Values
<1>10. \A s \in readJournal.slots : relay[s] = flush.seen[s]  BY <1>1
\* The slot that carries the marker is its home.
<1>11. ASSUME NEW s \in readJournal.slots, relay[s].values[k] > 0, own[k] > 0
       PROVE  place[k] = s
  <2>1. place[k] \in readJournal.slots /\ relay[place[k]].values[k] > 0
    BY <1>3, <1>10, <1>11
  <2> QED  BY <1>1, <1>8, <1>11, <2>1 DEF Single
<1>12. b.event.values[k] > 0 => own[k] > 0 /\ place[k] = t
  BY <1>5 DEF Blob
<1>13. own[k] > 0 /\ place[k] = t => b.event.values[k] = own[k]
  BY <1>3, <1>5 DEF Blob
<1>14. relay[t].values[k] <= floor \/ relay[t].values[k] <= b.event.values[k]
  <2>1. CASE t \in Fresh(place)  BY <1>1, <1>7, <2>1
  <2>2. CASE t \in readJournal.slots /\ relay[t].values[k] > floor
    <3>1. relay[t].values[k] <= own[k]  BY <1>1, <1>2, <1>8, <1>10, <2>2
    <3>2. own[k] > 0 /\ relay[t].values[k] > 0  BY <1>1, <1>8, <1>9, <2>2, <3>1
    <3> QED  BY <1>11, <1>13, <2>2, <3>1, <3>2
  <2> QED  BY <1>1, <1>6, <1>8, <2>1, <2>2
<1>15. ASSUME b.event.values[k] > 0, NEW s \in readJournal.slots \cup Fresh(place), s # t
       PROVE  relay[s].values[k] = 0
  <2>1. CASE s \in Fresh(place)  BY <1>7, <2>1
  <2>2. CASE s \in readJournal.slots  BY <1>1, <1>8, <1>11, <1>12, <1>15, <2>2
  <2> QED  BY <1>15, <2>1, <2>2
<1> QED  BY <1>5, <1>14, <1>15

LEMMA SinglePlans ==
  ASSUME Types, Flush, Owned, Single, Plans
  PROVE  Single'
<1>1. readJournal \in Journal /\ flush \in Task /\ floor \in Nat /\ relay \in [Slots -> Slot]
  BY DEF Types
<1>2. flush.stage = "plan" /\ flush.todo = {} /\ relay' = relay /\ floor' = floor
  BY DEF Plans, Flush
<1>a. PICK own \in Recovered(readJournal.own, flush.seen) :
        \E place \in Placements(own, flush.seen, readJournal.slots) : PlansAs(own, place)
  BY DEF Plans
<1>3. PICK place \in Placements(own, flush.seen, readJournal.slots) : PlansAs(own, place)
  BY <1>a
<1>4. own \in Values  BY <1>1, RecoveredKeeps DEF Journal, Task
<1>5. CASE Changed(own, place) = {}
  <2>1. /\ flush' = AtRest
        /\ readJournal' = [readJournal EXCEPT !.own = own, !.pending = NoOperation,
                                             !.accepted = readJournal.revision]
    BY <1>3, <1>5 DEF PlansAs
  <2>2. /\ readJournal'.slots = readJournal.slots /\ readJournal'.pending = NoOperation
        /\ flush'.todo = {}
    BY <1>1, <2>1 DEF Journal, AtRest
  <2> QED  BY <1>1, <1>2, <2>2, SingleQuiet
<1>6. CASE Changed(own, place) # {}
  <2>1. /\ flush'.todo = Plan(own, place) /\ flush'.stage = "queue"
        /\ readJournal'.slots = readJournal.slots \cup Fresh(place)
        /\ readJournal'.pending = readJournal.pending
    BY <1>1, <1>3, <1>6 DEF PlansAs, Task, Journal
  <2>2. /\ Fresh(place) \subseteq Slots \ made /\ readJournal.slots \subseteq Slots
    BY <1>1, <1>4, PlanTyped, PlacedAtHome DEF Fresh, Owned, Journal, Task
  <2>3. \A s \in Fresh(place), k \in Markers : relay[s].values[k] = 0
    BY <2>2 DEF Owned, Blank, Nothing
  <2>4. \A k \in Markers, s, t \in readJournal'.slots :
          s # t => relay[s].values[k] = 0 \/ relay[t].values[k] = 0
    BY <2>1, <2>3 DEF Single
  <2>5. readJournal'.pending # NoOperation => Succeeds(readJournal.pending.event)'
    BY <1>2, <2>1, <2>3 DEF Single, Succeeds
  <2>6. \A b \in Plan(own, place) : Succeeds(b.event)'
    BY <1>2, <2>1, PlanSucceeds DEF Succeeds
  <2>7. \A b, o \in Plan(own, place), k \in Markers :
          b # o => b.event.values[k] = 0 \/ o.event.values[k] = 0
    BY <1>4, PlanDisjoint
  <2> QED  BY <1>2, <2>1, <2>4, <2>5, <2>6, <2>7 DEF Single, Sending, Succeeds
<1> QED  BY <1>5, <1>6

LEMMA SingleNext ==
  ASSUME Types, Flush, Owned, Single, ReadStateNext
  PROVE  Single'
<1>1. /\ readJournal \in Journal /\ flush \in Task /\ floor \in Nat
      /\ floor <= floor /\ readJournal.slots \subseteq readJournal.slots
  BY DEF Types
<1>2. AtRest.stage = "rest" /\ AtRest.todo = {}  BY DEF AtRest
<1>3. CASE \E k \in Markers, v \in 1..MaxValue : Marks(k, v)
  <2>1. readJournal'.pending = readJournal.pending /\ readJournal'.slots = readJournal.slots
    BY <1>1, <1>3 DEF Marks, Journal
  <2> QED  BY <1>1, <1>3, <2>1, SingleQuiet DEF Marks
<1>4. CASE MarksUnread
  <2>1. readJournal'.pending = readJournal.pending /\ readJournal'.slots = readJournal.slots
    BY <1>1, <1>4 DEF MarksUnread, Journal
  <2> QED  BY <1>1, <1>4, <2>1, SingleQuiet DEF MarksUnread
<1>5. CASE Begins
  <2>1. flush'.todo = {}  BY <1>5 DEF Begins, AtRest
  <2> QED  BY <1>1, <1>5, <2>1, SingleQuiet DEF Begins
<1>6. CASE Publishes
  <2>1. flush'.todo = flush.todo /\ flush.stage \in Sending
    BY <1>1, <1>6 DEF Publishes, Task, Sending
  <2> QED  BY <1>1, <1>6, <2>1, SingleQuiet DEF Publishes
<1>7. CASE Accepted
  <2>1. flush'.todo = flush.todo /\ flush.stage \in Sending
    BY <1>1, <1>7 DEF Accepted, Task, Sending
  <2> QED  BY <1>7, <2>1, SingleReplaces DEF Accepted, Flush
<1>8. CASE Expires
  <2>1. flush'.todo = flush.todo /\ flush.stage \in Sending
    BY <1>1, <1>8 DEF Expires, Task, Sending
  <2> QED  BY <1>1, <1>8, <2>1, SingleQuiet DEF Expires
<1>9. CASE Observes
  <2>1. flush'.todo = flush.todo /\ flush.stage \in Sending
    BY <1>1, <1>9 DEF Observes, Task, Sending
  <2> QED  BY <1>1, <1>9, <2>1, SingleQuiet DEF Observes
<1>10. CASE Checks
  <2>1. PICK own : readJournal' = Answered(own) /\ flush' = Resumes(Answered(own))
    BY <1>10 DEF Checks
  <2>2. /\ flush'.todo \in {{}, flush.todo} /\ flush'.stage \notin Sending
    BY <1>1, <2>1, <1>2 DEF Resumes, Task, AtRest, Sending
  <2>3. /\ readJournal'.slots = readJournal.slots
        /\ readJournal'.pending \in {NoOperation, readJournal.pending}
    BY <1>1, <2>1 DEF Answered, Journal
  <2> QED  BY <1>1, <1>10, <2>2, <2>3, SingleQuiet DEF Checks
<1>11. CASE Reads
  <2>1. flush'.todo = flush.todo /\ flush'.stage = "plan"  BY <1>1, <1>11 DEF Reads, Task
  <2> QED  BY <1>1, <1>11, <2>1, SingleQuiet DEF Reads, Sending
<1>12. CASE Plans  BY <1>12, SinglePlans
<1>13. CASE \E b \in flush.todo : SavesPending(b)
  <2>1. PICK b \in flush.todo : SavesPending(b)  BY <1>13
  <2>2. /\ readJournal'.pending.event = b.event /\ readJournal'.slots = readJournal.slots
        /\ flush'.todo = flush.todo \ {b}
    BY <1>1, <2>1 DEF SavesPending, Journal, Task
  <2> QED  BY <2>1, <2>2 DEF SavesPending, Single, Succeeds
<1>14. CASE Fails  BY <1>1, <1>2, <1>14, SingleQuiet DEF Fails
<1>15. CASE \E e \in flight : ArrivesLate(e)
  <2>1. PICK e \in flight : ArrivesLate(e)  BY <1>15
  <2>2. e = readJournal.pending.event /\ readJournal.pending # NoOperation
    BY DEF Flush
  <2>3. flush.stage \in Sending \/ flush.todo = {}
    BY <1>1 DEF Flush, Sending, Task, Stages
  <2> QED  BY <2>1, <2>2, <2>3, SingleReplaces DEF ArrivesLate
<1>16. CASE Ages  BY <1>1, <1>16, SingleQuiet DEF Ages
<1>17. CASE BacksUp  BY <1>1, <1>17, SingleQuiet DEF BacksUp
<1>18. CASE RestoresBackup
  <2>1. readJournal'.slots \subseteq readJournal.slots /\ readJournal'.pending = NoOperation
    BY <1>18 DEF RestoresBackup, Owned
  <2> QED  BY <1>1, <1>18, <2>1, SingleQuiet DEF RestoresBackup, Sending
<1> QED
  BY <1>3, <1>4, <1>5, <1>6, <1>7, <1>8, <1>9, <1>10, <1>11, <1>12, <1>13, <1>14, <1>15,
     <1>16, <1>17, <1>18 DEF ReadStateNext

----------------------------------------------------------------------------
\* What the relay carries, it keeps.

LEMMA CarriedNext ==
  ASSUME Types, Flush, Owned, Single, ReadStateNext, NEW k \in Markers, NEW v \in 1..MaxValue,
         Carried(k, v)
  PROVE  Carried(k, v)'
<1>1. /\ readJournal \in Journal /\ relay \in [Slots -> Slot] /\ floor \in Nat
      /\ v \in Nat /\ MaxValue \in Nat
  BY ReadStateAssumption DEF Types
<1>2. \A s \in Slots : relay[s].values[k] \in Nat  BY <1>1 DEF Slot, Values
<1>3. CASE UNCHANGED relay
  <2>a. floor' = floor \/ floor' = floor + 1
    BY DEF ReadStateNext, Marks, MarksUnread, Begins, Publishes, Accepted, Expires,
         Observes, Checks, Reads, Plans, SavesPending, Fails, ArrivesLate, Ages, BacksUp,
         RestoresBackup
  <2>1. floor' \in Nat /\ floor <= floor'  BY <1>1, <2>a
  <2> QED  BY <1>1, <1>2, <1>3, <2>1 DEF Carried
<1>4. CASE Accepted \/ \E e \in flight : ArrivesLate(e)
  <2> DEFINE e == readJournal.pending.event
  <2>1. readJournal.pending # NoOperation /\ Replaces(e) /\ floor' = floor
    BY <1>4 DEF Accepted, ArrivesLate, Flush, Sending
  <2>2. e \in Events /\ Succeeds(e)
    BY <1>1, <2>1 DEF Single, Journal, PendingOperations
  <2>3. /\ \A s \in Slots : s # e.slot => relay'[s] = relay[s]
        /\ relay'[e.slot] = relay[e.slot] \/ relay'[e.slot].values = e.values
    BY <1>1, <2>1, <2>2, ReplacesOne
  <2>4. relay[e.slot].values[k] <= floor \/ relay[e.slot].values[k] <= e.values[k]
    BY <2>2 DEF Succeeds
  <2>5. e.slot \in Slots /\ e.values[k] \in Nat  BY <2>2 DEF Events, Values
  <2> HIDE DEF e
  <2>6. CASE v <= floor  BY <2>1, <2>6 DEF Carried
  <2>7. CASE ~(v <= floor)
    <3>1. PICK s \in Slots : relay[s].values[k] >= v  BY <2>7 DEF Carried
    <3>2. relay'[s].values[k] >= v
      BY <1>1, <1>2, <2>3, <2>4, <2>5, <2>7, <3>1
    <3> QED  BY <3>2 DEF Carried
  <2> QED  BY <2>6, <2>7
<1>5. UNCHANGED relay \/ Accepted \/ \E e \in flight : ArrivesLate(e)
  BY DEF ReadStateNext, Marks, MarksUnread, Begins, Publishes, Expires,
       Observes, Checks, Reads, Plans, SavesPending, Fails, Ages, BacksUp, RestoresBackup
<1> QED  BY <1>3, <1>4, <1>5

----------------------------------------------------------------------------
\* What is acknowledged is on the relay.

LEMMA AcknowledgedNext ==
  ASSUME Types, Flush, Owned, Acknowledged, ReadStateNext
  PROVE  Acknowledged'
<1>1. /\ readJournal \in Journal /\ backup \in Journal /\ flush \in Task
      /\ readJournal.revision \in Nat /\ readJournal.accepted \in Nat
  BY DEF Types, Journal
<1>2. AtRest.stage = "rest" /\ AtRest.todo = {}  BY DEF AtRest
<1>3. CASE \E k \in Markers, v \in 1..MaxValue : Marks(k, v)
  <2>1. /\ readJournal'.pending = readJournal.pending
        /\ readJournal'.revision = readJournal.revision + 1
        /\ readJournal'.accepted = readJournal.accepted
    BY <1>1, <1>3 DEF Marks, Journal
  <2>2. /\ readJournal.pending # NoOperation => readJournal.pending.revision \in Nat
        /\ flush.revision \in Nat
    BY <1>1 DEF Journal, PendingOperations, Task
  <2> QED  BY <1>1, <1>3, <2>1, <2>2 DEF Marks, Acknowledged
<1>4. CASE MarksUnread
  <2>1. /\ readJournal'.pending = readJournal.pending
        /\ readJournal'.revision = readJournal.revision + 1
        /\ readJournal'.accepted \in {readJournal.accepted, readJournal.accepted + 1}
    BY <1>1, <1>4 DEF MarksUnread, Journal
  <2>2. /\ readJournal.pending # NoOperation => readJournal.pending.revision \in Nat
        /\ flush.revision \in Nat
    BY <1>1 DEF Journal, PendingOperations, Task
  <2> QED  BY <1>1, <1>4, <2>1, <2>2 DEF MarksUnread, Acknowledged
<1>5. CASE Begins
  <2>1. flush'.todo = {} /\ flush'.stage # "queue"  BY <1>5 DEF Begins, AtRest
  <2> QED  BY <1>5, <2>1 DEF Begins, Acknowledged
<1>6. CASE Publishes \/ Accepted \/ Expires \/ Observes \/ Reads
  <2>1. /\ flush'.todo = flush.todo /\ flush'.stage # "queue" /\ flush'.revision = flush.revision
        /\ UNCHANGED <<readJournal, backup>>
    BY <1>1, <1>6 DEF Publishes, Accepted, Expires, Observes, Reads, Task
  <2> QED  BY <2>1 DEF Acknowledged
<1>7. CASE Checks
  <2>1. PICK own : readJournal' = Answered(own) /\ flush' = Resumes(Answered(own))
    BY <1>7 DEF Checks
  <2>2. \/ flush'.todo = {} /\ flush'.stage # "queue"
        \/ flush'.revision = flush.revision /\ flush.todo # {}
    BY <1>1, <2>1, <1>2 DEF Resumes, Task, AtRest
  <2>3. /\ readJournal'.revision = readJournal.revision
        /\ readJournal'.pending \in {NoOperation, readJournal.pending}
        /\ readJournal'.accepted \in {readJournal.accepted, readJournal.pending.revision}
    BY <1>1, <2>1 DEF Answered, Journal, Later
  <2>4. readJournal.pending # NoOperation  BY <1>7 DEF Checks, Flush, Sending
  <2> QED  BY <1>7, <2>2, <2>3, <2>4 DEF Checks, Acknowledged
<1>8. CASE Plans
  <2>1. PICK own, place : PlansAs(own, place)  BY <1>8 DEF Plans
  <2>2. CASE Changed(own, place) = {}
    <3>1. /\ flush' = AtRest
          /\ readJournal' = [readJournal EXCEPT !.own = own, !.pending = NoOperation,
                                               !.accepted = readJournal.revision]
      BY <2>1, <2>2 DEF PlansAs
    <3>2. /\ readJournal'.revision = readJournal.revision /\ readJournal'.pending = NoOperation
          /\ readJournal'.accepted = readJournal.revision
      BY <1>1, <3>1 DEF Journal
    <3> QED  BY <1>1, <1>2, <1>8, <3>1, <3>2 DEF Plans, Acknowledged
  <2>3. CASE Changed(own, place) # {}
    <3>1. /\ flush'.revision = readJournal.revision
          /\ readJournal'.revision = readJournal.revision
          /\ readJournal'.pending = readJournal.pending
          /\ readJournal'.accepted = readJournal.accepted
      BY <1>1, <2>1, <2>3 DEF PlansAs, Task, Journal
    <3> QED  BY <1>1, <1>8, <3>1 DEF Plans, Acknowledged
  <2> QED  BY <2>2, <2>3
<1>9. CASE \E b \in flush.todo : SavesPending(b)
  <2>1. PICK b \in flush.todo : SavesPending(b)  BY <1>9
  <2>2. /\ readJournal'.pending.revision \in {flush.revision, readJournal.accepted}
        /\ readJournal'.revision = readJournal.revision
        /\ readJournal'.accepted = readJournal.accepted
        /\ flush'.revision = flush.revision /\ flush.stage = "queue"
    BY <1>1, <2>1 DEF SavesPending, Journal, Task
  <2> QED  BY <2>1, <2>2 DEF SavesPending, Acknowledged
<1>10. CASE Fails  BY <1>2, <1>10 DEF Fails, Acknowledged
<1>11. CASE Ages \/ \E e \in flight : ArrivesLate(e)
  BY <1>11 DEF Ages, ArrivesLate, Acknowledged
<1>12. CASE BacksUp  BY <1>12 DEF BacksUp, Acknowledged
<1>13. CASE RestoresBackup
  <2>1. flush.todo = {}  BY <1>13 DEF RestoresBackup, Flush
  <2> QED  BY <1>13, <2>1 DEF RestoresBackup, Owned, Acknowledged
<1> QED
  BY <1>3, <1>4, <1>5, <1>6, <1>7, <1>8, <1>9, <1>10, <1>11, <1>12, <1>13 DEF ReadStateNext

\* A journal keeps its promise however the relay and the floor move on.
LEMMA KeptStays ==
  ASSUME Types, Flush, Owned, Single, ReadStateNext, NEW j \in Journal, Kept(j), NEW m \in j.marks
  PROVE  /\ m.revision <= j.revision
         /\ m.value <= floor' \/ j.own[m.key] >= m.value
         /\ m.revision <= j.accepted => Carried(m.key, m.value)'
<1>1. /\ m.key \in Markers /\ m.value \in 1..MaxValue /\ m.value \in Nat /\ floor \in Nat
  BY ReadStateAssumption DEF Types, Journal, Mark
<1>2. floor' = floor \/ floor' = floor + 1
  BY DEF ReadStateNext, Marks, MarksUnread, Begins, Publishes, Accepted, Expires,
       Observes, Checks, Reads, Plans, SavesPending, Fails, ArrivesLate, Ages, BacksUp,
       RestoresBackup
<1>3. m.revision <= j.accepted => Carried(m.key, m.value)'
  BY <1>1, CarriedNext DEF Kept
<1>4. m.value <= floor => m.value <= floor'  BY <1>1, <1>2
<1> QED  BY <1>3, <1>4 DEF Kept

\* Every saved marker is on the relay or in a planned blob.
LEMMA PlanCovers ==
  ASSUME Types, Flush, Owned, Kept(readJournal), flush.stage = "plan",
         NEW own \in Recovered(readJournal.own, flush.seen),
         NEW place \in Placements(own, flush.seen, readJournal.slots),
         NEW m \in readJournal.marks
  PROVE  \/ Carried(m.key, m.value)
         \/ \E b \in Plan(own, place) : b.event.values[m.key] >= m.value
<1> DEFINE k == m.key
           v == m.value
<1>1. /\ readJournal.slots \subseteq Slots /\ floor \in Nat /\ readJournal.own \in Values
      /\ k \in Markers /\ v \in 1..MaxValue /\ v \in Nat /\ v > 0
      /\ flush.seen \in [Slots -> Slot] /\ relay \in [Slots -> Slot]
      /\ flush.seen = [s \in Slots |-> IF s \in readJournal.slots THEN relay[s] ELSE Blank]
  BY ReadStateAssumption DEF Types, Journal, Mark, Task, Flush
<1>2. /\ own \in Values
      /\ readJournal.own[k] <= floor \/ readJournal.own[k] <= own[k]
  BY <1>1, RecoveredKeeps
<1>3. own[k] \in Nat /\ readJournal.own[k] \in Nat  BY <1>1, <1>2 DEF Values
<1>4. CASE v <= floor  BY <1>4 DEF Carried
<1>5. CASE ~(v <= floor)
  <2>1. readJournal.own[k] >= v  BY <1>5 DEF Kept
  <2>2. own[k] >= v /\ own[k] > 0  BY <1>1, <1>2, <1>3, <1>5, <2>1
  <2>3. place \in [{j \in Markers : own[j] > 0} -> readJournal.slots \cup (Slots \ made)]
    BY <1>2, PlacedAtHome
  <2> DEFINE s == place[k]
  <2>4. /\ k \in DOMAIN place /\ s \in readJournal.slots \cup Fresh(place) /\ s \in Slots
    BY <1>1, <2>2, <2>3 DEF Fresh
  <2>5. Blob(own, place, s)[k] = own[k]  BY <1>1, <2>4 DEF Blob
  <2>6. CASE s \in Changed(own, place)
    <3>1. [event |-> Signed(own, place, s), drops |-> Drops(own, place, s)] \in Plan(own, place)
      BY <2>6 DEF Plan
    <3>2. Signed(own, place, s).values[k] >= v  BY <2>2, <2>5 DEF Signed
    <3> QED  BY <3>1, <3>2
  <2>7. CASE s \notin Changed(own, place)
    <3>1. ~(own[k] > flush.seen[s].values[k])  BY <1>1, <2>4, <2>5, <2>7 DEF Changed
    <3>2. flush.seen[s].values[k] \in Nat  BY <1>1, <2>4 DEF Slot, Values
    <3>3. flush.seen[s].values[k] >= v  BY <1>1, <1>3, <2>2, <3>1, <3>2
    <3>4. s \in readJournal.slots
      <4>1. Blank.values[k] = 0  BY <1>1 DEF Blank, Nothing
      <4> QED  BY <1>1, <2>4, <3>3, <4>1
    <3>5. relay[s].values[k] >= v  BY <1>1, <2>4, <3>3, <3>4
    <3> QED  BY <2>4, <3>5 DEF Carried
  <2> QED  BY <2>6, <2>7
<1> QED  BY <1>4, <1>5

\* An observed event is on the relay, with all its operation acknowledges.
LEMMA ObservedCarries ==
  ASSUME Types, Flush, Underway, flush.stage = "check", SeenOnRelay(readJournal.pending.event),
         NEW m \in readJournal.marks,
         \/ Carried(m.key, m.value)
         \/ readJournal.pending.event.values[m.key] >= m.value
  PROVE  Carried(m.key, m.value)
<1> DEFINE e == readJournal.pending.event
<1>1. /\ m.key \in Markers /\ m.value \in Nat /\ e \in Events
      /\ flush.seen[e.slot] = relay[e.slot] /\ relay \in [Slots -> Slot]
  BY ReadStateAssumption
  DEF Types, Journal, Mark, Flush, Sending, PendingOperations
<1>2. /\ e.slot \in Slots /\ e.values[m.key] \in Nat /\ relay[e.slot].values[m.key] \in Nat
  BY <1>1 DEF Events, Slot, Values
<1>3. e.values[m.key] <= relay[e.slot].values[m.key]  BY <1>1 DEF SeenOnRelay
<1> QED  BY <1>1, <1>2, <1>3 DEF Carried

LEMMA UnderwayNext ==
  ASSUME IReadState, ReadStateNext
  PROVE  Underway'
<1>1. /\ readJournal \in Journal /\ flush \in Task
      /\ readJournal.revision \in Nat /\ flush.revision \in Nat
      /\ readJournal.pending \in PendingOperations \cup {NoOperation}
      /\ readJournal.marks \subseteq Mark
  BY DEF IReadState, Types, Journal, Task
<1>2. AtRest.stage = "rest" /\ AtRest.todo = {}  BY DEF AtRest
<1>3. \A m \in readJournal.marks : m.key \in Markers /\ m.value \in 1..MaxValue /\ m.revision \in Nat
  BY <1>1 DEF Mark
<1>4. \A m \in readJournal.marks : Carried(m.key, m.value) => Carried(m.key, m.value)'
  BY <1>3, CarriedNext DEF IReadState
\* A step that plans and saves nothing.
<1>5. ASSUME readJournal'.marks = readJournal.marks,
             readJournal'.pending = readJournal.pending,
             \/ flush'.todo = {} /\ flush'.stage # "queue"
             \/ /\ flush'.todo = flush.todo /\ flush'.revision = flush.revision
                /\ flush'.stage # "queue" /\ flush.stage # "queue"
             \/ UNCHANGED flush
      PROVE  Underway'
  BY <1>4, <1>5 DEF IReadState, Underway
<1>6. CASE \E k \in Markers, v \in 1..MaxValue : Marks(k, v)
  <2>1. PICK k \in Markers, v \in 1..MaxValue : Marks(k, v)  BY <1>6
  <2>2. /\ readJournal'.pending = readJournal.pending
        /\ readJournal'.marks = readJournal.marks \cup
             {[key |-> k, value |-> v, revision |-> readJournal.revision + 1]}
    BY <1>1, <2>1 DEF Marks, Journal
  <2>3. /\ readJournal.pending # NoOperation =>
             readJournal.pending.revision \in Nat /\ readJournal.pending.revision <= readJournal.revision
        /\ flush.stage = "queue" \/ flush.todo # {} => flush.revision <= readJournal.revision
    BY <1>1 DEF IReadState, Acknowledged, PendingOperations
  <2>4. ASSUME NEW m \in readJournal'.marks, m \notin readJournal.marks
        PROVE  /\ readJournal.pending # NoOperation => ~(m.revision <= readJournal.pending.revision)
               /\ flush.stage = "queue" \/ flush.todo # {} => ~(m.revision <= flush.revision)
    BY <1>1, <2>2, <2>3, <2>4
  <2>5. flush' = flush  BY <2>1 DEF Marks
  <2>6. ASSUME NEW m \in readJournal'.marks
        PROVE  /\ readJournal.pending # NoOperation /\ m.revision <= readJournal.pending.revision =>
                    Carried(m.key, m.value)' \/ readJournal.pending.event.values[m.key] >= m.value
               /\ flush.stage = "queue" \/ flush.todo # {} =>
                    (m.revision <= flush.revision =>
                       \/ Carried(m.key, m.value)'
                       \/ \E b \in flush.todo : b.event.values[m.key] >= m.value
                       \/ flush.stage # "queue"
                          /\ readJournal.pending.event.values[m.key] >= m.value)
    BY <1>4, <2>4, <2>6 DEF IReadState, Underway
  <2> QED  BY <2>2, <2>5, <2>6 DEF Underway
<1>7. CASE MarksUnread
  <2>1. readJournal'.pending = readJournal.pending /\ readJournal'.marks = readJournal.marks
    BY <1>1, <1>7 DEF MarksUnread, Journal
  <2> QED  BY <1>5, <1>7, <2>1 DEF MarksUnread
<1>8. CASE Begins
  <2>1. flush'.todo = {} /\ flush'.stage # "queue"  BY <1>8 DEF Begins, AtRest
  <2> QED  BY <1>5, <1>8, <2>1 DEF Begins
<1>9. CASE Publishes \/ Accepted \/ Expires \/ Observes \/ Reads
  <2>1. /\ flush'.todo = flush.todo /\ flush'.revision = flush.revision
        /\ flush'.stage # "queue" /\ flush.stage # "queue" /\ UNCHANGED readJournal
    BY <1>1, <1>9 DEF Publishes, Accepted, Expires, Observes, Reads, Task
  <2> QED  BY <1>5, <2>1
<1>10. CASE Checks
  <2>1. PICK own : readJournal' = Answered(own) /\ flush' = Resumes(Answered(own))
    BY <1>10 DEF Checks
  <2>2. /\ readJournal'.marks = readJournal.marks
        /\ readJournal'.pending =
             IF SeenOnRelay(readJournal.pending.event) THEN NoOperation ELSE readJournal.pending
    BY <1>1, <2>1 DEF Answered, Journal
  <2>3. \/ flush'.todo = {} /\ flush'.stage # "queue"
        \/ /\ ~flush.recover /\ flush.todo # {} /\ flush'.todo = flush.todo
           /\ flush'.revision = flush.revision /\ flush'.stage = "queue"
    BY <1>1, <2>1, <1>2 DEF Resumes, Task, AtRest
  <2>4. flush.stage = "check" /\ (~flush.recover => SeenOnRelay(readJournal.pending.event))
    BY <1>10 DEF Checks, IReadState, Flush
  <2>5. CASE flush'.todo = {} /\ flush'.stage # "queue"
    BY <1>4, <2>2, <2>5 DEF IReadState, Underway
  <2>6. CASE ~flush.recover /\ flush.todo # {} /\ flush'.todo = flush.todo
             /\ flush'.revision = flush.revision /\ flush'.stage = "queue"
    <3>1. \A m \in readJournal.marks : m.revision <= flush.revision =>
            \/ Carried(m.key, m.value)
            \/ \E b \in flush.todo : b.event.values[m.key] >= m.value
      BY <2>4, <2>6, ObservedCarries DEF IReadState, Underway
    <3> QED  BY <1>4, <2>2, <2>4, <2>6, <3>1 DEF Underway
  <2> QED  BY <2>3, <2>5, <2>6
<1>11. CASE Plans
  <2>a. PICK own \in Recovered(readJournal.own, flush.seen) :
          \E place \in Placements(own, flush.seen, readJournal.slots) : PlansAs(own, place)
    BY <1>11 DEF Plans
  <2>1. PICK place \in Placements(own, flush.seen, readJournal.slots) : PlansAs(own, place)
    BY <2>a
  <2>2. CASE Changed(own, place) = {}
    <3>1. /\ flush' = AtRest
          /\ readJournal' = [readJournal EXCEPT !.own = own, !.pending = NoOperation,
                                               !.accepted = readJournal.revision]
      BY <2>1, <2>2 DEF PlansAs
    <3>2. readJournal'.pending = NoOperation  BY <1>1, <3>1 DEF Journal
    <3> QED  BY <1>2, <3>1, <3>2 DEF Underway
  <2>3. CASE Changed(own, place) # {}
    <3>1. /\ flush'.todo = Plan(own, place) /\ flush'.stage = "queue"
          /\ readJournal'.marks = readJournal.marks
          /\ readJournal'.pending = readJournal.pending
      BY <1>1, <2>1, <2>3 DEF PlansAs, Task, Journal
    <3>2. \A m \in readJournal.marks :
            \/ Carried(m.key, m.value)
            \/ \E b \in Plan(own, place) : b.event.values[m.key] >= m.value
      BY <1>11, PlanCovers DEF Plans, IReadState
    <3> QED  BY <1>4, <3>1, <3>2 DEF IReadState, Underway
  <2> QED  BY <2>2, <2>3
<1>12. CASE \E b \in flush.todo : SavesPending(b)
  <2>1. PICK b \in flush.todo : SavesPending(b)  BY <1>12
  <2>2. /\ readJournal'.pending.event = b.event /\ readJournal'.marks = readJournal.marks
        /\ readJournal'.pending.revision =
             IF flush.todo = {b} THEN flush.revision ELSE readJournal.accepted
        /\ flush'.todo = flush.todo \ {b} /\ flush'.revision = flush.revision
        /\ flush'.stage = "publish" /\ flush.stage = "queue"
    BY <1>1, <2>1 DEF SavesPending, Journal, Task
  <2>3. \A m \in readJournal.marks : m.revision <= flush.revision =>
          \/ Carried(m.key, m.value)
          \/ \E o \in flush.todo : o.event.values[m.key] >= m.value
    BY <2>2 DEF IReadState, Underway
  <2>4. \A m \in readJournal.marks : m.revision <= readJournal.accepted => Carried(m.key, m.value)
    BY DEF IReadState, Kept
  <2> QED  BY <1>4, <2>1, <2>2, <2>3, <2>4 DEF Underway
<1>13. CASE Fails
  BY <1>2, <1>5, <1>13 DEF Fails
<1>14. CASE Ages \/ BacksUp \/ \E e \in flight : ArrivesLate(e)
  BY <1>5, <1>14 DEF Ages, BacksUp, ArrivesLate
<1>15. CASE RestoresBackup
  <2>1. readJournal'.pending = NoOperation /\ flush'.todo = {} /\ flush'.stage # "queue"
    BY <1>15 DEF RestoresBackup, IReadState, Owned, Flush
  <2> QED  BY <2>1 DEF Underway
<1> QED
  BY <1>6, <1>7, <1>8, <1>9, <1>10, <1>11, <1>12, <1>13, <1>14, <1>15 DEF ReadStateNext

LEMMA KeptNext ==
  ASSUME IReadState, ReadStateNext
  PROVE  Kept(readJournal)' /\ Kept(backup)'
<1>1. /\ readJournal \in Journal /\ backup \in Journal /\ flush \in Task /\ floor \in Nat
      /\ readJournal.own \in Values /\ readJournal.marks \subseteq Mark
      /\ readJournal.revision \in Nat /\ readJournal.accepted \in Nat
  BY DEF IReadState, Types, Journal
<1>2. \A j \in {readJournal, backup} : \A m \in j.marks :
        /\ m.revision <= j.revision
        /\ m.value <= floor' \/ j.own[m.key] >= m.value
        /\ m.revision <= j.accepted => Carried(m.key, m.value)'
  BY <1>1, KeptStays DEF IReadState
<1>3. \A m \in readJournal.marks :
        /\ m.key \in Markers /\ m.value \in 1..MaxValue /\ m.value \in Nat /\ m.revision \in Nat
        /\ readJournal.own[m.key] \in Nat
  BY <1>1, ReadStateAssumption DEF Mark, Values
<1>4. \A m \in readJournal.marks : Carried(m.key, m.value) => Carried(m.key, m.value)'
  BY <1>3, CarriedNext DEF IReadState
<1>5. CASE UNCHANGED <<readJournal, backup>>
  BY <1>2, <1>5 DEF Kept
\* The journal is changed: its markers stay, and what it acknowledges is carried.
<1>6. ASSUME readJournal'.marks = readJournal.marks, UNCHANGED <<backup, floor>>,
             readJournal'.revision = readJournal.revision,
             \A k \in Markers :
               /\ readJournal'.own[k] \in Nat
               /\ readJournal.own[k] <= floor \/ readJournal.own[k] <= readJournal'.own[k],
             \A m \in readJournal.marks :
               m.revision <= readJournal'.accepted =>
                 m.revision <= readJournal.accepted \/ Carried(m.key, m.value)
      PROVE  Kept(readJournal)' /\ Kept(backup)'
  <2>1. ASSUME NEW m \in readJournal.marks
        PROVE  m.value <= floor' \/ readJournal'.own[m.key] >= m.value
    BY <1>1, <1>2, <1>3, <1>6, <2>1
  <2> QED  BY <1>2, <1>4, <1>6, <2>1 DEF Kept
<1>7. CASE \E k \in Markers, v \in 1..MaxValue : Marks(k, v)
  <2>1. PICK k \in Markers, v \in 1..MaxValue : Marks(k, v)  BY <1>7
  <2>2. /\ readJournal'.revision = readJournal.revision + 1
        /\ readJournal'.accepted = readJournal.accepted
        /\ readJournal'.marks = readJournal.marks \cup
             {[key |-> k, value |-> v, revision |-> readJournal.revision + 1]}
    BY <1>1, <2>1 DEF Marks, Journal
  <2>3. /\ readJournal' \in Journal
        /\ \A j \in Markers :
             readJournal.own[j] <= floor \/ readJournal.own[j] <= readJournal'.own[j]
        /\ v <= floor \/ v <= readJournal'.own[k]
    BY <2>1, MarksKeeps DEF IReadState
  <2>4. \A j \in Markers : readJournal'.own[j] \in Nat  BY <2>3 DEF Journal, Values
  <2>5. floor' = floor /\ backup' = backup  BY <2>1 DEF Marks
  <2>6. ASSUME NEW m \in readJournal.marks
        PROVE  /\ m.revision <= readJournal'.revision
               /\ m.value <= floor' \/ readJournal'.own[m.key] >= m.value
               /\ m.revision <= readJournal'.accepted => Carried(m.key, m.value)'
    BY <1>1, <1>2, <1>3, <2>2, <2>3, <2>4, <2>5, <2>6
  <2>7. readJournal.accepted <= readJournal.revision  BY DEF IReadState, Acknowledged
  <2>8. ASSUME NEW m \in readJournal'.marks, m \notin readJournal.marks
        PROVE  /\ m.revision <= readJournal'.revision
               /\ m.value <= floor' \/ readJournal'.own[m.key] >= m.value
               /\ ~(m.revision <= readJournal'.accepted)
    <3>1. m.key = k /\ m.value = v /\ m.revision = readJournal.revision + 1  BY <2>2, <2>8
    <3>2. v \in Nat  BY ReadStateAssumption
    <3> QED  BY <1>1, <2>2, <2>3, <2>4, <2>5, <2>7, <3>1, <3>2
  <2> QED  BY <1>2, <2>5, <2>6, <2>8 DEF Kept
<1>8. CASE MarksUnread
  <2>1. /\ readJournal'.own = readJournal.own /\ readJournal'.marks = readJournal.marks
        /\ readJournal'.revision = readJournal.revision + 1
        /\ readJournal'.accepted = IF readJournal.accepted = readJournal.revision
                                   THEN readJournal.revision + 1 ELSE readJournal.accepted
        /\ floor' = floor /\ backup' = backup
    BY <1>1, <1>8 DEF MarksUnread, Journal
  <2>2. ASSUME NEW m \in readJournal.marks
        PROVE  /\ m.revision <= readJournal'.revision
               /\ m.revision <= readJournal'.accepted => m.revision <= readJournal.accepted
    BY <1>1, <1>2, <1>3, <2>1, <2>2
  <2> QED  BY <1>2, <2>1, <2>2 DEF Kept
<1>9. CASE Checks
  <2>1. PICK own \in Recovered(readJournal.own, Merged(readJournal.pending.event)) :
          readJournal' = Answered(own)
    BY <1>9 DEF Checks
  <2>2. /\ own \in Values
        /\ \A k \in Markers : readJournal.own[k] <= floor \/ readJournal.own[k] <= own[k]
    BY <1>1, <1>9, <2>1, ChecksTyped, RecoveredKeeps DEF IReadState
  <2>3. /\ readJournal'.own = own /\ readJournal'.marks = readJournal.marks
        /\ readJournal'.revision = readJournal.revision
        /\ \/ readJournal'.accepted = readJournal.accepted
           \/ /\ readJournal'.accepted = readJournal.pending.revision
              /\ SeenOnRelay(readJournal.pending.event)
    BY <1>1, <2>1 DEF Answered, Journal, Later
  <2>4. \A k \in Markers : own[k] \in Nat  BY <2>2 DEF Values
  <2>5. flush.stage = "check" /\ readJournal.pending # NoOperation
    BY <1>9 DEF Checks, IReadState, Flush, Sending
  <2>6. \A m \in readJournal.marks :
          m.revision <= readJournal'.accepted =>
            m.revision <= readJournal.accepted \/ Carried(m.key, m.value)
    BY <2>3, <2>5, ObservedCarries DEF IReadState, Underway
  <2> QED  BY <1>6, <1>9, <2>2, <2>3, <2>4, <2>6 DEF Checks
<1>10. CASE Plans
  <2>a. PICK own \in Recovered(readJournal.own, flush.seen) :
          \E place \in Placements(own, flush.seen, readJournal.slots) : PlansAs(own, place)
    BY <1>10 DEF Plans
  <2>1. PICK place \in Placements(own, flush.seen, readJournal.slots) : PlansAs(own, place)
    BY <2>a
  <2>2. /\ own \in Values
        /\ \A k \in Markers : readJournal.own[k] <= floor \/ readJournal.own[k] <= own[k]
    BY <1>1, RecoveredKeeps DEF Task
  <2>3. /\ readJournal'.own = own /\ readJournal'.marks = readJournal.marks
        /\ readJournal'.revision = readJournal.revision
        /\ Changed(own, place) # {} => readJournal'.accepted = readJournal.accepted
    <3>1. CASE Changed(own, place) = {}
      <4>1. readJournal' = [readJournal EXCEPT !.own = own, !.pending = NoOperation,
                                               !.accepted = readJournal.revision]
        BY <2>1, <3>1 DEF PlansAs
      <4> QED  BY <1>1, <3>1, <4>1 DEF Journal
    <3>2. CASE Changed(own, place) # {}  BY <1>1, <2>1, <3>2 DEF PlansAs, Journal
    <3> QED  BY <3>1, <3>2
  <2>4. Changed(own, place) = {} => \A m \in readJournal.marks : Carried(m.key, m.value)
    BY <1>10, PlanCovers DEF Plans, IReadState, Plan
  <2>5. \A k \in Markers : own[k] \in Nat  BY <2>2 DEF Values
  <2> QED  BY <1>6, <1>10, <2>2, <2>3, <2>4, <2>5 DEF Plans
<1>11. CASE \E b \in flush.todo : SavesPending(b)
  <2>1. /\ readJournal'.own = readJournal.own /\ readJournal'.marks = readJournal.marks
        /\ readJournal'.revision = readJournal.revision
        /\ readJournal'.accepted = readJournal.accepted
        /\ floor' = floor /\ backup' = backup
    BY <1>1, <1>11 DEF SavesPending, Journal
  <2> QED  BY <1>2, <2>1 DEF Kept
<1>12. CASE BacksUp  BY <1>2, <1>12 DEF BacksUp, Kept
<1>13. CASE RestoresBackup  BY <1>2, <1>13 DEF RestoresBackup, Kept
<1>14. CASE Begins \/ Publishes \/ Accepted \/ Expires \/ Observes \/ Reads \/ Fails \/ Ages
            \/ \E e \in flight : ArrivesLate(e)
  BY <1>5, <1>14
  DEF Begins, Publishes, Accepted, Expires, Observes, Reads, Fails, Ages, ArrivesLate
<1> QED
  BY <1>7, <1>8, <1>9, <1>10, <1>11, <1>12, <1>13, <1>14 DEF ReadStateNext

----------------------------------------------------------------------------
\* The theorems.

\* The invariant: a marker is carried by one slot, every event to come keeps it there,
\* and what the journal or its backup acknowledges is on the relay.
THEOREM ReadStateInvariant == ReadStateSpec => []IReadState
<1>1. ReadStateInit => IReadState
  <2> SUFFICES ASSUME ReadStateInit PROVE IReadState  OBVIOUS
  <2>1. Nothing \in Values  BY ReadStateAssumption DEF Nothing, Values
  <2>2. 1 \in Slots  BY ReadStateAssumption DEF Slots
  <2>3. NewJournal \in Journal  BY <2>1, <2>2 DEF NewJournal, Journal
  <2>4. Types  BY <2>2, <2>3, AtRestTyped DEF ReadStateInit, Types
  <2>5. Flush /\ Owned /\ Acknowledged
    BY DEF ReadStateInit, Flush, Owned, Acknowledged, NewJournal, AtRest, Sending
  <2>6. Single /\ Underway /\ Kept(readJournal) /\ Kept(backup)
    BY DEF ReadStateInit, Single, Underway, Kept, NewJournal, AtRest, Sending
  <2> QED  BY <2>4, <2>5, <2>6 DEF IReadState
<1>2. IReadState /\ [ReadStateNext]_readState => IReadState'
  <2> SUFFICES ASSUME IReadState, [ReadStateNext]_readState PROVE IReadState'  OBVIOUS
  <2>1. CASE ReadStateNext
    BY <2>1, TypesNext, FlushNext, OwnedNext, SingleNext, KeptNext, UnderwayNext,
       AcknowledgedNext DEF IReadState
  <2>2. CASE UNCHANGED readState
    BY <2>2 DEF readState, IReadState, Types, Flush, Owned, Single, Succeeds, Kept, Carried,
         Underway, Acknowledged
  <2> QED  BY <2>1, <2>2
<1> QED  BY <1>1, <1>2, PTL DEF ReadStateSpec

\* AcceptedIsPublished for any markers, room, values and number of failures and restores:
\* what a revision acknowledges is on the relay.
THEOREM AcceptedRevisionsArePublished == ReadStateSpec => []AcceptedIsPublished
<1>1. IReadState => AcceptedIsPublished
  BY DEF IReadState, Kept, AcceptedIsPublished
<1> QED  BY <1>1, ReadStateInvariant, PTL

\* NeverRewound for any markers, room, values and number of failures and restores: no
\* step takes a marker back from the relay.
THEOREM NothingIsRewound == ReadStateSpec => NeverRewound
<1>1. IReadState /\ [ReadStateNext]_readState =>
        [\A k \in Markers, v \in 1..MaxValue : Carried(k, v) => Carried(k, v)']_readState
  BY CarriedNext DEF IReadState
<1> QED  BY <1>1, ReadStateInvariant, PTL DEF ReadStateSpec, NeverRewound
=============================================================================
