---------------------------- MODULE OutboxJournal ----------------------------
(***************************************************************************)
(* The journal several windows of one viewer share                         *)
(* (src/features/relay/outbox-storage.ts) and the calls of each window's   *)
(* outbox that read or write it (outbox.ts). A window writes only what     *)
(* differs from what it last wrote or read, and deletes only rows it       *)
(* believes are its own; no window sees another one's memory.              *)
(*                                                                         *)
(* A save has three steps: its transaction is created with the puts and    *)
(* deletes of that moment, the transaction commits, and the window learns  *)
(* so. The order of saves that wait in one window is open. Module Outbox   *)
(* has one window's deliveries; here a row is its recovery key and how far *)
(* it was delivered ("seen" also stands for accepted by the relay).        *)
(***************************************************************************)
EXTENDS Naturals, FiniteSets

CONSTANTS
  Windows,   \* of one viewer in one community
  Ids, Keys, \* events, and the recovery keys they are sent with
  NoKey,     \* a row without recovery record
  Released,  \* a row whose recovery record was acknowledged
  NoId, NoWindow,
  Legacy,    \* rows of the journal before it had a store of its own
  May,       \* the optional calls each window makes in an instance
  MaxAsked   \* bound: saves that wait in one window

Deliveries == {"open", "failed", "seen"}
NoRow == [key |-> NoKey, delivery |-> "none"]
Row == [key : Keys \cup {NoKey, Released}, delivery : Deliveries]
Empty == [i \in Ids |-> NoRow]

CallNames == {"close", "send", "retry", "deliver", "evict", "acknowledge", "dismiss",
              "recovery", "recover", "fail"}

ASSUME JournalAssumption ==
  /\ NoKey \notin Keys /\ Released \notin Keys /\ NoKey # Released
  /\ NoId \notin Ids /\ NoWindow \notin Windows
  /\ Legacy \in [Ids -> Row \cup {NoRow}] /\ MaxAsked \in Nat
  \* One window wrote the legacy record, with one unresolved row per key (outbox.ts:735-744).
  /\ \A i, j \in Ids : Legacy[i].key = Legacy[j].key /\ Legacy[i].key \in Keys => i = j
  /\ May \in [Windows -> SUBSET CallNames]

VARIABLES
  events,     \* the store of rows
  migrated,   \* the partition's marker
  open,       \* windows whose journal is loaded
  view,       \* visible: the rows each window shows
  restored,   \* restoredReceipts: rows it read and did not send or retry
  persisted,  \* rows it believes are in the store as it wrote or read them
  asked,      \* saves that wait
  save,       \* the save that runs
  found,      \* the answer a call of recovery(key) waits to use
  adopting,   \* the call of recover(id)
  locks,      \* who holds each receipt's lock
  used,       \* history: ids ever given to an event
  kept,       \* history: rows ever in the journal
  dropped,    \* history: rows each window dismissed or evicted
  removed     \* history: rows last deleted by a window that had dropped them

windows == <<open, view, restored, persisted, asked, save, found, adopting>>
history == <<used, kept, dropped, removed>>
journal == <<events, migrated, windows, locks, history>>

NoSave == [step |-> "none", kind |-> "none", id |-> NoId, next |-> Empty,
           puts |-> {}, deletes |-> {}, forgotten |-> {}]
NotReading == [key |-> NoKey, id |-> NoId]
NotAdopting == [step |-> "none", id |-> NoId, key |-> NoKey, item |-> NoRow, shared |-> NoRow]

In(rows) == {i \in Ids : rows[i] # NoRow}
\* What load() answers: the store, or the legacy record before the first save.
Stored == IF In(events) # {} \/ migrated THEN events ELSE Legacy
Confirmed(row) == row.delivery = "seen" /\ row.key \notin Keys
Ask(w, kind, i) == /\ Cardinality(asked[w] \cup {<<kind, i>>}) <= MaxAsked
                   /\ asked' = [asked EXCEPT ![w] = @ \cup {<<kind, i>>}]
AskStatus(w) == Ask(w, "status", NoId)
Hold(w, i) == locks[i] = NoWindow /\ locks' = [locks EXCEPT ![i] = w]
Release(w, i) == locks' = [locks EXCEPT ![i] = IF @ = w THEN NoWindow ELSE @]

JournalInit ==
  /\ events = Empty /\ migrated = FALSE
  /\ open = {} /\ view = [w \in Windows |-> Empty] /\ restored = [w \in Windows |-> {}]
  /\ persisted = [w \in Windows |-> Empty] /\ asked = [w \in Windows |-> {}]
  /\ save = [w \in Windows |-> NoSave] /\ found = [w \in Windows |-> NotReading]
  /\ adopting = [w \in Windows |-> NotAdopting] /\ locks = [i \in Ids |-> NoWindow]
  /\ used = In(Legacy) /\ kept = In(Legacy)
  /\ dropped = [w \in Windows |-> {}] /\ removed = {}

----------------------------------------------------------------------------
\* Loading and closing.

\* Mutant: a legacy record counts as written to the store.
WindowOpensAsWritten(w) ==
  /\ w \notin open
  /\ open' = open \cup {w}
  /\ view' = [view EXCEPT ![w] = Stored]
  /\ restored' = [restored EXCEPT ![w] = In(Stored)]
  /\ persisted' = [persisted EXCEPT ![w] = Stored]
  /\ UNCHANGED <<events, migrated, asked, save, found, adopting, locks, history>>

\* load() and restore(): only a migrated journal counts as written.
WindowOpens(w) ==
  /\ w \notin open
  /\ open' = open \cup {w}
  /\ view' = [view EXCEPT ![w] = Stored]
  /\ restored' = [restored EXCEPT ![w] = In(Stored)]
  /\ persisted' = [persisted EXCEPT ![w] = IF migrated THEN Stored ELSE Empty]
  /\ UNCHANGED <<events, migrated, asked, save, found, adopting, locks, history>>

\* The window goes, at any step: its memory and its locks go with it. A
\* transaction that was created may still commit before.
WindowCloses(w) ==
  /\ w \in open /\ "close" \in May[w]
  /\ open' = open \ {w}
  /\ view' = [view EXCEPT ![w] = Empty] /\ restored' = [restored EXCEPT ![w] = {}]
  /\ persisted' = [persisted EXCEPT ![w] = Empty] /\ asked' = [asked EXCEPT ![w] = {}]
  /\ save' = [save EXCEPT ![w] = NoSave] /\ found' = [found EXCEPT ![w] = NotReading]
  /\ adopting' = [adopting EXCEPT ![w] = NotAdopting]
  /\ locks' = [i \in Ids |-> IF locks[i] = w THEN NoWindow ELSE locks[i]]
  /\ UNCHANGED <<events, migrated, history>>

----------------------------------------------------------------------------
\* What changes a window's rows.

\* enqueue() of an event with a recovery key: one unresolved row per key in a window.
Sends(w, i, k) ==
  /\ w \in open /\ "send" \in May[w] /\ i \notin used
  /\ \A j \in Ids : view[w][j].key # k
  /\ used' = used \cup {i}
  /\ view' = [view EXCEPT ![w][i] = [key |-> k, delivery |-> "open"]]
  /\ AskStatus(w)
  /\ UNCHANGED <<events, migrated, open, restored, persisted, save, found, adopting, locks, kept, dropped, removed>>

\* retry(): this window takes the row over.
Retries(w, i) ==
  /\ w \in open /\ "retry" \in May[w] /\ view[w][i].delivery \in {"open", "failed"} /\ view[w][i].key # Released
  /\ restored' = [restored EXCEPT ![w] = @ \ {i}]
  /\ view' = [view EXCEPT ![w][i].delivery = "open"]
  /\ AskStatus(w)
  /\ UNCHANGED <<events, migrated, open, persisted, save, found, adopting, locks, history>>

\* A delivery of this window ends, or observe() sees the event on the relay.
Delivers(w, i) ==
  /\ w \in open /\ "deliver" \in May[w] /\ view[w][i].delivery \in {"open", "failed"}
  /\ \E d \in {"failed", "seen"} :
       /\ d = "failed" => i \notin restored[w] /\ view[w][i].delivery = "open"
       /\ view' = [view EXCEPT ![w][i].delivery = d]
  /\ AskStatus(w)
  /\ UNCHANGED <<events, migrated, open, restored, persisted, save, found, adopting, locks, history>>

\* The confirmed cache evicts a row, or access was revoked (purgeConfirmed).
Evicts(w, i) ==
  /\ w \in open /\ "evict" \in May[w] /\ Confirmed(view[w][i])
  /\ view' = [view EXCEPT ![w][i] = NoRow]
  /\ dropped' = [dropped EXCEPT ![w] = @ \cup {i}]
  /\ AskStatus(w)
  /\ UNCHANGED <<events, migrated, open, restored, persisted, save, found, adopting, locks, used, kept, removed>>

\* acknowledge(): the source of the row is done with it.
Acknowledges(w, i) ==
  /\ w \in open /\ "acknowledge" \in May[w] /\ view[w][i].key \in Keys /\ view[w][i].delivery = "seen"
  /\ Ask(w, "acknowledge", i)
  /\ UNCHANGED <<events, migrated, open, view, restored, persisted, save, found, adopting, locks, history>>

\* dismiss() waits for the receipt's lock.
Dismisses(w, i) ==
  /\ w \in open /\ "dismiss" \in May[w] /\ view[w][i] # NoRow
  /\ view[w][i].key \in Keys => view[w][i].delivery = "failed"
  /\ Ask(w, "lock", i)
  /\ UNCHANGED <<events, migrated, open, view, restored, persisted, save, found, adopting, locks, history>>

DismissalLocks(w, i) ==
  /\ <<"lock", i>> \in asked[w] /\ Hold(w, i)
  /\ asked' = [asked EXCEPT ![w] = (@ \ {<<"lock", i>>}) \cup {<<"dismiss", i>>}]
  /\ UNCHANGED <<events, migrated, open, view, restored, persisted, save, found, adopting, history>>

\* The fence of a dismissal (dismissing).
Fenced(w, i) ==
  \/ {<<"lock", i>>, <<"dismiss", i>>} \cap asked[w] # {}
  \/ save[w].kind = "dismiss" /\ save[w].id = i

----------------------------------------------------------------------------
\* recovery(key): whose row owns the source now?

\* Bound: a window has one call of recovery() or recover() in progress.
Idle(w) == found[w] = NotReading /\ adopting[w].step = "none"

RecoveryReads(w, k) ==
  /\ w \in open /\ "recovery" \in May[w] /\ Idle(w)
  /\ \E i \in Ids \cup {NoId} :
       /\ IF i = NoId THEN \A j \in Ids : Stored[j].key # k ELSE Stored[i].key = k
       /\ found' = [found EXCEPT ![w] = [key |-> k, id |-> i]]
  /\ UNCHANGED <<events, migrated, open, view, restored, persisted, asked, save, adopting, locks, history>>

\* Mutant: a completing save claims a row again that was given up meanwhile.
GivesUpOnce(w, i) ==
  /\ persisted' = [persisted EXCEPT ![w][i] = NoRow]
  /\ UNCHANGED save

\* forget(): the row is no longer this window's to delete.
GivesUp(w, i) ==
  /\ persisted' = [persisted EXCEPT ![w][i] = NoRow]
  /\ save' = [save EXCEPT ![w].forgotten = IF save[w].step = "none" THEN {} ELSE @ \cup {i}]

\* A row it only read, and which the answer does not name, leaves this window.
RecoveryEnds(w) ==
  LET local == {i \in Ids : view[w][i].key = found[w].key}
      stale == {i \in local : i \in restored[w] /\ i # found[w].id}
  IN  /\ found[w] # NotReading
      /\ found' = [found EXCEPT ![w] = NotReading]
      /\ IF stale = {} THEN UNCHANGED <<view, restored, persisted, save>>
         ELSE \E i \in stale :
                /\ view' = [view EXCEPT ![w][i] = NoRow]
                /\ restored' = [restored EXCEPT ![w] = @ \ {i}]
                /\ GivesUp(w, i)
      /\ UNCHANGED <<events, migrated, open, asked, adopting, locks, history>>

----------------------------------------------------------------------------
\* recover(id): a caller hands its source to an earlier row.

AdoptionLocks(w, i, k) ==
  /\ w \in open /\ "recover" \in May[w] /\ Idle(w)
  /\ view[w][i] # NoRow /\ ~Fenced(w, i)
  /\ Hold(w, i)
  /\ adopting' = [adopting EXCEPT ![w] =
       [step |-> "read", id |-> i, key |-> k, item |-> view[w][i], shared |-> NoRow]]
  /\ UNCHANGED <<events, migrated, open, view, restored, persisted, asked, save, found, history>>

AdoptionReads(w) ==
  /\ adopting[w].step = "read"
  /\ adopting' = [adopting EXCEPT ![w].step = "decide", ![w].shared = Stored[adopting[w].id]]
  /\ UNCHANGED <<events, migrated, open, view, restored, persisted, asked, save, found, locks, history>>

\* The caller is refused, or may delete its source at once, or waits for a save;
\* a row no longer in the store must be written again ("force").
AdoptionDecides(w) ==
  LET a == adopting[w]
      mine == a.id \notin restored[w]
      item == IF a.shared # NoRow /\ ~mine THEN a.shared ELSE a.item
      over == \/ a.shared = NoRow /\ ~mine
              \/ a.shared.key = a.key
              \/ item.key # NoKey /\ item.key # a.key
              \/ \E j \in Ids \ {a.id} : view[w][j].key = a.key
  IN  /\ a.step = "decide"
      /\ IF over
         THEN /\ adopting' = [adopting EXCEPT ![w] = NotAdopting]
              /\ Release(w, a.id)
              /\ UNCHANGED <<view, restored, asked>>
         ELSE /\ adopting' = [adopting EXCEPT ![w].step = "save"]
              /\ view' = [view EXCEPT ![w][a.id] = [item EXCEPT !.key = a.key]]
              /\ restored' = [restored EXCEPT ![w] = IF item.key = NoKey THEN @ \ {a.id} ELSE @]
              /\ Ask(w, IF a.shared = NoRow THEN "force" ELSE "recover", a.id)
              /\ UNCHANGED locks
      /\ UNCHANGED <<events, migrated, open, persisted, save, found, history>>

----------------------------------------------------------------------------
\* persist() and save().

\* The records a save is to leave: this window's, after the change it makes.
Records(w, job) ==
  CASE job[1] = "dismiss" -> [view[w] EXCEPT ![job[2]] = NoRow]
    [] job[1] = "acknowledge" /\ view[w][job[2]] # NoRow ->
         [view[w] EXCEPT ![job[2]].key = Released]
    [] OTHER -> view[w]

\* The rows to put: those that differ from what this window wrote, and a forced one.
Puts(w, job) ==
  {i \in In(Records(w, job)) :
     persisted[w][i] # Records(w, job)[i] \/ job = <<"force", i>>}

SaveBegins(w) ==
  \E job \in asked[w] :
    /\ job[1] # "lock" /\ save[w].step = "none"
    /\ asked' = [asked EXCEPT ![w] = @ \ {job}]
    /\ save' = [save EXCEPT ![w] =
         [step |-> "created", kind |-> job[1], id |-> job[2], next |-> Records(w, job),
          puts |-> Puts(w, job), deletes |-> In(persisted[w]) \ In(Records(w, job)),
          forgotten |-> {}]]
    /\ UNCHANGED <<events, migrated, open, view, restored, persisted, found, adopting, locks, history>>

SaveCommits(w) ==
  LET s == save[w]
      let_go == dropped[w] \cup (IF s.kind = "dismiss" THEN {s.id} ELSE {})
  IN  /\ s.step = "created"
      /\ events' = [i \in Ids |-> IF i \in s.puts THEN s.next[i]
                                  ELSE IF i \in s.deletes THEN NoRow ELSE events[i]]
      /\ migrated' = TRUE
      /\ kept' = kept \cup s.puts
      /\ dropped' = [dropped EXCEPT ![w] = let_go]
      /\ removed' = (removed \cup (let_go \cap (In(Stored) \ In(events')))) \
                      (s.puts \cup (IF s.kind = "force" THEN {s.id} \cap In(s.next) ELSE {}))
      /\ save' = [save EXCEPT ![w].step = "committed"]
      /\ UNCHANGED <<open, view, restored, persisted, asked, found, adopting, locks, used>>

\* The outcome reaches the window; a failed save changes nothing but the caller.
AfterSave(w) ==
  LET s == save[w]
  IN  /\ IF s.kind \in {"dismiss", "recover", "force"} THEN Release(w, s.id) ELSE UNCHANGED locks
      /\ adopting' = IF s.kind \in {"recover", "force"}
                     THEN [adopting EXCEPT ![w] = NotAdopting] ELSE adopting
      /\ save' = [save EXCEPT ![w] = NoSave]
      /\ UNCHANGED <<events, migrated, open, restored, asked, found, history>>

SaveCompletes(w) ==
  LET s == save[w]
  IN  /\ s.step = "committed"
      /\ persisted' = [persisted EXCEPT ![w] =
           [i \in Ids |-> IF i \in s.forgotten THEN NoRow ELSE s.next[i]]]
      /\ view' = CASE s.kind = "dismiss" -> [view EXCEPT ![w][s.id] = NoRow]
                   [] s.kind = "acknowledge" /\ view[w][s.id] # NoRow ->
                        [view EXCEPT ![w][s.id].key = Released]
                   [] OTHER -> view
      /\ AfterSave(w)

SaveFails(w) ==
  /\ "fail" \in May[w] /\ save[w].step = "created"
  /\ AfterSave(w)
  /\ UNCHANGED <<persisted, view>>

JournalNext ==
  \E w \in Windows :
    \/ WindowOpens(w) \/ WindowCloses(w)
    \/ RecoveryEnds(w) \/ AdoptionReads(w) \/ AdoptionDecides(w)
    \/ SaveBegins(w) \/ SaveCommits(w) \/ SaveCompletes(w) \/ SaveFails(w)
    \/ \E k \in Keys : RecoveryReads(w, k)
    \/ \E i \in Ids : \/ Retries(w, i) \/ Delivers(w, i) \/ Evicts(w, i) \/ Acknowledges(w, i)
                      \/ Dismisses(w, i) \/ DismissalLocks(w, i)
                      \/ \E k \in Keys : AdoptionLocks(w, i, k)
                      \/ \E k \in Keys : Sends(w, i, k)

JournalSpec == JournalInit /\ [][JournalNext]_journal

----------------------------------------------------------------------------
\* Correctness.

\* What was once saved, inherited from the legacy record or adopted again stays in
\* the journal until a window that dismissed or evicted it deletes it
\* (outbox-storage.ts:102, 124 and outbox.ts:960).
NothingLost == kept \ removed \subseteq In(Stored)

\* A window deletes only what it dismissed or evicted itself: never a row it read and
\* gave up because another window had replaced it, whenever its saves end ("Do not let
\* completion reclaim deletion ownership of that ID", outbox-storage.ts:141).
DeletesOnlyItsOwn ==
  [][\A i \in Ids : events[i] # NoRow /\ events'[i] = NoRow =>
       \E w \in Windows : save[w].step = "created" /\ save'[w].step = "committed"
                          /\ i \in dropped'[w]]_journal
=============================================================================
