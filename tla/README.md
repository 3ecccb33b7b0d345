# TLA+ models of the Buzz app

Formal models of the parts of the Buzz client where order, failure and time decide
whether a message is sent, shown and kept correctly. They are written from the code
(`src/src/...`, TypeScript); `PROJECT.json` maps every definition to its lines.

## 1. Inventory

State, operations and interactions of the system's parts. "Hard" says where a unit test
does not reach; "correct" is what a model of the part should establish.

| Component | State | Operations | Interacts with | Hard | Correct |
|---|---|---|---|---|---|
| Outbox (`features/relay/outbox.ts`) | pending snapshot, confirmed cache, attempts, deadlines, a chain of saves, fences, observers | send, retry, dismiss, acknowledge, retire, recover, observe, purge, dispose, hydrate | relay HTTP lane, relay socket echoes, journal, session, callers (composer, follow-ups, members, channels) | all of: interleaved awaits, crash, lost answers, timers, slots | status agrees with what the relay may hold; intent is never lost or duplicated; one receipt per command |
| Outbox storage (`outbox-storage.ts`) | IndexedDB journal, what this window last wrote, per-receipt web locks, the record of the release before | load, save (incremental), forget, lock, watch, migrate | several windows of one account | stale incremental writes of another window, interrupted migration | no window erases another's undelivered intent |
| HTTP admission (`http-admission.ts`) | foreground and background queues, preparing set, inflight count, cooldown, presence slot | request, pump, finish, pause, abort, presence | outbox, reads, presence | cancellation inside a pump, cooldown with a full queue | slots bounded and never idle, foreground first, every ticket answered |
| Host admission (`host-admission.ts`) | lanes per relay and principal | acquire, evict | admission lanes | eviction of a lane in use | one lane per principal |
| Message clock (`message-order.ts`) | last time per channel | next | outbox, channel views | clock jumps, many sends in one millisecond | the sender's order is kept, lead bounded |
| Live routes, sockets (`live.ts`, `live-recovery.ts`, `native-socket.ts`, `socket-requests.ts`) | socket, subscriptions, replay buffers, generation | connect, subscribe, event, EOSE, close | store, recovery | replaced subscriptions, late events of an old socket | no gap between history and live events |
| Recovery (`recovery.ts`) | failed background reads, delay, notice, reads made stale by new credentials | evaluate, retry, reauthorize, dispose | session's sources, live layer | joined and hanging reads, credentials changing under a read | retries never end while a read fails; delays grow; reads repeat under new credentials |
| Read state (`read-state*.ts`) | own markers, slots, revisions, a pending operation; peers' blobs | mark, flush (read, pack, sign, save, publish, read back), recover | relay, other windows and devices | publication of several blobs, late events, a restored profile | accepted revisions are published; markers never go back |
| Sidebar registers (`sidebar-registers.ts`, `sidebar-preferences-store.ts`) | last-writer registers | set, merge, publish | other devices | equal timestamps, conflicting moves | devices converge |
| Channel lifecycle and writes (`channel-lifecycle.ts`, `channel-writes.ts`) | channels being created, holds | create, resolve, hold | outbox holds | creation refused while messages wait | held messages are released or failed |
| Relay store, session, unread (`store.ts`, `session.ts`, `unread.ts`, `fold.ts`, `transport.ts`) | verified events, views, access | ingest, fold, revoke | everything above | revocation racing reads | hidden content stays hidden |
| Follow-up queue, member additions (`follow-up-queue.ts`, `members.ts`) | saved sources with recovery keys | queue, send, recover, retire | outbox recover and acknowledge | crash between the receipt and the source | each source is sent exactly once |
| Agent service and runner (`features/agents/service.ts`, `runner.ts`) | agents' records, jobs, turns, classifiers | sync, submit, run | session, harness | restart in the middle of a turn | a mention is answered at most once |
| Agent catch-up (`catch-up.ts`, `runner.ts`) | a checkpoint per stream, the pass under way, events seen, a backlog of replays | connect, tick, edit, hear, replay, read, give | relay history, live routes, local storage | live, replayed and read copies of one event; routes that drop; late storage; restarts | every event is given, and once |
| Agent harness (`features/agent-harness/acp`) | protocol session | prompt, cancel, permission | external agent process | cancel racing an answer | every prompt ends |
| Browser host broker (`src/browser-host`) | proxied requests | forward, admit | admission lane | - | as the lane |
| Pairing (`src-tauri/src/pairing`, `crates/pairing`) | registry of attempts, a task per attempt, the protocol states of desktop and phone | start, confirm, deny, cancel, close; offer, proof, payload, completion | two devices over a relay | replays, reordering, cancellation racing publication | the key goes only to the confirmed phone; the status says what happened |
| Information flow (`crates/ifc-core`, `crates/buzz-ifc`) | labels, derived domains, a session's context | derive, enter, read, call, publish | broker of agents | membership changes between reading and publishing, saved state | nobody receives what they were not allowed to read |
| Plugin manager, agent controller, credentials, backups (`crates/*`) | files, processes, keychain | install, spawn, store | host | partial installs | all or nothing |
| Tauri host, bundled interface | windows, views | - | all | - | - |

`PROJECT.json` lists each with its status and the hazards at their lines.

### How the outbox fits in

A caller's `send()` adds a *pending* event to the snapshot, saves its intent and queues an
*attempt*. At most three attempts hold a delivery slot. An attempt waits for its intent to
be saved, signs, saves the signature, perhaps gives its slot up while the channel is still
being created (*hold*), prepares, and enters the HTTP publisher (through the admission
lane). The answer, a refusal, a lost answer, the deadline timer or the relay's own copy
arriving on the socket (*echo*, `observe()`) ends it; each end writes a status and saves.
Saves run one at a time, in order, on a promise chain that starts when the journal has been
read (*hydration*). Receipts that own a *source* (a draft, a queued follow-up, an addition
of members) carry a recovery key and stay pending until acknowledged.

## 2. Modules

| Module | Models | Role |
|---|---|---|
| `Outbox` | `outbox.ts`, one window | every asynchronous step is an action; specification, fairness, properties |
| `DeliveryEvidence` | what the outbox promises | abstract specification: the status shown of an event against what the relay may hold; what leaves the list unresolved was settled by the relay or, for additions, by the roster |
| `OutboxRefinement` | - | refinement mapping from `Outbox` to `DeliveryEvidence` |
| `OutboxInvariant` | - | the inductive invariants of `Outbox` |
| `OutboxProofs`, `OutboxEvidenceProofs` | - | proved: type correctness, `EvidenceIsReal`, `FailedMeansUndelivered`, `DurableBeforeDispatch`, `DismissedStaysGone`, `UndeliveredIntentKept`, `RevokedStaysHidden` and the refinement `ImplementsEvidence` |
| `OutboxCallProofs` | - | proved: what a call promises until its outcome (`PolicyOutlivesRestart`, `RecoveryReleasedDurably`, `OneReceiptPerCommand`, `DismissalSparesReceipts`, `WorkIsOpen`, `SlotsInUse`, `OneOwnerPerKey`) |
| `OutboxJournal`, `OutboxJournalProofs` | `outbox-storage.ts` with the calls of `outbox.ts` that use it | several windows of one viewer and the IndexedDB journal they share; nothing lost, deletes only its own, proved |
| `ApiAdmission` | `http-admission.ts` as `transport.ts` drives it | slots, queue, cooldown, presence |
| `MessageClock` | `message-order.ts` | send times under clock jumps and foreign times |
| `Recovery` | `recovery.ts` and its sources in `session.ts` | retries of failed background reads |
| `RelayProofs` | - | proved: tickets and slots of the lane, order and bounded lead of the clock, the recovery owner's invariant, the types of the three together |
| `ReadState`, `ReadStateProofs` | `read-state.ts`, `read-state-model.ts`, `read-state-storage.ts` | publication of an installation's read markers; its two guarantees, proved |
| `CatchUp`, `CatchUpProofs` | `agents/catch-up.ts`, `agents/runner.ts` | what an agent's event watch missed, across reconnects and restarts; its types, what becomes of an event gone past and that, with one condition, nothing is given twice, proved |
| `Pairing`, `HostProofs` | `src-tauri/src/pairing/mod.rs`, `crates/pairing/src/session.rs` | registry, task and protocol of a pairing with a phone; its guarantees, proved |
| `InformationFlow`, `HostProofs` | `crates/ifc-core`, `crates/buzz-ifc` | labels, execution domains and the session's checks; non-leakage, proved |
| `MCOutbox` | - | instances of `Outbox` |
| `MCCatchUp` | `CatchUp` | a route that drops while a window is given; a polled stream whose backlog is lost with the program |
| `MCOnce` | `Outbox` (receipts), `CatchUp` | instances of what must be done once and stay done |
| `MCRelay` | `ApiAdmission`, `MessageClock`, `Recovery` | instances of the parts that talk to a relay |
| `MCShared` | `OutboxJournal`, `ReadState`, `Pairing`, `InformationFlow` | instances of the parts whose actors share state |

The last three bundle parts that have no state in common: a behaviour picks its `part` in the
initial state and the other parts rest. What connects components is inside the modules:
`Outbox` has the steps its callers, the journal and the relay take, `OutboxJournal` the
outboxes of several windows, `Recovery` the sources of the session, `CatchUp` the
connection, its routes and the relay, `ReadState` the relay and the other windows of its
installation.

Names ending in what went wrong (`RetryUnfenced`, `HeardInMemory`, ...) and marked "mutant"
are plausible bugs kept beside the definitions they break, see section 3.

### State and actions of `Outbox`

| Variable | Code |
|---|---|
| `ops` | `visible` / `snapshot` (place "pending") and `completed` (place "confirmed"), one record per event: delivery, signature present, recovery key, acknowledged, guarded |
| `restored` | `restoredReceipts` |
| `attempts` | `attempts`, with the await `deliver()` is suspended at as `stage`; `prev` is the delivery before the attempt; `wait` is the save it awaits |
| `gates` | `admissionGates` and what the caller's policy answers |
| `work` | `deliveryWork` |
| `jobs`, `saving`, `captured` | the `durable` promise chain: queued saves, the one that runs, the records it read when its turn came |
| `journal` | `ready`: still loading, open, or `storageError` |
| `closed`, `purged` | `disposed`, `confirmedInvalidated` |
| `dismissing` | the `dismissing` fence, with how far the call has come |
| `locks`, `recovering` | `storage.lock` of each receipt, and progress of `recover()` |
| `disk` | the saved journal |
| `used`, `mayHold`, `receipts`, `consumed`, `dismissed`, `policed` | history, read by properties (and `used`, `mayHold`, `consumed` to keep ids and echoes real) |

Actions follow the code from one await to the next: `Hydrate` is the resolution of
`storage.load` with `restore()`; `SaveStarts` is the body of `persist()` up to
`storage.save`, and the `...Saved` actions are the rest of it together with what the
awaiting caller does; `IntentSaved`, `Signed`, `SignatureSaved`, `HoldEnds`,
`PublishStarts`, `PublishAccepted/Rejected/Lost`, `FailsUnpublished` are `deliver()`;
`ExpiresQueued`, `ExpiresActive` are `expire()`; `Finish` is the common end with its
`finally` clause and `pumpDeliveries()`.

What is abstracted, deliberately:

- Data: event content (an id), byte allowances, `created_at`, error texts, LRU order (any
  confirmed entry may be evicted when the cache is full), the recovery record (its key
  determines it).
- Which queued delivery starts first is open; `pumpDeliveries()` starts the first in the
  list. Properties therefore hold for every order.
- The signer, the relay, the disk, `prepare` and the hold are environments: they answer,
  refuse, or never answer.
- `Restart` may happen anywhere; the transaction being written is then committed or not.
- `recover()` is modelled in three steps (lock; read the shared journal; save). The shared
  read and the code after it form one step, so an update between the journal's read and its
  delivery to the caller is not interleaved.
- `dismiss()` of an event that is not listed, and its early returns, are left out: they change no
  state here. `Acknowledge` may name any addition that owns a key, where the code acknowledges the
  caller's own: a superset of the code's behaviours.
- One window: `recovery(key)` and the locks other windows hold are in `OutboxJournal`.
- A `RetryRenewed` policy is recorded in the snapshot at once and durable with the next save,
  as in the code; `policed` therefore records only additions sent under a policy.
- `Calls` selects which callers and faults an instance has, so that each run spends its
  states on one question. It removes actions and changes none.

### `OutboxJournal`

`events` and `migrated` are the IndexedDB store and its marker; `view`, `restored`,
`persisted`, `asked`, `save` are what each window remembers (`visible`, `restoredReceipts`,
`persisted`, the `durable` chain, the transaction in progress); `found`, `adopting`, `locks`
are the calls `recovery(key)` and `recover(id)` with the web lock of a receipt. A save has
three steps (created with the puts and deletes of that moment, committed, learnt of), and
another window acts between any two. The legacy record of the release before is moved by the
first save. Assumed: a window makes one `recovery()` or `recover()` call at a time; saves
that wait may run in any order; the `await open()` before a save belongs to its start; only
sends with a recovery key are modelled, since others are never shared. `May` gives each
window its calls. The legacy record has one row per key (`JournalAssumption`): one window wrote
it, and its `send()` joins a key it already shows (`outbox.ts:735-744`). The assumption matters:
with two legacy rows of one key, TLC shows that the second adoption of the key lets the first
row go unadopted.

### `ApiAdmission`

`queue` (in order of arrival), `running` (`active`), the answers of the calls, `pausedUntil` and
the presence interval as flags. `Pump` is `pump()`; `Request` is `run()` inside `prepare()` with its
immediate refusals; `Finish`, `Abort`, `Pause`, `CooldownEnds` are its callbacks. Requests may share
an abort signal (`Signals`), whose listeners (`Abort`) run one by one: `signalled` are the tickets
whose listener has yet to run. A browser runs the reactions of settled promises between the listeners of a signal
that aborts by itself, such as a timeout, so `pump()` may come to a ticket whose signal has
aborted: its `start()` throws, finishes it, answers it and pumps again (`Thrown`), until a ticket
starts (`Started`) or none is left. A request whose signal has aborted before it is queued is
refused at once and left out, like the relay's error bodies and `Retry-After` parsing.

### `MessageClock`

`latest` and `sent` are the two maps, for one channel (channels are separate keys). `Observe` is
`observe()`, `Send` is `next()` with its reservation. The wall clock may jump either way,
`back` sums up how far it was set back, since that is what a session's own sends may have to make
up for.

### `Recovery`

`status`, `reading`, `again`, `asked` describe the session's sources; `owner` is the recovery
owner's record (its timer and notice, the delay's index, the reads that are stale or about to
be repeated). One step is one callback with every `evaluate()` it causes, in the code's order. A
connected live layer may have nothing to repeat. The plain sources are taken to show a read in
flight as busy, as `session.ts` wires them.

### `ReadState`

`readJournal` is the saved record (own markers, slots, revision, accepted revision, version,
pending operation), `flush` the flush of the window that holds the publisher lock with what it
has read, `relay` and `flight` the newest event of each slot and those that may still arrive,
`floor` the retention floor, `backup` a copy of the profile. Every `await` of `flush()` ends a
step. Times have a fixed number of digits, so a marker always fits its home slot. Reads the code
marks `fresh` see the relay's present state, others may be older. A backup is taken with nothing
pending or in flight, and two running clones of one profile are excluded: both would sign for
the same slots. Peers' markers and overrides, the retention budget, capacity snapshots and the
local display are not modelled. Nor is the bound of `readVersion()` on a new version (60 seconds past the
present, `read-state-model.ts:322-329`): where the code throws, the flush ends
before that blob is signed, with what the blobs before it have published, and is tried again later. The
model reaches the same states by `Fails`, which may end a flush at any of its steps; its versions
are never refused.

### `CatchUp`

One stream of one event watch. `checkpoint` is the saved progress (`through`, `upper`, `after`,
`read`, `heard`); `pass` the catch-up under way (`Pass` and the window `readWindow` returned);
`link` the connection, its live route and since when that covers the stream; `runner` what the
runner remembers (`seen`, `backlog`, `quiet`, `started`). `CatchesUp` is `catchUp()`, which every
change of the connection, the attention or a route calls, and every tick. Windows are read page
by page (`PageArrives`) and given in batches (`Gives`); live events (`Hears`) and replays
(`Replays`, `Admits`) come between. `polled` says whether live covers the stream at all; it is
chosen at the start, so both kinds of stream are explored. Reads end at the page bound, or,
since the byte bound of the code depends on sizes, after any page.

Auxiliary: `shrunk` and `forgot` of a checkpoint, the latest times the limits on the list of heard
events let go; `owed`, the events the stream went past while its route was down, which a replay of the
running program reaches back to (they were created since `runner.start`); and `lost`, those
that nothing brings any more, because no replay reaches back to them (`Leaves`) or because the program
ended while they were still `Coming`: in the backlog, on a live route, or owed.

Assumed: a checkpoint is durable when it is saved (`localStore` writes at once); a restart takes at
least a second; no event is dated in the future; an event is stored at most `Drift` late and
the overlap is longer. A timer's length becomes a choice (`due`). Jobs, turns, classifiers, rosters,
mentions, fan-out to several watches and the storage of several agents are left out: an event
is *given* once the runner takes it. Of what surrounds a stream, these are simplified too:

- `seen` keeps every event. `markSeen()` (`runner.ts:1107-1117`) bounds it by agent, by channel
  (`LIVE_REPLAY_LIMIT`) and by the number of channels, so an event more than that many events
  old may be heard, or replayed, anew. `GivenOnce` holds within those bounds.
- The backlog has no limit. Past `BACKLOG_LIMIT` (`runner.ts:1060`) the code leaves a replayed
  event unseen, which is the behaviour in which `Replays` is not taken.
- `runner.start` moves with the program only. A new session of the running program
  (`service.ts:6498`) moves it too, while `seen` and the backlog stay; that is not modelled, and what was
  `owed` to a replay until then would be `lost`.
- `CatchesUp` leaves out what holds back or resets a stream around Attention: the marker of one
  that was off while Attention was hidden (`attentionShown`, `runner.ts:1354-1365`), which starts
  from the present when it is next on, also after a restart; `attendPending` (`1370-1374`), for which a
  stream waits to be read with its checkpoint as it is; and `starting()`, which delays the first pass.

### `Pairing`

`active` to `payloadSent` are the registry under its lock (`mod.rs`), `task` and `decision` the
task of each attempt and the decision queued for it, `session` and `peer` the desktop's protocol
state, `phone` that of each phone, `net` every event published. Events in `net` may be read at any
later time, repeatedly, or never: loss, duplication, delay and reordering need no actions of
their own, and the filter on `processed_ids` is implied by the protocol's guards. A replaced
attempt is no longer registered. The proof is published in the step that marks it, where the code does
the two in turn; a cancellation between them acts as one just before the mark, and the branch
of a refused mark publishes the proof too. The user confirms a code only when the phone in hand shows the
same one; collisions of the short code are outside the model. The reverse payload flow, the
cryptography and the socket's authentication are left out. Nothing is promised to happen, so
there is no liveness property.

### `InformationFlow`

`members` are the verified memberships, `sessions` the broker's pool, `saved` derived state with its
label. Labels, joins, domains and each check of `IfcSession` are operators; the actions are
what a broker may do with them. The broker itself is not in the repository: it is modelled as the
crates' documentation demands, keeps a session for as long as the memory it restricts, and saves
nothing from a session that is tainted.

## 3. Runs

Deadlock is not checked: an outbox with nothing to do stops legitimately, a finished
pairing does, and the bounded histories of the other parts end.

| Run | Instance | Shows |
|---|---|---|
| `delivery` | 2 events, 1 slot, one may be held; retry, dismiss, restart, failing saves; fair | types; statuses agree with what the relay may hold; durable before dispatch; the slot neither exceeded nor idle; refinement of `DeliveryEvidence`; every attempt ends |
| `receipts` | an addition and a message, one key, the resolving calls except recover; an agent with two events, three seconds, one upset | a dismissed event stays gone; no stale observers; dismissal spares receipts; no event is given to an agent twice, and one gone past was given, is still coming or is counted as lost |
| `outcomes` | two additions, one key: retirement, restart, failing saves; or (the constraint `Outcomes`) a workflow command and a guarded addition: dispose, restart | one owner per key; key released durably; the inductive invariant `EvidenceInv`; exactly one receipt; policy outlives a restart |
| `session` | one event with recover, acknowledge, dismiss, restart, failing reads; or (the constraint `Apart`) a channel creation and a message with purge, dispose, failing hydration; cache of one | a dismissal under the lock is final; intent kept; revoked content hidden |
| `relay` | lane: 5 requests that may share signals, 2 slots, queue of 2, 4 preparing; clock: 4 sends, time to 6; recovery: 3 sources, 2 delays, 2 credential changes; fair | tickets counted, no idle slot, foreground answered; order and lead of sends; recovery never gives up, delays grow, reads under new credentials follow |
| `shared` | journal: two windows, two events, one key, a legacy row; markers: 2 in up to 3 slots of one; pairing: 2 attempts, 2 phones; flow: 4 channels in 2 communities, 2 sessions | nothing lost, deletes only its own; accepted means published, nothing rewound; the key goes to the confirmed phone only and statuses are true; publications authorised, memory contained |
| `stale_adoption`, `adopted_dismissed`, `overfull`, `two_owners`, `given_twice`, `lost_backlog` | smallest instance | findings, section 6 |

Why the bounds are enough:

- *Outbox*: one slot and two events is the smallest instance in which a slot is contended, so a
  started, a queued and a passed-on delivery all occur, and a released hold competes with a
  queued one. `MaxJobs = 2` bounds the queue of saves a *caller* may add to (callers wait;
  attempts in progress may still add theirs), which is enough for a save to overtake a
  running one and for two plain saves to merge. Events are used once and may be retried without
  bound; restarts and save faults are unbounded. `MaxConfirmed` is 2, or 1 where eviction
  matters. Two additions suffice for one retirement with its replacement; the third in
  `two_owners` is the new send that takes the key.
- *Lane*: five requests fill both slots and the queue and leave one to be refused; presence
  can fill the preparing limit.
- *Clock*: `MaxOwnLead` and `MaxLead` keep the code's order (own lead larger), and time runs past
  both; the proofs cover the code's 5000 and 60000.
- *Recovery*: the live layer, a source that reads again and one that joins; the delay list is
  reached to its end.
- *Journal*: one window sends, dismisses and closes while the other recovers and retries; the row of
  the legacy record is one of the two. Larger sets of calls (up to 12 million states) showed
  no violation either.
- *Markers*: two markers that need two slots, and a third slot to spare; one restored profile.
  `MaxRevision = MaxVersion = 3` (22 million states) showed no violation either.
- *Pairing*: a replaced and a live attempt, the user's phone and another one. Attempts are
  interchangeable, so the run uses their symmetry.
- *Catch-up*: `Drift < Overlap` as in the code; three seconds let a polled window move behind the
  overlap and a tick, a quit and a late event fall between; the one upset is any of a dropped route or
  connection, a failed read, an edit and an end of the program; `HeardLimit = 1` overflows with the
  second event, and a window of two events is given in one batch or two, or cut at its bound.
  Two upsets (3.0 million states), four seconds (3.3 million) and three events in two seconds
  (5.4 million) showed no violation either, and `CatchUpTypeOK` held in them. Three events and two
  upsets do: finding 5. So the run shows that an event is given once across any one upset; section 5 has the
  theorem for any number of them.
- *Flow*: a public, a restricted and a direct channel of one community and one of another; two
  sessions, so saved state passes from one to the other; one membership change.

Symmetry is used only in runs without liveness whose constants are treated alike: the attempts of
`shared`, the additions of `outcomes`.

Every property of a passing run has a mutant in `PROJECT.json`: a definition changed the way
a plausible bug would change it, defined next to the original ("mutant" comments), for which
TLC finds the property violated.

## 4. Fairness

- `FairSpec` (outbox) assumes weak fairness of each attempt's deadline timer (`setTimeout` fires: the
  event loop runs) and of the end of each hold (the channel creation it waits for is itself a
  delivery with a deadline and resolves or rejects). Nothing is assumed of the signer, the
  relay, the disk or the caller: `EverySendSettles` holds although none of them ever answers.
- `LaneFairness` assumes only that requests that run end (their callers abort them at a
  deadline). A cooldown needs no fairness: nothing waits during one, for it rejects the queue.
  `ForegroundAnswered` holds although background requests keep coming.
- `FairRecovery` assumes that the retry timer fires, that reads end (or the live layer connects), and
  that a source reads again, or takes its turn, once it said so. The timer is fair because
  every retry of the owner retries all failed sources but the live layer, and that too
  unless it has only just connected. `NeverGivesUp` then says that no source stays failed, unless
  the owner is disposed.

The other modules state safety only. Liveness of catch-up (every stored event is given in the end)
is plausible under fair timers but its state graph was beyond what could be checked in
reasonable time; pairing and the journal promise nothing that must happen.

## 5. Proofs

`OutboxProofs` and `OutboxEvidenceProofs` hold for every number of events, keys, slots, limits
and for every set of callers named, under `OutboxAssumption` only (events and "no event"
are distinct, additions are not workflow commands, held events are neither additions nor
creations, limits are naturals; all checked by TLC on each run).

- **`TypeCorrect`**: `Spec => []TypeOK`. `TypeOK` is inductive because the records of saves
  and of `recover()` are typed by kind: a save that dismisses names an event, one that
  retires names a replacement or none. One lemma per helper (`Launch`, `Pump`, `Schedule`,
  `Finish`, `Capture`, `Released`, ...), then one per group of actions.
- **`AttestedIsReal`**: `Spec => []EvidenceIsReal`, for every set of callers, `recover()`
  included. `AttestedInv` extends the property to the places a status travels through: the save
  being written (a crash may commit it) and the item `recover()` holds across its load. One lemma
  per helper says it attests nothing its arguments did not; only an answer and an observation
  add to what is attested, and both add the event to `mayHold` in the same step.
- **`EvidenceInvariant`** and **`FailedIsUndelivered`**: if no caller uses `recover()`, then
  `Spec => []FailedMeansUndelivered`. The property is not inductive: a step may fail an event
  whose earlier publish is remembered only by `prev`, save a record captured earlier, or
  restore one. `EvidenceInv` adds what connects them:
  - `HeldIsSafe`: an event the relay may hold says "failed" in no record (shown, saved,
    being saved), and a running attempt *remembers* it (`prev`, or it was seen in flight);
  - `DurableIsSafe`, `SavesCarryIntent`: once an attempt is past its first save, neither the
    disk nor the save in progress says "failed", so a crash during a publish cannot either;
    and an attempt told of a save is told by one that carried its intent;
  - `AttemptsOwnSending`: a status "sending" has an attempt, so a retry never takes
    "sending" for the previous outcome;
  - `IdsAreFresh`, `LoadingIsApart`, `ReplacementsAreNew`: what hydration or a retirement
    brings is not something already being delivered.

  The proof abstracts the 41 actions to seven kinds of step (an attempt *starts*, *moves*,
  *ends*; a save *commits* or is *abandoned*; a step *rests*; the process *ends*), shows each kind
  keeps the invariant, and each action is one of them. `Continues` states what the pump may do
  to other attempts, `Calmer` what eviction and release may do to records.

  The hypothesis `"recover" \notin Calls` is needed: with `recover()` the property is false
  (`stale_adoption`, below).

- **`DismissedIsGone`**: `Spec => []DismissedStaysGone`, for every set of callers. `FenceInv` says what
  each save under way *relies on* (`ReliesWell`): its fence, its cross-window lock, that the
  replacement it brings is known to nobody; that two saves which rely on the same thing are
  never both under way (`SavesApart`); and that ids are used once. A step either starts nothing
  that relies (`Quiet`), takes a fence or lock that is free, or ends the one save that holds it.
- **`DispatchIsDurable`**: `Spec => []DurableBeforeDispatch` if no caller uses `recover()`.
  `DispatchInv` follows an attempt past its signature: while it waits for the save, that save is queued
  or running *with the signature*; once told, the signed record is on disk and in every save
  under way. The hypothesis is needed: TLC shows that the stale record `recover()` puts back
  (finding 1) also loses a signature made meanwhile.
- **`IntentIsKept`** and **`RevokedIsHidden`**: the two action properties of `session`, for every set of
  callers. `ListedInv` relates list, disk and the save under way: what is saved is listed or
  delivered, a save brings what is listed and leaves out only what it dismisses, and until the
  journal is open nothing is saved over it.
- **`RefinesEvidence`**: `Spec => ImplementsEvidence` if no caller uses `recover()`. On top of the four
  invariants, `ShownInv` says what an attempt shows ("sending", or "seen" during its publish),
  that nothing fenced is being sent, and that a command is published once. Every step of a window
  follows `Follows` for each event; hydration and restart are shown to be `Progress` and `Reopen`
  directly.

  Each of these invariants was checked by TLC, on the instances of `delivery`, `session` and
  `outcomes`, before it was proved; so was the refinement.

- **What a call promises until its outcome** (`OutboxCallProofs`). Two lemmas per kind of change say
  what any one of the 41 actions may do: `Changes`, to the record of an event (it *stays*, is *cleared*,
  *leaves*, *arrives*, *returns* from the disk or is *taken back* by `recover()`), and `Queues`
  and `Runs`, to the saves that wait and run. Each promise then follows from a small invariant:
  - **`PolicyIsKept`**: an addition with a policy is guarded wherever its record is
    remembered (shown, saved, being saved, held by `recover()`), so hydration brings the guard back.
  - **`RecoveryIsReleased`**: the save that releases a receipt writes it released, and what eviction may
    drop owes no source anything; so the step that clears the list's key commits the disk's.
  - **`OneReceipt`**: a command is attempted once, since its id is used once and only an event without
    outcome is delivered; its receipt is given in the step that ends the attempt.
  - **`DismissalSpares`** (no `recover()`): while a dismissal waits for its lock or its save, what it removes
    owns no source or failed, and hydration will not bring it. With `recover()` it is false (`adopted_dismissed`).
  - **`WorkStaysOpen`**: an observer's work belongs to an event still listed and unattested, one
    saved later included; and what `recover()` puts back attests no more than is shown.
  - **`SlotsAreUsed`** (no `recover()`): the attempts that hold a slot are finite and at most `Slots`; `pump()`
    leaves none waiting beside a free slot; every other step either takes no slot or ends in
    `pump()`. The hypothesis is needed: TLC shows that the stale record `recover()` puts back
    (finding 1) may hide that a queued retry is "sending", and the pump then passes it over.
  - **`KeysHaveOneOwner`** (every set of callers): `Spec /\ []~Crossed => []OneOwnerPerKey`. `Crossed` is
    the state of finding 4: a plain acknowledgement is being saved while a retirement that hands on the key of the
    same receipt waits behind it. Without it the promise holds, and by this theorem there is no other way to
    break it. `KeysInv` adds that a key has no owner before hydration; that a retirement under
    way hands on the key its receipt still owns, to a replacement hydration did not bring
    (`Pledged`); and that the item `recover()` holds across its load, the journal and the running save
    know a receipt by the key it owns here (`OwnerOf`). Five steps move keys (a send, hydration, the commit of a
    resolution, the end of `recover()`, a restart); all others leave every key where it is.
    TLC checked `KeysInv` before, on the uncrossed states of two and three events with both calls, `recover()` and
    restarts.
- **Journal** (`OutboxJournalProofs`): `JournalInv` says what a window's memory is worth. A row that has left
  a window's view was dismissed, evicted or given up by it (`dropped`); a row
  given up is not among those that its saves, whenever they commit or are learnt of, take for their own; and every
  row kept is in the store or, until the first save has moved it, in the legacy record. From it
  `NothingIsLost` and `DeletesAreOwn`, for any number of windows, rows and saves under way. A window that
  adopts a row, and evicts it from its full cache while the save of its acknowledgement is
  still under way, has let it go itself: this is not counted as a loss.
- **Lane** (`RelayProofs`): types, `EveryTicketCounted` and `WaitsOnlyForSlots` are inductive
  together. Every change ends in `pump()`, so one lemma about `Pump` says what it keeps; each
  action shows that what it hands to `Pump` satisfies the lemma. `Pump` takes several tickets
  from the queue when `start()` throws: ranks in a finite set of numbers say what the queue keeps then
  (every other ticket, once). If a ticket can start there is a first one, by well-foundedness of `<`; if none can,
  all have thrown and are answered, and the queue is empty.
- **Clock** (`RelayProofs`): `latest` bounds everything shown and `sent` the last send; from that
  `LeadIsEarned`, `SendsInOrder` and `RepliesSortAfter` follow for any two leads with
  `MaxLead <= MaxOwnLead`.
- **Recovery** (`RelayProofs`): the owner's type, `OwnerAgrees` (timer, notice and recovery agree with the
  sources' reports) and the rest of a disposed owner are inductive together, because `evaluate()`
  recomputes them from the reports at the end of every step; `DelaysGrow` follows. `RelayTypeCorrect` puts
  the types of lane, clock and recovery together, as the run checks them.
- **Information flow** (`HostProofs`): lemmas about `CanFlow` and `Join` (a least upper bound)
  and about derived domains (their constructor's check never fails); then the invariant that
  what a session knows was readable by its whole audience and came from contexts its own context
  permits, which gives `PublicationsAuthorised` and `MemoryStaysInContext` for every set of principals,
  channels and policies, and `PoliciesHold`.
- **Pairing** (`HostProofs`): the invariant ties the registry, the task, the two protocol states and the
  network (`Locked`, `Marked`: an offer locks the session to one phone, a payload is marked before
  it is published). From it `PayloadForConfirmedPhone`, `StatusIsTrue`, `StoppedMeansUnsent`, that a
  decision always finds its session (`DecisionsFindTheirSession`, proved and not run), and that
  nothing starts after signing out.
- **Catch-up** (`CatchUpProofs`): first the order of delivery: a finite set of events has a first, a last and a
  latest one (by well-founded induction), and `Oldest(S, n)` is an initial part of `S`, not empty if `S` and `n` are
  not. Then what each operator promises: `Holds` (`heardOf`: nothing it has not heard becomes delivered, except
  beyond the limits), `Finishes`, `AdmitsTo` and `WindowSaved` (the checkpoints of a window's end, batch and
  read). On these rest three invariants:
  - `Shape`, for **`CatchUpTypeCorrect`**: types, times in order, a checkpoint whose `upper`, `after` and `read` fit
    each other, a polled stream that *lags* by the overlap, and a window whose events lie in its range and
    are given in order;
  - `PassInv`, for **`NothingIsPassedOver`**: an event the saved checkpoint, or the one the window was
    read from, has gone past is *safe* (given, waiting, owed, on its way, lost, or let go by a bound); so
    is one of a covered stream up to `read` or since the coverage began; and one in the range of the
    window is read, *beneath* its last page, safe, or of a polled stream and within the overlap.
    The last clause is why a finished window must reach back.
    `Owing` adds that what is owed is dated since the running program's listener started, so a replay
    does reach back to it, and that nothing is owed while no program runs. The theorem does not say
    that nothing is lost, for finding 6 and the two notes on catch-up in section 6 show that some
    events are; it says that a loss happens only in the two kinds of step that count one (`Leaves` and
    `ProgramEnds`), and that whatever else the checkpoint has gone past was given or is still coming;
  - `OnceInv`, for **`EventsAreGivenOnce`**: the checkpoint *spares* every event given, but those its limits let go;
    an event given is remembered by `seen` or older than the program's listener, so no replay or live route
    brings it again; and the checkpoint of a window under way *trails* it: it stands where the window
    began, or before an event the window gave. Spared is not inductive alone: a window moves `through` back,
    and `Trails` bounds what it can so uncover to what it gave and lists. The theorem has one condition,
    `StaysLive`: a covered stream's route is not lost alone, without the connection, while a window is read
    or given. Then a window never reaches back further than its batches were saved for. Finding 5 is a behaviour that breaks
    the condition and the property, so it cannot be left out; polled streams, and ends of the
    program or of the connection at any moment, are not restricted.
- **Read state** (`ReadStateProofs`): the invariant says which slot owns each marker (`Owned`, `Single`), that
  versions only grow (`Flush`), that own markers are at least what any slot, backup or flight
  carries or are below the floor (`Kept`), what an operation under way means (`Underway`) and that an
  accepted revision is on the relay (`Acknowledged`). `AcceptedIsPublished` and `NeverRewound` follow.

Proved for all constants under each module's named assumption; the assumptions ask no more than
the types of the constants and the order of two limits, and TLC evaluates them on every run.

Only model-checked: `GivenOnce` of the catch-up without `StaysLive`, which is false for some constants (finding 5),
`ReadsWithNewCredentials`, and everything under fairness, `EverySendSettles`, `ForegroundAnswered`,
`NeverGivesUp` (liveness and `ENABLED` are out of the prover's reach). The type invariants of
`Pairing`, `ReadState` and `OutboxJournal` are parts of the proved invariants.

## 6. Findings

Each is a run that TLC refutes, stating what a comment or check of the code says.

1. `stale_adoption`: `recover()` puts back the record it read before an await (`outbox.ts:906`,
   `949`), over progress made meanwhile. An event accepted by the relay shows "sending" again
   without an attempt; retried and refused it shows "failed" (against `outbox.ts:241`). A signature
   made meanwhile is lost the same way.
2. `adopted_dismissed`: a `dismiss()` that waits for the receipt's lock still removes the receipt
   that a `recover()` adopted meanwhile, after the caller deleted its source (against
   `outbox.ts:946`).
3. `overfull`: sends made before hydration are counted without the saved ones; the combined
   journal then fails the check of `outbox.ts:465` at the next start, for good.
4. `two_owners`: a plain `acknowledge()` saved between a retirement and its replacement frees the
   key, which a new send may take before the replacement joins with it (against
   `outbox.ts:359`).
5. `given_twice`: while its route is live a window saves a cursor, and an event heard live that is
   not past the cursor (one of the same second that the relay stored after the page was read, or an
   earlier one) is not listed as heard. When the route drops before the window is finished,
   `admitted()` and `finished()` go on with an overlap: they drop the cursor and move `through` back
   below it, and list only what the window read (`catch-up.ts:468`). The live event is then
   undelivered again, and a restart before the next read wakes the agent twice for it
   (against `runner.ts:1255`). An event that was in the list of heard when the window was read is
   lost in the same way from `admitted()`, until `finished()` lists what the window read.
6. `lost_backlog`: a replayed event that waits in the runner's backlog, because the agent has no room
  for it, already counts as seen. A window that reads it therefore takes it without giving it
  (`runner.ts:1736`) and the checkpoint is saved past it; on a covered stream a tick does the same
  (`runner.ts:1408-1413`). When the program ends, the backlog is gone, and no window or replay brings
  the event (against `catch-up.ts:20`, every event up to `through` "was delivered or skipped", and
  `runner.ts:1681`, "a checkpoint saved past an event never drops or evicts it").

Noted while modelling, and not claimed by a run:

- *Journal*: a window with an old view that observes an echo may put back a recovery key another
  window has released, and a dismissal with an old view may delete a receipt that
  another window adopted. The run `shared` keeps these calls in different windows apart (`MCMay`).
- *Catch-up, full list*: when an event heard live while a window is being read pushes the list of heard
  events over `HEARD_LIMIT`, `heardOf` moves `through`; the window's own checkpoint, taken before, then
  moves it back, and the forgotten event may be given again if the program quits before its batch.
  `shrunk` and `forgot` in `GivenOnce` excuse the times that passed, or left the list, only because it was full.
- *Catch-up, overlap*: `overlapOf` asks the routes of the moment a window finishes, not those it was read
  under. A window read while the route was down finishes without overlap when the route has come
  back, so an event the relay stores late into it, before the route covers it, is passed: a
  replay brings it if the program's listener is older (`owed`), nothing otherwise (`lost`).
- *Catch-up, last second*: an event of a covered stream that is on its way when the program quits after a
  tick of the same second is past the checkpoint, and `lost`.

## 7. What is left

Worth modelling next, in this order: the follow-up queue and member additions as callers of
`recover()` and `acknowledge()` (each source is sent at least once and deleted only when a
receipt owns it); live routes and their gaps (`live.ts`, `live-recovery.ts`); peers' blobs and the retention
budget of the read state; sidebar registers as a join of devices; the jobs and turns of the
agent runner behind `CatchUp`.

Not modelled, and why:

- *Relay store, session, unread* and the other views: folds over verified events without
  concurrency of their own; what they give the outbox and recovery is modelled there.
- *Agent harness*: a protocol adapter around an external process.
- *Browser host broker*: a proxy; its admission is the modelled lane.
- *Plugin manager, agent controller, credentials, backups, Tauri host*: files, processes, keychain
  and cryptography.
- *Bundled interface plugins*: rendering of the state above.

The repository has about 370 000 lines, most of them interface, folds and conversions; the
modules cover the parts where order, failure and time decide.

## 8. Running

In this directory: `tlc -config delivery.cfg MCOutbox.tla` (likewise `outcomes`, `session` and the
findings on the outbox), `tlc -config receipts.cfg MCOnce.tla`,
`tlc -config given_twice.cfg MCCatchUp.tla`, `tlc -config lost_backlog.cfg MCCatchUp.tla`,
`tlc -config relay.cfg MCRelay.tla`, `tlc -config shared.cfg MCShared.tla`, and `tlapm` on each module
ending in `Proofs`.
