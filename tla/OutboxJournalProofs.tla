------------------------- MODULE OutboxJournalProofs -------------------------
(***************************************************************************)
(* Proofs about the journal that windows share, for any windows, events,   *)
(* keys and saves under way: no window deletes a row it did not let go     *)
(* itself, and nothing saved, inherited or adopted is lost.                *)
(*                                                                         *)
(* What carries them is what a window's memory says of its rows: a row     *)
(* that left its view was dismissed, evicted or given up, and one given up *)
(* is not among those its saves, whenever they end, believe to be its own. *)
(***************************************************************************)
EXTENDS OutboxJournal, TLAPS

\* Saves that wait and the save that runs.
Jobs == ({"status"} \X {NoId})
        \cup ({"acknowledge", "lock", "dismiss", "recover", "force"} \X Ids)
Rows == [Ids -> Row \cup {NoRow}]
Kinds == {"none", "status", "acknowledge", "dismiss", "recover", "force"}
Saves ==
  {s \in [step : {"none", "created", "committed"}, kind : Kinds, id : Ids \cup {NoId},
          next : Rows, puts : SUBSET Ids, deletes : SUBSET Ids, forgotten : SUBSET Ids] :
     s.kind \in {"none", "status"} \/ s.id \in Ids}
\* A row is adopted that the window shows, for a caller with a key.
Adoptions == {NotAdopting}
             \cup [step : {"read", "decide", "save"}, id : Ids, key : Keys, item : Row,
                   shared : Row \cup {NoRow}]

\* Every variable has its type.
JournalTypeOK ==
  /\ events \in Rows /\ migrated \in BOOLEAN /\ open \subseteq Windows
  /\ view \in [Windows -> Rows] /\ persisted \in [Windows -> Rows]
  /\ restored \in [Windows -> SUBSET Ids] /\ asked \in [Windows -> SUBSET Jobs]
  /\ save \in [Windows -> Saves] /\ adopting \in [Windows -> Adoptions]
  /\ found \in [Windows -> [key : Keys \cup {NoKey}, id : Ids \cup {NoId}]]
  /\ locks \in [Ids -> Windows \cup {NoWindow}]
  /\ used \subseteq Ids /\ kept \subseteq Ids /\ removed \subseteq Ids
  /\ dropped \in [Windows -> SUBSET Ids]

\* What a save takes away besides what its window has dropped.
Dismissed(s) == IF s.kind = "dismiss" THEN {s.id} ELSE {}

\* A window's memory of one row i: what it believes stored, or is about to believe,
\* and no longer shows, it has dropped.
Remembers(w, i) ==
  /\ persisted[w][i] # NoRow /\ view[w][i] = NoRow => i \in dropped[w]
  /\ save[w].step # "none" /\ save[w].next[i] # NoRow /\ view[w][i] = NoRow =>
       i \in save[w].forgotten \cup dropped[w]

\* A save writes rows it has, among them the row it is forced to write, and takes away
\* what it dismisses and what was dropped.
SaveIsOwn(w) ==
  LET s == save[w]
  IN  s.step # "none" =>
        /\ s.puts \subseteq In(s.next) /\ s.deletes \subseteq dropped[w] \cup Dismissed(s)
        /\ s.kind = "dismiss" => s.next[s.id] = NoRow
        /\ s.kind = "force" => {s.id} \cap In(s.next) \subseteq s.puts

\* The invariant of one window's memory.
MemoryInv ==
  \A w \in Windows : SaveIsOwn(w) /\ \A i \in Ids : Remembers(w, i)

\* A window that is closed has no memory.
ClosedForgets ==
  \A w \in Windows \ open : /\ asked[w] = {} /\ save[w] = NoSave
                            /\ found[w] = NotReading /\ adopting[w] = NotAdopting

\* Until the first save every window works on the legacy rows: it believes nothing
\* stored, shows every row it has not dropped, and would write all it shows. A row it
\* has not taken over has the key it had, which is why recovery() gives none of them up.
LegacyIn(w) ==
  /\ persisted[w] = Empty /\ restored[w] \subseteq In(Legacy)
  /\ \A i \in restored[w] : view[w][i].key \in Keys => view[w][i].key = Legacy[i].key
  /\ w \in open => In(Legacy) \subseteq In(view[w]) \cup dropped[w]
  /\ found[w] # NotReading =>
       /\ found[w].key \in Keys
       /\ IF found[w].id = NoId THEN \A j \in Ids : Legacy[j].key # found[w].key
                                ELSE Legacy[found[w].id].key = found[w].key
  /\ save[w].step # "none" =>
       /\ save[w].step = "created" /\ save[w].puts = In(save[w].next)
       /\ In(Legacy) \subseteq In(save[w].next) \cup dropped[w] \cup Dismissed(save[w])

BeforeMigration ==
  ~migrated => /\ events = Empty /\ kept = In(Legacy) /\ removed = {}
               /\ \A w \in Windows : LegacyIn(w)

\* The inductive invariant.
JournalInv == /\ JournalTypeOK /\ MemoryInv /\ ClosedForgets /\ In(Legacy) \subseteq used
              /\ BeforeMigration /\ NothingLost

----------------------------------------------------------------------------
\* Types.

\* A row is no missing row, and the initial values have their types.
LEMMA JournalValues ==
  /\ NoRow \notin Row /\ Empty \in Rows /\ NoSave \in Saves /\ NotAdopting \in Adoptions
  /\ NotReading \in [key : Keys \cup {NoKey}, id : Ids \cup {NoId}]
  /\ Legacy \in Rows /\ \A i \in Ids : Empty[i] = NoRow
  /\ \A r \in Row, k \in Keys \cup {NoKey, Released} : [r EXCEPT !.key = k] \in Row
BY JournalAssumption DEF Row, NoRow, Deliveries, Empty, Rows, NoSave, Saves, Kinds, NotAdopting,
  Adoptions, NotReading

\* A window asks for a save it can make.
LEMMA AskType ==
  ASSUME JournalTypeOK, NEW w \in Windows, NEW kind, NEW i, <<kind, i>> \in Jobs, Ask(w, kind, i)
  PROVE  asked' \in [Windows -> SUBSET Jobs]
BY DEF JournalTypeOK, Ask

\* The records of a save are rows.
LEMMA RecordsType ==
  ASSUME JournalTypeOK, NEW w \in Windows, NEW job \in Jobs
  PROVE  Records(w, job) \in Rows
<1>1. view[w] \in Rows
  BY DEF JournalTypeOK
<1>2. CASE job[1] = "dismiss"
  <2>1. job[2] \in Ids
    BY <1>2 DEF Jobs
  <2> QED BY <1>1, <1>2, <2>1, JournalValues DEF Records, Rows
<1>3. CASE job[1] = "acknowledge" /\ view[w][job[2]] # NoRow
  <2>1. job[2] \in Ids
    BY <1>3 DEF Jobs
  <2>2. view[w][job[2]] \in Row
    BY <1>1, <1>3, <2>1 DEF Rows
  <2>3. [view[w][job[2]] EXCEPT !.key = Released] \in Row
    BY <2>2, JournalValues
  <2>4. Records(w, job) = [view[w] EXCEPT ![job[2]] = [view[w][job[2]] EXCEPT !.key = Released]]
    BY <1>3 DEF Records
  <2> QED BY <1>1, <2>1, <2>3, <2>4 DEF Rows
<1>4. CASE job[1] # "dismiss" /\ ~(job[1] = "acknowledge" /\ view[w][job[2]] # NoRow)
  BY <1>1, <1>4 DEF Records
<1> QED BY <1>2, <1>3, <1>4

\* Every step keeps the types: the window's rows,
LEMMA RowsType ==
  ASSUME JournalTypeOK, NEW w \in Windows, NEW i \in Ids,
         \/ \E k \in Keys : Sends(w, i, k)
         \/ Retries(w, i) \/ Delivers(w, i) \/ Evicts(w, i) \/ Acknowledges(w, i)
         \/ Dismisses(w, i) \/ DismissalLocks(w, i)
  PROVE  JournalTypeOK'
<1> USE JournalValues DEF history, AskStatus
<1>0. view[w] \in Rows /\ (view[w][i].delivery # "none" => view[w][i] \in Row)
      /\ (view[w][i] # NoRow => view[w][i] \in Row)
      /\ \A kind \in {"acknowledge", "lock", "dismiss", "recover", "force"} :
           <<kind, i>> \in Jobs
      /\ <<"status", NoId>> \in Jobs
  BY DEF JournalTypeOK, Rows, Jobs, NoRow
<1>1. ASSUME NEW k \in Keys, Sends(w, i, k) PROVE JournalTypeOK'
  <2>1. asked' \in [Windows -> SUBSET Jobs]
    BY <1>0, <1>1, AskType DEF Sends
  <2>2. [key |-> k, delivery |-> "open"] \in Row
    BY DEF Row, Deliveries
  <2>3. view' \in [Windows -> Rows]
    BY <1>0, <1>1, <2>2 DEF Sends, JournalTypeOK, Rows
  <2> QED BY <1>1, <2>1, <2>3 DEF Sends, JournalTypeOK
<1>2. ASSUME Retries(w, i) PROVE JournalTypeOK'
  <2>1. asked' \in [Windows -> SUBSET Jobs]
    BY <1>0, <1>2, AskType DEF Retries
  <2>2. view[w][i] \in Row /\ "open" \in Deliveries
    BY <1>0, <1>2 DEF Retries, Deliveries
  <2>3. [view[w][i] EXCEPT !.delivery = "open"] \in Row
    BY <2>2 DEF Row
  <2>4. view' = [view EXCEPT ![w] = [view[w] EXCEPT ![i] = [view[w][i] EXCEPT !.delivery = "open"]]]
    BY <1>2 DEF Retries
  <2>5. view' \in [Windows -> Rows]
    BY <1>0, <2>3, <2>4 DEF JournalTypeOK, Rows
  <2> QED BY <1>2, <2>1, <2>5 DEF Retries, JournalTypeOK
<1>3. ASSUME Delivers(w, i) PROVE JournalTypeOK'
  <2>1. asked' \in [Windows -> SUBSET Jobs]
    BY <1>0, <1>3, AskType DEF Delivers
  <2>2. view[w][i] \in Row
    BY <1>0, <1>3 DEF Delivers
  <2>3. PICK d \in {"failed", "seen"} : view' = [view EXCEPT ![w][i].delivery = d]
    BY <1>3 DEF Delivers
  <2>4. [view[w][i] EXCEPT !.delivery = d] \in Row
    BY <2>2 DEF Deliveries, Row
  <2>5. view' = [view EXCEPT ![w] = [view[w] EXCEPT ![i] = [view[w][i] EXCEPT !.delivery = d]]]
    BY <2>3
  <2>6. view' \in [Windows -> Rows]
    BY <1>0, <2>4, <2>5 DEF JournalTypeOK, Rows
  <2> QED BY <1>3, <2>1, <2>6 DEF Delivers, JournalTypeOK
<1>4. ASSUME Evicts(w, i) PROVE JournalTypeOK'
  <2>1. asked' \in [Windows -> SUBSET Jobs]
    BY <1>0, <1>4, AskType DEF Evicts
  <2>2. view' \in [Windows -> Rows]
    BY <1>0, <1>4 DEF Evicts, JournalTypeOK, Rows
  <2> QED BY <1>4, <2>1, <2>2 DEF Evicts, JournalTypeOK
<1>5. ASSUME Acknowledges(w, i) \/ Dismisses(w, i) PROVE JournalTypeOK'
  <2>1. asked' \in [Windows -> SUBSET Jobs]
    BY <1>0, <1>5, AskType DEF Acknowledges, Dismisses
  <2> QED BY <1>5, <2>1 DEF Acknowledges, Dismisses, JournalTypeOK
<1>6. ASSUME DismissalLocks(w, i) PROVE JournalTypeOK'
  BY <1>0, <1>6 DEF DismissalLocks, Hold, JournalTypeOK
<1> QED BY <1>1, <1>2, <1>3, <1>4, <1>5, <1>6

\* its calls of recovery() and recover(),
LEMMA CallsType ==
  ASSUME JournalTypeOK, NEW w \in Windows,
         \/ WindowOpens(w) \/ WindowCloses(w) \/ RecoveryEnds(w)
         \/ \E k \in Keys : RecoveryReads(w, k)
         \/ \E i \in Ids, k \in Keys : AdoptionLocks(w, i, k)
         \/ AdoptionReads(w) \/ AdoptionDecides(w)
  PROVE  JournalTypeOK'
<1> USE JournalValues DEF history
<1>0. Stored \in Rows /\ In(Stored) \subseteq Ids
  BY DEF Stored, JournalTypeOK, In
<1>1. ASSUME WindowOpens(w) PROVE JournalTypeOK'
  BY <1>0, <1>1 DEF WindowOpens, JournalTypeOK
<1>2. ASSUME WindowCloses(w) PROVE JournalTypeOK'
  BY <1>2 DEF WindowCloses, JournalTypeOK
<1>3. ASSUME RecoveryEnds(w) PROVE JournalTypeOK'
  <2>1. CASE UNCHANGED <<view, restored, persisted, save>>
    BY <1>3, <2>1 DEF RecoveryEnds, JournalTypeOK
  <2>2. ASSUME NEW i \in Ids, view' = [view EXCEPT ![w][i] = NoRow],
               restored' = [restored EXCEPT ![w] = @ \ {i}], GivesUp(w, i)
        PROVE  JournalTypeOK'
    <3>1. view' \in [Windows -> Rows] /\ persisted' \in [Windows -> Rows]
      BY <2>2 DEF GivesUp, JournalTypeOK, Rows
    <3>2. save' \in [Windows -> Saves]
      BY <2>2 DEF GivesUp, JournalTypeOK, Saves
    <3> QED BY <1>3, <2>2, <3>1, <3>2 DEF RecoveryEnds, JournalTypeOK
  <2> QED BY <1>3, <2>1, <2>2 DEF RecoveryEnds
<1>4. ASSUME NEW k \in Keys, RecoveryReads(w, k) PROVE JournalTypeOK'
  BY <1>4 DEF RecoveryReads, JournalTypeOK
<1>5. ASSUME NEW i \in Ids, NEW k \in Keys, AdoptionLocks(w, i, k) PROVE JournalTypeOK'
  <2>1. view[w][i] \in Row
    BY <1>5 DEF JournalTypeOK, Rows, AdoptionLocks
  <2>2. [step |-> "read", id |-> i, key |-> k, item |-> view[w][i], shared |-> NoRow] \in Adoptions
    BY <2>1 DEF Adoptions
  <2> QED BY <1>5, <2>2 DEF AdoptionLocks, Hold, JournalTypeOK
<1>6. ASSUME AdoptionReads(w) PROVE JournalTypeOK'
  <2> DEFINE a == adopting[w]
             b == [a EXCEPT !.step = "decide", !.shared = Stored[a.id]]
  <2>1. a \in [step : {"read", "decide", "save"}, id : Ids, key : Keys, item : Row,
               shared : Row \cup {NoRow}]
    BY <1>6 DEF AdoptionReads, JournalTypeOK, Adoptions, NotAdopting
  <2>2. Stored[a.id] \in Row \cup {NoRow}
    BY <1>0, <2>1 DEF Rows
  <2>3. b \in Adoptions
    BY <2>1, <2>2 DEF Adoptions
  <2>4. adopting' = [adopting EXCEPT ![w] = b]
    BY <1>6 DEF AdoptionReads
  <2> QED BY <1>6, <2>3, <2>4 DEF AdoptionReads, JournalTypeOK
<1>7. ASSUME AdoptionDecides(w) PROVE JournalTypeOK'
  <2> DEFINE a == adopting[w]
             mine == a.id \notin restored[w]
             item == IF a.shared # NoRow /\ ~mine THEN a.shared ELSE a.item
             row == [item EXCEPT !.key = a.key]
             kind == IF a.shared = NoRow THEN "force" ELSE "recover"
  <2>1. a \in [step : {"read", "decide", "save"}, id : Ids, key : Keys, item : Row,
               shared : Row \cup {NoRow}]
    BY <1>7 DEF AdoptionDecides, JournalTypeOK, Adoptions, NotAdopting
  <2>2. item \in Row /\ a.key \in Keys /\ a.id \in Ids
    BY <2>1
  <2>3. row \in Row
    <3> HIDE DEF item
    <3> QED BY <2>2
  <2>4. CASE /\ adopting' = [adopting EXCEPT ![w] = NotAdopting]
             /\ Release(w, a.id)
             /\ UNCHANGED <<view, restored, asked>>
    BY <1>7, <2>4 DEF AdoptionDecides, Release, JournalTypeOK
  <2>5. CASE /\ adopting' = [adopting EXCEPT ![w].step = "save"]
             /\ view' = [view EXCEPT ![w][a.id] = row]
             /\ restored' = [restored EXCEPT ![w] = IF item.key = NoKey THEN @ \ {a.id} ELSE @]
             /\ Ask(w, kind, a.id)
             /\ UNCHANGED locks
    <3>1. <<kind, a.id>> \in Jobs
      BY <2>1 DEF Jobs
    <3>2. asked' \in [Windows -> SUBSET Jobs]
      <4> HIDE DEF kind, a
      <4> QED BY <2>5, <3>1, AskType
    <3>3. view' \in [Windows -> Rows]
      <4> HIDE DEF row, a
      <4> QED BY <2>2, <2>3, <2>5 DEF JournalTypeOK, Rows
    <3>4. [a EXCEPT !.step = "save"] \in Adoptions
      BY <2>1 DEF Adoptions
    <3>5. adopting' = [adopting EXCEPT ![w] = [a EXCEPT !.step = "save"]]
      BY <2>5
    <3>6. restored' \in [Windows -> SUBSET Ids]
      <4> HIDE DEF item, a
      <4> QED BY <2>5 DEF JournalTypeOK
    <3> QED BY <1>7, <2>5, <3>2, <3>3, <3>4, <3>5, <3>6 DEF AdoptionDecides, JournalTypeOK
  <2> QED BY <1>7, <2>4, <2>5 DEF AdoptionDecides
<1> QED BY <1>1, <1>2, <1>3, <1>4, <1>5, <1>6, <1>7

\* and its saves.
LEMMA SavesType ==
  ASSUME JournalTypeOK, NEW w \in Windows,
         SaveBegins(w) \/ SaveCommits(w) \/ SaveCompletes(w) \/ SaveFails(w)
  PROVE  JournalTypeOK'
<1> USE JournalValues DEF history
<1> DEFINE s == save[w]
<1>0. s \in Saves
  BY DEF JournalTypeOK
<1>1. ASSUME SaveBegins(w) PROVE JournalTypeOK'
  <2>1. PICK job \in asked[w] :
          /\ job[1] # "lock"
          /\ asked' = [asked EXCEPT ![w] = @ \ {job}]
          /\ save' = [save EXCEPT ![w] =
               [step |-> "created", kind |-> job[1], id |-> job[2], next |-> Records(w, job),
                puts |-> Puts(w, job), deletes |-> In(persisted[w]) \ In(Records(w, job)),
                forgotten |-> {}]]
    BY <1>1 DEF SaveBegins
  <2>2. job \in Jobs
    BY DEF JournalTypeOK
  <2>3. /\ job[1] \in Kinds /\ job[2] \in Ids \cup {NoId}
        /\ job[1] \in {"none", "status"} \/ job[2] \in Ids
    BY <2>1, <2>2 DEF Jobs, Kinds
  <2>4. Records(w, job) \in Rows
    BY <2>2, RecordsType
  <2>5. Puts(w, job) \subseteq Ids /\ In(persisted[w]) \subseteq Ids
    BY DEF Puts, In
  <2> DEFINE t == [step |-> "created", kind |-> job[1], id |-> job[2], next |-> Records(w, job),
                   puts |-> Puts(w, job), deletes |-> In(persisted[w]) \ In(Records(w, job)),
                   forgotten |-> {}]
  <2>6. t \in Saves
    BY <2>3, <2>4, <2>5 DEF Saves
  <2>8. save' = [save EXCEPT ![w] = t]
    BY <2>1
  <2>9. save' \in [Windows -> Saves]
    <3> HIDE DEF t
    <3> QED BY <2>6, <2>8 DEF JournalTypeOK
  <2>7. asked' \in [Windows -> SUBSET Jobs]
    BY <2>1 DEF JournalTypeOK
  <2> QED BY <1>1, <2>7, <2>9 DEF SaveBegins, JournalTypeOK
<1>2. ASSUME SaveCommits(w) PROVE JournalTypeOK'
  <2>1. events' \in Rows
    BY <1>0, <1>2 DEF SaveCommits, JournalTypeOK, Saves, Rows
  <2>2. save' \in [Windows -> Saves]
    BY <1>0, <1>2 DEF SaveCommits, JournalTypeOK, Saves
  <2>3. s.kind = "dismiss" => s.id \in Ids
    BY <1>0 DEF Saves
  <2>4. dropped' \in [Windows -> SUBSET Ids]
    BY <1>0, <1>2, <2>3 DEF SaveCommits, JournalTypeOK, Saves
  <2> QED BY <1>0, <1>2, <2>1, <2>2, <2>4 DEF SaveCommits, JournalTypeOK, Saves, In
<1>3. ASSUME AfterSave(w) PROVE /\ save' \in [Windows -> Saves]
                               /\ adopting' \in [Windows -> Adoptions]
                               /\ locks' \in [Ids -> Windows \cup {NoWindow}]
  BY <1>3 DEF AfterSave, Release, JournalTypeOK
<1>4. ASSUME SaveCompletes(w) PROVE JournalTypeOK'
  <2>1. persisted' \in [Windows -> Rows]
    BY <1>0, <1>4 DEF SaveCompletes, JournalTypeOK, Saves, Rows
  <2>2. ASSUME s.kind = "dismiss" PROVE view' \in [Windows -> Rows]
    <3>1. view' = [view EXCEPT ![w] = [view[w] EXCEPT ![s.id] = NoRow]] /\ s.id \in Ids
      BY <1>0, <1>4, <2>2 DEF SaveCompletes, Saves
    <3> QED BY <3>1 DEF JournalTypeOK, Rows
  <2>3. ASSUME s.kind = "acknowledge" /\ view[w][s.id] # NoRow PROVE view' \in [Windows -> Rows]
    <3> DEFINE r == [view[w][s.id] EXCEPT !.key = Released]
    <3>1. view' = [view EXCEPT ![w] = [view[w] EXCEPT ![s.id] = r]] /\ s.id \in Ids
      BY <1>0, <1>4, <2>3 DEF SaveCompletes, Saves
    <3>2. view[w][s.id] \in Row
      BY <2>3, <3>1 DEF JournalTypeOK, Rows
    <3>3. r \in Row
      BY <3>2
    <3> HIDE DEF r
    <3> QED BY <3>1, <3>3 DEF JournalTypeOK, Rows
  <2>4. ASSUME s.kind # "dismiss", ~(s.kind = "acknowledge" /\ view[w][s.id] # NoRow)
        PROVE  view' \in [Windows -> Rows]
    BY <1>4, <2>4 DEF SaveCompletes, JournalTypeOK
  <2>5. view' \in [Windows -> Rows]
    BY <2>2, <2>3, <2>4
  <2> QED BY <1>3, <1>4, <2>1, <2>5 DEF SaveCompletes, AfterSave, JournalTypeOK
<1>5. ASSUME SaveFails(w) PROVE JournalTypeOK'
  BY <1>3, <1>5 DEF SaveFails, AfterSave, JournalTypeOK
<1> QED BY <1>1, <1>2, <1>4, <1>5

----------------------------------------------------------------------------
\* Steps that write nothing and take no row out of a window's view.

\* found[w] is what recovery() read from rows.
ReadFrom(rows, w) ==
  /\ found[w].key \in Keys
  /\ IF found[w].id = NoId THEN \A j \in Ids : rows[j].key # found[w].key
                          ELSE rows[found[w].id].key = found[w].key

\* Such a step takes rows over, sends, delivers or adopts them, or reads the journal.
KeepsRows ==
  /\ UNCHANGED <<events, migrated, open, persisted, save, kept, dropped, removed>>
  /\ used \subseteq used'
  /\ \A w \in Windows :
       /\ restored'[w] \subseteq restored[w]
       /\ \A i \in Ids : view'[w][i] = NoRow => view[w][i] = NoRow
       /\ ~migrated => \A i \in restored'[w] : view'[w][i].key = view[w][i].key
       /\ found'[w] # found[w] => w \in open /\ ReadFrom(Stored, w)'
       /\ asked'[w] # asked[w] \/ adopting'[w] # adopting[w] => w \in open

\* It keeps the invariant.
LEMMA KeepsRowsKeeps ==
  ASSUME JournalInv, JournalTypeOK', KeepsRows
  PROVE  JournalInv'
<1>0. Stored' = Stored
  BY DEF KeepsRows, Stored, In
<1>1. MemoryInv'
  BY DEF JournalInv, MemoryInv, SaveIsOwn, Remembers, KeepsRows, In, Dismissed
<1>2. ClosedForgets'
  BY DEF JournalInv, ClosedForgets, KeepsRows
<1>3. (In(Legacy) \subseteq used)'
  BY DEF JournalInv, KeepsRows, In
<1>4. BeforeMigration'
  <2> SUFFICES ASSUME ~migrated, NEW w \in Windows PROVE LegacyIn(w)'
    BY DEF JournalInv, BeforeMigration, KeepsRows, In
  <2>0. LegacyIn(w) /\ events = Empty
    BY DEF JournalInv, BeforeMigration
  <2>1. Stored = Legacy
    BY <2>0, JournalValues DEF Stored, In
  <2>2. /\ persisted'[w] = Empty /\ restored'[w] \subseteq In(Legacy)
        /\ \A i \in restored'[w] : view'[w][i].key \in Keys => view'[w][i].key = Legacy[i].key
    BY <2>0 DEF LegacyIn, KeepsRows
  <2>3. w \in open' => In(Legacy) \subseteq In(view'[w]) \cup dropped'[w]
    BY <2>0 DEF LegacyIn, KeepsRows, In
  <2>4. found'[w] # NotReading => ReadFrom(Legacy, w)'
    BY <1>0, <2>0, <2>1 DEF LegacyIn, KeepsRows, ReadFrom
  <2> QED BY <2>0, <2>2, <2>3, <2>4 DEF LegacyIn, KeepsRows, In, Dismissed, ReadFrom
<1>5. NothingLost'
  BY <1>0 DEF JournalInv, NothingLost, KeepsRows, In
<1> QED BY <1>1, <1>2, <1>3, <1>4, <1>5 DEF JournalInv

\* Sends, retries, deliveries and calls that ask for a save are such steps,
LEMMA RowsStayKept ==
  ASSUME JournalInv, NEW w \in Windows, NEW i \in Ids,
         \/ \E k \in Keys : Sends(w, i, k)
         \/ Retries(w, i) \/ Delivers(w, i) \/ Acknowledges(w, i)
         \/ Dismisses(w, i) \/ DismissalLocks(w, i)
  PROVE  KeepsRows
<1> USE DEF history, AskStatus, Ask, JournalTypeOK
<1>0. /\ JournalTypeOK /\ In(Legacy) \subseteq used
      /\ ~migrated => restored[w] \subseteq In(Legacy)
      /\ view[w] \in Rows /\ view[w][i] \in Row \cup {NoRow}
  BY DEF JournalInv, BeforeMigration, LegacyIn, Rows
<1>1. ASSUME NEW k \in Keys, Sends(w, i, k) PROVE KeepsRows
  <2>1. /\ view' = [view EXCEPT ![w] = [view[w] EXCEPT ![i] = [key |-> k, delivery |-> "open"]]]
        /\ i \notin used /\ restored' = restored
    BY <1>1 DEF Sends
  <2>2. [key |-> k, delivery |-> "open"] # NoRow
    BY DEF NoRow
  <2>3. \A v \in Windows, j \in Ids :
          /\ view'[v][j] = NoRow => view[v][j] = NoRow
          /\ j # i => view'[v][j] = view[v][j]
          /\ v # w => view'[v] = view[v]
    BY <1>0, <2>1, <2>2 DEF Rows
  <2>4. ~migrated => i \notin restored'[w]
    BY <1>0, <2>1
  <2> QED BY <1>0, <1>1, <2>1, <2>3, <2>4 DEF Sends, KeepsRows
<1>2. ASSUME Retries(w, i) \/ Delivers(w, i) PROVE KeepsRows
  <2>1. PICK d \in Deliveries :
          view' = [view EXCEPT ![w] = [view[w] EXCEPT ![i] = [view[w][i] EXCEPT !.delivery = d]]]
    BY <1>2 DEF Retries, Delivers, Deliveries
  <2>2. view[w][i] \in Row
    BY <1>0, <1>2 DEF Retries, Delivers, NoRow
  <2>3. /\ [view[w][i] EXCEPT !.delivery = d] # NoRow
        /\ [view[w][i] EXCEPT !.delivery = d].key = view[w][i].key
    BY <2>2, JournalValues DEF Row
  <2>4. \A v \in Windows, j \in Ids : /\ view'[v][j] = NoRow => view[v][j] = NoRow
                                     /\ view'[v][j].key = view[v][j].key
    BY <1>0, <2>1, <2>3 DEF Rows
  <2>5. \A v \in Windows : restored'[v] \subseteq restored[v]
    BY <1>0, <1>2 DEF Retries, Delivers
  <2>6. \A v \in Windows : restored'[v] \subseteq Ids
    BY <1>0, <2>5
  <2> QED BY <1>0, <1>2, <2>4, <2>5, <2>6 DEF Retries, Delivers, KeepsRows
<1>3. ASSUME Acknowledges(w, i) \/ Dismisses(w, i) PROVE KeepsRows
  BY <1>0, <1>3 DEF Acknowledges, Dismisses, KeepsRows
<1>4. ASSUME DismissalLocks(w, i) PROVE KeepsRows
  <2>1. w \in open
    BY <1>4 DEF DismissalLocks, JournalInv, ClosedForgets
  <2> QED BY <1>0, <1>4, <2>1 DEF DismissalLocks, KeepsRows
<1> QED BY <1>1, <1>2, <1>3, <1>4

\* and so are reads of the journal and adoptions.
LEMMA CallsKeepRows ==
  ASSUME JournalInv, NEW w \in Windows,
         \/ \E k \in Keys : RecoveryReads(w, k)
         \/ \E i \in Ids, k \in Keys : AdoptionLocks(w, i, k)
         \/ AdoptionReads(w) \/ AdoptionDecides(w)
  PROVE  KeepsRows
<1> USE DEF history, JournalTypeOK
<1>0. JournalTypeOK /\ (adopting[w] # NotAdopting => w \in open)
  BY DEF JournalInv, ClosedForgets
<1>1. ASSUME NEW k \in Keys, RecoveryReads(w, k) PROVE KeepsRows
  <2>1. PICK i \in Ids \cup {NoId} :
          /\ IF i = NoId THEN \A j \in Ids : Stored[j].key # k ELSE Stored[i].key = k
          /\ found' = [found EXCEPT ![w] = [key |-> k, id |-> i]]
    BY <1>1 DEF RecoveryReads
  <2>2. Stored' = Stored
    BY <1>1 DEF RecoveryReads, Stored, In
  <2>3. ReadFrom(Stored, w)'
    BY <1>0, <2>1, <2>2 DEF ReadFrom
  <2> QED BY <1>0, <1>1, <2>1, <2>3 DEF RecoveryReads, KeepsRows
<1>2. ASSUME (\E i \in Ids, k \in Keys : AdoptionLocks(w, i, k)) \/ AdoptionReads(w) PROVE KeepsRows
  BY <1>0, <1>2 DEF AdoptionLocks, AdoptionReads, NotAdopting, KeepsRows
<1>3. ASSUME AdoptionDecides(w) PROVE KeepsRows
  <2> DEFINE a == adopting[w]
             mine == a.id \notin restored[w]
             item == IF a.shared # NoRow /\ ~mine THEN a.shared ELSE a.item
             row == [item EXCEPT !.key = a.key]
  <2>0. w \in open
    BY <1>0, <1>3 DEF AdoptionDecides, NotAdopting
  <2>1. a \in [step : {"read", "decide", "save"}, id : Ids, key : Keys, item : Row,
               shared : Row \cup {NoRow}]
    BY <1>0, <1>3 DEF AdoptionDecides, Adoptions, NotAdopting
  <2>a. /\ UNCHANGED <<events, migrated, open, persisted, save, found, kept, dropped, removed, used>>
        /\ \A v \in Windows : adopting'[v] # adopting[v] => v \in open
    BY <1>0, <1>3, <2>0 DEF AdoptionDecides
  <2>2. CASE UNCHANGED <<view, restored, asked>>
    BY <1>0, <2>2, <2>a DEF KeepsRows
  <2>3. ASSUME ~((a.shared = NoRow /\ ~mine) \/ a.shared.key = a.key
                 \/ (item.key # NoKey /\ item.key # a.key)),
               view' = [view EXCEPT ![w][a.id] = row],
               restored' = [restored EXCEPT ![w] = IF item.key = NoKey THEN @ \ {a.id} ELSE @]
        PROVE  KeepsRows
    <3>1. /\ a.id \notin restored'[w]
          /\ \A v \in Windows : restored'[v] \subseteq restored[v] /\ restored'[v] \subseteq Ids
      BY <1>0, <2>1, <2>3, JournalAssumption
    <3>2. row # NoRow
      <4>1. item \in Row
        BY <2>1
      <4> HIDE DEF item
      <4> QED BY <4>1, JournalAssumption DEF Row, NoRow, Deliveries
    <3>3. ASSUME NEW v \in Windows, NEW j \in Ids
          PROVE  /\ view'[v][j] = NoRow => view[v][j] = NoRow
                 /\ (v = w /\ j = a.id) \/ view'[v][j] = view[v][j]
      <4> HIDE DEF row, a
      <4> QED BY <1>0, <2>3, <3>2 DEF Rows
    <3>4. \A v \in Windows : \A j \in restored'[v] : view'[v][j].key = view[v][j].key
      <4> SUFFICES ASSUME NEW v \in Windows, NEW j \in restored'[v]
                   PROVE  view'[v][j].key = view[v][j].key
        OBVIOUS
      <4>1. j \in Ids /\ ~(v = w /\ j = a.id)
        BY <3>1
      <4> QED BY <3>3, <4>1
    <3>5. \A v \in Windows : asked'[v] # asked[v] => v \in open
      BY <1>0, <1>3, <2>0 DEF AdoptionDecides, Ask
    <3> HIDE DEF row, item, a, mine
    <3> QED BY <2>a, <3>1, <3>3, <3>4, <3>5 DEF KeepsRows
  <2> QED BY <1>3, <2>2, <2>3 DEF AdoptionDecides
<1> QED BY <1>1, <1>2, <1>3
----------------------------------------------------------------------------
\* The other steps.

\* A window that opens shows what is stored, and believes it stored once there is a store.
LEMMA WindowOpensKeeps ==
  ASSUME JournalInv, JournalTypeOK', NEW w \in Windows, WindowOpens(w)
  PROVE  JournalInv'
<1> USE DEF history
<1>0. /\ Stored' = Stored /\ w \notin open /\ save[w] = NoSave /\ found[w] = NotReading
      /\ NoSave.step = "none" /\ JournalTypeOK
  BY DEF WindowOpens, Stored, In, JournalInv, ClosedForgets, NoSave
<1>1. ASSUME NEW v \in Windows PROVE SaveIsOwn(v)' /\ \A i \in Ids : Remembers(v, i)'
  <2>1. CASE v # w
    BY <2>1, <1>0 DEF WindowOpens, JournalTypeOK, JournalInv, MemoryInv, SaveIsOwn, Remembers, In,
      Dismissed
  <2>2. CASE v = w
    BY <2>2, <1>0, JournalValues DEF WindowOpens, JournalTypeOK, SaveIsOwn, Remembers
  <2> QED BY <2>1, <2>2
<1>2. MemoryInv'
  BY <1>1 DEF MemoryInv
<1>3. ClosedForgets'
  BY DEF JournalInv, ClosedForgets, WindowOpens
<1>4. BeforeMigration'
  <2> SUFFICES ASSUME ~migrated, NEW v \in Windows PROVE LegacyIn(v)'
    BY DEF JournalInv, BeforeMigration, WindowOpens, In
  <2>0. LegacyIn(v) /\ events = Empty
    BY DEF JournalInv, BeforeMigration
  <2>1. Stored = Legacy
    BY <2>0, JournalValues DEF Stored, In
  <2>2. CASE v # w
    BY <2>0, <2>2, <1>0 DEF LegacyIn, WindowOpens, JournalTypeOK, In, Dismissed
  <2>3. CASE v = w
    BY <2>0, <2>1, <2>3, <1>0 DEF LegacyIn, WindowOpens, JournalTypeOK, In, Dismissed
  <2> QED BY <2>2, <2>3
<1> QED BY <1>0, <1>2, <1>3, <1>4 DEF JournalInv, WindowOpens, NothingLost, In

\* One that closes has no memory left.
LEMMA WindowClosesKeeps ==
  ASSUME JournalInv, JournalTypeOK', NEW w \in Windows, WindowCloses(w)
  PROVE  JournalInv'
<1> USE DEF history
<1>0. Stored' = Stored /\ NoSave.step = "none" /\ JournalTypeOK
  BY DEF WindowCloses, Stored, In, JournalInv, NoSave
<1>1. ASSUME NEW v \in Windows PROVE SaveIsOwn(v)' /\ \A i \in Ids : Remembers(v, i)'
  <2>1. CASE v # w
    BY <2>1, <1>0 DEF WindowCloses, JournalTypeOK, JournalInv, MemoryInv, SaveIsOwn, Remembers, In,
      Dismissed
  <2>2. CASE v = w
    BY <2>2, <1>0, JournalValues DEF WindowCloses, JournalTypeOK, SaveIsOwn, Remembers
  <2> QED BY <2>1, <2>2
<1>2. MemoryInv'
  BY <1>1 DEF MemoryInv
<1>3. ClosedForgets'
  BY <1>0 DEF JournalInv, ClosedForgets, WindowCloses, JournalTypeOK
<1>4. BeforeMigration'
  <2> SUFFICES ASSUME ~migrated, NEW v \in Windows PROVE LegacyIn(v)'
    BY DEF JournalInv, BeforeMigration, WindowCloses, In
  <2>0. LegacyIn(v)
    BY DEF JournalInv, BeforeMigration
  <2>1. CASE v # w
    BY <2>0, <2>1, <1>0 DEF LegacyIn, WindowCloses, JournalTypeOK, In, Dismissed
  <2>2. CASE v = w
    BY <2>0, <2>2, <1>0 DEF LegacyIn, WindowCloses, JournalTypeOK
  <2> QED BY <2>1, <2>2
<1> QED BY <1>0, <1>2, <1>3, <1>4 DEF JournalInv, WindowCloses, NothingLost, In

\* A row that is evicted is dropped.
LEMMA EvictsKeeps ==
  ASSUME JournalInv, JournalTypeOK', NEW w \in Windows, NEW i \in Ids, Evicts(w, i)
  PROVE  JournalInv'
<1>0. /\ Stored' = Stored /\ w \in open /\ JournalTypeOK /\ NoRow.key \notin Keys
      /\ UNCHANGED <<events, migrated, open, restored, persisted, save, found, adopting, used, kept,
                     removed>>
  BY JournalAssumption DEF Evicts, Stored, In, JournalInv, NoRow
<1>1. /\ i \in dropped'[w]
      /\ \A v \in Windows : dropped[v] \subseteq dropped'[v]
      /\ \A v \in Windows, j \in Ids : (v = w /\ j = i) \/ view'[v][j] = view[v][j]
      /\ view'[w][i] = NoRow
      /\ \A v \in Windows : v # w => asked'[v] = asked[v]
  BY <1>0 DEF Evicts, AskStatus, Ask, JournalTypeOK, Rows
<1>2. ASSUME NEW v \in Windows PROVE SaveIsOwn(v)' /\ \A j \in Ids : Remembers(v, j)'
  <2>1. SaveIsOwn(v) /\ \A j \in Ids : Remembers(v, j)
    BY DEF JournalInv, MemoryInv
  <2>2. SaveIsOwn(v)'
    BY <1>0, <1>1, <2>1 DEF SaveIsOwn, In, Dismissed
  <2>3. ASSUME NEW j \in Ids PROVE Remembers(v, j)'
    BY <1>0, <1>1, <2>1 DEF Remembers
  <2> QED BY <2>2, <2>3
<1>3. MemoryInv'
  BY <1>2 DEF MemoryInv
<1>4. ClosedForgets'
  BY <1>0, <1>1 DEF JournalInv, ClosedForgets
<1>5. BeforeMigration'
  <2> SUFFICES ASSUME ~migrated, NEW v \in Windows PROVE LegacyIn(v)'
    BY <1>0 DEF JournalInv, BeforeMigration, In
  <2>0. LegacyIn(v) /\ restored[v] \subseteq Ids
    BY <1>0 DEF JournalInv, BeforeMigration, JournalTypeOK
  <2>1. \A j \in restored[v] : view'[v][j].key \in Keys => view'[v][j].key = Legacy[j].key
    BY <1>0, <1>1, <2>0 DEF LegacyIn
  <2>2. v \in open => In(Legacy) \subseteq In(view'[v]) \cup dropped'[v]
    BY <1>1, <2>0 DEF LegacyIn, In
  <2>3. save[v].step # "none" =>
           In(Legacy) \subseteq In(save[v].next) \cup dropped'[v] \cup Dismissed(save[v])
    BY <1>1, <2>0 DEF LegacyIn
  <2> QED BY <1>0, <2>0, <2>1, <2>2, <2>3 DEF LegacyIn, In, Dismissed
<1> QED BY <1>0, <1>3, <1>4, <1>5 DEF JournalInv, NothingLost, In

\* recovery() gives up rows the window only read, and none of the legacy record: of those
\* the answer names the one with the key.
LEMMA RecoveryEndsKeeps ==
  ASSUME JournalInv, JournalTypeOK', NEW w \in Windows, RecoveryEnds(w)
  PROVE  JournalInv'
<1> USE DEF history
<1> DEFINE Left(i) == /\ i \in restored[w] /\ i # found[w].id /\ view[w][i].key = found[w].key
                      /\ view' = [view EXCEPT ![w] = [view[w] EXCEPT ![i] = NoRow]]
                      /\ restored' = [restored EXCEPT ![w] = @ \ {i}]
                      /\ GivesUp(w, i)
<1>0. /\ Stored' = Stored /\ JournalTypeOK /\ found[w] # NotReading
      /\ found' = [found EXCEPT ![w] = NotReading]
      /\ UNCHANGED <<events, migrated, open, asked, adopting, used, kept, dropped, removed>>
  BY DEF RecoveryEnds, Stored, In, JournalInv
<1>a. w \in open
  BY <1>0 DEF JournalInv, ClosedForgets
<1>b. UNCHANGED <<view, restored, persisted, save>> \/ \E i \in Ids : Left(i)
  BY DEF RecoveryEnds
<1>c. ASSUME NEW i \in Ids, Left(i)
      PROVE  /\ \A v \in Windows, j \in Ids : (v = w /\ j = i)
                                             \/ /\ view'[v][j] = view[v][j]
                                                /\ persisted'[v][j] = persisted[v][j]
             /\ persisted'[w][i] = NoRow
             /\ \A v \in Windows :
                  /\ save'[v].step = save[v].step /\ save'[v].kind = save[v].kind
                  /\ save'[v].id = save[v].id /\ save'[v].next = save[v].next
                  /\ save'[v].puts = save[v].puts /\ save'[v].deletes = save[v].deletes
                  /\ save[v].step # "none" => save[v].forgotten \subseteq save'[v].forgotten
             /\ save[w].step # "none" => i \in save'[w].forgotten
             /\ \A v \in Windows : v # w => save'[v] = save[v] /\ restored'[v] = restored[v]
  <2>1. save' = [save EXCEPT ![w] = [save[w] EXCEPT !.forgotten = IF save[w].step = "none" THEN {}
                                                                  ELSE save[w].forgotten \cup {i}]]
    BY <1>c DEF GivesUp
  <2>2. save[w] \in Saves /\ save \in [Windows -> Saves]
    BY <1>0 DEF JournalTypeOK
  <2>3. \A v \in Windows :
          /\ save'[v].step = save[v].step /\ save'[v].kind = save[v].kind
          /\ save'[v].id = save[v].id /\ save'[v].next = save[v].next
          /\ save'[v].puts = save[v].puts /\ save'[v].deletes = save[v].deletes
          /\ save[v].step # "none" => save[v].forgotten \subseteq save'[v].forgotten
    BY <2>1, <2>2 DEF Saves
  <2>4. /\ save[w].step # "none" => i \in save'[w].forgotten
        /\ \A v \in Windows : v # w => save'[v] = save[v]
    BY <2>1, <2>2 DEF Saves
  <2>5. /\ \A v \in Windows, j \in Ids : (v = w /\ j = i)
                                         \/ /\ view'[v][j] = view[v][j]
                                            /\ persisted'[v][j] = persisted[v][j]
        /\ persisted'[w][i] = NoRow
        /\ \A v \in Windows : v # w => restored'[v] = restored[v]
    BY <1>0, <1>c DEF GivesUp, JournalTypeOK, Rows
  <2> QED BY <2>3, <2>4, <2>5
<1>1. MemoryInv'
  <2>1. CASE UNCHANGED <<view, restored, persisted, save>>
    BY <2>1, <1>0 DEF JournalInv, MemoryInv, SaveIsOwn, Remembers, In, Dismissed
  <2>2. ASSUME NEW i \in Ids, Left(i), NEW v \in Windows
        PROVE  SaveIsOwn(v)' /\ \A j \in Ids : Remembers(v, j)'
    <3>1. SaveIsOwn(v) /\ \A j \in Ids : Remembers(v, j)
      BY DEF JournalInv, MemoryInv
    <3> HIDE DEF Left
    <3>2. SaveIsOwn(v)'
      BY <1>0, <1>c, <2>2, <3>1 DEF SaveIsOwn, In, Dismissed
    <3>3. ASSUME NEW j \in Ids PROVE Remembers(v, j)'
      <4>1. CASE v = w /\ j = i
        BY <1>0, <1>c, <2>2, <4>1 DEF Remembers
      <4>2. CASE ~(v = w /\ j = i)
        <5>1. view'[v][j] = view[v][j] /\ persisted'[v][j] = persisted[v][j]
          BY <1>c, <2>2, <4>2
        <5>2. /\ save'[v].step = save[v].step /\ save'[v].next = save[v].next
              /\ save[v].step # "none" => save[v].forgotten \subseteq save'[v].forgotten
          BY <1>c, <2>2
        <5> QED BY <1>0, <3>1, <5>1, <5>2 DEF Remembers
      <4> QED BY <4>1, <4>2
    <3> QED BY <3>2, <3>3
  <2> QED BY <1>b, <2>1, <2>2 DEF MemoryInv
<1>2. ClosedForgets'
  <2>1. \A v \in Windows : v # w => save'[v] = save[v] /\ found'[v] = found[v]
    BY <1>0, <1>b, <1>c
  <2> QED BY <1>0, <1>a, <2>1 DEF JournalInv, ClosedForgets
<1>3. BeforeMigration'
  <2> SUFFICES ASSUME ~migrated, NEW v \in Windows PROVE LegacyIn(v)'
    BY <1>0 DEF JournalInv, BeforeMigration, In
  <2>0. LegacyIn(v) /\ LegacyIn(w) /\ restored[w] \subseteq Ids
        /\ found[w].id \in Ids \cup {NoId}
    BY <1>0 DEF JournalInv, BeforeMigration, JournalTypeOK
  <2>1. ASSUME NEW i \in Ids, Left(i) PROVE FALSE
    <3>1. Legacy[i].key = found[w].key /\ found[w].key \in Keys /\ i # found[w].id
      BY <1>0, <2>0, <2>1 DEF LegacyIn
    <3>2. found[w].id = NoId => FALSE
      BY <1>0, <2>0, <3>1 DEF LegacyIn
    <3>3. found[w].id \in Ids /\ Legacy[found[w].id].key = found[w].key
      BY <1>0, <2>0, <3>2 DEF LegacyIn
    <3> QED BY <3>1, <3>3, JournalAssumption
  <2>2. UNCHANGED <<view, restored, persisted, save>>
    BY <1>b, <2>1
  <2>3. found'[v] # NotReading => found'[v] = found[v]
    BY <1>0 DEF JournalTypeOK
  <2> QED BY <1>0, <2>0, <2>2, <2>3 DEF LegacyIn, In, Dismissed
<1> QED BY <1>0, <1>1, <1>2, <1>3 DEF JournalInv, NothingLost, In

\* A save is made of what the window shows.
LEMMA SaveBeginsKeeps ==
  ASSUME JournalInv, JournalTypeOK', NEW w \in Windows, SaveBegins(w)
  PROVE  JournalInv'
<1> USE DEF history
<1>1. PICK job \in asked[w] :
        /\ job[1] # "lock" /\ save[w].step = "none"
        /\ asked' = [asked EXCEPT ![w] = @ \ {job}]
        /\ save' = [save EXCEPT ![w] =
             [step |-> "created", kind |-> job[1], id |-> job[2], next |-> Records(w, job),
              puts |-> Puts(w, job), deletes |-> In(persisted[w]) \ In(Records(w, job)),
              forgotten |-> {}]]
  BY DEF SaveBegins
<1>0. /\ Stored' = Stored /\ JournalTypeOK
      /\ UNCHANGED <<events, migrated, open, view, restored, persisted, found, adopting, used, kept,
                     dropped, removed>>
  BY DEF SaveBegins, Stored, In, JournalInv
<1>2. job \in Jobs /\ w \in open /\ view[w] \in Rows /\ persisted[w] \in Rows
  BY <1>0 DEF JournalTypeOK, JournalInv, ClosedForgets
<1> DEFINE next == Records(w, job)
<1>3. next \in Rows
  BY <1>0, <1>2, RecordsType
<1>4. /\ job[1] = "dismiss" => job[2] \in Ids /\ next[job[2]] = NoRow
      /\ \A j \in Ids : next[j] # NoRow => view[w][j] # NoRow
      /\ \A j \in Ids : view[w][j] # NoRow => next[j] # NoRow \/ (job[1] = "dismiss" /\ j = job[2])
  <2>1. CASE job[1] = "dismiss"
    <3>1. job[2] \in Ids
      BY <1>2, <2>1 DEF Jobs
    <3> QED BY <1>2, <2>1, <3>1 DEF Records, Rows
  <2>2. CASE job[1] = "acknowledge" /\ view[w][job[2]] # NoRow
    <3>1. job[2] \in Ids
      BY <1>2, <2>2 DEF Jobs
    <3>2. [view[w][job[2]] EXCEPT !.key = Released] # NoRow
      BY <1>2, <2>2, <3>1, JournalValues DEF Rows
    <3>3. next = [view[w] EXCEPT ![job[2]] = [view[w][job[2]] EXCEPT !.key = Released]]
      BY <2>2 DEF Records
    <3> HIDE DEF next
    <3> QED BY <1>2, <2>2, <3>1, <3>2, <3>3 DEF Rows
  <2>3. CASE job[1] # "dismiss" /\ ~(job[1] = "acknowledge" /\ view[w][job[2]] # NoRow)
    BY <2>3 DEF Records
  <2> QED BY <2>1, <2>2, <2>3
<1>5. job[1] = "force" => job = <<"force", job[2]>>
  BY <1>2 DEF Jobs
<1> HIDE DEF next
<1> DEFINE s == save'[w]
<1>6. /\ s.step = "created" /\ s.kind = job[1] /\ s.id = job[2] /\ s.next = next
      /\ s.puts = Puts(w, job) /\ s.deletes = In(persisted[w]) \ In(next) /\ s.forgotten = {}
      /\ \A v \in Windows : v # w => save'[v] = save[v] /\ asked'[v] = asked[v]
  BY <1>0, <1>1 DEF JournalTypeOK, next
<1>7. Puts(w, job) = {i \in In(next) : persisted[w][i] # next[i] \/ job = <<"force", i>>}
  BY DEF Puts, next
<1> HIDE DEF s
<1>8. ASSUME NEW v \in Windows PROVE SaveIsOwn(v)' /\ \A j \in Ids : Remembers(v, j)'
  <2>1. SaveIsOwn(v) /\ \A j \in Ids : Remembers(v, j)
    BY DEF JournalInv, MemoryInv
  <2>2. CASE v # w
    BY <1>0, <1>6, <2>1, <2>2 DEF SaveIsOwn, Remembers, In, Dismissed
  <2>3. CASE v = w
    <3>1. s.puts \subseteq In(s.next)
      BY <1>6, <1>7
    <3>2. s.deletes \subseteq dropped'[w] \cup Dismissed(s)
      <4> SUFFICES ASSUME NEW j \in Ids, persisted[w][j] # NoRow, next[j] = NoRow
                   PROVE  j \in dropped[w] \/ j \in Dismissed(s)
        BY <1>0, <1>6 DEF In
      <4> QED BY <1>4, <1>6, <2>1, <2>3 DEF Remembers, Dismissed
    <3>3. s.kind = "dismiss" => s.next[s.id] = NoRow
      BY <1>4, <1>6
    <3>4. s.kind = "force" => {s.id} \cap In(s.next) \subseteq s.puts
      BY <1>5, <1>6, <1>7
    <3>5. SaveIsOwn(w)'
      BY <1>0, <3>1, <3>2, <3>3, <3>4 DEF SaveIsOwn, s, In, Dismissed
    <3>6. \A j \in Ids : Remembers(w, j)'
      BY <1>0, <1>4, <1>6, <2>1, <2>3 DEF Remembers, s
    <3> QED BY <2>3, <3>5, <3>6
  <2> QED BY <2>2, <2>3
<1>9. MemoryInv'
  BY <1>8 DEF MemoryInv
<1>10. ClosedForgets'
  BY <1>0, <1>2, <1>6 DEF JournalInv, ClosedForgets
<1>11. BeforeMigration'
  <2> SUFFICES ASSUME ~migrated, NEW v \in Windows PROVE LegacyIn(v)'
    BY <1>0 DEF JournalInv, BeforeMigration, In
  <2>0. LegacyIn(v)
    BY DEF JournalInv, BeforeMigration
  <2>1. CASE v # w
    BY <1>0, <1>6, <2>0, <2>1 DEF LegacyIn, In, Dismissed
  <2>2. CASE v = w
    <3>1. \A j \in Ids : persisted[w][j] = NoRow
      BY <2>0, <2>2, JournalValues DEF LegacyIn
    <3>2. s.puts = In(next)
      BY <1>6, <1>7, <3>1 DEF In
    <3>3. In(Legacy) \subseteq In(view[w]) \cup dropped[w]
      BY <1>2, <2>0, <2>2 DEF LegacyIn
    <3>4. In(view[w]) \subseteq In(next) \cup Dismissed(s)
      BY <1>4, <1>6 DEF In, Dismissed
    <3>5. In(Legacy) \subseteq In(s.next) \cup dropped[w] \cup Dismissed(s)
      BY <1>6, <3>3, <3>4
    <3>6. /\ s.step = "created" /\ s.puts = In(s.next)
      BY <1>6, <3>2
    <3> QED BY <1>0, <2>0, <2>2, <3>5, <3>6 DEF LegacyIn, s, In, Dismissed
  <2> QED BY <2>1, <2>2
<1> QED BY <1>0, <1>9, <1>10, <1>11 DEF JournalInv, NothingLost, In

\* A save that commits takes away only what its window let go, also when it is the first
\* one and replaces the legacy record.
LEMMA SaveCommitsKeeps ==
  ASSUME JournalInv, JournalTypeOK', NEW w \in Windows, SaveCommits(w)
  PROVE  JournalInv'
<1> DEFINE s == save[w]
           let_go == dropped[w] \cup Dismissed(s)
<1>0. /\ JournalTypeOK /\ s \in Saves /\ s.step = "created" /\ SaveIsOwn(w)
      /\ UNCHANGED <<open, view, restored, persisted, asked, found, adopting, used>>
      /\ migrated' = TRUE /\ kept' = kept \cup s.puts
      /\ s.puts \subseteq In(s.next) /\ s.deletes \subseteq let_go
  BY DEF SaveCommits, JournalInv, JournalTypeOK, MemoryInv, SaveIsOwn
<1>1. events' = [i \in Ids |-> IF i \in s.puts THEN s.next[i]
                              ELSE IF i \in s.deletes THEN NoRow ELSE events[i]]
  BY DEF SaveCommits
<1>2. Stored' = events'
  BY <1>0 DEF Stored
<1>3. /\ dropped' = [dropped EXCEPT ![w] = let_go]
      /\ removed' = (removed \cup (let_go \cap (In(Stored) \ In(events')))) \
                      (s.puts \cup (IF s.kind = "force" THEN {s.id} \cap In(s.next) ELSE {}))
      /\ save' = [save EXCEPT ![w] = [s EXCEPT !.step = "committed"]]
  BY DEF SaveCommits, Dismissed
<1>4. /\ \A v \in Windows : dropped[v] \subseteq dropped'[v] /\ (v # w => save'[v] = save[v])
      /\ save'[w].step = "committed" /\ save'[w].kind = s.kind /\ save'[w].id = s.id
      /\ save'[w].next = s.next /\ save'[w].puts = s.puts /\ save'[w].deletes = s.deletes
      /\ save'[w].forgotten = s.forgotten
  BY <1>0, <1>3 DEF JournalTypeOK, Saves
<1>5. w \in open
  BY <1>0 DEF JournalInv, ClosedForgets, NoSave
<1>6. removed \ removed' \subseteq s.puts /\ (let_go \cap (In(Stored) \ In(events'))) \ removed' \subseteq s.puts
  BY <1>0, <1>3 DEF SaveIsOwn
<1>7. kept' \ removed' \subseteq In(Stored')
  <2> SUFFICES ASSUME NEW j \in kept', j \notin removed', events'[j] = NoRow PROVE FALSE
    BY <1>2 DEF JournalTypeOK, In
  <2>1. j \in Ids
    BY DEF JournalTypeOK
  <2>2. j \notin s.puts
    BY <1>0, <1>1, <2>1 DEF In
  <2>3. j \in In(Stored)
    BY <1>0, <1>6, <2>2 DEF JournalInv, NothingLost
  <2>4. j \notin In(events')
    BY DEF In
  <2>5. j \notin let_go
    BY <1>6, <2>2, <2>3, <2>4
  <2>6. events[j] = NoRow
    BY <1>0, <1>1, <2>1, <2>2, <2>5
  <2>7. ~migrated /\ Stored = Legacy
    BY <2>3, <2>6 DEF Stored, In
  <2>8. LegacyIn(w)
    BY <2>7 DEF JournalInv, BeforeMigration
  <2>9. s.puts = In(s.next) /\ In(Legacy) \subseteq In(s.next) \cup let_go
    BY <1>0, <2>8 DEF LegacyIn
  <2> QED BY <2>2, <2>3, <2>5, <2>7, <2>9
<1> HIDE DEF let_go, s
<1>8. ASSUME NEW v \in Windows PROVE SaveIsOwn(v)' /\ \A j \in Ids : Remembers(v, j)'
  <2>1. SaveIsOwn(v) /\ \A j \in Ids : Remembers(v, j)
    BY DEF JournalInv, MemoryInv
  <2>2. CASE v # w
    BY <1>0, <1>4, <2>1, <2>2 DEF SaveIsOwn, Remembers, In, Dismissed
  <2>3. CASE v = w
    BY <1>0, <1>4, <2>1, <2>3 DEF SaveIsOwn, Remembers, In, Dismissed, s
  <2> QED BY <2>2, <2>3
<1>9. MemoryInv'
  BY <1>8 DEF MemoryInv
<1>10. ClosedForgets'
  BY <1>0, <1>4, <1>5 DEF JournalInv, ClosedForgets
<1> QED BY <1>0, <1>2, <1>7, <1>9, <1>10 DEF JournalInv, BeforeMigration, NothingLost, In

\* A save that completed leaves the window with the rows it wrote, but those given up meanwhile.
LEMMA SaveCompletesKeeps ==
  ASSUME JournalInv, JournalTypeOK', NEW w \in Windows, SaveCompletes(w)
  PROVE  JournalInv'
<1> USE DEF history
<1> DEFINE s == save[w]
<1>0. /\ JournalTypeOK /\ s \in Saves /\ s.step = "committed" /\ SaveIsOwn(w) /\ view[w] \in Rows
      /\ UNCHANGED <<events, migrated, open, restored, asked, found, used, kept, dropped, removed>>
      /\ save' = [save EXCEPT ![w] = NoSave] /\ Stored' = Stored
      /\ \A v \in Windows : adopting'[v] # adopting[v] => adopting'[v] = NotAdopting
      /\ persisted' = [persisted EXCEPT ![w] =
           [i \in Ids |-> IF i \in s.forgotten THEN NoRow ELSE s.next[i]]]
  BY DEF SaveCompletes, AfterSave, JournalInv, JournalTypeOK, MemoryInv, Stored, In
<1>1. migrated
  <2> SUFFICES ASSUME ~migrated PROVE FALSE
    OBVIOUS
  <2>1. LegacyIn(w)
    BY DEF JournalInv, BeforeMigration
  <2> QED BY <1>0, <2>1 DEF LegacyIn
<1>2. /\ \A v \in Windows : v # w => view'[v] = view[v]
      /\ \A j \in Ids : view'[w][j] = NoRow => view[w][j] = NoRow \/ s.next[j] = NoRow
  <2>1. ASSUME s.kind = "dismiss"
        PROVE  /\ \A v \in Windows : v # w => view'[v] = view[v]
               /\ \A j \in Ids : view'[w][j] = NoRow => view[w][j] = NoRow \/ s.next[j] = NoRow
    <3>1. view' = [view EXCEPT ![w] = [view[w] EXCEPT ![s.id] = NoRow]] /\ s.next[s.id] = NoRow
      BY <1>0, <2>1 DEF SaveCompletes, SaveIsOwn
    <3> HIDE DEF s
    <3> QED BY <1>0, <3>1 DEF JournalTypeOK, Rows
  <2>2. ASSUME s.kind = "acknowledge" /\ view[w][s.id] # NoRow
        PROVE  /\ \A v \in Windows : v # w => view'[v] = view[v]
               /\ \A j \in Ids : view'[w][j] = NoRow => view[w][j] = NoRow
    <3> DEFINE r == [view[w][s.id] EXCEPT !.key = Released]
    <3>1. view' = [view EXCEPT ![w] = [view[w] EXCEPT ![s.id] = r]] /\ s.id \in Ids
      BY <1>0, <2>2 DEF SaveCompletes, Saves
    <3>2. r # NoRow
      BY <1>0, <2>2, <3>1, JournalValues DEF Rows
    <3> HIDE DEF s, r
    <3> QED BY <1>0, <3>1, <3>2 DEF JournalTypeOK, Rows
  <2>3. CASE s.kind # "dismiss" /\ ~(s.kind = "acknowledge" /\ view[w][s.id] # NoRow)
    BY <2>3 DEF SaveCompletes
  <2> QED BY <2>1, <2>2, <2>3
<1> HIDE DEF s
<1>3. /\ save'[w].step = "none"
      /\ \A v \in Windows : v # w => save'[v] = save[v] /\ persisted'[v] = persisted[v]
      /\ \A j \in Ids : persisted'[w][j] = IF j \in s.forgotten THEN NoRow ELSE s.next[j]
  BY <1>0 DEF JournalTypeOK, NoSave
<1>4. ASSUME NEW v \in Windows PROVE SaveIsOwn(v)' /\ \A j \in Ids : Remembers(v, j)'
  <2>1. SaveIsOwn(v) /\ \A j \in Ids : Remembers(v, j)
    BY DEF JournalInv, MemoryInv
  <2>2. CASE v # w
    BY <1>0, <1>2, <1>3, <2>1, <2>2 DEF SaveIsOwn, Remembers, In, Dismissed
  <2>3. CASE v = w
    BY <1>0, <1>2, <1>3, <2>1, <2>3 DEF SaveIsOwn, Remembers, s
  <2> QED BY <2>2, <2>3
<1>5. MemoryInv'
  BY <1>4 DEF MemoryInv
<1>6. ClosedForgets'
  <2>1. w \in open
    BY <1>0 DEF JournalInv, ClosedForgets, NoSave, s
  <2> QED BY <1>0, <1>3, <2>1 DEF JournalInv, ClosedForgets
<1> QED BY <1>0, <1>1, <1>5, <1>6 DEF JournalInv, BeforeMigration, NothingLost, In

\* One that failed is forgotten.
LEMMA SaveFailsKeeps ==
  ASSUME JournalInv, JournalTypeOK', NEW w \in Windows, SaveFails(w)
  PROVE  JournalInv'
<1> USE DEF history
<1>0. /\ JournalTypeOK /\ save[w].step = "created"
      /\ UNCHANGED <<events, migrated, open, restored, asked, found, view, persisted, used, kept,
                     dropped, removed>>
      /\ save' = [save EXCEPT ![w] = NoSave] /\ Stored' = Stored
      /\ \A v \in Windows : adopting'[v] # adopting[v] => adopting'[v] = NotAdopting
  BY DEF SaveFails, AfterSave, JournalInv, JournalTypeOK, Stored, In
<1>1. /\ save'[w].step = "none"
      /\ \A v \in Windows : v # w => save'[v] = save[v]
  BY <1>0 DEF JournalTypeOK, NoSave
<1>2. ASSUME NEW v \in Windows PROVE SaveIsOwn(v)' /\ \A j \in Ids : Remembers(v, j)'
  <2>1. SaveIsOwn(v) /\ \A j \in Ids : Remembers(v, j)
    BY DEF JournalInv, MemoryInv
  <2> QED BY <1>0, <1>1, <2>1 DEF SaveIsOwn, Remembers, In, Dismissed
<1>3. MemoryInv'
  BY <1>2 DEF MemoryInv
<1>4. ClosedForgets'
  <2>1. w \in open
    BY <1>0 DEF JournalInv, ClosedForgets, NoSave
  <2> QED BY <1>0, <1>1, <2>1 DEF JournalInv, ClosedForgets
<1>5. BeforeMigration'
  <2> SUFFICES ASSUME ~migrated, NEW v \in Windows PROVE LegacyIn(v)'
    BY <1>0 DEF JournalInv, BeforeMigration, In
  <2>0. LegacyIn(v)
    BY DEF JournalInv, BeforeMigration
  <2> QED BY <1>0, <1>1, <2>0 DEF LegacyIn, In, Dismissed
<1> QED BY <1>0, <1>3, <1>4, <1>5 DEF JournalInv, NothingLost, In

----------------------------------------------------------------------------
\* The theorems.

\* At the start no window has a memory and the journal is the legacy record.
LEMMA JournalStarts == JournalInit => JournalInv
<1> SUFFICES ASSUME JournalInit PROVE JournalInv
  OBVIOUS
<1> USE JournalValues DEF JournalInit
<1>0. In(Legacy) \subseteq Ids /\ In(Empty) = {} /\ NoSave.step = "none"
  BY DEF In, NoSave
<1>1. JournalTypeOK
  BY <1>0, JournalAssumption DEF JournalTypeOK
<1>2. MemoryInv
  BY <1>0 DEF MemoryInv, SaveIsOwn, Remembers
<1>3. BeforeMigration
  BY <1>0 DEF BeforeMigration, LegacyIn
<1>4. NothingLost
  BY <1>0 DEF NothingLost, Stored
<1> QED BY <1>0, <1>1, <1>2, <1>3, <1>4 DEF JournalInv, ClosedForgets

\* Every step keeps the invariant.
LEMMA JournalInductive ==
  ASSUME JournalInv, [JournalNext]_journal
  PROVE  JournalInv'
<1>1. CASE UNCHANGED journal
  BY <1>1 DEF journal, windows, history, JournalInv, JournalTypeOK, MemoryInv, SaveIsOwn, Remembers,
    ClosedForgets, BeforeMigration, LegacyIn, NothingLost, Stored, In, Dismissed
<1>2. ASSUME NEW w \in Windows,
             \/ WindowOpens(w) \/ WindowCloses(w) \/ RecoveryEnds(w)
             \/ AdoptionReads(w) \/ AdoptionDecides(w)
             \/ SaveBegins(w) \/ SaveCommits(w) \/ SaveCompletes(w) \/ SaveFails(w)
             \/ \E k \in Keys : RecoveryReads(w, k)
             \/ \E i \in Ids, k \in Keys : AdoptionLocks(w, i, k)
      PROVE  JournalInv'
  <2>1. JournalTypeOK'
    BY <1>2, CallsType, SavesType DEF JournalInv
  <2> QED BY <1>2, <2>1, CallsKeepRows, KeepsRowsKeeps, WindowOpensKeeps, WindowClosesKeeps,
             RecoveryEndsKeeps, SaveBeginsKeeps, SaveCommitsKeeps, SaveCompletesKeeps, SaveFailsKeeps
<1>3. ASSUME NEW w \in Windows, NEW i \in Ids,
             \/ \E k \in Keys : Sends(w, i, k)
             \/ Retries(w, i) \/ Delivers(w, i) \/ Evicts(w, i) \/ Acknowledges(w, i)
             \/ Dismisses(w, i) \/ DismissalLocks(w, i)
      PROVE  JournalInv'
  <2>1. JournalTypeOK'
    BY <1>3, RowsType DEF JournalInv
  <2>2. CASE Evicts(w, i)
    BY <2>1, <2>2, EvictsKeeps
  <2>3. CASE ~Evicts(w, i)
    BY <1>3, <2>1, <2>3, RowsStayKept, KeepsRowsKeeps
  <2> QED BY <2>2, <2>3
<1> QED BY <1>1, <1>2, <1>3 DEF JournalNext

\* In every reachable state the types hold, each window remembers what became of its
\* rows, and the journal has every row nobody let go.
THEOREM JournalInvariant == JournalSpec => []JournalInv
<1>1. JournalInv /\ [JournalNext]_journal => JournalInv'
  BY JournalInductive
<1> QED BY <1>1, JournalStarts, PTL DEF JournalSpec

\* What was saved, inherited from the legacy record or adopted again stays in the journal
\* until a window that dismissed or evicted it deletes it: whatever the windows, their
\* crashes and the order in which their saves commit, fail or complete.
THEOREM NothingIsLost == JournalSpec => []NothingLost
<1>1. JournalInv => NothingLost
  BY DEF JournalInv
<1> QED BY <1>1, JournalInvariant, PTL

\* A row leaves the store only when a save commits of a window that dropped it.
THEOREM DeletesAreOwn == JournalSpec => DeletesOnlyItsOwn
<1> DEFINE Own(i) == events[i] # NoRow /\ events'[i] = NoRow =>
                       \E w \in Windows : save[w].step = "created" /\ save'[w].step = "committed"
                                          /\ i \in dropped'[w]
<1>1. ASSUME JournalInv, [JournalNext]_journal, NEW i \in Ids PROVE Own(i)
  <2> SUFFICES ASSUME events[i] # NoRow, events'[i] = NoRow
               PROVE  \E w \in Windows : save[w].step = "created" /\ save'[w].step = "committed"
                                         /\ i \in dropped'[w]
    OBVIOUS
  <2>1. events' # events
    OBVIOUS
  <2>2. PICK w \in Windows : SaveCommits(w)
    <3>1. ASSUME NEW w \in Windows,
                 \/ WindowOpens(w) \/ WindowCloses(w) \/ RecoveryEnds(w)
                 \/ AdoptionReads(w) \/ AdoptionDecides(w)
                 \/ SaveBegins(w) \/ SaveCompletes(w) \/ SaveFails(w)
                 \/ \E k \in Keys : RecoveryReads(w, k)
          PROVE  FALSE
      BY <2>1, <3>1 DEF WindowOpens, WindowCloses, RecoveryEnds, AdoptionReads, AdoptionDecides,
        SaveBegins, SaveCompletes, SaveFails, AfterSave, RecoveryReads
    <3>2. ASSUME NEW w \in Windows, NEW j \in Ids,
                 \/ \E k \in Keys : Sends(w, j, k) \/ AdoptionLocks(w, j, k)
                 \/ Retries(w, j) \/ Delivers(w, j) \/ Evicts(w, j) \/ Acknowledges(w, j)
                 \/ Dismisses(w, j) \/ DismissalLocks(w, j)
          PROVE  FALSE
      BY <2>1, <3>2 DEF Retries, Delivers, Evicts, Acknowledges, Dismisses, DismissalLocks,
        AdoptionLocks, Sends
    <3>3. JournalNext
      BY <1>1, <2>1 DEF journal
    <3> QED BY <3>1, <3>2, <3>3 DEF JournalNext
  <2>3. save[w] \in Saves /\ SaveIsOwn(w) /\ save[w].step = "created"
    BY <1>1, <2>2 DEF JournalInv, JournalTypeOK, MemoryInv, SaveCommits
  <2>4. i \notin save[w].puts
    BY <2>2, <2>3 DEF SaveCommits, SaveIsOwn, In
  <2>5. i \in save[w].deletes
    BY <2>2, <2>4 DEF SaveCommits
  <2>6. i \in dropped[w] \cup Dismissed(save[w])
    BY <2>3, <2>5 DEF SaveIsOwn
  <2>7. i \in dropped'[w] /\ save'[w].step = "committed"
    BY <1>1, <2>2, <2>6 DEF SaveCommits, JournalInv, JournalTypeOK, Dismissed, Saves
  <2> QED BY <2>3, <2>7
<1>2. JournalInv /\ [JournalNext]_journal => [\A i \in Ids : Own(i)]_journal
  BY <1>1
<1> QED BY <1>2, JournalInvariant, PTL DEF JournalSpec, DeletesOnlyItsOwn
=============================================================================
