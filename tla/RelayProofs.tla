----------------------------- MODULE RelayProofs -----------------------------
(***************************************************************************)
(* Proofs about the three parts through which the client talks to a relay, *)
(* and about the system MCRelay composes of them, which TLC checks:        *)
(*   - the request lane: no ticket is lost or runs twice, no bound is      *)
(*     exceeded, and a ticket waits only for a slot, for any requests and  *)
(*     limits. Every change of the lane ends in pump(), so one lemma about *)
(*     Pump carries the proof;                                             *)
(*   - the send clock: its lead is earned, its sends are ordered, and      *)
(*     replies sort after what they answer, for every lead and clock;      *)
(*   - the recovery of background reads: the owner's timers and notice     *)
(*     agree with what the sources show, and the sequence of delays        *)
(*     restarts only after recovery or a signal, for any sources.          *)
(***************************************************************************)
EXTENDS MCRelay, FiniteSetTheorems, SequenceTheorems, WellFoundedInduction, TLAPS

----------------------------------------------------------------------------
\* The request lane.

Tickets(q) == {q[n] : n \in 1..Len(q)}
Single(q) == \A m, n \in 1..Len(q) : q[m] = q[n] => m = n

\* The inductive invariant.
LaneInv == LaneTypeOK /\ IsFiniteSet(running) /\ EveryTicketCounted /\ WaitsOnlyForSlots

\* A set of places has an oldest one.
LEMMA OldestExists ==
  ASSUME NEW places \in SUBSET Nat, places # {}
  PROVE  \E n \in places : \A m \in places : n <= m
<1> DEFINE R == {x \in Nat \X Nat : x[1] < x[2]}
<1>1. IsWellFoundedOn(R, Nat)
  BY NatLessThanWellFounded DEF OpToRel
<1>2. PICK n \in places : \A m \in places : ~(<<m, n>> \in R)
  BY <1>1, WFMin
<1>3. ASSUME NEW m \in places PROVE n <= m
  <2>1. m \in Nat /\ n \in Nat /\ <<m, n>> \in Nat \X Nat
    OBVIOUS
  <2>2. ~(m < n)
    BY <1>2, <2>1
  <2> QED BY <2>1, <2>2
<1> QED BY <1>3

\* The rank of a place among the kept ones numbers them from 1, each once.
LEMMA RankNumbers ==
  ASSUME NEW size \in Nat, NEW kept \in SUBSET (1..size)
  PROVE  /\ IsFiniteSet(kept) /\ Cardinality(kept) \in Nat
         /\ \A n \in kept : Cardinality({k \in kept : k <= n}) \in 1..Cardinality(kept)
         /\ \A m, n \in kept : Cardinality({k \in kept : k <= m}) = Cardinality({k \in kept : k <= n})
              => m = n
         /\ \A i \in 1..Cardinality(kept) :
              \E n \in kept : Cardinality({k \in kept : k <= n}) = i
<1> DEFINE rank == [n \in kept |-> Cardinality({k \in kept : k <= n})]
<1>1. IsFiniteSet(1..size) /\ IsFiniteSet(kept) /\ Cardinality(kept) \in Nat
  <2>1. 1 \in Int /\ size \in Int
    OBVIOUS
  <2>2. IsFiniteSet(1..size)
    BY <2>1, FS_Interval
  <2>3. IsFiniteSet(kept)
    BY <2>2, FS_Subset
  <2> QED BY <2>2, <2>3, FS_CardinalityType
<1>2. ASSUME NEW n \in kept PROVE rank[n] \in 1..Cardinality(kept)
  <2> DEFINE upto == {k \in kept : k <= n}
  <2>1. upto \in SUBSET kept /\ n \in upto
    OBVIOUS
  <2> HIDE DEF upto
  <2>2. IsFiniteSet(upto) /\ Cardinality(upto) \in Nat /\ Cardinality(upto) <= Cardinality(kept)
    BY <1>1, <2>1, FS_Subset, FS_CardinalityType
  <2>3. Cardinality(upto) # 0
    BY <2>1, <2>2, FS_EmptySet
  <2>4. rank[n] = Cardinality(upto)
    BY DEF upto
  <2> QED BY <1>1, <2>2, <2>3, <2>4
<1>3. ASSUME NEW m \in kept, NEW n \in kept, m < n PROVE rank[m] # rank[n]
  <2> DEFINE fewer == {k \in kept : k <= m}
             more == {k \in kept : k <= n}
  <2>1. m \in Nat /\ n \in Nat /\ \A k \in kept : k \in Nat
    OBVIOUS
  <2>2. more \in SUBSET kept /\ n \in more /\ n \notin fewer
    BY <1>3, <2>1
  <2>4. ASSUME NEW k \in fewer PROVE k \in more
    BY <1>3, <2>1
  <2>3. rank[m] = Cardinality(fewer) /\ rank[n] = Cardinality(more)
    OBVIOUS
  <2> HIDE DEF fewer, more
  <2>5. IsFiniteSet(more) /\ fewer \in SUBSET more
    BY <1>1, <2>2, <2>4, FS_Subset
  <2>6. Cardinality(more) = Cardinality(fewer) => more = fewer
    BY <2>5, FS_Subset
  <2> QED BY <2>2, <2>3, <2>6
<1>4. ASSUME NEW m \in kept, NEW n \in kept, rank[m] = rank[n] PROVE m = n
  <2>1. m \in Nat /\ n \in Nat
    OBVIOUS
  <2> QED BY <1>3, <1>4, <2>1
<1>5. rank \in Injection(kept, 1..Cardinality(kept))
  <2>1. rank \in [kept -> 1..Cardinality(kept)]
    BY <1>2
  <2> QED BY <2>1, <1>4 DEF Injection, IsInjective
<1>6. rank \in Surjection(kept, 1..Cardinality(kept))
  <2>1. /\ IsFiniteSet(1..Cardinality(kept))
        /\ Cardinality(1..Cardinality(kept)) = Cardinality(kept)
    BY <1>1, FS_Interval
  <2> QED BY <1>5, <2>1, FS_Injection
<1>7. ASSUME NEW i \in 1..Cardinality(kept) PROVE \E n \in kept : rank[n] = i
  BY <1>6 DEF Surjection
<1> QED BY <1>1, <1>2, <1>4, <1>7

\* A queue without the tickets gone holds the others, each once; it is shorter when one
\* of its tickets is gone.
LEMMA WithoutTickets ==
  ASSUME NEW q \in Seq(Requests), NEW gone, Single(q)
  PROVE  /\ Without(q, gone) \in Seq(Requests)
         /\ Single(Without(q, gone))
         /\ Tickets(Without(q, gone)) = Tickets(q) \ gone
         /\ Len(Without(q, gone)) <= Len(q)
         /\ \A n \in 1..Len(q) : q[n] \in gone => Len(Without(q, gone)) <= Len(q) - 1
<1> DEFINE w == Without(q, gone)
           kept == {n \in 1..Len(q) : q[n] \notin gone}
           Rank(n) == Cardinality({k \in kept : k <= n})
           At(i) == CHOOSE n \in kept : Rank(n) = i
<1>1. /\ Len(q) \in Nat /\ DOMAIN q = 1..Len(q)
      /\ \A m \in 1..Len(q) : q[m] \in Requests
  BY ElementOfSeq, LenProperties
<1>2. w = [i \in 1..Cardinality(kept) |-> q[At(i)]]
  BY <1>1 DEF Without
<1>3. kept \in SUBSET (1..Len(q)) /\ \A n \in 1..Len(q) : n \in kept <=> q[n] \notin gone
  OBVIOUS
<1> HIDE DEF kept
<1>4. /\ IsFiniteSet(kept) /\ Cardinality(kept) \in Nat
      /\ \A n \in kept : Rank(n) \in 1..Cardinality(kept)
      /\ \A m, n \in kept : Rank(m) = Rank(n) => m = n
      /\ \A i \in 1..Cardinality(kept) : \E n \in kept : Rank(n) = i
  BY <1>1, <1>3, RankNumbers
<1> HIDE DEF Rank
<1>5. \A i \in 1..Cardinality(kept) : At(i) \in kept /\ Rank(At(i)) = i
  BY <1>4
<1>6. \A n \in kept : At(Rank(n)) = n
  BY <1>4, <1>5
<1> HIDE DEF At
<1>7. w \in Seq(Requests) /\ Len(w) = Cardinality(kept)
  <2>1. w \in [1..Cardinality(kept) -> Requests]
    BY <1>1, <1>2, <1>3, <1>5
  <2>2. w \in Seq(Requests)
    BY <2>1, <1>4, IsASeq
  <2>3. DOMAIN w = 1..Cardinality(kept)
    BY <1>2
  <2> QED BY <2>2, <2>3, <1>4, LenProperties
<1> HIDE DEF w
<1>8. Single(w)
  <2>1. ASSUME NEW m \in 1..Len(w), NEW n \in 1..Len(w), w[m] = w[n] PROVE m = n
    <3>1. At(m) \in 1..Len(q) /\ At(n) \in 1..Len(q) /\ q[At(m)] = q[At(n)]
      BY <1>2, <1>3, <1>5, <1>7, <2>1
    <3>2. At(m) = At(n)
      BY <3>1 DEF Single
    <3> QED BY <3>2, <1>5, <1>7
  <2> QED BY <2>1 DEF Single
<1>9. Tickets(w) = Tickets(q) \ gone
  <2>1. ASSUME NEW m \in 1..Len(w) PROVE w[m] \in Tickets(q) \ gone
    BY <1>2, <1>3, <1>5, <1>7 DEF Tickets
  <2>2. ASSUME NEW m \in 1..Len(q), q[m] \notin gone PROVE q[m] \in Tickets(w)
    <3>1. m \in kept
      BY <2>2, <1>3
    <3>2. Rank(m) \in 1..Len(w) /\ w[Rank(m)] = q[m]
      BY <3>1, <1>2, <1>4, <1>6, <1>7
    <3> QED BY <3>2 DEF Tickets
  <2> QED BY <2>1, <2>2 DEF Tickets
<1>10. IsFiniteSet(1..Len(q)) /\ Cardinality(1..Len(q)) = Len(q)
  <2>1. ASSUME NEW size \in Nat PROVE IsFiniteSet(1..size) /\ Cardinality(1..size) = size
    <3>1. /\ IsFiniteSet(1..size)
          /\ Cardinality(1..size) = IF 1 > size THEN 0 ELSE size - 1 + 1
      BY FS_Interval
    <3> QED BY <3>1
  <2> QED BY <2>1, <1>1
<1>11. Cardinality(kept) <= Len(q) /\ (Cardinality(kept) = Len(q) => kept = 1..Len(q))
  BY <1>3, <1>10, FS_Subset
<1>12. ASSUME NEW n \in 1..Len(q), q[n] \in gone PROVE Len(w) <= Len(q) - 1
  <2>1. kept # 1..Len(q)
    BY <1>3, <1>12
  <2> QED BY <2>1, <1>1, <1>4, <1>7, <1>11
<1> QED BY <1>7, <1>8, <1>9, <1>11, <1>12 DEF w

\* Of the tickets whose start() does not throw, pump() comes to one first.
LEMMA NextPlaceExists ==
  ASSUME NEW q \in Seq(Requests), Startable(q) # {}
  PROVE  NextPlace(q) \in Startable(q)
<1> DEFINE urgent == {n \in Startable(q) : q[n] \in Foreground}
           places == IF urgent # {} THEN urgent ELSE Startable(q)
<1>1. Len(q) \in Nat /\ DOMAIN q = 1..Len(q)
  BY LenProperties
<1>2. places \in SUBSET Nat /\ places # {} /\ places \subseteq Startable(q)
  BY <1>1 DEF Startable
<1>3. PICK n \in places : \A m \in places : n <= m
  BY <1>2, OldestExists
<1>4. ASSUME NEW m \in Startable(q) PROVE m = n \/ Sooner(q, n, m)
  <2>1. m \in Nat /\ n \in Nat /\ n \in Startable(q)
    BY <1>1, <1>2 DEF Startable
  <2>2. CASE urgent # {}
    <3>1. places = urgent
      BY <2>2
    <3>2. q[n] \in Foreground
      BY <3>1
    <3>3. CASE q[m] \in Foreground
      <4>1. m \in places
        BY <3>1, <3>3
      <4> QED BY <4>1, <1>3, <2>1, <3>2, <3>3 DEF Sooner
    <3> QED BY <3>2, <3>3 DEF Sooner
  <2>3. CASE urgent = {}
    <3>1. places = Startable(q) /\ q[n] \notin Foreground /\ q[m] \notin Foreground
      BY <2>3, <2>1
    <3> QED BY <3>1, <1>3, <2>1 DEF Sooner
  <2> QED BY <2>2, <2>3
<1> QED BY <1>2, <1>4 DEF NextPlace

\* pump() loses no ticket, starts none twice, answers those whose start() throws, and
\* leaves one waiting only if every slot is taken.
LEMMA PumpKeeps ==
  ASSUME NEW q \in Seq(Requests), NEW busy \in SUBSET Requests, IsFiniteSet(busy),
         Single(q), Tickets(q) \cap busy = {}, Cardinality(busy) <= MaxActive,
         paused => q = <<>>, Len(q) > 1 => Cardinality(busy) >= MaxActive - 1,
         signalled \subseteq Requests, NEW replies \in [Requests -> Answers],
         {r \in Requests : replies[r] = "waiting"} = Tickets(q) \cup busy,
         Pump(q, busy, replies)
  PROVE  /\ queue' \in Seq(Requests) /\ running' \subseteq Requests /\ IsFiniteSet(running')
         /\ Single(queue') /\ Tickets(queue') \cap running' = {}
         /\ answered' \in [Requests -> Answers]
         /\ {r \in Requests : answered'[r] = "waiting"} = Tickets(queue') \cup running'
         /\ Cardinality(running') <= MaxActive
         /\ Cardinality(running') + Len(queue') <= Cardinality(busy) + Len(q)
         /\ queue' # <<>> => Cardinality(running') = MaxActive /\ ~paused
         /\ signalled' = signalled \cap Queued'
<1>0. /\ Len(q) \in Nat /\ Cardinality(busy) \in Nat /\ MaxActive \in Nat \ {0}
      /\ DOMAIN q = 1..Len(q) /\ (q # <<>> => Len(q) # 0)
      /\ \A n \in 1..Len(q) : q[n] \in Requests
  BY LenProperties, EmptySeq, ElementOfSeq, FS_CardinalityType, LaneAssumption
<1>s. signalled' = signalled \cap Queued'
  BY DEF Pump
<1>1. CASE q # <<>> /\ ~paused /\ Cardinality(busy) < MaxActive
  <2> DEFINE gone == Started(q) \cup Thrown(q)
  <2>1. /\ queue' = Without(q, gone) /\ running' = busy \cup Started(q)
        /\ answered' = [r \in Requests |-> IF r \in Thrown(q) THEN "cancelled" ELSE replies[r]]
    BY <1>1 DEF Pump
  <2>2. /\ queue' \in Seq(Requests) /\ Single(queue')
        /\ Tickets(queue') = Tickets(q) \ gone /\ Len(queue') <= Len(q)
        /\ \A n \in 1..Len(q) : q[n] \in gone => Len(queue') <= Len(q) - 1
    BY <2>1, WithoutTickets
  <2>3. Len(queue') \in Nat /\ (queue' # <<>> => Len(queue') # 0)
    BY <2>2, LenProperties, EmptySeq
  <2>4. Thrown(q) \subseteq Tickets(q) \cap signalled
    BY <1>0 DEF Thrown, Startable, Tickets
  <2>5. answered' \in [Requests -> Answers]
    BY <2>1 DEF Answers
  <2>6. {r \in Requests : answered'[r] = "waiting"} = (Tickets(q) \cup busy) \ Thrown(q)
    BY <2>1
  <2>7. CASE Startable(q) = {}
    <3>1. Started(q) = {}
      BY <2>7 DEF Started
    <3>2. Tickets(q) \subseteq Thrown(q)
      BY <1>0, <2>7 DEF Thrown, Startable, Tickets
    <3>3. Tickets(queue') = {} /\ running' = busy
      BY <2>1, <2>2, <3>1, <3>2
    <3>4. Len(queue') = 0
      <4>1. ASSUME Len(queue') # 0 PROVE FALSE
        <5>1. 1 \in 1..Len(queue')
          BY <4>1, <2>3
        <5>2. queue'[1] \in Tickets(queue')
          BY <5>1 DEF Tickets
        <5> QED BY <5>2, <3>3
      <4> QED BY <4>1
    <3> QED BY <1>0, <1>s, <2>2, <2>3, <2>4, <2>5, <2>6, <3>2, <3>3, <3>4
  <2>8. CASE Startable(q) # {}
    <3> DEFINE n == NextPlace(q)
    <3>1. n \in Startable(q) /\ Started(q) = {q[n]}
      BY <2>8, NextPlaceExists DEF Started
    <3> HIDE DEF n
    <3>2. n \in 1..Len(q) /\ q[n] \notin signalled
      BY <3>1, <1>0 DEF Startable
    <3>3. q[n] \in Requests /\ q[n] \in Tickets(q) /\ q[n] \notin busy /\ q[n] \notin Thrown(q)
      BY <1>0, <2>4, <3>2 DEF Tickets
    <3>4. running' = busy \cup {q[n]} /\ q[n] \in gone
      BY <2>1, <3>1
    <3>5. IsFiniteSet(running') /\ Cardinality(running') = Cardinality(busy) + 1
      BY <3>3, <3>4, FS_AddElement
    <3>6. Len(queue') <= Len(q) - 1
      BY <2>2, <3>2, <3>4
    <3>7. queue' # <<>> => Cardinality(running') = MaxActive
      BY <1>0, <1>1, <2>3, <3>5, <3>6
    <3>8. Tickets(queue') = (Tickets(q) \ Thrown(q)) \ {q[n]}
      BY <2>2, <3>1
    <3>9. Tickets(queue') \cap running' = {}
      BY <3>4, <3>8
    <3>10. {r \in Requests : answered'[r] = "waiting"} = Tickets(queue') \cup running'
      BY <2>4, <2>6, <3>3, <3>4, <3>8
    <3>11. /\ Cardinality(running') <= MaxActive /\ running' \subseteq Requests
           /\ Cardinality(running') + Len(queue') <= Cardinality(busy) + Len(q)
      BY <1>0, <1>1, <2>3, <3>3, <3>4, <3>5, <3>6
    <3> QED BY <1>1, <1>s, <2>2, <2>5, <3>5, <3>7, <3>9, <3>10, <3>11
  <2> QED BY <2>7, <2>8
<1>2. CASE ~(q # <<>> /\ ~paused /\ Cardinality(busy) < MaxActive)
  <2>1. queue' = q /\ running' = busy /\ answered' = replies
    BY <1>2 DEF Pump
  <2> QED BY <2>1, <1>2, <1>0, <1>s
<1> QED BY <1>1, <1>2

\* What a step that ends in pump() has to show: its new tickets are what is asked and
\* not answered, and the bounds hold before it pumps.
LEMMA PumpedLane ==
  ASSUME NEW q \in Seq(Requests), NEW busy \in SUBSET Requests, IsFiniteSet(busy),
         Single(q), Tickets(q) \cap busy = {}, Cardinality(busy) <= MaxActive,
         paused => q = <<>>, Len(q) > 1 => Cardinality(busy) >= MaxActive - 1,
         NEW replies \in [Requests -> Answers],
         {r \in Requests : replies[r] = "waiting"} = Tickets(q) \cup busy,
         Pump(q, busy, replies), UNCHANGED <<paused, presence, cooling>>, LaneTypeOK,
         Cardinality(busy) + Len(q) + (IF presence = "busy" THEN 2 ELSE 0) <= MaxPreparing
  PROVE  LaneInv'
<1>1. /\ queue' \in Seq(Requests) /\ running' \subseteq Requests /\ IsFiniteSet(running')
      /\ Single(queue') /\ Tickets(queue') \cap running' = {}
      /\ answered' \in [Requests -> Answers]
      /\ {r \in Requests : answered'[r] = "waiting"} = Tickets(queue') \cup running'
      /\ Cardinality(running') <= MaxActive
      /\ Cardinality(running') + Len(queue') <= Cardinality(busy) + Len(q)
      /\ queue' # <<>> => Cardinality(running') = MaxActive /\ ~paused
      /\ signalled' = signalled \cap Queued'
  BY PumpKeeps DEF LaneTypeOK
<1>2. DOMAIN queue' = 1..Len(queue')
  BY <1>1, LenProperties
<1>3. LaneTypeOK'
  BY <1>1 DEF LaneTypeOK
<1>4. EveryTicketCounted'
  <2>1. Queued' = Tickets(queue')
    BY <1>2 DEF Queued, Tickets
  <2>2. Preparing' <= MaxPreparing
    <3>1. /\ Len(q) \in Nat /\ Len(queue') \in Nat /\ MaxPreparing \in Nat
          /\ Cardinality(busy) \in Nat /\ Cardinality(running') \in Nat
      BY <1>1, LenProperties, FS_CardinalityType, LaneAssumption
    <3> QED BY <1>1, <3>1 DEF Preparing
  <2> QED BY <1>1, <1>2, <2>1, <2>2 DEF EveryTicketCounted, Single
<1>5. WaitsOnlyForSlots'
  BY <1>1 DEF WaitsOnlyForSlots
<1> QED BY <1>1, <1>3, <1>4, <1>5 DEF LaneInv

\* The lane's facts in the terms of the lemmas.
LEMMA LaneFacts ==
  ASSUME LaneInv
  PROVE  /\ queue \in Seq(Requests) /\ Len(queue) \in Nat /\ DOMAIN queue = 1..Len(queue)
         /\ Queued = Tickets(queue) /\ Single(queue) /\ (queue # <<>> <=> Len(queue) # 0)
         /\ \A n \in 1..Len(queue) : queue[n] \in Requests
         /\ running \in SUBSET Requests /\ IsFiniteSet(running)
         /\ Cardinality(running) \in Nat /\ Cardinality(running) <= MaxActive
         /\ Tickets(queue) \cap running = {}
         /\ {r \in Requests : answered[r] = "waiting"} = Tickets(queue) \cup running
         /\ Preparing <= MaxPreparing /\ answered \in [Requests -> Answers]
         /\ signalled \subseteq Tickets(queue)
         /\ queue # <<>> => Cardinality(running) = MaxActive /\ ~paused
         /\ MaxActive \in Nat \ {0} /\ MaxPreparing \in Nat /\ MaxQueue \in Nat
<1>1. queue \in Seq(Requests)
  BY DEF LaneInv, LaneTypeOK
<1>2. /\ Len(queue) \in Nat /\ DOMAIN queue = 1..Len(queue) /\ (queue # <<>> <=> Len(queue) # 0)
      /\ \A n \in 1..Len(queue) : queue[n] \in Requests
  BY <1>1, LenProperties, EmptySeq, ElementOfSeq
<1>3. Queued = Tickets(queue) /\ Single(queue)
  BY <1>2 DEF Queued, Tickets, Single, LaneInv, EveryTicketCounted
<1>4. Cardinality(running) \in Nat
  BY FS_CardinalityType DEF LaneInv
<1> QED BY <1>1, <1>2, <1>3, <1>4, LaneAssumption
     DEF LaneInv, LaneTypeOK, EveryTicketCounted, WaitsOnlyForSlots

LEMMA InitLane == LaneInit => LaneInv
<1> SUFFICES ASSUME LaneInit PROVE LaneInv
  OBVIOUS
<1>1. /\ queue = <<>> /\ Len(queue) = 0 /\ DOMAIN queue = {} /\ running = {}
      /\ signalled = {}
      /\ answered = [r \in Requests |-> "result"] /\ presence = "free"
      /\ paused = FALSE /\ cooling = FALSE /\ queue \in Seq(Requests)
  BY EmptySeq DEF LaneInit
<1>2. IsFiniteSet(running) /\ Cardinality(running) = 0
  BY <1>1, FS_EmptySet
<1>3. Queued = {} /\ Preparing = 0
  BY <1>1, <1>2 DEF Queued, Preparing
<1>4. LaneTypeOK
  BY <1>1 DEF LaneTypeOK, Answers
<1>5. EveryTicketCounted
  BY <1>1, <1>2, <1>3, LaneAssumption DEF EveryTicketCounted
<1>6. WaitsOnlyForSlots
  BY <1>1 DEF WaitsOnlyForSlots
<1> QED BY <1>2, <1>4, <1>5, <1>6 DEF LaneInv

LEMMA RequestLane ==
  ASSUME LaneInv, NEW r \in Requests, Request(r)
  PROVE  LaneInv'
<1> DEFINE refusal == IF paused THEN "paused"
                      ELSE IF Preparing >= MaxPreparing \/ Len(queue) >= MaxQueue
                           THEN "capacity" ELSE "waiting"
           replies == [answered EXCEPT ![r] = refusal]
<1>1. /\ answered[r] # "waiting"
      /\ UNCHANGED <<paused, presence, cooling>>
  BY DEF Request
<1>2. CASE refusal = "waiting"
  <2> DEFINE q == Append(queue, r)
  <2>1. Pump(q, running, replies) /\ ~paused /\ ~(Preparing >= MaxPreparing)
    BY <1>2 DEF Request
  <2>2. /\ q \in Seq(Requests) /\ Len(q) = Len(queue) + 1
        /\ \A i \in 1..Len(queue) : q[i] = queue[i]
        /\ q[Len(queue) + 1] = r
    BY LaneFacts, AppendProperties
  <2> HIDE DEF q
  <2>3. r \notin Tickets(queue) \cup running
    BY <1>1, LaneFacts
  <2>4. Tickets(q) = Tickets(queue) \cup {r}
    BY <2>2, LaneFacts DEF Tickets
  <2>5. Single(q)
    BY <2>2, <2>3, LaneFacts DEF Single, Tickets
  <2>6. Len(q) > 1 => Cardinality(running) >= MaxActive - 1
    BY <2>2, LaneFacts
  <2>7. Cardinality(running) + Len(q) + (IF presence = "busy" THEN 2 ELSE 0) <= MaxPreparing
    BY <2>1, <2>2, LaneFacts DEF Preparing
  <2>8. /\ replies \in [Requests -> Answers]
        /\ {s \in Requests : replies[s] = "waiting"} = Tickets(q) \cup running
    BY <1>1, <1>2, <2>4, LaneFacts DEF Answers
  <2>9. Tickets(q) \cap running = {}
    BY <2>3, <2>4, LaneFacts
  <2>10. LaneTypeOK /\ IsFiniteSet(running) /\ Cardinality(running) <= MaxActive
         /\ running \in SUBSET Requests
    BY LaneFacts DEF LaneInv
  <2> HIDE DEF replies
  <2> QED BY <1>1, <2>1, <2>2, <2>5, <2>6, <2>7, <2>8, <2>9, <2>10, PumpedLane
<1>3. CASE refusal # "waiting"
  <2>1. UNCHANGED <<queue, signalled, running>> /\ answered' = replies
    BY <1>3 DEF Request
  <2>2. answered' \in [Requests -> Answers]
    BY <2>1, LaneFacts DEF Answers
  <2>3. {s \in Requests : answered'[s] = "waiting"} = {s \in Requests : answered[s] = "waiting"}
    BY <1>1, <1>3, <2>1, LaneFacts
  <2> HIDE DEF refusal, replies
  <2> QED BY <1>1, <2>1, <2>2, <2>3
       DEF LaneInv, LaneTypeOK, EveryTicketCounted, WaitsOnlyForSlots, Queued, Preparing
<1> QED BY <1>2, <1>3

LEMMA FinishLane ==
  ASSUME LaneInv, NEW r \in Requests, Finish(r)
  PROVE  LaneInv'
<1> DEFINE busy == running \ {r}
           replies == [answered EXCEPT ![r] = "result"]
<1>1. /\ r \in running /\ Pump(queue, busy, replies) /\ UNCHANGED <<paused, presence, cooling>>
  BY DEF Finish
<1>2. IsFiniteSet(busy) /\ Cardinality(busy) = Cardinality(running) - 1
  BY <1>1, LaneFacts, FS_RemoveElement
<1>3. /\ replies \in [Requests -> Answers]
      /\ {s \in Requests : replies[s] = "waiting"} = Tickets(queue) \cup busy
  BY <1>1, LaneFacts DEF Answers
<1>4. busy \in SUBSET Requests /\ Tickets(queue) \cap busy = {}
  BY LaneFacts
<1> HIDE DEF busy, replies
<1>5. /\ Cardinality(busy) <= MaxActive
      /\ paused => queue = <<>>
      /\ Len(queue) > 1 => Cardinality(busy) >= MaxActive - 1
  BY <1>2, LaneFacts
<1>6. Cardinality(busy) + Len(queue) + (IF presence = "busy" THEN 2 ELSE 0) <= MaxPreparing
  BY <1>2, LaneFacts DEF Preparing
<1>7. queue \in Seq(Requests) /\ Single(queue) /\ LaneTypeOK
  BY LaneFacts DEF LaneInv
<1> QED BY <1>1, <1>2, <1>3, <1>4, <1>5, <1>6, <1>7, PumpedLane

LEMMA AbortLane ==
  ASSUME LaneInv, NEW n \in DOMAIN queue, Abort(n)
  PROVE  LaneInv'
<1> DEFINE q == Without(queue, {queue[n]})
           replies == [answered EXCEPT ![queue[n]] = "cancelled"]
<1>0. n \in 1..Len(queue)
  BY LaneFacts
<1>1. Pump(q, running, replies) /\ UNCHANGED <<paused, presence, cooling>>
  BY DEF Abort
<1>2. /\ q \in Seq(Requests) /\ Len(q) <= Len(queue) - 1 /\ Single(q)
      /\ Tickets(q) = Tickets(queue) \ {queue[n]}
      /\ Len(q) \in Nat /\ (Len(q) = 0 <=> q = <<>>)
  BY <1>0, LaneFacts, WithoutTickets, LenProperties, EmptySeq
<1> HIDE DEF q
<1>3. queue[n] \in Requests /\ queue[n] \in Tickets(queue) /\ queue[n] \notin running
  BY <1>0, LaneFacts DEF Tickets
<1>4. /\ replies \in [Requests -> Answers]
      /\ {s \in Requests : replies[s] = "waiting"} = Tickets(q) \cup running
  BY <1>2, <1>3, LaneFacts DEF Answers
<1> HIDE DEF replies
<1>5. /\ Tickets(q) \cap running = {}
      /\ paused => q = <<>>
      /\ Len(q) > 1 => Cardinality(running) >= MaxActive - 1
  BY <1>0, <1>2, LaneFacts
<1>6. Cardinality(running) + Len(q) + (IF presence = "busy" THEN 2 ELSE 0) <= MaxPreparing
  BY <1>2, LaneFacts DEF Preparing
<1>7. /\ LaneTypeOK /\ IsFiniteSet(running) /\ Cardinality(running) <= MaxActive
      /\ running \in SUBSET Requests
  BY LaneFacts DEF LaneInv
<1> QED BY <1>1, <1>2, <1>4, <1>5, <1>6, <1>7, PumpedLane

LEMMA PauseLane ==
  ASSUME LaneInv, Pause
  PROVE  LaneInv'
<1>1. /\ paused' = TRUE /\ queue' = <<>> /\ signalled' = {} /\ UNCHANGED <<running, presence, cooling>>
      /\ answered' = [r \in Requests |-> IF r \in Queued THEN "paused" ELSE answered[r]]
  BY DEF Pause
<1>2. /\ queue' \in Seq(Requests) /\ Len(queue') = 0 /\ DOMAIN queue' = {}
  BY <1>1, EmptySeq
<1>3. answered' \in [Requests -> Answers]
  BY <1>1, LaneFacts DEF Answers
<1>4. {r \in Requests : answered'[r] = "waiting"} = running
  BY <1>1, LaneFacts
<1>5. LaneTypeOK' /\ IsFiniteSet(running')
  BY <1>1, <1>2, <1>3 DEF LaneInv, LaneTypeOK
<1>6. EveryTicketCounted'
  <2>1. Queued' = {}
    BY <1>2 DEF Queued
  <2>2. Preparing' <= MaxPreparing
    BY <1>1, <1>2, LaneFacts DEF Preparing
  <2> QED BY <1>1, <1>2, <1>4, <2>1, <2>2, LaneFacts DEF EveryTicketCounted
<1>7. WaitsOnlyForSlots'
  BY <1>1 DEF WaitsOnlyForSlots
<1> QED BY <1>5, <1>6, <1>7 DEF LaneInv

\* A signal that aborts leaves the tickets alone until its listeners run.
LEMMA SignalsLane ==
  ASSUME LaneInv, NEW aborting \in SUBSET (Queued \ signalled), Signals(aborting)
  PROVE  LaneInv'
<1>1. /\ UNCHANGED <<queue, running, answered, paused, presence, cooling>>
      /\ signalled' \subseteq Tickets(queue)
  BY LaneFacts DEF Signals
<1>2. signalled' \subseteq Requests
  BY <1>1, LaneFacts DEF Tickets
<1> QED BY <1>1, <1>2, LaneFacts
     DEF LaneInv, LaneTypeOK, EveryTicketCounted, WaitsOnlyForSlots, Queued, Preparing

\* The steps of the cooldown and of the presence snapshot leave the tickets alone.
LEMMA OthersLane ==
  ASSUME LaneInv, CooldownEnds \/ PresenceStarts \/ PresenceEnds \/ PresenceCooled
  PROVE  LaneInv'
<1>1. UNCHANGED <<queue, signalled, running, answered>> /\ paused' \in BOOLEAN /\ cooling' \in BOOLEAN
      /\ presence' \in {"free", "busy"}
  BY DEF CooldownEnds, PresenceStarts, PresenceEnds, PresenceCooled, LaneInv, LaneTypeOK
<1>2. Preparing' <= MaxPreparing
  BY LaneFacts, <1>1
     DEF CooldownEnds, PresenceStarts, PresenceEnds, PresenceCooled, Preparing
<1>3. queue # <<>> => ~paused'
  BY LaneFacts DEF CooldownEnds, PresenceStarts, PresenceEnds, PresenceCooled
<1>4. LaneTypeOK'
  BY <1>1 DEF LaneInv, LaneTypeOK
<1>5. EveryTicketCounted'
  BY <1>1, <1>2 DEF LaneInv, EveryTicketCounted, Queued
<1>6. WaitsOnlyForSlots'
  BY <1>1, <1>3 DEF LaneInv, WaitsOnlyForSlots
<1> QED BY <1>1, <1>4, <1>5, <1>6 DEF LaneInv

LEMMA LaneStep == LaneInv /\ [LaneNext]_lane => LaneInv'
<1> SUFFICES ASSUME LaneInv, [LaneNext]_lane PROVE LaneInv'
  OBVIOUS
<1>1. ASSUME NEW r \in Requests, Request(r) PROVE LaneInv'
  BY <1>1, RequestLane
<1>2. ASSUME NEW r \in Requests, Finish(r) PROVE LaneInv'
  BY <1>2, FinishLane
<1>3. ASSUME NEW n \in DOMAIN queue, Abort(n) PROVE LaneInv'
  BY <1>3, AbortLane
<1>7. ASSUME NEW aborting \in SUBSET (Queued \ signalled), Signals(aborting) PROVE LaneInv'
  BY <1>7, SignalsLane
<1>4. CASE Pause
  BY <1>4, PauseLane
<1>5. CASE CooldownEnds \/ PresenceStarts \/ PresenceEnds \/ PresenceCooled
  BY <1>5, OthersLane
<1>6. CASE UNCHANGED lane
  BY <1>6 DEF lane, LaneInv, LaneTypeOK, EveryTicketCounted, WaitsOnlyForSlots, Queued, Preparing
<1> QED BY <1>1, <1>2, <1>3, <1>4, <1>5, <1>6, <1>7 DEF LaneNext

\* The inductive invariant of the lane holds throughout, for any requests and limits.
THEOREM LaneInvariant == LaneSpec => []LaneInv
<1> QED BY InitLane, LaneStep, PTL DEF LaneSpec

\* Every call the lane admitted is queued or running, once, within every bound
\* (http-admission.ts:137-262), for any requests and limits.
THEOREM TicketsAreCounted == LaneSpec => []EveryTicketCounted
<1>1. LaneInv => EveryTicketCounted
  BY DEF LaneInv
<1> QED BY <1>1, LaneInvariant, PTL

\* A ticket waits only while every slot is taken and no cooldown runs
\* (http-admission.ts:135), for any requests and limits.
THEOREM TicketsWaitOnlyForSlots == LaneSpec => []WaitsOnlyForSlots
<1>1. LaneInv => WaitsOnlyForSlots
  BY DEF LaneInv
<1> QED BY <1>1, LaneInvariant, PTL

----------------------------------------------------------------------------
\* The send clock.

\* A send time is a natural number, not before the clock, after everything shown
\* within MaxLead, within MaxOwnLead, and no further ahead than the last send allows.
LEMMA SendTimeBounds ==
  ASSUME ClockTypeOK
  PROVE  /\ SendTime \in Nat
         /\ now <= SendTime /\ SendTime <= now + MaxOwnLead
         /\ latest < SendTime \/ now + MaxLead <= SendTime
         /\ sent < SendTime \/ sent + 1 > now + MaxOwnLead
         /\ SendTime <= now + MaxLead \/ SendTime = sent + 1
BY ClockAssumption DEF ClockTypeOK, SendTime, Later, Earlier

\* The type invariant holds from the start,
LEMMA ClockInitial == ClockInit => ClockTypeOK
BY DEF ClockInit, ClockTypeOK

\* and in every step: both marks grow only.
LEMMA ClockStep == ClockTypeOK /\ [ClockNext]_clockVars => ClockTypeOK'
<1> SUFFICES ASSUME ClockTypeOK, [ClockNext]_clockVars
             PROVE  ClockTypeOK'
  OBVIOUS
<1>1. ASSUME NEW t \in 0..MaxTime, SetClock(t)
      PROVE  ClockTypeOK'
  BY <1>1, ClockAssumption DEF SetClock, ClockTypeOK
<1>2. ASSUME NEW ms \in 1..MaxTime, Observe(ms)
      PROVE  ClockTypeOK'
  BY <1>2, ClockAssumption DEF Observe, ClockTypeOK, Later
<1>3. CASE Send
  <2>1. SendTime \in Nat
    BY SendTimeBounds
  <2>2. sent' \in Nat /\ latest' \in Nat /\ sent' <= latest' /\ latest <= latest'
    BY <1>3, <2>1 DEF Send, ClockTypeOK, Later
  <2> QED
    BY <1>3, <2>2 DEF Send, ClockTypeOK
<1>4. CASE UNCHANGED clockVars
  BY <1>4 DEF clockVars, ClockTypeOK
<1> QED
  BY <1>1, <1>2, <1>3, <1>4 DEF ClockNext

\* The type invariant of the clock.
THEOREM ClockTypeCorrect == ClockSpec => []ClockTypeOK
<1> QED BY ClockInitial, ClockStep, PTL DEF ClockSpec

\* Nobody else's messages and no sequence of replies ratchets a session's lead: it is
\* bounded by MaxLead, its own sends and the clock's setbacks.
THEOREM LeadIsAlwaysEarned == ClockSpec => []LeadIsEarned
<1>1. ClockInit => LeadIsEarned
  BY ClockAssumption DEF ClockInit, LeadIsEarned
<1>2. ClockTypeOK /\ LeadIsEarned /\ [ClockNext]_clockVars => LeadIsEarned'
  <2> SUFFICES ASSUME ClockTypeOK, LeadIsEarned, [ClockNext]_clockVars
               PROVE  LeadIsEarned'
    OBVIOUS
  <2>1. ASSUME NEW t \in 0..MaxTime, SetClock(t)
        PROVE  LeadIsEarned'
    BY <2>1, ClockAssumption DEF SetClock, ClockTypeOK, LeadIsEarned
  <2>2. ASSUME NEW ms \in 1..MaxTime, Observe(ms)
        PROVE  LeadIsEarned'
    BY <2>2 DEF Observe, LeadIsEarned
  <2>3. CASE Send
    <3>1. SendTime \in Nat /\ (SendTime <= now + MaxLead \/ SendTime = sent + 1)
      BY SendTimeBounds
    <3> QED
      BY <2>3, <3>1, ClockAssumption DEF Send, ClockTypeOK, LeadIsEarned
  <2>4. CASE UNCHANGED clockVars
    BY <2>4 DEF clockVars, LeadIsEarned
  <2> QED
    BY <2>1, <2>2, <2>3, <2>4 DEF ClockNext
<1> QED
  BY <1>1, <1>2, ClockTypeCorrect, PTL DEF ClockSpec

\* The sends of a session are strictly ordered while its allowance lasts.
THEOREM SendsStayInOrder == ClockSpec => SendsInOrder
<1>1. ASSUME ClockTypeOK, LeadIsEarned, [ClockNext]_clockVars
      PROVE  sent' # sent \/ sends' # sends =>
               sent' > sent \/ MaxLead + sends + back >= MaxOwnLead
  <2>1. CASE Send
    <3>1. SendTime \in Nat /\ (sent < SendTime \/ sent + 1 > now + MaxOwnLead)
      BY <1>1, SendTimeBounds
    <3> QED
      BY <1>1, <2>1, <3>1, ClockAssumption DEF Send, ClockTypeOK, LeadIsEarned
  <2>2. CASE ~Send
    BY <1>1, <2>2 DEF ClockNext, SetClock, Observe, clockVars
  <2> QED
    BY <2>1, <2>2
<1> QED
  BY <1>1, ClockTypeCorrect, LeadIsAlwaysEarned, PTL DEF ClockSpec, SendsInOrder

\* A send sorts after every message shown that leads the clock by less than MaxLead,
\* and stays within MaxOwnLead of the clock.
THEOREM RepliesAlwaysSortAfter == ClockSpec => RepliesSortAfter
<1>1. ASSUME ClockTypeOK, [ClockNext]_clockVars
      PROVE  sends' # sends =>
               /\ \A ms \in shown : ms < now + MaxLead => sent' > ms
               /\ now <= sent' /\ sent' <= now + MaxOwnLead
  <2>1. CASE Send
    <3>1. /\ SendTime \in Nat
          /\ now <= SendTime /\ SendTime <= now + MaxOwnLead
          /\ latest < SendTime \/ now + MaxLead <= SendTime
      BY <1>1, SendTimeBounds
    <3> QED
      BY <1>1, <2>1, <3>1, ClockAssumption DEF Send, ClockTypeOK
  <2>2. CASE ~Send
    BY <1>1, <2>2 DEF ClockNext, SetClock, Observe, clockVars
  <2> QED
    BY <2>1, <2>2
<1> QED
  BY <1>1, ClockTypeCorrect, PTL DEF ClockSpec, RepliesSortAfter

----------------------------------------------------------------------------
\* The recovery of background reads.

\* What the owner remembers while nothing is being recovered.
Rests == ~over /\ ~owner.recovering => owner.attempt = 0 /\ ~owner.timer
IRecovery == RecoveryTypeOK /\ OwnerAgrees /\ Rests

----------------------------------------------------------------------------
\* evaluate() gives the owner back in agreement with the statuses.
LEMMA EvaluatedAgrees ==
  ASSUME NEW st \in [Sources -> Statuses], NEW o \in Owners,
         o.recovering <=> o.shown \/ o.notice
  PROVE  LET e == Evaluated(o, st)
         IN  /\ e \in Owners
             /\ e.timer <=> Reports(st, "failed") # {}
             /\ e.recovering <=> e.shown \/ e.notice
             /\ ~e.recovering => e.attempt = 0 /\ ~e.timer
             /\ Reports(st, "settled") = Sources => e = [Idle(e) EXCEPT !.stale = {}]
             /\ e.attempt \in {0, o.attempt} /\ (e.shown => o.shown)
             /\ o.recovering /\ (Reports(st, "failed") # {} \/ Reports(st, "busy") # {}) =>
                  e.attempt = o.attempt /\ (o.shown => e.shown)
<1> DEFINE u == Unstale(o, st)
           e == Evaluated(o, st)
<1>1. /\ u \in Owners /\ u.recovering = o.recovering /\ u.attempt = o.attempt
      /\ u.shown = o.shown /\ u.timer = o.timer /\ u.notice = o.notice
      /\ u.stale \subseteq Reports(st, "busy")
  BY DEF Unstale, Owners
<1>2. Reports(st, "settled") = Sources => Reports(st, "failed") = {} /\ Reports(st, "busy") = {}
  BY DEF Reports
<1> HIDE DEF u
<1>3. CASE Reports(st, "failed") # {}
  <2>1. e = [u EXCEPT !.recovering = TRUE, !.timer = TRUE, !.notice = @ \/ ~o.shown]
    BY <1>3 DEF Evaluated, u
  <2>2. /\ e \in Owners /\ e.recovering /\ e.timer /\ e.attempt = o.attempt
        /\ e.shown = o.shown /\ e.notice = (o.notice \/ ~o.shown)
    BY <1>1, <2>1 DEF Owners
  <2> QED  BY <1>2, <1>3, <2>2 DEF Owners
<1>4. CASE Reports(st, "failed") = {} /\ o.recovering /\ Reports(st, "busy") # {}
  <2>1. e = [u EXCEPT !.timer = FALSE]  BY <1>4 DEF Evaluated, u
  <2>2. /\ e \in Owners /\ e.recovering = o.recovering /\ ~e.timer /\ e.attempt = o.attempt
        /\ e.shown = o.shown /\ e.notice = o.notice
    BY <1>1, <2>1 DEF Owners
  <2> QED  BY <1>2, <1>4, <2>2 DEF Owners
<1>5. CASE Reports(st, "failed") = {} /\ ~(o.recovering /\ Reports(st, "busy") # {})
  <2>1. e = Idle(u)  BY <1>5 DEF Evaluated, u
  <2>0. 0 \in 0..MaxAttempt  BY RecoveryAssumption
  <2>a. e \in Owners  BY <1>1, <2>0, <2>1 DEF Owners, Idle
  <2>b. /\ e.recovering = FALSE /\ e.timer = FALSE /\ e.attempt = 0
        /\ e.shown = FALSE /\ e.notice = FALSE /\ e.stale = u.stale
    BY <1>1, <2>1 DEF Owners, Idle
  <2>2. /\ e \in Owners /\ ~e.recovering /\ ~e.timer /\ e.attempt = 0
        /\ ~e.shown /\ ~e.notice /\ e.stale = u.stale
    BY <2>a, <2>b
  <2>3. Reports(st, "settled") = Sources => e = [Idle(e) EXCEPT !.stale = {}]
    BY <1>1, <1>2, <2>2 DEF Owners, Idle
  <2> QED  BY <1>5, <2>2, <2>3
<1> QED  BY <1>3, <1>4, <1>5

\* The sources asked to read are busy or were reading; statuses keep their types.
LEMMA ReadsStartTyped ==
  ASSUME NEW st \in [Sources -> Statuses], NEW rs \in SUBSET Sources,
         NEW later \in SUBSET Reauthorizing, NEW g \in 0..MaxReauthorized,
         RecoveryTypeOK, ReadsStart(rs, later, st, g)
  PROVE  /\ status' \in [Sources -> Statuses] /\ reading' \subseteq Sources
         /\ again' \subseteq Reauthorizing /\ asked' \in [Sources -> 0..MaxReauthorized]
         /\ \A s \in Sources : status'[s] = "settled" => st[s] = "settled"
BY RecoveryAssumption DEF ReadsStart, RecoveryTypeOK, Statuses, Reports

\* A source publishes, and evaluate() runs for the owner o.
LEMMA PublishedAgrees ==
  ASSUME NEW o \in Owners, status' \in [Sources -> Statuses], over' = over,
         ~over => (o.recovering <=> o.shown \/ o.notice), Published(o)
  PROVE  /\ owner' \in Owners /\ OwnerAgrees' /\ Rests'
         /\ ~over =>
              /\ owner'.attempt \in {0, o.attempt}
              /\ o.recovering =>
                   \/ Reports(status', "failed") = {} /\ Reports(status', "busy") = {}
                   \/ owner'.attempt = o.attempt /\ (o.shown => owner'.shown)
<1>1. CASE over  BY <1>1 DEF Published, OwnerAgrees, Rests
<1>2. CASE ~over
  <2>1. owner' = Evaluated(o, status')  BY <1>2 DEF Published
  <2> QED  BY <1>2, <2>1, EvaluatedAgrees DEF OwnerAgrees, Rests
<1> QED  BY <1>1, <1>2

\* A step that publishes, for an owner o whose delays have not restarted.
LEMMA Steady ==
  ASSUME IRecovery, NEW o \in Owners, status' \in [Sources -> Statuses], over' = over,
         o.recovering = owner.recovering, o.shown = owner.shown, o.notice = owner.notice,
         owner.recovering => owner.attempt <= o.attempt, Published(o)
  PROVE  /\ owner' \in Owners /\ OwnerAgrees' /\ Rests'
         /\ ~over' =>
              /\ owner'.attempt < owner.attempt => Reports(status', "settled") = Sources
              /\ owner.shown /\ ~owner'.shown =>
                   Reports(status', "failed") = {} /\ Reports(status', "busy") = {}
<1>1. ~over => (owner.recovering <=> owner.shown \/ owner.notice)  BY DEF IRecovery, OwnerAgrees
<1>2. ~over /\ ~owner.recovering => owner.attempt = 0  BY DEF IRecovery, Rests
<1>3. /\ owner' \in Owners /\ OwnerAgrees' /\ Rests'
      /\ ~over =>
           /\ owner'.attempt \in {0, o.attempt}
           /\ o.recovering =>
                \/ Reports(status', "failed") = {} /\ Reports(status', "busy") = {}
                \/ owner'.attempt = o.attempt /\ (o.shown => owner'.shown)
  BY <1>1, PublishedAgrees
<1>4. owner.attempt \in Nat /\ o.attempt \in Nat /\ owner'.attempt \in Nat
  BY <1>3, RecoveryAssumption DEF IRecovery, RecoveryTypeOK, Owners
<1>5. Reports(status', "failed") = {} /\ Reports(status', "busy") = {} =>
        Reports(status', "settled") = Sources
  BY DEF Reports, Statuses
<1>6. ~over /\ owner'.attempt < owner.attempt => Reports(status', "settled") = Sources
  BY <1>2, <1>3, <1>4, <1>5
<1> QED  BY <1>1, <1>3, <1>6

\* Every step keeps the invariant, and restarts the delays only when it may.
LEMMA RecoveryStep ==
  ASSUME IRecovery, RecoveryNext
  PROVE  /\ IRecovery'
         /\ ~over' =>
              /\ owner'.attempt < owner.attempt =>
                   Reports(status', "settled") = Sources \/ RetryNow \/ RetryAll \/ Connects
              /\ owner.shown /\ ~owner'.shown =>
                   Reports(status', "failed") = {} /\ Reports(status', "busy") = {}
<1>1. /\ status \in [Sources -> Statuses] /\ reading \subseteq Sources
      /\ again \subseteq Reauthorizing /\ asked \in [Sources -> 0..MaxReauthorized]
      /\ owner \in Owners /\ reauthorized \in 0..MaxReauthorized /\ over \in BOOLEAN
      /\ owner.attempt \in Nat /\ MaxAttempt \in Nat /\ owner.attempt <= owner.attempt
      /\ 0 \in 0..MaxAttempt
  BY RecoveryAssumption DEF IRecovery, RecoveryTypeOK, Owners
<1>2. Live \in Sources /\ Reauthorizing \subseteq Sources  BY RecoveryAssumption
<1>3. \A v : Reports(status, v) \subseteq Sources  BY DEF Reports
<1>4. CASE \E s \in Sources : Opens(s)
  <2>1. PICK s \in Sources : Opens(s)  BY <1>4
  <2>2. /\ ReadsStart({s}, {}, status, reauthorized) /\ Published(owner)
        /\ UNCHANGED <<reauthorized, over>>
    BY <2>1 DEF Opens
  <2> QED  BY <1>1, <2>2, ReadsStartTyped, Steady DEF IRecovery, RecoveryTypeOK
<1>5. CASE \E s \in Sources : ReadEnds(s)
  <2>1. PICK s \in Sources : ReadEnds(s)  BY <1>5
  <2>2. /\ status' \in [Sources -> Statuses] /\ reading' \subseteq Sources /\ Published(owner)
        /\ UNCHANGED <<again, asked, reauthorized, over>>
    BY <1>1, <2>1 DEF ReadEnds, Statuses
  <2> QED  BY <1>1, <2>2, Steady DEF IRecovery, RecoveryTypeOK
<1>6. CASE \E s \in Sources : ReadsAgain(s)
  <2>1. PICK s \in Sources : ReadsAgain(s)  BY <1>6
  <2>2. /\ ReadsStart({s}, {}, status, reauthorized) /\ Published(owner)
        /\ UNCHANGED <<reauthorized, over>>
    BY <2>1 DEF ReadsAgain
  <2> QED  BY <1>1, <2>2, ReadsStartTyped, Steady DEF IRecovery, RecoveryTypeOK
<1>7. CASE \E s \in Sources : TurnComes(s)
  <2>1. PICK s \in Sources : TurnComes(s)  BY <1>7
  <2> DEFINE o == [owner EXCEPT !.turn = @ \ {s}]
  <2>2. /\ ReadsStart({s}, {}, status, reauthorized) /\ Published(o)
        /\ UNCHANGED <<reauthorized, over>>
    BY <2>1 DEF TurnComes
  <2>3. /\ o \in Owners /\ o.recovering = owner.recovering /\ o.shown = owner.shown
        /\ o.notice = owner.notice /\ o.attempt = owner.attempt
    BY <1>1 DEF Owners
  <2> HIDE DEF o
  <2> QED  BY <1>1, <2>2, <2>3, ReadsStartTyped, Steady DEF IRecovery, RecoveryTypeOK
<1>8. CASE Disconnects
  <2>1. /\ status' \in [Sources -> Statuses] /\ Published(owner)
        /\ UNCHANGED <<reading, again, asked, reauthorized, over>>
    BY <1>1, <1>8 DEF Disconnects, Statuses
  <2> QED  BY <1>1, <2>1, Steady DEF IRecovery, RecoveryTypeOK
<1>9. CASE TimerFires
  <2> DEFINE next == IF owner.attempt < MaxAttempt THEN owner.attempt + 1 ELSE owner.attempt
             o == [owner EXCEPT !.timer = FALSE, !.attempt = next]
  <2>1. /\ ReadsStart(Reports(status, "failed"), {}, status, reauthorized) /\ Published(o)
        /\ UNCHANGED <<reauthorized, over>>
    BY <1>9 DEF TimerFires
  <2>a. next \in 0..MaxAttempt /\ owner.attempt <= next
    BY <1>1 DEF Owners
  <2> HIDE DEF next
  <2>2. /\ o \in Owners /\ o.recovering = owner.recovering /\ o.shown = owner.shown
        /\ o.notice = owner.notice /\ owner.attempt <= o.attempt
    BY <1>1, <2>a DEF Owners
  <2> HIDE DEF o
  <2> QED  BY <1>1, <1>3, <2>1, <2>2, ReadsStartTyped, Steady DEF IRecovery, RecoveryTypeOK
<1>10. CASE RetryNow
  <2> DEFINE o == [owner EXCEPT !.timer = FALSE, !.attempt = 0]
  <2>1. /\ ReadsStart(Reports(status, "failed"), {}, status, reauthorized) /\ Published(o)
        /\ UNCHANGED <<reauthorized, over>> /\ ~over
    BY <1>10 DEF RetryNow
  <2>2. /\ o \in Owners /\ o.recovering = owner.recovering /\ o.shown = owner.shown
        /\ o.notice = owner.notice
    BY <1>1 DEF Owners
  <2> HIDE DEF o
  <2>3. o.recovering <=> o.shown \/ o.notice  BY <2>1, <2>2 DEF IRecovery, OwnerAgrees
  <2>4. status' \in [Sources -> Statuses] /\ RecoveryTypeOK'
    BY <1>1, <1>3, <2>1, <2>2, <2>3, ReadsStartTyped, PublishedAgrees
    DEF IRecovery, RecoveryTypeOK
  <2> QED  BY <1>10, <2>1, <2>2, <2>3, <2>4, PublishedAgrees DEF IRecovery
<1>11. CASE RetryAll
  <2> DEFINE stale == Reports(status, "busy") \ Reauthorizing
             o == [owner EXCEPT !.timer = FALSE, !.attempt = 0, !.stale = @ \cup stale]
  <2>1. /\ ReadsStart(Sources \ stale, Reauthorizing \cap reading, status, reauthorized + 1)
        /\ Published(o) /\ UNCHANGED over /\ ~over
        /\ reauthorized' = reauthorized + 1 /\ reauthorized < MaxReauthorized
    BY <1>11 DEF RetryAll
  <2>2. stale \subseteq Sources  BY <1>3
  <2>3. /\ o \in Owners /\ o.recovering = owner.recovering /\ o.shown = owner.shown
        /\ o.notice = owner.notice
    BY <1>1, <2>2 DEF Owners
  <2> HIDE DEF o, stale
  <2>4. o.recovering <=> o.shown \/ o.notice  BY <2>1, <2>3 DEF IRecovery, OwnerAgrees
  <2>5. reauthorized + 1 \in 0..MaxReauthorized  BY <1>1, <2>1, RecoveryAssumption
  <2>6. status' \in [Sources -> Statuses] /\ RecoveryTypeOK'
    BY <1>1, <2>1, <2>2, <2>3, <2>4, <2>5, ReadsStartTyped, PublishedAgrees
    DEF IRecovery, RecoveryTypeOK
  <2> QED  BY <1>11, <2>1, <2>3, <2>4, <2>6, PublishedAgrees DEF IRecovery
<1>12. CASE Connects
  <2> DEFINE st == [status EXCEPT ![Live] = "settled"]
             first == Evaluated(owner, st)
             o == [first EXCEPT !.timer = FALSE, !.attempt = 0]
  <2>1. /\ status' = [s \in Sources |-> IF s \in Reports(st, "failed") THEN "busy" ELSE st[s]]
        /\ reading' = (reading \ {Live}) \cup Reports(st, "failed") /\ ~over
        /\ asked' = [s \in Sources |->
                       IF s \in Reports(st, "failed") THEN reauthorized ELSE asked[s]]
        /\ owner' = Evaluated(o, status') /\ UNCHANGED <<again, reauthorized, over>>
    BY <1>12 DEF Connects
  <2>2. st \in [Sources -> Statuses] /\ status' \in [Sources -> Statuses]
    BY <1>1, <2>1 DEF Statuses
  <2>3. owner.recovering <=> owner.shown \/ owner.notice  BY <2>1 DEF IRecovery, OwnerAgrees
  <2>4. /\ first \in Owners
        /\ first.recovering <=> first.shown \/ first.notice
        /\ owner.recovering /\ (Reports(st, "failed") # {} \/ Reports(st, "busy") # {}) =>
             (owner.shown => first.shown)
    BY <1>1, <2>2, <2>3, EvaluatedAgrees
  <2> HIDE DEF first
  <2>5. /\ o \in Owners /\ o.recovering = first.recovering /\ o.shown = first.shown
        /\ o.notice = first.notice
    BY <1>1, <2>4 DEF Owners
  <2>6. Published(o)  BY <2>1 DEF Published
  <2> HIDE DEF o
  <2>7. Reports(status', "busy") # {} => Reports(st, "failed") # {} \/ Reports(st, "busy") # {}
    BY <2>1 DEF Reports
  <2>8. Reports(status', "failed") = {}  BY <2>1, <2>2 DEF Reports
  <2>9. /\ owner' \in Owners /\ OwnerAgrees' /\ Rests'
        /\ o.recovering => \/ Reports(status', "failed") = {} /\ Reports(status', "busy") = {}
                           \/ o.shown => owner'.shown
    BY <2>1, <2>2, <2>4, <2>5, <2>6, PublishedAgrees
  <2>10. reading' \subseteq Sources /\ asked' \in [Sources -> 0..MaxReauthorized]
    BY <1>1, <2>1 DEF Reports
  <2>11. owner.shown /\ ~owner'.shown => Reports(status', "busy") = {}
    BY <2>3, <2>4, <2>5, <2>7, <2>9
  <2> QED
    BY <1>1, <1>12, <2>1, <2>2, <2>8, <2>9, <2>10, <2>11 DEF IRecovery, RecoveryTypeOK
<1>13. CASE NoticeFires
  <2>1. /\ ~over /\ owner.notice /\ UNCHANGED <<status, reading, again, asked, reauthorized, over>>
        /\ owner' = [owner EXCEPT !.notice = FALSE, !.shown = @ \/ owner.recovering]
    BY <1>13 DEF NoticeFires
  <2>2. owner.recovering = TRUE  BY <1>1, <2>1 DEF IRecovery, OwnerAgrees, Owners
  <2>3. /\ owner' \in Owners /\ owner'.notice = FALSE /\ owner'.shown = TRUE
        /\ owner'.recovering = TRUE /\ owner'.timer = owner.timer
        /\ owner'.attempt = owner.attempt
    BY <1>1, <2>1, <2>2 DEF Owners
  <2>4. Reports(status, "settled") # Sources
    <3>1. SUFFICES ASSUME Reports(status, "settled") = Sources PROVE FALSE  OBVIOUS
    <3>2. owner = [Idle(owner) EXCEPT !.stale = {}]
      BY <2>1, <3>1 DEF IRecovery, OwnerAgrees
    <3>3. [Idle(owner) EXCEPT !.stale = {}].notice = FALSE  BY <1>1 DEF Idle, Owners
    <3> QED  BY <2>1, <3>2, <3>3
  <2>5. Reports(status, "settled")' = Reports(status, "settled")
        /\ Reports(status, "failed")' = Reports(status, "failed")
    BY <2>1 DEF Reports
  <2>6. owner.timer <=> Reports(status, "failed") # {}  BY <2>1 DEF IRecovery, OwnerAgrees
  <2>7. OwnerAgrees' /\ Rests'  BY <2>3, <2>4, <2>5, <2>6 DEF OwnerAgrees, Rests
  <2> QED  BY <1>1, <2>1, <2>3, <2>7 DEF IRecovery, RecoveryTypeOK
<1>14. CASE Disposes
  <2>1. owner' \in Owners /\ over' = TRUE  BY <1>1, <1>14 DEF Disposes, Owners
  <2> QED
    BY <1>1, <1>14, <2>1 DEF Disposes, IRecovery, RecoveryTypeOK, OwnerAgrees, Rests
<1> QED
  BY <1>4, <1>5, <1>6, <1>7, <1>8, <1>9, <1>10, <1>11, <1>12, <1>13, <1>14 DEF RecoveryNext

----------------------------------------------------------------------------
\* The theorems.

\* The owner starts at rest,
LEMMA RecoveryInitial == RecoveryInit => IRecovery
<1> SUFFICES ASSUME RecoveryInit PROVE IRecovery  OBVIOUS
<1>1. owner \in Owners
  BY RecoveryAssumption DEF RecoveryInit, Owners
<1>a. status \in [Sources -> Statuses]  BY DEF RecoveryInit, Statuses
<1>b. asked \in [Sources -> 0..MaxReauthorized] /\ reauthorized \in 0..MaxReauthorized
  BY RecoveryAssumption DEF RecoveryInit
<1>2. RecoveryTypeOK  BY <1>1, <1>a, <1>b DEF RecoveryInit, RecoveryTypeOK
<1>3. Reports(status, "failed") = {}  BY DEF RecoveryInit, Reports
<1>4. owner = [Idle(owner) EXCEPT !.stale = {}]
  <2>1. /\ owner.recovering = FALSE /\ owner.attempt = 0 /\ owner.shown = FALSE
        /\ owner.timer = FALSE /\ owner.notice = FALSE /\ owner.stale = {}
    BY DEF RecoveryInit
  <2> QED  BY <1>1, <2>1 DEF Owners, Idle
<1> QED  BY <1>2, <1>3, <1>4 DEF RecoveryInit, IRecovery, OwnerAgrees, Rests

\* and every step keeps it in agreement.
LEMMA RecoveryStays == IRecovery /\ [RecoveryNext]_recovery => IRecovery'
<1> SUFFICES ASSUME IRecovery, [RecoveryNext]_recovery PROVE IRecovery'  OBVIOUS
<1>1. CASE RecoveryNext  BY <1>1, RecoveryStep
<1>2. CASE UNCHANGED recovery
  BY <1>2 DEF recovery, IRecovery, RecoveryTypeOK, OwnerAgrees, Rests, Reports
<1> QED  BY <1>1, <1>2

\* Types, agreement with the statuses, and nothing remembered while nothing is recovered.
THEOREM RecoveryInvariant == RecoverySpec => []IRecovery
<1> QED  BY RecoveryInitial, RecoveryStays, PTL DEF RecoverySpec

\* Types, for any sources and any number of delays.
THEOREM RecoveryTypeCorrect == RecoverySpec => []RecoveryTypeOK
<1>1. IRecovery => RecoveryTypeOK  BY DEF IRecovery
<1> QED  BY <1>1, RecoveryInvariant, PTL

\* OwnerAgrees for any sources: a retry is scheduled exactly while something fails.
THEOREM OwnerAlwaysAgrees == RecoverySpec => []OwnerAgrees
<1>1. IRecovery => OwnerAgrees  BY DEF IRecovery
<1> QED  BY <1>1, RecoveryInvariant, PTL

\* DelaysGrow for any sources: a read in flight never restarts the delays.
THEOREM DelaysAlwaysGrow == RecoverySpec => DelaysGrow
<1>1. IRecovery /\ [RecoveryNext]_recovery =>
        [~over' =>
           /\ owner'.attempt < owner.attempt =>
                Reports(status', "settled") = Sources \/ RetryNow \/ RetryAll \/ Connects
           /\ owner.shown /\ ~owner'.shown => Reports(status', "failed") = {}
                                              /\ Reports(status', "busy") = {}]_recovery
  BY RecoveryStep
<1> QED  BY <1>1, RecoveryInvariant, PTL DEF RecoverySpec, DelaysGrow

----------------------------------------------------------------------------
\* The parts side by side.

\* A part that rests keeps what it had, so the invariants of the parts hold of the
\* three together; their types are the RelayTypeOK of the run, for any requests,
\* limits, clocks and sources.
THEOREM RelayTypeCorrect == RelaySpec => []RelayTypeOK
<1> DEFINE Inv == LaneInv /\ ClockTypeOK /\ IRecovery
<1>1. Init => Inv
  BY InitLane, ClockInitial, RecoveryInitial DEF Init
<1>2. Inv /\ [Next]_<<part, lane, clockVars, recovery>> => Inv'
  <2> SUFFICES ASSUME Inv, [Next]_<<part, lane, clockVars, recovery>> PROVE Inv'
    OBVIOUS
  <2>1. [LaneNext]_lane /\ [ClockNext]_clockVars /\ [RecoveryNext]_recovery
    BY DEF Next
  <2> QED BY <2>1, LaneStep, ClockStep, RecoveryStays
<1>3. Inv => RelayTypeOK
  BY DEF LaneInv, IRecovery, RelayTypeOK
<1> QED BY <1>1, <1>2, <1>3, PTL DEF RelaySpec
=============================================================================
