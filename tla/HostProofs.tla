----------------------------- MODULE HostProofs -----------------------------
(***************************************************************************)
(* Proofs about the two parts written in Rust, which have no state in      *)
(* common. The information-flow properties hold for every set of           *)
(* principals, channels and policies, and however many sessions, turns and *)
(* saved summaries information passes through. Below them, what holds of   *)
(* Pairing for every set of attempts and phones.                           *)
(***************************************************************************)
EXTENDS InformationFlow, Pairing, TLAPS

IsSession(s) ==
  /\ {"domain", "channel", "flow", "knows", "tainted", "ownersOnly"} \subseteq DOMAIN s
  /\ {"accumulated", "unresolved"} \subseteq DOMAIN s.flow

\* Every origin may flow to the audience, and belongs in the context.
Covers(audience, context, origins) ==
  \A o \in origins : CanFlow(o.audience, audience) /\ Permits(context, o.context)

\* What a session may do is what both policies allow, or all the bot may in the
\* owner's private turns.
AllowedOnly(s) ==
  \/ \A op \in Operations : s.domain.capabilities[op] = MostRestrictive(BotPolicy[op], ConversationPolicy[op])
  \/ /\ s.domain.context.kind = "owner" /\ s.ownersOnly
     /\ \A op \in Operations : s.domain.capabilities[op] = BotPolicy[op]

SessionSound(s) ==
  /\ IsSession(s)
  /\ s.flow.accumulated = {s.domain.audience}
  /\ s.tainted => s.flow.unresolved
  /\ Covers(s.domain.audience, s.domain.context, s.knows)
  /\ AllowedOnly(s)

\* The inductive invariant: sessions and saved state are sound.
FlowInv ==
  /\ \A s \in sessions : SessionSound(s)
  /\ \A i \in saved : Covers(i.label.audience, i.label.context, i.origins)

----------------------------------------------------------------------------
\* Labels and contexts.

\* A flow through an intermediate label is a flow.
LEMMA CanFlowTransitive ==
  ASSUME NEW a, NEW b, NEW c, CanFlow(a, b), CanFlow(b, c)
  PROVE  CanFlow(a, c)
BY DEF CanFlow

LEMMA PermitsTransitive ==
  ASSUME NEW a, NEW b, NEW c, Permits(a, b), Permits(b, c)
  PROVE  Permits(a, c)
BY DEF Permits

\* The label order is sound: a permitted flow adds no reader.
LEMMA FlowAddsNoReader ==
  ASSUME NEW a, NEW b \in Labels, CanFlow(a, b)
  PROVE  Audience(b) \subseteq Audience(a)
BY DEF CanFlow, Audience, Labels

\* Join is the least upper bound of two labels of one universe (join() of ifc-core):
\* both may flow to it, and it may flow to everything both may flow to.
THEOREM JoinIsLeastUpperBound ==
  ASSUME NEW a \in Labels, NEW b \in Labels, a.universe = b.universe
  PROVE  /\ CanFlow(a, Join(a, b)) /\ CanFlow(b, Join(a, b))
         /\ \A c : CanFlow(a, c) /\ CanFlow(b, c) => CanFlow(Join(a, b), c)
BY DEF Labels, CanFlow, Join

\* The facts derive_execution_domain() accepts always give a consistent domain: its
\* error InvalidDomain is never returned.
THEOREM DerivedDomainsAreConsistent ==
  ASSUME NEW c \in Channels, NEW agent \in Agents, NEW requesters, NEW people,
         ~Refused(c, agent, requesters, people)
  PROVE  Consistent(DerivedDomain(c, agent, requesters, people))
<1>1. Kind[c] \in {"public", "restricted", "dm"}
  BY FlowAssumption
<1>2. CASE Kind[c] = "public"
  BY <1>2 DEF DerivedDomain, FromConversation, Consistent, PublicLabel, PublicContext
<1>3. CASE Kind[c] # "public" /\ ~(Kind[c] = "dm" /\ people \ {agent} = {OwnerOf[agent]})
  BY <1>3 DEF DerivedDomain, FromConversation, Consistent, Restricted, ConversationContext,
              Refused
<1>4. CASE Kind[c] = "dm" /\ people \ {agent} = {OwnerOf[agent]}
  BY <1>4 DEF DerivedDomain, FromConversation, Consistent, Restricted, ConversationContext,
              OwnerContext
<1> QED
  BY <1>1, <1>2, <1>3, <1>4

\* What a derived domain may do.
LEMMA DerivedCapabilities ==
  ASSUME NEW c, NEW agent, NEW requesters, NEW people,
         NEW d, d = DerivedDomain(c, agent, requesters, people)
  PROVE  \/ \A op \in Operations : d.capabilities[op] = MostRestrictive(BotPolicy[op], ConversationPolicy[op])
         \/ /\ d.context.kind = "owner" /\ requesters = {OwnerOf[agent]}
            /\ \A op \in Operations : d.capabilities[op] = BotPolicy[op]
<1> DEFINE context == IF Kind[c] = "dm" /\ people \ {agent} = {OwnerOf[agent]}
                      THEN OwnerContext(CommunityOf[c], OwnerOf[agent])
                      ELSE FromConversation(c, people \ {agent}).context
<1>1. d.context = context /\ d.capabilities = Capabilities(context, requesters = {OwnerOf[agent]})
  BY DEF DerivedDomain
<1> HIDE DEF context
<1> QED
  BY <1>1 DEF Capabilities

----------------------------------------------------------------------------
\* The invariant.

LEMMA EnteredIsSound ==
  ASSUME NEW c, NEW d, NEW owners, AllowedOnly(Entered(c, d, {}, FALSE, owners))
  PROVE  SessionSound(Entered(c, d, {}, FALSE, owners))
BY DEF SessionSound, IsSession, Entered, Observed, NoFlow, Covers

\* An agent that learns what its session may read stays sound.
LEMMA LearningIsSound ==
  ASSUME NEW s, SessionSound(s), NEW origins,
         Covers(s.domain.audience, s.domain.context, origins)
  PROVE  SessionSound([s EXCEPT !.knows = @ \cup origins])
<1> DEFINE t == [s EXCEPT !.knows = @ \cup origins]
<1>1. IsSession(s)
  BY DEF SessionSound
<1>2. /\ t.domain = s.domain /\ t.flow = s.flow /\ t.tainted = s.tainted
      /\ t.ownersOnly = s.ownersOnly /\ t.knows = s.knows \cup origins
  BY <1>1 DEF IsSession
<1>3. IsSession(t)
  <2>1. DOMAIN t = DOMAIN s
    OBVIOUS
  <2> QED
    BY <1>1, <1>2, <2>1 DEF IsSession
<1>4. Covers(s.domain.audience, s.domain.context, s.knows \cup origins)
  BY DEF Covers, SessionSound
<1> HIDE DEF t
<1>5. SessionSound(t)
  BY <1>2, <1>3, <1>4 DEF SessionSound, AllowedOnly
<1> QED
  BY <1>5 DEF t

\* What a resource was made of may go wherever the resource may.
LEMMA ReadingCovers ==
  ASSUME NEW s, NEW resource, NEW origins, MayRead(s, resource),
         Covers(resource.audience, resource.context, origins)
  PROVE  Covers(s.domain.audience, s.domain.context, origins)
BY CanFlowTransitive, PermitsTransitive DEF MayRead, Covers

LEMMA EnterKeepsFlowInv ==
  ASSUME FlowInv, NEW c \in Channels, NEW agent \in Agents, NEW requesters \in Requests,
         Enters(c, agent, requesters)
  PROVE  \A s \in sessions' : SessionSound(s)
<1> DEFINE d == DerivedDomain(c, agent, requesters, members[c])
           owners == requesters = {OwnerOf[agent]}
           fresh == Entered(c, d, {}, FALSE, owners)
<1>1. \/ \A op \in Operations : d.capabilities[op] = MostRestrictive(BotPolicy[op], ConversationPolicy[op])
      \/ /\ d.context.kind = "owner" /\ owners
         /\ \A op \in Operations : d.capabilities[op] = BotPolicy[op]
  BY DerivedCapabilities
<1>2. \/ sessions' = sessions \cup {fresh}
      \/ sessions' = (sessions \ Retained(c, d)) \cup
                       {[s EXCEPT !.ownersOnly = @ /\ owners] : s \in Retained(c, d)}
  BY DEF Enters
<1> HIDE DEF d, owners
<1>3. SessionSound(fresh)
  <2>1. AllowedOnly(fresh)
    BY <1>1 DEF AllowedOnly, Entered
  <2> QED
    BY <2>1, EnteredIsSound
<1>4. ASSUME NEW s \in Retained(c, d)
      PROVE  SessionSound([s EXCEPT !.ownersOnly = @ /\ owners])
  <2> DEFINE t == [s EXCEPT !.ownersOnly = @ /\ owners]
  <2>1. s \in sessions /\ s.domain = d /\ SessionSound(s) /\ IsSession(s)
    BY <1>4 DEF Retained, FlowInv, SessionSound
  <2>2. /\ t.domain = s.domain /\ t.flow = s.flow /\ t.tainted = s.tainted
        /\ t.knows = s.knows /\ t.ownersOnly = (s.ownersOnly /\ owners) /\ IsSession(t)
    BY <2>1 DEF IsSession
  <2> HIDE DEF t
  <2>3. AllowedOnly(t)
    BY <1>1, <2>1, <2>2 DEF AllowedOnly, SessionSound
  <2>4. SessionSound(t)
    BY <2>1, <2>2, <2>3 DEF SessionSound
  <2> QED
    BY <2>4 DEF t
<1>5. \A s \in sessions : SessionSound(s)
  BY DEF FlowInv
<1> HIDE DEF fresh
<1>6. CASE sessions' = sessions \cup {fresh}
  BY <1>3, <1>5, <1>6
<1>7. CASE sessions' = (sessions \ Retained(c, d)) \cup
                         {[s EXCEPT !.ownersOnly = @ /\ owners] : s \in Retained(c, d)}
  BY <1>4, <1>5, <1>7
<1> QED
  BY <1>2, <1>6, <1>7

\* The broker's steps keep sessions and saved state sound.
THEOREM FlowInvariant == FlowSpec => []FlowInv
<1>1. FlowInit => FlowInv
  BY DEF FlowInit, FlowInv
<1>2. FlowInv /\ [FlowNext]_ifc => FlowInv'
  <2> SUFFICES ASSUME FlowInv, [FlowNext]_ifc
               PROVE  FlowInv'
    OBVIOUS
  <2>1. ASSUME NEW c \in Channels, NEW p \in Principals, MembershipChanges(c, p)
        PROVE  FlowInv'
    BY <2>1 DEF MembershipChanges, FlowInv
  <2>2. ASSUME NEW c \in Channels, NEW a \in Agents, NEW rs \in Requests, Enters(c, a, rs)
        PROVE  FlowInv'
    <3>1. \A s \in sessions' : SessionSound(s)
      BY <2>2, EnterKeepsFlowInv
    <3>2. saved' = saved
      BY <2>2 DEF Enters
    <3> QED
      BY <3>1, <3>2 DEF FlowInv
  <2>3. ASSUME NEW s \in sessions, NEW c \in Channels, ReadsConversation(s, c)
        PROVE  FlowInv'
    <3> DEFINE resource == FromConversation(c, members[c])
    <3>1. MayRead(s, resource) /\ Learns(s, {resource}) /\ saved' = saved
      BY <2>3 DEF ReadsConversation
    <3> HIDE DEF resource
    <3>2. Covers(s.domain.audience, s.domain.context, {resource})
      BY <3>1 DEF MayRead, Covers
    <3>3. SessionSound([s EXCEPT !.knows = @ \cup {resource}])
      BY <3>2, LearningIsSound DEF FlowInv
    <3> QED
      BY <3>1, <3>3 DEF Learns, FlowInv
  <2>4. ASSUME NEW s \in sessions, NEW item \in saved, ReadsSaved(s, item)
        PROVE  FlowInv'
    <3>1. MayRead(s, item.label) /\ Learns(s, item.origins) /\ saved' = saved
      BY <2>4 DEF ReadsSaved
    <3>2. Covers(s.domain.audience, s.domain.context, item.origins)
      BY <3>1, ReadingCovers DEF FlowInv
    <3>3. SessionSound([s EXCEPT !.knows = @ \cup item.origins])
      BY <3>2, LearningIsSound DEF FlowInv
    <3> QED
      BY <3>1, <3>3 DEF Learns, FlowInv
  <2>5. ASSUME NEW s \in sessions, ReceivesUnknown(s)
        PROVE  FlowInv'
    <3> DEFINE t == [s EXCEPT !.flow.unresolved = TRUE, !.tainted = TRUE]
    <3>1. IsSession(s) /\ SessionSound(s)
      BY DEF FlowInv, SessionSound
    <3>2. /\ t.domain = s.domain /\ t.knows = s.knows /\ t.ownersOnly = s.ownersOnly
          /\ t.flow.accumulated = s.flow.accumulated /\ t.flow.unresolved /\ IsSession(t)
      <4>1. DOMAIN t = DOMAIN s /\ t.flow = [s.flow EXCEPT !.unresolved = TRUE]
        BY <3>1 DEF IsSession
      <4>2. /\ t.domain = s.domain /\ t.knows = s.knows /\ t.ownersOnly = s.ownersOnly
            /\ DOMAIN [s.flow EXCEPT !.unresolved = TRUE] = DOMAIN s.flow
            /\ [s.flow EXCEPT !.unresolved = TRUE].accumulated = s.flow.accumulated
            /\ [s.flow EXCEPT !.unresolved = TRUE].unresolved
        BY <3>1 DEF IsSession
      <4> HIDE DEF t
      <4> QED
        BY <3>1, <4>1, <4>2 DEF IsSession
    <3>3. sessions' = (sessions \ {s}) \cup {t} /\ saved' = saved
      BY <2>5 DEF ReceivesUnknown
    <3> HIDE DEF t
    <3>4. SessionSound(t)
      BY <3>1, <3>2 DEF SessionSound, AllowedOnly
    <3> QED
      BY <3>3, <3>4 DEF FlowInv
  <2>6. ASSUME NEW s \in sessions, Saves(s)
        PROVE  FlowInv'
    BY <2>6 DEF Saves, FlowInv, FromDomain, SessionSound
  <2>7. CASE UNCHANGED ifc
    BY <2>7 DEF ifc, FlowInv
  <2> QED
    BY <2>1, <2>2, <2>3, <2>4, <2>5, <2>6, <2>7 DEF FlowNext
<1> QED
  BY <1>1, <1>2, PTL DEF FlowSpec

----------------------------------------------------------------------------
\* The properties.

\* Whoever receives a publication was allowed to read all that is in it.
THEOREM PublicationsAreAuthorised == FlowSpec => []PublicationsAuthorised
<1>1. FlowInv => PublicationsAuthorised
  <2> SUFFICES ASSUME FlowInv, NEW s \in sessions, NEW op \in Operations,
                      NEW d \in Destinations, MayPublish(s, op, d)
               PROVE  /\ ~s.tainted
                      /\ \A o \in s.knows : Audience(d) \subseteq Audience(o.audience)
    BY DEF PublicationsAuthorised
  <2>1. SessionSound(s)
    BY DEF FlowInv
  <2>2. ~s.tainted /\ CanFlow(s.domain.audience, d)
    BY <2>1 DEF SessionSound, MayPublish, MayLeave
  <2>3. ASSUME NEW o \in s.knows
        PROVE  Audience(d) \subseteq Audience(o.audience)
    <3>1. CanFlow(o.audience, d)
      BY <2>1, <2>2, <2>3, CanFlowTransitive DEF SessionSound, Covers
    <3> QED
      BY <3>1, FlowAddsNoReader DEF Destinations
  <2> QED
    BY <2>2, <2>3
<1> QED
  BY <1>1, FlowInvariant, PTL

\* An agent's memory stays in its context.
THEOREM MemoryIsIsolated == FlowSpec => []MemoryStaysInContext
<1>1. FlowInv => MemoryStaysInContext
  BY DEF FlowInv, SessionSound, Covers, Permits, MemoryStaysInContext
<1> QED
  BY <1>1, FlowInvariant, PTL

\* No policy list lifts another's restriction.
THEOREM PoliciesAlwaysHold == FlowSpec => []PoliciesHold
<1>1. FlowInv => PoliciesHold
  <2> SUFFICES ASSUME FlowInv, NEW s \in sessions, NEW op \in Operations
               PROVE  LET lists == {BotPolicy[op]} \cup
                                     (IF s.domain.context.kind = "owner" /\ s.ownersOnly
                                      THEN {} ELSE {ConversationPolicy[op]})
                      IN  /\ MayCall(s, op) => "none" \notin lists /\ "publication" \notin lists
                          /\ \A d \in Destinations : MayPublish(s, op, d) => "none" \notin lists
    BY DEF PoliciesHold
  <2>1. AllowedOnly(s)
    BY DEF FlowInv, SessionSound
  <2>2. BotPolicy[op] \in Effects /\ ConversationPolicy[op] \in Effects
    BY FlowAssumption
  <2> QED
    BY <2>1, <2>2 DEF AllowedOnly, MayCall, MayPublish, MostRestrictive, Effects
<1> QED
  BY <1>1, FlowInvariant, PTL

----------------------------------------------------------------------------
\* The inductive invariant, in four parts beside the types.

\* The session is locked to the phone whose code was shown, and moves with the task.
Locked ==
  \A a \in Attempts :
    /\ code[a] = peer[a]
    /\ task[a] \in {"idle", "setup"} => session[a] = "waiting"
    /\ task[a] \in {"proof", "payload"} => session[a] = "exchanged"
    /\ task[a] = "loop" => session[a] \notin Terminal
    /\ status[a] = "code" => session[a] # "waiting"
    /\ decision[a] # "none" => session[a] # "waiting"
    /\ decision[a] = "confirm" => peer[a] = Mine
    /\ session[a] = "exchanged" => peer[a] = Mine
    /\ session[a] = "confirming" => peer[a] \in Phones

\* How far an attempt got, against what the registry knows of it.
Marked ==
  /\ closed => active \in cancelled \cup {None}
  /\ active \in cancelled => active \in payloadSent
  /\ \A a \in Attempts :
       /\ a \in cancelled \/ active = a => task[a] # "idle"
       /\ a \in payloadSent => /\ task[a] \in {"payload", "loop", "ended"}
                               /\ session[a] \notin {"waiting", "confirming"}
                               /\ peer[a] = Mine
       /\ task[a] = "payload" => a \in payloadSent
       /\ Live(a) /\ task[a] = "proof" => status[a] = "transferring"
       /\ Live(a) /\ task[a] = "loop" /\ decision[a] = "confirm" => status[a] = "transferring"
       /\ session[a] = "exchanged" =>
            decision[a] = "none" /\ (active = a => status[a] # "code")
  /\ TransferIsShown

\* What a published event says of its sender.
Known ==
  \A a \in Attempts, p \in Phones :
    /\ Arrives(a, p, "payload") => a \in payloadSent /\ p = Mine
    /\ phone[p][a] \in {"received", "completed"} => Arrives(a, p, "payload")
    /\ Arrives(a, p, "complete") => phone[p][a] = "completed"
    /\ Arrives(a, p, "failed") => phone[p][a] = "aborted"
    /\ Arrives(a, p, "phoneAbort") => phone[p][a] = "aborted"

\* What the registry shows, against the phone.
Outcome ==
  active # None =>
    /\ status[active] = "complete" => phone[Mine][active] = "completed"
    /\ active \in payloadSent /\ status[active] = "error" => phone[Mine][active] = "aborted"

IPairing == PairingTypeOK /\ Locked /\ Marked /\ Known /\ Outcome

\* An event is told from another by its attempt, its phone and its kind.
LEMMA MessagesDiffer ==
  \A a, b, p, q, k, l :
    Message(a, p, k) = Message(b, q, l) => a = b /\ p = q /\ k = l
PROOF BY DEF Message

----------------------------------------------------------------------------
\* Types.

\* Every step keeps the types.
LEMMA TypesKept ==
  ASSUME PairingTypeOK, Locked, PairingNext
  PROVE  PairingTypeOK'
PROOF
  <1> USE PairingAssumption DEF PairingTypeOK, Locked, Statuses, Kinds, Terminal, Unfinished
  <1>1. CASE Cancels
    BY <1>1 DEF Cancels, Stop, host
  <1>2. CASE Closes
    BY <1>2 DEF Closes, Stop, host
  <1>3. ASSUME NEW a \in Attempts, Starts(a) PROVE PairingTypeOK'
    BY <1>3 DEF Starts
  <1>4. ASSUME NEW a \in Attempts, Confirms(a) PROVE PairingTypeOK'
    BY <1>4 DEF Confirms
  <1>5. ASSUME NEW a \in Attempts, Denies(a) PROVE PairingTypeOK'
    BY <1>5 DEF Denies, registry
  <1>6. ASSUME NEW a \in Attempts, SetUp(a) PROVE PairingTypeOK'
    BY <1>6 DEF SetUp, Updated, Live
  <1>7. ASSUME NEW a \in Attempts, TransportFails(a) PROVE PairingTypeOK'
    BY <1>7 DEF TransportFails, Ends, Failed, Updated, Live
  <1>8. ASSUME NEW a \in Attempts, DeadlinePasses(a) PROVE PairingTypeOK'
    BY <1>8 DEF DeadlinePasses, Ends, Failed, Updated, Live
  <1>9. ASSUME NEW a \in Attempts, SeesCancel(a) PROVE PairingTypeOK'
    BY <1>9 DEF SeesCancel, Ends, Updated, Live, Publish, Message
  <1>10. ASSUME NEW a \in Attempts, TakesConfirm(a) PROVE PairingTypeOK'
    BY <1>10 DEF TakesConfirm, registry
  <1>11. ASSUME NEW a \in Attempts, SendsProof(a) PROVE PairingTypeOK'
    BY <1>11 DEF SendsProof, Ends, Updated, Live, Publish, Message
  <1>12. ASSUME NEW a \in Attempts, SendsPayload(a) PROVE PairingTypeOK'
    BY <1>12 DEF SendsPayload, Updated, Live, Publish, Message
  <1>13. ASSUME NEW a \in Attempts, TakesDeny(a) PROVE PairingTypeOK'
    BY <1>13 DEF TakesDeny, Publish, Message, registry
  <1>14. ASSUME NEW a \in Attempts, DenialEnds(a) PROVE PairingTypeOK'
    BY <1>14 DEF DenialEnds, Ends, Failed, Updated, Live
  <1>15. ASSUME NEW a \in Attempts, NEW p \in Phones, HearsOffer(a, p) PROVE PairingTypeOK'
    BY <1>15 DEF HearsOffer, Updated, Live
  <1>16. ASSUME NEW a \in Attempts, NEW p \in Phones, HearsAbort(a, p) PROVE PairingTypeOK'
    BY <1>16 DEF HearsAbort, Ends, Failed, Updated, Live
  <1>17. ASSUME NEW a \in Attempts, NEW p \in Phones, HearsComplete(a, p) PROVE PairingTypeOK'
    <2>1. /\ task' = [task EXCEPT ![a] = "ended"]
          /\ status' \in [Attempts -> Statuses]
          /\ \E s \in Terminal : session' = [session EXCEPT ![a] = s]
      BY <1>17 DEF HearsComplete, Ends, Failed, Updated, PairingTypeOK, Statuses, Terminal
    <2>2. UNCHANGED <<active, closed, code, cancelled, payloadSent, decision, phone, peer, net>>
      BY <1>17 DEF HearsComplete, Ends
    <2> QED BY <2>1, <2>2 DEF PairingTypeOK, Terminal
  <1>18. ASSUME NEW a \in Attempts, NEW p \in Phones, Scans(p, a) PROVE PairingTypeOK'
    BY <1>18 DEF Scans, PhoneMoves, Publish, Message, registry, host
  <1>19. ASSUME NEW a \in Attempts, NEW p \in Phones, HearsProof(p, a) PROVE PairingTypeOK'
    BY <1>19 DEF HearsProof, PhoneMoves, registry, host
  <1>20. ASSUME NEW a \in Attempts, NEW p \in Phones, PhoneConfirms(p, a) PROVE PairingTypeOK'
    BY <1>20 DEF PhoneConfirms, PhoneMoves, registry, host
  <1>21. ASSUME NEW a \in Attempts, NEW p \in Phones, HearsPayload(p, a) PROVE PairingTypeOK'
    BY <1>21 DEF HearsPayload, PhoneMoves, registry, host
  <1>22. ASSUME NEW a \in Attempts, NEW p \in Phones, PhoneSaves(p, a) PROVE PairingTypeOK'
    BY <1>22 DEF PhoneSaves, PhoneMoves, Publish, Message, registry, host
  <1>23. ASSUME NEW a \in Attempts, NEW p \in Phones, CannotSave(p, a) PROVE PairingTypeOK'
    BY <1>23 DEF CannotSave, PhoneMoves, Publish, Message, registry, host
  <1>24. ASSUME NEW a \in Attempts, NEW p \in Phones, PhoneAborts(p, a) PROVE PairingTypeOK'
    BY <1>24 DEF PhoneAborts, PhoneMoves, Publish, Message, registry, host
  <1>25. ASSUME NEW a \in Attempts, NEW p \in Phones, HearsHostAbort(p, a) PROVE PairingTypeOK'
    BY <1>25 DEF HearsHostAbort, PhoneMoves, registry, host
  <1> QED BY <1>1, <1>2, <1>3, <1>4, <1>5, <1>6, <1>7, <1>8, <1>9, <1>10, <1>11, <1>12, <1>13,
     <1>14, <1>15, <1>16, <1>17, <1>18, <1>19, <1>20, <1>21, <1>22, <1>23, <1>24, <1>25 DEF
     PairingNext

\* Every step keeps the session locked to the phone on show.
LEMMA LockKept ==
  ASSUME PairingTypeOK, Locked, Marked, PairingTypeOK', PairingNext
  PROVE  Locked'
PROOF
  <1> USE PairingAssumption DEF PairingTypeOK, Locked, Marked, Terminal, TransferIsShown
  <1>1. CASE Cancels
    BY <1>1 DEF Cancels, Stop, host
  <1>2. CASE Closes
    BY <1>2 DEF Closes, Stop, host
  <1>3. ASSUME NEW a \in Attempts, Starts(a) PROVE Locked'
    BY <1>3 DEF Starts
  <1>4. ASSUME NEW a \in Attempts, Confirms(a) PROVE Locked'
    BY <1>4 DEF Confirms
  <1>5. ASSUME NEW a \in Attempts, Denies(a) PROVE Locked'
    BY <1>5 DEF Denies, registry
  <1>6. ASSUME NEW a \in Attempts, SetUp(a) PROVE Locked'
    BY <1>6 DEF SetUp, Updated, Live
  <1>7. ASSUME NEW a \in Attempts, TransportFails(a) PROVE Locked'
    BY <1>7 DEF TransportFails, Ends, Failed, Updated, Live
  <1>8. ASSUME NEW a \in Attempts, DeadlinePasses(a) PROVE Locked'
    BY <1>8 DEF DeadlinePasses, Ends, Failed, Updated, Live
  <1>9. ASSUME NEW a \in Attempts, SeesCancel(a) PROVE Locked'
    BY <1>9 DEF SeesCancel, Ends, Updated, Live, Publish, Message
  <1>10. ASSUME NEW a \in Attempts, TakesConfirm(a) PROVE Locked'
    BY <1>10 DEF TakesConfirm, registry
  <1>11. ASSUME NEW a \in Attempts, SendsProof(a) PROVE Locked'
    BY <1>11 DEF SendsProof, Ends, Updated, Live, Publish, Message
  <1>12. ASSUME NEW a \in Attempts, SendsPayload(a) PROVE Locked'
    BY <1>12 DEF SendsPayload, Updated, Live, Publish, Message
  <1>13. ASSUME NEW a \in Attempts, TakesDeny(a) PROVE Locked'
    BY <1>13 DEF TakesDeny, Publish, Message, registry
  <1>14. ASSUME NEW a \in Attempts, DenialEnds(a) PROVE Locked'
    BY <1>14 DEF DenialEnds, Ends, Failed, Updated, Live
  <1>15. ASSUME NEW a \in Attempts, NEW p \in Phones, HearsOffer(a, p) PROVE Locked'
    BY <1>15 DEF HearsOffer, Updated, Live
  <1>16. ASSUME NEW a \in Attempts, NEW p \in Phones, HearsAbort(a, p) PROVE Locked'
    BY <1>16 DEF HearsAbort, Ends, Failed, Updated, Live
  <1>17. ASSUME NEW a \in Attempts, NEW p \in Phones, HearsComplete(a, p) PROVE Locked'
    BY <1>17 DEF HearsComplete, Ends, Failed, Updated, Live
  <1>18. ASSUME NEW a \in Attempts, NEW p \in Phones, Scans(p, a) PROVE Locked'
    BY <1>18 DEF Scans, PhoneMoves, Publish, Message, registry, host, Unfinished
  <1>19. ASSUME NEW a \in Attempts, NEW p \in Phones, HearsProof(p, a) PROVE Locked'
    BY <1>19 DEF HearsProof, PhoneMoves, registry, host, Unfinished
  <1>20. ASSUME NEW a \in Attempts, NEW p \in Phones, PhoneConfirms(p, a) PROVE Locked'
    BY <1>20 DEF PhoneConfirms, PhoneMoves, registry, host, Unfinished
  <1>21. ASSUME NEW a \in Attempts, NEW p \in Phones, HearsPayload(p, a) PROVE Locked'
    BY <1>21 DEF HearsPayload, PhoneMoves, registry, host, Unfinished
  <1>22. ASSUME NEW a \in Attempts, NEW p \in Phones, PhoneSaves(p, a) PROVE Locked'
    BY <1>22 DEF PhoneSaves, PhoneMoves, Publish, Message, registry, host, Unfinished
  <1>23. ASSUME NEW a \in Attempts, NEW p \in Phones, CannotSave(p, a) PROVE Locked'
    BY <1>23 DEF CannotSave, PhoneMoves, Publish, Message, registry, host, Unfinished
  <1>24. ASSUME NEW a \in Attempts, NEW p \in Phones, PhoneAborts(p, a) PROVE Locked'
    BY <1>24 DEF PhoneAborts, PhoneMoves, Publish, Message, registry, host, Unfinished
  <1>25. ASSUME NEW a \in Attempts, NEW p \in Phones, HearsHostAbort(p, a) PROVE Locked'
    BY <1>25 DEF HearsHostAbort, PhoneMoves, registry, host, Unfinished
  <1> QED BY <1>1, <1>2, <1>3, <1>4, <1>5, <1>6, <1>7, <1>8, <1>9, <1>10, <1>11, <1>12, <1>13,
     <1>14, <1>15, <1>16, <1>17, <1>18, <1>19, <1>20, <1>21, <1>22, <1>23, <1>24, <1>25 DEF
     PairingNext

\* Every step keeps the marks and the registry together.
LEMMA MarksKept ==
  ASSUME PairingTypeOK, Locked, Marked, PairingTypeOK', PairingNext
  PROVE  Marked'
PROOF
  <1> USE PairingAssumption DEF PairingTypeOK, Locked, Marked, Live, Terminal, TransferIsShown
  <1>1. CASE Cancels
    BY <1>1 DEF Cancels, Stop, host
  <1>2. CASE Closes
    BY <1>2 DEF Closes, Stop, host
  <1>3. ASSUME NEW a \in Attempts, Starts(a) PROVE Marked'
    BY <1>3 DEF Starts
  <1>4. ASSUME NEW a \in Attempts, Confirms(a) PROVE Marked'
    BY <1>4 DEF Confirms
  <1>5. ASSUME NEW a \in Attempts, Denies(a) PROVE Marked'
    BY <1>5 DEF Denies, registry
  <1>6. ASSUME NEW a \in Attempts, SetUp(a) PROVE Marked'
    BY <1>6 DEF SetUp, Updated
  <1>7. ASSUME NEW a \in Attempts, TransportFails(a) PROVE Marked'
    BY <1>7 DEF TransportFails, Ends, Failed, Updated
  <1>8. ASSUME NEW a \in Attempts, DeadlinePasses(a) PROVE Marked'
    BY <1>8 DEF DeadlinePasses, Ends, Failed, Updated
  <1>9. ASSUME NEW a \in Attempts, SeesCancel(a) PROVE Marked'
    BY <1>9 DEF SeesCancel, Ends, Updated, Publish, Message
  <1>10. ASSUME NEW a \in Attempts, TakesConfirm(a) PROVE Marked'
    BY <1>10 DEF TakesConfirm, registry
  <1>11. ASSUME NEW a \in Attempts, SendsProof(a) PROVE Marked'
    BY <1>11 DEF SendsProof, Ends, Updated, Publish, Message
  <1>12. ASSUME NEW a \in Attempts, SendsPayload(a) PROVE Marked'
    BY <1>12 DEF SendsPayload, Updated, Publish, Message
  <1>13. ASSUME NEW a \in Attempts, TakesDeny(a) PROVE Marked'
    BY <1>13 DEF TakesDeny, Publish, Message, registry
  <1>14. ASSUME NEW a \in Attempts, DenialEnds(a) PROVE Marked'
    BY <1>14 DEF DenialEnds, Ends, Failed, Updated
  <1>15. ASSUME NEW a \in Attempts, NEW p \in Phones, HearsOffer(a, p) PROVE Marked'
    BY <1>15 DEF HearsOffer, Updated
  <1>16. ASSUME NEW a \in Attempts, NEW p \in Phones, HearsAbort(a, p) PROVE Marked'
    BY <1>16 DEF HearsAbort, Ends, Failed, Updated
  <1>17. ASSUME NEW a \in Attempts, NEW p \in Phones, HearsComplete(a, p) PROVE Marked'
    BY <1>17 DEF HearsComplete, Ends, Failed, Updated
  <1>18. ASSUME NEW a \in Attempts, NEW p \in Phones, Scans(p, a) PROVE Marked'
    BY <1>18 DEF Scans, PhoneMoves, Publish, Message, registry, host, Unfinished
  <1>19. ASSUME NEW a \in Attempts, NEW p \in Phones, HearsProof(p, a) PROVE Marked'
    BY <1>19 DEF HearsProof, PhoneMoves, registry, host, Unfinished
  <1>20. ASSUME NEW a \in Attempts, NEW p \in Phones, PhoneConfirms(p, a) PROVE Marked'
    BY <1>20 DEF PhoneConfirms, PhoneMoves, registry, host, Unfinished
  <1>21. ASSUME NEW a \in Attempts, NEW p \in Phones, HearsPayload(p, a) PROVE Marked'
    BY <1>21 DEF HearsPayload, PhoneMoves, registry, host, Unfinished
  <1>22. ASSUME NEW a \in Attempts, NEW p \in Phones, PhoneSaves(p, a) PROVE Marked'
    BY <1>22 DEF PhoneSaves, PhoneMoves, Publish, Message, registry, host, Unfinished
  <1>23. ASSUME NEW a \in Attempts, NEW p \in Phones, CannotSave(p, a) PROVE Marked'
    BY <1>23 DEF CannotSave, PhoneMoves, Publish, Message, registry, host, Unfinished
  <1>24. ASSUME NEW a \in Attempts, NEW p \in Phones, PhoneAborts(p, a) PROVE Marked'
    BY <1>24 DEF PhoneAborts, PhoneMoves, Publish, Message, registry, host, Unfinished
  <1>25. ASSUME NEW a \in Attempts, NEW p \in Phones, HearsHostAbort(p, a) PROVE Marked'
    BY <1>25 DEF HearsHostAbort, PhoneMoves, registry, host, Unfinished
  <1> QED BY <1>1, <1>2, <1>3, <1>4, <1>5, <1>6, <1>7, <1>8, <1>9, <1>10, <1>11, <1>12, <1>13,
     <1>14, <1>15, <1>16, <1>17, <1>18, <1>19, <1>20, <1>21, <1>22, <1>23, <1>24, <1>25 DEF
     PairingNext

\* Every step keeps what published events say.
LEMMA KnowledgeKept ==
  ASSUME PairingTypeOK, Locked, Marked, Known, PairingTypeOK', PairingNext
  PROVE  Known'
PROOF
  <1> USE PairingAssumption, MessagesDiffer DEF PairingTypeOK, Locked, Marked, Known, Arrives
  <1>1. CASE Cancels
    BY <1>1 DEF Cancels, Stop, host
  <1>2. CASE Closes
    BY <1>2 DEF Closes, Stop, host
  <1>3. ASSUME NEW a \in Attempts, Starts(a) PROVE Known'
    BY <1>3 DEF Starts
  <1>4. ASSUME NEW a \in Attempts, Confirms(a) PROVE Known'
    BY <1>4 DEF Confirms
  <1>5. ASSUME NEW a \in Attempts, Denies(a) PROVE Known'
    BY <1>5 DEF Denies, registry
  <1>6. ASSUME NEW a \in Attempts, SetUp(a) PROVE Known'
    BY <1>6 DEF SetUp, Updated, Live
  <1>7. ASSUME NEW a \in Attempts, TransportFails(a) PROVE Known'
    BY <1>7 DEF TransportFails, Ends, Failed, Updated, Live
  <1>8. ASSUME NEW a \in Attempts, DeadlinePasses(a) PROVE Known'
    BY <1>8 DEF DeadlinePasses, Ends, Failed, Updated, Live
  <1>9. ASSUME NEW a \in Attempts, SeesCancel(a) PROVE Known'
    BY <1>9 DEF SeesCancel, Ends, Updated, Live, Publish
  <1>10. ASSUME NEW a \in Attempts, TakesConfirm(a) PROVE Known'
    BY <1>10 DEF TakesConfirm, registry
  <1>11. ASSUME NEW a \in Attempts, SendsProof(a) PROVE Known'
    BY <1>11 DEF SendsProof, Ends, Updated, Live, Publish
  <1>12. ASSUME NEW a \in Attempts, SendsPayload(a) PROVE Known'
    BY <1>12 DEF SendsPayload, Updated, Live, Publish
  <1>13. ASSUME NEW a \in Attempts, TakesDeny(a) PROVE Known'
    BY <1>13 DEF TakesDeny, Publish, registry
  <1>14. ASSUME NEW a \in Attempts, DenialEnds(a) PROVE Known'
    BY <1>14 DEF DenialEnds, Ends, Failed, Updated, Live
  <1>15. ASSUME NEW a \in Attempts, NEW p \in Phones, HearsOffer(a, p) PROVE Known'
    BY <1>15 DEF HearsOffer, Updated, Live
  <1>16. ASSUME NEW a \in Attempts, NEW p \in Phones, HearsAbort(a, p) PROVE Known'
    BY <1>16 DEF HearsAbort, Ends, Failed, Updated, Live
  <1>17. ASSUME NEW a \in Attempts, NEW p \in Phones, HearsComplete(a, p) PROVE Known'
    BY <1>17 DEF HearsComplete, Ends, Failed, Updated, Live
  <1>18. ASSUME NEW a \in Attempts, NEW p \in Phones, Scans(p, a) PROVE Known'
    BY <1>18 DEF Scans, PhoneMoves, Publish, registry, host, Unfinished
  <1>19. ASSUME NEW a \in Attempts, NEW p \in Phones, HearsProof(p, a) PROVE Known'
    BY <1>19 DEF HearsProof, PhoneMoves, registry, host, Unfinished
  <1>20. ASSUME NEW a \in Attempts, NEW p \in Phones, PhoneConfirms(p, a) PROVE Known'
    BY <1>20 DEF PhoneConfirms, PhoneMoves, registry, host, Unfinished
  <1>21. ASSUME NEW a \in Attempts, NEW p \in Phones, HearsPayload(p, a) PROVE Known'
    BY <1>21 DEF HearsPayload, PhoneMoves, registry, host, Unfinished
  <1>22. ASSUME NEW a \in Attempts, NEW p \in Phones, PhoneSaves(p, a) PROVE Known'
    BY <1>22 DEF PhoneSaves, PhoneMoves, Publish, registry, host, Unfinished
  <1>23. ASSUME NEW a \in Attempts, NEW p \in Phones, CannotSave(p, a) PROVE Known'
    BY <1>23 DEF CannotSave, PhoneMoves, Publish, registry, host, Unfinished
  <1>24. ASSUME NEW a \in Attempts, NEW p \in Phones, PhoneAborts(p, a) PROVE Known'
    BY <1>24 DEF PhoneAborts, PhoneMoves, Publish, registry, host, Unfinished
  <1>25. ASSUME NEW a \in Attempts, NEW p \in Phones, HearsHostAbort(p, a) PROVE Known'
    BY <1>25 DEF HearsHostAbort, PhoneMoves, registry, host, Unfinished
  <1> QED BY <1>1, <1>2, <1>3, <1>4, <1>5, <1>6, <1>7, <1>8, <1>9, <1>10, <1>11, <1>12, <1>13,
     <1>14, <1>15, <1>16, <1>17, <1>18, <1>19, <1>20, <1>21, <1>22, <1>23, <1>24, <1>25 DEF
     PairingNext

\* Every step keeps the outcome on show true.
LEMMA OutcomeKept ==
  ASSUME PairingTypeOK, Locked, Marked, Known, Outcome, PairingTypeOK', PairingNext
  PROVE  Outcome'
PROOF
  <1> USE PairingAssumption, MessagesDiffer DEF PairingTypeOK, Locked, Marked, Known, Outcome, Arrives, Live, TransferIsShown
  <1>1. CASE Cancels
    BY <1>1 DEF Cancels, Stop, host
  <1>2. CASE Closes
    BY <1>2 DEF Closes, Stop, host
  <1>3. ASSUME NEW a \in Attempts, Starts(a) PROVE Outcome'
    BY <1>3 DEF Starts
  <1>4. ASSUME NEW a \in Attempts, Confirms(a) PROVE Outcome'
    BY <1>4 DEF Confirms
  <1>5. ASSUME NEW a \in Attempts, Denies(a) PROVE Outcome'
    BY <1>5 DEF Denies, registry
  <1>6. ASSUME NEW a \in Attempts, SetUp(a) PROVE Outcome'
    BY <1>6 DEF SetUp, Updated
  <1>7. ASSUME NEW a \in Attempts, TransportFails(a) PROVE Outcome'
    BY <1>7 DEF TransportFails, Ends, Failed, Updated
  <1>8. ASSUME NEW a \in Attempts, DeadlinePasses(a) PROVE Outcome'
    BY <1>8 DEF DeadlinePasses, Ends, Failed, Updated
  <1>9. ASSUME NEW a \in Attempts, SeesCancel(a) PROVE Outcome'
    BY <1>9 DEF SeesCancel, Ends, Updated, Publish
  <1>10. ASSUME NEW a \in Attempts, TakesConfirm(a) PROVE Outcome'
    BY <1>10 DEF TakesConfirm, registry
  <1>11. ASSUME NEW a \in Attempts, SendsProof(a) PROVE Outcome'
    BY <1>11 DEF SendsProof, Ends, Updated, Publish
  <1>12. ASSUME NEW a \in Attempts, SendsPayload(a) PROVE Outcome'
    BY <1>12 DEF SendsPayload, Updated, Publish
  <1>13. ASSUME NEW a \in Attempts, TakesDeny(a) PROVE Outcome'
    BY <1>13 DEF TakesDeny, Publish, registry
  <1>14. ASSUME NEW a \in Attempts, DenialEnds(a) PROVE Outcome'
    BY <1>14 DEF DenialEnds, Ends, Failed, Updated
  <1>15. ASSUME NEW a \in Attempts, NEW p \in Phones, HearsOffer(a, p) PROVE Outcome'
    BY <1>15 DEF HearsOffer, Updated
  <1>16. ASSUME NEW a \in Attempts, NEW p \in Phones, HearsAbort(a, p) PROVE Outcome'
    BY <1>16 DEF HearsAbort, Ends, Failed, Updated
  <1>17. ASSUME NEW a \in Attempts, NEW p \in Phones, HearsComplete(a, p) PROVE Outcome'
    BY <1>17 DEF HearsComplete, Ends, Failed, Updated
  <1>18. ASSUME NEW a \in Attempts, NEW p \in Phones, Scans(p, a) PROVE Outcome'
    BY <1>18 DEF Scans, PhoneMoves, Publish, registry, host, Unfinished
  <1>19. ASSUME NEW a \in Attempts, NEW p \in Phones, HearsProof(p, a) PROVE Outcome'
    BY <1>19 DEF HearsProof, PhoneMoves, registry, host, Unfinished
  <1>20. ASSUME NEW a \in Attempts, NEW p \in Phones, PhoneConfirms(p, a) PROVE Outcome'
    BY <1>20 DEF PhoneConfirms, PhoneMoves, registry, host, Unfinished
  <1>21. ASSUME NEW a \in Attempts, NEW p \in Phones, HearsPayload(p, a) PROVE Outcome'
    BY <1>21 DEF HearsPayload, PhoneMoves, registry, host, Unfinished
  <1>22. ASSUME NEW a \in Attempts, NEW p \in Phones, PhoneSaves(p, a) PROVE Outcome'
    BY <1>22 DEF PhoneSaves, PhoneMoves, Publish, registry, host, Unfinished
  <1>23. ASSUME NEW a \in Attempts, NEW p \in Phones, CannotSave(p, a) PROVE Outcome'
    BY <1>23 DEF CannotSave, PhoneMoves, Publish, registry, host, Unfinished
  <1>24. ASSUME NEW a \in Attempts, NEW p \in Phones, PhoneAborts(p, a) PROVE Outcome'
    BY <1>24 DEF PhoneAborts, PhoneMoves, Publish, registry, host, Unfinished
  <1>25. ASSUME NEW a \in Attempts, NEW p \in Phones, HearsHostAbort(p, a) PROVE Outcome'
    BY <1>25 DEF HearsHostAbort, PhoneMoves, registry, host, Unfinished
  <1> QED BY <1>1, <1>2, <1>3, <1>4, <1>5, <1>6, <1>7, <1>8, <1>9, <1>10, <1>11, <1>12, <1>13,
     <1>14, <1>15, <1>16, <1>17, <1>18, <1>19, <1>20, <1>21, <1>22, <1>23, <1>24, <1>25 DEF
     PairingNext

----------------------------------------------------------------------------
\* The invariant and what it implies.

LEMMA InitKept == PairingInit => IPairing
PROOF
  <1> SUFFICES ASSUME PairingInit PROVE IPairing
    OBVIOUS
  <1>1. PairingTypeOK BY DEF PairingInit, PairingTypeOK, Statuses, Kinds, Terminal, Unfinished
  <1>2. Locked BY DEF PairingInit, Locked, Terminal
  <1>3. Marked BY PairingAssumption DEF PairingInit, Marked, Live, TransferIsShown
  <1>4. Known BY DEF PairingInit, Known, Arrives
  <1>5. Outcome BY DEF PairingInit, Outcome
  <1> QED BY <1>1, <1>2, <1>3, <1>4, <1>5 DEF IPairing

\* Only mark_payload_sent() marks, and only the live attempt.
LEMMA OnlyLiveMarked ==
  ASSUME PairingNext
  PROVE  payloadSent' = payloadSent \/ \E a \in Attempts : Live(a) /\ payloadSent' = payloadSent \cup {a}
PROOF
  <1> DEFINE P == payloadSent' = payloadSent \/ \E a \in Attempts : Live(a) /\ payloadSent' = payloadSent \cup {a}
  <1>1. CASE Cancels \/ Closes BY <1>1 DEF Cancels, Closes
  <1>2. ASSUME NEW a \in Attempts,
               \/ Starts(a) \/ Confirms(a) \/ Denies(a) \/ SetUp(a) \/ TakesConfirm(a)
               \/ SendsPayload(a) \/ TakesDeny(a)
        PROVE  P
    BY <1>2 DEF Starts, Confirms, Denies, SetUp, TakesConfirm, SendsPayload, TakesDeny, registry
  <1>3. ASSUME NEW a \in Attempts,
               \/ TransportFails(a) \/ DeadlinePasses(a) \/ SeesCancel(a) \/ DenialEnds(a)
        PROVE  P
    BY <1>3 DEF TransportFails, DeadlinePasses, SeesCancel, DenialEnds, Ends
  <1>4. ASSUME NEW a \in Attempts, SendsProof(a) PROVE P
    BY <1>4 DEF SendsProof, Ends
  <1>5. ASSUME NEW a \in Attempts, NEW p \in Phones,
               HearsOffer(a, p) \/ HearsAbort(a, p) \/ HearsComplete(a, p)
        PROVE  P
    BY <1>5 DEF HearsOffer, HearsAbort, HearsComplete, Ends
  <1>6. ASSUME NEW a \in Attempts, NEW p \in Phones,
               \/ Scans(p, a) \/ HearsProof(p, a) \/ PhoneConfirms(p, a) \/ HearsPayload(p, a)
               \/ PhoneSaves(p, a) \/ CannotSave(p, a) \/ PhoneAborts(p, a) \/ HearsHostAbort(p, a)
        PROVE  P
    BY <1>6 DEF Scans, HearsProof, PhoneConfirms, HearsPayload, PhoneSaves, CannotSave, PhoneAborts,
       HearsHostAbort, PhoneMoves, registry
  <1> QED BY <1>1, <1>2, <1>3, <1>4, <1>5, <1>6 DEF PairingNext

LEMMA StepKept == IPairing /\ [PairingNext]_pairing => IPairing'
PROOF
  <1> SUFFICES ASSUME IPairing, [PairingNext]_pairing PROVE IPairing'
    OBVIOUS
  <1>1. CASE PairingNext
    <2>1. PairingTypeOK' BY <1>1, TypesKept DEF IPairing
    <2>2. Locked' BY <1>1, <2>1, LockKept DEF IPairing
    <2>3. Marked' BY <1>1, <2>1, MarksKept DEF IPairing
    <2>4. Known' BY <1>1, <2>1, KnowledgeKept DEF IPairing
    <2>5. Outcome' BY <1>1, <2>1, OutcomeKept DEF IPairing
    <2> QED BY <2>1, <2>2, <2>3, <2>4, <2>5 DEF IPairing
  <1>2. CASE UNCHANGED pairing
    BY <1>2 DEF pairing, IPairing, PairingTypeOK, Locked, Marked, Known, Outcome, Arrives, Live,
       TransferIsShown
  <1> QED BY <1>1, <1>2

\* The inductive invariant holds of every behaviour.
THEOREM PairingInvariant == PairingSpec => []IPairing
PROOF
  <1> QED BY InitKept, StepKept, PTL DEF PairingSpec

\* The types are kept, whatever the attempts and phones.
THEOREM PairingTypes == PairingSpec => []PairingTypeOK
PROOF
  <1>1. IPairing => PairingTypeOK BY DEF IPairing
  <1> QED BY <1>1, PairingInvariant, PTL

\* The account goes only to the phone whose code the user compared.
THEOREM PayloadOnlyForConfirmedPhone == PairingSpec => []PayloadForConfirmedPhone
PROOF
  <1>1. IPairing => PayloadForConfirmedPhone
    <2> SUFFICES ASSUME IPairing, NEW m \in net, m.kind = "payload" PROVE m.phone = Mine
      BY DEF PayloadForConfirmedPhone
    <2>1. m.attempt \in Attempts /\ m.phone \in Phones /\ m = Message(m.attempt, m.phone, "payload")
      BY DEF IPairing, PairingTypeOK, Message
    <2> QED BY <2>1 DEF IPairing, Known, Arrives
  <1> QED BY <1>1, PairingInvariant, PTL

\* A payload that may be out is never shown as expired, cancelled or a code.
THEOREM TransfersAreShown == PairingSpec => []TransferIsShown
PROOF
  <1>1. IPairing => TransferIsShown BY DEF IPairing, Marked
  <1> QED BY <1>1, PairingInvariant, PTL

\* What the registered attempt shows is what happened on the phone.
THEOREM OutcomesAreTrue == PairingSpec => []OutcomeIsTrue
PROOF
  <1>1. IPairing => OutcomeIsTrue
    BY PairingAssumption DEF IPairing, PairingTypeOK, Marked, Known, Outcome, OutcomeIsTrue,
       TransferIsShown
  <1> QED BY <1>1, PairingInvariant, PTL

\* What the desktop shows can be relied on.
THEOREM StatusIsAlwaysTrue == PairingSpec => []StatusIsTrue
PROOF
  BY OutcomesAreTrue, TransfersAreShown, PTL DEF StatusIsTrue

\* A decision the task takes finds the session confirming.
THEOREM DecisionsAlwaysFindTheirSession == PairingSpec => []DecisionsFindTheirSession
PROOF
  <1>1. IPairing => DecisionsFindTheirSession
    BY DEF IPairing, PairingTypeOK, Locked, Marked, DecisionsFindTheirSession, Terminal
  <1> QED BY <1>1, PairingInvariant, PTL

\* An attempt cancelled before its mark never publishes the account.
THEOREM CancelledIsUnsent == PairingSpec => CancelMeansUnsent
PROOF
  <1>1. IPairing /\ [PairingNext]_pairing =>
          [\A a \in cancelled \ payloadSent :
             a \notin payloadSent' /\ \A p \in Phones : Message(a, p, "payload") \notin net']_pairing
    <2> SUFFICES ASSUME IPairing, PairingNext, NEW a \in cancelled \ payloadSent
                 PROVE  a \notin payloadSent' /\ \A p \in Phones : Message(a, p, "payload") \notin net'
      OBVIOUS
    <2>1. a \in Attempts BY DEF IPairing, PairingTypeOK
    <2>2. a \notin payloadSent' BY <2>1, OnlyLiveMarked DEF Live
    <2>3. Known' BY StepKept DEF IPairing
    <2> QED BY <2>1, <2>2, <2>3 DEF Known, Arrives
  <1> QED BY <1>1, PairingInvariant, PTL DEF PairingSpec, CancelMeansUnsent

\* After signing out closed pairing nothing gets as far as publishing the account.
THEOREM StaysClosed == PairingSpec => ClosedForGood
PROOF
  <1>1. IPairing /\ [PairingNext]_pairing => [closed => payloadSent' = payloadSent]_pairing
    <2> SUFFICES ASSUME IPairing, PairingNext, closed PROVE payloadSent' = payloadSent
      OBVIOUS
    <2>1. ASSUME NEW a \in Attempts PROVE ~Live(a)
      BY <2>1, PairingAssumption DEF IPairing, Marked, Live
    <2> QED BY <2>1, OnlyLiveMarked
  <1> QED BY <1>1, PairingInvariant, PTL DEF PairingSpec, ClosedForGood

\* A stop holds, whoever asked for it.
THEOREM StoppedIsUnsent == PairingSpec => StoppedMeansUnsent
PROOF
  BY CancelledIsUnsent, StaysClosed DEF StoppedMeansUnsent
=============================================================================
