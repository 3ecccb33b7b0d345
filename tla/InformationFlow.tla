--------------------------- MODULE InformationFlow ---------------------------
(***************************************************************************)
(* What an agent may read and publish (crates/ifc-core, crates/buzz-ifc):  *)
(* reader-set labels, execution domains derived from verified facts, and   *)
(* the session that checks each read, call and publication, under a broker *)
(* that keeps a session for as long as the agent's memory it restricts.    *)
(*                                                                         *)
(* The history variables follow the origins of what the agent knows: each  *)
(* conversation it read, directly or through state another session saved.  *)
(***************************************************************************)
EXTENDS Naturals, FiniteSets

CONSTANTS
  Principals, Agents,       \* people, agents and relays; the agents among them
  Communities, Channels,
  Kind, CommunityOf,        \* of each channel: "public", "restricted" or "dm"
  OwnerOf,                  \* the owner of each agent, or NoOne
  System, NoOne,            \* the relay's own identity; "none"
  Requests,                 \* the authors of the events of a turn
  Operations,
  BotPolicy, ConversationPolicy,  \* of each operation: "none", "contained", "publication"
  MaxSessions, MaxSaved, MaxChanges  \* bounds: sessions, saved state, membership changes

Effects == {"none", "contained", "publication"}

ASSUME FlowAssumption ==
  /\ Agents \subseteq Principals /\ NoOne \notin Principals
  /\ Requests \subseteq SUBSET Principals
  /\ Kind \in [Channels -> {"public", "restricted", "dm"}]
  /\ CommunityOf \in [Channels -> Communities]
  /\ OwnerOf \in [Agents -> Principals \cup {NoOne}]
  /\ BotPolicy \in [Operations -> Effects] /\ ConversationPolicy \in [Operations -> Effects]

VARIABLES
  members,   \* verified members of each channel
  sessions,  \* the broker's pool: IfcSession with the memory it restricts
  saved,     \* derived state (summaries, files) with its label
  changes    \* history: membership changes

ifc == <<members, sessions, saved, changes>>

----------------------------------------------------------------------------
\* Labels. A public label names no readers.

PublicLabel(u) == [universe |-> u, public |-> TRUE, readers |-> {}]
Restricted(u, rs) == [universe |-> u, public |-> FALSE, readers |-> rs]
Labels == [universe : Communities, public : BOOLEAN, readers : SUBSET Principals]

\* Who may learn a value of label l.
Audience(l) == {l.universe} \X (IF l.public THEN Principals ELSE l.readers)

CanFlow(a, b) ==
  a.universe = b.universe /\ (a.public \/ (~b.public /\ b.readers \subseteq a.readers))

\* The label of a value computed from both, of one universe.
Join(a, b) ==
  IF a.public THEN b
  ELSE IF b.public THEN a
  ELSE [a EXCEPT !.readers = @ \cap b.readers]

\* FlowState: what was observed ({} or one label), and whether something unlabelled was.
NoFlow == [accumulated |-> {}, unresolved |-> FALSE]

Observed(f, l) ==
  IF f.accumulated = {} THEN [f EXCEPT !.accumulated = {l}]
  ELSE IF \A a \in f.accumulated : a.universe = l.universe
       THEN [f EXCEPT !.accumulated = {Join(a, l) : a \in @}]
       ELSE [f EXCEPT !.unresolved = TRUE]

MayLeave(f, destination) ==
  ~f.unresolved /\ \A a \in f.accumulated : CanFlow(a, destination)

----------------------------------------------------------------------------
\* Contexts, resources and domains.

PublicContext(u) == [kind |-> "public", community |-> u, of |-> NoOne]
ConversationContext(u, c) == [kind |-> "conversation", community |-> u, of |-> c]
OwnerContext(u, p) == [kind |-> "owner", community |-> u, of |-> p]

\* Mutant: private conversations of one community share retained state.
PermitsCommunity(self, source) ==
  self.community = source.community /\ (source.kind = "owner" => self = source)

\* Whether retained state in context self may admit a resource of context source.
Permits(self, source) ==
  /\ self.community = source.community
  /\ \/ source.kind = "public"
     \/ source.kind = "conversation" /\ (self = source \/ self.kind = "owner")
     \/ source.kind = "owner" /\ self = source

\* The label of conversation data read by rs.
FromConversation(c, rs) ==
  LET u == CommunityOf[c]
  IN  IF Kind[c] = "public"
      THEN [audience |-> PublicLabel(u), context |-> PublicContext(u)]
      ELSE [audience |-> Restricted(u, rs), context |-> ConversationContext(u, c)]

MostRestrictive(e, f) ==
  IF e = "none" \/ f = "none" THEN "none"
  ELSE IF "publication" \in {e, f} THEN "publication" ELSE "contained"

\* Owner-private work that only the owner requested may use all the bot may.
Capabilities(context, byOwner) ==
  [op \in Operations |->
     IF context.kind = "owner" /\ byOwner THEN BotPolicy[op]
     ELSE MostRestrictive(BotPolicy[op], ConversationPolicy[op])]

\* The verified facts do not form a domain.
Refused(c, agent, requesters, people) ==
  \/ requesters = {}
  \/ Kind[c] # "public" /\ ( \/ agent \notin people
                             \/ ~(requesters \ {System} \subseteq people)
                             \/ people \ {agent} = {})

\* derive_execution_domain() of accepted facts.
DerivedDomain(c, agent, requesters, people) ==
  LET owner == OwnerOf[agent]
      raw == FromConversation(c, people \ {agent})
      private == Kind[c] = "dm" /\ people \ {agent} = {owner}
      context == IF private THEN OwnerContext(CommunityOf[c], owner) ELSE raw.context
      byOwner == requesters = {owner}
  IN  [agent |-> agent, owner |-> owner, audience |-> raw.audience, context |-> context,
       capabilities |-> Capabilities(context, byOwner)]

\* The check of ExecutionDomain::new: audience and context agree.
Consistent(d) ==
  /\ d.audience.universe = d.context.community
  /\ CASE d.context.kind = "public" -> d.audience.public
       [] d.context.kind = "conversation" -> ~d.audience.public /\ d.audience.readers # {}
       [] d.context.kind = "owner" -> ~d.audience.public /\ d.audience.readers = {d.context.of}

FromDomain(d) == [audience |-> d.audience, context |-> d.context]

----------------------------------------------------------------------------
\* The broker's steps.

FlowInit ==
  /\ members = [c \in Channels |-> Principals \ {System}]
  /\ sessions = {} /\ saved = {} /\ changes = 0

\* A principal leaves or joins a channel.
MembershipChanges(c, p) ==
  /\ changes < MaxChanges /\ changes' = changes + 1
  /\ members' = [members EXCEPT ![c] = IF p \in @ THEN @ \ {p} ELSE @ \cup {p}]
  /\ UNCHANGED <<sessions, saved>>

\* The session of a domain, entered for a conversation with what the agent knows.
Entered(c, d, knows, tainted, owners) ==
  [domain |-> d, channel |-> c, flow |-> Observed(NoFlow, d.audience),
   knows |-> knows, tainted |-> tainted, ownersOnly |-> owners]

Retained(c, d) == {s \in sessions : s.domain = d /\ s.channel = c}

\* Mutant: each turn enters its domain anew, over the memory of the turns before.
EntersAgain(c, agent, requesters) ==
  /\ ~Refused(c, agent, requesters, members[c])
  /\ LET d == DerivedDomain(c, agent, requesters, members[c])
         old == Retained(c, d)
     IN  /\ Consistent(d)
         /\ old # {} \/ Cardinality(sessions) < MaxSessions
         /\ sessions' = (sessions \ old) \cup
              {Entered(c, d, UNION {s.knows : s \in old}, \E s \in old : s.tainted,
                       requesters = {OwnerOf[agent]})}
  /\ UNCHANGED <<members, saved, changes>>

\* A turn begins in the retained session of its domain and conversation, or in a
\* new one.
Enters(c, agent, requesters) ==
  /\ ~Refused(c, agent, requesters, members[c])
  /\ LET d == DerivedDomain(c, agent, requesters, members[c])
         old == Retained(c, d)
         owners == requesters = {OwnerOf[agent]}
     IN  /\ Consistent(d)
         /\ old # {} \/ Cardinality(sessions) < MaxSessions
         /\ sessions' =
              IF old = {} THEN sessions \cup {Entered(c, d, {}, FALSE, owners)}
              ELSE (sessions \ old) \cup
                     {[s EXCEPT !.ownersOnly = @ /\ owners] : s \in old}
  /\ UNCHANGED <<members, saved, changes>>

MayRead(s, resource) ==
  /\ CanFlow(resource.audience, s.domain.audience)
  /\ Permits(s.domain.context, resource.context)

Learns(s, origins) ==
  sessions' = (sessions \ {s}) \cup {[s EXCEPT !.knows = @ \cup origins]}

\* read(): the agent is given conversation data, labelled with its present members.
ReadsConversation(s, c) ==
  /\ Kind[c] = "public" \/ members[c] # {}
  /\ LET resource == FromConversation(c, members[c])
     IN  MayRead(s, resource) /\ Learns(s, {resource})
  /\ UNCHANGED <<members, saved, changes>>

\* read(): the agent is given saved state.
ReadsSaved(s, item) ==
  /\ MayRead(s, item.label) /\ Learns(s, item.origins)
  /\ UNCHANGED <<members, saved, changes>>

\* mark_unknown_input(): unlabelled input reaches the agent.
ReceivesUnknown(s) ==
  /\ sessions' = (sessions \ {s}) \cup {[s EXCEPT !.flow.unresolved = TRUE, !.tainted = TRUE]}
  /\ UNCHANGED <<members, saved, changes>>

\* The agent saves what it derived. State of a tainted session is not labelled by
\* the library; the broker keeps it with that session only.
Saves(s) ==
  /\ ~s.tainted /\ Cardinality(saved) < MaxSaved
  /\ saved' = saved \cup {[label |-> FromDomain(s.domain), origins |-> s.knows]}
  /\ UNCHANGED <<members, sessions, changes>>

\* call(): an operation that cannot publish is executed.
MayCall(s, op) == s.domain.capabilities[op] = "contained"

\* publish(): a publication to a destination the broker resolved is authorised.
MayPublish(s, op, destination) ==
  s.domain.capabilities[op] = "publication" /\ MayLeave(s.flow, destination)

\* Labels are never restricted to nobody.
Destinations == {l \in Labels : l.public = (l.readers = {})}

FlowNext ==
  \/ \E c \in Channels, p \in Principals : MembershipChanges(c, p)
  \/ \E c \in Channels, a \in Agents, rs \in Requests : Enters(c, a, rs)
  \/ \E s \in sessions :
       \/ \E c \in Channels : ReadsConversation(s, c)
       \/ \E item \in saved : ReadsSaved(s, item)
       \/ ReceivesUnknown(s) \/ Saves(s)

FlowSpec == FlowInit /\ [][FlowNext]_ifc

----------------------------------------------------------------------------
\* Correctness.

\* "Sending information is safe only when the destination adds no new readers"
\* (ifc-core lib.rs:36): whoever receives a publication was allowed to read every
\* conversation the publishing agent learnt of, in person or through state another
\* session saved, and no unlabelled input is in it.
PublicationsAuthorised ==
  \A s \in sessions, op \in Operations, d \in Destinations :
    MayPublish(s, op, d) =>
      /\ ~s.tainted
      /\ \A origin \in s.knows : Audience(d) \subseteq Audience(origin.audience)

\* "Two private channels keep separate state even if they have the same members"
\* (domain.rs:10): an agent's memory holds, besides public data of its community,
\* only data of its own conversation, or of the owner's conversations when private to
\* that owner.
MemoryStaysInContext ==
  \A s \in sessions : \A origin \in s.knows :
    LET here == s.domain.context there == origin.context
    IN  /\ here.community = there.community
        /\ there.kind = "public" \/ there = here \/ here.kind = "owner"

\* What the policies list as a publication is never executed as a call, and what they
\* omit is not executed at all, save for the conversation's list in turns that only the
\* owner requested, privately to the owner (domain.rs:125-145, 306-326).
PoliciesHold ==
  \A s \in sessions, op \in Operations :
    LET lists == {BotPolicy[op]} \cup (IF s.domain.context.kind = "owner" /\ s.ownersOnly
                                       THEN {} ELSE {ConversationPolicy[op]})
    IN  /\ MayCall(s, op) => "none" \notin lists /\ "publication" \notin lists
        /\ \A d \in Destinations : MayPublish(s, op, d) => "none" \notin lists
=============================================================================
