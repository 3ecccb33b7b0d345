------------------------------ MODULE MCShared ------------------------------
(***************************************************************************)
(* Small instances of the parts that share state between actors: windows   *)
(* that write one journal, an installation that publishes its read         *)
(* markers, two devices that pair, and agents whose context is labelled.   *)
(* They are independent, so a behaviour exercises one of them, chosen in   *)
(* its initial state; the others rest.                                     *)
(***************************************************************************)
EXTENDS InformationFlow, Pairing, OutboxJournal, ReadState, TLC

CONSTANTS
  i1, i2, k1, w1, w2,        \* events, a recovery key and windows
  a1, a2, near, away,        \* pairing attempts and phones
  channel, thread            \* read markers

\* One row was left by the release that kept the journal in one record.
MCLegacy == [i \in Ids |-> IF i = i1 THEN [key |-> k1, delivery |-> "failed"] ELSE NoRow]
\* One window recovers what the other sends and dismisses.
MCMay ==
  [w \in Windows |->
     IF w = w1 THEN {"recovery", "recover", "retry", "deliver", "acknowledge", "fail"}
               ELSE {"send", "dismiss", "evict", "close"}]

MCKind ==
  [c \in Channels |-> CASE c = "team" -> "restricted" [] c = "dm" -> "dm" [] OTHER -> "public"]
MCCommunityOf == [c \in Channels |-> IF c = "far" THEN "away" ELSE "home"]
MCOwnerOf == [a \in Agents |-> "owner"]
MCBotPolicy == [o \in Operations |-> IF o = "reply" THEN "publication" ELSE "contained"]
MCConversationPolicy == [o \in Operations |-> IF o = "delete" THEN "none" ELSE "contained"]

\* No action tells one pairing attempt from another.
AttemptSymmetry == Permutations(Attempts)

VARIABLE part

Init ==
  /\ part \in {"flow", "pairing", "journal", "markers"}
  /\ FlowInit /\ PairingInit /\ JournalInit /\ ReadStateInit

Next ==
  /\ UNCHANGED part
  /\ \/ part = "flow" /\ FlowNext /\ UNCHANGED <<pairing, journal, readState>>
     \/ part = "pairing" /\ PairingNext /\ UNCHANGED <<ifc, journal, readState>>
     \/ part = "journal" /\ JournalNext /\ UNCHANGED <<ifc, pairing, readState>>
     \/ part = "markers" /\ ReadStateNext /\ UNCHANGED <<ifc, pairing, journal>>

SharedSpec == Init /\ [][Next]_<<part, ifc, pairing, journal, readState>>
=============================================================================
