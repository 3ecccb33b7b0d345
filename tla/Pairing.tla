------------------------------ MODULE Pairing ------------------------------
(***************************************************************************)
(* Handing the account to a phone: the registry of attempts and the task   *)
(* of each attempt (src-tauri/src/pairing/mod.rs) over the pairing         *)
(* protocol (crates/pairing/src/session.rs), both ends of it.              *)
(*                                                                         *)
(* The pairing relay may lose, repeat, delay and reorder: an event once    *)
(* published may reach its reader at any later time, any number of times,  *)
(* or never.  Deadlines and transport failures may come at any time.  The  *)
(* user confirms a code only when the phone in hand shows the same one.    *)
(***************************************************************************)
EXTENDS FiniteSets

CONSTANTS
  Attempts,   \* ids of pairing attempts, each used once
  Phones,     \* phones that may scan a code
  Mine,       \* the phone the user means to pair
  None        \* no attempt, no phone

ASSUME PairingAssumption == Mine \in Phones /\ None \notin Attempts \cup Phones

VARIABLES
  active,       \* the registered attempt
  closed,       \* signing out has closed pairing
  status,       \* what the registry shows of each attempt
  code,         \* the phone whose code that status shows
  cancelled,    \* attempts whose cancellation token is set
  payloadSent,  \* attempts marked before their payload is published
  decision,     \* the queued decision of each attempt
  task,         \* where the task of each attempt is
  session,      \* the desktop's protocol state
  peer,         \* the phone that session is locked to
  net,          \* every event published so far
  phone         \* the protocol state of each phone in each attempt

registry == <<active, closed, status, code, cancelled, payloadSent>>
host == <<decision, task, session, peer>>
pairing == <<active, closed, status, code, cancelled, payloadSent,
             decision, task, session, peer, net, phone>>

Statuses == {"connecting", "qr", "code", "transferring", "complete", "expired",
             "uncertain", "error", "cancelled"}
Kinds == {"offer", "proof", "payload", "abort", "complete", "failed", "phoneAbort"}
Message(a, p, k) == [attempt |-> a, phone |-> p, kind |-> k]
Arrives(a, p, k) == Message(a, p, k) \in net
Publish(a, p, k) == net' = net \cup {Message(a, p, k)}

Terminal == {"completed", "aborted"}

----------------------------------------------------------------------------
\* The registry: every operation holds its lock.

\* The attempt a task may still speak for: registered, its token not set.
Live(a) == active = a /\ a \notin cancelled

\* Mutant: the token is not looked at.
UpdatedAnyway(a, s) == IF active = a THEN [status EXCEPT ![a] = s] ELSE status
Updated(a, s) == IF Live(a) THEN [status EXCEPT ![a] = s] ELSE status

Failed(a, s, ambiguous) ==
  Updated(a, IF a \in payloadSent /\ ambiguous THEN "uncertain" ELSE s)

\* stop(): an attempt that published nothing is forgotten, another one stays.
Stop ==
  /\ cancelled' = cancelled \cup {active}
  /\ IF active \in payloadSent
     THEN /\ UNCHANGED active
          /\ status' = IF status[active] \in {"complete", "uncertain", "error"}
                       THEN status ELSE [status EXCEPT ![active] = "uncertain"]
     ELSE active' = None /\ UNCHANGED status

\* pairing_start after admit(): a live attempt is replaced.
Starts(a) ==
  /\ task[a] = "idle" /\ ~closed
  /\ cancelled' = cancelled \cup ({active} \ {None})
  /\ active' = a
  /\ status' = [status EXCEPT ![a] = "connecting"]
  /\ task' = [task EXCEPT ![a] = "setup"]
  /\ UNCHANGED <<closed, code, payloadSent, decision, session, peer, net, phone>>

\* pairing_cancel, or the page goes: cancel_all.
Cancels ==
  /\ active # None
  /\ Stop
  /\ UNCHANGED <<closed, code, payloadSent, host, net, phone>>

\* close(): signing out.
Closes ==
  /\ closed' = TRUE
  /\ IF active = None THEN UNCHANGED <<active, status, cancelled>> ELSE Stop
  /\ UNCHANGED <<code, payloadSent, host, net, phone>>

\* decide(): the user confirms the code, which is the one on the phone in hand.
Confirms(a) ==
  /\ active = a /\ status[a] = "code" /\ decision[a] = "none"
  /\ code[a] = Mine
  /\ decision' = [decision EXCEPT ![a] = "confirm"]
  /\ status' = [status EXCEPT ![a] = "transferring"]
  /\ UNCHANGED <<active, closed, code, cancelled, payloadSent, task, session, peer, net, phone>>

\* decide(): the user refuses it. The code stays on show until the task answers.
Denies(a) ==
  /\ active = a /\ status[a] = "code" /\ decision[a] = "none"
  /\ decision' = [decision EXCEPT ![a] = "deny"]
  /\ UNCHANGED <<registry, task, session, peer, net, phone>>

----------------------------------------------------------------------------
\* The task of an attempt, on the desktop.

\* The task ends and tells the registry.
Ends(a, shown) ==
  /\ task' = [task EXCEPT ![a] = "ended"]
  /\ status' = shown
  /\ UNCHANGED <<active, closed, code, cancelled, payloadSent, decision, phone>>

\* The account is read, the relay connected and the code ready to be scanned.
SetUp(a) ==
  /\ task[a] = "setup"
  /\ task' = [task EXCEPT ![a] = "loop"]
  /\ status' = Updated(a, "qr")
  /\ UNCHANGED <<active, closed, code, cancelled, payloadSent, decision, session, peer, net, phone>>

\* Preparing, connecting, reading or sending fails.
TransportFails(a) ==
  /\ task[a] \in {"setup", "loop", "proof", "payload"}
  /\ Ends(a, Failed(a, "error", TRUE))
  /\ UNCHANGED <<session, peer, net>>

DeadlinePasses(a) ==
  /\ task[a] \in {"loop", "proof", "payload", "denying"}
  /\ Ends(a, Failed(a, "expired", TRUE))
  /\ UNCHANGED <<session, peer, net>>

\* The task sees its token: it tells the phone unless the payload was taken.
SeesCancel(a) ==
  /\ task[a] \in {"setup", "loop", "proof", "payload", "denying"} /\ a \in cancelled
  /\ IF session[a] = "confirming"
     THEN Publish(a, peer[a], "abort") ELSE UNCHANGED net
  /\ session' = [session EXCEPT ![a] = IF @ \in {"waiting", "confirming"} THEN "aborted" ELSE @]
  /\ Ends(a, Updated(a, "complete"))
  /\ UNCHANGED peer

\* Mutant: a later phone takes the session over.
HearsAnyOffer(a, p) ==
  /\ task[a] = "loop" /\ Arrives(a, p, "offer") /\ session[a] \in {"waiting", "confirming"}
  /\ session' = [session EXCEPT ![a] = "confirming"]
  /\ peer' = [peer EXCEPT ![a] = p]
  /\ status' = IF session[a] = "waiting" THEN Updated(a, "code") ELSE status
  /\ code' = IF session[a] = "waiting" THEN [code EXCEPT ![a] = p] ELSE code
  /\ UNCHANGED <<active, closed, cancelled, payloadSent, decision, task, net, phone>>

\* handle_offer(): the first phone locks the session and its code is shown.
HearsOffer(a, p) ==
  /\ task[a] = "loop" /\ Arrives(a, p, "offer") /\ session[a] = "waiting"
  /\ session' = [session EXCEPT ![a] = "confirming"]
  /\ peer' = [peer EXCEPT ![a] = p]
  /\ status' = Updated(a, "code")
  /\ code' = [code EXCEPT ![a] = p]
  /\ UNCHANGED <<active, closed, cancelled, payloadSent, decision, task, net, phone>>

\* confirm_sas() and send_payload(): the proof and the payload are built. A
\* decision always finds the session confirming (DecisionsFindTheirSession).
TakesConfirm(a) ==
  /\ task[a] = "loop" /\ decision[a] = "confirm" /\ session[a] = "confirming"
  /\ decision' = [decision EXCEPT ![a] = "none"]
  /\ session' = [session EXCEPT ![a] = "exchanged"]
  /\ task' = [task EXCEPT ![a] = "proof"]
  /\ UNCHANGED <<registry, peer, net, phone>>

\* Mutant: the payload follows the proof whatever happened to the attempt.
SendsProofBlindly(a) ==
  /\ task[a] = "proof"
  /\ payloadSent' = payloadSent \cup {a}
  /\ task' = [task EXCEPT ![a] = "payload"]
  /\ Publish(a, peer[a], "proof")
  /\ UNCHANGED <<active, closed, status, code, cancelled, decision, session, peer, phone>>

\* The proof is published, and mark_payload_sent() asks whether the payload may.
SendsProof(a) ==
  /\ task[a] = "proof"
  /\ IF Live(a)
     THEN /\ payloadSent' = payloadSent \cup {a}
          /\ task' = [task EXCEPT ![a] = "payload"]
          /\ Publish(a, peer[a], "proof")
          /\ UNCHANGED <<active, closed, status, code, cancelled, decision, session, phone>>
     ELSE /\ session' = [session EXCEPT ![a] = "aborted"]
          /\ net' = net \cup {Message(a, peer[a], "proof"), Message(a, peer[a], "abort")}
          /\ Ends(a, Updated(a, "complete"))
  /\ UNCHANGED peer

SendsPayload(a) ==
  /\ task[a] = "payload"
  /\ Publish(a, peer[a], "payload")
  /\ task' = [task EXCEPT ![a] = "loop"]
  /\ status' = Updated(a, "transferring")
  /\ UNCHANGED <<active, closed, code, cancelled, payloadSent, decision, session, peer, phone>>

\* The refusal: the phone is told, for at most two seconds.
TakesDeny(a) ==
  /\ task[a] = "loop" /\ decision[a] = "deny" /\ session[a] = "confirming"
  /\ decision' = [decision EXCEPT ![a] = "none"]
  /\ session' = [session EXCEPT ![a] = "aborted"]
  /\ task' = [task EXCEPT ![a] = "denying"]
  /\ Publish(a, peer[a], "abort")
  /\ UNCHANGED <<registry, peer, phone>>

DenialEnds(a) ==
  /\ task[a] = "denying"
  /\ Ends(a, Failed(a, "error", FALSE))
  /\ UNCHANGED <<session, peer, net>>

\* handle_abort(): only the phone the session is locked to may end it.
HearsAbort(a, p) ==
  /\ task[a] = "loop" /\ p = peer[a] /\ Arrives(a, p, "phoneAbort")
  /\ session[a] \notin Terminal
  /\ session' = [session EXCEPT ![a] = "aborted"]
  /\ Ends(a, Failed(a, "error", FALSE))
  /\ UNCHANGED <<peer, net>>

\* handle_complete(): the phone saved the account, or reports that it could not.
HearsComplete(a, p) ==
  /\ task[a] = "loop" /\ p = peer[a] /\ session[a] = "exchanged"
  /\ \/ /\ Arrives(a, p, "complete")
        /\ session' = [session EXCEPT ![a] = "completed"]
        /\ Ends(a, Updated(a, "complete"))
     \/ /\ Arrives(a, p, "failed")
        /\ session' = [session EXCEPT ![a] = "aborted"]
        /\ Ends(a, Failed(a, "error", FALSE))
  /\ UNCHANGED <<peer, net>>

----------------------------------------------------------------------------
\* The phone, the target of the protocol.

Unfinished == {"confirming", "awaiting", "transferring", "received"}
PhoneMoves(p, a, from, to) ==
  /\ phone[p][a] \in from
  /\ phone' = [phone EXCEPT ![p][a] = to]
  /\ UNCHANGED <<registry, host>>

\* new_target(): a phone scans the code on the desktop's screen.
Scans(p, a) ==
  /\ active = a /\ status[a] = "qr"
  /\ PhoneMoves(p, a, {"new"}, "confirming")
  /\ Publish(a, p, "offer")

HearsProof(p, a) ==
  /\ Arrives(a, p, "proof")
  /\ PhoneMoves(p, a, {"confirming"}, "awaiting") /\ UNCHANGED net
PhoneConfirms(p, a) == PhoneMoves(p, a, {"awaiting"}, "transferring") /\ UNCHANGED net
HearsPayload(p, a) ==
  /\ Arrives(a, p, "payload")
  /\ PhoneMoves(p, a, {"transferring"}, "received") /\ UNCHANGED net

\* The account is saved and send_complete() says so, or it cannot be saved.
PhoneSaves(p, a) == PhoneMoves(p, a, {"received"}, "completed") /\ Publish(a, p, "complete")
CannotSave(p, a) == PhoneMoves(p, a, {"received"}, "aborted") /\ Publish(a, p, "failed")

\* abort() and handle_abort(): a finished session cannot be taken back.
PhoneAborts(p, a) ==
  PhoneMoves(p, a, Unfinished, "aborted") /\ Publish(a, p, "phoneAbort")
HearsHostAbort(p, a) ==
  /\ Arrives(a, p, "abort")
  /\ PhoneMoves(p, a, Unfinished, "aborted") /\ UNCHANGED net

----------------------------------------------------------------------------
PairingInit ==
  /\ active = None /\ closed = FALSE
  /\ status = [a \in Attempts |-> "cancelled"] /\ code = [a \in Attempts |-> None]
  /\ cancelled = {} /\ payloadSent = {}
  /\ decision = [a \in Attempts |-> "none"] /\ task = [a \in Attempts |-> "idle"]
  /\ session = [a \in Attempts |-> "waiting"] /\ peer = [a \in Attempts |-> None]
  /\ net = {}
  /\ phone = [p \in Phones |-> [a \in Attempts |-> "new"]]

PairingNext ==
  \/ Cancels \/ Closes
  \/ \E a \in Attempts :
       \/ Starts(a) \/ Confirms(a) \/ Denies(a)
       \/ SetUp(a) \/ TransportFails(a) \/ DeadlinePasses(a) \/ SeesCancel(a)
       \/ TakesConfirm(a) \/ SendsProof(a) \/ SendsPayload(a)
       \/ TakesDeny(a) \/ DenialEnds(a)
       \/ \E p \in Phones :
            \/ HearsOffer(a, p) \/ HearsAbort(a, p) \/ HearsComplete(a, p)
            \/ Scans(p, a) \/ HearsProof(p, a) \/ PhoneConfirms(p, a) \/ HearsPayload(p, a)
            \/ PhoneSaves(p, a) \/ CannotSave(p, a) \/ PhoneAborts(p, a) \/ HearsHostAbort(p, a)

PairingSpec == PairingInit /\ [][PairingNext]_pairing

----------------------------------------------------------------------------
\* Correctness.

\* The types, and no cancellation without an attempt.
PairingTypeOK ==
  /\ active \in Attempts \cup {None} /\ closed \in BOOLEAN
  /\ status \in [Attempts -> Statuses] /\ code \in [Attempts -> Phones \cup {None}]
  /\ cancelled \subseteq Attempts /\ payloadSent \subseteq Attempts
  /\ decision \in [Attempts -> {"none", "confirm", "deny"}]
  /\ task \in [Attempts -> {"idle", "setup", "loop", "proof", "payload", "denying", "ended"}]
  /\ session \in [Attempts -> {"waiting", "confirming", "exchanged"} \cup Terminal]
  /\ peer \in [Attempts -> Phones \cup {None}]
  /\ net \subseteq [attempt : Attempts, phone : Phones, kind : Kinds]
  /\ phone \in [Phones -> [Attempts -> Unfinished \cup Terminal \cup {"new"}]]

\* The account is published only to the phone whose code the user compared, also
\* when another phone scanned the same code (handle_offer's lock, mod.rs:189).
PayloadForConfirmedPhone ==
  \A m \in net : m.kind = "payload" => m.phone = Mine

\* What the registry shows of the registered attempt is what happened: complete only
\* when the phone saved the account, and a failure or an expiry only when it did not.
\* A late answer, a timeout or a broken connection after the payload may be out
\* shows as uncertain instead (mod.rs:53, 126).
OutcomeIsTrue ==
  active # None =>
    /\ status[active] = "complete" => phone[Mine][active] = "completed"
    /\ status[active] \in {"error", "expired", "cancelled"} =>
         \A p \in Phones : phone[p][active] # "completed"

\* An attempt whose payload may have reached the phone stays registered as one, until
\* another attempt replaces it: it never shows as expired, cancelled or still a code.
TransferIsShown ==
  active \in payloadSent =>
    status[active] \in {"transferring", "complete", "uncertain", "error"}

\* What the desktop shows of an attempt can be relied on: its outcome is what happened,
\* and a transfer that may have reached the phone is never shown as if it had not
\* (mod.rs:50, 123).
StatusIsTrue == OutcomeIsTrue /\ TransferIsShown

\* A decision the task can take finds the session as the user saw it: "This
\* confirmation has expired" (mod.rs:498) is never the answer to one.
DecisionsFindTheirSession ==
  \A a \in Attempts : task[a] = "loop" /\ decision[a] # "none" => session[a] = "confirming"

\* "false means cancellation won and the payload must not be published" (mod.rs:106):
\* an attempt cancelled before its mark never publishes the account.
CancelMeansUnsent ==
  [][\A a \in cancelled \ payloadSent :
       a \notin payloadSent' /\ \A p \in Phones : Message(a, p, "payload") \notin net']_pairing

\* Once signing out has closed pairing no attempt gets as far as publishing the
\* account (mod.rs:72): neither the one that ran, nor a later one.
ClosedForGood == [][closed => payloadSent' = payloadSent]_pairing

\* A stop holds, whoever asked for it and whatever the task was doing (mod.rs:72, 106).
StoppedMeansUnsent == CancelMeansUnsent /\ ClosedForGood
=============================================================================
