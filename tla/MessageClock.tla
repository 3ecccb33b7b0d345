---------------------------- MODULE MessageClock ----------------------------
(***************************************************************************)
(* The send clock of one relay session (src/features/relay/message-        *)
(* order.ts) for one channel: it keeps the latest time shown in the        *)
(* channel and the time of this session's last send, and allocates the     *)
(* next send time after both, within a bounded lead over the wall clock.   *)
(*                                                                         *)
(* The wall clock may be set forward or back at any moment, and another    *)
(* author may have stamped a message with any time. Channels are separate  *)
(* keys of both maps and never mix, so one stands for all of them.         *)
(***************************************************************************)
EXTENDS Integers

CONSTANTS
  MaxLead,     \* how far other authors may push a send past the clock (5000)
  MaxOwnLead,  \* how far this session's own sends may (60000)
  MaxTime,     \* bound: the clock and the messages shown stay below it
  MaxSends,    \* bound: sends of a session
  MaxBack      \* bound: how far the clock is set back in all

ASSUME ClockAssumption ==
  /\ MaxLead \in Nat /\ MaxOwnLead \in Nat /\ MaxLead <= MaxOwnLead
  /\ MaxTime \in Nat /\ MaxSends \in Nat /\ MaxBack \in Nat

VARIABLES
  now,     \* Date.now()
  latest,  \* latest.get(channel), 0 when absent
  sent,    \* sent.get(channel), 0 when absent
  shown,   \* history: times of the messages shown
  sends,   \* history: number of sends
  back     \* history: how far the clock has been set back in all

clockVars == <<now, latest, sent, shown, sends, back>>

Later(a, b) == IF a >= b THEN a ELSE b
Earlier(a, b) == IF a <= b THEN a ELSE b

\* Mutant: another author's time is followed however far ahead it is.
SendTimeUncapped == Later(Later(now, latest + 1),
                          IF sent + 1 - now > MaxOwnLead THEN 0 ELSE sent + 1)
\* Mutant: a tie with the last send is left to the evidence.
SendTimeTied == Later(Later(now, Earlier(latest + 1, now + MaxLead)),
                      IF sent - now > MaxOwnLead THEN 0 ELSE sent)

\* next(): after the clock, after what was shown within MaxLead, and after this
\* session's last send unless that leads the clock by more than MaxOwnLead.
SendTime ==
  LET evidence == Earlier(latest + 1, now + MaxLead)
      own == sent + 1
  IN  Later(Later(now, evidence), IF own - now > MaxOwnLead THEN 0 ELSE own)

ClockInit ==
  /\ now = 0 /\ latest = 0 /\ sent = 0
  /\ shown = {} /\ sends = 0 /\ back = 0

\* The wall clock moves, or is set, to t.
SetClock(t) ==
  /\ t # now /\ back + now - t <= MaxBack
  /\ now' = t
  /\ back' = IF t < now THEN back + (now - t) ELSE back
  /\ UNCHANGED <<latest, sent, shown, sends>>

\* Mutant: the mark follows whatever was rendered last.
ObserveLast(ms) ==
  /\ latest' = ms /\ shown' = shown \cup {ms}
  /\ UNCHANGED <<now, sent, sends, back>>

\* observe(): a message of time ms is rendered.
Observe(ms) ==
  /\ latest' = Later(ms, latest) /\ shown' = shown \cup {ms}
  /\ UNCHANGED <<now, sent, sends, back>>

\* next() as send() uses it, with the observe() it ends in.
Send ==
  /\ sends < MaxSends
  /\ sent' = SendTime /\ latest' = Later(SendTime, latest)
  /\ sends' = sends + 1
  /\ UNCHANGED <<now, shown, back>>

ClockNext ==
  \/ \E t \in 0..MaxTime : SetClock(t)
  \/ \E ms \in 1..MaxTime : ms \notin shown /\ Observe(ms)
  \/ Send

ClockSpec == ClockInit /\ [][ClockNext]_clockVars

----------------------------------------------------------------------------
\* Correctness.

\* Types, and the marks of what is known: the last send and every message shown
\* are at or below the latest time.
ClockTypeOK ==
  /\ now \in Nat /\ latest \in Nat /\ sent \in Nat /\ sends \in Nat /\ back \in Nat
  /\ shown \subseteq Nat
  /\ sent <= latest /\ \A ms \in shown : ms <= latest

\* The lead of this session's sends over the clock is earned only by its own
\* sends and by the clock being set back: no message of others, however far in
\* the future, and no sequence of replies ratchets it past MaxLead (lines 41-46).
LeadIsEarned == sent <= now + MaxLead + sends + back

\* Sends of a session strictly increase, whatever was shown meanwhile, as long as
\* its sends and the clock's setbacks have not used up the allowance of MaxOwnLead:
\* two messages of a burst never tie or swap (lines 44-45).
SendsInOrder ==
  [][sent' # sent \/ sends' # sends =>
       sent' > sent \/ MaxLead + sends + back >= MaxOwnLead]_clockVars

\* A send sorts after everything shown before it that is less than MaxLead ahead of
\* the clock, across later setbacks and sends (observe() and next(), lines 36-51);
\* and it is never so far ahead that the relay would refuse it (line 7).
RepliesSortAfter ==
  [][sends' # sends =>
       /\ \A ms \in shown : ms < now + MaxLead => sent' > ms
       /\ now <= sent' /\ sent' <= now + MaxOwnLead]_clockVars
=============================================================================
