------------------------------ MODULE Notices ------------------------------
(***************************************************************************)
(* Notifications about one pull request through one channel: the first     *)
(* event is sent at once, those of the five minutes after it are gathered  *)
(* in a stored entry, which a timer's callback sends.  dedupMu guards the  *)
(* entry and the map of timers, and is held while the callback sends.      *)
(***************************************************************************)
EXTENDS Integers, FiniteSets

CONSTANTS
  Events,
  Mishaps    \* bound: sends that fail, labels nobody is subscribed to any more, and restarts

ASSUME NoticesAssumption == IsFiniteSet(Events) /\ Mishaps \in Nat

VARIABLES
  entry,    \* the entry stored last: its number, events, whether it is Dispatched; and (history)
            \* whether a restart has cut it off from its timer
  open,     \* its window is not over
  timers,   \* numbers of the entries whose timer runs
  mapped,   \* the one dedupTimers has, 0 if none
  waiting,  \* callbacks of timers that wait for dedupMu
  digest,   \* the callback that holds dedupMu, and what it sends
  first,    \* events being sent at once
  mishaps,
  \* History: events handed over, told, and missed for a reason
  noted, told, missed

noticeVars == <<entry, open, timers, mapped, waiting, digest, first, mishaps, noted, told, missed>>

NoEntry == [number |-> 0, events |-> {}, dispatched |-> TRUE, cut |-> FALSE]
NoDigest == [on |-> FALSE, events |-> {}]
Mishap == mishaps > 0 /\ mishaps' = mishaps - 1

GathersAlso(n) == n.number > 0 /\ open

\* An entry takes more events until it is dispatched or its window is over.
Gathers(n) == ~n.dispatched /\ open

\* appendToDedupBuffer: otherwise a new entry takes its place, with a timer of its own.
AppendToDedupBuffer(e) ==
  /\ e \notin noted /\ ~digest.on /\ noted' = noted \cup {e}
  /\ \/ /\ Gathers(entry) /\ entry' = [entry EXCEPT !.events = @ \cup {e}]
        /\ missed' = IF entry.cut THEN missed \cup {e} ELSE missed
        /\ UNCHANGED <<open, timers, mapped, first>>
     \/ /\ ~Gathers(entry)
        /\ LET n == entry.number + 1 IN
             /\ entry' = [number |-> n, events |-> {e}, dispatched |-> FALSE, cut |-> FALSE]
             /\ timers' = (timers \ {mapped}) \cup {n} /\ mapped' = n
        /\ open' = TRUE /\ first' = first \cup {e}
        /\ missed' = IF entry.dispatched THEN missed ELSE missed \cup (entry.events \ told)
  /\ UNCHANGED <<waiting, digest, mishaps, told>>

\* sendDigest of the new entry; if it fails the entry still has the event.
SendFirst(e) ==
  /\ e \in first /\ first' = first \ {e}
  /\ \/ told' = told \cup {e} /\ UNCHANGED mishaps
     \/ Mishap /\ UNCHANGED told
  /\ UNCHANGED <<entry, open, timers, mapped, waiting, digest, noted, missed>>

WindowEnds ==
  /\ open /\ open' = FALSE
  /\ UNCHANGED <<entry, timers, mapped, waiting, digest, first, mishaps, noted, told, missed>>

\* The timer was set with the window of its entry.
TimerFires == \E n \in timers :
  /\ n = entry.number => ~open
  /\ timers' = timers \ {n} /\ waiting' = waiting + 1
  /\ UNCHANGED <<entry, open, mapped, digest, first, mishaps, noted, told, missed>>

\* The callback takes whatever entry is stored by then.
Dispatch ==
  /\ waiting > 0 /\ ~digest.on /\ waiting' = waiting - 1
  /\ IF entry.dispatched THEN UNCHANGED <<entry, digest>>
     ELSE /\ entry' = [entry EXCEPT !.dispatched = TRUE]
          /\ digest' = [on |-> TRUE, events |-> entry.events]
  /\ UNCHANGED <<open, timers, mapped, first, mishaps, noted, told, missed>>

\* The entry is saved as dispatched whether it can be sent or not; the map loses the key's timer,
\* be it this one or not.
SendDigest ==
  /\ digest.on /\ digest' = NoDigest /\ mapped' = 0
  /\ \/ told' = told \cup digest.events /\ UNCHANGED <<mishaps, missed>>
     \/ Mishap /\ missed' = missed \cup digest.events /\ UNCHANGED told
  /\ UNCHANGED <<entry, open, timers, waiting, first, noted>>

\* Entries are stored, timers and sends are not.
Restart ==
  /\ Mishap /\ timers' = {} /\ mapped' = 0 /\ waiting' = 0 /\ digest' = NoDigest /\ first' = {}
  /\ entry' = [entry EXCEPT !.cut = ~entry.dispatched]
  /\ missed' = missed \cup (((IF entry.dispatched THEN {} ELSE entry.events) \cup digest.events \cup first) \ told)
  /\ UNCHANGED <<open, noted, told>>

NoticeInit ==
  /\ entry = NoEntry /\ open = FALSE /\ timers = {} /\ mapped = 0 /\ waiting = 0 /\ digest = NoDigest
  /\ first = {} /\ mishaps = Mishaps /\ noted = {} /\ told = {} /\ missed = {}

NoticeNext ==
  \/ \E e \in Events : AppendToDedupBuffer(e) \/ SendFirst(e)
  \/ WindowEnds \/ TimerFires \/ Dispatch \/ SendDigest \/ Restart

\* What the passing of time, the mutex and calls that return bring about
NoticeGoesOn == WindowEnds \/ TimerFires \/ Dispatch \/ SendDigest \/ \E e \in Events : SendFirst(e)

-----------------------------------------------------------------------------
\* An event handed over is told in the end, although callbacks come late and dispatch an entry
\* other than their own, unless a send failed, a restart came between, or the entry it waited in
\* was replaced when its window was over and before its callback had the mutex.
NotedIsTold == []<>(noted \subseteq told \cup missed)
=============================================================================
