---------------------------- MODULE WebhookIntake ----------------------------
(***************************************************************************)
(* The ways in which a change of a PR on its platform reaches the record   *)
(* and the event bus: webhooks (daemon/handlers/webhook), their retries,   *)
(* and the poller (daemon/polling), with restarts of the daemon.           *)
(*                                                                         *)
(* A delivery is numbered by the change it tells of, in the order of their *)
(* sending; it arrives late, never, or more than once.  An intake <<d, k>> *)
(* is the k-th time delivery d was taken for new: it has a goroutine, a    *)
(* uuid, and so a record of its own in the bucket webhook_retries.         *)
(***************************************************************************)
EXTENDS WebhookEvents, Integers, Sequences, FiniteSets

CONSTANTS Environments,   \* the settings considered, see Settings
          Ignored,        \* events the webhook filter ignores
          MaxAttempts,    \* 10 in the retry worker
          MaxDeliveries,  \* bound: changes of the PR
          MaxAccepts,     \* bound: times a delivery is taken for new
          NoIntake

Deliveries == 1..MaxDeliveries
Intakes == Deliveries \X (1..MaxAccepts)

\* Platform of the PR, what may happen to it there, whether the poller runs after the
\* start (the ticker of events.mode "polling", or a user's refresh), the deliveries the
\* first release cannot parse, and bounds: changes, deliveries sent again, dedup marks that
\* expire, crashes, calls of the database that fail.
Settings == [host : Hosts, happens : SUBSET Happenings, polling : BOOLEAN, bad : SUBSET Deliveries,
             changes : 0..MaxDeliveries, resends : Nat, expires : Nat, crashes : Nat,
             errors : Nat]

ASSUME IntakeAssumption ==
  /\ Environments \subseteq Settings /\ Ignored \subseteq EventTypes
  /\ MaxAttempts \in Nat \ {0, 1} /\ MaxDeliveries \in Nat /\ MaxAccepts \in Nat
  /\ NoIntake \notin Intakes

VARIABLES
  env, remote,    \* the setting; the PR's status on its platform
  sent, wire,     \* payloads sent so far; deliveries on their way
  parses,         \* the deliveries that this release of the daemon can parse
  seen,           \* bucket webhook_dedup
  accepts,        \* accepts[d]: times d was taken for new
  handler,        \* handler[i]: the goroutine of WebhookHandler
  record,         \* record[i]: bucket webhook_retries
  todo, at, doing,\* retry worker: deliveries due, the one it is finishing, how far it is
  published,      \* published[i]: events the intake has published
  notified, hit,  \* intakes given up with a notification; intakes a crash interrupted
  armed, running, \* the consumer's debounce timer of the PR; handlers at work
  rec,            \* state in the PR's record, "none" if there is no record
  poll,           \* pollPlatform: what it has listed, and whether it has read the record
  up,             \* "booting", "polled", and "up" when the consumer has subscribed
  resends, expired, crashes,
  errors,         \* calls of the database that failed
  unchecked,      \* how often a marked delivery was taken for new, or a new one not marked
  unstored,       \* intakes without a record, or without the count of their failure, as
  uncounted,      \*   the put failed
  kept            \* kept[i]: how often the delete of a record retried with success failed

wireVars == <<env, remote, sent, wire, resends>>
intakeVars == <<seen, expired, accepts, handler>>
retryVars == <<todo, at, doing>>
busVars == <<armed, running>>
fateVars == <<notified, hit, parses, crashes, up>>
slipVars == <<errors, unchecked, unstored, uncounted, kept>>
vars == <<wireVars, intakeVars, record, retryVars, published, busVars, rec, poll, fateVars, slipVars>>

NoEvent == [type |-> "", state |-> "open"]
NoRecord == [fails |-> -1, next |-> "never"]
Stored == [fails |-> 0, next |-> "never"]
Idle == [stage |-> "idle", status |-> "open"]

HandlerStages == {"idle", "marked", "stored", "done", "failed", "over"}
InHandler == {"marked", "stored", "done", "failed"}
Waits == {"never", "later", "due"}
Retries == [fails : {-1} \cup 0..(MaxAttempts - 1), next : Waits]

-----------------------------------------------------------------------------
\* The platform

\* What can happen to a PR of a status, and its status then.
After(what, status) ==
  CASE what = "closed" -> "closed" [] what = "merged" -> "merged" [] what = "reopened" -> "open"
    [] OTHER -> status

Possible(what, status) ==
  CASE what \in {"labeled", "comment"} -> TRUE
    [] what = "reopened"               -> status = "closed"
    [] OTHER                           -> status = "open"

Change(what) ==
  /\ what \in env.happens /\ Len(sent) < env.changes /\ Possible(what, remote)
  /\ remote' = After(what, remote)
  /\ sent' = Append(sent, [what |-> what, status |-> After(what, remote)])
  /\ wire' = wire \cup {Len(sent) + 1}
  /\ UNCHANGED <<env, resends, intakeVars, record, retryVars, published, busVars, rec, poll, fateVars, slipVars>>

\* The platform sends a delivery again, by hand or as it saw no answer.
Resend(d) ==
  /\ resends < env.resends /\ d <= Len(sent)
  /\ resends' = resends + 1
  /\ wire' = wire \cup {d}
  /\ UNCHANGED <<env, remote, sent, intakeVars, record, retryVars, published, busVars, rec, poll, fateVars, slipVars>>

-----------------------------------------------------------------------------
\* The bus and the consumer, as far as the record is concerned: a later event of the PR
\* takes the place of one whose timer has not fired.

Publish(e) ==
  /\ armed' = IF up = "up" THEN e ELSE armed
  /\ UNCHANGED running

Fire ==
  /\ armed # NoEvent
  /\ running' = running \cup {armed}
  /\ armed' = NoEvent
  /\ UNCHANGED <<wireVars, intakeVars, record, retryVars, published, rec, poll, fateVars, slipVars>>

Handle(e) ==
  /\ e \in running
  /\ running' = running \ {e}
  /\ rec' = Saved(e, rec)
  /\ UNCHANGED <<wireVars, intakeVars, record, retryVars, published, armed, poll, fateVars, slipVars>>

-----------------------------------------------------------------------------
\* WebhookHandler

Event(d) == parseWebhookEvent(env.host, sent[d])
Filtered(e) == e.type = "" \/ e.type \in Ignored

\* ProcessWebhook: "error" if the body cannot be parsed.
Outcome(d) == IF d \notin parses THEN "error" ELSE IF Filtered(Event(d)) THEN "quiet" ELSE "event"

Stage(i, s) == handler' = [handler EXCEPT ![i] = s]
Put(i, r) == record' = [record EXCEPT ![i] = r]
DbFails == errors < env.errors /\ errors' = errors + 1

\* A put or delete of the record of an intake; a failure is at most logged.
Write(i, r) ==
  \/ Put(i, r) /\ UNCHANGED slipVars
  \/ DbFails /\ UNCHANGED <<record, unchecked, unstored, uncounted, kept>>
Counted(i) == published' = [published EXCEPT ![i] = @ + 1]

\* Fault for TLC: no check for a mark.
UncheckedDuplicate(d) == FALSE
Duplicate(d)          == d \in seen

\* A delivery that comes a second time is turned away.
Skip(d) ==
  /\ up = "up" /\ d \in wire /\ Duplicate(d)
  /\ wire' = wire \ {d}
  /\ UNCHANGED <<env, remote, sent, resends, intakeVars, record, retryVars, published, busVars, rec, poll, fateVars, slipVars>>

\* One that is new is marked in the same critical section of dedupMu.  A look-up that fails
\* finds no mark, and the handler goes on without the mark if the put fails.
Accept(d) ==
  LET k == accepts[d] + 1 IN
  /\ up = "up" /\ d \in wire /\ k <= MaxAccepts
  /\ \/ ~Duplicate(d) /\ seen' = seen \cup {d} /\ UNCHANGED slipVars
     \/ /\ DbFails /\ unchecked' = unchecked + 1
        /\ UNCHANGED <<seen, unstored, uncounted, kept>>
  /\ wire' = wire \ {d}
  /\ accepts' = [accepts EXCEPT ![d] = k]
  /\ Stage(<<d, k>>, "marked")
  /\ UNCHANGED <<env, remote, sent, resends, expired, record, retryVars, published, busVars, rec, poll, fateVars>>

\* Stored with a zero NextRetry: not due before a failure has been counted.  The handler
\* goes on if the put fails.
Store(i) ==
  /\ handler[i] = "marked"
  /\ Stage(i, "stored")
  /\ \/ Put(i, Stored) /\ UNCHANGED slipVars
     \/ /\ DbFails /\ unstored' = unstored \cup {i}
        /\ UNCHANGED <<record, unchecked, uncounted, kept>>
  /\ UNCHANGED <<wireVars, seen, expired, accepts, retryVars, published, busVars, rec, poll, fateVars>>

ProcessEvent(i) ==
  /\ handler[i] = "stored" /\ Outcome(i[1]) = "event"
  /\ Stage(i, "done") /\ Counted(i) /\ Publish(Event(i[1]))
  /\ UNCHANGED <<wireVars, seen, expired, accepts, record, retryVars, rec, poll, fateVars, slipVars>>

ProcessOther(i) ==
  /\ handler[i] = "stored" /\ Outcome(i[1]) # "event"
  /\ Stage(i, IF Outcome(i[1]) = "error" THEN "failed" ELSE "done")
  /\ UNCHANGED <<wireVars, seen, expired, accepts, record, retryVars, published, busVars, rec, poll, fateVars, slipVars>>

\* Fault for TLC: the failure is counted, but no time is set for the retry.
CountWithoutTime(i) ==
  /\ handler[i] = "failed"
  /\ Stage(i, "over") /\ Put(i, [fails |-> 1, next |-> "never"])
  /\ UNCHANGED <<wireVars, seen, expired, accepts, retryVars, published, busVars, rec, poll, fateVars, slipVars>>

\* If the put fails a record that is stored stays as it is, and is never due.
CountFailure(i) ==
  /\ handler[i] = "failed"
  /\ Stage(i, "over")
  /\ \/ Put(i, [fails |-> 1, next |-> "later"]) /\ UNCHANGED slipVars
     \/ /\ DbFails /\ uncounted' = uncounted \cup {i}
        /\ UNCHANGED <<record, unchecked, unstored, kept>>
  /\ UNCHANGED <<wireVars, seen, expired, accepts, retryVars, published, busVars, rec, poll, fateVars>>

CleanUp(i) ==
  /\ handler[i] = "done"
  /\ Stage(i, "over") /\ Write(i, NoRecord)
  /\ UNCHANGED <<wireVars, seen, expired, accepts, retryVars, published, busVars, rec, poll, fateVars>>

\* The mark of a delivery is deleted after 24 hours; no handler lasts that long.
Expire(d) ==
  /\ up = "up" /\ d \in seen /\ \A k \in 1..MaxAccepts : handler[<<d, k>>] \notin InHandler
  /\ expired < env.expires
  /\ expired' = expired + 1
  /\ seen' = seen \ {d}
  /\ UNCHANGED <<wireVars, accepts, handler, record, retryVars, published, busVars, rec, poll, fateVars, slipVars>>
-----------------------------------------------------------------------------
\* The retry worker.  Nothing else writes a record that is due, so that the copies of its
\* scan are up to date.

Due == {i \in Intakes : record[i].next = "due"}

BackoffElapses(i) ==
  /\ record[i].next = "later"
  /\ Put(i, [record[i] EXCEPT !.next = "due"])
  /\ UNCHANGED <<wireVars, intakeVars, retryVars, published, busVars, rec, poll, fateVars, slipVars>>

RetryScan ==
  /\ up = "up" /\ todo = {} /\ at = NoIntake /\ Due # {}
  /\ todo' = Due
  /\ UNCHANGED <<wireVars, intakeVars, record, at, doing, published, busVars, rec, poll, fateVars, slipVars>>

Takes(i, how) == i \in todo /\ at = NoIntake /\ todo' = todo \ {i} /\ at' = i /\ doing' = how

RetryPublishes(i) ==
  /\ Takes(i, "mark") /\ Outcome(i[1]) = "event"
  /\ Counted(i) /\ Publish(Event(i[1]))
  /\ UNCHANGED <<wireVars, intakeVars, record, rec, poll, fateVars, slipVars>>

RetryIgnores(i) ==
  /\ Takes(i, "mark") /\ Outcome(i[1]) = "quiet"
  /\ UNCHANGED <<wireVars, intakeVars, record, published, busVars, rec, poll, fateVars, slipVars>>

LastAttempt(i)     == record[i].fails + 1 >= MaxAttempts

RetryFails(i) ==
  /\ i \in todo /\ at = NoIntake /\ Outcome(i[1]) = "error" /\ ~LastAttempt(i)
  /\ todo' = todo \ {i}
  /\ Write(i, [fails |-> record[i].fails + 1, next |-> "later"])
  /\ UNCHANGED <<wireVars, intakeVars, at, doing, published, busVars, rec, poll, fateVars>>

\* Fault for TLC: a delivery is given up without a word.
GiveUpSilently(i) ==
  /\ i \in todo /\ at = NoIntake /\ Outcome(i[1]) = "error" /\ LastAttempt(i)
  /\ todo' = todo \ {i}
  /\ Put(i, NoRecord)
  /\ UNCHANGED <<wireVars, intakeVars, at, doing, published, busVars, rec, poll, fateVars, slipVars>>

\* The record is deleted first, then notifyWebhookPermanentFailure is called.  A record that
\* could not be deleted or put stays due, with its old count.
GiveUp(i) ==
  /\ Takes(i, "notify") /\ Outcome(i[1]) = "error" /\ LastAttempt(i)
  /\ Write(i, NoRecord)
  /\ UNCHANGED <<wireVars, intakeVars, published, busVars, rec, poll, fateVars>>

Notify ==
  /\ at # NoIntake /\ doing = "notify"
  /\ notified' = notified \cup {at}
  /\ at' = NoIntake
  /\ UNCHANGED <<wireVars, intakeVars, record, todo, doing, published, busVars, rec, poll,
                 hit, parses, crashes, up, slipVars>>

\* After a success the delivery is marked again, then its record is deleted.  If the delete
\* fails the record stays due, and the next round processes the delivery once more.
RetryMarks ==
  /\ at # NoIntake /\ doing = "mark"
  /\ \/ seen' = seen \cup {at[1]} /\ UNCHANGED slipVars
     \/ DbFails /\ UNCHANGED <<seen, unchecked, unstored, uncounted, kept>>
  /\ doing' = "delete"
  /\ UNCHANGED <<wireVars, expired, accepts, handler, record, todo, at, published, busVars, rec, poll, fateVars>>

RetryDeletes ==
  /\ at # NoIntake /\ doing = "delete"
  /\ \/ Put(at, NoRecord) /\ UNCHANGED slipVars
     \/ /\ DbFails /\ kept' = [kept EXCEPT ![at] = @ + 1]
        /\ UNCHANGED <<record, unchecked, unstored, uncounted>>
  /\ at' = NoIntake
  /\ UNCHANGED <<wireVars, intakeVars, todo, doing, published, busVars, rec, poll, fateVars>>

-----------------------------------------------------------------------------
\* The poller

\* GitHub, GitLab and Gitea list PRs of every status; Gerrit's client answers "all" with
\* the open ones, and what Bitbucket makes of "ALL" is not known.
Lists == [h \in Hosts |-> IF h = "gerrit" THEN {"open"} ELSE Statuses]

PollList ==
  /\ poll.stage = "idle" /\ remote \in Lists[env.host]
  /\ up = "booting" \/ (up = "up" /\ env.polling)
  /\ poll' = [stage |-> "listed", status |-> remote]
  /\ up' = IF up = "booting" THEN "polled" ELSE up
  /\ UNCHANGED <<wireVars, intakeVars, record, retryVars, published, busVars, rec,
                 notified, hit, parses, crashes, slipVars>>

\* pollPlatform compares what is listed with the record, publishes a difference, and
\* writes unless state and time of update are the same.
PollEvent == [type |-> IF rec = "none" THEN "pr_opened" ELSE ByState(poll.status), state |-> poll.status]
\* Fault for TLC: a PR that is known is taken for unchanged.
KnownRecord == rec # "none"
SameRecord  == rec = poll.status

PollTells ==
  /\ poll.stage = "listed" /\ ~SameRecord
  /\ Publish(PollEvent)
  /\ poll' = [poll EXCEPT !.stage = "writing"]
  /\ UNCHANGED <<wireVars, intakeVars, record, retryVars, published, rec, fateVars, slipVars>>

PollAgrees(skipWrite) ==
  /\ poll.stage = "listed" /\ SameRecord
  /\ poll' = IF skipWrite THEN Idle ELSE [poll EXCEPT !.stage = "writing"]
  /\ UNCHANGED <<wireVars, intakeVars, record, retryVars, published, busVars, rec, fateVars, slipVars>>

PollWrites ==
  /\ poll.stage = "writing"
  /\ rec' = poll.status
  /\ poll' = Idle
  /\ UNCHANGED <<wireVars, intakeVars, record, retryVars, published, busVars, fateVars, slipVars>>

-----------------------------------------------------------------------------
\* Crash and start

InHands == {i \in Intakes : handler[i] \in InHandler \/ i = at}

\* The database survives.  The release that starts next may parse more.
Crash(more) ==
  /\ crashes < env.crashes
  /\ crashes' = crashes + 1
  /\ hit' = hit \cup InHands
  /\ handler' = [i \in Intakes |-> IF handler[i] \in InHandler THEN "over" ELSE handler[i]]
  /\ parses' = parses \cup more
  /\ todo' = {} /\ at' = NoIntake /\ doing' = "mark"
  /\ armed' = NoEvent /\ running' = {}
  /\ poll' = Idle
  /\ up' = "booting"
  /\ UNCHANGED <<wireVars, seen, expired, accepts, record, published, rec, notified, slipVars>>

\* StartWorkers polls once, whether or not the listing succeeds, and only then starts the
\* consumer; the server listens last.
BootEnds ==
  /\ up # "up" /\ poll.stage = "idle"
  /\ up' = "up"
  /\ UNCHANGED <<wireVars, intakeVars, record, retryVars, published, busVars, rec, poll,
                 notified, hit, parses, crashes, slipVars>>

-----------------------------------------------------------------------------
Init ==
  /\ env \in Environments /\ remote = "open" /\ sent = <<>> /\ wire = {} /\ resends = 0
  /\ parses = Deliveries \ env.bad /\ seen = {} /\ expired = 0
  /\ accepts = [d \in Deliveries |-> 0]
  /\ handler = [i \in Intakes |-> "idle"]
  /\ record = [i \in Intakes |-> NoRecord]
  /\ published = [i \in Intakes |-> 0]
  /\ todo = {} /\ at = NoIntake /\ doing = "mark"
  /\ notified = {} /\ hit = {} /\ crashes = 0
  /\ armed = NoEvent /\ running = {}
  /\ rec \in {"none", "open"} /\ poll = Idle /\ up = "booting"
  /\ errors = 0 /\ unchecked = 0 /\ unstored = {} /\ uncounted = {}
  /\ kept = [i \in Intakes |-> 0]

HandlerStep(i) == Store(i) \/ ProcessEvent(i) \/ ProcessOther(i) \/ CountFailure(i) \/ CleanUp(i)
RetryStep == \/ RetryScan \/ Notify \/ RetryMarks \/ RetryDeletes
             \/ \E i \in Intakes : RetryPublishes(i) \/ RetryIgnores(i) \/ RetryFails(i) \/ GiveUp(i)
Polled == PollTells \/ PollWrites \/ \E skip \in BOOLEAN : PollAgrees(skip)

Next == \/ \E what \in Happenings : Change(what)
        \/ \E d \in Deliveries : Resend(d) \/ Skip(d) \/ Accept(d) \/ Expire(d)
        \/ \E i \in Intakes : HandlerStep(i) \/ BackoffElapses(i)
        \/ RetryStep
        \/ Fire \/ \E e \in running : Handle(e)
        \/ PollList \/ Polled
        \/ BootEnds \/ \E more \in SUBSET Deliveries : Crash(more)

Spec == Init /\ [][Next]_vars

\* Goroutines and timers go on, the daemon starts again, and the poller's ticker ticks.
\* The platform need not deliver anything.
Fairness ==
  /\ WF_vars(RetryStep) /\ WF_vars(Polled) /\ WF_vars(BootEnds) /\ WF_vars(Fire)
  /\ WF_vars(\E e \in running : Handle(e))
  /\ \A i \in Intakes : WF_vars(HandlerStep(i)) /\ WF_vars(BackoffElapses(i))
  /\ WF_vars(PollList)

FairSpec == Spec /\ Fairness

-----------------------------------------------------------------------------
TypeOK ==
  /\ env \in Environments /\ remote \in Statuses
  /\ sent \in Seq(Payloads) /\ Len(sent) <= env.changes
  /\ wire \subseteq 1..Len(sent) /\ seen \subseteq 1..Len(sent)
  /\ resends \in 0..env.resends /\ expired \in 0..env.expires /\ crashes \in 0..env.crashes
  /\ parses \subseteq Deliveries
  /\ accepts \in [Deliveries -> 0..MaxAccepts]
  /\ handler \in [Intakes -> HandlerStages] /\ record \in [Intakes -> Retries]
  /\ published \in [Intakes -> Nat]
  /\ todo \subseteq Intakes /\ at \in Intakes \cup {NoIntake} /\ doing \in {"mark", "delete", "notify"}
  /\ notified \subseteq Intakes /\ hit \subseteq Intakes
  /\ armed \in Events /\ running \subseteq Events
  /\ rec \in StateWords \cup {"none"} /\ up \in {"booting", "polled", "up"}
  /\ poll \in [stage : {"idle", "listed", "writing"}, status : Statuses]
  /\ errors \in 0..env.errors /\ unchecked \in Nat
  /\ unstored \subseteq Intakes /\ uncounted \subseteq Intakes /\ kept \in [Intakes -> Nat]

\* A delivery taken in once is published once, by its handler or by the retry worker, and
\* once more for each time the delete of its retried record failed, unless a crash
\* interrupted whoever was working on it; one that comes again is published again only
\* after a mark has expired, or could not be read or written.
PublishedOnce ==
  \A i \in Intakes : /\ published[i] <= 1 + kept[i] \/ i \in hit
                     /\ published[i] = 0 \/ i[2] <= 1 + expired + unchecked

Taken(i) == handler[i] # "idle"

\* What became of an intake that nobody works on and that has no record left.
Settled(i) ==
  Taken(i) /\ (published[i] > 0 \/ i \in notified \/ (i[1] \in parses /\ Filtered(Event(i[1]))))

\* Neither the record nor the count of the failure could be written.
NeverWritten(i) == i \in unstored /\ i \in uncounted

\* A delivery taken in is never lost without a word: it is in work, stored, settled, was in
\* the hands of a goroutine when the daemon crashed, or the database took neither put.
NoneLost ==
  \A i \in Intakes : Taken(i) =>
    \/ handler[i] \in InHandler \/ record[i] # NoRecord \/ i = at
    \/ Settled(i) \/ i \in hit \/ NeverWritten(i)

\* The retries of a delivery end, also when writes of theirs fail: it is settled in the end,
\* or was hit by a crash, or its first failure could not be written down.
AllSettled == \A i \in Intakes : Taken(i) ~> Settled(i) \/ i \in hit \/ i \in uncounted

\* In polling mode the record ends with the status the PR has on its platform, whatever
\* webhooks say, when, and in what order, on the platforms that list PRs of every status.
RecordFollows ==
  <>[](env.polling /\ env.host \in {"github", "gitlab", "gitea"} => rec = remote)
=============================================================================
