------------------------- MODULE WebhookIntakeProofs -------------------------
(***************************************************************************)
(* Type correctness of WebhookIntake, that a delivery is published once,   *)
(* and that none is lost, for every environment and every bound, with      *)
(* crashes and with calls of the database that fail.                       *)
(***************************************************************************)
EXTENDS WebhookIntake, TLAPS

\* A delivery is taken for new once more than marks have expired, or have not been read or
\* written, if it has a mark.
Marked ==
  \A d \in Deliveries :
    accepts[d] <= IF d \in seen THEN 1 + expired + unchecked ELSE expired + unchecked

\* An intake is of a delivery that was sent, and one of those counted.
Counts(i) == Taken(i) => i[1] <= Len(sent) /\ i[2] <= accepts[i[1]]

\* The retry worker has to do with an intake only when its handler is through.
Apart(i) ==
  /\ record[i].next # "never" \/ at = i => handler[i] = "over"
  /\ i \in todo => record[i].next = "due" /\ at # i
  /\ published[i] > 0 => Taken(i)

\* Nothing is published of an intake whose handler has not come to publishing, or that is
\* due for a retry that has not.
Unpublished(i) ==
  \/ handler[i] \in {"marked", "stored", "failed"}
  \/ record[i].next # "never" /\ ~(at = i /\ doing # "notify")

\* A record that was not deleted makes up for one time.
Once(i) ==
  i \notin hit => published[i] <= 1 + kept[i] /\ (Unpublished(i) => published[i] <= kept[i])

\* Until its failure is counted, an intake has a record, or the put of it failed.
Backed(i) == handler[i] \in {"stored", "failed"} => i \in unstored \/ record[i] # NoRecord

\* Before its record is deleted, an intake is published, or there is nothing to publish.
Succeeded(i) == published[i] > 0 \/ (i[1] \in parses /\ Filtered(Event(i[1])))
Earned(i) == handler[i] = "done" \/ (at = i /\ doing # "notify") => Succeeded(i)

Remains(i) ==
  Taken(i) =>
    \/ handler[i] \in InHandler \/ record[i] # NoRecord \/ i = at
    \/ Settled(i) \/ i \in hit \/ NeverWritten(i)

Fine(i) == Counts(i) /\ Apart(i) /\ Once(i) /\ Earned(i) /\ Backed(i) /\ Remains(i)

IInv == TypeOK /\ Marked /\ \A i \in Intakes : Fine(i)

USE IntakeAssumption

-----------------------------------------------------------------------------
\* The tables

LEMMA ActionTyped == ASSUME NEW w \in Happenings PROVE ByAction(w) \in EventTypes
  BY DEF Happenings, ByAction, EventTypes

LEMMA StateTyped == ASSUME NEW h, NEW p \in Payloads PROVE State(h, p) \in StateWords
  BY DEF Payloads, Statuses, State, StateWords

LEMMA StateWordTyped == ASSUME NEW w \in StateWords PROVE ByState(w) \in EventTypes
  BY DEF StateWords, Statuses, ByState, EventTypes

\* Every parser makes an event of a type the bus knows, with a state word, of every
\* payload (parseWebhookEvent in webhook.go).
THEOREM ParseTyped ==
  ASSUME NEW h \in Hosts, NEW p \in Payloads
  PROVE  parseWebhookEvent(h, p) \in Events
<1>1. p.what \in Happenings BY DEF Payloads
<1>2. \A t \in {"", "pr_opened", "pr_comment"} : t \in EventTypes BY DEF EventTypes
<1>3. parseWebhookEvent(h, p).type \in EventTypes
  <2>1. parseGitHubWebhook(p) \in EventTypes BY <1>1, ActionTyped DEF parseGitHubWebhook
  <2>2. parseGiteaWebhook(p) \in EventTypes BY <1>1, <1>2, ActionTyped DEF parseGiteaWebhook
  <2>3. parseGitLabWebhook(p) \in EventTypes
    BY <1>1, ActionTyped, StateTyped, StateWordTyped DEF parseGitLabWebhook
  <2>4. parseBitbucketWebhook(p) \in EventTypes
    BY <1>2, StateTyped, StateWordTyped DEF parseBitbucketWebhook
  <2>5. parseGerritWebhook(p) \in EventTypes BY <1>1, <1>2, ActionTyped DEF parseGerritWebhook
  <2> QED BY <2>1, <2>2, <2>3, <2>4, <2>5 DEF parseWebhookEvent
<1> QED BY <1>3, StateTyped DEF parseWebhookEvent, Events

LEMMA SavedTyped ==
  ASSUME NEW e \in Events, NEW old \in StateWords \cup {"none"}
  PROVE  Saved(e, old) \in StateWords \cup {"none"}
  BY DEF Events, Saved, StateWords, Statuses

-----------------------------------------------------------------------------
\* Types

USE DEF wireVars, intakeVars, retryVars, busVars, fateVars, slipVars

LEMMA EnvTyped ==
  ASSUME env \in Environments
  PROVE  /\ env.host \in Hosts /\ env.happens \subseteq Happenings /\ env.bad \subseteq Deliveries
         /\ env.changes \in 0..MaxDeliveries
         /\ env.resends \in Nat /\ env.expires \in Nat /\ env.crashes \in Nat /\ env.errors \in Nat
  BY DEF Settings

LEMMA EventTyped ==
  ASSUME TypeOK, NEW d \in 1..Len(sent)
  PROVE  d \in Deliveries /\ sent[d] \in Payloads /\ Event(d) \in Events
<1>1. sent[d] \in Payloads /\ d \in Deliveries BY EnvTyped, SMTT(30) DEF TypeOK, Deliveries
<1> QED BY <1>1, EnvTyped, ParseTyped DEF TypeOK, Event

LEMMA NoEventTyped == NoEvent \in Events /\ Idle \in [stage : {"idle", "listed", "writing"}, status : Statuses]
  BY DEF NoEvent, Idle, Events, EventTypes, StateWords, Statuses

LEMMA PollTyped ==
  ASSUME TypeOK PROVE PollEvent \in Events /\ poll.status \in StateWords
<1>1. poll.status \in StateWords BY DEF TypeOK, StateWords
<1>2. "pr_opened" \in EventTypes BY DEF EventTypes
<1> QED BY <1>1, <1>2, StateWordTyped DEF PollEvent, Events

LEMMA RecordsTyped ==
  Stored \in Retries /\ NoRecord \in Retries /\ [fails |-> 1, next |-> "later"] \in Retries
  BY DEF Stored, NoRecord, Retries, Waits

LEMMA FailureTyped ==
  ASSUME env \in Environments, errors \in 0..env.errors, env' = env, DbFails
  PROVE  errors' \in 0..env'.errors
  BY EnvTyped DEF DbFails

LEMMA WriteTyped ==
  ASSUME TypeOK, env' = env, NEW i \in Intakes, NEW r \in Retries, Write(i, r)
  PROVE  /\ record' \in [Intakes -> Retries] /\ errors' \in 0..env'.errors
         /\ UNCHANGED <<unchecked, unstored, uncounted, kept>>
<1>1. env \in Environments /\ errors \in 0..env.errors /\ record \in [Intakes -> Retries]
  BY DEF TypeOK
<1> QED BY <1>1, FailureTyped DEF Write, Put

LEMMA StagesTyped == InHandler \subseteq HandlerStages /\ "over" \in HandlerStages
  BY DEF InHandler, HandlerStages

LEMMA ChangeType == ASSUME TypeOK, NEW what \in Happenings, Change(what) PROVE TypeOK'
<1>1. [what |-> what, status |-> After(what, remote)] \in Payloads /\ After(what, remote) \in Statuses
  BY DEF Payloads, After, TypeOK, Statuses
<1>2. sent' \in Seq(Payloads) /\ Len(sent') = Len(sent) + 1
  BY <1>1 DEF Change, TypeOK
<1>3. env' = env /\ Len(sent') <= env.changes
  BY <1>2, EnvTyped DEF Change, TypeOK
<1>4. wire' \subseteq 1..Len(sent') /\ seen' \subseteq 1..Len(sent')
  <2>1. Len(sent) \in Nat /\ wire \subseteq 1..Len(sent) /\ seen \subseteq 1..Len(sent)
    BY DEF TypeOK
  <2>2. wire' = wire \cup {Len(sent) + 1} /\ seen' = seen BY DEF Change
  <2>3. ASSUME NEW x \in wire' PROVE x \in 1..(Len(sent) + 1) BY <2>1, <2>2
  <2>4. ASSUME NEW x \in seen' PROVE x \in 1..(Len(sent) + 1) BY <2>1, <2>2
  <2> QED BY <1>2, <2>3, <2>4
<1> QED BY <1>1, <1>2, <1>3, <1>4 DEF Change, TypeOK

LEMMA WireType ==
  ASSUME TypeOK, NEW d \in Deliveries, Resend(d) \/ Skip(d) \/ Accept(d) \/ Expire(d)
  PROVE  TypeOK'
<1>2. CASE Resend(d)
  <2>1. wire' \subseteq 1..Len(sent) BY <1>2 DEF Resend, TypeOK, Deliveries
  <2>2. resends' \in 0..env.resends
    <3>1. env \in Environments /\ resends \in 0..env.resends /\ resends < env.resends
          /\ resends' = resends + 1
      BY <1>2 DEF Resend, TypeOK
    <3> QED BY <3>1, EnvTyped
  <2> QED BY <1>2, <2>1, <2>2 DEF Resend, TypeOK
<1>3. CASE Skip(d) BY <1>3 DEF Skip, TypeOK
<1>4. CASE Accept(d)
  <2>1. accepts[d] + 1 \in 0..MaxAccepts /\ <<d, accepts[d] + 1>> \in Intakes
    BY <1>4 DEF Accept, TypeOK, Intakes
  <2>2. errors' \in 0..env'.errors /\ unchecked' \in Nat /\ seen' \subseteq 1..Len(sent)
    <3>1. env \in Environments /\ errors \in 0..env.errors /\ env' = env /\ unchecked \in Nat
          /\ seen \subseteq 1..Len(sent) /\ d \in 1..Len(sent)
      BY <1>4 DEF Accept, TypeOK
    <3>2. \/ seen' = seen \cup {d} /\ errors' = errors /\ unchecked' = unchecked
          \/ DbFails /\ seen' = seen /\ unchecked' = unchecked + 1
      BY <1>4 DEF Accept
    <3>3. errors' \in 0..env'.errors BY <3>1, <3>2, FailureTyped
    <3>4. unchecked' \in Nat BY <3>1, <3>2
    <3> QED BY <3>1, <3>2, <3>3, <3>4
  <2> QED BY <1>4, <2>1, <2>2, StagesTyped DEF Accept, Stage, TypeOK, InHandler
<1>5. CASE Expire(d)
  <2>1. expired' \in 0..env.expires
    <3>1. env \in Environments /\ expired \in 0..env.expires /\ expired < env.expires
          /\ expired' = expired + 1
      BY <1>5 DEF Expire, TypeOK
    <3> QED BY <3>1, EnvTyped
  <2> QED BY <1>5, <2>1 DEF Expire, TypeOK
<1> QED BY <1>2, <1>3, <1>4, <1>5

LEMMA HandlerType ==
  ASSUME TypeOK, NEW i \in Intakes, Taken(i) => i[1] \in 1..Len(sent), HandlerStep(i)
  PROVE  TypeOK'
<1>1. CASE Store(i)
  <2>1. env' = env BY <1>1 DEF Store
  <2>2. /\ errors' \in 0..env'.errors /\ unstored' \subseteq Intakes
        /\ record' \in [Intakes -> Retries] /\ UNCHANGED <<unchecked, uncounted, kept>>
    <3>1. env \in Environments /\ errors \in 0..env.errors /\ record \in [Intakes -> Retries]
          /\ unstored \subseteq Intakes /\ uncounted \subseteq Intakes
      BY DEF TypeOK
    <3> QED BY <1>1, <2>1, <3>1, FailureTyped, RecordsTyped DEF Store, Put
  <2> QED BY <1>1, <2>1, <2>2, StagesTyped DEF Store, Stage, TypeOK, InHandler
<1>2. CASE ProcessEvent(i)
  <2>1. Event(i[1]) \in Events BY <1>2, EventTyped DEF ProcessEvent, Taken
  <2>2. handler' \in [Intakes -> HandlerStages] BY <1>2, StagesTyped DEF ProcessEvent, Stage, TypeOK, InHandler
  <2>3. published' \in [Intakes -> Nat] BY <1>2 DEF ProcessEvent, Counted, TypeOK
  <2>4. armed' \in Events /\ running' \subseteq Events BY <1>2, <2>1 DEF ProcessEvent, Publish, TypeOK
  <2> QED BY <1>2, <2>2, <2>3, <2>4 DEF ProcessEvent, TypeOK
<1>3. CASE ProcessOther(i) BY <1>3, StagesTyped DEF ProcessOther, Stage, TypeOK, InHandler
<1>4. CASE CountFailure(i)
  <2>1. env' = env BY <1>4 DEF CountFailure
  <2>2. /\ errors' \in 0..env'.errors /\ uncounted' \subseteq Intakes
        /\ record' \in [Intakes -> Retries] /\ UNCHANGED <<unchecked, unstored, kept>>
    <3>1. env \in Environments /\ errors \in 0..env.errors /\ record \in [Intakes -> Retries]
          /\ unstored \subseteq Intakes /\ uncounted \subseteq Intakes
      BY DEF TypeOK
    <3> QED BY <1>4, <2>1, <3>1, FailureTyped, RecordsTyped DEF CountFailure, Put
  <2> QED BY <1>4, <2>1, <2>2, StagesTyped DEF CountFailure, Stage, TypeOK
<1>5. CASE CleanUp(i)
  <2>1. env' = env /\ Write(i, NoRecord) BY <1>5 DEF CleanUp
  <2> QED BY <1>5, <2>1, WriteTyped, RecordsTyped, StagesTyped DEF CleanUp, Stage, TypeOK
<1> QED BY <1>1, <1>2, <1>3, <1>4, <1>5 DEF HandlerStep

LEMMA RetryType ==
  ASSUME TypeOK, NEW i \in Intakes,
         i \in todo => i[1] \in 1..Len(sent) /\ record[i].next = "due",
         \/ BackoffElapses(i) \/ RetryPublishes(i) \/ RetryIgnores(i)
         \/ RetryFails(i) \/ GiveUp(i)
  PROVE  TypeOK'
<1>1. CASE BackoffElapses(i)
  <2>1. record[i] \in Retries BY DEF TypeOK
  <2>2. [record[i] EXCEPT !.next = "due"] \in Retries BY <2>1 DEF Retries, Waits
  <2> QED BY <1>1, <2>2 DEF BackoffElapses, Put, TypeOK
<1>6. CASE RetryPublishes(i)
  <2>1. Event(i[1]) \in Events BY <1>6, EventTyped DEF RetryPublishes, Takes
  <2>2. published' \in [Intakes -> Nat] BY <1>6 DEF RetryPublishes, Counted, TypeOK
  <2>3. armed' \in Events /\ running' \subseteq Events
    BY <1>6, <2>1 DEF RetryPublishes, Publish, TypeOK
  <2> QED BY <1>6, <2>2, <2>3 DEF RetryPublishes, Takes, TypeOK
<1>7. CASE RetryIgnores(i) BY <1>7 DEF RetryIgnores, Takes, TypeOK
<1>8. CASE RetryFails(i)
  <2>1. [fails |-> record[i].fails + 1, next |-> "later"] \in Retries
    <3>1. record[i] \in Retries BY DEF TypeOK
    <3>2. ~(record[i].fails + 1 >= MaxAttempts) BY <1>8 DEF RetryFails, LastAttempt
    <3>3. record[i].fails + 1 \in 0..(MaxAttempts - 1) BY <3>1, <3>2 DEF Retries
    <3> QED BY <3>3 DEF Retries, Waits
  <2>2. env' = env /\ Write(i, [fails |-> record[i].fails + 1, next |-> "later"])
    BY <1>8 DEF RetryFails
  <2> QED BY <1>8, <2>1, <2>2, WriteTyped DEF RetryFails, TypeOK
<1>9. CASE GiveUp(i)
  <2>1. env' = env /\ Write(i, NoRecord) BY <1>9 DEF GiveUp
  <2> QED BY <1>9, <2>1, WriteTyped, RecordsTyped DEF GiveUp, Takes, TypeOK
<1> QED BY <1>1, <1>6, <1>7, <1>8, <1>9

LEMMA RoundType ==
  ASSUME TypeOK, at \in Intakes => at[1] \in 1..Len(sent),
         RetryScan \/ Notify \/ RetryMarks \/ RetryDeletes
  PROVE  TypeOK'
<1>1. CASE RetryScan BY <1>1 DEF RetryScan, Due, TypeOK
<1>2. CASE Notify BY <1>2 DEF Notify, TypeOK
<1>3. CASE RetryMarks
  <2>1. env' = env BY <1>3 DEF RetryMarks
  <2>2. errors' \in 0..env'.errors BY <1>3, <2>1, FailureTyped DEF RetryMarks, TypeOK
  <2> QED BY <1>3, <2>1, <2>2 DEF RetryMarks, TypeOK
<1>4. CASE RetryDeletes
  <2>1. env' = env BY <1>4 DEF RetryDeletes
  <2>2. /\ errors' \in 0..env'.errors /\ kept' \in [Intakes -> Nat]
        /\ record' \in [Intakes -> Retries]
    <3>1. env \in Environments /\ errors \in 0..env.errors /\ record \in [Intakes -> Retries]
          /\ kept \in [Intakes -> Nat] /\ at \in Intakes
      BY <1>4 DEF RetryDeletes, TypeOK
    <3> QED BY <1>4, <2>1, <3>1, FailureTyped, RecordsTyped DEF RetryDeletes, Put
  <2> QED BY <1>4, <2>1, <2>2 DEF RetryDeletes, TypeOK
<1> QED BY <1>1, <1>2, <1>3, <1>4

\* The steps that have to do with the record only.
Aside == Fire \/ (\E e \in running : Handle(e)) \/ PollList \/ Polled \/ BootEnds

LEMMA RestType ==
  ASSUME TypeOK, NEW more \in SUBSET Deliveries, Aside \/ Crash(more)
  PROVE  TypeOK'
<1>1. CASE Fire BY <1>1, NoEventTyped DEF Fire, TypeOK
<1>2. ASSUME NEW e \in running, Handle(e) PROVE TypeOK'
  <2>1. rec' \in StateWords \cup {"none"} BY <1>2, SavedTyped DEF Handle, TypeOK
  <2> QED BY <1>2, <2>1 DEF Handle, TypeOK
<1>3. CASE PollList BY <1>3 DEF PollList, TypeOK
<1>4. CASE PollTells BY <1>4, PollTyped DEF PollTells, Publish, TypeOK
<1>5. ASSUME NEW skip \in BOOLEAN, PollAgrees(skip) PROVE TypeOK'
  BY <1>5, NoEventTyped DEF PollAgrees, TypeOK
<1>6. CASE PollWrites BY <1>6, PollTyped, NoEventTyped DEF PollWrites, TypeOK
<1>7. CASE Crash(more)
  <2>1. crashes' \in 0..env.crashes BY <1>7, EnvTyped DEF Crash, TypeOK
  <2>2. handler' \in [Intakes -> HandlerStages] BY <1>7, StagesTyped DEF Crash, TypeOK
  <2>3. hit' \subseteq Intakes BY <1>7 DEF Crash, InHands, TypeOK
  <2> QED BY <1>7, <2>1, <2>2, <2>3, NoEventTyped DEF Crash, TypeOK
<1>8. CASE BootEnds BY <1>8 DEF BootEnds, TypeOK
<1> QED BY <1>1, <1>2, <1>3, <1>4, <1>5, <1>6, <1>7, <1>8 DEF Aside, Polled

-----------------------------------------------------------------------------
\* What a step leaves alone.

\* Payloads sent stay as they are, and a parser unlearns nothing.
Grows(i) ==
  /\ env' = env /\ parses \subseteq parses' /\ accepts'[i[1]] >= accepts[i[1]]
  /\ i[1] <= Len(sent) => i[1] <= Len(sent') /\ sent'[i[1]] = sent[i[1]]

Same(i) ==
  /\ handler'[i] = handler[i] /\ record'[i] = record[i] /\ published'[i] = published[i]
  /\ i \in todo' <=> i \in todo
  /\ at' = i <=> at = i
  /\ at = i => doing' = doing
  /\ i \in hit <=> i \in hit'
  /\ i \in notified => i \in notified'
  /\ kept'[i] = kept[i] /\ (i \in unstored => i \in unstored') /\ (i \in uncounted => i \in uncounted')

LEMMA SucceededKept ==
  ASSUME NEW i \in Intakes, Grows(i), i[1] <= Len(sent), published'[i] = published[i],
         Succeeded(i)
  PROVE  Succeeded(i)'
  BY DEF Grows, Succeeded, Filtered, Event

LEMMA FineKept ==
  ASSUME TypeOK, TypeOK', NEW i \in Intakes, Fine(i), Grows(i), Same(i)
  PROVE  Fine(i)'
<1>1. Counts(i)'
  <2>1. accepts[i[1]] \in Nat /\ accepts'[i[1]] \in Nat /\ i[2] \in Nat
    BY DEF TypeOK, Intakes, Deliveries
  <2> QED BY <2>1 DEF Fine, Counts, Taken, Grows, Same
<1>2. Apart(i)' BY DEF Fine, Apart, Taken, Same
<1>3. Once(i)' BY DEF Fine, Once, Unpublished, Same
<1>4. Earned(i)'
  <2>1. Earned(i) => (Earned(i)' \/ ~Taken(i) \/ Succeeded(i)) BY DEF Earned, Same, Taken
  <2> QED BY SucceededKept DEF Fine, Earned, Counts, Taken, Same, Apart
<1>5. Remains(i)'
  <2>1. Taken(i) /\ (i[1] \in parses /\ Filtered(Event(i[1]))) =>
           (i[1] \in parses /\ Filtered(Event(i[1])))'
    BY DEF Fine, Counts, Grows, Filtered, Event
  <2> QED BY <2>1 DEF Fine, Remains, NeverWritten, Settled, Taken, Same
<1>6. Backed(i)' BY DEF Fine, Backed, Same
<1> QED BY <1>1, <1>2, <1>3, <1>4, <1>5, <1>6 DEF Fine

-----------------------------------------------------------------------------
\* The invariant is kept by the platform, and by what does not touch an intake.

LEMMA GrowsIf ==
  ASSUME TypeOK, NEW i \in Intakes, UNCHANGED <<env, sent, parses, accepts>>
  PROVE  Grows(i)
<1>1. accepts[i[1]] \in Nat BY DEF TypeOK, Intakes
<1> QED BY <1>1 DEF Grows

LEMMA ChangeFine ==
  ASSUME IInv, TypeOK', NEW what \in Happenings, NEW i \in Intakes, Change(what)
  PROVE  Fine(i)'
<1> USE DEF IInv
<1>1. i[1] \in Deliveries /\ accepts[i[1]] \in Nat /\ Len(sent) \in Nat
  BY DEF TypeOK, Intakes
<1>2. \A k \in 1..Len(sent) : k \in 1..Len(sent') /\ sent'[k] = sent[k]
  BY <1>1 DEF Change, TypeOK
<1>3. Grows(i) BY <1>1, <1>2 DEF Change, Grows, Deliveries
<1>4. Same(i) BY DEF Change, Same
<1> QED BY <1>3, <1>4, FineKept

LEMMA WireFine ==
  ASSUME IInv, TypeOK', NEW d \in Deliveries, NEW i \in Intakes,
         Resend(d) \/ Skip(d) \/ Accept(d) \/ Expire(d)
  PROVE  Fine(i)'
<1> USE DEF IInv
<1>0. i[1] \in Deliveries /\ accepts[i[1]] \in Nat
  BY DEF TypeOK, Intakes
<1>2. CASE Resend(d) \/ Skip(d) \/ Expire(d)
  <2>1. Grows(i) BY <1>2, GrowsIf DEF Resend, Skip, Expire
  <2>2. Same(i) BY <1>2 DEF Resend, Skip, Expire, Same
  <2> QED BY <2>1, <2>2, FineKept
<1>3. CASE Accept(d)
  <2> DEFINE k == accepts[d] + 1
  <2>1. k \in 1..MaxAccepts /\ k = accepts[d] + 1 /\ <<d, k>> \in Intakes /\ d \in 1..Len(sent)
    BY <1>3 DEF Accept, TypeOK, Intakes
  <2>2. accepts'[d] = k /\ \A e \in Deliveries : e # d => accepts'[e] = accepts[e]
    BY <1>3 DEF Accept, TypeOK
  <2>3. handler' = [handler EXCEPT ![<<d, k>>] = "marked"]
    BY <1>3 DEF Accept, Stage
  <2>4. UNCHANGED <<env, sent, parses, record, published, todo, at, doing, hit, notified,
                    unstored, uncounted, kept>>
    BY <1>3 DEF Accept
  <2> HIDE DEF k
  <2>5. CASE i = <<d, k>>
    <3>1. ~Taken(i)
      <4>1. accepts[d] \in Nat /\ i[1] = d /\ i[2] = accepts[d] + 1 BY <1>0, <2>1, <2>5
      <4> QED BY <4>1 DEF Fine, Counts
    <3>2. /\ record[i].next = "never" /\ at # i /\ i \notin todo /\ published[i] = 0
          /\ kept[i] \in Nat
      <4>1. published[i] \in Nat /\ kept[i] \in Nat BY DEF TypeOK
      <4> QED BY <3>1, <4>1 DEF Fine, Apart, Taken
    <3>3. handler'[i] = "marked" BY <2>3, <2>5 DEF TypeOK
    <3> QED BY <2>1, <2>2, <2>4, <2>5, <3>2, <3>3
        DEF Fine, Counts, Apart, Once, Earned, Backed, Remains, Taken, InHandler
  <2>6. CASE i # <<d, k>>
    <3>1. Grows(i)
      <4>1. accepts'[i[1]] >= accepts[i[1]]
        <5>1. CASE i[1] = d BY <1>0, <2>1, <2>2, <5>1
        <5>2. CASE i[1] # d
          <6>1. accepts'[i[1]] = accepts[i[1]] BY <1>0, <2>2, <5>2
          <6> QED BY <1>0, <6>1
        <5> QED BY <5>1, <5>2
      <4> QED BY <2>4, <4>1 DEF Grows
    <3>2. Same(i) BY <2>3, <2>4, <2>6 DEF Same, TypeOK
    <3> QED BY <3>1, <3>2, FineKept
  <2> QED BY <2>5, <2>6
<1> QED BY <1>2, <1>3

LEMMA RestFine ==
  ASSUME IInv, TypeOK', NEW i \in Intakes, Aside
  PROVE  Fine(i)'
<1>1. UNCHANGED <<env, sent, parses, accepts, handler, record, published, todo, at, doing, hit, notified,
                  unstored, uncounted, kept>>
  BY DEF Aside, Fire, Handle, PollList, Polled, PollTells, PollAgrees, PollWrites, BootEnds
<1>2. Grows(i) BY <1>1, GrowsIf DEF IInv
<1>3. Same(i) BY <1>1 DEF Same
<1> QED BY <1>2, <1>3, FineKept DEF IInv

LEMMA CrashFine ==
  ASSUME IInv, TypeOK', NEW more \in SUBSET Deliveries, NEW i \in Intakes, Crash(more)
  PROVE  Fine(i)'
<1>1. accepts[i[1]] \in Nat /\ i[2] \in Nat BY DEF TypeOK, Intakes, IInv
<1>2. Grows(i) BY <1>1 DEF Crash, Grows
<1>3. /\ handler'[i] = IF handler[i] \in InHandler THEN "over" ELSE handler[i]
      /\ i \in hit' <=> i \in hit \/ handler[i] \in InHandler \/ at = i
  BY DEF Crash, InHands
<1>4. /\ at' # i /\ i \notin todo'
      /\ UNCHANGED <<record, published, accepts, env, sent, notified, unstored, uncounted, kept>>
  BY DEF Crash
<1>5. Counts(i)' BY <1>3, <1>4 DEF IInv, Fine, Counts, Taken, InHandler
<1>6. Apart(i)' BY <1>3, <1>4 DEF IInv, Fine, Apart, Taken, InHandler
<1>7. Once(i)' BY <1>3, <1>4 DEF IInv, Fine, Once, Apart, Unpublished, InHandler
<1>8. Earned(i)' /\ Backed(i)' BY <1>3, <1>4 DEF IInv, Earned, Backed, InHandler
<1>9. Remains(i)'
  <2>1. Taken(i)' => Taken(i) BY <1>3 DEF Taken, InHandler
  <2>2. Settled(i) => Settled(i)' BY <1>2, <1>4, <2>1, <1>3 DEF Settled, Taken, Grows, Filtered, Event, IInv, Fine, Counts, InHandler
  <2> QED BY <1>3, <1>4, <2>1, <2>2 DEF IInv, Fine, Remains, NeverWritten
<1> QED BY <1>5, <1>6, <1>7, <1>8, <1>9 DEF Fine

-----------------------------------------------------------------------------
\* The invariant is kept by the steps that work on one intake j.

LEMMA OthersFine ==
  ASSUME IInv, TypeOK', NEW j \in Intakes, NEW i \in Intakes, i # j,
         HandlerStep(j) \/ BackoffElapses(j) \/ RetryPublishes(j) \/ RetryIgnores(j)
           \/ RetryFails(j) \/ GiveUp(j)
  PROVE  Fine(i)'
<1>1. UNCHANGED <<env, sent, parses, accepts, hit, notified>>
  BY DEF HandlerStep, Store, ProcessEvent, ProcessOther, CountFailure, CleanUp, BackoffElapses,
         RetryPublishes, RetryIgnores, RetryFails, GiveUp
<1>2. Grows(i) BY <1>1, GrowsIf DEF IInv
<1>3. handler'[i] = handler[i]
  BY DEF HandlerStep, Store, ProcessEvent, ProcessOther, CountFailure, CleanUp, BackoffElapses,
         RetryPublishes, RetryIgnores, RetryFails, GiveUp, Stage, IInv, TypeOK
<1>4. record'[i] = record[i]
  BY DEF HandlerStep, Store, ProcessEvent, ProcessOther, CountFailure, CleanUp, BackoffElapses,
         RetryPublishes, RetryIgnores, RetryFails, GiveUp, Put, Write, IInv, TypeOK
<1>5. published'[i] = published[i]
  BY DEF HandlerStep, Store, ProcessEvent, ProcessOther, CountFailure, CleanUp, BackoffElapses,
         RetryPublishes, RetryIgnores, RetryFails, GiveUp, Counted, IInv, TypeOK
<1>6. /\ i \in todo' <=> i \in todo
      /\ at' = i <=> at = i
      /\ at = i => doing' = doing
  BY DEF HandlerStep, Store, ProcessEvent, ProcessOther, CountFailure, CleanUp, BackoffElapses,
         RetryPublishes, RetryIgnores, RetryFails, GiveUp, Takes
<1>8. kept' = kept /\ unstored \subseteq unstored' /\ uncounted \subseteq uncounted'
  BY DEF HandlerStep, Store, ProcessEvent, ProcessOther, CountFailure, CleanUp, BackoffElapses,
         RetryPublishes, RetryIgnores, RetryFails, GiveUp, Write
<1>7. Same(i) BY <1>1, <1>3, <1>4, <1>5, <1>6, <1>8 DEF Same
<1> QED BY <1>2, <1>7, FineKept DEF IInv

LEMMA HandlerFine ==
  ASSUME IInv, TypeOK', NEW i \in Intakes, HandlerStep(i)
  PROVE  Fine(i)'
<1> USE DEF IInv
<1>1. /\ UNCHANGED <<env, sent, parses, accepts, hit, notified, todo, at, doing, kept>>
      /\ unstored \subseteq unstored' /\ uncounted \subseteq uncounted'
  BY DEF HandlerStep, Store, ProcessEvent, ProcessOther, CountFailure, CleanUp, Write
<1>2. handler[i] \in InHandler /\ Counts(i)'
  BY <1>1 DEF HandlerStep, Store, ProcessEvent, ProcessOther, CountFailure, CleanUp, InHandler,
              Fine, Counts, Taken
<1>3. record[i].next = "never" /\ at # i /\ i \notin todo BY <1>2 DEF Fine, Apart, InHandler
<1>4. published[i] \in Nat /\ kept[i] \in Nat BY DEF TypeOK
<1>5. CASE Store(i)
  <2>1. /\ handler[i] = "marked" /\ handler'[i] = "stored" /\ published' = published
        /\ record'[i] = Stored \/ (record'[i] = record[i] /\ i \in unstored')
    BY <1>5 DEF Store, Stage, Put, TypeOK
  <2>2. record'[i].next = "never" /\ Backed(i)'
    BY <1>3, <2>1 DEF Backed, Stored, NoRecord
  <2> QED BY <1>1, <1>2, <1>3, <1>4, <2>1, <2>2
      DEF Fine, Apart, Once, Unpublished, Earned, Remains, Taken, InHandler
<1>6. CASE ProcessEvent(i)
  <2>1. handler[i] = "stored" /\ handler'[i] = "done" /\ record' = record /\ published'[i] = published[i] + 1
    BY <1>6 DEF ProcessEvent, Stage, Counted, TypeOK
  <2> QED BY <1>1, <1>2, <1>3, <1>4, <2>1
      DEF Fine, Apart, Once, Unpublished, Earned, Succeeded, Backed, Remains, Taken, InHandler
<1>7. CASE ProcessOther(i)
  <2>1. /\ handler[i] = "stored" /\ record' = record /\ published' = published
        /\ handler'[i] = IF Outcome(i[1]) = "error" THEN "failed" ELSE "done"
        /\ Outcome(i[1]) # "event"
    BY <1>7 DEF ProcessOther, Stage, TypeOK
  <2>2. handler'[i] = "done" => Succeeded(i)'
    BY <1>1, <2>1 DEF Outcome, Succeeded, Filtered, Event
  <2>3. handler'[i] \in {"failed", "done"} BY <2>1
  <2> QED BY <1>1, <1>2, <1>3, <1>4, <2>1, <2>2, <2>3
      DEF Fine, Apart, Once, Unpublished, Earned, Backed, Remains, Taken, InHandler
<1>8. CASE CountFailure(i)
  <2>1. /\ handler[i] = "failed" /\ handler'[i] = "over" /\ published' = published
        /\ \/ record'[i] = [fails |-> 1, next |-> "later"]
           \/ record'[i] = record[i] /\ i \in uncounted'
    BY <1>8 DEF CountFailure, Stage, Put, TypeOK
  <2>2. record'[i] # NoRecord \/ NeverWritten(i)'
    BY <1>1, <2>1 DEF Fine, Backed, NeverWritten, NoRecord
  <2>3. Once(i)'
    <3>1. i \notin hit => published[i] <= kept[i] BY <2>1 DEF Fine, Once, Unpublished
    <3> QED BY <1>1, <1>4, <2>1, <3>1 DEF Once
  <2> QED BY <1>1, <1>2, <1>3, <2>1, <2>2, <2>3
      DEF Fine, Apart, Earned, Backed, Remains, Taken
<1>9. CASE CleanUp(i)
  <2>1. /\ handler[i] = "done" /\ handler'[i] = "over" /\ published' = published
        /\ record'[i] \in {NoRecord, record[i]}
    BY <1>9 DEF CleanUp, Stage, Put, Write, TypeOK
  <2>2. Succeeded(i)' BY <1>1, <2>1 DEF Fine, Earned, Succeeded, Filtered, Event
  <2>3. record'[i].next = "never" BY <1>3, <2>1 DEF NoRecord
  <2>4. Once(i)' BY <1>1, <2>1, <2>3 DEF Fine, Once, Unpublished
  <2> QED BY <1>1, <1>2, <1>3, <2>1, <2>2, <2>3, <2>4
      DEF Fine, Apart, Earned, Backed, Remains, Settled, Succeeded, Taken
<1> QED BY <1>5, <1>6, <1>7, <1>8, <1>9 DEF HandlerStep

LEMMA RetryFine ==
  ASSUME IInv, TypeOK', NEW i \in Intakes,
         BackoffElapses(i) \/ RetryPublishes(i) \/ RetryIgnores(i) \/ RetryFails(i) \/ GiveUp(i)
  PROVE  Fine(i)'
<1> USE DEF IInv
<1>1. UNCHANGED <<env, sent, parses, accepts, hit, notified, handler, unstored, uncounted, kept>>
  BY DEF BackoffElapses, RetryPublishes, RetryIgnores, RetryFails, GiveUp, Write
<1>2. i # NoIntake OBVIOUS
<1>3. handler[i] = "over" /\ record[i].next # "never" /\ Counts(i)'
  BY <1>1 DEF BackoffElapses, RetryPublishes, RetryIgnores, RetryFails, GiveUp, Takes,
              Fine, Apart, Counts, Taken
<1>4. /\ published[i] \in Nat /\ kept[i] \in Nat
      /\ i \notin hit /\ at # i => published[i] <= kept[i]
  BY <1>3 DEF TypeOK, Fine, Once, Unpublished
<1>10. at = NoIntake => at # i BY <1>2
<1>5. CASE BackoffElapses(i)
  <2>1. record'[i].next = "due" /\ UNCHANGED <<todo, at, doing, published>>
    BY <1>5 DEF BackoffElapses, Put, TypeOK, Retries
  <2>2. i \notin todo BY <1>5 DEF BackoffElapses, Fine, Apart
  <2>3. Earned(i)' BY <1>1, <2>1 DEF Fine, Earned, Succeeded, Filtered, Event
  <2> QED BY <1>1, <1>3, <1>4, <2>1, <2>2, <2>3
      DEF Fine, Apart, Once, Unpublished, Backed, Remains, Taken, NoRecord
<1>6. CASE RetryPublishes(i)
  <2>1. /\ at = NoIntake /\ at' = i /\ i \notin todo' /\ doing' = "mark" /\ record' = record
        /\ published'[i] = published[i] + 1
    BY <1>6 DEF RetryPublishes, Takes, Counted, TypeOK
  <2> QED BY <1>1, <1>3, <1>4, <1>10, <2>1
      DEF Fine, Apart, Once, Unpublished, Earned, Succeeded, Backed, Remains, Taken
<1>7. CASE RetryIgnores(i)
  <2>1. /\ at = NoIntake /\ at' = i /\ i \notin todo' /\ doing' = "mark" /\ record' = record
        /\ published' = published /\ Outcome(i[1]) = "quiet"
    BY <1>7 DEF RetryIgnores, Takes
  <2>2. Succeeded(i)' BY <1>1, <2>1 DEF Outcome, Succeeded, Filtered, Event
  <2> QED BY <1>1, <1>3, <1>4, <1>10, <2>1, <2>2
      DEF Fine, Apart, Once, Unpublished, Earned, Backed, Remains, Taken
<1>8. CASE RetryFails(i)
  <2>1. /\ at = NoIntake /\ at' = at /\ i \notin todo' /\ published' = published
        /\ record'[i].next # "never"
    BY <1>3, <1>8 DEF RetryFails, Put, Write, TypeOK
  <2> QED BY <1>1, <1>3, <1>4, <1>10, <2>1
      DEF Fine, Apart, Once, Unpublished, Earned, Backed, Remains, Taken, NoRecord
<1>9. CASE GiveUp(i)
  <2>1. /\ at = NoIntake /\ at' = i /\ i \notin todo' /\ doing' = "notify" /\ published' = published
        /\ record'[i] \in {NoRecord, record[i]}
    BY <1>9 DEF GiveUp, Takes, Put, Write, TypeOK
  <2> QED BY <1>1, <1>3, <1>4, <1>10, <2>1
      DEF Fine, Apart, Once, Unpublished, Earned, Backed, Remains, Taken, NoRecord
<1> QED BY <1>5, <1>6, <1>7, <1>8, <1>9

LEMMA RoundFine ==
  ASSUME IInv, TypeOK', NEW i \in Intakes, RetryScan \/ Notify \/ RetryMarks \/ RetryDeletes
  PROVE  Fine(i)'
<1> USE DEF IInv
<1>1. UNCHANGED <<env, sent, parses, accepts, hit, handler, published, unstored, uncounted>>
  BY DEF RetryScan, Notify, RetryMarks, RetryDeletes
<1>9. RetryScan \/ Notify \/ RetryMarks => kept' = kept BY DEF RetryScan, Notify, RetryMarks
<1>2. Grows(i) /\ i # NoIntake BY <1>1, GrowsIf
<1>3. published[i] \in Nat /\ kept[i] \in Nat /\ Counts(i)' BY <1>1 DEF TypeOK, Fine, Counts, Taken
<1>4. CASE RetryScan
  <2>1. at' = at /\ at # i /\ doing' = doing /\ UNCHANGED <<record, notified>>
    BY <1>2, <1>4 DEF RetryScan
  <2>2. i \in todo' => record[i].next = "due" BY <1>4 DEF RetryScan, Due
  <2>3. Apart(i)' BY <1>1, <2>1, <2>2 DEF Fine, Apart, Taken
  <2>4. Once(i)' /\ Earned(i)' /\ Backed(i)'
    BY <1>1, <1>4, <1>9, <2>1 DEF Fine, Once, Unpublished, Earned, Backed, Succeeded, Filtered, Event
  <2>5. Remains(i)' BY <1>1, <2>1 DEF Fine, Remains, NeverWritten, Settled, Taken, Filtered, Event
  <2> QED BY <1>3, <2>3, <2>4, <2>5 DEF Fine
<1>5. CASE Notify
  <2>1. /\ at' = NoIntake /\ doing = "notify" /\ UNCHANGED <<record, todo, doing>>
        /\ notified' = notified \cup {at}
    BY <1>5 DEF Notify
  <2>2. Apart(i)' BY <1>1, <1>2, <2>1 DEF Fine, Apart, Taken
  <2>3. Once(i)' BY <1>1, <1>2, <1>5, <1>9, <2>1 DEF Fine, Once, Unpublished
  <2>4. Earned(i)' /\ Backed(i)'
    BY <1>1, <1>2, <2>1 DEF Fine, Earned, Backed, Succeeded, Filtered, Event
  <2>5. Remains(i)' BY <1>1, <1>2, <2>1 DEF Fine, Remains, NeverWritten, Settled, Taken, Filtered, Event
  <2> QED BY <1>3, <2>2, <2>3, <2>4, <2>5 DEF Fine
<1>6. CASE RetryMarks
  <2>1. doing = "mark" /\ doing' = "delete" /\ UNCHANGED <<record, todo, at, notified>>
    BY <1>6 DEF RetryMarks
  <2> QED BY <1>1, <1>3, <1>6, <1>9, <2>1
      DEF Fine, Apart, Once, Unpublished, Earned, Succeeded, Backed, Remains, NeverWritten, Settled, Taken, Filtered, Event
<1>7. CASE RetryDeletes /\ i # at
  <2>1. Same(i) BY <1>1, <1>2, <1>7 DEF RetryDeletes, Put, Same, TypeOK
  <2> QED BY <1>2, <2>1, FineKept
<1>8. CASE RetryDeletes /\ i = at
  <2>1. /\ doing = "delete" /\ at' = NoIntake /\ UNCHANGED <<todo, doing, notified>>
        /\ \/ record'[i] = NoRecord /\ kept'[i] = kept[i]
           \/ record'[i] = record[i] /\ kept'[i] = kept[i] + 1
    BY <1>8 DEF RetryDeletes, Put, TypeOK
  <2>3. handler[i] = "over" /\ i \notin todo BY <1>8 DEF Fine, Apart
  <2>2. Succeeded(i)' BY <1>1, <1>8, <2>1 DEF Fine, Earned, Succeeded, Filtered, Event
  <2>4. Once(i)'
    <3>1. i \notin hit => published[i] <= 1 + kept[i] BY DEF Fine, Once
    <3>2. CASE record'[i] = NoRecord /\ kept'[i] = kept[i]
      BY <1>1, <2>3, <3>1, <3>2 DEF Once, Unpublished, NoRecord
    <3>3. CASE kept'[i] = kept[i] + 1
      BY <1>1, <1>3, <3>1, <3>3 DEF Once
    <3> QED BY <2>1, <3>2, <3>3
  <2>5. Remains(i)' BY <1>1, <2>2 DEF Remains, Settled, Succeeded, Taken
  <2>6. Apart(i)' BY <1>1, <1>2, <2>1, <2>3 DEF Fine, Apart, Taken
  <2>7. Earned(i)' /\ Backed(i)' BY <1>1, <1>2, <2>1, <2>3 DEF Earned, Backed
  <2> QED BY <1>3, <2>4, <2>5, <2>6, <2>7 DEF Fine
<1> QED BY <1>4, <1>5, <1>6, <1>7, <1>8

LEMMA MarkedKept == ASSUME IInv, TypeOK', [Next]_vars PROVE Marked'
<1> USE DEF IInv
<1>0. expired \in Nat /\ unchecked \in Nat /\ \A d \in Deliveries : accepts[d] \in Nat
  BY EnvTyped DEF TypeOK
<1>1. ASSUME NEW d \in Deliveries, Accept(d) PROVE Marked'
  <2>1. /\ accepts' = [accepts EXCEPT ![d] = accepts[d] + 1] /\ expired' = expired
        /\ DOMAIN accepts = Deliveries
        /\ \/ d \notin seen /\ seen' = seen \cup {d} /\ unchecked' = unchecked
           \/ seen' = seen /\ unchecked' = unchecked + 1
    BY <1>1 DEF Accept, Duplicate, TypeOK
  <2>2. ASSUME NEW e \in Deliveries
        PROVE  accepts'[e] <= IF e \in seen' THEN 1 + expired' + unchecked' ELSE expired' + unchecked'
    BY <1>0, <2>1, <2>2 DEF Marked
  <2> QED BY <2>2 DEF Marked
<1>2. ASSUME NEW d \in Deliveries, Expire(d) PROVE Marked'
  BY <1>0, <1>2 DEF Expire, Marked, TypeOK
<1>3. CASE RetryMarks BY <1>0, <1>3 DEF RetryMarks, Marked, TypeOK
<1>4. CASE UNCHANGED <<accepts, seen, expired, unchecked>> BY <1>4 DEF Marked
<1>5. CASE UNCHANGED vars BY <1>4, <1>5 DEF vars
<1>6. ASSUME NEW what \in Happenings, Change(what) PROVE Marked' BY <1>4, <1>6 DEF Change
<1>10. ASSUME NEW d \in Deliveries, Resend(d) \/ Skip(d) PROVE Marked'
  BY <1>4, <1>10 DEF Resend, Skip
<1>7. ASSUME NEW i \in Intakes, HandlerStep(i) \/ BackoffElapses(i) PROVE Marked'
  BY <1>4, <1>7
     DEF HandlerStep, Store, ProcessEvent, ProcessOther, CountFailure, CleanUp, BackoffElapses, Write
<1>8. CASE RetryStep
  BY <1>3, <1>4, <1>8
     DEF RetryStep, RetryScan, Notify, RetryDeletes, RetryPublishes, RetryIgnores, RetryFails, GiveUp,
         Write
<1>9. CASE Aside
  BY <1>4, <1>9
     DEF Aside, Fire, Handle, PollList, Polled, PollTells, PollWrites, PollAgrees, BootEnds
<1>11. ASSUME NEW more \in SUBSET Deliveries, Crash(more) PROVE Marked' BY <1>4, <1>11 DEF Crash
<1> QED BY <1>1, <1>2, <1>5, <1>6, <1>7, <1>8, <1>9, <1>10, <1>11 DEF Next, Aside

-----------------------------------------------------------------------------
LEMMA TypeKept == ASSUME IInv, [Next]_vars PROVE TypeOK'
<1> USE DEF IInv
<1>0. /\ \A i \in Intakes : Taken(i) => i[1] \in 1..Len(sent)
      /\ \A i \in Intakes : i \in todo => Taken(i) /\ record[i].next = "due"
      /\ at \in Intakes => Taken(at)
  <2>1. Len(sent) \in Nat /\ \A i \in Intakes : i[1] \in Deliveries BY DEF TypeOK, Intakes
  <2> QED BY <2>1 DEF Fine, Counts, Apart, Taken, Deliveries
<1>1. CASE UNCHANGED vars BY <1>1 DEF vars, TypeOK
<1>2. ASSUME NEW what \in Happenings, Change(what) PROVE TypeOK' BY <1>2, ChangeType
<1>3. ASSUME NEW d \in Deliveries, Resend(d) \/ Skip(d) \/ Accept(d) \/ Expire(d) PROVE TypeOK'
  BY <1>3, WireType
<1>4. ASSUME NEW i \in Intakes, HandlerStep(i) PROVE TypeOK' BY <1>0, <1>4, HandlerType
<1>5. ASSUME NEW i \in Intakes,
             BackoffElapses(i) \/ RetryPublishes(i) \/ RetryIgnores(i) \/ RetryFails(i) \/ GiveUp(i)
      PROVE  TypeOK'
  BY <1>0, <1>5, RetryType
<1>6. CASE RetryScan \/ Notify \/ RetryMarks \/ RetryDeletes BY <1>0, <1>6, RoundType
<1>7. CASE Aside \/ \E more \in SUBSET Deliveries : Crash(more) BY <1>7, RestType
<1> QED BY <1>1, <1>2, <1>3, <1>4, <1>5, <1>6, <1>7 DEF Next, RetryStep, Aside

LEMMA FinesKept == ASSUME IInv, TypeOK', [Next]_vars, NEW i \in Intakes PROVE Fine(i)'
<1>1. CASE UNCHANGED vars
  <2>1. UNCHANGED <<env, sent, parses, accepts>> /\ Same(i) BY <1>1 DEF vars, Same
  <2> QED BY <2>1, GrowsIf, FineKept DEF IInv
<1>2. ASSUME NEW what \in Happenings, Change(what) PROVE Fine(i)' BY <1>2, ChangeFine
<1>3. ASSUME NEW d \in Deliveries, Resend(d) \/ Skip(d) \/ Accept(d) \/ Expire(d) PROVE Fine(i)'
  BY <1>3, WireFine
<1>4. ASSUME NEW j \in Intakes, HandlerStep(j) PROVE Fine(i)' BY <1>4, HandlerFine, OthersFine
<1>5. ASSUME NEW j \in Intakes,
             BackoffElapses(j) \/ RetryPublishes(j) \/ RetryIgnores(j) \/ RetryFails(j) \/ GiveUp(j)
      PROVE  Fine(i)'
  BY <1>5, RetryFine, OthersFine
<1>6. CASE RetryScan \/ Notify \/ RetryMarks \/ RetryDeletes BY <1>6, RoundFine
<1>7. CASE Aside BY <1>7, RestFine
<1>8. ASSUME NEW more \in SUBSET Deliveries, Crash(more) PROVE Fine(i)' BY <1>8, CrashFine
<1> QED BY <1>1, <1>2, <1>3, <1>4, <1>5, <1>6, <1>7, <1>8 DEF Next, RetryStep, Aside

LEMMA InvInit == ASSUME Init PROVE IInv
<1>1. TypeOK
  <2>1. env \in Environments /\ env.changes \in Nat /\ env.resends \in Nat /\ env.expires \in Nat
        /\ env.crashes \in Nat /\ env.errors \in Nat /\ env.bad \subseteq Deliveries
    BY EnvTyped DEF Init
  <2>2. sent \in Seq(Payloads) /\ Len(sent) = 0 BY DEF Init
  <2>3. "idle" \in HandlerStages BY DEF HandlerStages
  <2>4. wire \subseteq 1..Len(sent) /\ seen \subseteq 1..Len(sent) BY <2>2 DEF Init
  <2>5. remote \in Statuses /\ rec \in StateWords \cup {"none"} BY DEF Init, Statuses, StateWords
  <2>6. /\ accepts \in [Deliveries -> 0..MaxAccepts] /\ published \in [Intakes -> Nat]
        /\ handler \in [Intakes -> HandlerStages] /\ record \in [Intakes -> Retries]
    BY <2>3, RecordsTyped DEF Init
  <2>7. parses \subseteq Deliveries /\ armed \in Events
        /\ poll \in [stage : {"idle", "listed", "writing"}, status : Statuses]
    BY NoEventTyped DEF Init
  <2>8. /\ resends \in 0..env.resends /\ expired \in 0..env.expires /\ crashes \in 0..env.crashes
        /\ Len(sent) <= env.changes
    BY <2>1, <2>2 DEF Init
  <2>9. /\ todo \subseteq Intakes /\ at \in Intakes \cup {NoIntake}
        /\ notified \subseteq Intakes /\ hit \subseteq Intakes /\ running \subseteq Events
        /\ doing \in {"mark", "delete", "notify"} /\ up \in {"booting", "polled", "up"}
    BY DEF Init
  <2>10. /\ errors \in 0..env.errors /\ unchecked \in Nat /\ unstored \subseteq Intakes
         /\ uncounted \subseteq Intakes /\ kept \in [Intakes -> Nat]
    BY <2>1 DEF Init
  <2> QED BY <2>1, <2>2, <2>4, <2>5, <2>6, <2>7, <2>8, <2>9, <2>10 DEF TypeOK
<1>2. Marked BY DEF Init, Marked
<1>3. ASSUME NEW i \in Intakes PROVE Fine(i)
  <2>1. /\ handler[i] = "idle" /\ record[i] = NoRecord /\ published[i] = 0 /\ kept[i] = 0
        /\ at # i /\ i \notin todo
    BY DEF Init
  <2> QED BY <2>1
      DEF Fine, Counts, Apart, Once, Unpublished, Earned, Backed, Remains, Taken, NoRecord
<1> QED BY <1>1, <1>2, <1>3 DEF IInv

LEMMA Invariance == Spec => []IInv
<1>1. IInv /\ [Next]_vars => IInv' BY TypeKept, FinesKept, MarkedKept DEF IInv
<1> QED BY InvInit, <1>1, PTL DEF Spec

\* Whatever the platforms send, in whatever order, and whenever the daemon crashes, the
\* state of handlers, retry worker, poller and consumer keeps its types; in particular a
\* record of the bucket webhook_retries never counts as many failures as the retry
\* worker's maximum.
THEOREM TypesHold == Spec => []TypeOK
<1>1. IInv => TypeOK BY DEF IInv
<1> QED BY <1>1, Invariance, PTL

\* Handler and retry worker together publish a delivery once for each time it was taken
\* for new, and once more for each failed delete of its retried record, but for those that
\* a crash interrupts; it is taken for new once more than marks expired, or could not be
\* read or written, at most (WebhookHandler, StartWebhookRetryWorker).
THEOREM PublishedOnceHolds == Spec => []PublishedOnce
<1>1. ASSUME IInv PROVE PublishedOnce
  <2>1. ASSUME NEW i \in Intakes
        PROVE  /\ published[i] <= 1 + kept[i] \/ i \in hit
               /\ published[i] = 0 \/ i[2] <= 1 + expired + unchecked
    <3>1. Fine(i) /\ TypeOK /\ Marked BY <1>1 DEF IInv
    <3>2. published[i] \in Nat /\ expired \in Nat /\ unchecked \in Nat /\ i[1] \in Deliveries
          /\ i[2] \in Nat /\ accepts[i[1]] \in Nat
      BY <3>1, EnvTyped DEF TypeOK, Intakes
    <3>3. published[i] <= 1 + kept[i] \/ i \in hit BY <3>1 DEF Fine, Once
    <3>4. published[i] = 0 \/ i[2] <= accepts[i[1]] BY <3>1, <3>2 DEF Fine, Apart, Counts
    <3>5. accepts[i[1]] <= 1 + expired + unchecked BY <3>1, <3>2 DEF Marked
    <3> QED BY <3>2, <3>3, <3>4, <3>5
  <2> QED BY <2>1 DEF PublishedOnce
<1> QED BY <1>1, Invariance, PTL

\* No delivery that was taken in is lost without a word: it is at work, in the bucket of
\* retries, settled, or a crash interrupted the work on it, or the database took neither
\* its record nor the count of its failure.
THEOREM NoneLostHolds == Spec => []NoneLost
<1>1. IInv => NoneLost BY DEF IInv, Fine, Remains, NoneLost
<1> QED BY <1>1, Invariance, PTL

=============================================================================
