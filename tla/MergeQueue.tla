----------------------------- MODULE MergeQueue -----------------------------
(***************************************************************************)
(* The merge queue of daemon/queue/manager.go: the queue_items bucket, the *)
(* CheckQueue runs of several goroutines on several Managers, and every    *)
(* other writer of the bucket and of the PR records (AddToQueue from       *)
(* handlers and events, removal, priority edits, draft and close handlers, *)
(* the poller), with crashes and restarts.                                 *)
(*                                                                         *)
(* Steps are cut where another goroutine can run: between a read of the    *)
(* database and the write that uses it, and around each platform call.     *)
(* Times are abstracted to flags: backoff is "NextRetryAt is in the        *)
(* future", sched is "ScheduleAt is in the future"; both expire by a step  *)
(* of their own.  AddedAt orders only ties and is left out: items of equal *)
(* priority are taken in any order.                                        *)
(***************************************************************************)
EXTENDS Naturals

CONSTANTS PRs, NoPR,          \* pull requests of one repo group
          Managers,           \* queue.Manager instances of the process
          Callers, NoCaller,  \* goroutines that call CheckQueue
          Tickers,            \* those of them driven by a ticker
          MgrOf,              \* MgrOf[c]: the Manager goroutine c calls
          MaxRetryCount,      \* maxRetryCount
          MaxPriority,        \* largest priority SetQueuePriority accepts
          Ops,                \* operations of users and platform allowed
          Faults,             \* failures allowed, subset of FaultNames
          Budget              \* bound: operations of users and platform, and failed
                              \* writes of the bucket

OpNames == {"add", "readd", "schedule", "remove", "withdraw", "clear", "priority",
            "draft", "close", "spam", "approve", "merge", "reopen", "poll", "restart"}
FaultNames == {"notready", "error", "mergefails", "savefails", "lostreply",
               "putfails"}

ASSUME ConstantsAssumption ==
  /\ MaxRetryCount \in Nat \ {0}
  /\ MaxPriority \in Nat
  /\ Budget \in Nat
  /\ MgrOf \in [Callers -> Managers] /\ Tickers \subseteq Callers
  /\ Ops \subseteq OpNames /\ Faults \subseteq FaultNames
  /\ NoPR \notin PRs /\ NoCaller \notin Callers

VARIABLES
  items,    \* items[p]: the queue_items entry of p, Absent when there is none
  rec,      \* rec[p]: the PR record of p in the database
  remote,   \* remote[p]: the state of p on the platform
  lock,     \* lock[m]: the goroutine that holds m.checkMu
  pc,       \* pc[c]: where goroutine c is in CheckQueue
  todo,     \* todo[c]: the PRs collected by the scan and not yet processed
  dying,    \* dying[c]: the PRs the scan found out of retries
  snap,     \* snap[c][p]: the copy of the item the scan read
  cur,      \* cur[c]: the PR being processed
  copy,     \* copy[c]: the PR record ShouldMerge, later merge, read
  unsettled,\* merged PRs whose item a run could not write or delete (history only)
  adder,    \* adder[p]: the PR copy a pending AddToQueue was called with
  adding,   \* PRs an AddToQueue found no item of and is about to write one of
  editor,   \* editor[p]: the item a pending SetQueuePriority read
  clearing, \* keys a ClearQueue collected and has not deleted yet
  stage,    \* stage[p]: where an approve, close, spam, draft or ready handler stands
  held,     \* held[p]: the PR record that handler read
  polled,   \* polled[p]: the platform state a poll listed and not yet stored
  budget    \* operations and failed writes left

storeVars == <<items, rec, remote>>
runVars   == <<lock, pc, todo, dying, snap, cur, copy, unsettled>>
userVars  == <<adder, adding, editor, clearing, stage, held, polled>>
vars      == <<storeVars, runVars, userVars, budget>>

-----------------------------------------------------------------------------
\* Items and records

\* QueueStatus* of manager.go; "absent" stands for a key that is not there.
Statuses == {"absent", "waiting", "checking", "merging", "done", "failed",
             "ready", "dead-letter"}

Item == [status : Statuses, retry : Nat, backoff : BOOLEAN,
         sched : BOOLEAN, prio : 0..MaxPriority]

Absent == [status |-> "absent", retry |-> 0, backoff |-> FALSE,
           sched |-> FALSE, prio |-> 0]

Fresh(s) == [status |-> "waiting", retry |-> 0, backoff |-> FALSE,
             sched |-> s, prio |-> 0]

Present(i) == i.status # "absent"

WithStatus(i, s) == [i EXCEPT !.status = s]
WithPrio(i, n)   == [i EXCEPT !.prio = n]
BackoffOver(i)   == [i EXCEPT !.backoff = FALSE]
ScheduleDue(i)   == [i EXCEPT !.sched = FALSE]

States == {"none", "open", "closed", "merged", "spam"}
Rec    == [state : States, draft : BOOLEAN]
NoRec  == [state |-> "none", draft |-> FALSE]

InState(r, s)  == [r EXCEPT !.state = s]
AsDraft(r, d)  == [r EXCEPT !.draft = d]

\* What the poller reads of a PR in state s: MarkDraft never tells the platform.
Listed(s) == [state |-> s, draft |-> FALSE]

\* What GetPR may call state s: a merged PR is closed to GitHub.
Reported(s) == IF s = "merged" THEN {"merged", "closed"} ELSE {s}

\* One Put or Delete of a bucket entry.  It may fail: callers log that and go on.
StoreFails == "putfails" \in Faults /\ budget > 0 /\ budget' = budget - 1 /\ items' = items
Store(p, i) == \/ items' = [items EXCEPT ![p] = i] /\ budget' = budget
               \/ StoreFails

-----------------------------------------------------------------------------
\* CheckQueue: the scan

\* An exhausted item looked for one failure too late.
ExhaustedLate(i) == i.status = "failed" /\ i.retry > MaxRetryCount

Exhausted(i) == i.status = "failed" /\ i.retry >= MaxRetryCount

\* The items the loop processes: ScheduleAt is compared with the time of the scan.
Due(i) ==
  /\ i.status \in {"waiting", "checking", "failed", "ready"}
  /\ ~Exhausted(i)
  /\ ~(i.status = "failed" /\ i.backoff)
  /\ ~i.sched

\* TryLock, or return at once when another goroutine holds this Manager's mutex.
TryLock(c) ==
  /\ pc[c] = "idle"
  /\ lock[MgrOf[c]] = NoCaller
  /\ lock' = [lock EXCEPT ![MgrOf[c]] = c]
  /\ pc' = [pc EXCEPT ![c] = "scan"]
  /\ UNCHANGED <<storeVars, todo, dying, snap, cur, copy, unsettled, userVars, budget>>

\* The ForEach over the bucket sees one state of it (a read transaction).
Scan(c) ==
  /\ pc[c] = "scan"
  /\ pc' = [pc EXCEPT ![c] = "loop"]
  /\ dying' = [dying EXCEPT ![c] = {p \in PRs : Exhausted(items[p])}]
  /\ todo' = [todo EXCEPT ![c] = {p \in PRs : Due(items[p])}]
  /\ snap' = [snap EXCEPT ![c] =
                [p \in PRs |-> IF Exhausted(items[p]) \/ Due(items[p])
                               THEN items[p] ELSE Absent]]
  /\ UNCHANGED <<storeVars, lock, cur, copy, unsettled, userVars, budget>>

\* The Put, in a transaction of its own, of an item that ran out of retries.
DeadLetter(c, p) ==
  /\ pc[c] = "loop" /\ p \in dying[c]
  /\ Store(p, WithStatus(snap[c][p], "dead-letter"))
  /\ dying' = [dying EXCEPT ![c] = @ \ {p}]
  /\ snap' = [snap EXCEPT ![c] = [@ EXCEPT ![p] = Absent]]
  /\ UNCHANGED <<rec, remote, lock, pc, todo, cur, copy, unsettled, userVars>>

-----------------------------------------------------------------------------
\* CheckQueue: the loop over the collected items

Highest(c, p) == \A q \in todo[c] : snap[c][q].prio <= snap[c][p].prio

\* The next item, highest priority first; ShouldMerge starts by reading the record.
Begin(c, p) ==
  /\ pc[c] = "loop" /\ dying[c] = {}
  /\ p \in todo[c] /\ Highest(c, p)
  /\ pc' = [pc EXCEPT ![c] = "checking"]
  /\ todo' = [todo EXCEPT ![c] = @ \ {p}]
  /\ cur' = [cur EXCEPT ![c] = p]
  /\ copy' = [copy EXCEPT ![c] = rec[p]]
  /\ UNCHANGED <<storeVars, lock, dying, snap, unsettled, userVars, budget>>

\* c is done with its current item: on to the next one.
NextItem(c) ==
  /\ pc' = [pc EXCEPT ![c] = "loop"]
  /\ snap' = [snap EXCEPT ![c] = [@ EXCEPT ![cur[c]] = Absent]]
  /\ cur' = [cur EXCEPT ![c] = NoPR]
  /\ copy' = [copy EXCEPT ![c] = NoRec]
  /\ UNCHANGED <<lock, todo, dying, userVars>>

\* c writes its copy of the item back, whatever the bucket holds by now, or fails to
\* and goes on: the bucket then still holds what it held.
WriteBack(c, i) ==
  /\ \/ items' = [items EXCEPT ![cur[c]] = i] /\ UNCHANGED <<budget, unsettled>>
     \/ /\ StoreFails
        /\ unsettled' = IF remote'[cur[c]] = "merged" THEN unsettled \cup {cur[c]}
                                                      ELSE unsettled
  /\ NextItem(c)

FailedUncounted(i) == [i EXCEPT !.status = "failed", !.backoff = TRUE]
Failed(i) == [status |-> "failed", retry |-> i.retry + 1, backoff |-> TRUE,
              sched |-> i.sched, prio |-> i.prio]

\* ShouldMerge answers no, or a transient error.
KeepWaiting(c) ==
  /\ pc[c] = "checking"
  /\ "notready" \in Faults \/ copy[c].draft
  /\ UNCHANGED <<rec, remote>>
  /\ WriteBack(c, WithStatus(snap[c][cur[c]], "waiting"))

\* ShouldMerge fails with an error it does not take for transient.
CheckFails(c) ==
  /\ pc[c] = "checking" /\ "error" \in Faults
  /\ UNCHANGED <<rec, remote>>
  /\ WriteBack(c, Failed(snap[c][cur[c]]))

\* ShouldMerge says yes; merge reads the record again but looks only at its key.
ApproveMerge(c) ==
  /\ pc[c] = "checking" /\ ~copy[c].draft
  /\ pc' = [pc EXCEPT ![c] = "merging"]
  /\ copy' = [copy EXCEPT ![c] = rec[cur[c]]]
  /\ UNCHANGED <<storeVars, lock, todo, dying, snap, cur, unsettled, userVars, budget>>

\* client.MergePR succeeds.  The platform merges an open PR only.
MergeSucceeds(c) ==
  /\ pc[c] = "merging" /\ remote[cur[c]] = "open"
  /\ remote' = [remote EXCEPT ![cur[c]] = "merged"]
  /\ pc' = [pc EXCEPT ![c] = "saving"]
  /\ UNCHANGED <<items, rec, lock, todo, dying, snap, cur, copy, unsettled, userVars, budget>>

\* The rebase or MergePR fails, or MergePR merges and its answer is lost.
MergeFails(c) ==
  /\ pc[c] = "merging"
  /\ \/ /\ "mergefails" \in Faults \/ remote[cur[c]] # "open"
        /\ remote' = remote
     \/ /\ "lostreply" \in Faults /\ remote[cur[c]] = "open"
        /\ remote' = [remote EXCEPT ![cur[c]] = "merged"]
  /\ WriteBack(c, Failed(snap[c][cur[c]]))
  /\ rec' = rec

\* The record as merge read it, with the state GetPR reports, is saved.
SaveMerged(c) ==
  /\ pc[c] = "saving"
  /\ \E s \in Reported("merged") : rec' = [rec EXCEPT ![cur[c]] = InState(copy[c], s)]
  /\ pc' = [pc EXCEPT ![c] = "deleting"]
  /\ copy' = [copy EXCEPT ![c] = NoRec]
  /\ UNCHANGED <<items, remote, lock, todo, dying, snap, cur, unsettled, userVars, budget>>

\* A failed save makes merge fail although the platform has merged.
SaveFails(c) ==
  /\ pc[c] = "saving" /\ "savefails" \in Faults
  /\ UNCHANGED <<rec, remote>>
  /\ WriteBack(c, Failed(snap[c][cur[c]]))

ForgetDelete(c) ==
  /\ pc[c] = "deleting"
  /\ NextItem(c)
  /\ UNCHANGED <<storeVars, unsettled, budget>>
DeleteMerged(c) ==
  /\ pc[c] = "deleting"
  /\ UNCHANGED <<rec, remote>>
  /\ WriteBack(c, Absent)

FinishKeepingLock(c) ==
  /\ pc[c] = "loop" /\ todo[c] = {} /\ dying[c] = {}
  /\ pc' = [pc EXCEPT ![c] = "idle"]
  /\ UNCHANGED <<storeVars, lock, todo, dying, snap, cur, copy, unsettled, userVars, budget>>
Finish(c) ==
  /\ pc[c] = "loop" /\ todo[c] = {} /\ dying[c] = {}
  /\ pc' = [pc EXCEPT ![c] = "idle"]
  /\ lock' = [lock EXCEPT ![MgrOf[c]] = NoCaller]
  /\ UNCHANGED <<storeVars, todo, dying, snap, cur, copy, unsettled, userVars, budget>>

RunStep(c) ==
  \/ Scan(c) \/ KeepWaiting(c) \/ CheckFails(c) \/ ApproveMerge(c)
  \/ MergeSucceeds(c) \/ MergeFails(c) \/ SaveMerged(c) \/ SaveFails(c)
  \/ DeleteMerged(c) \/ Finish(c)
  \/ \E p \in PRs : DeadLetter(c, p) \/ Begin(c, p)

-----------------------------------------------------------------------------
\* Time

\* NextRetryAt passes, for the stored item and for every copy of it.
BackoffElapses(p) ==
  /\ items[p].backoff \/ editor[p].backoff
  /\ items' = [items EXCEPT ![p] = BackoffOver(items[p])]
  /\ editor' = [editor EXCEPT ![p] = BackoffOver(editor[p])]
  /\ UNCHANGED <<rec, remote, runVars, adder, adding, clearing, stage, held, polled, budget>>

ScheduleArrives(p) ==
  /\ items[p].sched \/ editor[p].sched
  /\ items' = [items EXCEPT ![p] = ScheduleDue(items[p])]
  /\ editor' = [editor EXCEPT ![p] = ScheduleDue(editor[p])]
  /\ UNCHANGED <<rec, remote, runVars, adder, adding, clearing, stage, held, polled, budget>>

-----------------------------------------------------------------------------
\* Writers of the bucket other than CheckQueue

Allowed(op) == op \in Ops /\ budget > 0 /\ budget' = budget - 1

\* An event or a request carries a PR to AddToQueue: as the database has it,
\* or as the platform reported it.  "add" asks once per PR and only for a
\* PR that is open and not queued, "readd" at any time.
RequestMerge(p) ==
  /\ adder[p] = NoRec
  /\ \/ /\ Allowed("add")
        /\ rec[p].state = "open" /\ remote[p] = "open"
        /\ ~Present(items[p]) /\ p \notin adding
        /\ \A c \in Callers : cur[c] # p /\ p \notin todo[c]
     \/ Allowed("readd")
  /\ \E view \in {rec[p], Listed(remote[p])} : adder' = [adder EXCEPT ![p] = view]
  /\ UNCHANGED <<storeVars, runVars, adding, editor, clearing, stage, held, polled>>

Queueable(p) == ~Present(items[p]) /\ ~adder[p].draft /\ adder[p].state = "open"

\* AddToQueueScheduled looks for an item and judges the copy of the PR it was
\* given, not the record of now.
AddToQueue(p) ==
  /\ adder[p] # NoRec /\ p \notin adding
  /\ adder' = [adder EXCEPT ![p] = NoRec]
  /\ adding' = IF Queueable(p) THEN adding \cup {p} ELSE adding
  /\ UNCHANGED <<storeVars, runVars, editor, clearing, stage, held, polled, budget>>

\* It then writes its new item, whatever the bucket holds by now.
AddWrite(p) ==
  /\ p \in adding
  /\ adding' = adding \ {p}
  /\ Store(p, Fresh(FALSE)) \/ ("schedule" \in Ops /\ Store(p, Fresh(TRUE)))
  /\ UNCHANGED <<rec, remote, runVars, adder, editor, clearing, stage, held, polled>>

Quiet == \A c \in Callers : pc[c] = "idle"

\* RemoveFromQueue; "withdraw" is the same call made while no run is in flight.  One
\* whose Delete fails is reported and does nothing.
RemoveFromQueue(p) ==
  /\ Present(items[p])
  /\ Allowed("remove") \/ (Allowed("withdraw") /\ Quiet)
  /\ items' = [items EXCEPT ![p] = Absent]
  /\ UNCHANGED <<rec, remote, runVars, userVars>>

\* ClearQueue collects the keys of the group, then deletes them one at a time.
ClearQueue ==
  /\ Allowed("clear") /\ clearing = {}
  /\ clearing' = {p \in PRs : Present(items[p])}
  /\ UNCHANGED <<storeVars, runVars, adder, adding, editor, stage, held, polled>>
ClearOne(p) ==
  /\ p \in clearing
  /\ clearing' = clearing \ {p}
  /\ Store(p, Absent)
  /\ UNCHANGED <<rec, remote, runVars, adder, adding, editor, stage, held, polled>>

\* SetQueuePriority reads the item, then writes the whole item back.
PriorityRead(p) ==
  /\ Allowed("priority") /\ Present(items[p]) /\ ~Present(editor[p])
  /\ editor' = [editor EXCEPT ![p] = items[p]]
  /\ UNCHANGED <<storeVars, runVars, adder, adding, clearing, stage, held, polled>>
PriorityWrite(p) ==
  /\ Present(editor[p])
  /\ \E n \in 0..MaxPriority : Store(p, WithPrio(editor[p], n))
  /\ editor' = [editor EXCEPT ![p] = Absent]
  /\ UNCHANGED <<rec, remote, runVars, adder, adding, clearing, stage, held, polled>>

-----------------------------------------------------------------------------
\* Handlers that change the PR record and then the queue

\* A handler starts by reading the record.
ReadRecord(p) ==
  /\ stage[p] = "none"
  /\ \/ Allowed("draft") /\ ~rec[p].draft /\ stage' = [stage EXCEPT ![p] = "draft"]
     \/ Allowed("draft") /\ rec[p].draft  /\ stage' = [stage EXCEPT ![p] = "undraft"]
     \/ Allowed("close") /\ stage' = [stage EXCEPT ![p] = "close"]
     \/ Allowed("spam")  /\ stage' = [stage EXCEPT ![p] = "spam"]
     \/ Allowed("approve") /\ stage' = [stage EXCEPT ![p] = "approve"]
  /\ held' = [held EXCEPT ![p] = rec[p]]
  /\ UNCHANGED <<storeVars, runVars, adder, adding, editor, clearing, polled>>

\* ApprovePR approves it, then copies what GetPR reports, if it answers.
FetchApproved(p) ==
  /\ stage[p] = "approve"
  /\ stage' = [stage EXCEPT ![p] = "approve_save"]
  /\ \/ held' = held
     \/ \E s \in Reported(remote[p]) : held' = [held EXCEPT ![p] = Listed(s)]
  /\ UNCHANGED <<storeVars, runVars, adder, adding, editor, clearing, polled, budget>>

\* ClosePR and MarkSpam close the PR on the platform.
\* ClosePR then saves and dequeues, MarkSpam dequeues and then saves.
CloseOnPlatform(p) ==
  /\ stage[p] \in {"close", "spam"} /\ remote[p] \in {"open", "closed"}
  /\ remote' = [remote EXCEPT ![p] = "closed"]
  /\ stage' = [stage EXCEPT ![p] = IF stage[p] = "close" THEN "save" ELSE "spam_dequeue"]
  /\ UNCHANGED <<items, rec, runVars, adder, adding, editor, clearing, held, polled, budget>>

\* The handlers stop when the platform refuses.
Refused(p) ==
  /\ stage[p] \in {"approve", "close", "spam"}
  /\ stage' = [stage EXCEPT ![p] = "none"]
  /\ held' = [held EXCEPT ![p] = NoRec]
  /\ UNCHANGED <<storeVars, runVars, adder, adding, editor, clearing, polled, budget>>

\* What the handler at stage s makes of the record it holds.
Edited(s, r) == CASE s = "draft"        -> AsDraft(r, TRUE)
                  [] s = "undraft"      -> AsDraft(r, FALSE)
                  [] s = "save"         -> InState(r, "closed")
                  [] s = "spam_save"    -> InState(r, "spam")
                  [] s = "approve_save" -> r

HandsOver(p) == /\ adder[p] = NoRec
                /\ adder' = [adder EXCEPT ![p] = Edited(stage[p], held[p])]

\* The whole record is written as it was read, edited.  ApprovePR, and MarkReady if so
\* configured, hand their copy to AddToQueue; MarkDraft and ClosePR go on to dequeue,
\* MarkSpam has done so.  ApprovePR and ClosePR go on when the write fails.
SaveRecord(p) ==
  /\ stage[p] \in {"draft", "undraft", "save", "spam_save", "approve_save"}
  /\ \/ /\ rec' = [rec EXCEPT ![p] = Edited(stage[p], held[p])]
        /\ stage' = [stage EXCEPT ![p] =
                       IF stage[p] \in {"draft", "save"} THEN "dequeue" ELSE "none"]
        /\ \/ stage[p] # "approve_save" /\ adder' = adder
           \/ stage[p] \in {"undraft", "approve_save"} /\ HandsOver(p)
     \/ /\ "savefails" \in Faults /\ rec' = rec
        /\ stage' = [stage EXCEPT ![p] = IF stage[p] = "save" THEN "dequeue" ELSE "none"]
        /\ IF stage[p] = "approve_save" THEN HandsOver(p) ELSE adder' = adder
  /\ held' = [held EXCEPT ![p] = NoRec]
  /\ UNCHANGED <<items, remote, runVars, adding, editor, clearing, polled, budget>>

\* RemoveFromQueue from a handler, which ignores that there is no item and only logs an
\* error.
Dequeue(p) ==
  /\ stage[p] \in {"dequeue", "spam_dequeue"}
  /\ Store(p, Absent)
  /\ stage' = [stage EXCEPT ![p] = IF stage[p] = "dequeue" THEN "none" ELSE "spam_save"]
  /\ UNCHANGED <<rec, remote, runVars, adder, adding, editor, clearing, held, polled>>

-----------------------------------------------------------------------------
\* The platform, the poller, crashes

\* Somebody merges, or reopens, the PR on the platform.
ChangedOnPlatform(p) ==
  /\ \/ Allowed("merge")  /\ remote[p] = "open"   /\ remote' = [remote EXCEPT ![p] = "merged"]
     \/ Allowed("reopen") /\ remote[p] = "closed" /\ remote' = [remote EXCEPT ![p] = "open"]
  /\ UNCHANGED <<items, rec, runVars, userVars>>

\* pollPlatform lists the PRs and compares them with the records, then writes those
\* that differ; one that does not differ is a poll that does nothing here.
PollList(p) ==
  /\ Allowed("poll") /\ polled[p] = "none"
  /\ polled' = [polled EXCEPT ![p] = remote[p]]
  /\ UNCHANGED <<storeVars, runVars, adder, adding, editor, clearing, stage, held>>
PollWrite(p) ==
  /\ polled[p] # "none"
  /\ polled' = [polled EXCEPT ![p] = "none"]
  /\ rec' = [rec EXCEPT ![p] = Listed(polled[p])]
  /\ UNCHANGED <<items, remote, runVars, adder, adding, editor, clearing, stage, held, budget>>

InFlight(i) == i.status \in {"merging", "checking"}

\* Recover, run once by StartWorkers.
Recovered(p) ==
  IF ~InFlight(items[p]) THEN items[p]
  ELSE IF rec[p].state = "merged" THEN Absent
  ELSE WithStatus(items[p], "waiting")

\* The state of goroutines and handlers in a process that has just started.
NoRun  == [lock |-> [m \in Managers |-> NoCaller], pc |-> [c \in Callers |-> "idle"],
           sets |-> [c \in Callers |-> {}],
           snap |-> [c \in Callers |-> [p \in PRs |-> Absent]],
           cur  |-> [c \in Callers |-> NoPR], copy |-> [c \in Callers |-> NoRec]]
NoUser == [recs |-> [p \in PRs |-> NoRec], editor |-> [p \in PRs |-> Absent],
           none |-> [p \in PRs |-> "none"]]

\* The daemon dies at any point and starts again: only the stores survive.
Restart ==
  /\ Allowed("restart")
  /\ lock' = NoRun.lock /\ pc' = NoRun.pc /\ todo' = NoRun.sets /\ dying' = NoRun.sets
  /\ snap' = NoRun.snap /\ cur' = NoRun.cur /\ copy' = NoRun.copy
  /\ adder' = NoUser.recs /\ adding' = {} /\ editor' = NoUser.editor /\ clearing' = {}
  /\ stage' = NoUser.none /\ held' = NoUser.recs /\ polled' = NoUser.none
  /\ items' = [p \in PRs |-> Recovered(p)]
  /\ UNCHANGED <<rec, remote, unsettled>>

-----------------------------------------------------------------------------
Init == /\ items = [p \in PRs |-> Absent]
        /\ rec = [p \in PRs |-> Listed("open")]
        /\ remote = [p \in PRs |-> "open"]
        /\ lock = NoRun.lock /\ pc = NoRun.pc /\ todo = NoRun.sets /\ dying = NoRun.sets
        /\ snap = NoRun.snap /\ cur = NoRun.cur /\ copy = NoRun.copy /\ unsettled = {}
        /\ adder = NoUser.recs /\ adding = {} /\ editor = NoUser.editor /\ clearing = {}
        /\ stage = NoUser.none /\ held = NoUser.recs /\ polled = NoUser.none
        /\ budget = Budget

UserStep(p) ==
  \/ RequestMerge(p) \/ AddToQueue(p) \/ AddWrite(p) \/ RemoveFromQueue(p)
  \/ ClearOne(p) \/ PriorityRead(p) \/ PriorityWrite(p)
  \/ ReadRecord(p) \/ FetchApproved(p) \/ CloseOnPlatform(p) \/ Refused(p)
  \/ SaveRecord(p) \/ Dequeue(p)
  \/ ChangedOnPlatform(p) \/ PollList(p) \/ PollWrite(p)

TimeStep(p) == BackoffElapses(p) \/ ScheduleArrives(p)

Next == \/ \E c \in Callers : TryLock(c) \/ RunStep(c)
        \/ \E p \in PRs : UserStep(p) \/ TimeStep(p)
        \/ ClearQueue
        \/ Restart

Spec == Init /\ [][Next]_vars

\* Tickers keep calling CheckQueue, a run in flight goes on (every platform call
\* has a timeout), time passes, and a request handler finishes.
Fairness == /\ \A c \in Tickers : WF_vars(TryLock(c))
            /\ \A c \in Callers : WF_vars(RunStep(c))
            /\ \A p \in PRs : /\ WF_vars(BackoffElapses(p)) /\ WF_vars(ScheduleArrives(p))
                              /\ WF_vars(AddToQueue(p)) /\ WF_vars(AddWrite(p))
                              /\ WF_vars(PriorityWrite(p)) /\ WF_vars(Dequeue(p))
                              /\ WF_vars(SaveRecord(p))

FairSpec == Spec /\ Fairness
-----------------------------------------------------------------------------
\* Properties

PCs == {"idle", "scan", "loop", "checking", "merging", "saving", "deleting"}
Stages == {"none", "draft", "undraft", "approve", "approve_save", "close", "spam", "save",
           "dequeue", "spam_dequeue", "spam_save"}

\* The state has the shape the database buckets and the goroutines' locals have.
TypeOK ==
  /\ items \in [PRs -> Item] /\ rec \in [PRs -> Rec] /\ remote \in [PRs -> States]
  /\ lock \in [Managers -> Callers \cup {NoCaller}]
  /\ pc \in [Callers -> PCs]
  /\ todo \in [Callers -> SUBSET PRs] /\ dying \in [Callers -> SUBSET PRs]
  /\ snap \in [Callers -> [PRs -> Item]]
  /\ cur \in [Callers -> PRs \cup {NoPR}] /\ copy \in [Callers -> Rec]
  /\ unsettled \subseteq PRs
  /\ adder \in [PRs -> Rec] /\ adding \subseteq PRs /\ editor \in [PRs -> Item] /\ clearing \subseteq PRs
  /\ stage \in [PRs -> Stages] /\ held \in [PRs -> Rec] /\ polled \in [PRs -> States]
  /\ budget \in Nat

\* Two goroutines are never both inside CheckQueue of one Manager: TryLock turns
\* the second away, and no path out of a run leaves checkMu held or free it twice.
OneRunPerManager ==
  \A c, d \in Callers :
    pc[c] # "idle" /\ pc[d] # "idle" /\ MgrOf[c] = MgrOf[d] => c = d

\* However runs, stale write-backs, priority edits and restarts interleave, no item
\* counts more than maxRetryCount failures, one that has used them all is only ever
\* failed or dead-letter, and nothing is given up before.
RetryDiscipline ==
  \A p \in PRs :
    /\ items[p].retry <= MaxRetryCount
    /\ items[p].retry = MaxRetryCount => items[p].status \in {"failed", "dead-letter"}
    /\ items[p].status = "dead-letter" => items[p].retry = MaxRetryCount

\* One Manager and orderly requests: MergePR is called for a PR that is merged only by
\* an item that has counted a failure, the merge whose answer or record was lost, or
\* whose own deletion or write back failed after that merge.  Nothing else, no overlap
\* of runs and no late AddToQueue, leads there.
NoSecondMergeCall ==
  \A c \in Callers : pc[c] = "merging" /\ remote[cur[c]] = "merged" =>
    snap[c][cur[c]].retry > 0 \/ cur[c] \in unsettled

\* The Manager's items, seen as one request per PR, behave as QueueLifecycle says:
\* they fail at most maxRetryCount times, come back from nowhere never, and end
\* merged, given up or withdrawn.
Life == INSTANCE QueueLifecycle WITH
  phase <- [p \in PRs |-> IF remote[p] = "merged" THEN "merged" ELSE items[p].status],
  tries <- [p \in PRs |-> IF remote[p] = "merged" THEN 0 ELSE items[p].retry]
ImplementsLifecycle == Life!Spec

\* When readiness checks answer merge or error, every queued item is in the end gone
\* or given up, with two Managers at work: locks are released, backoffs end, failures
\* are counted although each Manager may write the other's count over.
Drains ==
  \A p \in PRs : Present(items[p]) ~> items[p].status \in {"absent", "dead-letter"}
=============================================================================
