-------------------------- MODULE MergeQueueProofs --------------------------
(***************************************************************************)
(* Proofs about MergeQueue, for every set of PRs, Managers and goroutines, *)
(* every bound and every choice of operations and failures.                *)
(***************************************************************************)
EXTENDS MergeQueue, TLAPS

USE ConstantsAssumption

-----------------------------------------------------------------------------
\* Items and records keep their shape

LEMMA AbsentItem == Absent \in Item
BY DEF Absent, Item, Statuses

LEMMA FreshItem == \A s \in BOOLEAN : Fresh(s) \in Item
BY DEF Fresh, Absent, Item, Statuses

LEMMA UpdatedItem ==
  ASSUME NEW i \in Item
  PROVE  /\ \A s \in Statuses : WithStatus(i, s) \in Item
         /\ \A n \in 0..MaxPriority : WithPrio(i, n) \in Item
         /\ BackoffOver(i) \in Item
         /\ ScheduleDue(i) \in Item
         /\ Failed(i) \in Item
<1>1. \A s \in Statuses : WithStatus(i, s) \in Item BY DEF Item, WithStatus
<1>2. \A n \in 0..MaxPriority : WithPrio(i, n) \in Item BY DEF Item, WithPrio
<1>3. BackoffOver(i) \in Item BY DEF Item, BackoffOver
<1>4. ScheduleDue(i) \in Item BY DEF Item, ScheduleDue
<1>5. Failed(i) \in Item BY DEF Item, Failed, Statuses
<1> QED BY <1>1, <1>2, <1>3, <1>4, <1>5

LEMMA RecType ==
  /\ NoRec \in Rec
  /\ \A s \in States : Listed(s) \in Rec
  /\ \A r \in Rec, s \in States : InState(r, s) \in Rec
  /\ \A r \in Rec, d \in BOOLEAN : AsDraft(r, d) \in Rec
BY DEF NoRec, Rec, States, Listed, InState, AsDraft

-----------------------------------------------------------------------------
\* Type correctness

LEMMA TypeInit == Init => TypeOK
BY AbsentItem, RecType DEF Init, TypeOK, NoRun, NoUser, PCs, Stages, States

LEMMA TypeTryLock == ASSUME TypeOK, NEW c \in Callers, TryLock(c) PROVE TypeOK'
BY DEF TypeOK, TryLock, storeVars, userVars, PCs

LEMMA TypeScan == ASSUME TypeOK, NEW c \in Callers, Scan(c) PROVE TypeOK'
BY AbsentItem DEF TypeOK, Scan, storeVars, userVars, PCs

\* A write of the bucket that succeeds, and one that fails
LEMMA StoreType ==
  ASSUME TypeOK, NEW p \in PRs, NEW i \in Item, Store(p, i)
  PROVE  items' \in [PRs -> Item] /\ budget' \in Nat
BY DEF TypeOK, Store, StoreFails

LEMMA TypeDeadLetter ==
  ASSUME TypeOK, NEW c \in Callers, NEW p \in PRs, DeadLetter(c, p) PROVE TypeOK'
<1>1. snap[c][p] \in Item BY DEF TypeOK
<1>2. WithStatus(snap[c][p], "dead-letter") \in Item BY <1>1, UpdatedItem DEF Statuses
<1>3. items' \in [PRs -> Item] /\ budget' \in Nat BY <1>2, StoreType DEF DeadLetter
<1> QED BY <1>3, AbsentItem DEF TypeOK, DeadLetter, userVars

LEMMA TypeBegin ==
  ASSUME TypeOK, NEW c \in Callers, NEW p \in PRs, Begin(c, p) PROVE TypeOK'
BY DEF TypeOK, Begin, storeVars, userVars, PCs

LEMMA TypeNextItem ==
  ASSUME TypeOK, NEW c \in Callers, NextItem(c),
         items' \in [PRs -> Item], rec' \in [PRs -> Rec], remote' \in [PRs -> States],
         budget' \in Nat, unsettled' \subseteq PRs
  PROVE  TypeOK'
BY AbsentItem, RecType DEF TypeOK, NextItem, userVars, PCs

LEMMA TypeWriteBack ==
  ASSUME TypeOK, NEW c \in Callers, cur[c] \in PRs, NEW i \in Item, WriteBack(c, i),
         rec' \in [PRs -> Rec], remote' \in [PRs -> States]
  PROVE  TypeOK'
<1>1. items' \in [PRs -> Item] BY DEF TypeOK, WriteBack, StoreFails
<1>2. budget' \in Nat /\ unsettled' \subseteq PRs BY DEF TypeOK, WriteBack, StoreFails
<1> QED BY <1>1, <1>2, TypeNextItem DEF WriteBack

\* A goroutine past Begin works on a PR.
Working(c) == pc[c] \in {"checking", "merging", "saving", "deleting"}
CurInv == \A c \in Callers : Working(c) => cur[c] \in PRs

LEMMA TypeRunStep ==
  ASSUME TypeOK, CurInv, NEW c \in Callers, RunStep(c) PROVE TypeOK'
<1>0. Working(c) => /\ cur[c] \in PRs
                    /\ snap[c][cur[c]] \in Item
                    /\ WithStatus(snap[c][cur[c]], "waiting") \in Item
                    /\ Failed(snap[c][cur[c]]) \in Item
  <2> SUFFICES ASSUME Working(c)
               PROVE  /\ cur[c] \in PRs
                      /\ snap[c][cur[c]] \in Item
                      /\ WithStatus(snap[c][cur[c]], "waiting") \in Item
                      /\ Failed(snap[c][cur[c]]) \in Item
    OBVIOUS
  <2>1. cur[c] \in PRs BY DEF CurInv
  <2>2. snap[c][cur[c]] \in Item BY <2>1 DEF TypeOK
  <2> QED BY <2>1, <2>2, UpdatedItem DEF Statuses
<1>1. CASE Scan(c) BY <1>1, TypeScan
<1>2. CASE KeepWaiting(c)
  BY <1>0, <1>2, TypeWriteBack DEF KeepWaiting, Working, TypeOK
<1>3. CASE CheckFails(c)
  BY <1>0, <1>3, TypeWriteBack DEF CheckFails, Working, TypeOK
<1>4. CASE ApproveMerge(c)
  <2>1. rec[cur[c]] \in Rec BY <1>4 DEF ApproveMerge, Working, CurInv, TypeOK
  <2> QED BY <1>4, <2>1 DEF ApproveMerge, TypeOK, storeVars, userVars, PCs
<1>5. CASE MergeSucceeds(c)
  BY <1>5 DEF MergeSucceeds, TypeOK, userVars, PCs, States
<1>6. CASE MergeFails(c)
  <2>1. remote' \in [PRs -> States] BY <1>6 DEF MergeFails, TypeOK, States
  <2> QED BY <1>0, <1>6, <2>1, TypeWriteBack DEF MergeFails, Working, TypeOK
<1>7. CASE SaveMerged(c)
  <2>1. \A s \in Reported("merged") : InState(copy[c], s) \in Rec
    BY RecType DEF Reported, TypeOK, States
  <2>2. PICK s \in Reported("merged") : rec' = [rec EXCEPT ![cur[c]] = InState(copy[c], s)]
    BY <1>7 DEF SaveMerged
  <2>3. rec' \in [PRs -> Rec] BY <2>1, <2>2 DEF TypeOK
  <2> QED BY <1>7, <2>3, RecType DEF SaveMerged, TypeOK, userVars, PCs
<1>8. CASE SaveFails(c)
  BY <1>0, <1>8, TypeWriteBack DEF SaveFails, Working, TypeOK
<1>9. CASE DeleteMerged(c)
  BY <1>0, <1>9, AbsentItem, TypeWriteBack DEF DeleteMerged, Working, TypeOK
<1>10. CASE Finish(c)
  BY <1>10 DEF Finish, TypeOK, storeVars, userVars, PCs
<1>11. ASSUME NEW p \in PRs, DeadLetter(c, p) PROVE TypeOK'
  BY <1>11, TypeDeadLetter
<1>12. ASSUME NEW p \in PRs, Begin(c, p) PROVE TypeOK'
  BY <1>12, TypeBegin
<1> QED BY <1>1, <1>2, <1>3, <1>4, <1>5, <1>6, <1>7, <1>8, <1>9, <1>10, <1>11, <1>12
        DEF RunStep

LEMMA BudgetType == ASSUME TypeOK, NEW op, Allowed(op) PROVE budget' \in Nat
BY DEF TypeOK, Allowed

\* AddToQueue and the handlers that only look after the bucket.
LEMMA TypeQueueEdit ==
  ASSUME TypeOK, NEW p \in PRs,
         \/ RequestMerge(p) \/ AddToQueue(p) \/ AddWrite(p) \/ RemoveFromQueue(p)
         \/ ClearOne(p) \/ PriorityRead(p) \/ PriorityWrite(p)
  PROVE  TypeOK'
<1>1. CASE RequestMerge(p)
  <2>1. rec[p] \in Rec /\ Listed(remote[p]) \in Rec BY RecType DEF TypeOK
  <2>2. budget' \in Nat BY <1>1, BudgetType DEF RequestMerge
  <2> QED BY <1>1, <2>1, <2>2 DEF RequestMerge, TypeOK, storeVars, runVars
<1>2. CASE AddToQueue(p)
  BY <1>2, RecType DEF AddToQueue, TypeOK, storeVars, runVars
<1>3. CASE AddWrite(p)
  <2>1. Fresh(FALSE) \in Item /\ Fresh(TRUE) \in Item BY FreshItem
  <2>2. items' \in [PRs -> Item] /\ budget' \in Nat BY <1>3, <2>1, StoreType DEF AddWrite
  <2> QED BY <1>3, <2>2 DEF AddWrite, TypeOK, runVars
<1>4. CASE RemoveFromQueue(p)
  <2>1. budget' \in Nat BY <1>4, BudgetType DEF RemoveFromQueue
  <2> QED BY <1>4, <2>1, AbsentItem DEF RemoveFromQueue, TypeOK, runVars, userVars
<1>5. CASE ClearOne(p)
  <2>1. items' \in [PRs -> Item] /\ budget' \in Nat BY <1>5, AbsentItem, StoreType DEF ClearOne
  <2> QED BY <1>5, <2>1 DEF ClearOne, TypeOK, runVars
<1>6. CASE PriorityRead(p)
  <2>1. budget' \in Nat BY <1>6, BudgetType DEF PriorityRead
  <2> QED BY <1>6, <2>1 DEF PriorityRead, TypeOK, storeVars, runVars
<1>7. CASE PriorityWrite(p)
  <2>1. \A n \in 0..MaxPriority : WithPrio(editor[p], n) \in Item
    BY UpdatedItem DEF TypeOK
  <2>2. items' \in [PRs -> Item] /\ budget' \in Nat BY <1>7, <2>1, StoreType DEF PriorityWrite
  <2> QED BY <1>7, <2>2, AbsentItem DEF PriorityWrite, TypeOK, runVars
<1> QED BY <1>1, <1>2, <1>3, <1>4, <1>5, <1>6, <1>7

\* The handlers that read, edit and save a PR record.
LEMMA TypeRecordEdit ==
  ASSUME TypeOK, NEW p \in PRs,
         \/ ReadRecord(p) \/ FetchApproved(p) \/ CloseOnPlatform(p) \/ Refused(p)
         \/ SaveRecord(p) \/ Dequeue(p)
  PROVE  TypeOK'
<1>1. CASE ReadRecord(p)
  <2>1. budget' \in Nat BY <1>1, BudgetType DEF ReadRecord
  <2>2. stage' \in [PRs -> Stages] BY <1>1, ZenonT(30) DEF ReadRecord, TypeOK, Stages
  <2>3. held' \in [PRs -> Rec] BY <1>1 DEF ReadRecord, TypeOK
  <2> QED BY <1>1, <2>1, <2>2, <2>3 DEF ReadRecord, TypeOK, storeVars, runVars
<1>2. CASE CloseOnPlatform(p)
  BY <1>2 DEF CloseOnPlatform, TypeOK, runVars, Stages, States
<1>3. CASE Refused(p)
  BY <1>3, RecType DEF Refused, TypeOK, storeVars, runVars, Stages
<1>4. CASE SaveRecord(p)
  <2>0. held[p] \in Rec BY DEF TypeOK
  <2>2. Edited(stage[p], held[p]) \in Rec
    BY <1>4, <2>0, RecType DEF SaveRecord, Edited, States
  <2>3. stage' \in [PRs -> Stages] BY <1>4 DEF SaveRecord, TypeOK, Stages
  <2>4. rec' \in [PRs -> Rec] BY <1>4, <2>2 DEF SaveRecord, TypeOK
  <2>5. adder' \in [PRs -> Rec] BY <1>4, <2>2, SMTT(30) DEF SaveRecord, HandsOver, TypeOK
  <2>6. held' \in [PRs -> Rec] BY <1>4, RecType DEF SaveRecord, TypeOK
  <2> QED BY <1>4, <2>3, <2>4, <2>5, <2>6 DEF SaveRecord, TypeOK, runVars
<1>5. CASE Dequeue(p)
  <2>1. items' \in [PRs -> Item] /\ budget' \in Nat BY <1>5, AbsentItem, StoreType DEF Dequeue
  <2> QED BY <1>5, <2>1 DEF Dequeue, TypeOK, runVars, Stages
<1>6. CASE FetchApproved(p)
  <2>1. \A s \in Reported(remote[p]) : Listed(s) \in Rec
    BY RecType DEF Reported, TypeOK, States
  <2>2. held' \in [PRs -> Rec]
    <3>1. CASE held' = held BY <3>1 DEF TypeOK
    <3>2. ASSUME NEW s \in Reported(remote[p]), held' = [held EXCEPT ![p] = Listed(s)]
          PROVE  held' \in [PRs -> Rec]
      BY <2>1, <3>2 DEF TypeOK
    <3> QED BY <1>6, <3>1, <3>2 DEF FetchApproved
  <2> QED BY <1>6, <2>2 DEF FetchApproved, TypeOK, storeVars, runVars, Stages
<1> QED BY <1>1, <1>2, <1>3, <1>4, <1>5, <1>6

LEMMA TypePlatform ==
  ASSUME TypeOK, NEW p \in PRs, ChangedOnPlatform(p) \/ PollList(p) \/ PollWrite(p)
  PROVE  TypeOK'
<1>1. CASE ChangedOnPlatform(p)
  <2>1. budget' \in Nat BY <1>1, BudgetType DEF ChangedOnPlatform
  <2>2. remote' \in [PRs -> States] BY <1>1 DEF ChangedOnPlatform, TypeOK, States
  <2> QED BY <1>1, <2>1, <2>2 DEF ChangedOnPlatform, TypeOK, runVars, userVars
<1>2. CASE PollList(p)
  <2>1. budget' \in Nat BY <1>2, BudgetType DEF PollList
  <2> QED BY <1>2, <2>1 DEF PollList, TypeOK, storeVars, runVars
<1>3. CASE PollWrite(p)
  <2>1. Listed(polled[p]) \in Rec BY RecType DEF TypeOK
  <2> QED BY <1>3, <2>1 DEF PollWrite, TypeOK, runVars, States
<1> QED BY <1>1, <1>2, <1>3

LEMMA TypeUserStep == ASSUME TypeOK, NEW p \in PRs, UserStep(p) PROVE TypeOK'
BY TypeQueueEdit, TypeRecordEdit, TypePlatform DEF UserStep

LEMMA TypeTimeStep == ASSUME TypeOK, NEW p \in PRs, TimeStep(p) PROVE TypeOK'
<1>0. /\ BackoffOver(items[p]) \in Item /\ BackoffOver(editor[p]) \in Item
      /\ ScheduleDue(items[p]) \in Item /\ ScheduleDue(editor[p]) \in Item
  BY UpdatedItem DEF TypeOK
<1>1. CASE BackoffElapses(p)
  <2>1. items \in [PRs -> Item] /\ editor \in [PRs -> Item] BY DEF TypeOK
  <2>2. items' \in [PRs -> Item] BY <1>0, <1>1, <2>1 DEF BackoffElapses
  <2>3. editor' \in [PRs -> Item] BY <1>0, <1>1, <2>1 DEF BackoffElapses
  <2> QED BY <1>1, <2>2, <2>3 DEF BackoffElapses, TypeOK, runVars
<1>2. CASE ScheduleArrives(p)
  <2>1. items \in [PRs -> Item] /\ editor \in [PRs -> Item] BY DEF TypeOK
  <2>2. items' \in [PRs -> Item] BY <1>0, <1>2, <2>1 DEF ScheduleArrives
  <2>3. editor' \in [PRs -> Item] BY <1>0, <1>2, <2>1 DEF ScheduleArrives
  <2> QED BY <1>2, <2>2, <2>3 DEF ScheduleArrives, TypeOK, runVars
<1> QED BY <1>1, <1>2 DEF TimeStep

LEMMA TypeClear == ASSUME TypeOK, ClearQueue PROVE TypeOK'
BY DEF TypeOK, ClearQueue, Allowed, storeVars, runVars

LEMMA TypeRestart == ASSUME TypeOK, Restart PROVE TypeOK'
<1>0. \A p \in PRs : Recovered(p) \in Item
  <2> TAKE p \in PRs
  <2>1. items[p] \in Item BY DEF TypeOK
  <2>2. WithStatus(items[p], "waiting") \in Item BY <2>1, UpdatedItem DEF Statuses
  <2> QED BY <2>1, <2>2, AbsentItem DEF Recovered
<1>1. items' \in [PRs -> Item] BY <1>0 DEF Restart
<1> QED BY <1>1, AbsentItem, RecType
        DEF TypeOK, Restart, Allowed, NoRun, NoUser, PCs, Stages, States

LEMMA TypeNext == TypeOK /\ CurInv /\ [Next]_vars => TypeOK'
<1> SUFFICES ASSUME TypeOK, CurInv, [Next]_vars PROVE TypeOK' OBVIOUS
<1>1. CASE UNCHANGED vars BY <1>1 DEF vars, storeVars, runVars, userVars, TypeOK
<1>2. ASSUME NEW c \in Callers, TryLock(c) \/ RunStep(c) PROVE TypeOK'
  BY <1>2, TypeTryLock, TypeRunStep
<1>3. ASSUME NEW p \in PRs, UserStep(p) \/ TimeStep(p) PROVE TypeOK'
  BY <1>3, TypeUserStep, TypeTimeStep
<1> QED BY <1>1, <1>2, <1>3, TypeClear, TypeRestart DEF Next

-----------------------------------------------------------------------------
\* Runs and their mutex

\* Users, the platform and time touch nothing a run of CheckQueue holds.
LEMMA RunsUntouched ==
  ASSUME NEW p \in PRs, UserStep(p) \/ TimeStep(p) \/ ClearQueue \/ UNCHANGED vars
  PROVE  UNCHANGED runVars
<1>1. CASE UNCHANGED vars BY <1>1 DEF vars
<1>2. CASE ClearQueue BY <1>2 DEF ClearQueue
<1>3. CASE TimeStep(p) BY <1>3 DEF TimeStep, BackoffElapses, ScheduleArrives
<1>4. CASE UserStep(p)
  BY <1>4 DEF UserStep, RequestMerge, AddToQueue, AddWrite, RemoveFromQueue, ClearOne,
     PriorityRead, PriorityWrite, ReadRecord, FetchApproved, CloseOnPlatform, Refused, SaveRecord,
     Dequeue, ChangedOnPlatform, PollList, PollWrite
<1> QED BY <1>1, <1>2, <1>3, <1>4

\* A goroutine in a run holds its Manager's mutex.
LockInv == \A c \in Callers : pc[c] # "idle" => lock[MgrOf[c]] = c

LEMMA LockStep == TypeOK /\ LockInv /\ [Next]_vars => LockInv'
<1> SUFFICES ASSUME TypeOK, LockInv, [Next]_vars PROVE LockInv' OBVIOUS
<1>1. CASE UNCHANGED <<pc, lock>> BY <1>1 DEF LockInv
<1>2. ASSUME NEW c \in Callers, TryLock(c) PROVE LockInv'
  BY <1>2 DEF TryLock, LockInv, TypeOK
<1>3. ASSUME NEW c \in Callers, Finish(c) PROVE LockInv'
  BY <1>3 DEF Finish, LockInv, TypeOK
<1>4. ASSUME NEW c \in Callers, RunStep(c), ~Finish(c) PROVE LockInv'
  <2>1. lock' = lock /\ \A d \in Callers : d # c => pc'[d] = pc[d]
    BY <1>4 DEF RunStep, Scan, KeepWaiting, CheckFails, ApproveMerge, MergeSucceeds,
       MergeFails, SaveMerged, SaveFails, DeleteMerged, DeadLetter, Begin, WriteBack,
       NextItem, TypeOK
  <2>2. pc[c] # "idle"
    BY <1>4 DEF RunStep, Scan, KeepWaiting, CheckFails, ApproveMerge, MergeSucceeds,
       MergeFails, SaveMerged, SaveFails, DeleteMerged, DeadLetter, Begin
  <2> QED BY <2>1, <2>2 DEF LockInv
<1>5. CASE Restart BY <1>5 DEF Restart, NoRun, LockInv
<1>6. ASSUME NEW p \in PRs, UserStep(p) \/ TimeStep(p) PROVE LockInv'
  BY <1>1, <1>6, RunsUntouched DEF runVars
<1>7. CASE ClearQueue BY <1>1, <1>7 DEF ClearQueue, runVars
<1>8. CASE UNCHANGED vars BY <1>1, <1>8 DEF vars, runVars
<1> QED BY <1>2, <1>3, <1>4, <1>5, <1>6, <1>7, <1>8 DEF Next

LEMMA CurStep == TypeOK /\ CurInv /\ [Next]_vars => CurInv'
<1> SUFFICES ASSUME TypeOK, CurInv, [Next]_vars PROVE CurInv' OBVIOUS
<1>1. CASE UNCHANGED <<pc, cur>> BY <1>1 DEF CurInv, Working
<1>2. ASSUME NEW c \in Callers, TryLock(c) \/ Scan(c) \/ Finish(c) PROVE CurInv'
  BY <1>2 DEF TryLock, Scan, Finish, CurInv, Working, TypeOK
<1>3. ASSUME NEW c \in Callers, NextItem(c) PROVE CurInv'
  BY <1>3 DEF NextItem, CurInv, Working, TypeOK
<1>4. ASSUME NEW c \in Callers, NEW p \in PRs, DeadLetter(c, p) PROVE CurInv'
  BY <1>1, <1>4 DEF DeadLetter
<1>5. ASSUME NEW c \in Callers, NEW p \in PRs, Begin(c, p) PROVE CurInv'
  BY <1>5 DEF Begin, CurInv, Working, TypeOK
<1>6. ASSUME NEW c \in Callers, ApproveMerge(c) \/ MergeSucceeds(c) \/ SaveMerged(c)
      PROVE CurInv'
  BY <1>6 DEF ApproveMerge, MergeSucceeds, SaveMerged, CurInv, Working, TypeOK
<1>7. ASSUME NEW c \in Callers, RunStep(c) PROVE CurInv'
  BY <1>2, <1>3, <1>4, <1>5, <1>6, <1>7
     DEF RunStep, KeepWaiting, CheckFails, MergeFails, SaveFails, DeleteMerged, WriteBack
<1>8. CASE Restart BY <1>8 DEF Restart, NoRun, CurInv, Working
<1>9. ASSUME NEW p \in PRs, UserStep(p) \/ TimeStep(p) PROVE CurInv'
  BY <1>1, <1>9, RunsUntouched DEF runVars
<1>10. CASE ClearQueue BY <1>1, <1>10 DEF ClearQueue, runVars
<1>11. CASE UNCHANGED vars BY <1>1, <1>11 DEF vars, runVars
<1> QED BY <1>2, <1>7, <1>8, <1>9, <1>10, <1>11 DEF Next

LEMMA ControlInit == Init => CurInv /\ LockInv
BY DEF Init, NoRun, CurInv, LockInv, Working

\* The type invariant holds of every behaviour; it needs that a goroutine past the
\* start of its loop body works on a PR.
THEOREM TypeCorrect == Spec => []TypeOK
<1>1. Init => TypeOK /\ CurInv BY TypeInit, ControlInit
<1>2. TypeOK /\ CurInv /\ [Next]_vars => (TypeOK /\ CurInv)' BY TypeNext, CurStep
<1> QED BY <1>1, <1>2, PTL DEF Spec

\* Whatever the goroutines, Managers and failures, at most one goroutine is inside
\* CheckQueue of one Manager.
THEOREM OneRunPerManagerHolds == Spec => []OneRunPerManager
<1>1. Init => LockInv BY ControlInit
<1>2. TypeOK /\ LockInv /\ [Next]_vars => LockInv' BY LockStep
<1>3. LockInv => OneRunPerManager BY DEF LockInv, OneRunPerManager
<1> QED BY <1>1, <1>2, <1>3, TypeCorrect, PTL DEF Spec

-----------------------------------------------------------------------------
\* Retries

Good(i) == /\ i.retry <= MaxRetryCount
           /\ i.retry = MaxRetryCount => i.status \in {"failed", "dead-letter"}
           /\ i.status = "dead-letter" => i.retry = MaxRetryCount

\* What the bucket, a pending priority edit and the copies of a run satisfy together.
StoredGood == \A p \in PRs : Good(items[p]) /\ Good(editor[p])
CopiesGood(c) ==
  /\ \A p \in todo[c] : snap[c][p].retry < MaxRetryCount
  /\ \A p \in dying[c] : snap[c][p].retry = MaxRetryCount
  /\ Working(c) => dying[c] = {} /\ snap[c][cur[c]].retry < MaxRetryCount
RetryInv == StoredGood /\ \A c \in Callers : CopiesGood(c)

LEMMA GoodItems ==
  ASSUME NEW i \in Item
  PROVE  /\ Good(Absent) /\ \A s \in BOOLEAN : Good(Fresh(s))
         /\ Good(i) => /\ Good(BackoffOver(i)) /\ Good(ScheduleDue(i))
                       /\ \A n \in 0..MaxPriority : Good(WithPrio(i, n))
         /\ i.retry < MaxRetryCount => Good(WithStatus(i, "waiting")) /\ Good(Failed(i))
         /\ i.retry = MaxRetryCount => Good(WithStatus(i, "dead-letter"))
<1>1. Good(Absent) /\ \A s \in BOOLEAN : Good(Fresh(s)) BY DEF Good, Absent, Fresh
<1>2. Good(i) => /\ Good(BackoffOver(i)) /\ Good(ScheduleDue(i))
                 /\ \A n \in 0..MaxPriority : Good(WithPrio(i, n))
  BY DEF Good, BackoffOver, ScheduleDue, WithPrio, Item
<1>3. i.retry < MaxRetryCount => Good(WithStatus(i, "waiting")) /\ Good(Failed(i))
  BY DEF Good, WithStatus, Failed, Item
<1>4. i.retry = MaxRetryCount => Good(WithStatus(i, "dead-letter"))
  BY DEF Good, WithStatus, Item
<1> QED BY <1>1, <1>2, <1>3, <1>4

LEMMA RetryInit == Init => RetryInv
<1> SUFFICES ASSUME Init PROVE RetryInv OBVIOUS
<1>1. Absent \in Item BY AbsentItem
<1>2. Good(Absent) BY <1>1, GoodItems
<1> QED BY <1>2 DEF Init, NoRun, NoUser, RetryInv, StoredGood, CopiesGood, Working

\* A write of a good item leaves good items, also when it fails.
LEMMA GoodStore ==
  ASSUME TypeOK, StoredGood, NEW p \in PRs, NEW i, Good(i), Store(p, i)
  PROVE  \A q \in PRs : Good(items'[q])
BY DEF TypeOK, StoredGood, Store, StoreFails

\* The items of users' and time's steps are good, and runs do not notice them.
LEMMA StoredByUsers ==
  ASSUME TypeOK, StoredGood, NEW p \in PRs, UserStep(p) \/ TimeStep(p)
  PROVE  StoredGood'
<1>0. items[p] \in Item /\ editor[p] \in Item BY DEF TypeOK
<1>1. Good(Absent) /\ Good(Fresh(TRUE)) /\ Good(Fresh(FALSE)) BY <1>0, GoodItems
<1>2. /\ Good(BackoffOver(items[p])) /\ Good(BackoffOver(editor[p]))
      /\ Good(ScheduleDue(items[p])) /\ Good(ScheduleDue(editor[p]))
      /\ \A n \in 0..MaxPriority : Good(WithPrio(editor[p], n))
  BY <1>0, GoodItems DEF StoredGood
<1>3. CASE UNCHANGED <<items, editor>> BY <1>3 DEF StoredGood
<1>4. CASE AddWrite(p)
  <2>1. \A q \in PRs : Good(items'[q]) BY <1>1, <1>4, GoodStore DEF AddWrite
  <2> QED BY <1>4, <2>1 DEF AddWrite, StoredGood
<1>5. CASE RemoveFromQueue(p)
  BY <1>1, <1>5 DEF RemoveFromQueue, userVars, StoredGood, TypeOK
<1>6. CASE ClearOne(p)
  <2>1. \A q \in PRs : Good(items'[q]) BY <1>1, <1>6, GoodStore DEF ClearOne
  <2> QED BY <1>6, <2>1 DEF ClearOne, StoredGood
<1>7. CASE PriorityRead(p)
  BY <1>7 DEF PriorityRead, storeVars, StoredGood, TypeOK
<1>8. CASE PriorityWrite(p)
  <2>1. PICK n \in 0..MaxPriority : Store(p, WithPrio(editor[p], n))
    BY <1>8 DEF PriorityWrite
  <2>2. \A q \in PRs : Good(items'[q]) BY <1>2, <2>1, GoodStore
  <2> QED BY <1>1, <1>8, <2>2 DEF PriorityWrite, StoredGood, TypeOK
<1>9. CASE Dequeue(p)
  <2>1. \A q \in PRs : Good(items'[q]) BY <1>1, <1>9, GoodStore DEF Dequeue
  <2> QED BY <1>9, <2>1 DEF Dequeue, StoredGood
<1>10. CASE BackoffElapses(p)
  BY <1>2, <1>10 DEF BackoffElapses, StoredGood, TypeOK
<1>11. CASE ScheduleArrives(p)
  BY <1>2, <1>11 DEF ScheduleArrives, StoredGood, TypeOK
<1> QED BY <1>3, <1>4, <1>5, <1>6, <1>7, <1>8, <1>9, <1>10, <1>11
  DEF UserStep, TimeStep, RequestMerge, AddToQueue, ReadRecord, FetchApproved, CloseOnPlatform,
      Refused, SaveRecord, ChangedOnPlatform, PollList, PollWrite, storeVars, userVars

LEMMA CopiesKept ==
  ASSUME \A c \in Callers : CopiesGood(c), UNCHANGED runVars
  PROVE  \A c \in Callers : CopiesGood(c)'
BY DEF CopiesGood, Working, runVars

\* The step of one goroutine leaves the copies of the others alone.
LEMMA CopiesOfOthers ==
  ASSUME TypeOK, NEW c \in Callers, TryLock(c) \/ RunStep(c), NEW d \in Callers,
         d # c, CopiesGood(d)
  PROVE  CopiesGood(d)'
<1>1. /\ pc'[d] = pc[d] /\ todo'[d] = todo[d] /\ dying'[d] = dying[d]
      /\ snap'[d] = snap[d] /\ cur'[d] = cur[d]
  BY DEF TryLock, RunStep, Scan, KeepWaiting, CheckFails, ApproveMerge, MergeSucceeds,
     MergeFails, SaveMerged, SaveFails, DeleteMerged, DeadLetter, Begin, Finish, WriteBack,
     NextItem, TypeOK
<1> QED BY <1>1 DEF CopiesGood, Working

LEMMA AbsentCounts == Absent.retry = 0 /\ Absent.retry < MaxRetryCount
BY DEF Absent

LEMMA CopiesNextItem ==
  ASSUME TypeOK, NEW c \in Callers, CopiesGood(c), Working(c), cur[c] \in PRs, NextItem(c)
  PROVE  CopiesGood(c)'
<1>1. dying'[c] = {} BY DEF NextItem, CopiesGood
<1>2. todo'[c] = todo[c] /\ todo[c] \subseteq PRs BY DEF NextItem, TypeOK
<1>3. snap'[c] = [snap[c] EXCEPT ![cur[c]] = Absent] BY DEF NextItem, TypeOK
<1>4. \A p \in todo[c] : snap'[c][p].retry < MaxRetryCount
  BY <1>2, <1>3, AbsentCounts DEF CopiesGood, TypeOK
<1>5. ~Working(c)' BY DEF NextItem, Working, TypeOK
<1> QED BY <1>1, <1>2, <1>4, <1>5 DEF CopiesGood

LEMMA GoodWriteBack ==
  ASSUME TypeOK, RetryInv, NEW c \in Callers, Working(c), cur[c] \in PRs, NEW i \in Item,
         Good(i), WriteBack(c, i)
  PROVE  StoredGood' /\ CopiesGood(c)'
<1>1. CopiesGood(c)' BY CopiesNextItem DEF WriteBack, RetryInv
<1>2. StoredGood'
  BY DEF WriteBack, StoreFails, NextItem, userVars, StoredGood, RetryInv, TypeOK
<1> QED BY <1>1, <1>2

LEMMA RetryRunStep ==
  ASSUME TypeOK, CurInv, RetryInv, NEW c \in Callers, RunStep(c)
  PROVE  StoredGood' /\ CopiesGood(c)'
<1>0. CopiesGood(c) /\ StoredGood BY DEF RetryInv
<1>1. CASE Scan(c)
  <2>1. StoredGood' BY <1>0, <1>1 DEF Scan, storeVars, userVars, StoredGood
  <2>2. \A p \in PRs : /\ Due(items[p]) => items[p].retry < MaxRetryCount
                       /\ Exhausted(items[p]) => items[p].retry = MaxRetryCount
    <3> TAKE p \in PRs
    <3>1. Good(items[p]) /\ items[p] \in Item BY <1>0 DEF StoredGood, TypeOK
    <3>2. items[p].retry \in Nat BY <3>1 DEF Item
    <3> QED BY <3>1, <3>2 DEF Good, Due, Exhausted
  <2>3. /\ todo'[c] = {p \in PRs : Due(items[p])}
        /\ dying'[c] = {p \in PRs : Exhausted(items[p])}
        /\ \A p \in todo'[c] \cup dying'[c] : snap'[c][p] = items[p]
    BY <1>1 DEF Scan, TypeOK
  <2>4. ~Working(c)' BY <1>1 DEF Scan, Working, TypeOK
  <2> QED BY <2>1, <2>2, <2>3, <2>4 DEF CopiesGood
<1>2. ASSUME Working(c)
      PROVE  /\ cur[c] \in PRs
             /\ WithStatus(snap[c][cur[c]], "waiting") \in Item
             /\ Failed(snap[c][cur[c]]) \in Item
             /\ Good(WithStatus(snap[c][cur[c]], "waiting"))
             /\ Good(Failed(snap[c][cur[c]]))
  <2>1. cur[c] \in PRs BY <1>2 DEF CurInv
  <2>2. snap[c][cur[c]] \in Item BY <2>1 DEF TypeOK
  <2>3. snap[c][cur[c]].retry < MaxRetryCount BY <1>0, <1>2 DEF CopiesGood
  <2> QED BY <2>1, <2>2, <2>3, UpdatedItem, GoodItems DEF Statuses
<1>3. CASE KeepWaiting(c)
  BY <1>2, <1>3, GoodWriteBack DEF KeepWaiting, Working
<1>4. CASE CheckFails(c)
  BY <1>2, <1>4, GoodWriteBack DEF CheckFails, Working
<1>5. CASE MergeFails(c)
  BY <1>2, <1>5, GoodWriteBack DEF MergeFails, Working
<1>6. CASE SaveFails(c)
  BY <1>2, <1>6, GoodWriteBack DEF SaveFails, Working
<1>7. CASE DeleteMerged(c)
  <2>1. Absent \in Item /\ Good(Absent) BY AbsentItem, GoodItems
  <2> QED BY <1>2, <1>7, <2>1, GoodWriteBack DEF DeleteMerged, Working
<1>8. CASE ApproveMerge(c) \/ MergeSucceeds(c) \/ SaveMerged(c)
  <2>1. Working(c) /\ UNCHANGED <<items, editor, todo, dying, snap, cur>>
    BY <1>8 DEF ApproveMerge, MergeSucceeds, SaveMerged, Working, storeVars, userVars
  <2> QED BY <1>0, <2>1 DEF CopiesGood, StoredGood
<1>9. CASE Finish(c)
  <2>1. UNCHANGED <<items, editor, todo, dying, snap>> /\ ~Working(c)'
    BY <1>9 DEF Finish, storeVars, userVars, Working, TypeOK
  <2> QED BY <1>0, <2>1 DEF CopiesGood, StoredGood
<1>10. ASSUME NEW p \in PRs, DeadLetter(c, p) PROVE StoredGood' /\ CopiesGood(c)'
  <2>1. snap[c][p] \in Item BY DEF TypeOK
  <2>2. Good(WithStatus(snap[c][p], "dead-letter"))
    BY <1>0, <1>10, <2>1, GoodItems DEF DeadLetter, CopiesGood
  <2>3. \A q \in PRs : Good(items'[q]) BY <1>0, <1>10, <2>2, GoodStore DEF DeadLetter
  <2>8. StoredGood' BY <1>0, <1>10, <2>3 DEF DeadLetter, userVars, StoredGood
  <2>4. /\ todo'[c] = todo[c] /\ todo[c] \subseteq PRs /\ dying[c] \subseteq PRs
        /\ dying'[c] = dying[c] \ {p}
        /\ snap'[c] = [snap[c] EXCEPT ![p] = Absent]
    BY <1>10 DEF DeadLetter, TypeOK
  <2>5. \A q \in todo'[c] : snap'[c][q].retry < MaxRetryCount
    BY <1>0, <2>4, AbsentCounts DEF CopiesGood, TypeOK
  <2>6. \A q \in dying'[c] : snap'[c][q].retry = MaxRetryCount
    BY <1>0, <2>4 DEF CopiesGood, TypeOK
  <2>7. ~Working(c)' BY <1>10 DEF DeadLetter, Working
  <2> QED BY <2>8, <2>5, <2>6, <2>7 DEF CopiesGood
<1>11. ASSUME NEW p \in PRs, Begin(c, p) PROVE StoredGood' /\ CopiesGood(c)'
  <2>1. /\ UNCHANGED <<items, editor, dying, snap>> /\ dying[c] = {}
        /\ todo'[c] \subseteq todo[c] /\ cur'[c] = p /\ p \in todo[c]
    BY <1>11 DEF Begin, storeVars, userVars, TypeOK
  <2> QED BY <1>0, <2>1 DEF CopiesGood, StoredGood
<1> QED BY <1>1, <1>3, <1>4, <1>5, <1>6, <1>7, <1>8, <1>9, <1>10, <1>11 DEF RunStep

LEMMA RetryRestart == TypeOK /\ RetryInv /\ Restart => RetryInv'
<1> SUFFICES ASSUME TypeOK, RetryInv, Restart PROVE RetryInv' OBVIOUS
<1>1. \A p \in PRs : Good(Recovered(p))
  <2> TAKE p \in PRs
  <2>1. items[p] \in Item /\ Good(items[p]) BY DEF TypeOK, RetryInv, StoredGood
  <2>2. InFlight(items[p]) => items[p].retry < MaxRetryCount
    BY <2>1 DEF InFlight, Good, Item
  <2> QED BY <2>1, <2>2, GoodItems DEF Recovered
<1>2. Good(Absent) BY AbsentItem, GoodItems
<1>3. StoredGood' BY <1>1, <1>2 DEF Restart, NoUser, StoredGood
<1>4. \A c \in Callers : CopiesGood(c)' BY DEF Restart, NoRun, CopiesGood, Working
<1> QED BY <1>3, <1>4 DEF RetryInv

LEMMA RetryStep == TypeOK /\ CurInv /\ RetryInv /\ [Next]_vars => RetryInv'
<1> SUFFICES ASSUME TypeOK, CurInv, RetryInv, [Next]_vars PROVE RetryInv' OBVIOUS
<1>0. StoredGood /\ \A c \in Callers : CopiesGood(c) BY DEF RetryInv
<1>1. ASSUME NEW c \in Callers, TryLock(c) \/ RunStep(c) PROVE RetryInv'
  <2>1. CASE RunStep(c)
    BY <1>0, <2>1, RetryRunStep, CopiesOfOthers DEF RetryInv
  <2>2. CASE TryLock(c)
    <3>1. UNCHANGED <<items, editor, todo, dying, snap>> /\ ~Working(c)'
      BY <2>2 DEF TryLock, storeVars, userVars, Working, TypeOK
    <3>2. StoredGood' /\ CopiesGood(c)' BY <1>0, <3>1 DEF StoredGood, CopiesGood
    <3> QED BY <1>0, <2>2, <3>2, CopiesOfOthers DEF RetryInv
  <2> QED BY <1>1, <2>1, <2>2
<1>2. ASSUME NEW p \in PRs, UserStep(p) \/ TimeStep(p) PROVE RetryInv'
  BY <1>0, <1>2, StoredByUsers, RunsUntouched, CopiesKept DEF RetryInv
<1>3. CASE ClearQueue \/ UNCHANGED vars
  <2>1. UNCHANGED <<items, editor>> /\ UNCHANGED runVars
    BY <1>3 DEF ClearQueue, storeVars, userVars, vars
  <2> QED BY <1>0, <2>1, CopiesKept DEF RetryInv, StoredGood
<1> QED BY <1>1, <1>2, <1>3, RetryRestart DEF Next

\* However runs of several Managers, late writes of stale copies, priority edits and
\* restarts interleave, retries are counted to the bound and no further.
THEOREM RetryDisciplineHolds == Spec => []RetryDiscipline
<1>1. Init => TypeOK /\ CurInv /\ RetryInv BY TypeInit, ControlInit, RetryInit
<1>2. TypeOK /\ CurInv /\ RetryInv /\ [Next]_vars => (TypeOK /\ CurInv /\ RetryInv)'
  BY TypeNext, CurStep, RetryStep
<1>3. RetryInv => RetryDiscipline BY DEF RetryInv, StoredGood, Good, RetryDiscipline
<1> QED BY <1>1, <1>2, <1>3, PTL DEF Spec
-----------------------------------------------------------------------------
\* Orderly requests

\* One Manager for every goroutine; a merge is asked for only when the PR is open and not queued, withdrawn only
\* between runs, and nothing else touches the bucket.  These are the hypotheses of the two theorems below.
Orderly == /\ Ops \subseteq {"add", "withdraw", "schedule", "poll"}
           /\ \A c, d \in Callers : MgrOf[c] = MgrOf[d]

Active(i) == i.status \in {"waiting", "failed"}
SameCount(i, j) == i.status = j.status /\ i.retry = j.retry

\* Nobody edits, clears or closes.
HandlersQuiet == /\ \A p \in PRs : editor[p] = Absent /\ stage[p] = "none"
                 /\ clearing = {}

\* What the bucket and the platform can hold then.
Orderliness ==
  \A p \in PRs : /\ items[p].status \in {"absent", "waiting", "failed", "dead-letter"}
                 /\ items[p].status = "absent" => items[p].retry = 0
                 /\ remote[p] \in {"open", "merged"}

\* A PR on its way into the queue is open, is not in it, and no run has to do with it.
Comes(p) == adder[p] # NoRec \/ p \in adding
Newcomers ==
  \A p \in PRs : Comes(p) =>
    /\ items[p].status = "absent" /\ remote[p] = "open" /\ ~(adder[p] # NoRec /\ p \in adding)
    /\ \A c \in Callers : p \notin todo[c] /\ cur[c] # p

\* A run's copies still count what the bucket counts, and the run is the only one.
CopiesFresh(c) ==
  /\ pc[c] \in {"idle", "scan"} => todo[c] = {} /\ dying[c] = {}
  /\ Working(c) => cur[c] \notin todo[c] /\ dying[c] = {}
  /\ \A p \in todo[c] : Active(items[p]) /\ SameCount(snap[c][p], items[p])
  /\ \A p \in dying[c] : items[p].status = "failed" /\ SameCount(snap[c][p], items[p])
  /\ pc[c] \in {"checking", "merging"} =>
       Active(items[cur[c]]) /\ SameCount(snap[c][cur[c]], items[cur[c]])
  /\ pc[c] \in {"saving", "deleting"} => remote[cur[c]] = "merged"
  /\ ~Working(c) => cur[c] = NoPR

\* A merged PR leaves the queue, has counted the failure that hid the merge, or could not be written.
MergedCounted ==
  \A p \in PRs : remote[p] = "merged" =>
    \/ items[p].status = "absent" \/ items[p].retry > 0 \/ p \in unsettled
    \/ \E c \in Callers : pc[c] \in {"saving", "deleting"} /\ cur[c] = p

OrderInv == HandlersQuiet /\ Orderliness /\ Newcomers /\ MergedCounted /\ \A c \in Callers : CopiesFresh(c)

LEMMA OrderInit == Init => OrderInv
BY DEF Init, NoRun, NoUser, OrderInv, HandlersQuiet, Orderliness, Newcomers, Comes, MergedCounted, CopiesFresh,
       Working, Listed, Absent

\* Two goroutines in a run would share the one Manager's mutex.
LEMMA Exclusive ==
  ASSUME Orderly, LockInv, NEW c \in Callers, NEW d \in Callers, pc[c] # "idle", pc[d] # "idle"
  PROVE  c = d
BY DEF Orderly, LockInv

\* What orderly users do not do
LEMMA NotOrderly ==
  ASSUME Orderly, HandlersQuiet, NEW p \in PRs
  PROVE  /\ ~ClearOne(p) /\ ~PriorityRead(p) /\ ~PriorityWrite(p) /\ ~ReadRecord(p) /\ ~FetchApproved(p)
         /\ ~CloseOnPlatform(p) /\ ~Refused(p) /\ ~SaveRecord(p) /\ ~Dequeue(p) /\ ~ChangedOnPlatform(p)
         /\ ~ClearQueue /\ ~Restart
BY DEF Orderly, HandlersQuiet, Allowed, ClearOne, PriorityRead, PriorityWrite, Present, Absent, ReadRecord,
       FetchApproved, CloseOnPlatform, Refused, SaveRecord, Dequeue, ChangedOnPlatform, ClearQueue, Restart

\* While one goroutine takes a step in a run, the others are out of it.
LEMMA OthersIdle ==
  ASSUME Orderly, TypeOK, LockInv, OrderInv, NEW c \in Callers, TryLock(c) \/ RunStep(c),
         NEW d \in Callers, d # c
  PROVE  /\ pc[d] = "idle" /\ todo[d] = {} /\ dying[d] = {} /\ cur[d] = NoPR
         /\ pc'[d] = "idle" /\ todo'[d] = {} /\ dying'[d] = {} /\ cur'[d] = NoPR
         /\ CopiesFresh(d)'
<1>1. pc[d] = "idle"
  <2>1. CASE TryLock(c)
    <3>1. lock[MgrOf[c]] = NoCaller /\ MgrOf[c] = MgrOf[d] BY <2>1 DEF TryLock, Orderly
    <3> QED BY <3>1 DEF LockInv
  <2>2. CASE RunStep(c)
    <3>1. pc[c] # "idle"
      BY <2>2 DEF RunStep, Scan, KeepWaiting, CheckFails, ApproveMerge, MergeSucceeds,
         MergeFails, SaveMerged, SaveFails, DeleteMerged, DeadLetter, Begin, Finish
    <3> QED BY <3>1, Exclusive
  <2> QED BY <2>1, <2>2
<1>2. todo[d] = {} /\ dying[d] = {} /\ cur[d] = NoPR BY <1>1 DEF OrderInv, CopiesFresh, Working
<1>3. /\ pc'[d] = pc[d] /\ todo'[d] = todo[d] /\ dying'[d] = dying[d] /\ cur'[d] = cur[d]
  BY DEF TryLock, RunStep, Scan, KeepWaiting, CheckFails, ApproveMerge, MergeSucceeds,
     MergeFails, SaveMerged, SaveFails, DeleteMerged, DeadLetter, Begin, Finish, WriteBack,
     NextItem, TypeOK
<1> QED BY <1>1, <1>2, <1>3 DEF CopiesFresh, Working

\* The steps of a run leave what users hold alone.
LEMMA UsersUntouched ==
  ASSUME NEW c \in Callers, TryLock(c) \/ RunStep(c) PROVE UNCHANGED userVars
BY DEF TryLock, RunStep, Scan, KeepWaiting, CheckFails, ApproveMerge, MergeSucceeds, MergeFails, SaveMerged,
   SaveFails, DeleteMerged, DeadLetter, Begin, Finish, WriteBack, NextItem

\* How a run settles its current item: what it writes is sound, and counts a merge that stays unsaid.
Settles(c, i) ==
  /\ i \in Item /\ i.status \in {"absent", "waiting", "failed", "dead-letter"}
  /\ i.status = "absent" => i.retry = 0
  /\ remote' = remote \/ remote' = [remote EXCEPT ![cur[c]] = "merged"]
  /\ remote'[cur[c]] = "merged" => i.status = "absent" \/ i.retry > 0 \/ cur[c] \in unsettled

\* The current item as it was, or as the run wants it; a failed write of a merged PR's item is remembered.
Written(c, i) ==
  /\ \/ items' = [items EXCEPT ![cur[c]] = i] /\ unsettled' = unsettled
     \/ /\ items' = items /\ unsettled \subseteq unsettled'
        /\ remote'[cur[c]] = "merged" => cur[c] \in unsettled'
  /\ \A q \in PRs : q # cur[c] => items'[q] = items[q]
  /\ items'[cur[c]] \in {i, items[cur[c]]}
  /\ unsettled \subseteq unsettled'

LEMMA WriteBackWrites ==
  ASSUME TypeOK, NEW c \in Callers, cur[c] \in PRs, NEW i, WriteBack(c, i) PROVE Written(c, i)
BY DEF TypeOK, WriteBack, StoreFails, Written

LEMMA OrderWriteBack ==
  ASSUME Orderly, TypeOK, CurInv, LockInv, OrderInv, NEW c \in Callers, RunStep(c), Working(c),
         NEW i, Settles(c, i), WriteBack(c, i)
  PROVE  OrderInv'
<1>0. cur[c] \in PRs BY DEF CurInv
<1>1. /\ Written(c, i) /\ UNCHANGED userVars
      /\ pc' = [pc EXCEPT ![c] = "loop"] /\ cur' = [cur EXCEPT ![c] = NoPR]
      /\ snap' = [snap EXCEPT ![c] = [@ EXCEPT ![cur[c]] = Absent]] /\ UNCHANGED <<todo, dying>>
  BY <1>0, WriteBackWrites DEF WriteBack, NextItem
<1>2. HandlersQuiet' BY <1>1 DEF OrderInv, HandlersQuiet, userVars
<1>3. Orderliness'
  <2>1. \A p \in PRs : remote'[p] \in {"open", "merged"} BY <1>0 DEF OrderInv, Orderliness, Settles, TypeOK
  <2>2. \A p \in PRs : /\ items'[p].status \in {"absent", "waiting", "failed", "dead-letter"}
                       /\ items'[p].status = "absent" => items'[p].retry = 0
    BY <1>0, <1>1 DEF Written, OrderInv, Orderliness, Settles
  <2> QED BY <2>1, <2>2 DEF Orderliness
<1>4. ASSUME NEW p \in PRs, Comes(p)' PROVE p # cur[c] /\ items'[p] = items[p] /\ remote'[p] = remote[p] /\ Comes(p)
  BY <1>0, <1>1, <1>4 DEF OrderInv, Newcomers, Comes, userVars, Settles, Written, TypeOK
<1>5. Newcomers'
  BY <1>1, <1>4 DEF OrderInv, Newcomers, userVars, TypeOK, Comes
<1>6. MergedCounted'
  <2> SUFFICES ASSUME NEW p \in PRs, remote'[p] = "merged"
               PROVE  \/ items'[p].status = "absent" \/ items'[p].retry > 0 \/ p \in unsettled'
                      \/ \E d \in Callers : pc'[d] \in {"saving", "deleting"} /\ cur'[d] = p
    BY DEF MergedCounted
  <2>1. CASE p = cur[c] BY <1>0, <1>1, <2>1 DEF Settles, Written, TypeOK
  <2>2. CASE p # cur[c]
    <3>1. items'[p] = items[p] /\ remote[p] = "merged" /\ unsettled \subseteq unsettled'
      BY <1>0, <1>1, <2>2 DEF Settles, Written, TypeOK
    <3>2. ASSUME NEW d \in Callers, pc[d] \in {"saving", "deleting"}, cur[d] = p PROVE FALSE
      BY <2>2, <3>2, Exclusive DEF Working
    <3> QED BY <3>1, <3>2 DEF OrderInv, MergedCounted
  <2> QED BY <2>1, <2>2
<1>7. CopiesFresh(c)'
  <2>1. todo[c] \subseteq PRs /\ cur[c] \notin todo[c] /\ dying[c] = {} BY DEF OrderInv, CopiesFresh, TypeOK
  <2>2. \A p \in todo[c] : items'[p] = items[p] /\ snap'[c][p] = snap[c][p]
    BY <1>0, <1>1, <2>1 DEF Written, TypeOK
  <2>3. pc'[c] = "loop" /\ cur'[c] = NoPR /\ todo'[c] = todo[c] /\ dying'[c] = {} BY <1>1, <2>1 DEF TypeOK
  <2>4. \A p \in todo'[c] : Active(items'[p]) /\ SameCount(snap'[c][p], items'[p])
    BY <2>2, <2>3 DEF OrderInv, CopiesFresh
  <2> QED BY <2>3, <2>4 DEF CopiesFresh, Working
<1> QED BY <1>2, <1>3, <1>5, <1>6, <1>7, OthersIdle DEF OrderInv

\* The copy of the current item, and the items a run may write in its place
LEMMA CurrentItem ==
  ASSUME TypeOK, CurInv, RetryInv, OrderInv, NEW c \in Callers, Working(c)
  PROVE  /\ cur[c] \in PRs /\ snap[c][cur[c]] \in Item /\ items[cur[c]] \in Item
         /\ snap[c][cur[c]].retry < MaxRetryCount
         /\ WithStatus(snap[c][cur[c]], "waiting") \in Item
         /\ WithStatus(snap[c][cur[c]], "waiting").status = "waiting"
         /\ WithStatus(snap[c][cur[c]], "waiting").retry = snap[c][cur[c]].retry
         /\ Failed(snap[c][cur[c]]) \in Item /\ Failed(snap[c][cur[c]]).status = "failed"
         /\ Failed(snap[c][cur[c]]).retry = snap[c][cur[c]].retry + 1
         /\ Failed(snap[c][cur[c]]).retry > 0
<1>1. cur[c] \in PRs BY DEF CurInv
<1>2. snap[c][cur[c]] \in Item /\ items[cur[c]] \in Item BY <1>1 DEF TypeOK
<1>3. snap[c][cur[c]].retry < MaxRetryCount BY DEF RetryInv, CopiesGood
<1>4. snap[c][cur[c]].retry \in Nat BY <1>2 DEF Item
<1>5. "waiting" \in Statuses BY DEF Statuses
<1>6. /\ WithStatus(snap[c][cur[c]], "waiting") \in Item
      /\ WithStatus(snap[c][cur[c]], "waiting").status = "waiting"
      /\ WithStatus(snap[c][cur[c]], "waiting").retry = snap[c][cur[c]].retry
  BY <1>2, <1>5, UpdatedItem DEF WithStatus, Item
<1>7. Failed(snap[c][cur[c]]) \in Item BY <1>2, UpdatedItem
<1>8. Failed(snap[c][cur[c]]).status = "failed" /\ Failed(snap[c][cur[c]]).retry = snap[c][cur[c]].retry + 1
  BY DEF Failed
<1> QED BY <1>1, <1>2, <1>3, <1>4, <1>6, <1>7, <1>8

\* A run before its merge: a merged PR has counted a failure, or its item could not be written.
LEMMA MergedBefore ==
  ASSUME Orderly, TypeOK, CurInv, LockInv, RetryInv, OrderInv, NEW c \in Callers,
         pc[c] \in {"checking", "merging"}, remote[cur[c]] = "merged"
  PROVE  snap[c][cur[c]].retry > 0 \/ cur[c] \in unsettled
<1>1. cur[c] \in PRs /\ Active(items[cur[c]]) /\ SameCount(snap[c][cur[c]], items[cur[c]])
  BY DEF OrderInv, CopiesFresh, CurInv, Working
<1>2. ASSUME NEW d \in Callers, pc[d] \in {"saving", "deleting"} PROVE FALSE
  BY <1>2, Exclusive
<1> QED BY <1>1, <1>2 DEF OrderInv, MergedCounted, Active, SameCount

LEMMA OrderTryLock ==
  ASSUME Orderly, TypeOK, LockInv, OrderInv, NEW c \in Callers, TryLock(c) PROVE OrderInv'
<1>1. \A d \in Callers : CopiesFresh(d)'
  <2>1. CopiesFresh(c)' BY DEF TryLock, OrderInv, CopiesFresh, Working, TypeOK
  <2> QED BY <2>1, OthersIdle
<1>2. \A d \in Callers : pc[d] \notin {"saving", "deleting"} /\ pc'[d] \notin {"saving", "deleting"}
  <2>1. pc[c] = "idle" /\ pc'[c] = "scan" BY DEF TryLock, TypeOK
  <2> QED BY <2>1, OthersIdle
<1>3. HandlersQuiet' /\ Orderliness' /\ MergedCounted' /\ Newcomers'
  BY <1>2 DEF OrderInv, TryLock, HandlersQuiet, Orderliness, MergedCounted, Newcomers, Comes, storeVars, userVars
<1> QED BY <1>1, <1>3 DEF OrderInv

LEMMA OrderScan ==
  ASSUME Orderly, TypeOK, LockInv, RetryInv, OrderInv, NEW c \in Callers, Scan(c) PROVE OrderInv'
<1>0. RunStep(c) BY DEF RunStep
<1>1. /\ todo'[c] = {p \in PRs : Due(items[p])} /\ dying'[c] = {p \in PRs : Exhausted(items[p])}
      /\ pc'[c] = "loop" /\ cur'[c] = cur[c] /\ cur[c] = NoPR /\ items' = items /\ remote' = remote
      /\ \A p \in todo'[c] \cup dying'[c] : snap'[c][p] = items[p]
      /\ \A d \in Callers : d # c => pc'[d] = pc[d] /\ todo'[d] = todo[d] /\ cur'[d] = cur[d]
  BY DEF Scan, storeVars, TypeOK, OrderInv, CopiesFresh, Working
<1>2. CopiesFresh(c)'
  BY <1>1 DEF CopiesFresh, Working, OrderInv, Orderliness, Due, Exhausted, Active, SameCount
<1>3. Newcomers'
  BY <1>1 DEF Newcomers, OrderInv, Scan, Comes, userVars, Due
<1>4. MergedCounted'
  BY <1>1, OthersIdle, <1>0 DEF OrderInv, MergedCounted, Scan, TypeOK
<1>5. HandlersQuiet' /\ Orderliness'
  BY <1>1 DEF OrderInv, HandlersQuiet, Orderliness, Scan, userVars
<1> QED BY <1>0, <1>2, <1>3, <1>4, <1>5, OthersIdle DEF OrderInv

LEMMA OrderDeadLetter ==
  ASSUME Orderly, TypeOK, LockInv, RetryInv, OrderInv, NEW c \in Callers, NEW p \in PRs, DeadLetter(c, p)
  PROVE  OrderInv'
<1>0. RunStep(c) BY DEF RunStep
<1>1. /\ Store(p, WithStatus(snap[c][p], "dead-letter")) /\ remote' = remote /\ unsettled' = unsettled
      /\ dying' = [dying EXCEPT ![c] = @ \ {p}] /\ snap' = [snap EXCEPT ![c] = [@ EXCEPT ![p] = Absent]]
      /\ p \in dying[c] /\ pc[c] = "loop" /\ UNCHANGED <<pc, todo, cur>> /\ UNCHANGED userVars
  BY DEF DeadLetter
<1>2. items[p].status = "failed" /\ SameCount(snap[c][p], items[p]) /\ snap[c][p].retry = MaxRetryCount
  BY <1>1 DEF OrderInv, CopiesFresh, RetryInv, CopiesGood
<1>3. /\ items'[p].status \in {"failed", "dead-letter"} /\ items'[p].retry = MaxRetryCount
      /\ \A q \in PRs : q # p => items'[q] = items[q]
  <2>1. snap[c][p] \in Item BY DEF TypeOK
  <2>2. /\ WithStatus(snap[c][p], "dead-letter").status = "dead-letter"
        /\ WithStatus(snap[c][p], "dead-letter").retry = snap[c][p].retry
    BY <2>1 DEF WithStatus, Item
  <2>3. items[p].retry = MaxRetryCount BY <1>2 DEF SameCount
  <2>4. items \in [PRs -> Item] BY DEF TypeOK
  <2> QED BY <1>1, <1>2, <2>2, <2>3, <2>4 DEF Store, StoreFails
<1>4. p \notin todo[c] BY <1>2 DEF RetryInv, CopiesGood
<1>5. CopiesFresh(c)'
  <2>1. \A q \in todo'[c] : q \in PRs /\ q # p /\ q \in todo[c] /\ snap'[c][q] = snap[c][q]
    BY <1>1, <1>4 DEF TypeOK
  <2>2. \A q \in dying'[c] : q \in PRs /\ q # p /\ q \in dying[c] /\ snap'[c][q] = snap[c][q]
    BY <1>1 DEF TypeOK
  <2> QED BY <1>1, <1>3, <2>1, <2>2 DEF OrderInv, CopiesFresh, Working
<1>6. ~Comes(p) BY <1>2 DEF OrderInv, Newcomers
<1>7. Newcomers' BY <1>1, <1>3, <1>6 DEF OrderInv, Newcomers, Comes, userVars
<1>8. MergedCounted'
  BY <1>1, <1>2, <1>3 DEF OrderInv, MergedCounted, SameCount
<1>9. HandlersQuiet' /\ Orderliness'
  BY <1>1, <1>3 DEF OrderInv, HandlersQuiet, Orderliness, userVars
<1> QED BY <1>0, <1>5, <1>7, <1>8, <1>9, OthersIdle DEF OrderInv

LEMMA OrderBegin ==
  ASSUME Orderly, TypeOK, LockInv, RetryInv, OrderInv, NEW c \in Callers, NEW p \in PRs, Begin(c, p)
  PROVE  OrderInv'
<1>0. RunStep(c) BY DEF RunStep
<1>1. /\ p \in todo[c] /\ pc[c] = "loop" /\ dying[c] = {} /\ dying' = dying /\ snap' = snap
      /\ todo'[c] = todo[c] \ {p} /\ cur'[c] = p /\ pc'[c] = "checking" /\ UNCHANGED <<storeVars, unsettled, userVars>>
      /\ \A d \in Callers : d # c => pc'[d] = pc[d] /\ todo'[d] = todo[d] /\ cur'[d] = cur[d]
  BY DEF Begin, TypeOK
<1>2. CopiesFresh(c)' BY <1>1 DEF OrderInv, CopiesFresh, Working, storeVars
<1>3. Newcomers' BY <1>1 DEF OrderInv, Newcomers, Comes, storeVars, userVars
<1>4. MergedCounted' BY <1>1 DEF OrderInv, MergedCounted, storeVars
<1>5. HandlersQuiet' /\ Orderliness'
  BY <1>1 DEF OrderInv, HandlersQuiet, Orderliness, storeVars, userVars
<1> QED BY <1>0, <1>2, <1>3, <1>4, <1>5, OthersIdle DEF OrderInv

\* ApproveMerge, MergeSucceeds and SaveMerged lead to the next stage with the same item.
LEMMA OrderGoesOn ==
  ASSUME Orderly, TypeOK, CurInv, LockInv, RetryInv, OrderInv, NEW c \in Callers,
         ApproveMerge(c) \/ MergeSucceeds(c) \/ SaveMerged(c)
  PROVE  OrderInv'
<1>0. RunStep(c) /\ Working(c) BY DEF RunStep, Working, ApproveMerge, MergeSucceeds, SaveMerged
<1>1. /\ cur[c] \in PRs /\ UNCHANGED <<items, todo, dying, snap, cur, unsettled, userVars>>
      /\ \A d \in Callers : d # c => pc'[d] = pc[d]
      /\ pc'[c] \in {"merging", "saving", "deleting"}
  BY <1>0 DEF CurInv, ApproveMerge, MergeSucceeds, SaveMerged, storeVars, TypeOK
<1>2. /\ \A p \in PRs : p # cur[c] => remote'[p] = remote[p]
      /\ pc'[c] = "merging" => remote' = remote /\ pc[c] = "checking"
      /\ pc'[c] # "merging" => remote'[cur[c]] = "merged"
      /\ remote'[cur[c]] \in {"open", "merged"}
  BY <1>1 DEF ApproveMerge, MergeSucceeds, SaveMerged, storeVars, TypeOK, OrderInv, Orderliness, CopiesFresh
<1>3. CopiesFresh(c)' BY <1>0, <1>1, <1>2 DEF OrderInv, CopiesFresh, Working
<1>4. Newcomers'
  <2>1. \A p \in PRs : Comes(p) => p # cur[c] BY DEF OrderInv, Newcomers
  <2> QED BY <1>1, <1>2, <2>1 DEF OrderInv, Newcomers, Comes, userVars
<1>5. MergedCounted'
  <2> SUFFICES ASSUME NEW p \in PRs, remote'[p] = "merged"
               PROVE  \/ items'[p].status = "absent" \/ items'[p].retry > 0 \/ p \in unsettled'
                      \/ \E d \in Callers : pc'[d] \in {"saving", "deleting"} /\ cur'[d] = p
    BY DEF MergedCounted
  <2>1. CASE p = cur[c] /\ pc'[c] # "merging" BY <1>1, <2>1
  <2>2. CASE p = cur[c] /\ pc'[c] = "merging"
    <3>1. remote[cur[c]] = "merged" /\ pc[c] = "checking" BY <1>2, <2>2
    <3>2. snap[c][cur[c]].retry > 0 \/ cur[c] \in unsettled BY <3>1, MergedBefore
    <3>3. SameCount(snap[c][cur[c]], items[cur[c]]) BY <3>1 DEF OrderInv, CopiesFresh
    <3> QED BY <1>1, <2>2, <3>2, <3>3 DEF SameCount
  <2>3. CASE p # cur[c]
    <3>1. remote[p] = "merged" BY <1>2, <2>3
    <3>2. ASSUME NEW d \in Callers, pc[d] \in {"saving", "deleting"}, cur[d] = p
          PROVE  pc'[d] \in {"saving", "deleting"} /\ cur'[d] = p
      BY <1>1, <2>3, <3>2
    <3> QED BY <1>1, <3>1, <3>2 DEF OrderInv, MergedCounted
  <2> QED BY <2>1, <2>2, <2>3
<1>6. HandlersQuiet' BY <1>1 DEF OrderInv, HandlersQuiet, userVars
<1>7. Orderliness' BY <1>1, <1>2 DEF OrderInv, Orderliness
<1> QED BY <1>0, <1>3, <1>4, <1>5, <1>6, <1>7, OthersIdle DEF OrderInv

LEMMA OrderFinish ==
  ASSUME Orderly, TypeOK, LockInv, OrderInv, NEW c \in Callers, Finish(c) PROVE OrderInv'
<1>0. RunStep(c) BY DEF RunStep
<1>1. /\ pc[c] = "loop" /\ pc'[c] = "idle" /\ todo[c] = {} /\ dying[c] = {}
      /\ UNCHANGED <<storeVars, todo, dying, snap, cur, unsettled, userVars>>
      /\ \A d \in Callers : d # c => pc'[d] = pc[d]
  BY DEF Finish, TypeOK
<1>2. CopiesFresh(c)' BY <1>1 DEF OrderInv, CopiesFresh, Working
<1>3. MergedCounted' BY <1>1 DEF OrderInv, MergedCounted, storeVars
<1>4. HandlersQuiet' /\ Orderliness' /\ Newcomers'
  BY <1>1 DEF OrderInv, HandlersQuiet, Orderliness, Newcomers, Comes, storeVars, userVars
<1> QED BY <1>0, <1>2, <1>3, <1>4, OthersIdle DEF OrderInv

\* What the steps that settle an item write
LEMMA Settled ==
  ASSUME Orderly, TypeOK, CurInv, LockInv, RetryInv, OrderInv, NEW c \in Callers,
         \/ KeepWaiting(c) \/ CheckFails(c) \/ MergeFails(c) \/ SaveFails(c) \/ DeleteMerged(c)
  PROVE  /\ Working(c) /\ RunStep(c)
         /\ KeepWaiting(c) => Settles(c, WithStatus(snap[c][cur[c]], "waiting"))
         /\ CheckFails(c) \/ MergeFails(c) \/ SaveFails(c) => Settles(c, Failed(snap[c][cur[c]]))
         /\ DeleteMerged(c) => Settles(c, Absent)
<1>1. Working(c) /\ RunStep(c)
  BY DEF RunStep, Working, KeepWaiting, CheckFails, MergeFails, SaveFails, DeleteMerged
<1>2. KeepWaiting(c) => Settles(c, WithStatus(snap[c][cur[c]], "waiting"))
  BY <1>1, CurrentItem, MergedBefore DEF KeepWaiting, Settles
<1>3. CheckFails(c) \/ MergeFails(c) \/ SaveFails(c) => Settles(c, Failed(snap[c][cur[c]]))
  BY <1>1, CurrentItem DEF CheckFails, MergeFails, SaveFails, Settles
<1>4. DeleteMerged(c) => Settles(c, Absent)
  BY AbsentItem DEF DeleteMerged, Settles, Absent
<1> QED BY <1>1, <1>2, <1>3, <1>4

LEMMA OrderRun ==
  ASSUME Orderly, TypeOK, CurInv, LockInv, RetryInv, OrderInv, NEW c \in Callers, TryLock(c) \/ RunStep(c)
  PROVE  OrderInv'
<1>1. CASE KeepWaiting(c) \/ CheckFails(c) \/ MergeFails(c) \/ SaveFails(c) \/ DeleteMerged(c)
  BY <1>1, Settled, OrderWriteBack DEF KeepWaiting, CheckFails, MergeFails, SaveFails, DeleteMerged
<1> QED BY <1>1, OrderTryLock, OrderScan, OrderDeadLetter, OrderBegin, OrderGoesOn, OrderFinish DEF RunStep

LEMMA AbsentStays == BackoffOver(Absent) = Absent /\ ScheduleDue(Absent) = Absent
<1>1. \A i \in Item : i = [status |-> i.status, retry |-> i.retry, backoff |-> i.backoff, sched |-> i.sched, prio |-> i.prio]
  BY DEF Item
<1>2. BackoffOver(Absent) \in Item /\ ScheduleDue(Absent) \in Item BY AbsentItem, UpdatedItem
<1>3. \A i \in {BackoffOver(Absent), ScheduleDue(Absent)} :
        i.status = "absent" /\ i.retry = 0 /\ i.backoff = FALSE /\ i.sched = FALSE /\ i.prio = 0
  BY DEF BackoffOver, ScheduleDue, Absent
<1> QED BY <1>1, <1>2, <1>3 DEF Absent

\* Time changes no status and no count.
LEMMA TimeCounts ==
  ASSUME TypeOK, HandlersQuiet, NEW p \in PRs, TimeStep(p)
  PROVE  /\ editor' = editor /\ \A q \in PRs : items'[q].status = items[q].status /\ items'[q].retry = items[q].retry
         /\ UNCHANGED <<rec, remote, runVars, adder, adding, clearing, stage>>
<1>1. \A i \in Item : /\ BackoffOver(i).status = i.status /\ BackoffOver(i).retry = i.retry
                      /\ ScheduleDue(i).status = i.status /\ ScheduleDue(i).retry = i.retry
  BY DEF Item, BackoffOver, ScheduleDue
<1>2. editor[p] = Absent /\ editor \in [PRs -> Item] /\ items \in [PRs -> Item] BY DEF HandlersQuiet, TypeOK
<1>3. CASE BackoffElapses(p) BY <1>1, <1>2, <1>3, AbsentStays DEF BackoffElapses
<1>4. CASE ScheduleArrives(p) BY <1>1, <1>2, <1>4, AbsentStays DEF ScheduleArrives
<1> QED BY <1>3, <1>4 DEF TimeStep

LEMMA OrderTime ==
  ASSUME TypeOK, CurInv, OrderInv, NEW p \in PRs, TimeStep(p) PROVE OrderInv'
<1>0. HandlersQuiet BY DEF OrderInv
<1>1. /\ editor' = editor /\ \A q \in PRs : items'[q].status = items[q].status /\ items'[q].retry = items[q].retry
      /\ UNCHANGED <<rec, remote, runVars, adder, adding, clearing, stage>>
  BY <1>0, TimeCounts
<1>2. HandlersQuiet' /\ Orderliness' /\ Newcomers' /\ MergedCounted'
  BY <1>1 DEF OrderInv, HandlersQuiet, Orderliness, Newcomers, Comes, MergedCounted, runVars
<1>3. \A c \in Callers : CopiesFresh(c)'
  <2> TAKE c \in Callers
  <2>1. todo[c] \subseteq PRs /\ dying[c] \subseteq PRs /\ CopiesFresh(c) /\ (Working(c) => cur[c] \in PRs)
    BY DEF TypeOK, OrderInv, CurInv
  <2>2. UNCHANGED <<pc, todo, dying, cur, snap>> /\ remote' = remote BY <1>1 DEF runVars
  <2>3. \A q \in PRs : items'[q].status = items[q].status /\ items'[q].retry = items[q].retry BY <1>1
  <2> QED BY <2>1, <2>2, <2>3 DEF CopiesFresh, Working, Active, SameCount
<1> QED BY <1>2, <1>3 DEF OrderInv

LEMMA OrderUser ==
  ASSUME Orderly, TypeOK, CurInv, OrderInv, NEW p \in PRs, UserStep(p) PROVE OrderInv'
<1>0. HandlersQuiet BY DEF OrderInv
<1>1. CASE RequestMerge(p)
  <2>1. /\ adder[p] = NoRec /\ remote[p] = "open" /\ items[p].status = "absent" /\ p \notin adding
        /\ \A c \in Callers : cur[c] # p /\ p \notin todo[c]
    BY <1>1 DEF RequestMerge, Allowed, Orderly, Present
  <2>2. UNCHANGED <<storeVars, runVars, adding, editor, clearing, stage>> /\ \A q \in PRs : q # p => adder'[q] = adder[q]
    BY <1>1 DEF RequestMerge, TypeOK
  <2>3. Newcomers'
    BY <2>1, <2>2 DEF OrderInv, Newcomers, Comes, storeVars, runVars
  <2> QED BY <2>2, <2>3 DEF OrderInv, HandlersQuiet, Orderliness, MergedCounted, CopiesFresh, Working, storeVars, runVars
<1>2. CASE AddToQueue(p)
  <2>1. UNCHANGED <<storeVars, runVars, editor, clearing, stage>> /\ adding' \in {adding, adding \cup {p}}
        /\ adder[p] # NoRec /\ adder' = [adder EXCEPT ![p] = NoRec]
    BY <1>2 DEF AddToQueue
  <2>2. Newcomers' BY <2>1 DEF OrderInv, Newcomers, Comes, storeVars, runVars, TypeOK
  <2> QED BY <2>1, <2>2 DEF OrderInv, HandlersQuiet, Orderliness, MergedCounted, CopiesFresh, Working, storeVars, runVars
<1>3. CASE AddWrite(p)
  <2>1. /\ p \in adding /\ adding' = adding \ {p} /\ UNCHANGED <<rec, remote, runVars, adder, editor, clearing, stage>>
        /\ \A q \in PRs : q # p => items'[q] = items[q]
        /\ items'[p].status \in {"absent", "waiting"} /\ items'[p].retry = 0
    BY <1>3 DEF AddWrite, Store, StoreFails, Fresh, TypeOK, OrderInv, Orderliness, Newcomers, Comes
  <2>2. remote[p] = "open" /\ adder[p] = NoRec /\ \A c \in Callers : p \notin todo[c] /\ cur[c] # p /\ p \notin dying[c]
    BY <2>1 DEF OrderInv, Newcomers, Comes, CopiesFresh
  <2>3. Newcomers' BY <2>1, <2>2 DEF OrderInv, Newcomers, Comes, runVars
  <2>4. HandlersQuiet' /\ Orderliness' /\ MergedCounted'
    BY <2>1, <2>2 DEF OrderInv, HandlersQuiet, Orderliness, MergedCounted, runVars
  <2>5. \A c \in Callers : CopiesFresh(c)'
    <3> TAKE c \in Callers
    <3>1. todo[c] \subseteq PRs /\ dying[c] \subseteq PRs /\ (Working(c) => cur[c] \in PRs) BY DEF TypeOK, CurInv
    <3>2. UNCHANGED <<pc, todo, dying, cur, snap>> BY <2>1 DEF runVars
    <3>0. \A q \in PRs : q # p => items'[q] = items[q] BY <2>1
    <3>3. \A q \in todo[c] \cup dying[c] : items'[q] = items[q] BY <2>2, <3>0, <3>1
    <3>4. Working(c) => items'[cur[c]] = items[cur[c]] BY <2>2, <3>0, <3>1
    <3>5. CopiesFresh(c) BY DEF OrderInv
    <3> QED BY <2>1, <3>2, <3>3, <3>4, <3>5 DEF CopiesFresh, Working
  <2> QED BY <2>3, <2>4, <2>5 DEF OrderInv
<1>4. CASE RemoveFromQueue(p)
  <2>1. Quiet /\ items' = [items EXCEPT ![p] = Absent] /\ UNCHANGED <<rec, remote, runVars, userVars>>
    BY <1>4 DEF RemoveFromQueue, Allowed, Orderly
  <2>2. items'[p].status = "absent" /\ items'[p].retry = 0 /\ \A q \in PRs : q # p => items'[q] = items[q]
    BY <2>1 DEF TypeOK, Absent
  <2>3. HandlersQuiet' /\ Orderliness' /\ Newcomers' /\ MergedCounted'
    BY <2>1, <2>2 DEF OrderInv, HandlersQuiet, Orderliness, Newcomers, Comes, MergedCounted, runVars, userVars
  <2>4. \A c \in Callers : CopiesFresh(c)'
    BY <2>1 DEF OrderInv, Quiet, CopiesFresh, Working, runVars
  <2> QED BY <2>3, <2>4 DEF OrderInv
<1>5. CASE PollList(p) \/ PollWrite(p)
  <2>1. UNCHANGED <<items, remote, runVars, adder, adding, editor, clearing, stage>>
    BY <1>5 DEF PollList, PollWrite, storeVars
  <2> QED BY <2>1 DEF OrderInv, HandlersQuiet, Orderliness, Newcomers, Comes, MergedCounted, CopiesFresh, Working, runVars
<1> QED BY <1>0, <1>1, <1>2, <1>3, <1>4, <1>5, NotOrderly DEF UserStep

\* The invariants of a run, of retries and of orderly requests together
WholeInv == TypeOK /\ CurInv /\ LockInv /\ RetryInv /\ OrderInv

LEMMA OrderStep == ASSUME Orderly, WholeInv, [Next]_vars PROVE OrderInv'
<1>0. HandlersQuiet BY DEF WholeInv, OrderInv
<1>1. CASE UNCHANGED vars
  BY <1>1 DEF WholeInv, vars, storeVars, runVars, userVars, OrderInv, HandlersQuiet, Orderliness, Newcomers, Comes,
     MergedCounted, CopiesFresh, Working
<1>2. ASSUME NEW c \in Callers, TryLock(c) \/ RunStep(c) PROVE OrderInv' BY <1>2, OrderRun DEF WholeInv
<1>3. ASSUME NEW p \in PRs, UserStep(p) \/ TimeStep(p) PROVE OrderInv' BY <1>3, OrderUser, OrderTime DEF WholeInv
<1>4. PRs = {} => ~ClearQueue /\ ~Restart BY DEF Orderly, ClearQueue, Restart, Allowed
<1>5. ~ClearQueue /\ ~Restart BY DEF Orderly, ClearQueue, Restart, Allowed
<1> QED BY <1>1, <1>2, <1>3, <1>5 DEF Next

LEMMA WholeInitial == Init => WholeInv
BY TypeInit, ControlInit, RetryInit, OrderInit DEF WholeInv

LEMMA WholeStep == ASSUME Orderly, WholeInv, [Next]_vars PROVE WholeInv'
<1>1. TypeOK /\ CurInv /\ LockInv /\ RetryInv BY DEF WholeInv
<1> QED BY <1>1, TypeNext, CurStep, LockStep, RetryStep, OrderStep DEF WholeInv

LEMMA WholeHolds == ASSUME Orderly PROVE Spec => []WholeInv
<1>1. WholeInv /\ [Next]_vars => WholeInv' BY WholeStep
<1> QED BY <1>1, WholeInitial, PTL DEF Spec

\* MergePR is called for a PR that is merged already only by an item that has counted a failure or whose deletion or
\* write back failed: else a run that has merged deletes its item before any run can scan it again.
THEOREM NoSecondMergeCallHolds == ASSUME Orderly PROVE Spec => []NoSecondMergeCall
<1>1. WholeInv => NoSecondMergeCall
  BY MergedBefore DEF WholeInv, NoSecondMergeCall
<1> QED BY <1>1, WholeHolds, PTL

-----------------------------------------------------------------------------
\* The queue implements QueueLifecycle

\* Where the request for p stands: the refinement mapping of ImplementsLifecycle
Phase == [p \in PRs |-> IF remote[p] = "merged" THEN "merged" ELSE items[p].status]
Tries == [p \in PRs |-> IF remote[p] = "merged" THEN 0 ELSE items[p].retry]

LEMMA LifeStill ==
  ASSUME \A p \in PRs : Phase'[p] = Phase[p] /\ Tries'[p] = Tries[p]
  PROVE  [Life!Next]_(Life!vars)
BY DEF Phase, Tries, Life!vars

\* A step that leaves statuses, counts and the platform as they were is none of the abstract specification.
LEMMA LifeSame ==
  ASSUME remote' = remote, \A p \in PRs : items'[p].status = items[p].status /\ items'[p].retry = items[p].retry
  PROVE  [Life!Next]_(Life!vars)
BY LifeStill DEF Phase, Tries

LEMMA LifeMove ==
  ASSUME NEW p \in PRs, \A q \in PRs : q # p => Phase'[q] = Phase[q] /\ Tries'[q] = Tries[q]
  PROVE  Life!Move(p, Phase'[p], Tries'[p])
<1>1. /\ Phase = [q \in PRs |-> Phase[q]] /\ Phase' = [q \in PRs |-> Phase'[q]]
      /\ Tries = [q \in PRs |-> Tries[q]] /\ Tries' = [q \in PRs |-> Tries'[q]]
  BY DEF Phase, Tries
<1>2. Phase' = [Phase EXCEPT ![p] = Phase'[p]] /\ Tries' = [Tries EXCEPT ![p] = Tries'[p]]
  BY <1>1
<1> QED BY <1>2 DEF Phase, Tries, Life!Move

\* One request moves as the abstract specification allows.
LEMMA LifeStep ==
  ASSUME NEW p \in PRs, \A q \in PRs : q # p => Phase'[q] = Phase[q] /\ Tries'[q] = Tries[q],
         \/ Phase[p] = "absent" /\ Phase'[p] = "waiting" /\ Tries'[p] = 0
         \/ Phase[p] \in {"waiting", "failed"} /\ Phase'[p] = "waiting" /\ Tries'[p] = Tries[p]
         \/ /\ Phase[p] \in {"waiting", "failed"} /\ Tries[p] < MaxRetryCount
            /\ Phase'[p] = "failed" /\ Tries'[p] = Tries[p] + 1
         \/ /\ Phase[p] = "failed" /\ Tries[p] = MaxRetryCount
            /\ Phase'[p] = "dead-letter" /\ Tries'[p] = Tries[p]
         \/ Phase[p] \in {"waiting", "failed"} /\ Phase'[p] = "merged" /\ Tries'[p] = 0
         \/ Phase[p] \notin {"absent", "merged"} /\ Phase'[p] = "absent" /\ Tries'[p] = 0
  PROVE  Life!Next
<1>1. Life!Move(p, Phase'[p], Tries'[p]) BY LifeMove
<1>2. Life!Active(p) <=> Phase[p] \in {"waiting", "failed"} BY DEF Life!Active, Phase
<1>3. CASE Phase[p] = "absent" /\ Phase'[p] = "waiting" /\ Tries'[p] = 0
  <2>1. Life!Move(p, "waiting", 0) BY <1>1, <1>3 DEF Life!Move
  <2> QED BY <1>3, <2>1 DEF Life!Next, Life!Enqueue, Phase
<1>4. CASE Phase[p] \in {"waiting", "failed"} /\ Phase'[p] = "waiting" /\ Tries'[p] = Tries[p]
  <2>1. Life!Move(p, "waiting", Tries[p]) BY <1>1, <1>4 DEF Life!Move
  <2> QED BY <1>2, <1>4, <2>1 DEF Life!Next, Life!Defer, Tries
<1>5. CASE /\ Phase[p] \in {"waiting", "failed"} /\ Tries[p] < MaxRetryCount
           /\ Phase'[p] = "failed" /\ Tries'[p] = Tries[p] + 1
  <2>1. Life!Move(p, "failed", Tries[p] + 1) BY <1>1, <1>5 DEF Life!Move
  <2> QED BY <1>2, <1>5, <2>1 DEF Life!Next, Life!Fail, Tries
<1>6. CASE /\ Phase[p] = "failed" /\ Tries[p] = MaxRetryCount
           /\ Phase'[p] = "dead-letter" /\ Tries'[p] = Tries[p]
  <2>1. Life!Move(p, "dead-letter", Tries[p]) BY <1>1, <1>6 DEF Life!Move
  <2> QED BY <1>6, <2>1 DEF Life!Next, Life!GiveUp, Phase, Tries
<1>7. CASE Phase[p] \in {"waiting", "failed"} /\ Phase'[p] = "merged" /\ Tries'[p] = 0
  <2>1. Life!Move(p, "merged", 0) BY <1>1, <1>7 DEF Life!Move
  <2> QED BY <1>2, <1>7, <2>1 DEF Life!Next, Life!Merge
<1>8. CASE Phase[p] \notin {"absent", "merged"} /\ Phase'[p] = "absent" /\ Tries'[p] = 0
  <2>1. Life!Move(p, "absent", 0) BY <1>1, <1>8 DEF Life!Move
  <2> QED BY <1>8, <2>1 DEF Life!Next, Life!Withdraw, Phase
<1> QED BY <1>3, <1>4, <1>5, <1>6, <1>7, <1>8

LEMMA LifeInit == Init => Life!Init
BY DEF Init, Life!Init, Absent

\* An item that is settled changes its own request only.
LEMMA LifeWriteBack ==
  ASSUME TypeOK, CurInv, OrderInv, NEW c \in Callers, Working(c), NEW i, Settles(c, i), WriteBack(c, i)
  PROVE  /\ \A q \in PRs : q # cur[c] => Phase'[q] = Phase[q] /\ Tries'[q] = Tries[q]
         /\ items'[cur[c]] \in {i, items[cur[c]]}
<1>1. cur[c] \in PRs BY DEF CurInv
<1>2. Written(c, i) BY <1>1, WriteBackWrites
<1> QED BY <1>1, <1>2 DEF Phase, Tries, Written, Settles, TypeOK

LEMMA LifeSettles ==
  ASSUME Orderly, WholeInv, NEW c \in Callers,
         \/ KeepWaiting(c) \/ CheckFails(c) \/ MergeFails(c) \/ SaveFails(c) \/ DeleteMerged(c)
  PROVE  [Life!Next]_(Life!vars)
<1> DEFINE p == cur[c]
<1>0. TypeOK /\ CurInv /\ LockInv /\ RetryInv /\ OrderInv BY DEF WholeInv
<1>1. Working(c) BY <1>0, Settled
<1>2. /\ p \in PRs /\ snap[c][p].retry < MaxRetryCount /\ snap[c][p].retry \in Nat
      /\ WithStatus(snap[c][p], "waiting").status = "waiting"
      /\ WithStatus(snap[c][p], "waiting").retry = snap[c][p].retry
      /\ Failed(snap[c][p]).status = "failed" /\ Failed(snap[c][p]).retry = snap[c][p].retry + 1
  BY <1>0, <1>1, CurrentItem DEF Item
<1>3. ASSUME pc[c] \in {"checking", "merging"}
      PROVE  items[p].status \in {"waiting", "failed"} /\ items[p].retry = snap[c][p].retry
  BY <1>0, <1>3 DEF OrderInv, CopiesFresh, Active, SameCount
<1>4. ASSUME remote[p] = "merged", remote' = remote,
             \A q \in PRs : q # p => Phase'[q] = Phase[q] /\ Tries'[q] = Tries[q]
      PROVE  [Life!Next]_(Life!vars)
  <2>1. Phase'[p] = Phase[p] /\ Tries'[p] = Tries[p] BY <1>4 DEF Phase, Tries
  <2> QED BY <1>4, <2>1, LifeStill
<1>5. CASE KeepWaiting(c)
  <2>1. /\ \A q \in PRs : q # p => Phase'[q] = Phase[q] /\ Tries'[q] = Tries[q]
        /\ items'[p] \in {WithStatus(snap[c][p], "waiting"), items[p]} /\ remote' = remote /\ pc[c] = "checking"
    BY <1>0, <1>1, <1>5, Settled, LifeWriteBack DEF KeepWaiting
  <2>2. CASE remote[p] # "merged" /\ items'[p] = WithStatus(snap[c][p], "waiting")
    <3>1. Phase[p] \in {"waiting", "failed"} /\ Phase'[p] = "waiting" /\ Tries'[p] = Tries[p]
      BY <1>2, <1>3, <2>1, <2>2 DEF Phase, Tries
    <3> QED BY <1>2, <2>1, <3>1, LifeStep
  <2>3. CASE items'[p] = items[p]
    <3>1. Phase'[p] = Phase[p] /\ Tries'[p] = Tries[p] BY <2>1, <2>3 DEF Phase, Tries
    <3> QED BY <2>1, <3>1, LifeStill
  <2> QED BY <1>4, <2>1, <2>2, <2>3
<1>6. CASE CheckFails(c) \/ MergeFails(c) \/ SaveFails(c)
  <2>1. /\ \A q \in PRs : q # p => Phase'[q] = Phase[q] /\ Tries'[q] = Tries[q]
        /\ items'[p] \in {Failed(snap[c][p]), items[p]}
    BY <1>0, <1>1, <1>6, Settled, LifeWriteBack DEF CheckFails, MergeFails, SaveFails
  <2>2. CASE remote[p] = "merged"
    <3>1. remote' = remote BY <1>6, <2>2 DEF CheckFails, MergeFails, SaveFails
    <3> QED BY <1>4, <2>1, <2>2, <3>1
  <2>3. CASE remote[p] # "merged"
    <3>1. pc[c] \in {"checking", "merging"}
      BY <1>0, <1>6, <2>3 DEF CheckFails, MergeFails, SaveFails, OrderInv, CopiesFresh
    <3>2. CASE remote'[p] # "merged" /\ items'[p] = Failed(snap[c][p])
      <4>1. /\ Phase[p] \in {"waiting", "failed"} /\ Tries[p] < MaxRetryCount
            /\ Phase'[p] = "failed" /\ Tries'[p] = Tries[p] + 1
        BY <1>2, <1>3, <2>1, <2>3, <3>1, <3>2 DEF Phase, Tries
      <4> QED BY <1>2, <2>1, <4>1, LifeStep
    <3>3. CASE remote'[p] = "merged"
      <4>1. Phase[p] \in {"waiting", "failed"} /\ Phase'[p] = "merged" /\ Tries'[p] = 0
        BY <1>2, <1>3, <2>3, <3>1, <3>3 DEF Phase, Tries
      <4> QED BY <1>2, <2>1, <4>1, LifeStep
    <3>4. CASE remote'[p] # "merged" /\ items'[p] = items[p]
      <4>1. Phase'[p] = Phase[p] /\ Tries'[p] = Tries[p] BY <1>2, <2>3, <3>4 DEF Phase, Tries
      <4> QED BY <2>1, <4>1, LifeStill
    <3> QED BY <2>1, <3>2, <3>3, <3>4
  <2> QED BY <2>2, <2>3
<1>7. CASE DeleteMerged(c)
  <2>1. /\ \A q \in PRs : q # p => Phase'[q] = Phase[q] /\ Tries'[q] = Tries[q]
        /\ remote' = remote /\ remote[p] = "merged"
    BY <1>0, <1>1, <1>7, Settled, LifeWriteBack DEF DeleteMerged, OrderInv, CopiesFresh
  <2> QED BY <1>4, <2>1
<1> QED BY <1>5, <1>6, <1>7

LEMMA LifeRun ==
  ASSUME Orderly, WholeInv, NEW c \in Callers, TryLock(c) \/ RunStep(c) PROVE [Life!Next]_(Life!vars)
<1>0. TypeOK /\ CurInv /\ RetryInv /\ OrderInv BY DEF WholeInv
<1>1. CASE TryLock(c) \/ Scan(c) \/ ApproveMerge(c) \/ SaveMerged(c) \/ Finish(c)
  <2>1. remote' = remote /\ items' = items BY <1>1 DEF TryLock, Scan, ApproveMerge, SaveMerged, Finish, storeVars
  <2> QED BY <2>1, LifeSame
<1>2. CASE MergeSucceeds(c)
  <2>1. /\ cur[c] \in PRs /\ remote[cur[c]] = "open" /\ remote' = [remote EXCEPT ![cur[c]] = "merged"]
        /\ items' = items /\ items[cur[c]].status \in {"waiting", "failed"}
    BY <1>0, <1>2 DEF MergeSucceeds, CurInv, Working, OrderInv, CopiesFresh, Active
  <2>2. \A q \in PRs : q # cur[c] => Phase'[q] = Phase[q] /\ Tries'[q] = Tries[q]
    BY <1>0, <2>1 DEF Phase, Tries, TypeOK
  <2>3. Phase[cur[c]] \in {"waiting", "failed"} /\ Phase'[cur[c]] = "merged" /\ Tries'[cur[c]] = 0
    BY <1>0, <2>1 DEF Phase, Tries, TypeOK
  <2> QED BY <2>1, <2>2, <2>3, LifeStep
<1>3. ASSUME NEW p \in PRs, Begin(c, p) PROVE [Life!Next]_(Life!vars)
  BY <1>3, LifeSame DEF Begin, storeVars
<1>4. ASSUME NEW p \in PRs, DeadLetter(c, p) PROVE [Life!Next]_(Life!vars)
  <2>1. snap[c][p] \in Item /\ items \in [PRs -> Item] BY <1>0 DEF TypeOK
  <2>2. /\ items[p].status = "failed" /\ items[p].retry = MaxRetryCount /\ snap[c][p].retry = MaxRetryCount
    BY <1>0, <1>4 DEF DeadLetter, OrderInv, CopiesFresh, SameCount, RetryInv, CopiesGood
  <2>0. CASE items' = items BY <1>4, <2>0, LifeSame DEF DeadLetter
  <2> SUFFICES ASSUME items' # items PROVE [Life!Next]_(Life!vars) BY <2>0
  <2>3. /\ remote' = remote /\ \A q \in PRs : q # p => items'[q] = items[q]
        /\ items'[p].status = "dead-letter" /\ items'[p].retry = MaxRetryCount
    BY <1>4, <2>1, <2>2 DEF DeadLetter, Store, StoreFails, WithStatus, Item
  <2>4. \A q \in PRs : q # p => Phase'[q] = Phase[q] /\ Tries'[q] = Tries[q] BY <2>3 DEF Phase, Tries
  <2>5. CASE remote[p] = "merged"
    <3>1. Phase'[p] = Phase[p] /\ Tries'[p] = Tries[p] BY <2>3, <2>5 DEF Phase, Tries
    <3> QED BY <2>4, <3>1, LifeStill
  <2>6. CASE remote[p] # "merged"
    <3>1. /\ Phase[p] = "failed" /\ Tries[p] = MaxRetryCount
          /\ Phase'[p] = "dead-letter" /\ Tries'[p] = Tries[p]
      BY <2>2, <2>3, <2>6 DEF Phase, Tries
    <3> QED BY <2>4, <3>1, LifeStep
  <2> QED BY <2>5, <2>6
<1>5. CASE KeepWaiting(c) \/ CheckFails(c) \/ MergeFails(c) \/ SaveFails(c) \/ DeleteMerged(c)
  BY <1>5, LifeSettles
<1> QED BY <1>1, <1>2, <1>3, <1>4, <1>5 DEF RunStep

LEMMA LifeUser ==
  ASSUME Orderly, WholeInv, NEW p \in PRs, UserStep(p) \/ TimeStep(p) PROVE [Life!Next]_(Life!vars)
<1>0. TypeOK /\ OrderInv /\ HandlersQuiet BY DEF WholeInv, OrderInv
<1>1. CASE RequestMerge(p) \/ AddToQueue(p) \/ PollList(p) \/ PollWrite(p)
  <2>1. remote' = remote /\ items' = items BY <1>1 DEF RequestMerge, AddToQueue, PollList, PollWrite, storeVars
  <2> QED BY <2>1, LifeSame
<1>2. CASE AddWrite(p)
  <2>0. CASE items' = items BY <1>2, <2>0, LifeSame DEF AddWrite
  <2> SUFFICES ASSUME items' # items PROVE [Life!Next]_(Life!vars) BY <2>0
  <2>1. /\ remote' = remote /\ \A q \in PRs : q # p => items'[q] = items[q]
        /\ items'[p].status = "waiting" /\ items'[p].retry = 0
    BY <1>0, <1>2 DEF AddWrite, Store, StoreFails, Fresh, TypeOK
  <2>2. remote[p] = "open" /\ items[p].status = "absent"
    BY <1>0, <1>2 DEF AddWrite, OrderInv, Newcomers, Comes
  <2>3. \A q \in PRs : q # p => Phase'[q] = Phase[q] /\ Tries'[q] = Tries[q] BY <2>1 DEF Phase, Tries
  <2>4. Phase[p] = "absent" /\ Phase'[p] = "waiting" /\ Tries'[p] = 0 BY <2>1, <2>2 DEF Phase, Tries
  <2> QED BY <2>3, <2>4, LifeStep
<1>3. CASE RemoveFromQueue(p)
  <2>1. /\ remote' = remote /\ \A q \in PRs : q # p => items'[q] = items[q]
        /\ items'[p].status = "absent" /\ items'[p].retry = 0 /\ items[p].status # "absent"
        /\ items[p].status \in {"waiting", "failed", "dead-letter"}
    BY <1>0, <1>3 DEF RemoveFromQueue, Absent, Present, TypeOK, OrderInv, Orderliness
  <2>2. \A q \in PRs : q # p => Phase'[q] = Phase[q] /\ Tries'[q] = Tries[q] BY <2>1 DEF Phase, Tries
  <2>3. CASE remote[p] = "merged"
    <3>1. Phase'[p] = Phase[p] /\ Tries'[p] = Tries[p] BY <2>1, <2>3 DEF Phase, Tries
    <3> QED BY <2>2, <3>1, LifeStill
  <2>4. CASE remote[p] # "merged"
    <3>1. Phase[p] \notin {"absent", "merged"} /\ Phase'[p] = "absent" /\ Tries'[p] = 0
      BY <2>1, <2>4 DEF Phase, Tries
    <3> QED BY <2>2, <3>1, LifeStep
  <2> QED BY <2>3, <2>4
<1>4. CASE TimeStep(p)
  <2>1. remote' = remote /\ \A q \in PRs : items'[q].status = items[q].status /\ items'[q].retry = items[q].retry
    BY <1>0, <1>4, TimeCounts
  <2> QED BY <2>1, LifeSame
<1> QED BY <1>0, <1>1, <1>2, <1>3, <1>4, NotOrderly DEF UserStep

LEMMA LifeNext == ASSUME Orderly, WholeInv, [Next]_vars PROVE [Life!Next]_(Life!vars)
<1>1. CASE UNCHANGED vars BY <1>1, LifeSame DEF vars, storeVars
<1>2. ~ClearQueue /\ ~Restart BY DEF Orderly, ClearQueue, Restart, Allowed
<1> QED BY <1>1, <1>2, LifeRun, LifeUser DEF Next

\* With orderly requests the queue behaves, for each PR, as QueueLifecycle promises: failures are counted one by one
\* and no further than maxRetryCount, an item that was merged, given up or withdrawn does not come back by itself.
THEOREM LifecycleImplemented == ASSUME Orderly PROVE Spec => ImplementsLifecycle
<1>1. WholeInv /\ [Next]_vars => [Life!Next]_(Life!vars) BY LifeNext
<1> QED BY <1>1, LifeInit, WholeHolds, PTL DEF Spec, ImplementsLifecycle, Life!Spec
=============================================================================
