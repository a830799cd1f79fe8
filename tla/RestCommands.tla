---------------------------- MODULE RestCommands ----------------------------
(***************************************************************************)
(* The handlers of the HTTP API that act on pull requests (daemon/handlers *)
(* and daemon/handlers/pr), step by step.  Labels and comments on the      *)
(* platform are left out.                                                  *)
(***************************************************************************)
EXTENDS PRSteps

RestApproveEarly ==
  <<Read(AnyState), Refresh, Save("approved"), Enqueue, Call("approve")>>
RestApprove == <<Read(AnyState), Call("approve"), Refresh, Save("approved"), Enqueue>>
RestCloseUnsaved == <<Read(AnyState), Call("close"), Dequeue>>
RestClose   == <<Read(AnyState), Call("close"), Save("closed"), Dequeue>>
RestSpam    == <<Read(AnyState), Call("close"), Dequeue, Save("spam")>> \o Count
RestReopen  == <<Read(AnyState \ {"merged"}), Call("reopen")>>

\* The handlers of several PRs: the steps for each of them.
RestBatchApprove == <<Call("approve")>>
RestBatchClose   == <<Call("close"), Read(AnyState), Save("closed")>>
RestBatchMerge   == <<Read(AnyState), Only("notdraft"), Call("merge")>>
RestBatchRebase  == <<Read({"open"}), Call("rebase"), Save("event")>>

\* performRebase saves the branch first, and an event whether git fails or not.
RestRebase ==
  <<Read({"open"}), Save("event"), Try("rebase"), Save("event")>>
RestRebaseQueue == <<Only("queued")>> \o RestRebase

RestCherryPick == <<Read({"merged"}), Try("cherry-pick"), Save("event")>>

\* The new PR is saved as open under the group's key and queued.
RestRevert == <<Read({"merged"}), Call("revert"), Save("open"), Enqueue>>

\* MarkReady queues only if the group says so.
MarkReady        == <<Read(AnyState), Only("draft"), Save("ready")>>
MarkReadyEnqueue == MarkReady \o <<Enqueue>>
MarkDraft        == <<Read(AnyState), Only("notdraft"), Save("draft"), Dequeue>>

ScheduleMerge   == <<Read(AnyState), Enqueue>>
RemoveFromQueue == <<Dequeue>>
ClearQueue      == <<Dequeue>>

RestCommands ==
  {RestApprove, RestClose, RestSpam, RestReopen, RestRebase,
   RestRebaseQueue, RestCherryPick, RestRevert, MarkReady, MarkReadyEnqueue, MarkDraft,
   ScheduleMerge, RemoveFromQueue}

RestBatches ==
  {RestBatchApprove, RestBatchClose, RestBatchMerge, RestBatchRebase, ClearQueue}
=============================================================================
