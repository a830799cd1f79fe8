---------------------------- MODULE Housekeeping ----------------------------
(***************************************************************************)
(* What acts on pull requests without a user: the merge queue, the poller, *)
(* the handlers of events (daemon/consumer/handlers.go), the spam detector *)
(* (daemon/syncer/spam.go), automatic merges (daemon/automerge), closing   *)
(* of stale PRs (daemon/stale) and automatic rebases.                      *)
(***************************************************************************)
EXTENDS PRSteps

\* CheckQueue as the others see it; MergeQueue has its detail.
QueueMerge ==
  <<Only("queued"), Read({"open"}), Only("notdraft"), Call("merge"), Outcome,
    Save("event"), Dequeue>>

\* pollPlatform keeps of the record the approval and the spam flag.
Poll == <<List(AnyState), Keep, Save("event")>>

\* The handlers save the PR that came with the event over the record.
OnOpened    == <<List({"open"}), Save("event")>>
OnClosed    == <<List({"closed"}), Save("closed")>>
OnMerged    == <<List({"merged"}), Save("merged")>>
OnReopened  == <<List({"open"}), Save("open")>>
OnLabeled   == <<List(AnyState), Save("event")>>
OnChangesRequested == <<List(AnyState), Save("event")>>

\* EvaluatePR of an approved PR; mergePR leaves record and queue to later events.
AutoMerge == <<List({"open"}), Only("notspam"), Only("notdraft"), Only("enough"),
               Only("noconflict"), Call("merge")>>

\* HandleSpam saves the record it was given, then tries to close the PR.
HandleSpam == <<Save("spam"), Try("close")>>
SpamScan   == <<Read(AnyState), Only("notspam")>> \o HandleSpam
OnSpam     == <<List(AnyState), Save("spam")>> \o HandleSpam

\* autoClose publishes its event without the platform: the handler saves a second record.
AutoClose  == <<List({"open"}), Call("close"), Misfile>>

AutoRebase == <<Read({"open"}), Only("conflict"), Save("event"),
                Try("rebase"), Save("event")>>

Chores == {QueueMerge, OnOpened, OnClosed, OnMerged, OnReopened, OnLabeled,
           OnChangesRequested, AutoMerge, SpamScan, OnSpam, AutoClose, AutoRebase}
=============================================================================
