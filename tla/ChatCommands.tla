---------------------------- MODULE ChatCommands ----------------------------
(***************************************************************************)
(* The commands of the chat bots (daemon/platform/telegram, slack, discord *)
(* and feishu), which carry out themselves what the HTTP API does too, and *)
(* the commands given in comments on a PR (daemon/consumer/comment.go).    *)
(* Who may give them is left out.  Rebase and cherry-pick check the PR and *)
(* then call the API of the same process.                                  *)
(***************************************************************************)
EXTENDS RestCommands

\* The PR is not refreshed, the reply is the only trace of a failure; a close does not
\* take the PR from the queue.
Approve(S, change) == <<Read(S), Call("approve"), Save(change), Enqueue>>
Close(S)           == <<Read(S), Call("close"), Save("closed")>>
Reopen(S)          == <<Read(S), Call("reopen"), Save("open")>>

\* The record and the author's count are written before the platform is asked.
Spam(S) == <<Read(S), Save("spam")>> \o Count \o <<Try("close")>>

\* The PR the client returns has no repo group.
RevertMisfiled == <<Read({"merged"}), Call("revert"), Misfile>>
RevertFiled    == <<Read({"merged"}), Call("revert"), Save("event"), Enqueue>>

ForwardedRebase == <<Read({"open"})>> \o RestRebase

NotMerged == AnyState \ {"merged"}

-----------------------------------------------------------------------------
TelegramApprove    == Approve(AnyState, "approved")
TelegramClose      == Close(AnyState)
TelegramReopen     == Reopen(NotMerged)
TelegramSpam       == Spam(AnyState)
TelegramRevert     == RevertFiled
TelegramRebase     == ForwardedRebase
TelegramCherryPick == RestCherryPick

\* One of the PRs of a batch.
TelegramBatchApprove == Approve(AnyState, "approved")
TelegramBatchClose   == Close(AnyState)

\* The buttons below a PR; that of closing asks for a reason first.
ButtonApprove  == Approve({"open", "spam"}, "voted")
ButtonClose    == <<Read({"open", "spam"})>>
ButtonReason   == Close(AnyState)
ButtonReopen   == Reopen({"closed", "spam"})
ButtonSpam     == Spam({"open", "spam"})
ButtonRevert   == RevertFiled

SlackApprove    == Approve(NotMerged, "voted")
SlackClose      == Close(AnyState)
SlackReopen     == Reopen(AnyState)
SlackSpam       == Spam(AnyState)
SlackRevert     == RevertMisfiled
SlackRebase     == ForwardedRebase
SlackCherryPick == <<Read({"merged"})>> \o RestCherryPick
SlackBatchApprove == Approve(AnyState, "voted")
SlackBatchClose   == Close(AnyState)

DiscordApprove    == Approve(NotMerged, "voted")
DiscordClose      == Close(AnyState)
DiscordReopen     == Reopen(AnyState)
DiscordSpam       == Spam(AnyState)
DiscordRevert     == RevertMisfiled
DiscordRebase     == ForwardedRebase
DiscordCherryPick == RestCherryPick

\* A batch of Discord does not queue what it approves.
DiscordBatchApprove == <<Read(AnyState), Call("approve"), Save("voted")>>
DiscordBatchClose   == Close(AnyState)

FeishuApprove    == Approve(AnyState, "voted")
FeishuClose      == Close(AnyState)
FeishuReopen     == Reopen(NotMerged)
FeishuSpam       == Spam(AnyState)
FeishuRevert     == RevertMisfiled
FeishuRebase     == ForwardedRebase
FeishuCherryPick == RestCherryPick
FeishuBatchApprove == FeishuApprove
FeishuBatchClose   == FeishuClose

-----------------------------------------------------------------------------
\* Commands in comments have the PR of the webhook and write no record but a spam's.
CommentApprove == <<Call("approve")>>
CommentClose   == <<Call("close")>>
CommentReopen  == <<Call("reopen")>>
CommentMerge   == <<Call("merge")>>
CommentSpam    == <<List(AnyState), Save("spam"), Try("close"), Call("close")>>
CommentQueue   == <<List(AnyState), Enqueue>>

ChatQueueRemove == <<Dequeue>>
ChatQueueClear  == <<Dequeue>>

ChatCommands ==
  {TelegramApprove, TelegramClose, TelegramReopen, TelegramSpam, TelegramRevert,
   TelegramRebase, TelegramCherryPick, ButtonApprove, ButtonClose, ButtonReason,
   ButtonReopen, ButtonSpam, ButtonRevert, SlackApprove, SlackClose, SlackReopen,
   SlackSpam, SlackRevert, SlackRebase, SlackCherryPick, DiscordApprove, DiscordClose,
   DiscordReopen, DiscordSpam, DiscordRevert, DiscordRebase, DiscordCherryPick,
   FeishuApprove, FeishuClose, FeishuReopen, FeishuSpam, FeishuRevert, FeishuRebase,
   FeishuCherryPick, CommentApprove, CommentClose, CommentReopen, CommentMerge,
   CommentSpam, CommentQueue, ChatQueueRemove}

ChatBatches ==
  {TelegramBatchApprove, TelegramBatchClose, SlackBatchApprove, SlackBatchClose,
   DiscordBatchApprove, DiscordBatchClose, FeishuBatchApprove, FeishuBatchClose,
   ChatQueueClear}
=============================================================================
