---------------------------- MODULE WebhookEvents ----------------------------
(***************************************************************************)
(* What the parsers of daemon/handlers/webhook make of the payload of each *)
(* platform, and what the consumer's handlers then store as the state of   *)
(* the PR.  Forgejo and Codeberg speak as Gitea.                           *)
(*                                                                         *)
(* A payload says what happened to a PR and the status it has since.       *)
(***************************************************************************)
Hosts == {"github", "gitlab", "gitea", "bitbucket", "gerrit"}

Statuses == {"open", "closed", "merged"}

Happenings == {"opened", "closed", "merged", "reopened", "pushed", "labeled",
               "approved", "rejected", "comment"}

Payloads == [what : Happenings, status : Statuses]

EventTypes == {"", "pr_opened", "pr_closed", "pr_merged", "pr_reopened", "pr_labeled",
               "pr_approved", "changes_requested", "pr_comment"}

StateWords == Statuses \cup {"opened", "reopened", "declined"}

Events == [type : EventTypes, state : StateWords]

-----------------------------------------------------------------------------
\* The state a record gets from a payload: the platform's own word, but "merged" where
\* a flag says so.
State(host, p) ==
  IF p.status = "merged" THEN "merged"
  ELSE CASE host = "gitlab" /\ p.what = "reopened"                      -> "reopened"
         [] host = "gitlab" /\ p.what # "reopened" /\ p.status = "open" -> "opened"
         [] host = "bitbucket" /\ p.status = "closed"                   -> "declined"
         [] OTHER                                                       -> p.status

ByAction(what) ==
  CASE what = "opened"   -> "pr_opened"   [] what = "closed"   -> "pr_closed"
    [] what = "merged"   -> "pr_merged"   [] what = "reopened" -> "pr_reopened"
    [] what = "labeled"  -> "pr_labeled"  [] what = "approved" -> "pr_approved"
    [] what = "rejected" -> "changes_requested"
    [] what = "comment"  -> "pr_comment"
    [] OTHER             -> ""

\* GitLab's merge request hook and every hook of Bitbucket are told by state.
ByState(word) ==
  CASE word \in {"open", "opened"}    -> "pr_opened"
    [] word = "reopened"               -> "pr_reopened"
    [] word \in {"closed", "declined"} -> "pr_closed"
    [] OTHER                           -> "pr_merged"

parseGitHubWebhook(p) == ByAction(p.what)

parseGiteaWebhook(p) == IF p.what = "rejected" THEN "" ELSE ByAction(p.what)

parseGitLabWebhook(p) ==
  IF p.what \in {"comment", "approved", "rejected"} THEN ByAction(p.what)
  ELSE ByState(State("gitlab", p))

parseBitbucketWebhook(p) ==
  IF p.what = "comment" THEN "pr_comment" ELSE ByState(State("bitbucket", p))

\* A new patch set is an opened event; votes and labels come without a comment.
parseGerritWebhook(p) ==
  CASE p.what = "pushed"                              -> "pr_opened"
    [] p.what \in {"approved", "rejected", "labeled"} -> ""
    [] OTHER                                          -> ByAction(p.what)

parseWebhookEvent(host, p) ==
  [type  |-> CASE host = "github"    -> parseGitHubWebhook(p)
               [] host = "gitlab"    -> parseGitLabWebhook(p)
               [] host = "gitea"     -> parseGiteaWebhook(p)
               [] host = "bitbucket" -> parseBitbucketWebhook(p)
               [] OTHER              -> parseGerritWebhook(p),
   state |-> State(host, p)]

-----------------------------------------------------------------------------
\* The state the record of a PR has after the handler of event e.
Saved(e, old) ==
  CASE e.type = "pr_closed"                 -> "closed"
    [] e.type = "pr_merged"                 -> "merged"
    [] e.type = "pr_reopened"               -> "open"
    [] e.type \in {"pr_approved", "pr_comment"} -> old
    [] OTHER                                -> e.state
=============================================================================
