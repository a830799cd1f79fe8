---------------------------- MODULE MCPlatforms ----------------------------
(***************************************************************************)
(* Work on pull requests that takes several calls to a platform, and the   *)
(* gathering of notifications.  The parts share no state: a behaviour is   *)
(* of one part.                                                            *)
(***************************************************************************)
EXTENDS Stale, Labelling, Reviews, Builds, Notices

VARIABLE part

\* Platform 1 is GitHub, GitLab or Gitea; 2 is Gerrit, or Bitbucket.
AllConfigs == [stale : {1}, close : {1}, removes : BOOLEAN, takes : {{1, 2}}, undated : {{}}]
              \cup [stale : {1}, close : {0}, removes : {TRUE}, takes : {{1, 2}}, undated : {{}}]
              \cup [stale : {1}, close : {1}, removes : {TRUE}, takes : {{1}}, undated : {{<<1, 1>>}}]

Rule(l, p, e) == [label |-> l, priority |-> p, exclusive |-> e]
Books == {[group |-> <<Rule("a", 1, FALSE)>>, all |-> <<Rule("b", 1, TRUE)>>],
          [group |-> <<Rule("a", 0, FALSE)>>, all |-> <<Rule("b", 1, TRUE)>>],
          [group |-> <<Rule("b", 1, TRUE)>>, all |-> <<Rule("a", 1, TRUE)>>]}

\* A part that takes no steps starts in one way.
One(S) == CHOOSE x \in S : TRUE
Init ==
  /\ part \in {"stale", "labels", "reviews", "builds", "notices"}
  /\ StaleInit /\ (part # "stale" => config = One(Configs))
  /\ LabelInit /\ (part # "labels" => forge = One(Forges) /\ order = One(Orders(One(RuleBooks))) /\ made = {})
  /\ ReviewsInit /\ (part # "reviews" => host = "gerrit")
  /\ BuildInit /\ (part # "builds" => server = One(Servers))
  /\ NoticeInit

Next ==
  \/ part = "stale" /\ StaleNext /\ UNCHANGED <<labelVars, reviewVars, buildVars, noticeVars, part>>
  \/ part = "labels" /\ LabelNext /\ UNCHANGED <<staleVars, reviewVars, buildVars, noticeVars, part>>
  \/ part = "reviews" /\ ReviewsNext /\ UNCHANGED <<staleVars, labelVars, buildVars, noticeVars, part>>
  \/ part = "builds" /\ BuildNext /\ UNCHANGED <<staleVars, labelVars, reviewVars, noticeVars, part>>
  \/ part = "notices" /\ NoticeNext /\ UNCHANGED <<staleVars, labelVars, reviewVars, buildVars, part>>

\* Time passes, the ticker ticks, timers fire, whoever waits for the mutex gets it, and calls
\* return; people need not do anything.
Fairness ==
  /\ WF_staleVars(part = "stale" /\ Day)
  /\ WF_staleVars(part = "stale" /\ CheckAllGroups("ticker"))
  /\ \A k \in Checks : WF_staleVars(part = "stale" /\ Steps(k))
  /\ \A id \in PRs : WF_staleVars(part = "stale" /\ RemoveStaleLabel(id))
  /\ WF_noticeVars(part = "notices" /\ NoticeGoesOn)

Spec == Init /\ [][Next]_<<staleVars, labelVars, reviewVars, buildVars, noticeVars, part>> /\ Fairness
=============================================================================
