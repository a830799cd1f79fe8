---------------------------- MODULE Collaboration ---------------------------
(***************************************************************************)
(* The handlers of what teams share: spaces and dependencies across them,  *)
(* stacks, issue links, templates, deployments, notification preferences   *)
(* and digests, reviewer loads, records of pull requests and audit log.    *)
(***************************************************************************)
EXTENDS Storage, FiniteSets

\* Which space a repo group belongs to is kept in memory until a space changes.
invalidateSpaceCache == <<Forget("spacecache")>>
getSpaceForPR(failed) ==
  <<Unless("spacecache", ListTeamSpaces(failed, <<>>) \o <<Fill("spacecache", "spaces")>>)>>

CreateSpace  == <<Blank("spaces", "end")>> \o PutSpaceMember("on") \o invalidateSpaceCache
DeleteSpace  == DeleteTeamSpace \o invalidateSpaceCache
AddSpaceMember    == GetTeamSpace \o PutSpaceMember("end") \o invalidateSpaceCache
DropSpaceMember   == RemoveSpaceMember \o invalidateSpaceCache
UpdateSpaceRepoGroupsOnly == GetTeamSpace \o PutTeamSpace

UpdateSpaceRepoGroups == GetTeamSpace \o PutTeamSpace \o invalidateSpaceCache
findPRByGlobalID     == <<Get("prs", "next")>>
\* What depends on a pull request is told where both have a space, and not the same.
NotifyCrossSpaceDeps(d) ==
  GetPRDependentsByPR(d, <<>>) \o <<SomeOf("deps")>> \o getSpaceForPR("end")
    \o <<EachAgain("deps", findPRByGlobalID \o getSpaceForPR("next") \o <<Blank("cross", "on")>>)>>
ResolveCrossSpaceDep == <<Get("prs", "end"), Get("cross", "end"), Put("cross", "end")>>

CreateStack       == <<FreshKey, New("stacks", "end")>>
DeleteStack       == DeletePRStack
AddStackMember    == GetPRStack \o PutPRStack("end")
RemoveStackMember == GetPRStack \o PutPRStack("end")
UpdateStackMemberState   == GetPRStack \o PutPRStack("end")
FindStackByPR(body) == <<EachOwn("stacks", "on", body)>>
UpdateStackMemberOnMerge == FindStackByPR(PutPRStack("on"))
SyncStackFromPR(d)  == GetPRByIndex(d) \o FindStackByPR(PutPRStack("end"))
SyncNewStack(d)     == GetPRByIndex(d) \o FindStackByPR(<<>>) \o CreateStack

SyncIssueLinks(d)   == GetPRByIndex(d) \o PutIssuePRLink(d)
SyncDependencies(d) == GetPRByIndex(d) \o PutPRDependency(d)

FetchPRTemplate  == PutPRTemplate
TrackDeployment  == <<FreshKey, New("deployments", "on")>>

UpdateReviewerLoad == <<Get("load", "on"), Put("load", "end")>>

UpdateNotificationPrefs == PutNotificationPrefs
FlushDigestsFirst(d) == ListDigests \o GetNotificationPrefs \o DeleteDigests(d) \o <<Send("digests")>>

FlushDigests(d) == ListDigests \o GetNotificationPrefs \o <<Send("digests")>> \o DeleteDigests(d)
\* A pull request that is new or has changed is saved; at the start all of them are.
SavePR(d)       == <<Get("prs", "on")>> \o PutPRWithIndex(d)
SyncPRStates(d) == <<Each("prs", "prs", "end", PutPRWithIndex(d))>>

-----------------------------------------------------------------------------
TeamOps(d) ==
  {CreateSpace, DeleteSpace, AddSpaceMember, DropSpaceMember, UpdateSpaceRepoGroups,
   NotifyCrossSpaceDeps(d), ResolveCrossSpaceDep, CreateStack, DeleteStack, AddStackMember,
   RemoveStackMember, UpdateStackMemberState, UpdateStackMemberOnMerge, SyncStackFromPR(d),
   SyncNewStack(d)}

RecordOps(d) ==
  {SyncIssueLinks(d), SyncDependencies(d), FetchPRTemplate, TrackDeployment, UpdateReviewerLoad,
   UpdateNotificationPrefs, AppendDigest, FlushDigests(d), SavePR(d), SyncPRStates(d),
   AppendAuditLogEx(d)}

TeamTables   == {"spaces", "members", "spacecache", "cross", "stacks", "prs", "prindex", "deps",
                 "dependents"}
RecordTables == {"links", "linksbypr", "templates", "deployments", "load", "prefs", "digests",
                 "logs", "logindex"}
=============================================================================
