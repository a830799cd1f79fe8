------------------------------- MODULE Storage ------------------------------
(***************************************************************************)
(* The calls of the storage interface as its two drivers carry them out:   *)
(* bbolt in local transactions, MongoDB in commands on collections.  A     *)
(* call that is one step of both drivers alike has one definition.  The    *)
(* two indexes of pull requests count as one, and so do the five of the    *)
(* audit log.                                                              *)
(***************************************************************************)
EXTENDS StoreSteps

Drivers == {"bbolt", "mongo"}
By(d, ofBbolt, ofMongo) == IF d = "mongo" THEN ofMongo ELSE ofBbolt

\* Sessions: bbolt keeps an index by user, MongoDB asks for the user name.  A session
\* that is not there is an error of bbolt only.
BboltPutSession == <<New("sessions", "end"), New("byuser", "end")>>
MongoPutSession == <<New("sessions", "end")>>
PutSession(d)   == By(d, BboltPutSession, MongoPutSession)

GetSession      == <<Get("sessions", "end")>>

BboltDeleteSessionFirst(failed) ==
  <<Get("sessions", failed), Del("sessions", failed), Del("byuser", "on")>>
BboltDeleteSession(failed) ==
  <<Get("sessions", failed), Del("byuser", "on"), Del("sessions", failed)>>
MongoDeleteSession(failed) == <<Del("sessions", failed)>>
DeleteSession(d, failed)   == By(d, BboltDeleteSession(failed), MongoDeleteSession(failed))

\* A session MongoDB returns lacks its key, which is stored as another field than it is read
\* from: what is done with the session by that key is done to none.
DeleteReadSession(d, failed) == By(d, BboltDeleteSession(failed), <<>>)

UserIndex(d) == By(d, "byuser", "sessions")
BboltListUserSessions(body) == <<Each("sessions", "byuser", "end", body)>>
MongoListUserSessions(body) == <<Each("sessions", "sessions", "end", <<>>)>>
ListUserSessions(d, body)   == By(d, BboltListUserSessions(body), MongoListUserSessions(body))

\* The loops of bbolt end with the first session that cannot be deleted.
BboltDeleteUserSessions == <<Each("sessions", "byuser", "on", BboltDeleteSession("out"))>>
MongoDeleteUserSessions == <<Purge("sessions", "on")>>
DeleteUserSessions(d)   == By(d, BboltDeleteUserSessions, MongoDeleteUserSessions)

BboltDeleteInactiveIndex    == <<EachIdle("sessions", <<Del("byuser", "out")>>)>>
BboltDeleteInactiveSessions == <<EachIdle("sessions", BboltDeleteSession("out"))>>
MongoDeleteInactiveSessions == <<PurgeIdle("sessions", "on")>>
DeleteInactiveSessions(d)   == By(d, BboltDeleteInactiveSessions, MongoDeleteInactiveSessions)

BboltUpdateSessionActivity == <<Get("sessions", "end"), Put("sessions", "on")>>
MongoUpdateSessionActivity == <<Touch("sessions", "on")>>
UpdateSessionActivity(d)   == By(d, BboltUpdateSessionActivity, MongoUpdateSessionActivity)

-----------------------------------------------------------------------------
\* Users' other records
GetUser == <<Get("users", "end")>>
PutUser == <<Put("users", "end")>>

GetAPIKey         == <<Get("keys", "end")>>
ListAPIKeys(body) == <<Each("keys", "keys", "on", body)>>
PutAPIKey         == <<Put("keys", "on")>>
DeleteAPIKey      == <<Del("keys", "on")>>

GetOIDCLink         == <<Get("oidclinks", "end")>>
PutOIDCLink         == <<Put("oidclinks", "on")>>
DeleteOIDCLink      == <<Del("oidclinks", "on")>>
ListOIDCLinks(body) == <<Each("oidclinks", "oidclinks", "on", body)>>

PutResetToken    == <<New("tokens", "end")>>
GetResetToken    == <<Get("tokens", "end")>>
DeleteResetToken == <<Del("tokens", "end")>>

PutNotificationPrefs == <<Blank("prefs", "end")>>
GetNotificationPrefs == <<Get("prefs", "end")>>

AppendDigest       == <<FreshKey, New("digests", "on")>>
ListDigests        == <<Each("digests", "digests", "end", <<>>)>>
BboltDeleteDigests == <<Each("digests", "digests", "on", <<Del("digests", "out")>>)>>
MongoDeleteDigests == <<Purge("digests", "on")>>
DeleteDigests(d)   == By(d, BboltDeleteDigests, MongoDeleteDigests)

-----------------------------------------------------------------------------
\* Pull requests: bbolt writes record and indexes in one transaction, and searches the
\* records when the indexes do not know one, to repair them.
BboltPutPRWithIndex == <<PutBoth("prs", "prindex")>>
MongoPutPRWithIndex == <<Put("prs", "end"), Put("prindex", "end")>>
PutPRWithIndex(d)   == By(d, BboltPutPRWithIndex, MongoPutPRWithIndex)

BboltGetPRByIndex == <<Unless("prindex", <<Get("prs", "end"), Put("prindex", "on")>>),
                       Get("prs", "end")>>
MongoGetPRByIndex == <<Get("prindex", "end"), Get("prs", "end")>>
GetPRByIndex(d)   == By(d, BboltGetPRByIndex, MongoGetPRByIndex)

\* Links, dependencies and audit entries, each with the way back to it
BboltPutIssuePRLink == <<Blank("links", "end"), Blank("linksbypr", "end")>>
MongoPutIssuePRLink == <<Blank("links", "end"), Blank("linksbypr", "on")>>
PutIssuePRLink(d)   == By(d, BboltPutIssuePRLink, MongoPutIssuePRLink)

BboltPutPRDependency == <<Blank("deps", "end"), Blank("dependents", "end")>>
MongoPutPRDependency == <<Blank("deps", "end")>>
PutPRDependency(d)   == By(d, BboltPutPRDependency, MongoPutPRDependency)
GetPRDependentsByPR(d, body) == <<Each("deps", By(d, "dependents", "deps"), "end", body)>>

WriteAuditLogIndex    == <<New("logindex", "end")>>
BboltAppendAuditLogEx == <<FreshKey, New("logs", "end")>> \o WriteAuditLogIndex
MongoAppendAuditLogEx == <<FreshKey, New("logs", "end")>> \o WriteAuditLogIndex
AppendAuditLogEx(d)   == By(d, BboltAppendAuditLogEx, MongoAppendAuditLogEx)

-----------------------------------------------------------------------------
\* Spaces, stacks, templates
PutTeamSpace         == <<Put("spaces", "end")>>
GetTeamSpace         == <<Get("spaces", "end")>>
ListTeamSpaces(failed, body) == <<Each("spaces", "spaces", failed, body)>>
DeleteTeamSpace      == <<Del("spaces", "end")>>
PutSpaceMember(failed) == <<Blank("members", failed)>>
RemoveSpaceMember    == <<Del("members", "end")>>

GetPRStack         == <<Get("stacks", "end")>>
PutPRStack(failed) == <<Put("stacks", failed)>>
DeletePRStack      == <<Del("stacks", "end")>>

PutPRTemplate == <<Blank("templates", "end")>>
=============================================================================
