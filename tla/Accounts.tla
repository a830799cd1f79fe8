------------------------------ MODULE Accounts ------------------------------
(***************************************************************************)
(* The handlers of accounts: what each does to users, sessions, API keys,  *)
(* passkeys, OIDC links, reset tokens and fingerprints.  They are about    *)
(* one user; d is the driver.  What a handler checks before its first step *)
(* is left out: passwords, codes, roles, signatures and the form of a      *)
(* request end it as a record that is not there does.                      *)
(***************************************************************************)
EXTENDS Storage, FiniteSets

GenerateSessionID == <<FreshKey>>
StartSession(d)   == GenerateSessionID \o PutSession(d)

\* A login with a password, and with a second factor, which first makes a short session and
\* then trades it for the real one.  An LDAP login is for users who have no record, and ends
\* with the look-up of the record.
Login(d)        == GetUser \o StartSession(d)
LoginSecond(d)  == GetUser \o GetSession \o DeleteReadSession(d, "on") \o StartSession(d)
LoginExpired(d) == GetUser \o GetSession \o DeleteReadSession(d, "on")
consumeBackupCode == GetUser \o <<Put("users", "on")>>
LoginBackup(d)  == GetUser \o GetSession \o consumeBackupCode \o DeleteReadSession(d, "on")
                     \o StartSession(d)
Logout(d)       == DeleteSession(d, "on")

CreateUser        == <<Vacant("users"), Blank("users", "end")>>
UpdateUserUnread  == PutUser
UpdateUser        == GetUser \o PutUser
UpdateUserRole(d) == GetUser \o DeleteUserSessions(d) \o PutUser
DeleteUserKeepingLinks(d) ==
  DeleteUserSessions(d) \o ListAPIKeys(DeleteAPIKey) \o <<Del("users", "end")>>
DeleteUser(d)     == DeleteUserSessions(d) \o ListAPIKeys(DeleteAPIKey)
                       \o ListOIDCLinks(DeleteOIDCLink) \o <<Del("users", "end")>>
CreateTempToken(d) == StartSession(d)

RevokeSession(d)       == GetSession \o DeleteSession(d, "end")
\* The session of the request is told apart by a type its claims never have, and is revoked
\* with the others.
RevokeOtherSessions(d) == ListUserSessions(d, DeleteSession(d, "next"))
RevokeAllSessions(d)   == ListUserSessions(d, DeleteSession(d, "next"))

\* Every request: with a session, whose use is recorded, or with an API key.
SessionRequest(d) == GetSession \o UpdateSessionActivity(d)
ExpiredRequest(d) == GetSession \o DeleteSession(d, "on")
ValidateAPIKey    == GetAPIKey
KeyRequest        == ValidateAPIKey \o PutAPIKey
CreateAPIKey      == <<FreshKey, New("keys", "end")>>
RevokeAPIKey      == DeleteAPIKey

EnrollTOTP            == GetUser \o PutUser
VerifyTOTP            == GetUser \o PutUser
DisableTOTP           == GetUser \o PutUser
RegenerateBackupCodes == GetUser \o PutUser

ForgotPassword   == GetUser \o <<FreshKey>> \o PutResetToken
ResetPasswordFirst(d) == GetResetToken \o GetUser \o PutUser \o DeleteResetToken
                           \o DeleteUserSessions(d)
ResetPassword(d) == GetResetToken \o DeleteResetToken \o GetUser \o PutUser
                      \o DeleteUserSessions(d)
ResetExpired     == GetResetToken \o DeleteResetToken

\* A ceremony is kept between its two halves.
getWebAuthnUser == <<Each("passkeys", "passkeys", "end", <<>>)>>
PasskeyRegisterBegin  == getWebAuthnUser \o <<FreshKey, New("ceremonies", "end")>>
PasskeyRegisterFinish == <<Get("ceremonies", "end")>> \o getWebAuthnUser
                           \o <<FreshKey, New("passkeys", "end"), Del("ceremonies", "on")>>
PasskeyLoginBegin     == <<Each("passkeys", "passkeys", "end", <<FreshKey, New("ceremonies", "end")>>)>>
updateSignCount       == <<EachOwn("passkeys", "on", <<Put("passkeys", "on")>>)>>
PasskeyLoginFinish    == <<Get("ceremonies", "end")>> \o getWebAuthnUser \o updateSignCount
                           \o <<Del("ceremonies", "on")>> \o GetUser
PasskeyDelete         == <<Get("passkeys", "end"), Del("passkeys", "end")>>

\* The state of an OIDC login is kept in memory and used once.
OIDCLogin       == <<FreshKey, New("states", "on")>>
OIDCCallback(d) == <<Take("states")>> \o GetOIDCLink \o PutOIDCLink \o StartSession(d)
\* For a user who has no record, or one without a password, which is written over.
OIDCCreates(d)  == <<Take("states"), Vacant("oidclinks"), Get("users", "on"), Blank("users", "end"),
                     Blank("oidclinks", "on")>> \o StartSession(d)
UnlinkOIDC      == GetOIDCLink \o DeleteOIDCLink

\* Browsers a user trusts, in memory
GenerateFingerprint   == <<FreshKey, New("prints", "on")>>
InvalidateFingerprint == <<Get("prints", "end"), Del("prints", "on")>>
InvalidateUserFingerprints == <<Forget("prints")>>

-----------------------------------------------------------------------------
SessionOps(d) ==
  {ResetPassword(d), Login(d), LoginSecond(d), LoginExpired(d), LoginBackup(d), Logout(d),
   RevokeSession(d), RevokeOtherSessions(d), RevokeAllSessions(d), SessionRequest(d),
   ExpiredRequest(d), EnrollTOTP, VerifyTOTP, DisableTOTP, RegenerateBackupCodes}

CredentialOps(d) ==
  {KeyRequest, CreateAPIKey, ForgotPassword, ResetExpired, PasskeyRegisterBegin,
   PasskeyRegisterFinish, PasskeyLoginBegin, PasskeyLoginFinish, PasskeyDelete, OIDCLogin,
   OIDCCallback(d), OIDCCreates(d), UnlinkOIDC, GenerateFingerprint, InvalidateFingerprint,
   InvalidateUserFingerprints}

AdminOps(d) ==
  {CreateUser, UpdateUser, UpdateUserRole(d), DeleteUser(d), CreateTempToken(d), RevokeAPIKey,
   SessionRequest(d), KeyRequest, ResetPassword(d)}

AccountTables == {"users", "sessions", "byuser", "keys", "tokens", "passkeys", "ceremonies",
                  "oidclinks", "states", "prints"}
=============================================================================
