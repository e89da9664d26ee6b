------------------------------ MODULE Credentials ------------------------------
(***************************************************************************)
(* Stored credentials of one process (internal/auth): auth.json behind a        *)
(* process-local lock, the cache in memory, refreshes of expired OAuth tokens by   *)
(* concurrent callers, browser logins that share one callback port, and logout.  *)
(* A credential is the number of the grant it came from; 0 is no credential.     *)
(***************************************************************************)
EXTENDS Naturals, FiniteSets

CONSTANTS Callers,   \* callers of APIKeyContext for the OAuth provider
          Logins,    \* /login commands
          KeySets,   \* /login commands with an API key, for another provider
          MaxGrants  \* grants the authorization server makes

ASSUME CredentialsAssumption == {"logout", "reload", "free"} \cap (Callers \cup Logins \cup KeySets) = {}

VARIABLES
    authFile,    \* auth.json: [Providers -> grant], or TornFile
    authTemp,    \* the temporary file of a write: TornFile or its content
    authLock,    \* FileBackend.lock: "free" or who holds it
    authCache,   \* Storage.credentials
    authLoadErr, \* Storage.loadError
    authGrants,  \* grants made so far
    authExpired, \* grants whose access token has expired
    authDead,    \* grants whose refresh token the server has replaced
    authRead,    \* what /reload has read of the file
    authPort,    \* who listens on the callback port, or "free"
    authWork,    \* what each goroutine does
    authSaved,   \* the last value renamed into place for each provider
    authEver     \* every grant that was ever renamed into place

auFile == <<authFile, authTemp, authLock, authSaved, authEver>>
auCache == <<authCache, authLoadErr, authRead>>
auServer == <<authGrants, authExpired, authDead, authPort>>
auVars == <<auFile, auCache, auServer, authWork>>

OAuthProvider == "oauth"
KeyProvider == "key"
Providers == {OAuthProvider, KeyProvider}
Empty == [p \in Providers |-> 0]
TornFile == [torn |-> TRUE]
Logout == "logout"
Reloading == "reload"
Jobs == Callers \cup Logins \cup KeySets \cup {Logout, Reloading}
NotStarted == [step |-> "idle", provider |-> OAuthProvider, grant |-> 0, flow |-> FALSE]
Ended == {"idle", "key", "unset", "failed"}

\* Commands run one after the other on the terminal's goroutine; the browser flow of
\* a login has a goroutine of its own.
commandsIdle ==
    \A j \in KeySets \cup Logins \cup {Logout, Reloading} :
        authWork[j].step \in Ended \/ authWork[j].flow

CredentialsInit ==
    /\ authFile = Empty /\ authTemp = TornFile /\ authLock = "free" /\ authSaved = Empty /\ authEver = {}
    /\ authCache = Empty /\ authLoadErr = FALSE /\ authRead = Empty
    /\ authGrants = 0 /\ authExpired = {} /\ authDead = {} /\ authPort = "free"
    /\ authWork = [j \in Jobs |-> NotStarted]

Step(j, step) == authWork' = [authWork EXCEPT ![j].step = step]

--------------------------------------------------------------------------------
(* The authorization server and the clock. *)

Expire ==
    /\ \E g \in 1..authGrants : g \notin authExpired /\ authExpired' = authExpired \cup {g}
    /\ UNCHANGED <<auFile, auCache, authGrants, authDead, authPort, authWork>>

Grant(j) ==
    /\ authGrants < MaxGrants /\ authGrants' = authGrants + 1
    /\ authWork' = [authWork EXCEPT ![j].grant = authGrants + 1, ![j].step = "save",
           ![j].provider = IF j \in KeySets THEN KeyProvider ELSE OAuthProvider]

\* A code is exchanged for a grant, or the server refuses it.
exchangeCode(j) == Grant(j) \/ (Step(j, "failed") /\ UNCHANGED authGrants)

--------------------------------------------------------------------------------
(* A caller of APIKeyContext. *)

\* An access token that has expired must be refreshed first.
keyState(grant) ==
    CASE grant = 0 -> "unset" [] grant \in authExpired -> "refresh" [] OTHER -> "key"

\* The snapshot is taken under the lock and used after it is released.
\* /login of an OAuth provider asks for the key first and stops when there is one.
authSnapshot(c) ==
    /\ authWork[c].step = "idle" /\ (c \in Logins => commandsIdle)
    /\ LET grant == authCache[OAuthProvider]
       IN  authWork' = [authWork EXCEPT ![c].grant = grant, ![c].step = keyState(grant)]
    /\ UNCHANGED <<auFile, auCache, auServer>>

\* A refresh token is used up, or left valid, by the server; a used one is refused.
refreshOAuthCredential(c) ==
    /\ authWork[c].step = "refresh"
    /\ \/ /\ authWork[c].grant \notin authDead /\ Grant(c)
          /\ authDead' \in {authDead, authDead \cup {authWork[c].grant}}
       \/ Step(c, "failed") /\ UNCHANGED <<authGrants, authDead>>
    /\ UNCHANGED <<auFile, auCache, authExpired, authPort>>

--------------------------------------------------------------------------------
(* Logins. *)

\* One listener per port: a second login fails at once.
startOAuthCallbackServer(l) ==
    /\ authWork[l].step \in {"unset", "failed"} /\ ~authWork[l].flow
    /\ LET free == authPort = "free"
       IN  /\ authPort' = IF free THEN l ELSE authPort
           /\ authWork' = [authWork EXCEPT ![l].flow = TRUE, ![l].step = IF free THEN "wait" ELSE "failed"]
    /\ UNCHANGED <<auFile, auCache, authGrants, authExpired, authDead>>

\* /login with a pasted code: no listener, the exchange runs in the command.
completeLogin(l) ==
    /\ authWork[l].step = "idle" /\ commandsIdle
    /\ exchangeCode(l)
    /\ UNCHANGED <<auFile, auCache, authExpired, authDead, authPort>>

\* A code with the right state is exchanged; any other request, an error of the
\* exchange and the end of the context end the login.  The listener is closed either way.
oauthCallback(l) ==
    /\ authWork[l].step = "wait" /\ authPort' = "free"
    /\ exchangeCode(l)
    /\ UNCHANGED <<auFile, auCache, authExpired, authDead>>

loginFlow(l) == startOAuthCallbackServer(l) \/ oauthCallback(l)

\* /login provider key, and /logout.
loginCommand(k) ==
    /\ authWork[k].step = "idle" /\ commandsIdle /\ Grant(k)
    /\ UNCHANGED <<auFile, auCache, authExpired, authDead, authPort>>

logoutCommand ==
    /\ authWork[Logout].step = "idle" /\ commandsIdle
    /\ Step(Logout, "save")
    /\ UNCHANGED <<auFile, auCache, auServer>>

--------------------------------------------------------------------------------
(* Set and Remove. *)

\* A storage that could not parse its file refuses every change.
takeLock(j) ==
    /\ authWork[j].step = "save"
    /\ IF authLoadErr THEN Step(j, "failed") /\ UNCHANGED authLock
       ELSE authLock = "free" /\ authLock' = j /\ Step(j, "read")
    /\ UNCHANGED <<authFile, authTemp, authSaved, authEver, auCache, auServer>>

\* Mutation: the change is made to what memory holds.
changesCache(provider, grant) == [authCache EXCEPT ![provider] = grant]

\* The change is made to what the file holds now.
persistProviderChange(provider, grant) == [authFile EXCEPT ![provider] = grant]

\* The context may have ended, and the file may not parse.
readAuthFile(j) ==
    /\ authWork[j].step = "read"
    /\ \/ /\ authFile # TornFile
          /\ authTemp' = persistProviderChange(authWork[j].provider, authWork[j].grant)
          /\ Step(j, "rename") /\ UNCHANGED authLock
       \/ authLock' = "free" /\ Step(j, "failed") /\ UNCHANGED authTemp
    /\ UNCHANGED <<authFile, authSaved, authEver, auCache, auServer>>

\* Mutation: the file itself is written, so for a moment it is cut short.
writesInPlace(j) ==
    /\ authWork[j].step = "rename"
    /\ IF authFile = TornFile
       THEN authFile' = authTemp /\ authTemp' = TornFile /\ authLock' = "free" /\ Step(j, "cache")
            /\ authSaved' = [authSaved EXCEPT ![authWork[j].provider] = authWork[j].grant]
            /\ authEver' = authEver \cup {authWork[j].grant}
       ELSE authFile' = TornFile /\ UNCHANGED <<authTemp, authLock, authSaved, authEver, authWork>>
    /\ UNCHANGED <<auCache, auServer>>

\* The temporary file takes the place of auth.json in one step.
writeAuthFile(j) ==
    /\ authWork[j].step = "rename"
    /\ authFile' = authTemp /\ authTemp' = TornFile /\ authLock' = "free" /\ Step(j, "cache")
    /\ authSaved' = [authSaved EXCEPT ![authWork[j].provider] = authWork[j].grant]
    /\ authEver' = authEver \cup {authWork[j].grant}
    /\ UNCHANGED <<auCache, auServer>>

\* Mutation: the credential is remembered and handed out, and saved by nobody.
remembersOnly(j) ==
    /\ authWork[j].step \in {"save", "cache"}
    /\ authCache' = [authCache EXCEPT ![authWork[j].provider] = authWork[j].grant]
    /\ Step(j, "key")
    /\ UNCHANGED <<auFile, authLoadErr, authRead, auServer>>

\* Memory follows, after the lock of the file is gone.
setCredential(j) ==
    /\ authWork[j].step = "cache"
    /\ authCache' = [authCache EXCEPT ![authWork[j].provider] = authWork[j].grant]
    /\ Step(j, "key")
    /\ UNCHANGED <<auFile, authLoadErr, authRead, auServer>>

\* A goroutine may be asked again.
Again(j) ==
    /\ authWork[j].step \in {"key", "unset", "failed"}
    /\ authWork' = [authWork EXCEPT ![j] = NotStarted]
    /\ UNCHANGED <<auFile, auCache, auServer>>

\* The process dies and the next one loads what the file holds.
Restart ==
    /\ \E j \in Jobs : authWork[j].step # "idle"
    /\ authCache' = IF authFile = TornFile THEN Empty ELSE authFile
    /\ authLoadErr' = (authFile = TornFile) /\ authRead' = Empty
    /\ authTemp' = TornFile /\ authLock' = "free" /\ authPort' = "free"
    /\ authWork' = [j \in Jobs |-> NotStarted]
    /\ UNCHANGED <<authFile, authSaved, authEver, authGrants, authExpired, authDead>>

\* /reload reads the file under its lock and replaces memory under another one.
reloadRuntime ==
    /\ authWork[Reloading].step = "idle" /\ commandsIdle /\ authLock = "free"
    /\ authRead' = authFile /\ Step(Reloading, "loaded")
    /\ UNCHANGED <<auFile, authCache, authLoadErr, auServer>>

replaceCredentials ==
    /\ authWork[Reloading].step = "loaded"
    /\ authLoadErr' = (authRead = TornFile) /\ authRead' = Empty
    /\ authCache' = IF authRead = TornFile THEN authCache ELSE authRead
    /\ Step(Reloading, "key")
    /\ UNCHANGED <<auFile, auServer>>

CredentialsNext ==
    \/ Expire \/ logoutCommand \/ Restart \/ reloadRuntime \/ replaceCredentials
    \/ \E c \in Callers \cup Logins : authSnapshot(c) \/ refreshOAuthCredential(c)
    \/ \E l \in Logins : loginFlow(l) \/ completeLogin(l)
    \/ \E k \in KeySets : loginCommand(k)
    \/ \E j \in Jobs : takeLock(j) \/ readAuthFile(j) \/ writeAuthFile(j) \/ setCredential(j) \/ Again(j)

--------------------------------------------------------------------------------
(* Properties. *)

\* auth.json is whole at every moment, also when the process dies in the middle
\* of a write: otherwise the next start would refuse to load and to save
\* (writeAuthFile).
FileIsWhole == authFile # TornFile

\* Changes of different providers do not undo each other: the file holds for each
\* provider what was last saved for it, whoever saved what in between
\* (persistProviderChange reads the file under the lock).
OtherProvidersKept == authFile # TornFile => authFile = authSaved

\* A token is in the file before anybody can use it: no caller was given, and
\* memory does not hold, a grant that a crash at this moment would lose although
\* its predecessor's refresh token may be used up (credentialAPIKeyContext saves
\* before it returns; Set persists before it updates the map).
RefreshedIsSaved ==
    /\ \A c \in Callers : authWork[c].step = "key" => authWork[c].grant \in authEver
    /\ \A p \in Providers : authCache[p] \in authEver \cup {0}
================================================================================
