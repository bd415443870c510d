------------------------------ MODULE Accounts -------------------------------
(***************************************************************************)
(* One user account of a tenant and the tenant's API keys: login with      *)
(* password, second factor, lockout and throttle; SSO login; token         *)
(* refresh, logout and sign-out; password, role and MFA changes; key       *)
(* management. Every request is a handler of its own goroutine, and every  *)
(* statement it sends to Postgres or Redis is a step of its own.           *)
(***************************************************************************)
EXTENDS Naturals, FiniteSets

CONSTANTS Requests,             \* handlers that may be in flight together
          MaxSessions, MaxKeys, \* bounds: rows of sessions and of api_keys
          LoginMaxFailures, LoginThrottlePerMin, OIDCAutoProvision, \* configuration
          Scenes,               \* the kinds of request that meet in one behaviour
          MaxRequests, MaxFaults, MaxSecrets, MaxCodes  \* bounds

ASSUME AccountsAssumption ==
    /\ {LoginMaxFailures, LoginThrottlePerMin, MaxSecrets, MaxCodes} \subseteq Nat \ {0}
    /\ OIDCAutoProvision \in BOOLEAN
    /\ {MaxSessions, MaxKeys, MaxRequests, MaxFaults} \subseteq Nat

\* The lockout's promise counts the requests in flight together.
ASSUME FiniteRequests == IsFiniteSet(Requests)

\* Fresh ids are numbered in the order they are given out; 0 is no row.
JTIs  == 1 .. MaxSessions
Keys  == 1 .. MaxKeys
NoOne == 0

\* VIEWER and ADMIN stand for a lower and a higher role.
Roles == {"VIEWER", "ADMIN"}
rank(role) == IF role = "ADMIN" THEN 3 ELSE 0

Kinds == {"login", "oidc", "create", "logout", "refresh", "change", "reset", "signout", "role",
          "enroll", "confirm", "disable", "codes", "mint", "revokeKey"}

\* The kinds of request that carry a session token, and the caller's API key.
WithToken == {"logout", "refresh", "change", "enroll", "confirm", "disable", "codes"}
WithKey   == {"mint", "revokeKey"}

VARIABLES user,      \* the users row, and whether it exists
          sessions,  \* the sessions table by jti
          failures,  \* rows of login_attempts inside the lockout window
          throttle,  \* the Redis counter of the client's address
          keys,      \* the api_keys table
          req,       \* per handler: where it is and what it has read
          hist,      \* history: what the properties compare the tables with
          scene, requests, faults

vars == <<user, sessions, failures, throttle, keys, req, hist, scene, requests, faults>>

Points == {"idle", "throttle", "ttl", "count", "user", "consume", "record", "clear", "create",
           "identify", "provision", "insert", "verify", "rotate", "revoke", "check", "password",
           "reverify", "revokeOne", "revokeAll", "role", "secret", "reset", "load", "enable",
           "turnOff", "codes", "verifyKey", "mintKey", "disableKey"}

Users     == [exists : BOOLEAN, role : Roles, secret : 0 .. MaxSecrets, enabled : BOOLEAN,
              codes : SUBSET (1 .. MaxCodes)]
Sessions  == [status : {"none", "live", "expired", "revoked"}, role : Roles,
              from : JTIs \cup {NoOne}, gen : Nat, late : BOOLEAN]
Handlers  == [kind : Kinds, at : Points, jti : JTIs \cup {NoOne}, key : Keys \cup {NoOne},
              role : Roles, secret : 0 .. MaxSecrets, code : 0 .. MaxCodes,
              gen : Nat, crossed : BOOLEAN]
Histories == [gen : Nat,             \* password changes and sign-outs so far
              unrevoked : BOOLEAN,   \* one of them did not get to its revocation
              confirmed : 0 .. MaxSecrets, \* the secret a code was last checked against
              doubt : BOOLEAN,       \* an enroll did not finish, or met a confirm
              issued : 0 .. MaxCodes, accepted : [1 .. MaxCodes -> Nat], \* backup codes
              unguarded : BOOLEAN,   \* a count of failures could not be read
              ttlLost : BOOLEAN,     \* the counter has got no expiry
              keyCrossed : BOOLEAN]  \* a key was disabled by a session, or while it revoked another

TypeOK ==
    /\ user \in Users
    /\ sessions \in [JTIs -> Sessions]
    /\ failures \in Nat
    /\ throttle \in [n : 0 .. LoginThrottlePerMin + 1, ttl : BOOLEAN]
    /\ keys \in [Keys -> [state : {"new", "enabled", "disabled"}, role : Roles]]
    /\ req \in [Requests -> Handlers]
    /\ hist \in Histories
    /\ scene \in Scenes /\ requests \in 0 .. MaxRequests /\ faults \in 0 .. MaxFaults

Idle == [kind |-> "login", at |-> "idle", jti |-> NoOne, key |-> NoOne, role |-> "VIEWER",
         secret |-> 0, code |-> 0, gen |-> 0, crossed |-> FALSE]

NoSession == [status |-> "none", role |-> "VIEWER", from |-> NoOne, gen |-> 0, late |-> FALSE]

\* An account that may have a session, its second factor and one backup code.
Account(there, mfa, open) ==
    /\ (mfa \/ open = 1) => there
    /\ user = [exists |-> there, role |-> "ADMIN", secret |-> IF mfa THEN 1 ELSE 0,
               enabled |-> mfa, codes |-> IF mfa THEN {1} ELSE {}]
    /\ sessions = [j \in JTIs |-> IF j <= open THEN [NoSession EXCEPT !.status = "live", !.role = "ADMIN"]
                                               ELSE NoSession]
    /\ hist = [gen |-> 0, unrevoked |-> FALSE, confirmed |-> IF mfa THEN 1 ELSE 0, doubt |-> FALSE,
               issued |-> IF mfa THEN 1 ELSE 0, accepted |-> [c \in 1 .. MaxCodes |-> 0],
               unguarded |-> FALSE, ttlLost |-> FALSE, keyCrossed |-> FALSE]

\* The first keys are enabled ADMIN keys. What the scene's requests never look
\* at starts in one way only.
Init ==
    /\ scene \in Scenes
    /\ \E there, mfa \in BOOLEAN, open \in {0, 1} :
          /\ scene \cap WithKey # {} => there /\ ~mfa /\ open = 0
          /\ Account(there, mfa, open)
    /\ \E active \in Keys :
          /\ scene \cap WithKey = {} => active = 1
          /\ keys = [k \in Keys |-> [state |-> IF k <= active THEN "enabled" ELSE "new", role |-> "ADMIN"]]
    /\ failures = 0 /\ throttle = [n |-> 0, ttl |-> FALSE]
    /\ req = [r \in Requests |-> Idle]
    /\ requests = 0 /\ faults = 0

At(r, p)   == req[r].at = p
Goto(r, p) == req' = [req EXCEPT ![r].at = p]
Answer(r)  == req' = [req EXCEPT ![r] = Idle]
Remember(r, h) == req' = [req EXCEPT ![r] = h]
Live(j)    == j # NoOne /\ sessions[j].status = "live"
bounds     == <<scene, requests, faults>>

\* A handler that has checked a credential of generation g and read a role.
Proven(r, p, role, g) == [req[r] EXCEPT !.at = p, !.role = role, !.gen = g]

-----------------------------------------------------------------------------
\* The first statement a handler sends.
Entry(kind) ==
    CASE kind \in WithToken -> "verify"
      [] kind \in WithKey -> "verifyKey"
      [] kind = "login" -> "throttle"
      [] kind = "oidc" -> "identify"
      [] kind = "create" -> "insert"
      [] kind = "reset" -> "password"
      [] kind = "signout" -> "revokeAll"
      [] OTHER -> "role"

\* A request arrives; an ADMIN's request on an account that is not there is refused.
Arrive(r, kind, jti, key) ==
    /\ At(r, "idle")
    /\ requests < MaxRequests
    /\ kind \in scene
    /\ jti \in IF kind \in WithToken THEN {j \in JTIs : sessions[j].status # "none"} ELSE {NoOne}
    /\ key \in IF kind \in WithKey THEN {k \in Keys : keys[k].state # "new"} \cup {NoOne} ELSE {NoOne}
    /\ kind \in {"reset", "signout", "role"} => user.exists
    /\ req' = [req EXCEPT ![r] = [Idle EXCEPT !.kind = kind, !.at = Entry(kind), !.jti = jti, !.key = key]]
    /\ requests' = requests + 1
    /\ UNCHANGED <<user, sessions, failures, throttle, keys, hist, scene, faults>>

-----------------------------------------------------------------------------
\* Mutated form of IncrThrottle: the window is opened by the second increment.
IncrLate(r) ==
    LET n == IF throttle.n > LoginThrottlePerMin THEN throttle.n ELSE throttle.n + 1 IN
    /\ At(r, "throttle")
    /\ throttle' = [throttle EXCEPT !.n = n]
    /\ IF n > LoginThrottlePerMin THEN Answer(r) ELSE Goto(r, IF n = 2 THEN "ttl" ELSE "count")
    /\ UNCHANGED <<user, sessions, failures, keys, hist, bounds>>

\* loginThrottled: a fixed window per address that the first increment opens.
\* The counter saturates one above the limit.
IncrThrottle(r) ==
    LET n == IF throttle.n > LoginThrottlePerMin THEN throttle.n ELSE throttle.n + 1 IN
    /\ At(r, "throttle")
    /\ throttle' = [throttle EXCEPT !.n = n]
    /\ IF n > LoginThrottlePerMin THEN Answer(r) ELSE Goto(r, IF n = 1 THEN "ttl" ELSE "count")
    /\ UNCHANGED <<user, sessions, failures, keys, hist, bounds>>

ExpireThrottle(r) ==
    /\ At(r, "ttl")
    /\ throttle' = [throttle EXCEPT !.ttl = TRUE]
    /\ Goto(r, "count")
    /\ UNCHANGED <<user, sessions, failures, keys, hist, bounds>>

\* Redis drops the counter at the end of its window.
ThrottleWindowEnds ==
    /\ throttle.ttl
    /\ throttle' = [n |-> 0, ttl |-> FALSE]
    /\ UNCHANGED <<user, sessions, failures, keys, req, hist, bounds>>

\* Mutated form of CountRecentFailures: one failure too many is let through.
CountOneMore(r) ==
    /\ At(r, "count")
    /\ IF failures > LoginMaxFailures THEN Answer(r) ELSE Goto(r, "user")
    /\ UNCHANGED <<user, sessions, failures, throttle, keys, hist, bounds>>

\* A locked account refuses whatever the password is, and records no attempt.
CountRecentFailures(r) ==
    /\ At(r, "count")
    /\ IF failures >= LoginMaxFailures THEN Answer(r) ELSE Goto(r, "user")
    /\ UNCHANGED <<user, sessions, failures, throttle, keys, hist, bounds>>

\* The oldest failure leaves the lockout window.
FailureAges ==
    /\ failures > 0
    /\ failures' = failures - 1
    /\ UNCHANGED <<user, sessions, throttle, keys, req, hist, bounds>>

\* The row read here decides about the password, the second factor and the role.
GetUserByEmail(r) ==
    /\ At(r, "user")
    /\ \/ Goto(r, "record")
       \/ /\ user.exists /\ ~user.enabled
          /\ Remember(r, Proven(r, "clear", user.role, hist.gen))
       \/ /\ user.exists /\ user.enabled
          /\ \/ Remember(r, Proven(r, "clear", user.role, hist.gen))
             \/ \E c \in 1 .. hist.issued :
                   Remember(r, [Proven(r, "consume", user.role, hist.gen) EXCEPT !.code = c])
    /\ UNCHANGED <<user, sessions, failures, throttle, keys, hist, bounds>>

\* Mutated form of ConsumeBackupCode: the code is found and left in place.
ConsumeKept(r) ==
    LET c == req[r].code IN
    /\ At(r, "consume")
    /\ \/ c \in user.codes /\ hist' = [hist EXCEPT !.accepted = [hist.accepted EXCEPT ![c] = @ + 1]] /\ Goto(r, "clear")
       \/ c \notin user.codes /\ Goto(r, "record") /\ UNCHANGED hist
    /\ UNCHANGED <<user, sessions, failures, throttle, keys, bounds>>

\* One UPDATE removes the code and says whether it was there.
ConsumeBackupCode(r) ==
    LET c == req[r].code IN
    /\ At(r, "consume")
    /\ \/ /\ c \in user.codes
          /\ user' = [user EXCEPT !.codes = @ \ {c}]
          /\ hist' = [hist EXCEPT !.accepted = [hist.accepted EXCEPT ![c] = @ + 1]]
          /\ Goto(r, "clear")
       \/ c \notin user.codes /\ Goto(r, "record") /\ UNCHANGED <<user, hist>>
    /\ UNCHANGED <<sessions, failures, throttle, keys, bounds>>

RecordLoginAttempt(r) ==
    /\ At(r, "record")
    /\ failures' = failures + 1
    /\ Answer(r)
    /\ UNCHANGED <<user, sessions, throttle, keys, hist, bounds>>

ClearLoginFailures(r) ==
    /\ At(r, "clear")
    /\ failures' = 0
    /\ Goto(r, "create")
    /\ UNCHANGED <<user, sessions, throttle, keys, hist, bounds>>

\* The session gets the role that was read, or the claims' role on a refresh.
CreateSession(r) ==
    /\ At(r, "create")
    /\ \E j \in JTIs :
          /\ sessions[j].status = "none"
          /\ \A i \in JTIs : i < j => sessions[i].status # "none"
          /\ sessions' = [sessions EXCEPT ![j] =
                [status |-> "live", role |-> req[r].role, from |-> req[r].jti,
                 gen |-> req[r].gen, late |-> req[r].crossed]]
    /\ Answer(r)
    /\ UNCHANGED <<user, failures, throttle, keys, hist, bounds>>

-----------------------------------------------------------------------------
\* handleOIDCLogin after the identity provider's answer: a verified email is
\* looked up, and may be provisioned. The second factor is not asked for.
IdentifyUser(r) ==
    /\ At(r, "identify")
    /\ \/ Answer(r)
       \/ user.exists /\ Remember(r, Proven(r, "create", user.role, hist.gen))
       \/ ~user.exists /\ OIDCAutoProvision /\ Goto(r, "provision")
    /\ UNCHANGED <<user, sessions, failures, throttle, keys, hist, bounds>>

NewUser(role) == [exists |-> TRUE, role |-> role, secret |-> 0, enabled |-> FALSE, codes |-> {}]

\* The email is unique: the second of two provisions gets an error.
ProvisionUser(r) ==
    /\ At(r, "provision")
    /\ \/ user.exists /\ Answer(r) /\ UNCHANGED user
       \/ /\ ~user.exists
          /\ user' = NewUser("VIEWER")
          /\ Remember(r, Proven(r, "create", "VIEWER", hist.gen))
    /\ UNCHANGED <<sessions, failures, throttle, keys, hist, bounds>>

HandleCreateUser(r) ==
    /\ At(r, "insert")
    /\ \/ user.exists /\ UNCHANGED user
       \/ ~user.exists /\ \E role \in Roles : user' = NewUser(role)
    /\ Answer(r)
    /\ UNCHANGED <<sessions, failures, throttle, keys, hist, bounds>>

-----------------------------------------------------------------------------
\* What follows the token's verification, by kind of request.
Verified(kind) ==
    CASE kind = "logout" -> "revoke" [] kind = "refresh" -> "rotate" [] kind = "change" -> "check"
      [] kind = "enroll" -> "secret" [] kind \in {"confirm", "disable"} -> "load"
      [] OTHER -> "codes"

\* verifySessionToken: the row must be live. Only the token names its role.
VerifySessionToken(r) ==
    /\ At(r, "verify")
    /\ IF Live(req[r].jti) THEN Goto(r, Verified(req[r].kind)) ELSE Answer(r)
    /\ UNCHANGED <<user, sessions, failures, throttle, keys, hist, bounds>>

\* sessionTTL passes.
SessionExpires(j) ==
    /\ sessions[j].status = "live"
    /\ sessions' = [sessions EXCEPT ![j].status = "expired"]
    /\ UNCHANGED <<user, failures, throttle, keys, req, hist, bounds>>

\* The UPDATE finds a row that is not revoked yet, or reports ErrNotFound.
Revocable(j) == j # NoOne /\ sessions[j].status \in {"live", "expired"}
Revoke(j) == sessions' = [sessions EXCEPT ![j].status = "revoked"]

HandleLogout(r) ==
    /\ At(r, "revoke")
    /\ IF Revocable(req[r].jti) THEN Revoke(req[r].jti) ELSE UNCHANGED sessions
    /\ Answer(r)
    /\ UNCHANGED <<user, failures, throttle, keys, hist, bounds>>

\* Mutated form of RotateSession: a row revoked already is no error.
RotateAgain(r) ==
    LET old == sessions[req[r].jti] IN
    /\ At(r, "rotate")
    /\ Revoke(req[r].jti)
    /\ Remember(r, [Proven(r, "create", old.role, old.gen) EXCEPT !.crossed = old.late])
    /\ UNCHANGED <<user, failures, throttle, keys, hist, bounds>>

\* handleRefresh revokes the old session, and only then creates the new one.
RotateSession(r) ==
    LET old == sessions[req[r].jti] IN
    /\ At(r, "rotate")
    /\ \/ ~Revocable(req[r].jti) /\ Answer(r) /\ UNCHANGED sessions
       \/ /\ Revocable(req[r].jti)
          /\ Revoke(req[r].jti)
          /\ Remember(r, [Proven(r, "create", old.role, old.gen) EXCEPT !.crossed = old.late])
    /\ UNCHANGED <<user, failures, throttle, keys, hist, bounds>>

-----------------------------------------------------------------------------
\* handleChangePassword compares the current password with the row it reads.
CheckPassword(r) ==
    /\ At(r, "check")
    /\ Answer(r) \/ Goto(r, "password")
    /\ UNCHANGED <<user, sessions, failures, throttle, keys, hist, bounds>>

\* Mutated form of SetUserPassword: the sessions are left alone.
SetPasswordOnly(r) ==
    /\ At(r, "password")
    /\ hist' = [hist EXCEPT !.gen = @ + 1]
    /\ Answer(r)
    /\ UNCHANGED <<user, sessions, failures, throttle, keys, bounds>>

SetUserPassword(r) ==
    /\ At(r, "password")
    /\ hist' = [hist EXCEPT !.gen = @ + 1]
    /\ Goto(r, IF req[r].kind = "change" THEN "reverify" ELSE "revokeAll")
    /\ UNCHANGED <<user, sessions, failures, throttle, keys, bounds>>

\* A user's own change verifies its token again and revokes that session first.
ReverifyToken(r) ==
    /\ At(r, "reverify")
    /\ Goto(r, IF Live(req[r].jti) THEN "revokeOne" ELSE "revokeAll")
    /\ UNCHANGED <<user, sessions, failures, throttle, keys, hist, bounds>>

RevokeOwnSession(r) ==
    /\ At(r, "revokeOne")
    /\ IF Revocable(req[r].jti) THEN Revoke(req[r].jti) ELSE UNCHANGED sessions
    /\ Goto(r, "revokeAll")
    /\ UNCHANGED <<user, failures, throttle, keys, hist, bounds>>

\* Requests that have checked their credential and will still create a session.
Admitted(r) == req[r].at \in {"consume", "clear", "create"}

\* One UPDATE over the sessions there are; a session that a request in flight
\* is about to create is not among them.
RevokeUserSessions(r) ==
    /\ At(r, "revokeAll")
    /\ sessions' = [j \in JTIs |-> IF Revocable(j) THEN [sessions[j] EXCEPT !.status = "revoked"]
                                                   ELSE sessions[j]]
    /\ hist' = [hist EXCEPT !.unrevoked = FALSE,
                            !.gen = IF req[r].kind = "signout" THEN @ + 1 ELSE @]
    /\ req' = [q \in Requests |-> IF q = r THEN Idle
                                  ELSE [req[q] EXCEPT !.crossed = @ \/ Admitted(q)]]
    /\ UNCHANGED <<user, failures, throttle, keys, bounds>>

\* handleChangeRole touches no session.
HandleChangeRole(r) ==
    /\ At(r, "role")
    /\ \E role \in Roles : user' = [user EXCEPT !.role = role]
    /\ Answer(r)
    /\ UNCHANGED <<sessions, failures, throttle, keys, hist, bounds>>

-----------------------------------------------------------------------------
\* Confirmations that have checked their code against the secret before.
Confirming(q) == req[q].at = "enable"

\* Mutated form of SetTOTPSecret: an enabled second factor stays enabled.
SetSecretOnly(r) ==
    /\ At(r, "secret")
    /\ user.secret < MaxSecrets
    /\ user' = [user EXCEPT !.secret = @ + 1]
    /\ req' = [q \in Requests |-> IF q = r THEN Idle
                                  ELSE [req[q] EXCEPT !.crossed = @ \/ Confirming(q)]]
    /\ UNCHANGED <<sessions, failures, throttle, keys, hist, bounds>>

\* handleMFAEnroll: a fresh secret, and then the second factor is switched off.
SetTOTPSecret(r) ==
    /\ At(r, "secret")
    /\ user.secret < MaxSecrets
    /\ user' = [user EXCEPT !.secret = @ + 1]
    /\ req' = [q \in Requests |-> IF q = r THEN [req[r] EXCEPT !.at = "reset"]
                                  ELSE [req[q] EXCEPT !.crossed = @ \/ Confirming(q)]]
    /\ UNCHANGED <<sessions, failures, throttle, keys, hist, bounds>>

\* SetTOTPEnabled(false), at the end of an enroll and of a disable.
TurnOffTOTP(r) ==
    /\ At(r, "reset") \/ At(r, "turnOff")
    /\ user' = [user EXCEPT !.enabled = FALSE]
    /\ hist' = [hist EXCEPT !.doubt = FALSE]
    /\ Answer(r)
    /\ UNCHANGED <<sessions, failures, throttle, keys, bounds>>

\* handleMFAConfirm and handleMFADisable: no secret and a bad code are refused.
GetUserTOTPSecret(r) ==
    /\ At(r, "load")
    /\ \/ Answer(r)
       \/ /\ user.secret # 0
          /\ Remember(r, [req[r] EXCEPT !.at = IF req[r].kind = "confirm" THEN "enable" ELSE "turnOff",
                                        !.secret = user.secret])
    /\ UNCHANGED <<user, sessions, failures, throttle, keys, hist, bounds>>

\* SetTOTPEnabled(true): for whatever secret the row has by now.
EnableTOTP(r) ==
    /\ At(r, "enable")
    /\ user' = [user EXCEPT !.enabled = TRUE]
    /\ hist' = [hist EXCEPT !.confirmed = req[r].secret, !.doubt = req[r].crossed]
    /\ Answer(r)
    /\ UNCHANGED <<sessions, failures, throttle, keys, bounds>>

\* A fresh set replaces the old one; one code stands for the ten of a set.
SetBackupCodes(r) ==
    /\ At(r, "codes")
    /\ hist.issued < MaxCodes
    /\ user' = [user EXCEPT !.codes = {hist.issued + 1}]
    /\ hist' = [hist EXCEPT !.issued = @ + 1]
    /\ Answer(r)
    /\ UNCHANGED <<sessions, failures, throttle, keys, bounds>>

-----------------------------------------------------------------------------
\* requireAPIKey and requireRole("ADMIN"), or an ADMIN's session (NoOne).
VerifyAPIKey(r) ==
    LET k == req[r].key IN
    /\ At(r, "verifyKey")
    /\ IF k = NoOne \/ (keys[k].state = "enabled" /\ rank(keys[k].role) >= rank("ADMIN"))
       THEN Goto(r, IF req[r].kind = "mint" THEN "mintKey" ELSE "disableKey")
       ELSE Answer(r)
    /\ UNCHANGED <<user, sessions, failures, throttle, keys, hist, bounds>>

HandleCreateAPIKey(r) ==
    /\ At(r, "mintKey")
    /\ \E k \in Keys, role \in Roles :
          /\ keys[k].state = "new"
          /\ \A i \in Keys : i < k => keys[i].state # "new"
          /\ keys' = [keys EXCEPT ![k] = [state |-> "enabled", role |-> role]]
    /\ Answer(r)
    /\ UNCHANGED <<user, sessions, failures, throttle, hist, bounds>>

\* Mutated form of HandleRevokeAPIKey: a key may revoke itself.
RevokeAnyKey(r) ==
    /\ At(r, "disableKey")
    /\ \E k \in Keys :
          /\ keys[k].state # "new"
          /\ keys' = [keys EXCEPT ![k].state = "disabled"]
          /\ hist' = [hist EXCEPT !.keyCrossed = @ \/ req[r].key = NoOne
                         \/ \E q \in Requests \ {r} : At(q, "disableKey") /\ req[q].key = k]
    /\ Answer(r)
    /\ UNCHANGED <<user, sessions, failures, throttle, bounds>>

\* A request may not revoke the key it was made with.
HandleRevokeAPIKey(r) ==
    /\ At(r, "disableKey")
    /\ \E k \in Keys \ {req[r].key} :
          /\ keys[k].state # "new"
          /\ keys' = [keys EXCEPT ![k].state = "disabled"]
          /\ hist' = [hist EXCEPT !.keyCrossed = @ \/ req[r].key = NoOne
                         \/ \E q \in Requests \ {r} : At(q, "disableKey") /\ req[q].key = k]
    /\ Answer(r)
    /\ UNCHANGED <<user, sessions, failures, throttle, bounds>>

-----------------------------------------------------------------------------
\* Where an error leaves the handler: some are ignored or only logged.
OnError(r) ==
    CASE At(r, "throttle") -> Goto(r, "count")
      [] At(r, "ttl") -> Goto(r, "count")
      [] At(r, "count") -> Goto(r, "user")
      [] At(r, "user") \/ At(r, "consume") -> Goto(r, "record")
      [] At(r, "clear") -> Goto(r, "create")
      [] At(r, "reverify") \/ At(r, "revokeOne") -> Goto(r, "revokeAll")
      [] OTHER -> Answer(r)

\* What a call that never took place leaves undone.
Undone(r) ==
    hist' = [hist EXCEPT !.ttlLost = @ \/ At(r, "ttl"),
                         !.unguarded = @ \/ At(r, "count"),
                         !.unrevoked = @ \/ (At(r, "revokeAll") /\ req[r].kind # "signout"),
                         !.doubt = @ \/ At(r, "reset")]

\* A statement fails.
CallFails(r) ==
    /\ ~At(r, "idle")
    /\ faults < MaxFaults
    /\ faults' = faults + 1
    /\ OnError(r)
    /\ Undone(r)
    /\ UNCHANGED <<user, sessions, failures, throttle, keys, scene, requests>>

\* The process stops: the handler is gone.
Crash(r) ==
    /\ ~At(r, "idle")
    /\ faults < MaxFaults
    /\ faults' = faults + 1
    /\ Answer(r)
    /\ hist' = [hist EXCEPT !.ttlLost = @ \/ At(r, "ttl"),
                            !.unrevoked = @ \/ At(r, "reverify") \/ At(r, "revokeOne")
                                            \/ (At(r, "revokeAll") /\ req[r].kind # "signout"),
                            !.doubt = @ \/ At(r, "reset")]
    /\ UNCHANGED <<user, sessions, failures, throttle, keys, scene, requests>>

-----------------------------------------------------------------------------
Handle(r) ==
    \/ IncrThrottle(r) \/ ExpireThrottle(r) \/ CountRecentFailures(r) \/ GetUserByEmail(r)
    \/ ConsumeBackupCode(r) \/ RecordLoginAttempt(r) \/ ClearLoginFailures(r) \/ CreateSession(r)
    \/ IdentifyUser(r) \/ ProvisionUser(r) \/ HandleCreateUser(r)
    \/ VerifySessionToken(r) \/ HandleLogout(r) \/ RotateSession(r)
    \/ CheckPassword(r) \/ SetUserPassword(r) \/ ReverifyToken(r) \/ RevokeOwnSession(r)
    \/ RevokeUserSessions(r) \/ HandleChangeRole(r)
    \/ SetTOTPSecret(r) \/ TurnOffTOTP(r) \/ GetUserTOTPSecret(r) \/ EnableTOTP(r) \/ SetBackupCodes(r)
    \/ VerifyAPIKey(r) \/ HandleCreateAPIKey(r) \/ HandleRevokeAPIKey(r)

Next ==
    \/ \E r \in Requests :
          \/ \E kind \in Kinds, jti \in JTIs \cup {NoOne}, key \in Keys \cup {NoOne} : Arrive(r, kind, jti, key)
          \/ Handle(r) \/ CallFails(r) \/ Crash(r)
    \/ \E j \in JTIs : SessionExpires(j)
    \/ ThrottleWindowEnds \/ FailureAges

\* A handler that has started goes on to its answer, and Redis keeps its clock.
Fairness == (\A r \in Requests : WF_vars(Handle(r))) /\ WF_vars(ThrottleWindowEnds)

Spec == Init /\ [][Next]_vars /\ Fairness

-----------------------------------------------------------------------------
\* A session is rotated at most once: two refreshes with the same token cannot
\* both get a new session, and the rotated session stays revoked.
RotatedOnce ==
    \A i \in JTIs : sessions[i].from # NoOne =>
        /\ sessions[sessions[i].from].status = "revoked"
        /\ \A j \in JTIs \ {i} : sessions[j].from # sessions[i].from

\* A change or reset of the password that has not come to its revocation yet.
Revoking == \E r \in Requests : /\ req[r].kind \in {"change", "reset"}
                                /\ req[r].at \in {"reverify", "revokeOne", "revokeAll"}

\* "All of that user's sessions are revoked": a live session is older than the
\* last password change or sign-out only while the revocation is under way or
\* failed, or when a login or refresh had passed its check before and created
\* the session after.
SignedOut ==
    \A j \in JTIs : Live(j) /\ sessions[j].gen < hist.gen => Revoking \/ hist.unrevoked \/ sessions[j].late

\* "concurrent logins cannot use the same code twice".
CodeUsedOnce == \A c \in 1 .. MaxCodes : hist.accepted[c] <= 1

\* The second factor is asked for only with a secret its user has confirmed,
\* unless an enroll stopped between its two writes or met a confirmation.
EnabledMeansConfirmed ==
    user.enabled => \/ user.secret = hist.confirmed
                    \/ hist.doubt
                    \/ \E r \in Requests : At(r, "reset")

\* The lockout counts: past the limit there are only the attempts that were in
\* flight together when the limit was reached.
LockoutHolds ==
    failures >= LoginMaxFailures + Cardinality(Requests) => hist.unguarded

\* Key management leaves an enabled ADMIN key, unless a session disabled keys or
\* two keys disabled each other at once.
KeyRemains ==
    \/ \E k \in Keys : keys[k].state = "enabled" /\ keys[k].role = "ADMIN"
    \/ hist.keyCrossed

\* The throttle always opens again, unless its counter never got an expiry.
ThrottleLifts == throttle.n > 0 ~> throttle.n = 0 \/ hist.ttlLost

====
