--------------------------- MODULE AccountsProofs ----------------------------
(***************************************************************************)
(* Theorems about Accounts, for any number of requests, sessions and keys. *)
(***************************************************************************)
EXTENDS Accounts, FiniteSetTheorems, TLAPS

\* Most leaves are first-order reasoning and left to Zenon; those that count, or that
\* take a record apart, name SMT.
USE ZenonT(15), SMTT(60)

\* The bounds one by one.
LEMMA Bounds ==
    /\ LoginMaxFailures \in Nat /\ LoginMaxFailures > 0
    /\ LoginThrottlePerMin \in Nat /\ LoginThrottlePerMin > 0
    /\ MaxSecrets \in Nat /\ MaxSecrets > 0 /\ MaxCodes \in Nat /\ MaxCodes > 0
    /\ MaxSessions \in Nat /\ MaxKeys \in Nat /\ MaxRequests \in Nat /\ MaxFaults \in Nat
BY SMTT(30), AccountsAssumption

\* Moving a handler, answering it, and Idle itself keep the type of req.
LEMMA HandlerOK ==
    ASSUME TypeOK, NEW r \in Requests
    PROVE  /\ Idle \in Handlers
           /\ Answer(r) => req' \in [Requests -> Handlers]
           /\ \A p \in Points : Goto(r, p) => req' \in [Requests -> Handlers]
<1>1. Idle \in Handlers
  BY SMTT(30), Bounds DEF Idle, Handlers, Kinds, Points, Roles, JTIs, Keys, NoOne
<1>2. Answer(r) => req' \in [Requests -> Handlers]
  BY <1>1 DEF Answer, TypeOK
<1>3. ASSUME NEW p \in Points, Goto(r, p) PROVE req' \in [Requests -> Handlers]
  BY SMTT(30), <1>3 DEF Goto, TypeOK, Handlers
<1> QED BY <1>1, <1>2, <1>3

\* So does what a handler remembers of a credential.
LEMMA RememberOK ==
    ASSUME TypeOK, NEW r \in Requests, NEW p \in Points, NEW role \in Roles, NEW g \in Nat
    PROVE  /\ Proven(r, p, role, g) \in Handlers
           /\ \A c \in 0 .. MaxCodes : [Proven(r, p, role, g) EXCEPT !.code = c] \in Handlers
           /\ \A b \in BOOLEAN : [Proven(r, p, role, g) EXCEPT !.crossed = b] \in Handlers
           /\ \A h \in Handlers : Remember(r, h) => req' \in [Requests -> Handlers]
<1>1. req[r] \in Handlers
  BY DEF TypeOK
<1>2. Proven(r, p, role, g) \in Handlers
  BY <1>1 DEF Handlers, Proven
<1>3. \A c \in 0 .. MaxCodes : [Proven(r, p, role, g) EXCEPT !.code = c] \in Handlers
  BY <1>2 DEF Handlers
<1>4. \A b \in BOOLEAN : [Proven(r, p, role, g) EXCEPT !.crossed = b] \in Handlers
  BY <1>2 DEF Handlers
<1>5. \A h \in Handlers : Remember(r, h) => req' \in [Requests -> Handlers]
  BY DEF Remember, TypeOK
<1> QED BY <1>2, <1>3, <1>4, <1>5

\* A handler stays a handler when one of these fields of it is set.
LEMMA FieldsOK ==
    ASSUME NEW h \in Handlers
    PROVE  /\ \A b \in BOOLEAN : [h EXCEPT !.crossed = b] \in Handlers
           /\ \A p \in Points : [h EXCEPT !.at = p] \in Handlers
           /\ \A p \in Points, x \in 0 .. MaxSecrets : [h EXCEPT !.at = p, !.secret = x] \in Handlers
BY DEF Handlers

\* Counting one more at one place keeps a function into the naturals.
LEMMA CountedOnce ==
    ASSUME NEW S, NEW f \in [S -> Nat], NEW c \in S
    PROVE  [f EXCEPT ![c] = @ + 1] \in [S -> Nat]
BY SMTT(30)

\* TypeOK is inductive: the steps of a login.
LEMMA TypeLogin ==
    ASSUME TypeOK, NEW r \in Requests
    PROVE  /\ IncrThrottle(r) => TypeOK'
           /\ ExpireThrottle(r) => TypeOK'
           /\ CountRecentFailures(r) => TypeOK'
           /\ GetUserByEmail(r) => TypeOK'
           /\ ConsumeBackupCode(r) => TypeOK'
           /\ RecordLoginAttempt(r) => TypeOK'
           /\ ClearLoginFailures(r) => TypeOK'
           /\ CreateSession(r) => TypeOK'
<1> USE HandlerOK DEF bounds, TypeOK, Points
<1>1. ASSUME IncrThrottle(r) PROVE TypeOK'
  <2>1. throttle' \in [n : 0 .. LoginThrottlePerMin + 1, ttl : BOOLEAN]
    BY SMTT(30), <1>1, Bounds DEF IncrThrottle
  <2> QED BY <1>1, <2>1 DEF IncrThrottle
<1>2. ASSUME ExpireThrottle(r) PROVE TypeOK'
  BY <1>2 DEF ExpireThrottle
<1>3. ASSUME CountRecentFailures(r) PROVE TypeOK'
  BY <1>3 DEF CountRecentFailures
<1>4. ASSUME GetUserByEmail(r) PROVE TypeOK'
  <2>1. user.role \in Roles /\ hist.gen \in Nat /\ 1 .. hist.issued \subseteq 0 .. MaxCodes
    BY SMTT(30), Bounds DEF Users, Histories
  <2>2. req' \in [Requests -> Handlers]
    <3>1. PICK role \in Roles, g \in Nat : role = user.role /\ g = hist.gen
      BY <2>1
    <3>2. ASSUME NEW h \in Handlers, Remember(r, h) PROVE req' \in [Requests -> Handlers]
      BY <3>1, <3>2, RememberOK
    <3>3. /\ Proven(r, "clear", role, g) \in Handlers
          /\ \A c \in 0 .. MaxCodes : [Proven(r, "consume", role, g) EXCEPT !.code = c] \in Handlers
      BY RememberOK
    <3>4. \/ Goto(r, "record")
          \/ Remember(r, Proven(r, "clear", role, g))
          \/ \E c \in 1 .. hist.issued : Remember(r, [Proven(r, "consume", role, g) EXCEPT !.code = c])
      BY <1>4, <3>1 DEF GetUserByEmail
    <3> QED BY <2>1, <3>2, <3>3, <3>4
  <2> QED BY <1>4, <2>2 DEF GetUserByEmail
<1>5. ASSUME ConsumeBackupCode(r) PROVE TypeOK'
  <2>1. CASE req[r].code \in user.codes
    <3>1. user' \in Users
      BY SMTT(30), <1>5, <2>1 DEF ConsumeBackupCode, Users
    <3>2. hist' \in Histories
      <4>1. hist.accepted \in [1 .. MaxCodes -> Nat] /\ req[r].code \in 1 .. MaxCodes
        BY <2>1 DEF Users, Histories
      <4> DEFINE counted == [hist.accepted EXCEPT ![req[r].code] = @ + 1]
      <4>2. counted \in [1 .. MaxCodes -> Nat]
        BY <4>1, CountedOnce
      <4>3. hist' = [hist EXCEPT !.accepted = counted]
        BY <1>5, <2>1 DEF ConsumeBackupCode
      <4> HIDE DEF counted
      <4> QED BY <4>2, <4>3 DEF Histories
    <3> QED BY <1>5, <2>1, <3>1, <3>2 DEF ConsumeBackupCode
  <2>2. CASE req[r].code \notin user.codes
    BY <1>5, <2>2 DEF ConsumeBackupCode
  <2> QED BY <2>1, <2>2
<1>6. ASSUME RecordLoginAttempt(r) PROVE TypeOK'
  BY SMTT(30), <1>6 DEF RecordLoginAttempt
<1>7. ASSUME ClearLoginFailures(r) PROVE TypeOK'
  BY <1>7 DEF ClearLoginFailures
<1>8. ASSUME CreateSession(r) PROVE TypeOK'
  <2>1. sessions' \in [JTIs -> Sessions]
    <3>1. /\ req[r].role \in Roles /\ req[r].jti \in JTIs \cup {NoOne}
          /\ req[r].gen \in Nat /\ req[r].crossed \in BOOLEAN
      BY DEF Handlers
    <3> DEFINE s == [status |-> "live", role |-> req[r].role, from |-> req[r].jti,
                     gen |-> req[r].gen, late |-> req[r].crossed]
    <3>2. PICK j \in JTIs : sessions' = [sessions EXCEPT ![j] = s]
      BY <1>8 DEF CreateSession
    <3>3. s \in Sessions
      BY <3>1 DEF Sessions
    <3> HIDE DEF s
    <3> QED BY <3>2, <3>3
  <2> QED BY <1>8, <2>1 DEF CreateSession
<1> QED BY <1>1, <1>2, <1>3, <1>4, <1>5, <1>6, <1>7, <1>8

\* The steps of SSO, provisioning, and the handlers that carry a token.
LEMMA TypeSession ==
    ASSUME TypeOK, NEW r \in Requests
    PROVE  /\ IdentifyUser(r) => TypeOK'
           /\ ProvisionUser(r) => TypeOK'
           /\ HandleCreateUser(r) => TypeOK'
           /\ VerifySessionToken(r) => TypeOK'
           /\ HandleLogout(r) => TypeOK'
           /\ RotateSession(r) => TypeOK'
           /\ CheckPassword(r) => TypeOK'
           /\ SetUserPassword(r) => TypeOK'
           /\ ReverifyToken(r) => TypeOK'
           /\ RevokeOwnSession(r) => TypeOK'
           /\ RevokeUserSessions(r) => TypeOK'
           /\ HandleChangeRole(r) => TypeOK'
<1> USE HandlerOK DEF bounds, TypeOK, Points
<1>a. user.role \in Roles /\ hist.gen \in Nat /\ "VIEWER" \in Roles /\ \A role \in Roles : NewUser(role) \in Users
  BY SMTT(30), Bounds DEF Users, Histories, Roles, NewUser
<1>b. Revocable(req[r].jti) => req[r].jti \in JTIs
  BY DEF Revocable, Handlers
<1>c. Revocable(req[r].jti) /\ Revoke(req[r].jti) => sessions' \in [JTIs -> Sessions]
  BY SMTT(30), <1>b DEF Revoke, Sessions
<1>1. ASSUME IdentifyUser(r) PROVE TypeOK'
  BY <1>1, <1>a, RememberOK DEF IdentifyUser
<1>2. ASSUME ProvisionUser(r) PROVE TypeOK'
  BY <1>2, <1>a, RememberOK DEF ProvisionUser
<1>3. ASSUME HandleCreateUser(r) PROVE TypeOK'
  BY <1>3, <1>a DEF HandleCreateUser
<1>4. ASSUME VerifySessionToken(r) PROVE TypeOK'
  <2>1. Verified(req[r].kind) \in Points
    BY DEF Verified
  <2> QED BY <1>4, <2>1 DEF VerifySessionToken
<1>5. ASSUME HandleLogout(r) PROVE TypeOK'
  BY <1>5, <1>c DEF HandleLogout
<1>6. ASSUME RotateSession(r) PROVE TypeOK'
  <2>1. CASE ~Revocable(req[r].jti)
    BY <1>6, <2>1 DEF RotateSession
  <2>2. CASE Revocable(req[r].jti)
    <3> DEFINE old == sessions[req[r].jti]
    <3>1. old.role \in Roles /\ old.gen \in Nat /\ old.late \in BOOLEAN
      BY <1>b, <2>2 DEF Sessions
    <3>2. req' \in [Requests -> Handlers]
      <4>1. PICK role \in Roles, g \in Nat, b \in BOOLEAN : role = old.role /\ g = old.gen /\ b = old.late
        BY <3>1
      <4>2. Remember(r, [Proven(r, "create", role, g) EXCEPT !.crossed = b])
        BY <1>6, <2>2, <4>1 DEF RotateSession
      <4>3. [Proven(r, "create", role, g) EXCEPT !.crossed = b] \in Handlers
        BY RememberOK
      <4> QED BY <4>1, <4>2, <4>3, RememberOK
    <3> QED BY <1>6, <2>2, <3>2, <1>c DEF RotateSession
  <2> QED BY <2>1, <2>2
<1>7. ASSUME CheckPassword(r) PROVE TypeOK'
  BY <1>7 DEF CheckPassword
<1>8. ASSUME SetUserPassword(r) PROVE TypeOK'
  <2>0. hist.gen \in Nat /\ hist' = [hist EXCEPT !.gen = @ + 1]
    BY <1>8, <1>a DEF SetUserPassword
  <2>1. hist' \in Histories
    BY SMTT(30), <2>0 DEF Histories
  <2> QED BY <1>8, <2>1 DEF SetUserPassword
<1>9. ASSUME ReverifyToken(r) PROVE TypeOK'
  BY <1>9 DEF ReverifyToken
<1>10. ASSUME RevokeOwnSession(r) PROVE TypeOK'
  BY <1>10, <1>c DEF RevokeOwnSession
<1>11. ASSUME RevokeUserSessions(r) PROVE TypeOK'
  <2>1. hist' \in Histories
    <3> DEFINE g == IF req[r].kind = "signout" THEN hist.gen + 1 ELSE hist.gen
    <3>1. g \in Nat
      BY SMTT(30), <1>a
    <3>2. hist' = [hist EXCEPT !.unrevoked = FALSE, !.gen = g]
      BY <1>11 DEF RevokeUserSessions
    <3> HIDE DEF g
    <3> QED BY <3>1, <3>2 DEF Histories
  <2>2. sessions' \in [JTIs -> Sessions]
    BY SMTT(30), <1>11 DEF RevokeUserSessions, Sessions
  <2>3. req' \in [Requests -> Handlers]
    <3>1. ASSUME NEW q \in Requests, NEW b \in BOOLEAN PROVE [req[q] EXCEPT !.crossed = b] \in Handlers
      BY FieldsOK
    <3>2. ASSUME NEW q \in Requests PROVE (req[q].crossed \/ Admitted(q)) \in BOOLEAN
      OBVIOUS
    <3> QED BY <1>11, <3>1, <3>2 DEF RevokeUserSessions
  <2> QED BY <1>11, <2>1, <2>2, <2>3 DEF RevokeUserSessions
<1>12. ASSUME HandleChangeRole(r) PROVE TypeOK'
  <2>1. user' \in Users
    BY <1>12 DEF HandleChangeRole, Users
  <2> QED BY <1>12, <2>1 DEF HandleChangeRole
<1> QED BY <1>1, <1>2, <1>3, <1>4, <1>5, <1>6, <1>7, <1>8, <1>9, <1>10, <1>11, <1>12

\* The steps of the second factor and of key management.
LEMMA TypeMfa ==
    ASSUME TypeOK, NEW r \in Requests
    PROVE  /\ SetTOTPSecret(r) => TypeOK'
           /\ TurnOffTOTP(r) => TypeOK'
           /\ GetUserTOTPSecret(r) => TypeOK'
           /\ EnableTOTP(r) => TypeOK'
           /\ SetBackupCodes(r) => TypeOK'
           /\ VerifyAPIKey(r) => TypeOK'
           /\ HandleCreateAPIKey(r) => TypeOK'
           /\ HandleRevokeAPIKey(r) => TypeOK'
<1>a. ASSUME NEW p \in Points PROVE [req[r] EXCEPT !.at = p, !.secret = user.secret] \in Handlers
  BY FieldsOK DEF TypeOK, Users
<1>b. \A n \in 0 .. MaxCodes : [hist EXCEPT !.issued = n] \in Histories
  BY DEF TypeOK, Histories
<1>c. \A n \in 0 .. MaxSecrets : [user EXCEPT !.secret = n] \in Users
  BY DEF TypeOK, Users
<1>d. \A n \in 0 .. MaxSecrets : n < MaxSecrets => n + 1 \in 0 .. MaxSecrets
  BY SMTT(30), Bounds
<1> USE HandlerOK DEF bounds, TypeOK, Points
<1>1. ASSUME SetTOTPSecret(r) PROVE TypeOK'
  <2>1. user' \in Users
    <3>1. user.secret + 1 \in 0 .. MaxSecrets
      BY <1>1, <1>d DEF SetTOTPSecret, Users
    <3> QED BY <1>1, <3>1, <1>c DEF SetTOTPSecret
  <2>2. [req[r] EXCEPT !.at = "reset"] \in Handlers
    BY FieldsOK
  <2>3. ASSUME NEW q \in Requests, NEW b \in BOOLEAN PROVE [req[q] EXCEPT !.crossed = b] \in Handlers
    BY FieldsOK
  <2>4. ASSUME NEW q \in Requests PROVE (req[q].crossed \/ Confirming(q)) \in BOOLEAN
    OBVIOUS
  <2>5. req' \in [Requests -> Handlers]
    BY <1>1, <2>2, <2>3, <2>4 DEF SetTOTPSecret
  <2> QED BY <1>1, <2>1, <2>5 DEF SetTOTPSecret
<1>2. ASSUME TurnOffTOTP(r) PROVE TypeOK'
  <2>1. user' \in Users /\ hist' \in Histories
    BY <1>2 DEF TurnOffTOTP, Users, Histories
  <2> QED BY <1>2, <2>1 DEF TurnOffTOTP
<1>3. ASSUME GetUserTOTPSecret(r) PROVE TypeOK'
  <2>1. req' \in [Requests -> Handlers]
    BY <1>3, <1>a DEF GetUserTOTPSecret, Remember
  <2> QED BY <1>3, <2>1 DEF GetUserTOTPSecret
<1>4. ASSUME EnableTOTP(r) PROVE TypeOK'
  <2>1. req[r].secret \in 0 .. MaxSecrets /\ req[r].crossed \in BOOLEAN
    BY DEF Handlers
  <2>2. user' \in Users /\ hist' \in Histories
    BY <1>4, <2>1 DEF EnableTOTP, Users, Histories
  <2> QED BY <1>4, <2>2 DEF EnableTOTP
<1>5. ASSUME SetBackupCodes(r) PROVE TypeOK'
  <2>0. hist.issued \in 0 .. MaxCodes
    BY DEF Histories
  <2>1. hist.issued + 1 \in 1 .. MaxCodes
    BY SMTT(30), <1>5, <2>0, Bounds DEF SetBackupCodes
  <2>2. user' \in Users
    BY <1>5, <2>1 DEF SetBackupCodes, Users
  <2>3. hist' \in Histories
    BY SMTT(30), <1>5, <2>1, <1>b DEF SetBackupCodes
  <2> QED BY <1>5, <2>2, <2>3 DEF SetBackupCodes
<1>6. ASSUME VerifyAPIKey(r) PROVE TypeOK'
  BY <1>6 DEF VerifyAPIKey
<1>7. ASSUME HandleCreateAPIKey(r) PROVE TypeOK'
  BY SMTT(30), <1>7 DEF HandleCreateAPIKey
<1>8. ASSUME HandleRevokeAPIKey(r) PROVE TypeOK'
  <2>1. PICK k \in Keys \ {req[r].key} :
           /\ keys' = [keys EXCEPT ![k].state = "disabled"]
           /\ hist' = [hist EXCEPT !.keyCrossed = hist.keyCrossed \/ req[r].key = NoOne
                         \/ \E q \in Requests \ {r} : At(q, "disableKey") /\ req[q].key = k]
    BY <1>8 DEF HandleRevokeAPIKey
  <2>2. (hist.keyCrossed \/ req[r].key = NoOne
            \/ \E q \in Requests \ {r} : At(q, "disableKey") /\ req[q].key = k) \in BOOLEAN
    OBVIOUS
  <2>3. \A b \in BOOLEAN : [hist EXCEPT !.keyCrossed = b] \in Histories
    BY DEF Histories
  <2>4. hist' \in Histories
    BY <2>1, <2>2, <2>3
  <2> QED BY <1>8, <2>1, <2>4 DEF HandleRevokeAPIKey
<1> QED BY <1>1, <1>2, <1>3, <1>4, <1>5, <1>6, <1>7, <1>8

\* A request that arrives, fails or dies, and the clocks.
LEMMA TypeRest ==
    ASSUME TypeOK
    PROVE  /\ \A r \in Requests : CallFails(r) \/ Crash(r) => TypeOK'
           /\ \A r \in Requests, kind \in Kinds, jti \in JTIs \cup {NoOne}, key \in Keys \cup {NoOne} :
                 Arrive(r, kind, jti, key) => TypeOK'
           /\ \A j \in JTIs : SessionExpires(j) => TypeOK'
           /\ ThrottleWindowEnds \/ FailureAges => TypeOK'
<1>a. ASSUME NEW b1 \in BOOLEAN, NEW b2 \in BOOLEAN, NEW b3 \in BOOLEAN, NEW b4 \in BOOLEAN
      PROVE  /\ [hist EXCEPT !.ttlLost = b1, !.unguarded = b2, !.unrevoked = b3, !.doubt = b4] \in Histories
             /\ [hist EXCEPT !.ttlLost = b1, !.unrevoked = b3, !.doubt = b4] \in Histories
  <2>1. \A h \in Histories, b \in BOOLEAN : [h EXCEPT !.ttlLost = b] \in Histories
    BY DEF Histories
  <2>2. \A h \in Histories, b \in BOOLEAN : [h EXCEPT !.unguarded = b] \in Histories
    BY DEF Histories
  <2>3. \A h \in Histories, b \in BOOLEAN : [h EXCEPT !.unrevoked = b] \in Histories
    BY DEF Histories
  <2>4. \A h \in Histories, b \in BOOLEAN : [h EXCEPT !.doubt = b] \in Histories
    BY DEF Histories
  <2>5. hist \in Histories
    BY DEF TypeOK
  <2> QED BY <2>1, <2>2, <2>3, <2>4, <2>5
<1>b. faults < MaxFaults => faults + 1 \in 0 .. MaxFaults
  BY SMTT(30), Bounds DEF TypeOK
<1>1. ASSUME NEW r \in Requests, CallFails(r) PROVE TypeOK'
  <2>1. req' \in [Requests -> Handlers]
    BY <1>1, HandlerOK DEF CallFails, OnError, Points
  <2>2. hist' \in Histories
    <3> DEFINE b1 == hist.ttlLost \/ At(r, "ttl")
               b2 == hist.unguarded \/ At(r, "count")
               b3 == hist.unrevoked \/ (At(r, "revokeAll") /\ req[r].kind # "signout")
               b4 == hist.doubt \/ At(r, "reset")
    <3>1. b1 \in BOOLEAN /\ b2 \in BOOLEAN /\ b3 \in BOOLEAN /\ b4 \in BOOLEAN
      OBVIOUS
    <3>2. hist' = [hist EXCEPT !.ttlLost = b1, !.unguarded = b2, !.unrevoked = b3, !.doubt = b4]
      BY <1>1 DEF CallFails, Undone
    <3> HIDE DEF b1, b2, b3, b4
    <3> QED BY <3>1, <3>2, <1>a
  <2> QED BY <1>1, <1>b, <2>1, <2>2 DEF CallFails, TypeOK
<1>2. ASSUME NEW r \in Requests, Crash(r) PROVE TypeOK'
  <2>1. req' \in [Requests -> Handlers]
    BY <1>2, HandlerOK DEF Crash
  <2>2. hist' \in Histories
    <3> DEFINE b1 == hist.ttlLost \/ At(r, "ttl")
               b3 == hist.unrevoked \/ At(r, "reverify") \/ At(r, "revokeOne")
                        \/ (At(r, "revokeAll") /\ req[r].kind # "signout")
               b4 == hist.doubt \/ At(r, "reset")
    <3>1. b1 \in BOOLEAN /\ b3 \in BOOLEAN /\ b4 \in BOOLEAN
      OBVIOUS
    <3>2. hist' = [hist EXCEPT !.ttlLost = b1, !.unrevoked = b3, !.doubt = b4]
      BY <1>2 DEF Crash
    <3> HIDE DEF b1, b3, b4
    <3> QED BY <3>1, <3>2, <1>a
  <2> QED BY <1>2, <1>b, <2>1, <2>2 DEF Crash, TypeOK
<1>3. ASSUME NEW r \in Requests, NEW kind \in Kinds, NEW jti \in JTIs \cup {NoOne},
             NEW key \in Keys \cup {NoOne}, Arrive(r, kind, jti, key)
      PROVE  TypeOK'
  <2>1. Entry(kind) \in Points
    BY DEF Entry, Points
  <2>2. [Idle EXCEPT !.kind = kind, !.at = Entry(kind), !.jti = jti, !.key = key] \in Handlers
    BY <2>1, HandlerOK DEF Handlers
  <2>3. requests' \in 0 .. MaxRequests
    BY SMTT(30), <1>3, Bounds DEF Arrive, TypeOK
  <2> QED BY <1>3, <2>2, <2>3 DEF Arrive, TypeOK
<1>4. ASSUME NEW j \in JTIs, SessionExpires(j) PROVE TypeOK'
  <2>1. sessions' \in [JTIs -> Sessions]
    BY SMTT(30), <1>4 DEF SessionExpires, Sessions, TypeOK
  <2> QED BY <1>4, <2>1 DEF SessionExpires, TypeOK, bounds
<1>5. ASSUME ThrottleWindowEnds PROVE TypeOK'
  BY SMTT(30), <1>5, Bounds DEF ThrottleWindowEnds, TypeOK, bounds
<1>6. ASSUME FailureAges PROVE TypeOK'
  BY SMTT(30), <1>6 DEF FailureAges, TypeOK, bounds
<1> QED BY <1>1, <1>2, <1>3, <1>4, <1>5, <1>6

\* Every step keeps the types.
LEMMA TypeStep == TypeOK /\ [Next]_vars => TypeOK'
<1> SUFFICES ASSUME TypeOK, [Next]_vars PROVE TypeOK'
  OBVIOUS
<1>1. CASE UNCHANGED vars
  BY <1>1 DEF vars, TypeOK
<1>2. ASSUME NEW r \in Requests, Handle(r) PROVE TypeOK'
  BY <1>2, TypeLogin, TypeSession, TypeMfa DEF Handle
<1> QED BY <1>1, <1>2, TypeRest DEF Next

\* The types hold at the start.
LEMMA TypeInit == Init => TypeOK
<1> SUFFICES ASSUME Init PROVE TypeOK
  OBVIOUS
<1>1. PICK there \in BOOLEAN, mfa \in BOOLEAN, open \in {0, 1} : Account(there, mfa, open)
  BY DEF Init
<1>2. user \in Users
  BY SMTT(30), <1>1, Bounds DEF Account, Users, Roles
<1>3. sessions \in [JTIs -> Sessions]
  BY <1>1 DEF Account, Sessions, NoSession, Roles
<1>4. keys \in [Keys -> [state : {"new", "enabled", "disabled"}, role : Roles]]
  BY SMTT(30) DEF Init, Roles
<1>5. hist \in Histories
  BY SMTT(30), <1>1, Bounds DEF Account, Histories
<1>6. Idle \in Handlers
  BY SMTT(30), Bounds DEF Idle, Handlers, Kinds, Points, Roles, JTIs, Keys, NoOne
<1> QED BY SMTT(30), <1>2, <1>3, <1>4, <1>5, <1>6, Bounds DEF Init, TypeOK

\* Every variable keeps its type, for any number of requests, sessions, keys,
\* codes and secrets.
THEOREM AccountsTyped == Spec => []TypeOK
<1> QED BY TypeInit, TypeStep, PTL DEF Spec

-----------------------------------------------------------------------------
\* Which kinds of request come to which point.
Along(kind, p) ==
    /\ p \in {"throttle", "ttl", "count", "user", "consume", "record", "clear"} => kind = "login"
    /\ p \in {"identify", "provision"} => kind = "oidc"
    /\ p = "create" => kind \in {"login", "oidc", "refresh"}
    /\ p = "rotate" => kind = "refresh"
    /\ p \in {"verify", "revoke", "secret", "reset", "load", "enable", "turnOff", "codes"} => kind \in WithToken
    /\ p \in {"reverify", "revokeOne", "check"} => kind = "change"
    /\ p = "password" => kind \in {"change", "reset"}
    /\ p = "revokeAll" => kind \in {"change", "reset", "signout"}

\* A handler is on its own kind's path, and has a token when its kind does.
FlowOK(r) ==
    /\ Along(req[r].kind, req[r].at)
    /\ req[r].kind \in WithToken <=> req[r].jti # NoOne

Flow == \A r \in Requests : FlowOK(r)

\* A handler that answers, or moves on along its path.
LEMMA FlowMove ==
    ASSUME TypeOK, Flow, NEW r \in Requests
    PROVE  /\ Answer(r) => Flow'
           /\ \A p \in Points : Goto(r, p) /\ Along(req[r].kind, p) => Flow'
           /\ \A h \in Handlers : /\ Remember(r, h) /\ Along(h.kind, h.at)
                                  /\ h.kind = req[r].kind /\ h.jti = req[r].jti
                                  => Flow'
<1>1. ASSUME Answer(r) PROVE Flow'
  <2>1. Along(Idle.kind, Idle.at) /\ Idle.kind \notin WithToken /\ Idle.jti = NoOne
    BY DEF Idle, Along, WithToken
  <2> QED BY <1>1, <2>1 DEF Answer, Flow, FlowOK, TypeOK
<1>2. ASSUME NEW p \in Points, Goto(r, p), Along(req[r].kind, p) PROVE Flow'
  BY SMTT(30), <1>2 DEF Goto, Flow, FlowOK, TypeOK, Handlers
<1>3. ASSUME NEW h \in Handlers, Remember(r, h), Along(h.kind, h.at), h.kind = req[r].kind, h.jti = req[r].jti
      PROVE  Flow'
  BY <1>3 DEF Remember, Flow, FlowOK, TypeOK
<1> QED BY <1>1, <1>2, <1>3

\* A credential that was checked takes a handler along its own path.
LEMMA FlowProven ==
    ASSUME TypeOK, Flow, NEW r \in Requests, NEW p \in Points, NEW role \in Roles, NEW g \in Nat,
           Along(req[r].kind, p)
    PROVE  /\ Remember(r, Proven(r, p, role, g)) => Flow'
           /\ \A c \in 0 .. MaxCodes : Remember(r, [Proven(r, p, role, g) EXCEPT !.code = c]) => Flow'
           /\ \A b \in BOOLEAN : Remember(r, [Proven(r, p, role, g) EXCEPT !.crossed = b]) => Flow'
<1> DEFINE h == Proven(r, p, role, g)
<1>1. h \in Handlers /\ h.at = p /\ h.kind = req[r].kind /\ h.jti = req[r].jti
  <2>1. h \in Handlers
    BY RememberOK
  <2>2. ASSUME NEW x \in Handlers
        PROVE  /\ [x EXCEPT !.at = p, !.role = role, !.gen = g].at = p
               /\ [x EXCEPT !.at = p, !.role = role, !.gen = g].kind = x.kind
               /\ [x EXCEPT !.at = p, !.role = role, !.gen = g].jti = x.jti
    BY DEF Handlers
  <2> QED BY <2>1, <2>2 DEF Proven, TypeOK
<1> HIDE DEF h
<1>2. ASSUME NEW c \in 0 .. MaxCodes
      PROVE  /\ [h EXCEPT !.code = c] \in Handlers /\ [h EXCEPT !.code = c].at = p
             /\ [h EXCEPT !.code = c].kind = req[r].kind /\ [h EXCEPT !.code = c].jti = req[r].jti
  BY <1>1 DEF Handlers
<1>3. ASSUME NEW b \in BOOLEAN
      PROVE  /\ [h EXCEPT !.crossed = b] \in Handlers /\ [h EXCEPT !.crossed = b].at = p
             /\ [h EXCEPT !.crossed = b].kind = req[r].kind /\ [h EXCEPT !.crossed = b].jti = req[r].jti
  BY <1>1 DEF Handlers
<1>4. \A x \in Handlers : Remember(r, x) /\ x.at = p /\ x.kind = req[r].kind /\ x.jti = req[r].jti => Flow'
  BY FlowMove
<1>5. /\ Remember(r, h) => Flow'
      /\ \A c \in 0 .. MaxCodes : Remember(r, [h EXCEPT !.code = c]) => Flow'
      /\ \A b \in BOOLEAN : Remember(r, [h EXCEPT !.crossed = b]) => Flow'
  BY <1>1, <1>2, <1>3, <1>4
<1> QED BY <1>5 DEF h

\* The control flow of the handlers.
LEMMA FlowStep == TypeOK /\ Flow /\ [Next]_vars => Flow'
<1> SUFFICES ASSUME TypeOK, Flow, [Next]_vars PROVE Flow'
  OBVIOUS
<1>a. \A r \in Requests : Along(req[r].kind, req[r].at)
  BY DEF Flow, FlowOK
<1>1. CASE UNCHANGED vars
  BY <1>1 DEF vars, Flow, FlowOK
<1>2. ASSUME NEW r \in Requests,
             \/ IncrThrottle(r) \/ ExpireThrottle(r) \/ CountRecentFailures(r) \/ ConsumeBackupCode(r)
             \/ RecordLoginAttempt(r) \/ ClearLoginFailures(r) \/ CreateSession(r)
      PROVE  Flow'
  BY <1>2, <1>a, FlowMove DEF Along, At, Points, IncrThrottle, ExpireThrottle, CountRecentFailures, ConsumeBackupCode, RecordLoginAttempt,
              ClearLoginFailures, CreateSession
<1>3. ASSUME NEW r \in Requests, GetUserByEmail(r) \/ IdentifyUser(r) \/ ProvisionUser(r) PROVE Flow'
  <2>1. user.role \in Roles /\ "VIEWER" \in Roles /\ hist.gen \in Nat /\ 1 .. hist.issued \subseteq 0 .. MaxCodes
    BY SMTT(30), Bounds DEF TypeOK, Users, Histories, Roles
  <2>2. {"clear", "consume", "create", "record", "provision"} \subseteq Points
    BY DEF Points
  <2>3. CASE GetUserByEmail(r)
    <3>1. req[r].kind = "login"
      BY <1>a, <2>3 DEF GetUserByEmail, At, Along
    <3>2. \A p \in {"clear", "consume", "record"} : Along("login", p)
      BY DEF Along
    <3> QED BY <2>1, <2>2, <2>3, <3>1, <3>2, FlowMove, FlowProven DEF GetUserByEmail
  <2>4. CASE IdentifyUser(r) \/ ProvisionUser(r)
    <3>1. req[r].kind = "oidc"
      BY <1>a, <2>4 DEF IdentifyUser, ProvisionUser, At, Along
    <3>2. \A p \in {"create", "provision"} : Along("oidc", p)
      BY DEF Along
    <3> QED BY <2>1, <2>2, <2>4, <3>1, <3>2, FlowMove, FlowProven DEF IdentifyUser, ProvisionUser
  <2> QED BY <1>3, <2>3, <2>4
<1>4. ASSUME NEW r \in Requests, RotateSession(r) PROVE Flow'
  <2>1. req[r].kind = "refresh" /\ req[r].jti \in JTIs
    BY <1>4, <1>a DEF RotateSession, At, Along, Flow, FlowOK, WithToken, TypeOK, Handlers
  <2>2. sessions[req[r].jti] \in Sessions
    BY <2>1 DEF TypeOK
  <2>3. /\ sessions[req[r].jti].role \in Roles /\ sessions[req[r].jti].gen \in Nat
        /\ sessions[req[r].jti].late \in BOOLEAN
    BY <2>2 DEF Sessions
  <2>4. Along("refresh", "create") /\ "create" \in Points /\ 0 \in 0 .. MaxCodes
    BY SMTT(30), Bounds DEF Along, Points
  <2> QED BY <1>4, <2>1, <2>3, <2>4, FlowMove, FlowProven DEF RotateSession
<1>5. ASSUME NEW r \in Requests, VerifySessionToken(r) PROVE Flow'
  BY <1>5, <1>a, FlowMove DEF Along, At, Points, VerifySessionToken, Verified, WithToken
<1>6. ASSUME NEW r \in Requests,
             \/ HandleCreateUser(r) \/ HandleLogout(r) \/ CheckPassword(r) \/ SetUserPassword(r)
             \/ ReverifyToken(r) \/ RevokeOwnSession(r) \/ HandleChangeRole(r)
      PROVE  Flow'
  BY <1>6, <1>a, FlowMove DEF Along, At, Points, HandleCreateUser, HandleLogout, CheckPassword, SetUserPassword, ReverifyToken,
              RevokeOwnSession, HandleChangeRole
<1>7. ASSUME NEW r \in Requests, RevokeUserSessions(r) PROVE Flow'
  <2>1. ASSUME NEW q \in Requests, q # r
        PROVE  req'[q].kind = req[q].kind /\ req'[q].at = req[q].at /\ req'[q].jti = req[q].jti
    BY <1>7, <2>1 DEF RevokeUserSessions, TypeOK, Handlers
  <2>2. req'[r] = Idle
    BY <1>7 DEF RevokeUserSessions
  <2>3. Along(Idle.kind, Idle.at) /\ Idle.kind \notin WithToken /\ Idle.jti = NoOne
    BY DEF Idle, Along, WithToken
  <2> QED BY <2>1, <2>2, <2>3 DEF Flow, FlowOK
<1>8. ASSUME NEW r \in Requests, SetTOTPSecret(r) PROVE Flow'
  <2>1. ASSUME NEW q \in Requests
        PROVE  /\ req'[q].kind = req[q].kind /\ req'[q].jti = req[q].jti
               /\ req'[q].at = IF q = r THEN "reset" ELSE req[q].at
    BY <1>8 DEF SetTOTPSecret, TypeOK, Handlers
  <2>2. Along(req[r].kind, "reset")
    BY <1>8, <1>a DEF Along, SetTOTPSecret, At
  <2> QED BY <2>1, <2>2 DEF Flow, FlowOK
<1>9. ASSUME NEW r \in Requests, GetUserTOTPSecret(r) PROVE Flow'
  <2> DEFINE p == IF req[r].kind = "confirm" THEN "enable" ELSE "turnOff"
             h == [req[r] EXCEPT !.at = p, !.secret = user.secret]
  <2>1. p \in Points /\ Along(req[r].kind, p)
    BY <1>9, <1>a DEF Points, Along, GetUserTOTPSecret, At
  <2>2. h \in Handlers /\ h.kind = req[r].kind /\ h.at = p /\ h.jti = req[r].jti
    <3> HIDE DEF p
    <3>1. user.secret \in 0 .. MaxSecrets /\ req[r] \in Handlers
      BY DEF TypeOK, Users
    <3> QED BY <2>1, <3>1, FieldsOK DEF Handlers
  <2> QED BY <1>9, <2>1, <2>2, FlowMove DEF GetUserTOTPSecret
<1>10. ASSUME NEW r \in Requests,
              \/ TurnOffTOTP(r) \/ EnableTOTP(r) \/ SetBackupCodes(r) \/ VerifyAPIKey(r)
              \/ HandleCreateAPIKey(r) \/ HandleRevokeAPIKey(r)
       PROVE  Flow'
  BY <1>10, <1>a, FlowMove DEF Along, At, Points, TurnOffTOTP, EnableTOTP, SetBackupCodes, VerifyAPIKey, HandleCreateAPIKey, HandleRevokeAPIKey
<1>11. ASSUME NEW r \in Requests, CallFails(r) PROVE Flow'
  BY <1>11, <1>a, FlowMove DEF CallFails, OnError, Along, At, Points
<1>12. ASSUME NEW r \in Requests, Crash(r) PROVE Flow'
  BY <1>12, FlowMove DEF Crash
<1>13. ASSUME NEW r \in Requests, NEW kind \in Kinds, NEW jti \in JTIs \cup {NoOne},
              NEW key \in Keys \cup {NoOne}, Arrive(r, kind, jti, key)
       PROVE  Flow'
  <2> DEFINE h == [Idle EXCEPT !.kind = kind, !.at = Entry(kind), !.jti = jti, !.key = key]
  <2>1. h.kind = kind /\ h.at = Entry(kind) /\ h.jti = jti
    BY DEF Idle
  <2>2. Along(kind, Entry(kind))
    BY DEF Along, Entry, WithToken, WithKey, Kinds
  <2>3. kind \in WithToken <=> jti # NoOne
    BY SMTT(30), <1>13 DEF Arrive, JTIs, NoOne
  <2>4. req' = [req EXCEPT ![r] = h]
    BY <1>13 DEF Arrive
  <2> HIDE DEF h
  <2> QED BY <2>1, <2>2, <2>3, <2>4 DEF Flow, FlowOK, TypeOK
<1>14. ASSUME (\E j \in JTIs : SessionExpires(j)) \/ ThrottleWindowEnds \/ FailureAges PROVE Flow'
  BY <1>14 DEF SessionExpires, ThrottleWindowEnds, FailureAges, Flow, FlowOK
<1>15. ASSUME NEW r \in Requests, Handle(r) PROVE Flow'
  BY <1>2, <1>3, <1>4, <1>5, <1>6, <1>7, <1>8, <1>9, <1>10, <1>15 DEF Handle
<1> QED BY <1>1, <1>11, <1>12, <1>13, <1>14, <1>15 DEF Next

\* What a step leaves of the handlers.
LEMMA Moved ==
    ASSUME TypeOK, NEW r \in Requests
    PROVE  /\ Answer(r) => req'[r] = Idle /\ \A q \in Requests \ {r} : req'[q] = req[q]
           /\ \A h : Remember(r, h) => req'[r] = h /\ \A q \in Requests \ {r} : req'[q] = req[q]
           /\ \A p : Goto(r, p) =>
                 /\ req'[r].at = p /\ req'[r].kind = req[r].kind /\ req'[r].jti = req[r].jti
                 /\ req'[r].key = req[r].key /\ req'[r].gen = req[r].gen
                 /\ req'[r].crossed = req[r].crossed /\ req'[r].secret = req[r].secret
                 /\ \A q \in Requests \ {r} : req'[q] = req[q]
<1>1. Answer(r) => req'[r] = Idle /\ \A q \in Requests \ {r} : req'[q] = req[q]
  BY DEF Answer, TypeOK
<1>2. \A h : Remember(r, h) => req'[r] = h /\ \A q \in Requests \ {r} : req'[q] = req[q]
  BY DEF Remember, TypeOK
<1>3. ASSUME NEW p, Goto(r, p)
      PROVE  /\ req'[r].at = p /\ req'[r].kind = req[r].kind /\ req'[r].jti = req[r].jti
             /\ req'[r].key = req[r].key /\ req'[r].gen = req[r].gen
             /\ req'[r].crossed = req[r].crossed /\ req'[r].secret = req[r].secret
             /\ \A q \in Requests \ {r} : req'[q] = req[q]
  <2>1. req' = [req EXCEPT ![r] = [req[r] EXCEPT !.at = p]]
    BY <1>3 DEF Goto
  <2>2. req'[r] = [req[r] EXCEPT !.at = p] /\ \A q \in Requests \ {r} : req'[q] = req[q]
    BY <2>1 DEF TypeOK
  <2>3. ASSUME NEW h \in Handlers
        PROVE  /\ [h EXCEPT !.at = p].at = p /\ [h EXCEPT !.at = p].kind = h.kind
               /\ [h EXCEPT !.at = p].jti = h.jti /\ [h EXCEPT !.at = p].key = h.key
               /\ [h EXCEPT !.at = p].gen = h.gen /\ [h EXCEPT !.at = p].crossed = h.crossed
               /\ [h EXCEPT !.at = p].secret = h.secret
    BY DEF Handlers
  <2> QED BY SMTT(30), <2>2, <2>3 DEF TypeOK
<1> QED BY <1>1, <1>2, <1>3

\* What a checked credential leaves of the handler.
LEMMA ProvenFields ==
    ASSUME TypeOK, NEW r \in Requests, NEW p, NEW role, NEW g, NEW c, NEW b
    PROVE  LET h == Proven(r, p, role, g) IN
           /\ h.at = p /\ h.kind = req[r].kind /\ h.jti = req[r].jti /\ h.gen = g
           /\ h.crossed = req[r].crossed
           /\ LET k == [h EXCEPT !.code = c] IN
              k.at = p /\ k.kind = req[r].kind /\ k.jti = req[r].jti /\ k.gen = g /\ k.crossed = req[r].crossed
           /\ LET k == [h EXCEPT !.crossed = b] IN
              k.at = p /\ k.kind = req[r].kind /\ k.jti = req[r].jti /\ k.gen = g /\ k.crossed = b
<1>1. ASSUME NEW x \in Handlers
      PROVE  LET h == [x EXCEPT !.at = p, !.role = role, !.gen = g] IN
             /\ h.at = p /\ h.kind = x.kind /\ h.jti = x.jti /\ h.gen = g /\ h.crossed = x.crossed
             /\ LET k == [h EXCEPT !.code = c] IN
                k.at = p /\ k.kind = x.kind /\ k.jti = x.jti /\ k.gen = g /\ k.crossed = x.crossed
             /\ LET k == [h EXCEPT !.crossed = b] IN
                k.at = p /\ k.kind = x.kind /\ k.jti = x.jti /\ k.gen = g /\ k.crossed = b
  BY DEF Handlers
<1> QED BY <1>1 DEF Proven, TypeOK

\* What a handler remembers for the session it is about to create.
LEMMA ProvenCreate ==
    ASSUME TypeOK, NEW r \in Requests
    PROVE  \A role, g : /\ Proven(r, "create", role, g).at = "create"
                        /\ \A b : /\ [Proven(r, "create", role, g) EXCEPT !.crossed = b].at = "create"
                                  /\ [Proven(r, "create", role, g) EXCEPT !.crossed = b].gen = g
                                  /\ [Proven(r, "create", role, g) EXCEPT !.crossed = b].crossed = b
<1>1. ASSUME NEW role, NEW g, NEW b
      PROVE  /\ Proven(r, "create", role, g).at = "create"
             /\ [Proven(r, "create", role, g) EXCEPT !.crossed = b].at = "create"
             /\ [Proven(r, "create", role, g) EXCEPT !.crossed = b].gen = g
             /\ [Proven(r, "create", role, g) EXCEPT !.crossed = b].crossed = b
  BY SMTT(30), ProvenFields
<1> QED BY SMTT(30), <1>1

-----------------------------------------------------------------------------
\* A refresh between its revocation and its insert.
Rotating(r) == req[r].kind = "refresh" /\ req[r].at = "create"

\* RotatedOnce is not inductive: the refreshes under way count as rotations.
RotInv ==
    /\ RotatedOnce
    /\ \A r \in Requests : Rotating(r) =>
          /\ sessions[req[r].jti].status = "revoked"
          /\ \A j \in JTIs : sessions[j].from # req[r].jti
          /\ \A q \in Requests \ {r} : Rotating(q) => req[q].jti # req[r].jti

\* Steps that start no rotation and revive no session.
LEMMA RotQuiet ==
    ASSUME TypeOK, Flow, RotInv,
           \A j \in JTIs : /\ sessions'[j].from = sessions[j].from
                           /\ sessions[j].status = "revoked" => sessions'[j].status = "revoked",
           \A q \in Requests : Rotating(q)' => Rotating(q) /\ req'[q].jti = req[q].jti
    PROVE  RotInv'
<1>1. \A q \in Requests : Rotating(q) => req[q].jti \in JTIs
  BY DEF Rotating, Flow, FlowOK, WithToken, TypeOK, Handlers
<1>2. RotatedOnce'
  <2>1. \A i \in JTIs : sessions[i].from # NoOne => sessions[i].from \in JTIs
    BY DEF TypeOK, Sessions
  <2> QED BY SMTT(30), <2>1 DEF RotInv, RotatedOnce
<1> QED BY SMTT(30), <1>1, <1>2 DEF RotInv, Rotating

\* No handler but a refresh that has revoked comes to be rotating.
LEMMA RotMove ==
    ASSUME TypeOK, NEW r \in Requests
    PROVE  /\ Answer(r) => \A q \in Requests : Rotating(q)' => Rotating(q) /\ req'[q].jti = req[q].jti
           /\ \A p : Goto(r, p) /\ (p # "create" \/ req[r].kind # "refresh") =>
                 \A q \in Requests : Rotating(q)' => Rotating(q) /\ req'[q].jti = req[q].jti
           /\ \A h : Remember(r, h) /\ (h.at # "create" \/ h.kind # "refresh") =>
                 \A q \in Requests : Rotating(q)' => Rotating(q) /\ req'[q].jti = req[q].jti
BY SMTT(30), Moved DEF Rotating, Idle

\* CreateSession: the session a refresh creates is the first from its old one.
LEMMA RotCreate ==
    ASSUME TypeOK, Flow, RotInv, NEW r \in Requests, CreateSession(r)
    PROVE  RotInv'
<1>1. PICK j \in JTIs :
         /\ sessions[j].status = "none"
         /\ sessions' = [sessions EXCEPT ![j] = [status |-> "live", role |-> req[r].role, from |-> req[r].jti,
                                                 gen |-> req[r].gen, late |-> req[r].crossed]]
  BY DEF CreateSession
<1>2. /\ sessions'[j].from = req[r].jti
      /\ \A i \in JTIs \ {j} : sessions'[i] = sessions[i]
  BY <1>1 DEF TypeOK
<1>3. req[r].jti # NoOne => Rotating(r) /\ req[r].jti \in JTIs
  BY DEF CreateSession, At, Flow, FlowOK, Along, WithToken, Rotating, TypeOK, Handlers
<1>4. \A q \in Requests : Rotating(q)' => Rotating(q) /\ q # r /\ req'[q].jti = req[q].jti
  BY SMTT(30), Moved DEF CreateSession, Rotating, Idle
<1>5. \A q \in Requests : Rotating(q) => req[q].jti \in JTIs /\ req[q].jti # NoOne
  BY DEF Rotating, Flow, FlowOK, WithToken, TypeOK, Handlers
<1>6. \A i \in JTIs : sessions[i].from # NoOne => sessions[i].from \in JTIs
  BY DEF TypeOK, Sessions
<1>7. RotatedOnce'
  <2>1. ASSUME NEW i \in JTIs, sessions'[i].from # NoOne
        PROVE  sessions'[i].from \in JTIs /\ sessions[sessions'[i].from].status = "revoked"
    BY SMTT(30), <1>2, <1>3, <1>6, <2>1 DEF RotInv, RotatedOnce
  <2>2. \A i \in JTIs : sessions[i].status = "revoked" => sessions'[i].status = "revoked"
    BY <1>1, <1>2
  <2>3. ASSUME NEW i \in JTIs, sessions'[i].from # NoOne, NEW k \in JTIs \ {i}
        PROVE  sessions'[k].from # sessions'[i].from
    BY SMTT(30), <1>2, <1>3, <2>3 DEF RotInv, RotatedOnce
  <2> QED BY <2>1, <2>2, <2>3 DEF RotatedOnce
<1>8. ASSUME NEW q \in Requests, Rotating(q)'
      PROVE  /\ sessions'[req'[q].jti].status = "revoked"
             /\ \A i \in JTIs : sessions'[i].from # req'[q].jti
  <2>1. Rotating(q) /\ q # r /\ req'[q].jti = req[q].jti /\ req[q].jti \in JTIs /\ req[q].jti # NoOne
    BY <1>4, <1>5, <1>8
  <2>2. req[q].jti # j
    BY <1>1, <2>1 DEF RotInv
  <2>3. req[r].jti # req[q].jti
    BY <1>3, <2>1 DEF RotInv
  <2> QED BY SMTT(30), <1>2, <2>1, <2>2, <2>3 DEF RotInv
<1> QED BY <1>4, <1>7, <1>8 DEF RotInv

\* RotateSession: of two refreshes of one session one finds it already revoked.
LEMMA RotRotate ==
    ASSUME TypeOK, Flow, RotInv, NEW r \in Requests, RotateSession(r)
    PROVE  RotInv'
<1>1. CASE ~Revocable(req[r].jti)
  BY <1>1, RotMove, RotQuiet DEF RotateSession
<1>2. CASE Revocable(req[r].jti)
  <2> DEFINE j == req[r].jti
  <2>1. j \in JTIs /\ req[r].kind = "refresh" /\ sessions[j].status # "revoked"
    BY <1>2 DEF RotateSession, At, Revocable, Flow, FlowOK, Along, TypeOK, Handlers
  <2>2. sessions' = [sessions EXCEPT ![j].status = "revoked"]
    BY <1>2 DEF RotateSession, Revoke
  <2>3. /\ sessions'[j].status = "revoked"
        /\ \A i \in JTIs : sessions'[i].from = sessions[i].from
        /\ \A i \in JTIs : sessions[i].status = "revoked" => sessions'[i].status = "revoked"
    BY SMTT(30), <2>1, <2>2 DEF TypeOK, Sessions
  <2>4. req'[r].jti = j /\ Rotating(r)' /\ \A q \in Requests \ {r} : req'[q] = req[q]
    <3> DEFINE h == [Proven(r, "create", sessions[j].role, sessions[j].gen) EXCEPT !.crossed = sessions[j].late]
    <3>1. Remember(r, h)
      BY <1>2 DEF RotateSession
    <3>2. h.at = "create" /\ h.kind = req[r].kind /\ h.jti = j
      BY SMTT(30), ProvenFields
    <3> HIDE DEF h, j
    <3>3. req'[r] = h /\ \A q \in Requests \ {r} : req'[q] = req[q]
      BY <3>1, Moved
    <3> QED BY <2>1, <3>2, <3>3 DEF Rotating
  <2>5. \A q \in Requests \ {r} : Rotating(q) => req[q].jti # j
    BY <2>1 DEF RotInv
  <2>6. \A i \in JTIs : sessions[i].from # j
    BY SMTT(30), <2>1 DEF RotInv, RotatedOnce, TypeOK, JTIs, NoOne
  <2>7. \A q \in Requests : Rotating(q) => req[q].jti \in JTIs
    BY DEF Rotating, Flow, FlowOK, WithToken, TypeOK, Handlers
  <2>8. RotatedOnce'
    <3>1. \A i \in JTIs : sessions[i].from # NoOne => sessions[i].from \in JTIs
      BY DEF TypeOK, Sessions
    <3> QED BY SMTT(30), <2>3, <3>1 DEF RotInv, RotatedOnce
  <2>9. \A q \in Requests \ {r} : Rotating(q)' => Rotating(q)
    BY <2>4 DEF Rotating
  <2> HIDE DEF j
  <2> QED BY SMTT(30), <2>3, <2>4, <2>5, <2>6, <2>7, <2>8, <2>9 DEF RotInv
<1> QED BY <1>1, <1>2

\* A session that is revoked stays revoked, and remembers what it came from.
LEMMA RotRevoke ==
    ASSUME TypeOK, NEW j \in JTIs, Revoke(j) \/ sessions' = sessions
    PROVE  \A i \in JTIs : /\ sessions'[i].from = sessions[i].from
                           /\ sessions[i].status = "revoked" => sessions'[i].status = "revoked"
BY SMTT(30) DEF Revoke, TypeOK, Sessions

\* Every step keeps the invariant about rotation.
LEMMA RotStep == TypeOK /\ Flow /\ RotInv /\ [Next]_vars => RotInv'
<1> SUFFICES ASSUME TypeOK, Flow, RotInv, [Next]_vars PROVE RotInv'
  OBVIOUS
<1>a. \A r \in Requests : Along(req[r].kind, req[r].at)
  BY DEF Flow, FlowOK
<1>b. ASSUME NEW r \in Requests, sessions' = sessions,
             \/ Answer(r)
             \/ \E p : Goto(r, p) /\ (p # "create" \/ req[r].kind # "refresh")
             \/ \E h : Remember(r, h) /\ (h.at # "create" \/ h.kind # "refresh")
      PROVE  RotInv'
  BY <1>b, RotMove, RotQuiet
<1>1. CASE UNCHANGED vars
  BY <1>1, RotQuiet DEF vars, Rotating
<1>2. ASSUME NEW r \in Requests,
             \/ IncrThrottle(r) \/ ExpireThrottle(r) \/ CountRecentFailures(r) \/ ConsumeBackupCode(r)
             \/ RecordLoginAttempt(r) \/ ClearLoginFailures(r) \/ HandleCreateUser(r) \/ CheckPassword(r)
             \/ SetUserPassword(r) \/ ReverifyToken(r) \/ HandleChangeRole(r) \/ TurnOffTOTP(r)
             \/ EnableTOTP(r) \/ SetBackupCodes(r) \/ VerifyAPIKey(r) \/ HandleCreateAPIKey(r)
             \/ HandleRevokeAPIKey(r)
      PROVE  RotInv'
  <2>1. CASE IncrThrottle(r) \/ ExpireThrottle(r) \/ CountRecentFailures(r)
    BY <2>1, <1>a, <1>b DEF IncrThrottle, ExpireThrottle, CountRecentFailures, Along, At
  <2>2. CASE ConsumeBackupCode(r) \/ RecordLoginAttempt(r) \/ ClearLoginFailures(r)
    BY <2>2, <1>a, <1>b DEF ConsumeBackupCode, RecordLoginAttempt, ClearLoginFailures, Along, At
  <2>3. CASE HandleCreateUser(r) \/ CheckPassword(r) \/ SetUserPassword(r)
    BY <2>3, <1>a, <1>b DEF HandleCreateUser, CheckPassword, SetUserPassword, Along, At
  <2>4. CASE ReverifyToken(r) \/ HandleChangeRole(r) \/ TurnOffTOTP(r)
    BY <2>4, <1>a, <1>b DEF ReverifyToken, HandleChangeRole, TurnOffTOTP, Along, At
  <2>5. CASE EnableTOTP(r) \/ SetBackupCodes(r)
    BY <2>5, <1>a, <1>b DEF EnableTOTP, SetBackupCodes, Along, At
  <2>6. CASE VerifyAPIKey(r)
    BY SMTT(30), <2>6, <1>a, <1>b DEF VerifyAPIKey, Along, At
  <2>7. CASE HandleCreateAPIKey(r) \/ HandleRevokeAPIKey(r)
    BY <2>7, <1>a, <1>b DEF HandleCreateAPIKey, HandleRevokeAPIKey, Along, At
  <2> QED
    BY <1>2, <2>1, <2>2, <2>3, <2>4, <2>5, <2>6, <2>7
<1>3. ASSUME NEW r \in Requests, GetUserByEmail(r) \/ IdentifyUser(r) \/ ProvisionUser(r) PROVE RotInv'
  <2>1. req[r].kind # "refresh"
    BY <1>3, <1>a DEF GetUserByEmail, IdentifyUser, ProvisionUser, At, Along
  <2>2. /\ sessions' = sessions
        /\ \/ Answer(r)
           \/ \E p : Goto(r, p)
           \/ \E p, role, g : Remember(r, Proven(r, p, role, g))
           \/ \E p, role, g, c : Remember(r, [Proven(r, p, role, g) EXCEPT !.code = c])
    BY <1>3 DEF GetUserByEmail, IdentifyUser, ProvisionUser
  <2>3. ASSUME NEW p, NEW role, NEW g, NEW c
        PROVE  /\ Proven(r, p, role, g).kind # "refresh"
               /\ [Proven(r, p, role, g) EXCEPT !.code = c].kind # "refresh"
    BY SMTT(30), <2>1, ProvenFields
  <2>4. CASE Answer(r) \/ \E p : Goto(r, p)
    BY <2>1, <2>2, <2>4, <1>b
  <2>5. ASSUME NEW p, NEW role, NEW g, Remember(r, Proven(r, p, role, g)) PROVE RotInv'
    <3> DEFINE h == Proven(r, p, role, g)
    <3>1. h.kind # "refresh"
      BY <2>3
    <3> HIDE DEF h
    <3> QED BY <2>2, <2>5, <3>1, <1>b DEF h
  <2>6. ASSUME NEW p, NEW role, NEW g, NEW c, Remember(r, [Proven(r, p, role, g) EXCEPT !.code = c])
        PROVE  RotInv'
    <3> DEFINE h == [Proven(r, p, role, g) EXCEPT !.code = c]
    <3>1. h.kind # "refresh"
      BY <2>3
    <3> HIDE DEF h
    <3> QED BY <2>2, <2>6, <3>1, <1>b DEF h
  <2> QED BY <2>2, <2>4, <2>5, <2>6
<1>4. ASSUME NEW r \in Requests, VerifySessionToken(r) PROVE RotInv'
  <2>1. Verified(req[r].kind) # "create"
    BY DEF Verified
  <2> QED BY <1>4, <2>1, <1>b DEF VerifySessionToken
<1>5. ASSUME NEW r \in Requests, HandleLogout(r) \/ RevokeOwnSession(r) PROVE RotInv'
  <2>1. Revocable(req[r].jti) => req[r].jti \in JTIs
    BY DEF Revocable, TypeOK, Handlers
  <2>2. \A i \in JTIs : /\ sessions'[i].from = sessions[i].from
                        /\ sessions[i].status = "revoked" => sessions'[i].status = "revoked"
    BY <1>5, <2>1, RotRevoke DEF HandleLogout, RevokeOwnSession
  <2>3. Answer(r) \/ Goto(r, "revokeAll")
    BY <1>5 DEF HandleLogout, RevokeOwnSession
  <2>4. \A q \in Requests : Rotating(q)' => Rotating(q) /\ req'[q].jti = req[q].jti
    BY <2>3, RotMove
  <2> QED BY <2>2, <2>4, RotQuiet
<1>6. ASSUME NEW r \in Requests, RevokeUserSessions(r) PROVE RotInv'
  <2>1. \A i \in JTIs : /\ sessions'[i].from = sessions[i].from
                        /\ sessions[i].status = "revoked" => sessions'[i].status = "revoked"
    BY <1>6 DEF RevokeUserSessions, TypeOK, Sessions
  <2>2. req'[r] = Idle
    BY <1>6 DEF RevokeUserSessions
  <2>3. ASSUME NEW q \in Requests, q # r
        PROVE  req'[q].kind = req[q].kind /\ req'[q].at = req[q].at /\ req'[q].jti = req[q].jti
    BY SMTT(30), <1>6, <2>3 DEF RevokeUserSessions, TypeOK, Handlers
  <2>4. \A q \in Requests : Rotating(q)' => Rotating(q) /\ req'[q].jti = req[q].jti
    BY SMTT(30), <2>2, <2>3 DEF Rotating, Idle
  <2> QED BY <2>1, <2>4, RotQuiet
<1>7. ASSUME NEW r \in Requests, SetTOTPSecret(r) PROVE RotInv'
  <2>1. ASSUME NEW q \in Requests
        PROVE  /\ req'[q].kind = req[q].kind /\ req'[q].jti = req[q].jti
               /\ req'[q].at = IF q = r THEN "reset" ELSE req[q].at
    BY <1>7 DEF SetTOTPSecret, TypeOK, Handlers
  <2>2. \A q \in Requests : Rotating(q)' => Rotating(q) /\ req'[q].jti = req[q].jti
    BY <2>1 DEF Rotating
  <2> QED BY <1>7, <2>2, RotQuiet DEF SetTOTPSecret
<1>8. ASSUME NEW r \in Requests, GetUserTOTPSecret(r) PROVE RotInv'
  <2> DEFINE p == IF req[r].kind = "confirm" THEN "enable" ELSE "turnOff"
             h == [req[r] EXCEPT !.at = p, !.secret = user.secret]
  <2>1. h.at # "create"
    BY DEF TypeOK, Handlers
  <2> QED BY <1>8, <2>1, <1>b DEF GetUserTOTPSecret
<1>9. ASSUME NEW r \in Requests, CallFails(r) \/ Crash(r) PROVE RotInv'
  BY <1>9, <1>a, <1>b DEF CallFails, Crash, OnError, Along, At
<1>10. ASSUME NEW r \in Requests, NEW kind \in Kinds, NEW jti \in JTIs \cup {NoOne},
              NEW key \in Keys \cup {NoOne}, Arrive(r, kind, jti, key)
       PROVE  RotInv'
  <2> DEFINE h == [Idle EXCEPT !.kind = kind, !.at = Entry(kind), !.jti = jti, !.key = key]
  <2>1. h.at # "create"
    BY DEF Idle, Entry
  <2> QED BY <1>10, <2>1, <1>b DEF Arrive, Remember
<1>11. ASSUME NEW j \in JTIs, SessionExpires(j) PROVE RotInv'
  <2>1. \A i \in JTIs : /\ sessions'[i].from = sessions[i].from
                        /\ sessions[i].status = "revoked" => sessions'[i].status = "revoked"
    BY <1>11 DEF SessionExpires, TypeOK, Sessions
  <2> QED BY <1>11, <2>1, RotQuiet DEF SessionExpires, Rotating
<1>12. ASSUME ThrottleWindowEnds \/ FailureAges PROVE RotInv'
  BY <1>12, RotQuiet DEF ThrottleWindowEnds, FailureAges, Rotating
<1>13. ASSUME NEW r \in Requests, Handle(r) PROVE RotInv'
  BY <1>2, <1>3, <1>4, <1>5, <1>6, <1>7, <1>8, <1>13, RotCreate, RotRotate DEF Handle
<1> QED BY <1>1, <1>9, <1>10, <1>11, <1>12, <1>13 DEF Next

\* No handler is at work and no session is rotated at the start.
LEMMA FlowInit == Init => Flow /\ RotInv
<1> SUFFICES ASSUME Init PROVE Flow /\ RotInv
  OBVIOUS
<1>1. Flow
  BY DEF Init, Flow, FlowOK, Along, Idle, WithToken
<1>2. \A j \in JTIs : sessions[j].from = NoOne
  BY SMTT(30) DEF Init, Account, NoSession
<1>3. \A r \in Requests : ~Rotating(r)
  BY DEF Init, Rotating, Idle
<1> QED BY <1>1, <1>2, <1>3 DEF RotInv, RotatedOnce

\* handleRefresh: however many refreshes run at once and wherever they stop, a
\* session has at most one successor, and is revoked when it has one.
THEOREM RotationUnique == Spec => []RotatedOnce
<1>1. Init => TypeOK /\ Flow /\ RotInv
  BY TypeInit, FlowInit
<1>2. TypeOK /\ Flow /\ RotInv /\ [Next]_vars => (TypeOK /\ Flow /\ RotInv)'
  BY TypeStep, FlowStep, RotStep
<1>3. RotInv => RotatedOnce
  BY DEF RotInv
<1> QED BY <1>1, <1>2, <1>3, PTL DEF Spec

-----------------------------------------------------------------------------
\* A generation that a password change or a sign-out has left behind may only
\* be that of a session or an admitted request for one of these reasons.
Excused(g, crossed) == g < hist.gen => Revoking \/ hist.unrevoked \/ crossed

\* SignedOut for the sessions that can still be rotated, expired ones included,
\* and for the requests that will create one.
SignInv ==
    /\ \A j \in JTIs : Revocable(j) => Excused(sessions[j].gen, sessions[j].late)
    /\ \A r \in Requests : Admitted(r) => Excused(req[r].gen, req[r].crossed)

\* A handler that owes the account its revocation.
Owes(r) == req[r].kind \in {"change", "reset"} /\ req[r].at \in {"reverify", "revokeOne", "revokeAll"}

\* What becomes of one handler: it keeps its debt, and is admitted no second time
\* unless its credential is of the present generation.
Plain(r) ==
    /\ Owes(r) => Owes(r)' \/ hist'.unrevoked
    /\ Admitted(r)' => \/ Admitted(r) /\ req'[r].gen = req[r].gen /\ req'[r].crossed = req[r].crossed
                       \/ req'[r].gen = hist.gen

\* The excuses stay, and nobody new needs one.
LEMMA SignQuiet ==
    ASSUME TypeOK, SignInv, hist'.gen = hist.gen, hist.unrevoked => hist'.unrevoked,
           \A j \in JTIs : Revocable(j)' => /\ Revocable(j) /\ sessions'[j].gen = sessions[j].gen
                                            /\ sessions'[j].late = sessions[j].late,
           \A q \in Requests : Plain(q)
    PROVE  SignInv'
<1>a. hist.gen \in Nat
  BY DEF TypeOK, Histories
<1>b. Revoking \/ hist.unrevoked => Revoking' \/ hist'.unrevoked
  BY DEF Plain, Owes, Revoking
<1>1. \A j \in JTIs : Revocable(j)' => Excused(sessions[j].gen, sessions[j].late)'
  BY <1>b DEF SignInv, Excused
<1>2. \A r \in Requests : Admitted(r)' => Excused(req[r].gen, req[r].crossed)'
  BY SMTT(30), <1>a, <1>b DEF SignInv, Excused, Plain
<1> QED BY <1>1, <1>2 DEF SignInv

\* One handler moves on, by an answer, along its way or with something read.
LEMMA SignMove ==
    ASSUME TypeOK, NEW r \in Requests,
           \/ Answer(r) /\ (Owes(r) => hist'.unrevoked)
           \/ \E p : /\ Goto(r, p)
                     /\ Owes(r) => p \in {"reverify", "revokeOne", "revokeAll"} \/ hist'.unrevoked
                     /\ p \in {"consume", "clear", "create"} => Admitted(r)
           \/ \E h : /\ Remember(r, h) /\ ~Owes(r)
                     /\ h.at \in {"consume", "clear", "create"} => h.gen = hist.gen
    PROVE  \A q \in Requests : Plain(q)
<1>1. \A q \in Requests : req'[q] = req[q] => Plain(q)
  BY DEF Plain, Owes, Admitted
<1>2. Plain(r) /\ \A q \in Requests \ {r} : req'[q] = req[q]
  <2>1. CASE Answer(r) /\ (Owes(r) => hist'.unrevoked)
    <3>1. req'[r] = Idle /\ \A q \in Requests \ {r} : req'[q] = req[q]
      BY <2>1, Moved
    <3>2. Idle.at = "idle"
      BY DEF Idle
    <3> QED BY SMTT(30), <2>1, <3>1, <3>2 DEF Plain, Owes, Admitted
  <2>2. ASSUME NEW p, Goto(r, p), Owes(r) => p \in {"reverify", "revokeOne", "revokeAll"} \/ hist'.unrevoked,
               p \in {"consume", "clear", "create"} => Admitted(r)
        PROVE  Plain(r) /\ \A q \in Requests \ {r} : req'[q] = req[q]
    BY <2>2, Moved DEF Plain, Owes, Admitted
  <2>3. ASSUME NEW h, Remember(r, h), ~Owes(r), h.at \in {"consume", "clear", "create"} => h.gen = hist.gen
        PROVE  Plain(r) /\ \A q \in Requests \ {r} : req'[q] = req[q]
    BY <2>3, Moved DEF Plain, Admitted
  <2> QED BY <2>1, <2>2, <2>3
<1> QED BY <1>1, <1>2

\* The new session has the excuse of the handler that creates it.
LEMMA SignCreate ==
    ASSUME TypeOK, SignInv, NEW r \in Requests, CreateSession(r)
    PROVE  SignInv'
<1>1. PICK j \in JTIs :
         sessions' = [sessions EXCEPT ![j] = [status |-> "live", role |-> req[r].role, from |-> req[r].jti,
                                              gen |-> req[r].gen, late |-> req[r].crossed]]
  BY DEF CreateSession
<1>2. /\ sessions'[j].gen = req[r].gen /\ sessions'[j].late = req[r].crossed
      /\ \A i \in JTIs \ {j} : sessions'[i] = sessions[i]
  BY <1>1 DEF TypeOK
<1>3. Admitted(r) /\ ~Owes(r)
  BY DEF CreateSession, At, Admitted, Owes
<1>4. \A q \in Requests : Plain(q)
  BY <1>3, SignMove DEF CreateSession
<1>5. Revoking \/ hist.unrevoked => Revoking' \/ hist'.unrevoked
  BY <1>4 DEF Plain, Owes, Revoking, CreateSession
<1>6. \A i \in JTIs : Revocable(i)' => Excused(sessions[i].gen, sessions[i].late)'
  <2>1. Excused(req[r].gen, req[r].crossed)
    BY <1>3 DEF SignInv
  <2>2. Excused(sessions[j].gen, sessions[j].late)'
    BY <1>2, <1>5, <2>1 DEF Excused, CreateSession
  <2>3. \A i \in JTIs \ {j} : Revocable(i)' => Excused(sessions[i].gen, sessions[i].late)'
    BY <1>2, <1>5 DEF Excused, CreateSession, SignInv, Revocable
  <2> QED BY <2>2, <2>3
<1>7. \A q \in Requests : Admitted(q)' => Excused(req[q].gen, req[q].crossed)'
  <2>1. \A q \in Requests : Admitted(q)' => q # r /\ req'[q] = req[q] /\ Admitted(q)
    BY SMTT(30), Moved DEF CreateSession, Admitted, Idle
  <2> QED BY <1>5, <2>1 DEF SignInv, Excused, CreateSession
<1> QED BY <1>6, <1>7 DEF SignInv

\* The refresh takes over the excuse of the session it revokes.
LEMMA SignRotate ==
    ASSUME TypeOK, Flow, SignInv, NEW r \in Requests, RotateSession(r)
    PROVE  SignInv'
<1>a. ~Owes(r) /\ hist' = hist
  BY DEF RotateSession, At, Owes
<1>1. CASE ~Revocable(req[r].jti)
  <2>1. Answer(r) /\ sessions' = sessions
    BY <1>1 DEF RotateSession
  <2> QED BY <1>a, <2>1, SignMove, SignQuiet DEF Revocable
<1>2. CASE Revocable(req[r].jti)
  <2> DEFINE j == req[r].jti
             old == sessions[j]
             h == [Proven(r, "create", old.role, old.gen) EXCEPT !.crossed = old.late]
  <2>1. j \in JTIs /\ Revoke(j) /\ Remember(r, h)
    BY <1>2 DEF RotateSession, TypeOK, Handlers, Revocable
  <2>2. h.gen = old.gen /\ h.crossed = old.late /\ h.at = "create"
    BY SMTT(30), ProvenCreate
  <2>3. /\ req'[r].gen = old.gen /\ req'[r].crossed = old.late /\ req'[r].at = "create"
        /\ \A q \in Requests \ {r} : req'[q] = req[q]
    <3> HIDE DEF h
    <3> QED BY <2>1, <2>2, Moved
  <2>4. \A i \in JTIs : /\ sessions'[i].gen = sessions[i].gen /\ sessions'[i].late = sessions[i].late
                        /\ Revocable(i)' => Revocable(i)
    BY SMTT(30), <2>1 DEF Revoke, TypeOK, Sessions, Revocable
  <2>5. Excused(old.gen, old.late)
    BY <1>2, <2>1 DEF SignInv
  <2> HIDE DEF old, h
  <2>6. Revoking \/ hist.unrevoked => Revoking' \/ hist'.unrevoked
    BY <1>a, <2>3 DEF Revoking, Owes
  <2>7. \A i \in JTIs : Revocable(i)' => Excused(sessions[i].gen, sessions[i].late)'
    BY <1>a, <2>4, <2>6 DEF SignInv, Excused
  <2>8. \A q \in Requests : Admitted(q)' => Excused(req[q].gen, req[q].crossed)'
    BY <1>a, <2>3, <2>5, <2>6 DEF SignInv, Excused, Admitted
  <2> QED BY <2>7, <2>8 DEF SignInv
<1> QED BY <1>1, <1>2

\* The revocation leaves nothing to revoke, and marks the handlers it has missed.
LEMMA SignRevoke ==
    ASSUME TypeOK, NEW r \in Requests, RevokeUserSessions(r)
    PROVE  SignInv'
<1>1. \A j \in JTIs : ~Revocable(j)'
  BY DEF RevokeUserSessions, Revocable, TypeOK, Sessions
<1>2. req'[r] = Idle
  BY DEF RevokeUserSessions
<1>3. ASSUME NEW q \in Requests, q # r
      PROVE  req'[q].at = req[q].at /\ (Admitted(q) => req'[q].crossed)
  <2>1. ASSUME NEW x \in Handlers, NEW b \in BOOLEAN
        PROVE  [x EXCEPT !.crossed = b].at = x.at /\ (b => [x EXCEPT !.crossed = b].crossed)
    BY DEF Handlers
  <2>2. req'[q] = [req[q] EXCEPT !.crossed = (req[q].crossed \/ Admitted(q))]
    BY <1>3 DEF RevokeUserSessions
  <2>3. (req[q].crossed \/ Admitted(q)) \in BOOLEAN
    OBVIOUS
  <2> QED BY <2>1, <2>2, <2>3 DEF TypeOK
<1>4. \A q \in Requests : Admitted(q)' => req'[q].crossed
  BY SMTT(30), <1>2, <1>3 DEF Admitted, Idle
<1> QED BY <1>1, <1>4 DEF SignInv, Excused

\* SetUserPassword: from here on the handler owes a revocation.
LEMMA SignPassword ==
    ASSUME TypeOK, Flow, NEW r \in Requests, SetUserPassword(r)
    PROVE  SignInv'
<1>1. req[r].kind \in {"change", "reset"}
  BY DEF SetUserPassword, At, Flow, FlowOK, Along
<1>2. Owes(r)'
  BY <1>1, Moved DEF SetUserPassword, Owes
<1> QED BY <1>2 DEF SignInv, Excused, Revoking, Owes

\* Every step keeps the invariant about old sessions.
LEMMA SignStep == TypeOK /\ Flow /\ SignInv /\ [Next]_vars => SignInv'
<1> SUFFICES ASSUME TypeOK, Flow, SignInv, [Next]_vars PROVE SignInv'
  OBVIOUS
<1>a. \A r \in Requests : Along(req[r].kind, req[r].at)
  BY DEF Flow, FlowOK
<1>b. ASSUME NEW r \in Requests, sessions' = sessions, hist'.gen = hist.gen, hist.unrevoked => hist'.unrevoked,
             \/ Answer(r) /\ (Owes(r) => hist'.unrevoked)
             \/ \E p : /\ Goto(r, p)
                       /\ Owes(r) => p \in {"reverify", "revokeOne", "revokeAll"} \/ hist'.unrevoked
                       /\ p \in {"consume", "clear", "create"} => Admitted(r)
             \/ \E h : /\ Remember(r, h) /\ ~Owes(r)
                       /\ h.at \in {"consume", "clear", "create"} => h.gen = hist.gen
      PROVE  SignInv'
  BY <1>b, SignMove, SignQuiet DEF Revocable
<1>1. CASE UNCHANGED vars
  BY <1>1, SignQuiet DEF vars, Revocable, Plain, Owes, Admitted
<1>2. ASSUME NEW r \in Requests,
             \/ IncrThrottle(r) \/ ExpireThrottle(r) \/ CountRecentFailures(r)
             \/ RecordLoginAttempt(r) \/ ClearLoginFailures(r) \/ HandleCreateUser(r) \/ CheckPassword(r)
             \/ ReverifyToken(r) \/ HandleChangeRole(r) \/ VerifyAPIKey(r) \/ HandleCreateAPIKey(r)
      PROVE  SignInv'
  <2>1. CASE IncrThrottle(r) \/ ExpireThrottle(r) \/ CountRecentFailures(r)
    BY SMTT(30), <2>1, <1>b DEF IncrThrottle, ExpireThrottle, CountRecentFailures, At, Owes, Admitted
  <2>2. CASE RecordLoginAttempt(r) \/ ClearLoginFailures(r) \/ HandleCreateUser(r)
    BY SMTT(30), <2>2, <1>b DEF RecordLoginAttempt, ClearLoginFailures, HandleCreateUser, At, Owes, Admitted
  <2>3. CASE CheckPassword(r) \/ ReverifyToken(r) \/ HandleChangeRole(r)
    BY SMTT(30), <2>3, <1>b DEF CheckPassword, ReverifyToken, HandleChangeRole, At, Owes, Admitted
  <2>4. CASE VerifyAPIKey(r) \/ HandleCreateAPIKey(r)
    BY SMTT(30), <2>4, <1>b DEF VerifyAPIKey, HandleCreateAPIKey, At, Owes, Admitted
  <2> QED BY <1>2, <2>1, <2>2, <2>3, <2>4
<1>3. ASSUME NEW r \in Requests,
             ConsumeBackupCode(r) \/ TurnOffTOTP(r) \/ EnableTOTP(r) \/ SetBackupCodes(r) \/ HandleRevokeAPIKey(r)
      PROVE  SignInv'
  <2>1. hist'.gen = hist.gen /\ hist'.unrevoked = hist.unrevoked
    BY <1>3 DEF ConsumeBackupCode, TurnOffTOTP, EnableTOTP, SetBackupCodes, HandleRevokeAPIKey, TypeOK, Histories
  <2> QED BY <1>3, <2>1, <1>b DEF ConsumeBackupCode, TurnOffTOTP, EnableTOTP, SetBackupCodes,
             HandleRevokeAPIKey, At, Owes, Admitted
<1>4. ASSUME NEW r \in Requests, GetUserByEmail(r) \/ IdentifyUser(r) \/ ProvisionUser(r) PROVE SignInv'
  <2>1. ~Owes(r) /\ sessions' = sessions /\ hist' = hist
    BY <1>4 DEF GetUserByEmail, IdentifyUser, ProvisionUser, At, Owes
  <2>2. \/ Answer(r)
        \/ \E p \in {"record", "provision"} : Goto(r, p)
        \/ \E p, role : Remember(r, Proven(r, p, role, hist.gen))
        \/ \E p, role, c : Remember(r, [Proven(r, p, role, hist.gen) EXCEPT !.code = c])
    BY <1>4 DEF GetUserByEmail, IdentifyUser, ProvisionUser
  <2>3. CASE Answer(r) \/ \E p \in {"record", "provision"} : Goto(r, p)
    BY <2>1, <2>3, <1>b
  <2>4. ASSUME NEW h, Remember(r, h), h.gen = hist.gen PROVE SignInv'
    BY <2>1, <2>4, <1>b
  <2>5. ASSUME NEW p, NEW role, NEW c
        PROVE  /\ Proven(r, p, role, hist.gen).gen = hist.gen
               /\ [Proven(r, p, role, hist.gen) EXCEPT !.code = c].gen = hist.gen
    BY SMTT(30), ProvenFields
  <2> QED BY <2>2, <2>3, <2>4, <2>5
<1>5. ASSUME NEW r \in Requests, VerifySessionToken(r) PROVE SignInv'
  <2>1. Verified(req[r].kind) \notin {"consume", "clear", "create"} /\ ~Owes(r)
    BY <1>5 DEF Verified, VerifySessionToken, At, Owes
  <2> QED BY <1>5, <2>1, <1>b DEF VerifySessionToken
<1>6. ASSUME NEW r \in Requests, HandleLogout(r) \/ RevokeOwnSession(r) PROVE SignInv'
  <2>1. Revocable(req[r].jti) => req[r].jti \in JTIs
    BY DEF Revocable, TypeOK, Handlers
  <2>2. \A i \in JTIs : Revocable(i)' => /\ Revocable(i) /\ sessions'[i].gen = sessions[i].gen
                                         /\ sessions'[i].late = sessions[i].late
    BY SMTT(30), <1>6, <2>1 DEF HandleLogout, RevokeOwnSession, Revoke, Revocable, TypeOK, Sessions
  <2>3. \A q \in Requests : Plain(q)
    BY <1>6, SignMove DEF HandleLogout, RevokeOwnSession, At, Owes
  <2> QED BY <1>6, <2>2, <2>3, SignQuiet DEF HandleLogout, RevokeOwnSession
<1>7. ASSUME NEW r \in Requests, SetTOTPSecret(r) PROVE SignInv'
  <2>1. ASSUME NEW q \in Requests
        PROVE  /\ req'[q].kind = req[q].kind /\ req'[q].gen = req[q].gen
               /\ req'[q].at = IF q = r THEN "reset" ELSE req[q].at
               /\ Admitted(q) => q # r /\ req'[q].crossed = req[q].crossed
    BY <1>7 DEF SetTOTPSecret, TypeOK, Handlers, Admitted, Confirming, At
  <2>2. ~Owes(r)
    BY <1>7 DEF SetTOTPSecret, At, Owes
  <2>3. \A q \in Requests : Plain(q)
    BY <2>1, <2>2 DEF Plain, Owes, Admitted
  <2> QED BY <1>7, <2>3, SignQuiet DEF SetTOTPSecret, Revocable
<1>8. ASSUME NEW r \in Requests, GetUserTOTPSecret(r) PROVE SignInv'
  <2> DEFINE p == IF req[r].kind = "confirm" THEN "enable" ELSE "turnOff"
             h == [req[r] EXCEPT !.at = p, !.secret = user.secret]
  <2>1. h.at \notin {"consume", "clear", "create"}
    BY DEF TypeOK, Handlers
  <2>2. ~Owes(r)
    BY <1>8 DEF GetUserTOTPSecret, At, Owes
  <2> QED BY <1>8, <2>1, <2>2, <1>b DEF GetUserTOTPSecret
<1>9. ASSUME NEW r \in Requests, CallFails(r) \/ Crash(r) PROVE SignInv'
  <2>1. hist'.gen = hist.gen /\ (hist.unrevoked => hist'.unrevoked)
    BY <1>9 DEF CallFails, Crash, Undone, TypeOK, Histories
  <2>2. At(r, "revokeAll") /\ req[r].kind # "signout" => hist'.unrevoked
    BY <1>9 DEF CallFails, Crash, Undone, TypeOK, Histories
  <2>3. CASE CallFails(r)
    BY SMTT(30), <2>1, <2>2, <2>3, <1>b DEF CallFails, OnError, At, Owes, Admitted
  <2>4. CASE Crash(r)
    <3>1. Owes(r) => hist'.unrevoked
      BY <2>4 DEF Crash, TypeOK, Histories, At, Owes
    <3> QED BY <2>1, <2>4, <3>1, <1>b DEF Crash
  <2> QED BY <1>9, <2>3, <2>4
<1>10. ASSUME NEW r \in Requests, NEW kind \in Kinds, NEW jti \in JTIs \cup {NoOne},
              NEW key \in Keys \cup {NoOne}, Arrive(r, kind, jti, key)
       PROVE  SignInv'
  <2> DEFINE h == [Idle EXCEPT !.kind = kind, !.at = Entry(kind), !.jti = jti, !.key = key]
  <2>1. h.at \notin {"consume", "clear", "create"} /\ ~Owes(r)
    BY <1>10 DEF Idle, Entry, Owes, Arrive, At
  <2> QED BY <1>10, <2>1, <1>b DEF Arrive, Remember
<1>11. ASSUME NEW j \in JTIs, SessionExpires(j) PROVE SignInv'
  <2>1. \A i \in JTIs : Revocable(i)' => /\ Revocable(i) /\ sessions'[i].gen = sessions[i].gen
                                         /\ sessions'[i].late = sessions[i].late
    BY <1>11 DEF SessionExpires, Revocable, TypeOK, Sessions
  <2> QED BY <1>11, <2>1, SignQuiet DEF SessionExpires, Plain, Owes, Admitted
<1>12. ASSUME ThrottleWindowEnds \/ FailureAges PROVE SignInv'
  BY <1>12, SignQuiet DEF ThrottleWindowEnds, FailureAges, Revocable, Plain, Owes, Admitted
<1>13. ASSUME NEW r \in Requests, Handle(r) PROVE SignInv'
  BY <1>2, <1>3, <1>4, <1>5, <1>6, <1>7, <1>8, <1>13, SignCreate, SignRotate, SignRevoke, SignPassword DEF Handle
<1> QED BY <1>1, <1>9, <1>10, <1>11, <1>12, <1>13 DEF Next

\* handleChangePassword, handleResetPassword and handleRevokeUserSessions: what
\* is left of an earlier generation was either let in before the revocation and
\* created after it, or the revocation did not take place.
THEOREM OldSessionsExplained == Spec => []SignedOut
<1>1. Init => TypeOK /\ Flow /\ SignInv
  <2>1. ASSUME Init PROVE SignInv
    <3>1. \A j \in JTIs : sessions[j].gen = 0
      BY SMTT(30), <2>1 DEF Init, Account, NoSession
    <3>2. hist.gen = 0 /\ \A r \in Requests : req[r].gen = 0
      BY SMTT(30), <2>1 DEF Init, Account, Idle
    <3> QED BY SMTT(30), <3>1, <3>2 DEF SignInv, Excused
  <2> QED BY <2>1, TypeInit, FlowInit
<1>2. TypeOK /\ Flow /\ SignInv /\ [Next]_vars => (TypeOK /\ Flow /\ SignInv)'
  BY TypeStep, FlowStep, SignStep
<1>3. SignInv => SignedOut
  BY DEF SignInv, SignedOut, Excused, Live, Revocable
<1> QED BY <1>1, <1>2, <1>3, PTL DEF Spec

-----------------------------------------------------------------------------
\* A code of the set has not been accepted yet, nor one that was never issued.
CodeInv ==
    \A c \in 1 .. MaxCodes : /\ hist.accepted[c] <= 1
                             /\ c \in user.codes => hist.accepted[c] = 0 /\ c <= hist.issued
                             /\ c > hist.issued => hist.accepted[c] = 0

\* The steps that neither issue nor consume a code.
LEMMA CodeQuiet ==
    ASSUME CodeInv, user'.codes \subseteq user.codes, hist'.accepted = hist.accepted, hist'.issued = hist.issued
    PROVE  CodeInv'
BY DEF CodeInv

\* ConsumeBackupCode: the code it accepts is gone from the row in the same statement.
LEMMA CodeConsume ==
    ASSUME TypeOK, CodeInv, NEW r \in Requests, ConsumeBackupCode(r)
    PROVE  CodeInv'
<1> DEFINE c == req[r].code
<1>1. CASE c \notin user.codes
  BY <1>1, CodeQuiet DEF ConsumeBackupCode
<1>2. CASE c \in user.codes
  <2>1. /\ user' = [user EXCEPT !.codes = user.codes \ {c}]
        /\ hist' = [hist EXCEPT !.accepted = [hist.accepted EXCEPT ![c] = hist.accepted[c] + 1]]
    BY <1>2 DEF ConsumeBackupCode
  <2>2. c \in 1 .. MaxCodes
    BY <1>2 DEF TypeOK, Users
  <2>3. hist.accepted \in [1 .. MaxCodes -> Nat] /\ hist.issued \in Nat
    BY SMTT(30), Bounds DEF TypeOK, Histories
  <2> HIDE DEF c
  <2>4. /\ hist'.accepted = [hist.accepted EXCEPT ![c] = hist.accepted[c] + 1]
        /\ hist'.issued = hist.issued /\ user'.codes = user.codes \ {c}
    BY <2>1 DEF TypeOK, Histories, Users
  <2>5. /\ hist'.accepted[c] = hist.accepted[c] + 1
        /\ \A d \in 1 .. MaxCodes \ {c} : hist'.accepted[d] = hist.accepted[d]
    BY <2>2, <2>3, <2>4
  <2>6. hist.accepted[c] = 0 /\ c <= hist.issued
    BY <1>2, <2>2 DEF CodeInv, c
  <2> QED BY SMTT(30), <2>2, <2>3, <2>4, <2>5, <2>6 DEF CodeInv
<1> QED BY <1>1, <1>2

\* SetBackupCodes: a fresh code has been accepted by nobody.
LEMMA CodeIssue ==
    ASSUME TypeOK, CodeInv, NEW r \in Requests, SetBackupCodes(r)
    PROVE  CodeInv'
<1>1. hist.issued \in Nat /\ hist'.issued = hist.issued + 1 /\ hist'.accepted = hist.accepted
  BY SMTT(30), Bounds DEF SetBackupCodes, TypeOK, Histories
<1>2. user'.codes = {hist.issued + 1}
  BY DEF SetBackupCodes, TypeOK, Users
<1>3. hist.accepted \in [1 .. MaxCodes -> Nat]
  BY DEF TypeOK, Histories
<1> QED BY SMTT(30), <1>1, <1>2, <1>3 DEF CodeInv

\* Every step keeps the invariant about backup codes.
LEMMA CodeStep == TypeOK /\ CodeInv /\ [Next]_vars => CodeInv'
<1> SUFFICES ASSUME TypeOK, CodeInv, [Next]_vars PROVE CodeInv'
  OBVIOUS
<1>1. CASE UNCHANGED <<user, hist>>
  BY <1>1, CodeQuiet
<1>2. ASSUME NEW r \in Requests, TurnOffTOTP(r) \/ EnableTOTP(r) PROVE CodeInv'
  <2>1. user'.codes = user.codes /\ hist'.accepted = hist.accepted /\ hist'.issued = hist.issued
    BY <1>2 DEF TurnOffTOTP, EnableTOTP, TypeOK, Users, Histories
  <2> QED BY <2>1, CodeQuiet
<1>3. ASSUME NEW r \in Requests, SetTOTPSecret(r) \/ HandleChangeRole(r) PROVE CodeInv'
  <2>1. user'.codes = user.codes /\ hist' = hist
    BY <1>3 DEF SetTOTPSecret, HandleChangeRole, TypeOK, Users
  <2> QED BY <2>1, CodeQuiet
<1>4. ASSUME NEW r \in Requests,
             SetUserPassword(r) \/ RevokeUserSessions(r) \/ HandleRevokeAPIKey(r) \/ CallFails(r) \/ Crash(r)
      PROVE  CodeInv'
  <2>1. user' = user /\ hist'.accepted = hist.accepted /\ hist'.issued = hist.issued
    BY <1>4 DEF SetUserPassword, RevokeUserSessions, HandleRevokeAPIKey, CallFails, Crash, Undone, TypeOK, Histories
  <2> QED BY <2>1, CodeQuiet
<1>5. ASSUME NEW r \in Requests, ProvisionUser(r) \/ HandleCreateUser(r) PROVE CodeInv'
  <2>1. user'.codes \subseteq user.codes /\ hist' = hist
    BY SMTT(30), <1>5 DEF ProvisionUser, HandleCreateUser, NewUser
  <2> QED BY <2>1, CodeQuiet
<1>6. ASSUME NEW r \in Requests, Handle(r) PROVE CodeInv'
  BY <1>1, <1>2, <1>3, <1>4, <1>5, <1>6, CodeConsume, CodeIssue
     DEF Handle, IncrThrottle, ExpireThrottle, CountRecentFailures, GetUserByEmail, RecordLoginAttempt,
         ClearLoginFailures, CreateSession, IdentifyUser, VerifySessionToken, HandleLogout, RotateSession,
         CheckPassword, ReverifyToken, RevokeOwnSession, GetUserTOTPSecret, VerifyAPIKey, HandleCreateAPIKey
<1>7. ASSUME NEW r \in Requests, NEW kind \in Kinds, NEW jti \in JTIs \cup {NoOne},
             NEW key \in Keys \cup {NoOne}, Arrive(r, kind, jti, key)
      PROVE  CodeInv'
  BY <1>1, <1>7 DEF Arrive
<1>8. ASSUME (\E j \in JTIs : SessionExpires(j)) \/ ThrottleWindowEnds \/ FailureAges PROVE CodeInv'
  BY <1>1, <1>8 DEF SessionExpires, ThrottleWindowEnds, FailureAges
<1> QED BY <1>1, <1>4, <1>6, <1>7, <1>8 DEF Next, vars

\* ConsumeBackupCode: of any number of logins with one code, one gets in.
THEOREM CodesAreSingleUse == Spec => []CodeUsedOnce
<1>1. Init => TypeOK /\ CodeInv
  <2>1. ASSUME Init PROVE CodeInv
    <3>1. PICK mfa \in BOOLEAN : /\ user.codes = IF mfa THEN {1} ELSE {}
                                 /\ hist.issued = IF mfa THEN 1 ELSE 0
                                 /\ hist.accepted = [c \in 1 .. MaxCodes |-> 0]
      BY SMTT(30), <2>1 DEF Init, Account
    <3> QED BY SMTT(30), <3>1 DEF CodeInv
  <2> QED BY <2>1, TypeInit
<1>2. TypeOK /\ CodeInv /\ [Next]_vars => (TypeOK /\ CodeInv)'
  BY TypeStep, CodeStep
<1>3. CodeInv => CodeUsedOnce
  BY DEF CodeInv, CodeUsedOnce
<1> QED BY <1>1, <1>2, <1>3, PTL DEF Spec

-----------------------------------------------------------------------------
\* An enabled key that may manage keys.
Manages(k) == keys[k].state = "enabled" /\ keys[k].role = "ADMIN"

\* KeyRemains, and the keys behind the revocations under way.
KeyInv ==
    /\ KeyRemains
    /\ \A r \in Requests : At(r, "disableKey") /\ req[r].key # NoOne => hist.keyCrossed \/ Manages(req[r].key)

\* The steps that disable no key and authorise no revocation.
LEMMA KeyQuiet ==
    ASSUME TypeOK, KeyInv, hist.keyCrossed => hist'.keyCrossed, \A k \in Keys : Manages(k) => Manages(k)',
           \A r \in Requests : At(r, "disableKey")' /\ req'[r].key # NoOne =>
               \/ At(r, "disableKey") /\ req'[r].key = req[r].key
               \/ req'[r].key \in Keys /\ Manages(req'[r].key)
    PROVE  KeyInv'
<1>1. KeyRemains'
  BY DEF KeyInv, KeyRemains, Manages
<1>2. \A r \in Requests : req[r].key # NoOne => req[r].key \in Keys
  BY DEF TypeOK, Handlers
<1>3. ASSUME NEW r \in Requests, At(r, "disableKey")', req'[r].key # NoOne
      PROVE  hist'.keyCrossed \/ Manages(req[r].key)'
  <2>1. hist.keyCrossed \/ (req'[r].key \in Keys /\ Manages(req'[r].key))
    BY <1>2, <1>3 DEF KeyInv
  <2> QED BY <2>1 DEF Manages
<1> QED BY <1>1, <1>3 DEF KeyInv

\* One handler moves on, and not to a revocation; no key changes.
LEMMA KeyMove ==
    ASSUME TypeOK, KeyInv, NEW r \in Requests, keys' = keys, hist.keyCrossed => hist'.keyCrossed,
           \/ Answer(r)
           \/ \E p : Goto(r, p) /\ p # "disableKey"
           \/ \E h : Remember(r, h) /\ h.at # "disableKey"
    PROVE  KeyInv'
<1>1. \A q \in Requests \ {r} : req'[q] = req[q]
  BY Moved
<1>2. ~At(r, "disableKey")'
  BY SMTT(30), Moved DEF At, Idle
<1>3. \A q \in Requests : At(q, "disableKey")' => At(q, "disableKey") /\ req'[q].key = req[q].key
  BY <1>1, <1>2 DEF At
<1> QED BY <1>3, KeyQuiet DEF Manages

\* VerifyAPIKey: a request that goes on was made with a key that manages keys.
LEMMA KeyVerify ==
    ASSUME TypeOK, KeyInv, NEW r \in Requests, VerifyAPIKey(r)
    PROVE  KeyInv'
<1>1. CASE Answer(r)
  BY <1>1, KeyMove DEF VerifyAPIKey
<1>2. CASE ~Answer(r)
  <2> DEFINE k == req[r].key
             p == IF req[r].kind = "mint" THEN "mintKey" ELSE "disableKey"
  <2>1. (k = NoOne \/ (keys[k].state = "enabled" /\ rank(keys[k].role) >= rank("ADMIN"))) /\ Goto(r, p)
    BY <1>2 DEF VerifyAPIKey
  <2>2. k \in Keys \cup {NoOne}
    BY DEF TypeOK, Handlers
  <2>3. k # NoOne => k \in Keys /\ Manages(k)
    BY SMTT(30), <2>1, <2>2 DEF Manages, rank, TypeOK, Roles
  <2> HIDE DEF p
  <2>4. req'[r].key = k /\ \A q \in Requests \ {r} : req'[q] = req[q]
    BY <2>1, Moved
  <2> QED BY <2>3, <2>4, KeyQuiet DEF VerifyAPIKey, Manages, At
<1> QED BY <1>1, <1>2

\* HandleCreateAPIKey: a new key takes none of the others away.
LEMMA KeyMint ==
    ASSUME TypeOK, KeyInv, NEW r \in Requests, HandleCreateAPIKey(r)
    PROVE  KeyInv'
<1>1. PICK k \in Keys, role \in Roles : /\ keys[k].state = "new"
                                        /\ keys' = [keys EXCEPT ![k] = [state |-> "enabled", role |-> role]]
  BY DEF HandleCreateAPIKey
<1>2. \A i \in Keys : Manages(i) => Manages(i)'
  BY <1>1 DEF Manages, TypeOK
<1>3. \A q \in Requests : At(q, "disableKey")' => At(q, "disableKey") /\ req'[q].key = req[q].key
  BY SMTT(30), Moved DEF HandleCreateAPIKey, At, Idle
<1> QED BY <1>2, <1>3, KeyQuiet DEF HandleCreateAPIKey

\* The key that revokes stays, unless it has no say; a key that is revoked while
\* it revokes another is recorded.
LEMMA KeyRevoke ==
    ASSUME TypeOK, KeyInv, NEW r \in Requests, HandleRevokeAPIKey(r)
    PROVE  KeyInv'
<1> DEFINE K(k) == \E q \in Requests \ {r} : At(q, "disableKey") /\ req[q].key = k
<1>1. PICK k \in Keys \ {req[r].key} :
         /\ keys' = [keys EXCEPT ![k].state = "disabled"]
         /\ hist' = [hist EXCEPT !.keyCrossed = hist.keyCrossed \/ req[r].key = NoOne \/ K(k)]
  BY DEF HandleRevokeAPIKey
<1>2. (hist.keyCrossed \/ req[r].key = NoOne \/ K(k)) \in BOOLEAN
  OBVIOUS
<1>3. hist.keyCrossed \/ req[r].key = NoOne \/ K(k) => hist'.keyCrossed
  <2>1. ASSUME NEW h \in Histories, NEW b \in BOOLEAN PROVE b => [h EXCEPT !.keyCrossed = b].keyCrossed
    BY DEF Histories
  <2> HIDE DEF K
  <2> QED BY <1>1, <1>2, <2>1 DEF TypeOK
<1>4. \A i \in Keys \ {k} : Manages(i) => Manages(i)'
  BY <1>1 DEF Manages, TypeOK
<1>5. At(r, "disableKey")
  BY DEF HandleRevokeAPIKey
<1>6. req[r].key \in Keys \cup {NoOne}
  BY DEF TypeOK, Handlers
<1>7. CASE hist'.keyCrossed
  BY <1>7 DEF KeyInv, KeyRemains
<1>8. CASE ~hist'.keyCrossed
  <2>1. ~hist.keyCrossed /\ req[r].key # NoOne /\ ~K(k)
    BY <1>3, <1>8
  <2>2. Manages(req[r].key) /\ req[r].key \in Keys \ {k}
    BY <1>1, <1>5, <1>6, <2>1 DEF KeyInv
  <2>3. KeyRemains'
    BY <1>4, <2>2 DEF KeyRemains, Manages
  <2>4. ASSUME NEW q \in Requests, At(q, "disableKey")', req'[q].key # NoOne PROVE Manages(req[q].key)'
    <3>1. q # r /\ req'[q] = req[q]
      BY SMTT(30), <2>4, Moved DEF HandleRevokeAPIKey, At, Idle
    <3>2. At(q, "disableKey") /\ req[q].key # k /\ req[q].key \in Keys
      BY <2>1, <2>4, <3>1 DEF At, TypeOK, Handlers
    <3>3. Manages(req[q].key)
      BY <2>1, <2>4, <3>1, <3>2 DEF KeyInv
    <3> QED BY <1>4, <3>1, <3>2, <3>3 DEF Manages
  <2> QED BY <2>3, <2>4 DEF KeyInv
<1> QED BY <1>7, <1>8

\* Every step keeps the invariant about keys.
LEMMA KeyStep == TypeOK /\ KeyInv /\ [Next]_vars => KeyInv'
<1> SUFFICES ASSUME TypeOK, KeyInv, [Next]_vars PROVE KeyInv'
  OBVIOUS
<1>1. CASE UNCHANGED <<keys, hist, req>>
  BY <1>1, KeyQuiet DEF Manages, At
<1>2. ASSUME NEW r \in Requests,
             \/ IncrThrottle(r) \/ ExpireThrottle(r) \/ CountRecentFailures(r) \/ RecordLoginAttempt(r)
             \/ ClearLoginFailures(r) \/ CreateSession(r) \/ HandleCreateUser(r) \/ HandleLogout(r)
             \/ CheckPassword(r) \/ ReverifyToken(r) \/ RevokeOwnSession(r) \/ HandleChangeRole(r)
      PROVE  KeyInv'
  <2>1. CASE IncrThrottle(r) \/ ExpireThrottle(r) \/ CountRecentFailures(r)
    BY SMTT(30), <2>1, KeyMove DEF IncrThrottle, ExpireThrottle, CountRecentFailures
  <2>2. CASE RecordLoginAttempt(r) \/ ClearLoginFailures(r) \/ CreateSession(r)
    BY SMTT(30), <2>2, KeyMove DEF RecordLoginAttempt, ClearLoginFailures, CreateSession
  <2>3. CASE HandleCreateUser(r) \/ HandleLogout(r) \/ CheckPassword(r)
    BY SMTT(30), <2>3, KeyMove DEF HandleCreateUser, HandleLogout, CheckPassword
  <2>4. CASE ReverifyToken(r) \/ RevokeOwnSession(r) \/ HandleChangeRole(r)
    BY SMTT(30), <2>4, KeyMove DEF ReverifyToken, RevokeOwnSession, HandleChangeRole
  <2> QED BY <1>2, <2>1, <2>2, <2>3, <2>4
<1>3. ASSUME NEW r \in Requests,
             \/ ConsumeBackupCode(r) \/ SetUserPassword(r) \/ TurnOffTOTP(r) \/ EnableTOTP(r)
             \/ SetBackupCodes(r) \/ CallFails(r) \/ Crash(r)
      PROVE  KeyInv'
  <2>1. hist'.keyCrossed = hist.keyCrossed
    BY <1>3 DEF ConsumeBackupCode, SetUserPassword, TurnOffTOTP, EnableTOTP, SetBackupCodes, CallFails, Crash,
       Undone, TypeOK, Histories
  <2>2. Answer(r) \/ \E p : Goto(r, p) /\ p # "disableKey"
    BY SMTT(30), <1>3
       DEF ConsumeBackupCode, SetUserPassword, TurnOffTOTP, EnableTOTP, SetBackupCodes, CallFails, Crash, OnError
  <2>3. keys' = keys
    BY <1>3 DEF ConsumeBackupCode, SetUserPassword, TurnOffTOTP, EnableTOTP, SetBackupCodes, CallFails, Crash
  <2> QED BY <2>1, <2>2, <2>3, KeyMove
<1>4. ASSUME NEW r \in Requests, GetUserByEmail(r) \/ IdentifyUser(r) \/ ProvisionUser(r) PROVE KeyInv'
  <2>1. keys' = keys /\ hist' = hist
    BY <1>4 DEF GetUserByEmail, IdentifyUser, ProvisionUser
  <2>2. \/ Answer(r)
        \/ \E p \in {"record", "provision"} : Goto(r, p)
        \/ \E p \in {"clear", "create"} : \E role : Remember(r, Proven(r, p, role, hist.gen))
        \/ \E role, c : Remember(r, [Proven(r, "consume", role, hist.gen) EXCEPT !.code = c])
    BY <1>4 DEF GetUserByEmail, IdentifyUser, ProvisionUser
  <2>3. CASE Answer(r) \/ \E p \in {"record", "provision"} : Goto(r, p)
    BY <2>1, <2>3, KeyMove
  <2>4. ASSUME NEW h, Remember(r, h), h.at \in {"clear", "create", "consume"} PROVE KeyInv'
    BY <2>1, <2>4, KeyMove
  <2>5. ASSUME NEW p, NEW role, NEW c
        PROVE  /\ Proven(r, p, role, hist.gen).at = p
               /\ [Proven(r, p, role, hist.gen) EXCEPT !.code = c].at = p
    BY SMTT(30), ProvenFields
  <2> QED BY <2>2, <2>3, <2>4, <2>5
<1>5. ASSUME NEW r \in Requests, VerifySessionToken(r) PROVE KeyInv'
  <2>1. Verified(req[r].kind) # "disableKey"
    BY DEF Verified
  <2> QED BY SMTT(30), <1>5, <2>1, KeyMove DEF VerifySessionToken
<1>6. ASSUME NEW r \in Requests, RotateSession(r) PROVE KeyInv'
  <2> DEFINE old == sessions[req[r].jti]
             h == [Proven(r, "create", old.role, old.gen) EXCEPT !.crossed = old.late]
  <2>1. h.at = "create"
    BY SMTT(30), ProvenCreate
  <2>2. Answer(r) \/ Remember(r, h)
    BY <1>6 DEF RotateSession
  <2> HIDE DEF h
  <2> QED BY <1>6, <2>1, <2>2, KeyMove DEF RotateSession
<1>7. ASSUME NEW r \in Requests, RevokeUserSessions(r) \/ SetTOTPSecret(r) PROVE KeyInv'
  <2>1. keys' = keys /\ hist'.keyCrossed = hist.keyCrossed
    BY <1>7 DEF RevokeUserSessions, SetTOTPSecret, TypeOK, Histories
  <2>2. ASSUME NEW q \in Requests, q # r PROVE req'[q].at = req[q].at /\ req'[q].key = req[q].key
    BY SMTT(30), <1>7, <2>2 DEF RevokeUserSessions, SetTOTPSecret, TypeOK, Handlers
  <2>3. req'[r].at \in {"idle", "reset"}
    BY SMTT(30), <1>7 DEF RevokeUserSessions, SetTOTPSecret, Idle, TypeOK, Handlers
  <2> QED BY <2>1, <2>2, <2>3, KeyQuiet DEF Manages, At
<1>8. ASSUME NEW r \in Requests, GetUserTOTPSecret(r) PROVE KeyInv'
  <2> DEFINE p == IF req[r].kind = "confirm" THEN "enable" ELSE "turnOff"
             h == [req[r] EXCEPT !.at = p, !.secret = user.secret]
  <2>1. h.at # "disableKey"
    BY DEF TypeOK, Handlers
  <2> QED BY <1>8, <2>1, KeyMove DEF GetUserTOTPSecret
<1>9. ASSUME NEW r \in Requests, NEW kind \in Kinds, NEW jti \in JTIs \cup {NoOne},
             NEW key \in Keys \cup {NoOne}, Arrive(r, kind, jti, key)
      PROVE  KeyInv'
  <2> DEFINE h == [Idle EXCEPT !.kind = kind, !.at = Entry(kind), !.jti = jti, !.key = key]
  <2>1. h.at # "disableKey"
    BY DEF Idle, Entry
  <2> QED BY <1>9, <2>1, KeyMove DEF Arrive, Remember
<1>10. ASSUME (\E j \in JTIs : SessionExpires(j)) \/ ThrottleWindowEnds \/ FailureAges PROVE KeyInv'
  BY <1>1, <1>10 DEF SessionExpires, ThrottleWindowEnds, FailureAges
<1>11. ASSUME NEW r \in Requests, Handle(r) PROVE KeyInv'
  BY <1>2, <1>3, <1>4, <1>5, <1>6, <1>7, <1>8, <1>11, KeyVerify, KeyMint, KeyRevoke DEF Handle
<1> QED BY <1>1, <1>3, <1>9, <1>10, <1>11 DEF Next, vars

\* handleRevokeAPIKey refuses the key it was made with: one key of the tenant
\* can always manage the others, but for sessions and for keys that meet.
THEOREM AnAdminKeyRemains == Spec => []KeyRemains
<1>1. Init => TypeOK /\ KeyInv
  <2>1. ASSUME Init PROVE KeyInv
    <3>1. PICK active \in Keys :
             keys = [k \in Keys |-> [state |-> IF k <= active THEN "enabled" ELSE "new", role |-> "ADMIN"]]
      BY <2>1 DEF Init
    <3>2. keys[active].state = "enabled" /\ keys[active].role = "ADMIN"
      BY SMTT(30), <3>1 DEF Keys
    <3>3. \A r \in Requests : ~At(r, "disableKey")
      BY <2>1 DEF Init, At, Idle
    <3> QED BY <3>2, <3>3 DEF KeyInv, KeyRemains
  <2> QED BY <2>1, TypeInit
<1>2. TypeOK /\ KeyInv /\ [Next]_vars => (TypeOK /\ KeyInv)'
  BY TypeStep, KeyStep
<1>3. KeyInv => KeyRemains
  BY DEF KeyInv
<1> QED BY <1>1, <1>2, <1>3, PTL DEF Spec

-----------------------------------------------------------------------------
\* Before the account is there, nothing else of it is.
ThereInv ==
    ~user.exists => /\ user.secret = 0
                    /\ \A j \in JTIs : sessions[j].status = "none"
                    /\ \A r \in Requests : req[r].jti = NoOne /\ ~Admitted(r)

\* A step that leaves the account absent admits no login.
LEMMA ThereMove ==
    ASSUME TypeOK, ThereInv, ~user.exists, NEW r \in Requests, user' = user, sessions' = sessions,
           \/ Answer(r)
           \/ \E p : Goto(r, p) /\ p \notin {"consume", "clear", "create"}
    PROVE  ThereInv'
<1>1. \A q \in Requests : req'[q].jti = NoOne /\ ~Admitted(q)'
  BY SMTT(30), Moved DEF ThereInv, Admitted, Idle
<1> QED BY <1>1 DEF ThereInv

\* Without the account only requests that need none come past their first step.
LEMMA ThereStep == TypeOK /\ Flow /\ ThereInv /\ [Next]_vars => ThereInv'
<1> SUFFICES ASSUME TypeOK, Flow, ThereInv, [Next]_vars, ~user'.exists PROVE ThereInv'
  BY DEF ThereInv
<1>1. CASE UNCHANGED <<user, sessions, req>>
  BY <1>1 DEF ThereInv, Admitted
<1>2. CASE user.exists
  <2>1. ASSUME NEW r \in Requests,
               \/ HandleChangeRole(r) \/ SetTOTPSecret(r) \/ TurnOffTOTP(r) \/ EnableTOTP(r)
               \/ SetBackupCodes(r) \/ ConsumeBackupCode(r) \/ ProvisionUser(r) \/ HandleCreateUser(r)
        PROVE  user'.exists = user.exists
    BY <1>2, <2>1 DEF HandleChangeRole, SetTOTPSecret, TurnOffTOTP, EnableTOTP, SetBackupCodes, ConsumeBackupCode,
       ProvisionUser, HandleCreateUser, TypeOK, Users
  <2>2. ASSUME NEW r \in Requests, Handle(r) PROVE user'.exists = user.exists
    BY <2>1, <2>2 DEF Handle, IncrThrottle, ExpireThrottle, CountRecentFailures, GetUserByEmail, RecordLoginAttempt,
       ClearLoginFailures, CreateSession, IdentifyUser, VerifySessionToken, HandleLogout, RotateSession,
       CheckPassword, SetUserPassword, ReverifyToken, RevokeOwnSession, RevokeUserSessions, GetUserTOTPSecret,
       VerifyAPIKey, HandleCreateAPIKey, HandleRevokeAPIKey
  <2>3. user'.exists = user.exists
    BY <2>2 DEF Next, vars, Arrive, CallFails, Crash, SessionExpires, ThrottleWindowEnds, FailureAges
  <2> QED BY <1>2, <2>3
<1>3. CASE ~user.exists
  <2>a. \A r \in Requests : Along(req[r].kind, req[r].at) /\ req[r].kind \notin WithToken /\ ~Admitted(r)
    BY <1>3 DEF Flow, FlowOK, ThereInv
  <2>b. \A j \in JTIs : sessions[j].status = "none"
    BY <1>3 DEF ThereInv
  <2>1. ASSUME NEW r \in Requests,
               \/ IncrThrottle(r) \/ ExpireThrottle(r) \/ CountRecentFailures(r) \/ RecordLoginAttempt(r)
               \/ SetUserPassword(r) \/ VerifyAPIKey(r) \/ HandleCreateAPIKey(r) \/ HandleRevokeAPIKey(r)
        PROVE  ThereInv'
    BY SMTT(30), <1>3, <2>1, ThereMove
       DEF IncrThrottle, ExpireThrottle, CountRecentFailures, RecordLoginAttempt,
       SetUserPassword, VerifyAPIKey, HandleCreateAPIKey, HandleRevokeAPIKey
  <2>2. ASSUME NEW r \in Requests,
               \/ ConsumeBackupCode(r) \/ ClearLoginFailures(r) \/ CreateSession(r) \/ VerifySessionToken(r)
               \/ HandleLogout(r) \/ RotateSession(r) \/ CheckPassword(r) \/ ReverifyToken(r) \/ RevokeOwnSession(r)
               \/ SetTOTPSecret(r) \/ TurnOffTOTP(r) \/ GetUserTOTPSecret(r) \/ EnableTOTP(r) \/ SetBackupCodes(r)
        PROVE  FALSE
    BY <2>a, <2>2 DEF ConsumeBackupCode, ClearLoginFailures, CreateSession, VerifySessionToken, HandleLogout,
       RotateSession, CheckPassword, ReverifyToken, RevokeOwnSession, SetTOTPSecret, TurnOffTOTP,
       GetUserTOTPSecret, EnableTOTP, SetBackupCodes, At, Along, WithToken, Admitted
  <2>3. ASSUME NEW r \in Requests, GetUserByEmail(r) \/ IdentifyUser(r) PROVE ThereInv'
    BY SMTT(30), <1>3, <2>3, ThereMove DEF GetUserByEmail, IdentifyUser
  <2>4. ASSUME NEW r \in Requests, ProvisionUser(r) \/ HandleCreateUser(r) PROVE FALSE
    BY SMTT(30), <1>3, <2>4 DEF ProvisionUser, HandleCreateUser, NewUser
  <2>5. ASSUME NEW r \in Requests, RevokeUserSessions(r) PROVE ThereInv'
    <3>1. sessions' = sessions
      BY <2>5, <2>b DEF RevokeUserSessions, Revocable, TypeOK
    <3>2. ASSUME NEW q \in Requests PROVE req'[q].jti = NoOne /\ ~Admitted(q)'
      <4>1. q # r => req'[q].jti = req[q].jti /\ req'[q].at = req[q].at
        BY <2>5 DEF RevokeUserSessions, TypeOK, Handlers
      <4>2. req'[r] = Idle
        BY <2>5 DEF RevokeUserSessions
      <4> QED BY SMTT(30), <1>3, <4>1, <4>2 DEF ThereInv, Admitted, Idle
    <3> QED BY <1>3, <2>5, <3>1, <3>2 DEF ThereInv, RevokeUserSessions
  <2>6. ASSUME NEW r \in Requests, HandleChangeRole(r) PROVE ThereInv'
    <3>1. user'.secret = user.secret
      BY <2>6 DEF HandleChangeRole, TypeOK, Users
    <3>2. \A q \in Requests : req'[q].jti = NoOne /\ ~Admitted(q)'
      BY SMTT(30), <1>3, <2>6, Moved DEF HandleChangeRole, ThereInv, Admitted, Idle
    <3> QED BY <1>3, <2>6, <3>1, <3>2 DEF ThereInv, HandleChangeRole
  <2>7. ASSUME NEW r \in Requests, CallFails(r) \/ Crash(r) PROVE ThereInv'
    BY SMTT(30), <1>3, <2>7, <2>a, ThereMove DEF CallFails, Crash, OnError, At, Admitted
  <2>8. ASSUME NEW r \in Requests, NEW kind \in Kinds, NEW jti \in JTIs \cup {NoOne},
               NEW key \in Keys \cup {NoOne}, Arrive(r, kind, jti, key)
        PROVE  ThereInv'
    <3> DEFINE h == [Idle EXCEPT !.kind = kind, !.at = Entry(kind), !.jti = jti, !.key = key]
    <3>1. jti = NoOne
      BY <2>8, <2>b DEF Arrive
    <3>2. h.at \notin {"consume", "clear", "create"} /\ h.jti = NoOne
      BY <3>1 DEF Idle, Entry
    <3>3. Remember(r, h)
      BY <2>8 DEF Arrive, Remember
    <3> HIDE DEF h
    <3>4. \A q \in Requests : req'[q].jti = NoOne /\ ~Admitted(q)'
      BY SMTT(30), <1>3, <3>2, <3>3, Moved DEF ThereInv, Admitted
    <3> QED BY <1>3, <2>8, <3>4 DEF ThereInv, Arrive
  <2>9. ASSUME NEW j \in JTIs, SessionExpires(j) PROVE FALSE
    BY <2>9, <2>b DEF SessionExpires
  <2>10. ASSUME NEW r \in Requests, Handle(r) PROVE ThereInv'
    BY <2>1, <2>2, <2>3, <2>4, <2>5, <2>6, <2>10 DEF Handle
  <2> QED BY <1>1, <2>7, <2>8, <2>9, <2>10 DEF Next, vars, ThrottleWindowEnds, FailureAges
<1> QED BY <1>2, <1>3

\* EnabledMeansConfirmed, and the confirmations under way: what they have
\* checked is what the row holds, unless an enroll came between.
MfaInv ==
    /\ EnabledMeansConfirmed
    /\ \A r \in Requests : Confirming(r) => req[r].crossed \/ req[r].secret = user.secret

\* The steps that leave the second factor and the enrolls under way alone.
LEMMA MfaQuiet ==
    ASSUME MfaInv, user'.enabled => user.enabled, user'.secret = user.secret,
           hist'.confirmed = hist.confirmed, hist.doubt => hist'.doubt,
           \A r \in Requests : At(r, "reset") => At(r, "reset")' \/ hist'.doubt,
           \A r \in Requests : Confirming(r)' =>
               \/ /\ Confirming(r) /\ req'[r].secret = req[r].secret
                  /\ req[r].crossed => req'[r].crossed
               \/ req'[r].secret = user.secret
    PROVE  MfaInv'
<1>1. EnabledMeansConfirmed'
  BY DEF MfaInv, EnabledMeansConfirmed
<1>2. \A r \in Requests : Confirming(r)' => (req[r].crossed \/ req[r].secret = user.secret)'
  BY DEF MfaInv
<1> QED BY <1>1, <1>2 DEF MfaInv

\* A step that leaves the second factor alone, unless it confirms a stale secret.
LEMMA MfaMove ==
    ASSUME TypeOK, MfaInv, NEW r \in Requests, user'.enabled = user.enabled, user'.secret = user.secret,
           hist'.confirmed = hist.confirmed, hist.doubt => hist'.doubt, At(r, "reset") => hist'.doubt,
           \/ Answer(r)
           \/ \E p : Goto(r, p) /\ p # "enable"
           \/ \E h : Remember(r, h) /\ (h.at = "enable" => h.secret = user.secret)
    PROVE  MfaInv'
<1>1. \A q \in Requests \ {r} : req'[q] = req[q]
  BY Moved
<1>2. Confirming(r)' => req'[r].secret = user.secret
  BY SMTT(30), Moved DEF Confirming, Idle
<1>3. \A q \in Requests : At(q, "reset") => At(q, "reset")' \/ hist'.doubt
  BY <1>1 DEF At
<1>4. \A q \in Requests : Confirming(q)' =>
         \/ Confirming(q) /\ req'[q].secret = req[q].secret /\ (req[q].crossed => req'[q].crossed)
         \/ req'[q].secret = user.secret
  BY <1>1, <1>2 DEF Confirming
<1> QED BY <1>3, <1>4, MfaQuiet

\* A fresh secret: its enroll has still to switch the factor off, and the
\* confirmations of the old secret are marked.
LEMMA MfaEnroll ==
    ASSUME TypeOK, NEW r \in Requests, SetTOTPSecret(r)
    PROVE  MfaInv'
<1>1. ASSUME NEW q \in Requests
      PROVE  /\ req'[q].at = IF q = r THEN "reset" ELSE req[q].at
             /\ q # r /\ Confirming(q) => req'[q].crossed
  <2>1. ASSUME NEW x \in Handlers, NEW b \in BOOLEAN
        PROVE  [x EXCEPT !.crossed = b].at = x.at /\ (b => [x EXCEPT !.crossed = b].crossed)
    BY DEF Handlers
  <2>2. ASSUME q # r PROVE req'[q] = [req[q] EXCEPT !.crossed = (req[q].crossed \/ Confirming(q))]
    BY <2>2 DEF SetTOTPSecret
  <2>3. PICK x \in Handlers, b \in BOOLEAN : x = req[q] /\ b = (req[q].crossed \/ Confirming(q))
    BY DEF TypeOK
  <2>4. q = r => req'[q].at = "reset"
    BY DEF SetTOTPSecret, TypeOK, Handlers
  <2>5. q # r => req'[q] = [x EXCEPT !.crossed = b]
    BY <2>2, <2>3
  <2> QED BY <2>1, <2>3, <2>4, <2>5
<1>2. At(r, "reset")'
  BY <1>1 DEF At
<1>3. \A q \in Requests : Confirming(q)' => req'[q].crossed
  BY <1>1 DEF Confirming
<1> QED BY <1>2, <1>3 DEF MfaInv, EnabledMeansConfirmed

\* The two statements that switch the second factor on and off.
LEMMA MfaSwitch ==
    ASSUME TypeOK, MfaInv, NEW r \in Requests, EnableTOTP(r) \/ TurnOffTOTP(r)
    PROVE  MfaInv'
<1>1. user'.secret = user.secret
  BY DEF EnableTOTP, TurnOffTOTP, TypeOK, Users
<1>2. \A q \in Requests : Confirming(q)' => q # r /\ req'[q] = req[q] /\ Confirming(q)
  BY SMTT(30), Moved DEF EnableTOTP, TurnOffTOTP, Confirming, Idle
<1>3. EnabledMeansConfirmed'
  <2>1. CASE TurnOffTOTP(r)
    <3>1. ~user'.enabled
      BY <2>1 DEF TurnOffTOTP, TypeOK, Users
    <3> QED BY <3>1 DEF EnabledMeansConfirmed
  <2>2. CASE EnableTOTP(r)
    <3>1. hist'.confirmed = req[r].secret /\ hist'.doubt = req[r].crossed
      BY <2>2 DEF EnableTOTP, TypeOK, Histories
    <3>2. req[r].crossed \/ req[r].secret = user.secret
      BY <2>2 DEF EnableTOTP, At, Confirming, MfaInv
    <3> QED BY <1>1, <3>1, <3>2 DEF EnabledMeansConfirmed
  <2> QED BY <2>1, <2>2
<1> QED BY <1>1, <1>2, <1>3 DEF MfaInv

\* A new account has no second factor, and nobody confirms one yet.
LEMMA MfaNew ==
    ASSUME TypeOK, Flow, ThereInv, MfaInv, NEW r \in Requests, HandleCreateUser(r) \/ ProvisionUser(r)
    PROVE  MfaInv'
<1>1. CASE user' = user
  <2>1. hist' = hist /\ Answer(r) /\ ~At(r, "reset")
    BY SMTT(30), <1>1 DEF HandleCreateUser, ProvisionUser, NewUser, At
  <2> QED BY <1>1, <2>1, MfaMove
<1>2. CASE user' # user
  <2>1. ~user.exists /\ ~user'.enabled
    BY SMTT(30), <1>2 DEF HandleCreateUser, ProvisionUser, NewUser
  <2>2. \A q \in Requests : ~Confirming(q)
    BY <2>1 DEF ThereInv, Flow, FlowOK, Along, Confirming
  <2>3. /\ \A q \in Requests \ {r} : req'[q] = req[q]
        /\ ~Confirming(r)'
    <3>1. Answer(r) \/ Remember(r, Proven(r, "create", "VIEWER", hist.gen))
      BY DEF HandleCreateUser, ProvisionUser
    <3>2. Proven(r, "create", "VIEWER", hist.gen).at = "create"
      BY SMTT(30), ProvenCreate
    <3>3. Idle.at = "idle"
      BY DEF Idle
    <3> QED BY SMTT(30), <3>1, <3>2, <3>3, Moved DEF Confirming
  <2> QED BY <2>1, <2>2, <2>3 DEF MfaInv, EnabledMeansConfirmed, Confirming
<1> QED BY <1>1, <1>2

\* Every step keeps the invariant about the second factor.
LEMMA MfaStep == TypeOK /\ Flow /\ ThereInv /\ MfaInv /\ [Next]_vars => MfaInv'
<1> SUFFICES ASSUME TypeOK, Flow, ThereInv, MfaInv, [Next]_vars PROVE MfaInv'
  OBVIOUS
<1>1. CASE UNCHANGED <<user, hist, req>>
  BY <1>1, MfaQuiet DEF Confirming, At
<1>2. ASSUME NEW r \in Requests,
             \/ IncrThrottle(r) \/ ExpireThrottle(r) \/ CountRecentFailures(r) \/ RecordLoginAttempt(r)
             \/ ClearLoginFailures(r) \/ CreateSession(r) \/ HandleLogout(r) \/ CheckPassword(r) \/ ReverifyToken(r)
             \/ RevokeOwnSession(r) \/ VerifyAPIKey(r) \/ HandleCreateAPIKey(r)
      PROVE  MfaInv'
  <2>1. user' = user /\ hist' = hist /\ ~At(r, "reset")
    BY <1>2 DEF IncrThrottle, ExpireThrottle, CountRecentFailures, RecordLoginAttempt, ClearLoginFailures,
       CreateSession, HandleLogout, CheckPassword, ReverifyToken, RevokeOwnSession, VerifyAPIKey,
       HandleCreateAPIKey, At
  <2>2. Answer(r) \/ \E p : Goto(r, p) /\ p # "enable"
    <3>1. CASE IncrThrottle(r) \/ ExpireThrottle(r) \/ CountRecentFailures(r) \/ RecordLoginAttempt(r)
      BY SMTT(30), <3>1 DEF IncrThrottle, ExpireThrottle, CountRecentFailures, RecordLoginAttempt
    <3>2. CASE ClearLoginFailures(r) \/ CreateSession(r) \/ HandleLogout(r) \/ CheckPassword(r)
      BY SMTT(30), <3>2 DEF ClearLoginFailures, CreateSession, HandleLogout, CheckPassword
    <3>3. CASE ReverifyToken(r) \/ RevokeOwnSession(r) \/ VerifyAPIKey(r) \/ HandleCreateAPIKey(r)
      BY SMTT(30), <3>3 DEF ReverifyToken, RevokeOwnSession, VerifyAPIKey, HandleCreateAPIKey
    <3> QED BY <1>2, <3>1, <3>2, <3>3
  <2> QED BY <2>1, <2>2, MfaMove
<1>3. ASSUME NEW r \in Requests,
             \/ ConsumeBackupCode(r) \/ SetUserPassword(r) \/ SetBackupCodes(r) \/ HandleRevokeAPIKey(r)
             \/ HandleChangeRole(r)
      PROVE  MfaInv'
  <2>1. user'.enabled = user.enabled /\ user'.secret = user.secret
    BY SMTT(30), <1>3
       DEF ConsumeBackupCode, SetUserPassword, SetBackupCodes, HandleRevokeAPIKey, HandleChangeRole, TypeOK, Users
  <2>2. hist'.confirmed = hist.confirmed /\ hist'.doubt = hist.doubt
    BY <1>3 DEF ConsumeBackupCode, SetUserPassword, SetBackupCodes, HandleRevokeAPIKey, HandleChangeRole,
       TypeOK, Histories
  <2>3. (Answer(r) \/ \E p : Goto(r, p) /\ p # "enable") /\ ~At(r, "reset")
    BY SMTT(30), <1>3
       DEF ConsumeBackupCode, SetUserPassword, SetBackupCodes, HandleRevokeAPIKey, HandleChangeRole, At
  <2> QED BY <2>1, <2>2, <2>3, MfaMove
<1>4. ASSUME NEW r \in Requests, GetUserByEmail(r) \/ IdentifyUser(r) PROVE MfaInv'
  <2>1. user' = user /\ hist' = hist /\ ~At(r, "reset")
    BY <1>4 DEF GetUserByEmail, IdentifyUser, At
  <2>2. \/ Answer(r)
        \/ \E p \in {"record", "provision"} : Goto(r, p)
        \/ \E p \in {"clear", "create"} : \E role : Remember(r, Proven(r, p, role, hist.gen))
        \/ \E role, c : Remember(r, [Proven(r, "consume", role, hist.gen) EXCEPT !.code = c])
    BY <1>4 DEF GetUserByEmail, IdentifyUser
  <2>3. CASE Answer(r) \/ \E p \in {"record", "provision"} : Goto(r, p)
    BY <2>1, <2>3, MfaMove
  <2>4. ASSUME NEW h, Remember(r, h), h.at \in {"clear", "create", "consume"} PROVE MfaInv'
    BY <2>1, <2>4, MfaMove
  <2>5. ASSUME NEW p, NEW role, NEW c
        PROVE  /\ Proven(r, p, role, hist.gen).at = p
               /\ [Proven(r, p, role, hist.gen) EXCEPT !.code = c].at = p
    BY SMTT(30), ProvenFields
  <2>6. ASSUME NEW p \in {"clear", "create"}, NEW role, Remember(r, Proven(r, p, role, hist.gen)) PROVE MfaInv'
    BY <2>4, <2>5, <2>6
  <2>7. ASSUME NEW role, NEW c, Remember(r, [Proven(r, "consume", role, hist.gen) EXCEPT !.code = c]) PROVE MfaInv'
    BY <2>4, <2>5, <2>7
  <2> QED BY <2>2, <2>3, <2>6, <2>7
<1>5. ASSUME NEW r \in Requests, VerifySessionToken(r) PROVE MfaInv'
  <2>1. Verified(req[r].kind) # "enable" /\ ~At(r, "reset")
    BY <1>5 DEF Verified, VerifySessionToken, At
  <2> QED BY SMTT(30), <1>5, <2>1, MfaMove DEF VerifySessionToken
<1>6. ASSUME NEW r \in Requests, RotateSession(r) PROVE MfaInv'
  <2> DEFINE old == sessions[req[r].jti]
             h == [Proven(r, "create", old.role, old.gen) EXCEPT !.crossed = old.late]
  <2>0. ~At(r, "reset")
    BY <1>6 DEF RotateSession, At
  <2>1. h.at = "create" /\ ~At(r, "reset")
    BY SMTT(30), <2>0, ProvenCreate
  <2>2. Answer(r) \/ Remember(r, h)
    BY <1>6 DEF RotateSession
  <2> HIDE DEF h
  <2> QED BY <1>6, <2>1, <2>2, MfaMove DEF RotateSession
<1>7. ASSUME NEW r \in Requests, RevokeUserSessions(r) PROVE MfaInv'
  <2>1. user' = user /\ hist'.confirmed = hist.confirmed /\ hist'.doubt = hist.doubt
    BY <1>7 DEF RevokeUserSessions, TypeOK, Histories
  <2>2. ASSUME NEW q \in Requests, q # r
        PROVE  /\ req'[q].at = req[q].at /\ req'[q].secret = req[q].secret
               /\ req[q].crossed => req'[q].crossed
    <3>1. ASSUME NEW x \in Handlers, NEW b \in BOOLEAN
          PROVE  LET y == [x EXCEPT !.crossed = b] IN y.at = x.at /\ y.secret = x.secret /\ (b => y.crossed)
      BY DEF Handlers
    <3>2. req'[q] = [req[q] EXCEPT !.crossed = (req[q].crossed \/ Admitted(q))]
      BY <1>7, <2>2 DEF RevokeUserSessions
    <3>3. PICK x \in Handlers, b \in BOOLEAN : x = req[q] /\ b = (req[q].crossed \/ Admitted(q))
      BY DEF TypeOK
    <3>4. req'[q] = [x EXCEPT !.crossed = b]
      BY <3>2, <3>3
    <3> QED BY <3>1, <3>3, <3>4
  <2>3. req'[r] = Idle /\ ~At(r, "reset")
    BY <1>7 DEF RevokeUserSessions, At
  <2> QED BY SMTT(30), <2>1, <2>2, <2>3, MfaQuiet DEF Confirming, At, Idle
<1>8. ASSUME NEW r \in Requests, GetUserTOTPSecret(r) PROVE MfaInv'
  <2> DEFINE p == IF req[r].kind = "confirm" THEN "enable" ELSE "turnOff"
             h == [req[r] EXCEPT !.at = p, !.secret = user.secret]
  <2>1. h.secret = user.secret /\ ~At(r, "reset")
    BY <1>8 DEF TypeOK, Handlers, GetUserTOTPSecret, At
  <2>2. Answer(r) \/ Remember(r, h)
    BY <1>8 DEF GetUserTOTPSecret
  <2> HIDE DEF h
  <2> QED BY <1>8, <2>1, <2>2, MfaMove DEF GetUserTOTPSecret
<1>9. ASSUME NEW r \in Requests, CallFails(r) \/ Crash(r) PROVE MfaInv'
  <2>1. user' = user /\ hist'.confirmed = hist.confirmed
    BY <1>9 DEF CallFails, Crash, Undone, TypeOK, Histories
  <2>2. hist.doubt \/ At(r, "reset") => hist'.doubt
    BY <1>9 DEF CallFails, Crash, Undone, TypeOK, Histories
  <2>3. Answer(r) \/ \E p : Goto(r, p) /\ p # "enable"
    BY SMTT(30), <1>9 DEF CallFails, Crash, OnError
  <2> QED BY <2>1, <2>2, <2>3, MfaMove
<1>10. ASSUME NEW r \in Requests, NEW kind \in Kinds, NEW jti \in JTIs \cup {NoOne},
              NEW key \in Keys \cup {NoOne}, Arrive(r, kind, jti, key)
       PROVE  MfaInv'
  <2> DEFINE h == [Idle EXCEPT !.kind = kind, !.at = Entry(kind), !.jti = jti, !.key = key]
  <2>1. h.at # "enable" /\ ~At(r, "reset")
    BY <1>10 DEF Idle, Entry, Arrive, At
  <2>2. Remember(r, h)
    BY <1>10 DEF Arrive, Remember
  <2> HIDE DEF h
  <2> QED BY <1>10, <2>1, <2>2, MfaMove DEF Arrive
<1>11. ASSUME (\E j \in JTIs : SessionExpires(j)) \/ ThrottleWindowEnds \/ FailureAges PROVE MfaInv'
  BY <1>1, <1>11 DEF SessionExpires, ThrottleWindowEnds, FailureAges
<1>12. ASSUME NEW r \in Requests, Handle(r) PROVE MfaInv'
  BY <1>2, <1>3, <1>4, <1>5, <1>6, <1>7, <1>8, <1>12, MfaEnroll, MfaSwitch, MfaNew DEF Handle
<1> QED BY <1>1, <1>9, <1>10, <1>11, <1>12 DEF Next, vars

\* handleMFAEnroll and handleMFAConfirm: a second factor that is asked for was
\* confirmed with the secret the row holds, but for the enrolls that did not
\* finish or met a confirmation.
THEOREM FactorWasConfirmed == Spec => []EnabledMeansConfirmed
<1>1. Init => TypeOK /\ Flow /\ ThereInv /\ MfaInv
  <2>1. ASSUME Init PROVE ThereInv /\ MfaInv
    <3>1. PICK there \in BOOLEAN, mfa \in BOOLEAN, open \in {0, 1} : Account(there, mfa, open)
      BY <2>1 DEF Init
    <3>2. \A r \in Requests : req[r] = Idle
      BY <2>1 DEF Init
    <3>3. user.exists = there /\ user.secret = (IF mfa THEN 1 ELSE 0) /\ hist.confirmed = (IF mfa THEN 1 ELSE 0)
      BY <3>1 DEF Account
    <3>4. ~there => ~mfa /\ \A j \in JTIs : sessions[j].status = "none"
      BY SMTT(30), <3>1 DEF Account, NoSession, JTIs
    <3> QED BY SMTT(30), <3>2, <3>3, <3>4
       DEF ThereInv, MfaInv, EnabledMeansConfirmed, Confirming, Admitted, Idle
  <2> QED BY <2>1, TypeInit, FlowInit
<1>2. TypeOK /\ Flow /\ ThereInv /\ MfaInv /\ [Next]_vars => (TypeOK /\ Flow /\ ThereInv /\ MfaInv)'
  BY TypeStep, FlowStep, ThereStep, MfaStep
<1>3. MfaInv => EnabledMeansConfirmed
  BY DEF MfaInv
<1> QED BY <1>1, <1>2, <1>3, PTL DEF Spec

-----------------------------------------------------------------------------
\* Logins that have passed the count and may still record a failure.
TryPoints == {"user", "consume", "record"}
Trying == {q \in Requests : req[q].at \in TryPoints}

\* LockoutHolds is not inductive: the attempts under way count as failures. An
\* attempt gets past the count only below the limit, and then the failures there
\* are and all the requests together stay within the bound.
LockInv ==
    ~hist.unguarded => failures + Cardinality(Trying) < LoginMaxFailures + Cardinality(Requests)

\* The attempts are requests.
LEMMA TryingFinite ==
    /\ IsFiniteSet(Trying) /\ Cardinality(Trying) \in Nat /\ Cardinality(Requests) \in Nat
    /\ Cardinality(Trying) <= Cardinality(Requests)
<1>1. Trying \in SUBSET Requests
  BY DEF Trying
<1>2. IsFiniteSet(Trying) /\ Cardinality(Trying) <= Cardinality(Requests)
  BY <1>1, FiniteRequests, FS_Subset
<1> QED BY <1>2, FiniteRequests, FS_CardinalityType

\* The same after the step.
LEMMA TryingFiniteNext ==
    /\ IsFiniteSet(Trying') /\ Cardinality(Trying') \in Nat
    /\ Cardinality(Trying') <= Cardinality(Requests)
<1>1. Trying' \in SUBSET Requests
  BY DEF Trying
<1>2. IsFiniteSet(Trying') /\ Cardinality(Trying') <= Cardinality(Requests)
  BY <1>1, FiniteRequests, FS_Subset
<1> QED BY <1>2, FS_CardinalityType

\* No new attempt and no new failure.
LEMMA LockQuiet ==
    ASSUME TypeOK, TypeOK', LockInv, failures' <= failures, hist.unguarded => hist'.unguarded,
           \A q \in Requests : req'[q].at \in TryPoints => req[q].at \in TryPoints
    PROVE  LockInv'
<1>1. Trying' \in SUBSET Trying
  BY DEF Trying
<1>2. Cardinality(Trying') <= Cardinality(Trying)
  BY <1>1, TryingFinite, FS_Subset
<1>3. failures \in Nat /\ failures' \in Nat /\ hist.unguarded \in BOOLEAN /\ hist'.unguarded \in BOOLEAN
  BY DEF TypeOK, Histories
<1> QED BY SMTT(30), <1>2, <1>3, TryingFinite, TryingFiniteNext, Bounds DEF LockInv

\* A handler that answers, or moves on without becoming an attempt.
LEMMA LockMove ==
    ASSUME TypeOK, TypeOK', LockInv, NEW r \in Requests,
           failures' <= failures, hist.unguarded => hist'.unguarded,
           \/ Answer(r)
           \/ \E p : Goto(r, p) /\ (p \in TryPoints => req[r].at \in TryPoints)
           \/ \E h : Remember(r, h) /\ (h.at \in TryPoints => req[r].at \in TryPoints)
    PROVE  LockInv'
<1>1. \A q \in Requests \ {r} : req'[q] = req[q]
  BY Moved
<1>2. req'[r].at \in TryPoints => req[r].at \in TryPoints
  BY SMTT(30), Moved DEF Idle, TryPoints
<1> QED BY <1>1, <1>2, LockQuiet

\* CountRecentFailures lets an attempt pass below the limit only.
LEMMA LockCount ==
    ASSUME TypeOK, TypeOK', LockInv, NEW r \in Requests, CountRecentFailures(r)
    PROVE  LockInv'
<1>1. failures' = failures /\ hist' = hist /\ failures \in Nat
  BY DEF CountRecentFailures, TypeOK
<1>2. CASE failures >= LoginMaxFailures
  BY SMTT(30), <1>1, <1>2, LockMove DEF CountRecentFailures
<1>3. CASE failures < LoginMaxFailures
  BY SMTT(30), <1>1, <1>3, TryingFinite, TryingFiniteNext, Bounds DEF LockInv
<1> QED BY SMTT(30), <1>1, <1>2, <1>3, Bounds

\* RecordLoginAttempt turns an attempt into a failure.
LEMMA LockRecord ==
    ASSUME TypeOK, TypeOK', LockInv, NEW r \in Requests, RecordLoginAttempt(r)
    PROVE  LockInv'
<1>1. failures' = failures + 1 /\ hist' = hist /\ failures \in Nat /\ Answer(r) /\ req[r].at = "record"
  BY DEF RecordLoginAttempt, TypeOK, At
<1>2. req'[r] = Idle /\ \A q \in Requests \ {r} : req'[q] = req[q]
  BY <1>1, Moved
<1>3. Trying' = Trying \ {r} /\ r \in Trying
  BY SMTT(30), <1>1, <1>2 DEF Trying, TryPoints, Idle
<1>4. Cardinality(Trying') = Cardinality(Trying) - 1
  BY <1>3, TryingFinite, FS_RemoveElement
<1> QED BY SMTT(30), <1>1, <1>4, TryingFinite, TryingFiniteNext, Bounds DEF LockInv

\* The steps that touch every handler leave each at its place.
LEMMA LockAll ==
    ASSUME TypeOK, TypeOK', LockInv, NEW r \in Requests, SetTOTPSecret(r) \/ RevokeUserSessions(r)
    PROVE  LockInv'
<1>1. failures' = failures /\ hist'.unguarded = hist.unguarded /\ failures \in Nat
  BY DEF SetTOTPSecret, RevokeUserSessions, TypeOK, Histories
<1>2. ASSUME NEW x \in Handlers, NEW b PROVE [x EXCEPT !.crossed = b].at = x.at
  BY DEF Handlers
<1>3. ASSUME NEW q \in Requests, q # r PROVE req'[q].at = req[q].at
  <2>1. \E b : req'[q] = [req[q] EXCEPT !.crossed = b]
    BY <1>3 DEF SetTOTPSecret, RevokeUserSessions
  <2> QED BY SMTT(30), <2>1, <1>2 DEF TypeOK
<1>4. req'[r].at \notin TryPoints
  BY SMTT(30) DEF SetTOTPSecret, RevokeUserSessions, TypeOK, Handlers, Idle, TryPoints
<1> QED BY SMTT(30), <1>1, <1>3, <1>4, LockQuiet

\* Every step keeps the attempts and the failures within the bound.
LEMMA LockStep == TypeOK /\ LockInv /\ [Next]_vars => LockInv'
<1> SUFFICES ASSUME TypeOK, LockInv, [Next]_vars PROVE LockInv'
  OBVIOUS
<1>t. TypeOK' /\ failures \in Nat
  BY TypeStep DEF TypeOK
<1>1. ASSUME UNCHANGED <<failures, hist, req>> PROVE LockInv'
  BY SMTT(30), <1>t, <1>1, LockQuiet
<1>2. ASSUME NEW r \in Requests,
             \/ IncrThrottle(r) \/ ExpireThrottle(r) \/ CreateSession(r) \/ HandleLogout(r) \/ CheckPassword(r)
             \/ ReverifyToken(r) \/ RevokeOwnSession(r) \/ VerifyAPIKey(r) \/ HandleCreateAPIKey(r)
             \/ ClearLoginFailures(r)
      PROVE  LockInv'
  <2>1. failures' <= failures /\ hist' = hist
    BY SMTT(30), <1>2, <1>t
       DEF IncrThrottle, ExpireThrottle, CreateSession, HandleLogout, CheckPassword, ReverifyToken,
       RevokeOwnSession, VerifyAPIKey, HandleCreateAPIKey, ClearLoginFailures
  <2>2. Answer(r) \/ \E p : Goto(r, p) /\ p \notin TryPoints
    <3>1. CASE IncrThrottle(r) \/ ExpireThrottle(r) \/ CreateSession(r) \/ HandleLogout(r)
      BY SMTT(30), <3>1 DEF IncrThrottle, ExpireThrottle, CreateSession, HandleLogout, TryPoints
    <3>2. CASE CheckPassword(r) \/ ReverifyToken(r)
      BY SMTT(30), <3>2 DEF CheckPassword, ReverifyToken, TryPoints
    <3>3. CASE RevokeOwnSession(r) \/ VerifyAPIKey(r)
      BY SMTT(30), <3>3 DEF RevokeOwnSession, VerifyAPIKey, TryPoints
    <3>4. CASE HandleCreateAPIKey(r) \/ ClearLoginFailures(r)
      BY SMTT(30), <3>4 DEF HandleCreateAPIKey, ClearLoginFailures, TryPoints
    <3> QED BY <1>2, <3>1, <3>2, <3>3, <3>4
  <2> QED BY <1>t, <2>1, <2>2, LockMove
<1>3. ASSUME NEW r \in Requests,
             \/ ConsumeBackupCode(r) \/ SetUserPassword(r) \/ SetBackupCodes(r) \/ HandleRevokeAPIKey(r)
             \/ HandleChangeRole(r) \/ HandleCreateUser(r) \/ EnableTOTP(r) \/ TurnOffTOTP(r)
      PROVE  LockInv'
  <2>1. failures' = failures
    BY <1>3 DEF ConsumeBackupCode, SetUserPassword, SetBackupCodes, HandleRevokeAPIKey, HandleChangeRole,
       HandleCreateUser, EnableTOTP, TurnOffTOTP
  <2>2. hist'.unguarded = hist.unguarded
    BY <1>3 DEF ConsumeBackupCode, SetUserPassword, SetBackupCodes, HandleRevokeAPIKey, HandleChangeRole,
       HandleCreateUser, EnableTOTP, TurnOffTOTP, TypeOK, Histories
  <2>3. Answer(r) \/ \E p : Goto(r, p) /\ (p \in TryPoints => req[r].at \in TryPoints)
    BY SMTT(30), <1>3
       DEF ConsumeBackupCode, SetUserPassword, SetBackupCodes, HandleRevokeAPIKey, HandleChangeRole,
       HandleCreateUser, EnableTOTP, TurnOffTOTP, At, TryPoints
  <2>4. failures' <= failures
    BY SMTT(30), <1>t, <2>1
  <2> QED BY <1>t, <2>2, <2>3, <2>4, LockMove
<1>4. ASSUME NEW r \in Requests, GetUserByEmail(r) \/ IdentifyUser(r) \/ ProvisionUser(r) PROVE LockInv'
  <2>1. failures' = failures /\ hist' = hist
    BY <1>4 DEF GetUserByEmail, IdentifyUser, ProvisionUser
  <2>2. \/ Answer(r)
        \/ Goto(r, "provision")
        \/ At(r, "user") /\ Goto(r, "record")
        \/ \E p \in {"clear", "create"} : \E role : Remember(r, Proven(r, p, role, hist.gen))
        \/ \E role, c : At(r, "user") /\ Remember(r, [Proven(r, "consume", role, hist.gen) EXCEPT !.code = c])
    BY <1>4 DEF GetUserByEmail, IdentifyUser, ProvisionUser
  <2>3. CASE Answer(r) \/ Goto(r, "provision") \/ (At(r, "user") /\ Goto(r, "record"))
    BY SMTT(30), <1>t, <2>1, <2>3, LockMove DEF At, TryPoints
  <2>4. ASSUME NEW h, Remember(r, h), h.at \in {"clear", "create"} \/ req[r].at = "user" PROVE LockInv'
    BY SMTT(30), <1>t, <2>1, <2>4, LockMove DEF TryPoints
  <2>5. ASSUME NEW p, NEW role PROVE Proven(r, p, role, hist.gen).at = p
    BY SMTT(30), ProvenFields
  <2> QED BY <2>2, <2>3, <2>4, <2>5 DEF At
<1>5. ASSUME NEW r \in Requests, VerifySessionToken(r) PROVE LockInv'
  <2>1. Verified(req[r].kind) \notin TryPoints
    BY DEF Verified, TryPoints
  <2> QED BY SMTT(30), <1>t, <1>5, <2>1, LockMove DEF VerifySessionToken
<1>6. ASSUME NEW r \in Requests, RotateSession(r) PROVE LockInv'
  <2> DEFINE old == sessions[req[r].jti]
             h == [Proven(r, "create", old.role, old.gen) EXCEPT !.crossed = old.late]
  <2>1. h.at = "create"
    BY SMTT(30), ProvenCreate
  <2>2. Answer(r) \/ Remember(r, h)
    BY <1>6 DEF RotateSession
  <2> HIDE DEF h
  <2> QED BY SMTT(30), <1>t, <1>6, <2>1, <2>2, LockMove DEF RotateSession, TryPoints
<1>7. ASSUME NEW r \in Requests, GetUserTOTPSecret(r) PROVE LockInv'
  <2> DEFINE p == IF req[r].kind = "confirm" THEN "enable" ELSE "turnOff"
             h == [req[r] EXCEPT !.at = p, !.secret = user.secret]
  <2>1. h.at \notin TryPoints
    BY DEF TypeOK, Handlers, TryPoints
  <2>2. Answer(r) \/ Remember(r, h)
    BY <1>7 DEF GetUserTOTPSecret
  <2> HIDE DEF h
  <2>3. failures' = failures /\ hist' = hist
    BY <1>7 DEF GetUserTOTPSecret
  <2>4. failures' <= failures
    BY SMTT(30), <1>t, <2>3
  <2> QED BY <1>t, <2>1, <2>2, <2>3, <2>4, LockMove
<1>8. ASSUME NEW r \in Requests, CallFails(r) \/ Crash(r) PROVE LockInv'
  <2>1. failures' = failures /\ (hist.unguarded => hist'.unguarded)
    BY <1>8 DEF CallFails, Crash, Undone, TypeOK, Histories
  <2>2. CASE CallFails(r) /\ At(r, "count")
    BY <2>2 DEF CallFails, Undone, TypeOK, Histories, LockInv
  <2>3. CASE ~(CallFails(r) /\ At(r, "count"))
    <3>1. Answer(r) \/ \E p : Goto(r, p) /\ (p \in TryPoints => req[r].at \in TryPoints)
      BY SMTT(30), <1>8, <2>3 DEF CallFails, Crash, OnError, At, TryPoints
    <3> QED BY SMTT(30), <1>t, <2>1, <3>1, LockMove
  <2> QED BY <2>2, <2>3
<1>9. ASSUME NEW r \in Requests, NEW kind \in Kinds, NEW jti \in JTIs \cup {NoOne},
             NEW key \in Keys \cup {NoOne}, Arrive(r, kind, jti, key)
      PROVE  LockInv'
  <2> DEFINE h == [Idle EXCEPT !.kind = kind, !.at = Entry(kind), !.jti = jti, !.key = key]
  <2>1. h.at \notin TryPoints
    BY DEF Idle, Entry, TryPoints
  <2>2. Remember(r, h)
    BY <1>9 DEF Arrive, Remember
  <2> HIDE DEF h
  <2> QED BY SMTT(30), <1>t, <1>9, <2>1, <2>2, LockMove DEF Arrive
<1>10. ASSUME FailureAges PROVE LockInv'
  BY SMTT(30), <1>t, <1>10, LockQuiet DEF FailureAges
<1>11. ASSUME (\E j \in JTIs : SessionExpires(j)) \/ ThrottleWindowEnds PROVE LockInv'
  BY <1>1, <1>11 DEF SessionExpires, ThrottleWindowEnds
<1>12. ASSUME NEW r \in Requests, Handle(r) PROVE LockInv'
  BY <1>t, <1>2, <1>3, <1>4, <1>5, <1>6, <1>7, <1>12, LockCount, LockRecord, LockAll DEF Handle
<1> QED BY <1>1, <1>8, <1>9, <1>10, <1>11, <1>12 DEF Next, vars

\* CountRecentFailures and RecordLoginAttempt: past the limit an account gets at
\* most as many more failures as there are requests in flight together.
THEOREM LockoutBounded == Spec => []LockoutHolds
<1>1. Init => TypeOK /\ LockInv
  <2>1. ASSUME Init PROVE LockInv
    <3>1. failures = 0 /\ \A q \in Requests : req[q] = Idle
      BY <2>1 DEF Init
    <3>2. Trying = {}
      BY SMTT(30), <3>1 DEF Trying, TryPoints, Idle
    <3> QED BY SMTT(30), <3>1, <3>2, FS_EmptySet, TryingFinite, Bounds DEF LockInv
  <2> QED BY <2>1, TypeInit
<1>2. TypeOK /\ LockInv /\ [Next]_vars => (TypeOK /\ LockInv)'
  BY TypeStep, LockStep
<1>3. TypeOK /\ LockInv => LockoutHolds
  BY SMTT(30), TryingFinite, Bounds DEF LockInv, LockoutHolds, TypeOK
<1> QED BY <1>1, <1>2, <1>3, PTL DEF Spec

=============================================================================
