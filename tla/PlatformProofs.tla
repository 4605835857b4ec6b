--------------------------- MODULE PlatformProofs ---------------------------
(***************************************************************************)
(* Proofs about four services that share no variables: operator logins,    *)
(* the carrier's feed of delivery points, legal documents, and the         *)
(* retention of uploads.  Each has an inductive invariant of its own and   *)
(* holds for every number of concurrent requests, callers, editors and     *)
(* workers.                                                                *)
(***************************************************************************)
EXTENDS OperatorAuth, DeliveryFeed, LegalDocuments, Retention, SumLemmas, SequenceTheorems, TLAPS

----------------------------------------------------------------------------
(* Operator logins.  A handler owns an attempt from the moment it took the    *)
(* attempt while it was PENDING until the handler ends.                       *)

AttemptRows == [status : {"NONE", "PENDING", "EXCHANGING", "FAILED", "COMPLETED", "PURGED"},
                expiresAt : Int, session : Nat]
SessionRows == [attempt : Attempts \cup {0}, version : Nat, revoked : BOOLEAN,
                lastSeenAt : Int, absoluteExpiresAt : Int]
HandlerStates == [pc : {"IDLE", "READ", "CLAIMED", "KNOWN", "UNKNOWN", "FAILING", "LOCKED",
                        "SEEN"},
                  attempt : Attempts \cup {0}, version : Nat, session : Nat, at : Int,
                  revokes : SUBSET Nat]

AuthTypeOK ==
  /\ operator \in [role : {"ADMIN", "OPERATOR"}, nodes : 0..2, active : BOOLEAN, version : Nat]
  /\ attempts \in [Attempts -> AttemptRows]
  /\ sessions \in Seq(SessionRows)
  /\ handlers \in [Handlers -> HandlerStates]
  /\ authTime \in Int

Owns(h) == handlers[h].pc \in {"CLAIMED", "KNOWN", "UNKNOWN", "FAILING", "LOCKED"}

\* An owned attempt is still being exchanged, or was deleted meanwhile, it has
\* no session yet, and no other handler owns it.
AttemptOwned(h) ==
  LET a == handlers[h].attempt IN
  Owns(h) /\ a # 0 =>
    /\ attempts[a].status \in {"EXCHANGING", "PURGED"}
    /\ \A i \in DOMAIN sessions : sessions[i].attempt # a
    /\ \A k \in Handlers : k # h /\ Owns(k) => handlers[k].attempt # a

SessionRecorded(i) ==
  LET a == sessions[i].attempt IN
  a # 0 => attempts[a].session = i /\ attempts[a].status \in {"COMPLETED", "PURGED"}

\* The handler at the lock is alone there, and revokes every session in use.
LockHeld(h) ==
  handlers[h].pc = "LOCKED" =>
    /\ \A k \in Handlers : handlers[k].pc = "LOCKED" => k = h
    /\ \A i \in DOMAIN sessions : ~sessions[i].revoked => i \in handlers[h].revokes

\* A request about to note that a session was seen names a session.
SeenSession(h) == handlers[h].pc = "SEEN" => handlers[h].session \in DOMAIN sessions

OneUnrevoked ==
  \A i, j \in DOMAIN sessions : ~sessions[i].revoked /\ ~sessions[j].revoked => i = j

AuthInv ==
  /\ AuthTypeOK
  /\ \A h \in Handlers : AttemptOwned(h) /\ LockHeld(h) /\ SeenSession(h)
  /\ \A i \in DOMAIN sessions : SessionRecorded(i)
  /\ OneUnrevoked

\* A request at rest, and the states one begins with.
LEMMA RestingRequests ==
  /\ Idle \in HandlerStates
  /\ \A a \in Attempts : [Idle EXCEPT !.pc = "READ", !.attempt = a] \in HandlerStates
  /\ \A i \in Nat, at \in Int :
       [Idle EXCEPT !.pc = "SEEN", !.session = i, !.at = at] \in HandlerStates
  /\ \A v \in Nat : [Idle EXCEPT !.pc = "KNOWN", !.version = v] \in HandlerStates
<1>1. {} \in SUBSET Nat
  OBVIOUS
<1>2. Idle \in HandlerStates
  BY <1>1 DEF Idle, HandlerStates
<1>3. \A a \in Attempts : [Idle EXCEPT !.pc = "READ", !.attempt = a] \in HandlerStates
  BY <1>2 DEF HandlerStates
<1>4. \A i \in Nat, at \in Int :
       [Idle EXCEPT !.pc = "SEEN", !.session = i, !.at = at] \in HandlerStates
  BY <1>2 DEF HandlerStates
<1>5. \A v \in Nat : [Idle EXCEPT !.pc = "KNOWN", !.version = v] \in HandlerStates
  BY <1>2 DEF HandlerStates
<1> QED
  BY <1>2, <1>3, <1>4, <1>5

\* Nothing was asked yet.
LEMMA AuthInitially == AuthInit => AuthInv
<1> SUFFICES ASSUME AuthInit PROVE AuthInv
  OBVIOUS
<1>1. AuthTypeOK
  <2>1. sessions \in Seq(SessionRows)
    BY DEF AuthInit
  <2>2. attempts \in [Attempts -> AttemptRows]
    BY DEF AuthInit, AttemptRows
  <2>3. handlers \in [Handlers -> HandlerStates]
    BY RestingRequests DEF AuthInit
  <2>4. operator \in [role : {"ADMIN", "OPERATOR"}, nodes : 0..2, active : BOOLEAN, version : Nat]
    <3>1. {TRUE} \subseteq BOOLEAN /\ {1} \subseteq Nat
      OBVIOUS
    <3> QED
      BY <3>1, Zenon DEF AuthInit
  <2> QED
    BY <2>1, <2>2, <2>3, <2>4 DEF AuthInit, AuthTypeOK
<1> QED
  BY <1>1 DEF AuthInit, AuthInv, AttemptOwned, Owns, LockHeld, SeenSession, SessionRecorded,
     OneUnrevoked, Idle

\* The rows of the sessions a request finds.
LEMMA SessionTypes ==
  ASSUME AuthInv, NEW i \in DOMAIN sessions
  PROVE  sessions[i] \in SessionRows /\ sessions[i].attempt \in Attempts \cup {0} /\ i \in Nat
<1>1. sessions \in Seq(SessionRows)
  BY DEF AuthInv, AuthTypeOK
<1>2. i \in 1..Len(sessions)
  BY <1>1
<1>3. sessions[i] \in SessionRows
  BY <1>1, <1>2, ElementOfSeq
<1> QED
  BY <1>2, <1>3 DEF SessionRows

\* A request that reads, fails before it takes an attempt, or notes a session.
LEMMA RequestKeeps ==
  ASSUME AuthInv, NEW h \in Handlers,
         \/ \E a \in Attempts : readGithubAttempt(h, a)
         \/ \E i \in DOMAIN sessions : authenticateRequest(h, i)
         \/ loginWithDevelopmentPassword(h)
         \/ exchangeCode(h)
  PROVE  AuthInv'
<1>1. UNCHANGED <<operator, attempts, sessions, authTime>>
  BY DEF readGithubAttempt, authenticateRequest, loginWithDevelopmentPassword, exchangeCode
<1>2. PICK x \in HandlerStates :
        /\ handlers' = [handlers EXCEPT ![h] = x]
        /\ x.pc # "LOCKED" /\ handlers[h].pc # "LOCKED"
        /\ x.pc = "SEEN" => x.session \in DOMAIN sessions
        /\ \/ x.pc \in {"IDLE", "READ", "SEEN"}
           \/ x.attempt = 0
           \/ x.attempt = handlers[h].attempt /\ handlers[h].pc = "CLAIMED"
  <2>1. CASE \E a \in Attempts : readGithubAttempt(h, a)
    <3>1. PICK a \in Attempts : readGithubAttempt(h, a)
      BY <2>1
    <3>2. [Idle EXCEPT !.pc = "READ", !.attempt = a] \in HandlerStates
      BY RestingRequests DEF AuthInv, AuthTypeOK
    <3> QED
      BY <3>1, <3>2 DEF readGithubAttempt, Idle
  <2>2. CASE \E i \in DOMAIN sessions : authenticateRequest(h, i)
    <3>1. PICK i \in DOMAIN sessions : authenticateRequest(h, i)
      BY <2>2
    <3>2. i \in Nat /\ authTime \in Int
      BY DEF AuthInv, AuthTypeOK
    <3>3. [Idle EXCEPT !.pc = "SEEN", !.session = i, !.at = authTime] \in HandlerStates
      BY <3>2, RestingRequests
    <3> QED
      BY <3>1, <3>3 DEF authenticateRequest, Idle
  <2>3. CASE loginWithDevelopmentPassword(h)
    <3>1. /\ Idle \in HandlerStates
          /\ [Idle EXCEPT !.pc = "KNOWN", !.version = operator.version] \in HandlerStates
      BY RestingRequests DEF AuthInv, AuthTypeOK
    <3> QED
      BY <2>3, <3>1 DEF loginWithDevelopmentPassword, Ends, Idle
  <2>4. CASE exchangeCode(h)
    <3>1. /\ [handlers[h] EXCEPT !.pc = "KNOWN", !.version = operator.version] \in HandlerStates
          /\ [handlers[h] EXCEPT !.pc = "UNKNOWN"] \in HandlerStates
          /\ [handlers[h] EXCEPT !.pc = "FAILING"] \in HandlerStates
          /\ handlers \in [Handlers -> HandlerStates]
      BY DEF HandlerStates, AuthInv, AuthTypeOK
    <3>2. \/ handlers' = [handlers EXCEPT ![h] = [handlers[h] EXCEPT !.pc = "KNOWN", !.version = operator.version]]
          \/ handlers' = [handlers EXCEPT ![h] = [handlers[h] EXCEPT !.pc = "UNKNOWN"]]
          \/ handlers' = [handlers EXCEPT ![h] = [handlers[h] EXCEPT !.pc = "FAILING"]]
      BY <2>4, <3>1 DEF exchangeCode, Goto, HandlerStates
    <3> QED
      BY <2>4, <3>1, <3>2 DEF exchangeCode, HandlerStates
  <2> QED
    BY <2>1, <2>2, <2>3, <2>4
<1>3. AuthTypeOK'
  BY <1>1, <1>2 DEF AuthInv, AuthTypeOK
<1>4. \A k \in Handlers : handlers'[k] = IF k = h THEN x ELSE handlers[k]
  BY <1>2 DEF AuthInv, AuthTypeOK
<1>5. \A k \in Handlers : LockHeld(k)' /\ SeenSession(k)'
  BY <1>1, <1>2, <1>4 DEF AuthInv, LockHeld, SeenSession
<1>6. \A k \in Handlers : AttemptOwned(k)'
  BY <1>1, <1>2, <1>4 DEF AuthInv, AttemptOwned, Owns
<1>7. (\A i \in DOMAIN sessions : SessionRecorded(i))' /\ OneUnrevoked'
  BY <1>1 DEF AuthInv, SessionRecorded, OneUnrevoked
<1> QED
  BY <1>3, <1>5, <1>6, <1>7 DEF AuthInv

\* A handler takes the lock: nobody else has it, and every session in use is to
\* be revoked.  A node scope that serves no session sends it away.
LEMMA LockKeeps ==
  ASSUME AuthInv, NEW h \in Handlers, lockAndRevoke(h)
  PROVE  AuthInv'
<1>1. UNCHANGED <<operator, attempts, sessions, authTime>> /\ handlers[h].pc = "KNOWN"
  BY DEF lockAndRevoke
<1>2. PICK x \in HandlerStates :
        /\ handlers' = [handlers EXCEPT ![h] = x]
        /\ x.pc = "LOCKED" => lockOperatorIdentity /\ x.revokes = revokeOperatorSessions
        /\ x.pc # "SEEN"
        /\ \/ x.pc = "IDLE"
           \/ x.attempt = handlers[h].attempt
  <2>1. revokeOperatorSessions \in SUBSET Nat
    BY DEF revokeOperatorSessions, AuthInv, AuthTypeOK
  <2>2. /\ [handlers[h] EXCEPT !.pc = "LOCKED", !.revokes = revokeOperatorSessions] \in HandlerStates
        /\ [handlers[h] EXCEPT !.pc = "FAILING"] \in HandlerStates
        /\ handlers \in [Handlers -> HandlerStates]
    BY <2>1 DEF HandlerStates, AuthInv, AuthTypeOK
  <2>3. \/ handlers' = [handlers EXCEPT ![h] =
                          [handlers[h] EXCEPT !.pc = "LOCKED", !.revokes = revokeOperatorSessions]]
        \/ handlers' = [handlers EXCEPT ![h] = Idle]
        \/ handlers' = [handlers EXCEPT ![h] = [handlers[h] EXCEPT !.pc = "FAILING"]]
    BY <2>2 DEF lockAndRevoke, Goto, Ends, HandlerStates
  <2>4. handlers[h] \in HandlerStates /\ lockOperatorIdentity /\ Idle.pc = "IDLE"
    BY DEF lockAndRevoke, AuthInv, AuthTypeOK, Idle
  <2>5. CASE handlers' = [handlers EXCEPT ![h] =
                            [handlers[h] EXCEPT !.pc = "LOCKED", !.revokes = revokeOperatorSessions]]
    BY <2>2, <2>4, <2>5 DEF HandlerStates
  <2>6. CASE handlers' = [handlers EXCEPT ![h] = Idle]
    BY <2>4, <2>6, RestingRequests
  <2>7. CASE handlers' = [handlers EXCEPT ![h] = [handlers[h] EXCEPT !.pc = "FAILING"]]
    BY <2>2, <2>4, <2>7 DEF HandlerStates
  <2> QED
    BY <2>3, <2>5, <2>6, <2>7
<1>3. AuthTypeOK'
  BY <1>1, <1>2 DEF AuthInv, AuthTypeOK
<1>4. \A k \in Handlers : handlers'[k] = IF k = h THEN x ELSE handlers[k]
  BY <1>2 DEF AuthInv, AuthTypeOK
<1>5. \A k \in Handlers : LockHeld(k)' /\ SeenSession(k)'
  BY <1>1, <1>2, <1>4 DEF AuthInv, LockHeld, SeenSession, lockOperatorIdentity,
     revokeOperatorSessions
<1>6. \A k \in Handlers : AttemptOwned(k)'
  BY <1>1, <1>2, <1>4 DEF AuthInv, AttemptOwned, Owns
<1>7. (\A i \in DOMAIN sessions : SessionRecorded(i))' /\ OneUnrevoked'
  BY <1>1 DEF AuthInv, SessionRecorded, OneUnrevoked
<1> QED
  BY <1>3, <1>5, <1>6, <1>7 DEF AuthInv

\* An attempt that has never been started has neither an owner nor a session.
LEMMA StartKeeps ==
  ASSUME AuthInv, NEW a \in Attempts, startGithubLogin(a)
  PROVE  AuthInv'
<1>1. /\ attempts[a].status = "NONE"
      /\ UNCHANGED <<operator, sessions, handlers, authTime>>
      /\ attempts' = [attempts EXCEPT ![a] =
           [status |-> "PENDING", expiresAt |-> authTime + LOGIN_ATTEMPT, session |-> 0]]
  BY DEF startGithubLogin
<1>2. AuthTypeOK'
  BY <1>1 DEF AuthInv, AuthTypeOK, AttemptRows, LOGIN_ATTEMPT
<1>3. \A b \in Attempts : b # a => attempts'[b] = attempts[b]
  BY <1>1 DEF AuthInv, AuthTypeOK
<1>4. ASSUME NEW k \in Handlers
      PROVE  AttemptOwned(k)' /\ LockHeld(k)' /\ SeenSession(k)'
  <2>1. AttemptOwned(k) /\ LockHeld(k) /\ SeenSession(k) /\ handlers[k].attempt \in Attempts \cup {0}
    BY DEF AuthInv, AuthTypeOK, HandlerStates
  <2> QED
    BY <2>1, <1>1, <1>3 DEF AttemptOwned, LockHeld, SeenSession, Owns
<1>5. ASSUME NEW i \in DOMAIN sessions
      PROVE  SessionRecorded(i)'
  <2>1. SessionRecorded(i) /\ sessions[i].attempt \in Attempts \cup {0}
    BY SessionTypes DEF AuthInv
  <2> QED
    BY <2>1, <1>1, <1>3 DEF SessionRecorded
<1> QED
  BY <1>1, <1>2, <1>4, <1>5 DEF AuthInv, OneUnrevoked

\* The attempts after one of them took another status.
LEMMA AttemptStatus ==
  ASSUME attempts \in [Attempts -> AttemptRows], NEW a, NEW st \in {"EXCHANGING", "FAILED"}
  PROVE  [attempts EXCEPT ![a].status = st] \in [Attempts -> AttemptRows]
<1>1. \A row \in AttemptRows : [row EXCEPT !.status = st] \in AttemptRows
  BY DEF AttemptRows
<1>2. CASE a \in Attempts
  BY <1>1, <1>2
<1>3. CASE a \notin Attempts
  BY <1>3
<1> QED
  BY <1>2, <1>3

\* The attempt is taken by the one handler that still finds it PENDING.
LEMMA ClaimAttemptKeeps ==
  ASSUME AuthInv, NEW h \in Handlers, claimGithubAttempt(h)
  PROVE  AuthInv'
<1>1. PICK a \in Attempts \cup {0} : a = handlers[h].attempt
  BY DEF AuthInv, AuthTypeOK, HandlerStates
<1>2. UNCHANGED <<operator, sessions, authTime>> /\ handlers[h].pc = "READ"
  BY DEF claimGithubAttempt
<1>3. PICK x \in HandlerStates :
        /\ handlers' = [handlers EXCEPT ![h] = x]
        /\ \/ x.pc = "IDLE" /\ (attempts' = attempts \/ (attempts[a].status = "PENDING" /\ attempts' = [attempts EXCEPT ![a].status = "EXCHANGING"]))
           \/ /\ x.pc = "CLAIMED" /\ x.attempt = a /\ attempts[a].status = "PENDING"
              /\ attempts' = [attempts EXCEPT ![a].status = "EXCHANGING"]
  <2>1. [handlers[h] EXCEPT !.pc = "CLAIMED"] \in HandlerStates
    BY DEF HandlerStates, AuthInv, AuthTypeOK
  <2>2. \/ handlers' = [handlers EXCEPT ![h] = [handlers[h] EXCEPT !.pc = "CLAIMED"]]
             /\ attempts[a].status = "PENDING"
             /\ attempts' = [attempts EXCEPT ![a].status = "EXCHANGING"]
        \/ handlers' = [handlers EXCEPT ![h] = Idle]
             /\ (attempts' = attempts \/ (attempts[a].status = "PENDING" /\ attempts' = [attempts EXCEPT ![a].status = "EXCHANGING"]))
    BY <1>1 DEF claimGithubAttempt, Goto, Ends, stillPending, AuthInv, AuthTypeOK
  <2>3. Idle \in HandlerStates /\ Idle.pc = "IDLE"
    BY RestingRequests DEF Idle
  <2>4. /\ [handlers[h] EXCEPT !.pc = "CLAIMED"].pc = "CLAIMED"
        /\ [handlers[h] EXCEPT !.pc = "CLAIMED"].attempt = a
    BY <1>1 DEF HandlerStates, AuthInv, AuthTypeOK
  <2>5. CASE handlers' = [handlers EXCEPT ![h] = Idle]
             /\ (attempts' = attempts \/ (attempts[a].status = "PENDING" /\ attempts' = [attempts EXCEPT ![a].status = "EXCHANGING"]))
    BY <2>3, <2>5
  <2>6. CASE handlers' = [handlers EXCEPT ![h] = [handlers[h] EXCEPT !.pc = "CLAIMED"]]
             /\ attempts[a].status = "PENDING"
             /\ attempts' = [attempts EXCEPT ![a].status = "EXCHANGING"]
    BY <2>1, <2>4, <2>6
  <2> QED
    BY <2>2, <2>5, <2>6
<1>4. AuthTypeOK'
  <2>1. attempts' \in [Attempts -> AttemptRows]
    <3>1. attempts \in [Attempts -> AttemptRows]
      BY DEF AuthInv, AuthTypeOK
    <3>2. [attempts EXCEPT ![a].status = "EXCHANGING"] \in [Attempts -> AttemptRows]
      BY <3>1, AttemptStatus
    <3>3. attempts' = attempts \/ attempts' = [attempts EXCEPT ![a].status = "EXCHANGING"]
      BY <1>3
    <3> QED
      BY <3>1, <3>2, <3>3, Zenon
  <2> QED
    BY <2>1, <1>2, <1>3 DEF AuthInv, AuthTypeOK
<1>5. \A k \in Handlers : handlers'[k] = IF k = h THEN x ELSE handlers[k]
  BY <1>3 DEF AuthInv, AuthTypeOK
<1>6. \A b \in Attempts : attempts'[b] = attempts[b]
        \/ (b = a /\ attempts[b].status = "PENDING" /\ attempts'[b].status = "EXCHANGING")
  BY <1>3 DEF AuthInv, AuthTypeOK, AttemptRows
<1>7. \A i \in DOMAIN sessions :
        sessions[i].attempt # 0 => attempts'[sessions[i].attempt] = attempts[sessions[i].attempt]
  <2> SUFFICES ASSUME NEW i \in DOMAIN sessions, sessions[i].attempt # 0
               PROVE  attempts'[sessions[i].attempt] = attempts[sessions[i].attempt]
    OBVIOUS
  <2>1. SessionRecorded(i) /\ sessions[i].attempt \in Attempts
    BY SessionTypes DEF AuthInv
  <2> QED
    BY <2>1, <1>6 DEF SessionRecorded
<1>8. ASSUME NEW k \in Handlers
      PROVE  AttemptOwned(k)'
  <2>1. AttemptOwned(k) /\ AttemptOwned(h) /\ handlers[k].attempt \in Attempts \cup {0}
    BY DEF AuthInv, AuthTypeOK, HandlerStates
  <2>2. CASE k = h
    <3>1. ASSUME x.pc = "CLAIMED", a # 0
          PROVE  /\ attempts'[a].status = "EXCHANGING"
                 /\ \A i \in DOMAIN sessions : sessions[i].attempt # a
                 /\ \A l \in Handlers : l # h /\ Owns(l) => handlers[l].attempt # a
      <4>1. attempts[a].status = "PENDING" /\ attempts'[a].status = "EXCHANGING"
        BY <3>1, <1>1, <1>3 DEF AuthInv, AuthTypeOK, AttemptRows
      <4>2. \A i \in DOMAIN sessions : SessionRecorded(i)
        BY DEF AuthInv
      <4>3. \A l \in Handlers : AttemptOwned(l)
        BY DEF AuthInv
      <4> QED
        BY <4>1, <4>2, <4>3, <3>1 DEF SessionRecorded, AttemptOwned
    <3> QED
      BY <3>1, <2>2, <1>2, <1>3, <1>5 DEF AttemptOwned, Owns
  <2>3. CASE k # h
    <3>1. Owns(k) /\ handlers[k].attempt # 0 => attempts[handlers[k].attempt].status # "PENDING"
      BY <2>1 DEF AttemptOwned
    <3>2. handlers'[k] = handlers[k]
      BY <2>3, <1>5
    <3>3. Owns(k)' <=> Owns(k)
      BY <3>2 DEF Owns
    <3> QED
      BY <3>1, <3>2, <3>3, <2>1, <2>3, <1>2, <1>3, <1>5, <1>6 DEF AttemptOwned, Owns
  <2> QED
    BY <2>2, <2>3
<1>9. \A k \in Handlers : LockHeld(k)' /\ SeenSession(k)'
  BY <1>2, <1>3, <1>5 DEF AuthInv, LockHeld, SeenSession
<1>10. (\A i \in DOMAIN sessions : SessionRecorded(i))' /\ OneUnrevoked'
  BY <1>2, <1>7 DEF AuthInv, SessionRecorded, OneUnrevoked
<1> QED
  BY <1>4, <1>8, <1>9, <1>10 DEF AuthInv

\* A login that fails marks its own attempt, which nobody else owns and which has
\* no session.
LEMMA FailedLoginKeeps ==
  ASSUME AuthInv, NEW h \in Handlers, finishUnknown(h) \/ failGithubAttempt(h)
  PROVE  AuthInv'
<1>1. PICK a \in Attempts \cup {0} : a = handlers[h].attempt
  BY DEF AuthInv, AuthTypeOK, HandlerStates
<1>2. UNCHANGED <<operator, sessions, authTime>> /\ handlers[h].pc \in {"UNKNOWN", "FAILING"}
  BY DEF finishUnknown, failGithubAttempt
<1>3. attempts' = attempts \/ attempts' = [attempts EXCEPT ![a].status = "FAILED"]
  BY <1>1 DEF finishUnknown, failGithubAttempt
<1>4. PICK x \in HandlerStates :
        /\ handlers' = [handlers EXCEPT ![h] = x]
        /\ x.pc = "IDLE" \/ (x.pc = "FAILING" /\ x.attempt = a /\ attempts' = attempts)
  <2>1. [handlers[h] EXCEPT !.pc = "FAILING"] \in HandlerStates /\ handlers[h] \in HandlerStates
    BY DEF HandlerStates, AuthInv, AuthTypeOK
  <2>2. \/ /\ handlers' = [handlers EXCEPT ![h] = [handlers[h] EXCEPT !.pc = "FAILING"]]
           /\ attempts' = attempts
        \/ handlers' = [handlers EXCEPT ![h] = Idle]
    BY DEF finishUnknown, failGithubAttempt, Goto, Ends, AuthInv, AuthTypeOK
  <2>3. Idle \in HandlerStates /\ Idle.pc = "IDLE"
    BY RestingRequests DEF Idle
  <2> QED
    BY <2>1, <2>2, <2>3, <1>1 DEF HandlerStates
<1>5. AuthTypeOK'
  <2>1. attempts' \in [Attempts -> AttemptRows]
    <3>1. attempts \in [Attempts -> AttemptRows]
      BY DEF AuthInv, AuthTypeOK
    <3>2. [attempts EXCEPT ![a].status = "FAILED"] \in [Attempts -> AttemptRows]
      BY <3>1, AttemptStatus
    <3>3. attempts' = attempts \/ attempts' = [attempts EXCEPT ![a].status = "FAILED"]
      BY <1>3
    <3> QED
      BY <3>1, <3>2, <3>3, Zenon
  <2> QED
    BY <2>1, <1>2, <1>4 DEF AuthInv, AuthTypeOK
<1>6. \A k \in Handlers : handlers'[k] = IF k = h THEN x ELSE handlers[k]
  BY <1>4 DEF AuthInv, AuthTypeOK
<1>7. \A b \in Attempts : b # a => attempts'[b] = attempts[b]
  BY <1>3 DEF AuthInv, AuthTypeOK
<1>8. /\ AttemptOwned(h) /\ Owns(h)
      /\ \A i \in DOMAIN sessions : a # 0 => sessions[i].attempt # a
      /\ \A k \in Handlers : a # 0 /\ k # h /\ Owns(k) => handlers[k].attempt # a
  BY <1>1, <1>2 DEF AuthInv, AttemptOwned, Owns
<1>9. ASSUME NEW k \in Handlers
      PROVE  AttemptOwned(k)'
  <2>1. AttemptOwned(k) /\ handlers[k].attempt \in Attempts \cup {0}
    BY DEF AuthInv, AuthTypeOK, HandlerStates
  <2>2. CASE k = h
    BY <2>1, <2>2, <1>1, <1>2, <1>4, <1>6, <1>8 DEF AttemptOwned, Owns
  <2>3. CASE k # h
    <3>1. handlers'[k] = handlers[k] /\ (Owns(k)' <=> Owns(k))
      BY <2>3, <1>6 DEF Owns
    <3>2. Owns(k) /\ handlers[k].attempt # 0 =>
            attempts'[handlers[k].attempt] = attempts[handlers[k].attempt]
      BY <2>1, <2>3, <1>7, <1>8
    <3> QED
      BY <3>1, <3>2, <2>1, <2>3, <1>1, <1>2, <1>4, <1>6, <1>8 DEF AttemptOwned, Owns
  <2> QED
    BY <2>2, <2>3
<1>10. \A k \in Handlers : LockHeld(k)' /\ SeenSession(k)'
  BY <1>2, <1>4, <1>6 DEF AuthInv, LockHeld, SeenSession
<1>11. ASSUME NEW i \in DOMAIN sessions
       PROVE  SessionRecorded(i)'
  <2>1. SessionRecorded(i) /\ sessions[i].attempt \in Attempts \cup {0}
    BY SessionTypes DEF AuthInv
  <2> QED
    BY <2>1, <1>2, <1>7, <1>8 DEF SessionRecorded
<1> QED
  BY <1>2, <1>5, <1>9, <1>10, <1>11 DEF AuthInv, OneUnrevoked

\* The expiry worker deletes attempts; what they recorded stays told by their row.
LEMMA PurgeKeeps ==
  ASSUME AuthInv, purgeExpired
  PROVE  AuthInv'
<1>1. UNCHANGED <<operator, sessions, handlers, authTime>>
  BY DEF purgeExpired
<1>2. AuthTypeOK'
  BY <1>1 DEF purgeExpired, AuthInv, AuthTypeOK, AttemptRows
<1>3. \A a \in Attempts : attempts'[a] = attempts[a]
        \/ (attempts'[a].status = "PURGED" /\ attempts'[a].session = attempts[a].session)
  BY DEF purgeExpired, AuthInv, AuthTypeOK, AttemptRows
<1>4. ASSUME NEW k \in Handlers
      PROVE  AttemptOwned(k)' /\ LockHeld(k)' /\ SeenSession(k)'
  <2>1. AttemptOwned(k) /\ LockHeld(k) /\ SeenSession(k) /\ handlers[k].attempt \in Attempts \cup {0}
    BY DEF AuthInv, AuthTypeOK, HandlerStates
  <2> QED
    BY <2>1, <1>1, <1>3 DEF AttemptOwned, LockHeld, SeenSession, Owns
<1>5. ASSUME NEW i \in DOMAIN sessions
      PROVE  SessionRecorded(i)'
  <2>1. SessionRecorded(i) /\ sessions[i].attempt \in Attempts \cup {0}
    BY SessionTypes DEF AuthInv
  <2> QED
    BY <2>1, <1>1, <1>3 DEF SessionRecorded
<1> QED
  BY <1>1, <1>2, <1>4, <1>5 DEF AuthInv, OneUnrevoked

\* Sessions are only revoked or seen: none is added, none comes back.
LEMMA SessionsFade ==
  ASSUME AuthInv, UNCHANGED attempts, authTime' = authTime,
         operator' \in [role : {"ADMIN", "OPERATOR"}, nodes : 0..2, active : BOOLEAN, version : Nat],
         sessions' \in Seq(SessionRows), DOMAIN sessions' = DOMAIN sessions,
         \A i \in DOMAIN sessions : /\ sessions'[i].attempt = sessions[i].attempt
                                    /\ sessions[i].revoked => sessions'[i].revoked,
         \/ UNCHANGED handlers
         \/ \E h \in Handlers : handlers' = [handlers EXCEPT ![h] = Idle]
  PROVE  AuthInv'
<1>1. handlers' \in [Handlers -> HandlerStates]
  BY RestingRequests DEF AuthInv, AuthTypeOK
<1>2. AuthTypeOK'
  BY <1>1 DEF AuthInv, AuthTypeOK
<1>3. \A k \in Handlers : handlers'[k] = handlers[k] \/ handlers'[k].pc = "IDLE"
  <2>1. Idle.pc = "IDLE"
    BY DEF Idle
  <2> QED
    BY <2>1 DEF AuthInv, AuthTypeOK
<1>4. ASSUME NEW k \in Handlers
      PROVE  AttemptOwned(k)' /\ LockHeld(k)' /\ SeenSession(k)'
  <2>1. AttemptOwned(k) /\ LockHeld(k) /\ SeenSession(k)
    BY DEF AuthInv
  <2>2. AttemptOwned(k)'
    BY <2>1, <1>3 DEF AttemptOwned, Owns
  <2>3. LockHeld(k)'
    BY <2>1, <1>3 DEF LockHeld
  <2>4. SeenSession(k)'
    BY <2>1, <1>3 DEF SeenSession
  <2> QED
    BY <2>2, <2>3, <2>4
<1>5. (\A i \in DOMAIN sessions : SessionRecorded(i))' /\ OneUnrevoked'
  BY DEF AuthInv, SessionRecorded, OneUnrevoked
<1> QED
  BY <1>2, <1>4, <1>5 DEF AuthInv

\* What revoking a set of sessions leaves.
LEMMA RevokedSessions ==
  ASSUME AuthInv, NEW R
  PROVE  /\ Revoked(R) \in Seq(SessionRows) /\ DOMAIN Revoked(R) = DOMAIN sessions
         /\ Len(Revoked(R)) = Len(sessions)
         /\ \A i \in DOMAIN sessions : /\ Revoked(R)[i].attempt = sessions[i].attempt
                                       /\ Revoked(R)[i].revoked = (sessions[i].revoked \/ i \in R)
<1>1. sessions \in Seq(SessionRows) /\ DOMAIN sessions = 1..Len(sessions) /\ Len(sessions) \in Nat
  BY DEF AuthInv, AuthTypeOK
<1>2. ASSUME NEW i \in DOMAIN sessions
      PROVE  /\ Revoked(R)[i] = [sessions[i] EXCEPT !.revoked = sessions[i].revoked \/ i \in R]
             /\ Revoked(R)[i] \in SessionRows
             /\ Revoked(R)[i].attempt = sessions[i].attempt
             /\ Revoked(R)[i].revoked = (sessions[i].revoked \/ i \in R)
  <2>1. sessions[i] \in SessionRows
    BY SessionTypes
  <2>2. Revoked(R)[i] = [sessions[i] EXCEPT !.revoked = sessions[i].revoked \/ i \in R]
    BY DEF Revoked
  <2>3. (sessions[i].revoked \/ i \in R) \in BOOLEAN
    OBVIOUS
  <2> QED
    BY <2>1, <2>2, <2>3 DEF SessionRows
<1>3. Revoked(R) \in [1..Len(sessions) -> SessionRows]
  <2>1. \A i \in DOMAIN sessions :
          [sessions[i] EXCEPT !.revoked = sessions[i].revoked \/ i \in R] \in SessionRows
    BY <1>2
  <2>2. Revoked(R) \in [DOMAIN sessions -> SessionRows]
    BY <2>1, Zenon DEF Revoked
  <2> QED
    BY <1>1, <2>2
<1>4. Revoked(R) \in Seq(SessionRows)
  BY <1>1, <1>3, SeqDef
<1> QED
  BY <1>1, <1>2, <1>3, <1>4

\* Noting that a session was seen, logging out, and replacing or disabling the
\* operator's credentials.
LEMMA FadingKeeps ==
  ASSUME AuthInv,
         \/ (\E h \in Handlers : writeLastSeen(h)) \/ (\E i \in DOMAIN sessions : logout(i))
         \/ resetPassword \/ disable
  PROVE  AuthInv'
<1> DEFINE Operators == [role : {"ADMIN", "OPERATOR"}, nodes : 0..2, active : BOOLEAN, version : Nat]
<1>1. operator \in Operators /\ sessions \in Seq(SessionRows)
  BY DEF AuthInv, AuthTypeOK
<1>2. ASSUME NEW h \in Handlers, writeLastSeen(h)
      PROVE  AuthInv'
  <2>1. handlers[h].session \in DOMAIN sessions /\ handlers[h].at \in Int
    BY <1>2 DEF writeLastSeen, AuthInv, SeenSession, AuthTypeOK, HandlerStates
  <2>2. PICK i \in DOMAIN sessions, at \in Int :
          sessions' = sessions \/ sessions' = [sessions EXCEPT ![i] = [sessions[i] EXCEPT !.lastSeenAt = at]]
    BY <1>2, <2>1 DEF writeLastSeen
  <2>3. [sessions[i] EXCEPT !.lastSeenAt = at] \in SessionRows /\ sessions[i] \in SessionRows
    BY SessionTypes DEF SessionRows
  <2>4. /\ sessions' \in Seq(SessionRows) /\ DOMAIN sessions' = DOMAIN sessions
        /\ \A j \in DOMAIN sessions : sessions'[j] = sessions[j]
             \/ (j = i /\ sessions'[j] = [sessions[i] EXCEPT !.lastSeenAt = at])
    <3> DEFINE seen == [sessions EXCEPT ![i] = [sessions[i] EXCEPT !.lastSeenAt = at]]
    <3>1. DOMAIN sessions = 1..Len(sessions)
      BY <1>1
    <3>2. /\ seen \in Seq(SessionRows) /\ DOMAIN seen = DOMAIN sessions
          /\ \A j \in DOMAIN sessions : seen[j] = sessions[j]
               \/ (j = i /\ seen[j] = [sessions[i] EXCEPT !.lastSeenAt = at])
      BY <1>1, <2>3, <3>1, ExceptSeq
    <3>3. CASE sessions' = sessions
      BY <1>1, <3>3
    <3>4. CASE sessions' = seen
      <4> HIDE DEF seen
      <4> QED
        BY <3>2, <3>4
    <3> QED
      BY <2>2, <3>3, <3>4
  <2>5. /\ [sessions[i] EXCEPT !.lastSeenAt = at].attempt = sessions[i].attempt
        /\ [sessions[i] EXCEPT !.lastSeenAt = at].revoked = sessions[i].revoked
    BY <2>3 DEF SessionRows
  <2>6. \A j \in DOMAIN sessions : /\ sessions'[j].attempt = sessions[j].attempt
                                   /\ sessions[j].revoked => sessions'[j].revoked
    BY <2>4, <2>5
  <2> QED
    BY <1>1, <1>2, <2>4, <2>6, SessionsFade DEF writeLastSeen, Ends
<1>3. CASE (\E i \in DOMAIN sessions : logout(i)) \/ resetPassword \/ disable
  <2>1. PICK R : sessions' = Revoked(R)
    BY <1>3 DEF logout, resetPassword, disable
  <2>2. operator' \in Operators
    <3>1. CASE UNCHANGED operator
      BY <3>1, <1>1
    <3>2. CASE resetPassword
      BY <3>2, <1>1 DEF resetPassword
    <3>3. CASE disable
      <4>1. operator.version + 1 \in Nat /\ FALSE \in BOOLEAN
        BY <1>1
      <4>2. operator' = [operator EXCEPT !.version = operator.version + 1, !.active = FALSE]
        BY <3>3 DEF disable
      <4> QED
        BY <1>1, <4>1, <4>2
    <3> QED
      BY <3>1, <3>2, <3>3, <1>3 DEF logout
  <2>3. UNCHANGED <<attempts, handlers, authTime>>
    BY <1>3 DEF logout, resetPassword, disable
  <2>4. /\ sessions' \in Seq(SessionRows) /\ DOMAIN sessions' = DOMAIN sessions
        /\ \A i \in DOMAIN sessions : /\ sessions'[i].attempt = sessions[i].attempt
                                      /\ sessions[i].revoked => sessions'[i].revoked
    BY <2>1, RevokedSessions
  <2> QED
    BY <2>2, <2>3, <2>4, SessionsFade
<1> QED
  BY <1>2, <1>3

\* The row a login adds.
LEMMA SessionRow ==
  ASSUME NEW a \in Attempts \cup {0}, NEW v \in Nat, NEW at \in Int, NEW end \in Int
  PROVE  [attempt |-> a, version |-> v, revoked |-> FALSE, lastSeenAt |-> at,
          absoluteExpiresAt |-> end] \in SessionRows
<1>1. FALSE \in BOOLEAN
  OBVIOUS
<1> QED
  BY <1>1, Zenon DEF SessionRows

\* A login creates its session: every other one is revoked, and its attempt
\* records it.
LEMMA CreateSessionKeeps ==
  ASSUME AuthInv, NEW h \in Handlers, createSession(h)
  PROVE  AuthInv'
<1>1. PICK a \in Attempts \cup {0} : a = handlers[h].attempt
  BY DEF AuthInv, AuthTypeOK, HandlerStates
<1>2. /\ UNCHANGED <<operator, authTime>> /\ handlers[h].pc = "LOCKED"
      /\ AttemptOwned(h) /\ LockHeld(h) /\ Owns(h)
  BY DEF createSession, AuthInv, Owns
<1>3. CASE Goto(h, "FAILING") /\ UNCHANGED <<sessions, attempts>>
  <2>1. \A k \in Handlers : handlers'[k] = IF k = h THEN [handlers[h] EXCEPT !.pc = "FAILING"]
                                           ELSE handlers[k]
    BY <1>3 DEF Goto, AuthInv, AuthTypeOK
  <2>2. /\ [handlers[h] EXCEPT !.pc = "FAILING"] \in HandlerStates
        /\ [handlers[h] EXCEPT !.pc = "FAILING"].pc = "FAILING"
        /\ [handlers[h] EXCEPT !.pc = "FAILING"].attempt = a
    BY <1>1 DEF HandlerStates, AuthInv, AuthTypeOK
  <2>3. AuthTypeOK'
    BY <1>2, <1>3, <2>2 DEF Goto, AuthInv, AuthTypeOK
  <2>4. \A k \in Handlers : LockHeld(k)' /\ SeenSession(k)'
    BY <1>3, <2>1, <2>2 DEF AuthInv, LockHeld, SeenSession
  <2>5. \A k \in Handlers : AttemptOwned(k)'
    <3>1. \A k \in Handlers : handlers'[k].attempt = handlers[k].attempt /\ (Owns(k)' <=> Owns(k))
      BY <1>1, <1>2, <2>1, <2>2 DEF Owns
    <3>2. \A k \in Handlers : AttemptOwned(k)
      BY DEF AuthInv
    <3> QED
      BY <1>3, <3>1, <3>2 DEF AttemptOwned
  <2>6. (\A i \in DOMAIN sessions : SessionRecorded(i))' /\ OneUnrevoked'
    BY <1>3 DEF AuthInv, SessionRecorded, OneUnrevoked
  <2> QED
    BY <2>3, <2>4, <2>5, <2>6 DEF AuthInv
<1>4. CASE ~ (Goto(h, "FAILING") /\ UNCHANGED <<sessions, attempts>>)
  <2> DEFINE s == [attempt |-> a, version |-> handlers[h].version, revoked |-> FALSE,
                   lastSeenAt |-> authTime, absoluteExpiresAt |-> authTime + SESSION_ABSOLUTE]
             n == Len(sessions) + 1
             old == Revoked(handlers[h].revokes)
  <2>1. /\ sessions' = Append(old, s)
        /\ attempts' = IF a = 0 THEN attempts
                       ELSE [attempts EXCEPT ![a].status = "COMPLETED", ![a].session = n]
        /\ handlers' = [handlers EXCEPT ![h] = Idle]
    BY <1>1, <1>4 DEF createSession, Ends
  <2>2. s \in SessionRows /\ s.attempt = a /\ s.revoked = FALSE
    <3>1. handlers[h].version \in Nat /\ authTime \in Int /\ authTime + SESSION_ABSOLUTE \in Int
      BY DEF SESSION_ABSOLUTE, AuthInv, AuthTypeOK, HandlerStates
    <3>2. s \in SessionRows
      BY <1>1, <3>1, SessionRow
    <3> QED
      BY <3>2
  <2>3. /\ old \in Seq(SessionRows) /\ DOMAIN old = DOMAIN sessions /\ Len(old) = Len(sessions)
        /\ sessions \in Seq(SessionRows) /\ DOMAIN sessions = 1..Len(sessions) /\ n \in Nat
    BY RevokedSessions DEF AuthInv, AuthTypeOK
  <2>4. \A i \in DOMAIN sessions : old[i].attempt = sessions[i].attempt /\ old[i].revoked
    <3> SUFFICES ASSUME NEW i \in DOMAIN sessions
                 PROVE  old[i].attempt = sessions[i].attempt /\ old[i].revoked
      OBVIOUS
    <3>1. sessions[i].revoked \/ i \in handlers[h].revokes
      BY <1>2 DEF LockHeld
    <3>2. /\ Revoked(handlers[h].revokes)[i].attempt = sessions[i].attempt
          /\ Revoked(handlers[h].revokes)[i].revoked = (sessions[i].revoked \/ i \in handlers[h].revokes)
      BY RevokedSessions
    <3> QED
      BY <3>1, <3>2
  <2> HIDE DEF s, old, n
  <2>5. /\ sessions' \in Seq(SessionRows) /\ DOMAIN sessions' = 1..n
        /\ sessions'[n] = s
        /\ \A i \in DOMAIN sessions : sessions'[i] = old[i] /\ i # n
        /\ \A i \in 1..n : i # n => i \in DOMAIN sessions
    BY <2>1, <2>2, <2>3 DEF n
  <2>6. attempts' \in [Attempts -> AttemptRows]
    <3>1. attempts \in [Attempts -> AttemptRows]
      BY DEF AuthInv, AuthTypeOK
    <3>2. CASE a = 0
      BY <2>1, <3>1, <3>2
    <3>3. CASE a # 0
      <4>1. a \in Attempts /\ attempts[a] \in AttemptRows
        BY <1>1, <3>1, <3>3
      <4>2. [attempts[a] EXCEPT !.status = "COMPLETED", !.session = n] \in AttemptRows
        BY <2>3, <4>1 DEF AttemptRows
      <4>3. attempts' = [attempts EXCEPT ![a] =
                           [attempts[a] EXCEPT !.status = "COMPLETED", !.session = n]]
        BY <2>1, <3>1, <3>3, <4>1
      <4> QED
        BY <3>1, <4>1, <4>2, <4>3
    <3> QED
      BY <3>2, <3>3
  <2>7. /\ \A b \in Attempts : b # a => attempts'[b] = attempts[b]
        /\ a # 0 => attempts'[a].status = "COMPLETED" /\ attempts'[a].session = n
    BY <1>1, <2>1 DEF AuthInv, AuthTypeOK, AttemptRows
  <2>8. \A k \in Handlers : handlers'[k] = IF k = h THEN Idle ELSE handlers[k]
    BY <2>1 DEF AuthInv, AuthTypeOK
  <2>9. Idle \in HandlerStates /\ Idle.pc = "IDLE"
    BY RestingRequests DEF Idle
  <2>10. AuthTypeOK'
    <3>1. handlers' \in [Handlers -> HandlerStates]
      BY <2>1, <2>9 DEF AuthInv, AuthTypeOK
    <3> QED
      BY <3>1, <1>2, <2>5, <2>6 DEF AuthInv, AuthTypeOK
  <2>11. ASSUME NEW k \in Handlers
         PROVE  AttemptOwned(k)' /\ LockHeld(k)' /\ SeenSession(k)'
    <3>1. AttemptOwned(k) /\ LockHeld(k) /\ SeenSession(k)
          /\ handlers[k].attempt \in Attempts \cup {0}
      BY DEF AuthInv, AuthTypeOK, HandlerStates
    <3>2. CASE k = h
      BY <3>2, <2>8, <2>9 DEF AttemptOwned, LockHeld, SeenSession, Owns
    <3>3. CASE k # h
      <4>1. handlers'[k] = handlers[k] /\ handlers[k].pc # "LOCKED"
        BY <3>3, <2>8, <1>2 DEF LockHeld
      <4>2. SeenSession(k)' /\ LockHeld(k)'
        BY <4>1, <3>1, <2>3, <2>5 DEF SeenSession, LockHeld, n
      <4>3. AttemptOwned(k)'
        <5> SUFFICES ASSUME Owns(k)', handlers'[k].attempt # 0
                     PROVE  /\ attempts'[handlers[k].attempt].status \in {"EXCHANGING", "PURGED"}
                            /\ \A i \in DOMAIN sessions' : sessions'[i].attempt # handlers[k].attempt
                            /\ \A l \in Handlers : l # k /\ Owns(l)' =>
                                                     handlers'[l].attempt # handlers[k].attempt
          BY <4>1 DEF AttemptOwned
        <5>1. Owns(k) /\ handlers[k].attempt # 0 /\ handlers[k].attempt # a
          BY <4>1, <3>3, <1>1, <1>2 DEF Owns, AttemptOwned
        <5>2. attempts'[handlers[k].attempt].status \in {"EXCHANGING", "PURGED"}
          BY <5>1, <3>1, <2>7 DEF AttemptOwned
        <5>3. \A i \in DOMAIN sessions' : sessions'[i].attempt # handlers[k].attempt
          BY <5>1, <3>1, <2>2, <2>4, <2>5 DEF AttemptOwned
        <5>4. \A l \in Handlers : l # k /\ Owns(l)' => handlers'[l].attempt # handlers[k].attempt
          BY <5>1, <3>1, <2>8, <2>9 DEF AttemptOwned, Owns
        <5> QED
          BY <5>2, <5>3, <5>4
      <4> QED
        BY <4>2, <4>3
    <3> QED
      BY <3>2, <3>3
  <2>12. ASSUME NEW i \in DOMAIN sessions'
         PROVE  SessionRecorded(i)'
    <3>1. CASE i = n
      BY <3>1, <2>2, <2>5, <2>7 DEF SessionRecorded
    <3>2. CASE i # n
      <4>1. i \in DOMAIN sessions /\ sessions'[i].attempt = sessions[i].attempt
        BY <3>2, <2>4, <2>5
      <4>2. SessionRecorded(i) /\ sessions[i].attempt \in Attempts \cup {0}
        BY <4>1, SessionTypes DEF AuthInv
      <4>3. sessions[i].attempt # 0 => sessions[i].attempt # a
        BY <4>1, <1>1, <1>2 DEF AttemptOwned
      <4> QED
        BY <4>1, <4>2, <4>3, <2>7 DEF SessionRecorded
    <3> QED
      BY <3>1, <3>2
  <2>13. OneUnrevoked'
    BY <2>4, <2>5 DEF OneUnrevoked
  <2> QED
    BY <2>10, <2>11, <2>12, <2>13 DEF AuthInv
<1> QED
  BY <1>3, <1>4

\* Time goes on, or nothing happens.
LEMMA AuthTickKeeps ==
  ASSUME AuthInv, AuthTick \/ UNCHANGED authVars
  PROVE  AuthInv'
<1>1. UNCHANGED <<operator, attempts, sessions, handlers>> /\ authTime' \in Int
  BY DEF AuthTick, authVars, AuthInv, AuthTypeOK
<1> QED
  BY <1>1 DEF AuthInv, AuthTypeOK, AttemptOwned, Owns, LockHeld, SeenSession, SessionRecorded,
     OneUnrevoked

\* For any number of concurrent requests, attempts and sessions: an attempt yields
\* at most one session and records it, a failed attempt yields none, and at most
\* one session of the operator is accepted (operator-auth.service.ts).
THEOREM OneSessionPerLogin == AuthSpec => []OneLoginOneSession
<1>1. AuthInit => AuthInv
  BY AuthInitially
<1>2. AuthInv /\ [AuthNext]_authVars => AuthInv'
  <2> SUFFICES ASSUME AuthInv, [AuthNext]_authVars PROVE AuthInv'
    OBVIOUS
  <2>1. CASE AuthTick \/ UNCHANGED authVars
    BY <2>1, AuthTickKeeps
  <2> QED
    BY <2>1, RequestKeeps, LockKeeps, StartKeeps, ClaimAttemptKeeps, FailedLoginKeeps,
       PurgeKeeps, CreateSessionKeeps, FadingKeeps DEF AuthNext
<1>3. AuthInv => OneLoginOneSession
  BY DEF AuthInv, SessionRecorded, OneUnrevoked, OneLoginOneSession, accepted
<1> QED
  BY <1>1, <1>2, <1>3, PTL DEF AuthSpec

----------------------------------------------------------------------------
(* Delivery selections.  A parcel without the carrier's acceptance still lies *)
(* ahead of one of the workers, which all advance by the number of workers.   *)

Feeds == [fetchedAt : Int, points : SUBSET Points]
Verdicts == {"UNASKED", "ACCEPTED", "REFUSED"}
Calls == [pc : {"UNASKED", "WAITING", "VALIDATING", "RESOLVED", "REFUSED", "UNAVAILABLE"},
          wants : Points \cup {0}, current : Feeds, answeredAt : Int,
          next : [1..workerCount -> Nat] \cup {<<>>},
          verdicts : [1..Parcels -> Verdicts] \cup {<<>>}]

FeedTypeOK ==
  /\ snapshot \in Feeds /\ now \in Int /\ retryAfter \in Int
  /\ selections \in [Selections -> Calls]

\* The worker w comes to the parcel p after some of its steps.
Reaches(next, w, p) == \E k \in Nat : p = next[w] + k * workerCount

PointTaken(call) ==
  /\ call.wants \in call.current.points
  /\ call.answeredAt - call.current.fetchedAt <= MaxAge

CallSound(call) ==
  /\ call.pc = "WAITING" => inFlight
  /\ call.pc \in {"VALIDATING", "RESOLVED"} =>
       /\ PointTaken(call)
       /\ call.next \in [1..workerCount -> Nat]
       /\ call.verdicts \in [1..Parcels -> Verdicts]
  /\ call.pc = "VALIDATING" =>
       \A p \in 1..Parcels : \/ call.verdicts[p] = "ACCEPTED"
                             \/ \E w \in 1..workerCount : Reaches(call.next, w, p)
  /\ call.pc = "RESOLVED" => \A p \in 1..Parcels : call.verdicts[p] = "ACCEPTED"

FeedInv ==
  /\ FeedTypeOK
  /\ \A s \in Selections : CallSound(selections[s])

\* The number of workers, and that none is left out when there is a parcel.
LEMMA WorkerCount == workerCount \in Nat /\ (Parcels # 0 => workerCount \in 1..Parcels)
BY FeedWorkers DEF workerCount

\* The strides of n workers, begun at 1..n, pass through every number.
LEMMA StridesCover ==
  ASSUME NEW n \in Nat \ {0}, NEW p \in Nat \ {0}
  PROVE  \E i \in 1..n, k \in Nat : p = i + k * n
<1> DEFINE Missed == {q \in Nat \ {0} : ~ \E i \in 1..n, k \in Nat : q = i + k * n}
<1> SUFFICES ASSUME Missed # {} PROVE FALSE
  OBVIOUS
<1>1. PICK q \in Missed : \A m \in Missed : q <= m
  BY LeastNatural
<1>2. CASE q <= n
  <2>1. q \in 1..n /\ q = q + 0 * n /\ 0 \in Nat
    BY <1>1, <1>2
  <2>2. \E i \in 1..n, k \in Nat : q = i + k * n
    BY <2>1, Zenon
  <2> QED
    BY <1>1, <2>2
<1>3. CASE q > n
  <2>1. q \in Nat /\ q - n \in Nat \ {0} /\ q - n < q
    BY <1>3
  <2> HIDE DEF Missed
  <2>2. q - n \notin Missed
    BY <1>1, <2>1
  <2> USE DEF Missed
  <2>3. PICK i \in 1..n, k \in Nat : q - n = i + k * n
    BY <2>1, <2>2, Zenon
  <2>4. k + 1 \in Nat /\ (k + 1) * n = k * n + n /\ k * n \in Nat
    OBVIOUS
  <2>5. q = i + (k + 1) * n
    BY <2>3, <2>4
  <2>6. \E j \in 1..n, m \in Nat : q = j + m * n
    BY <2>4, <2>5, Zenon
  <2> QED
    BY <1>1, <2>6
<1> QED
  BY <1>1, <1>2, <1>3

\* What pointForSelection makes of a call, when the feed is not too old.
LEMMA PointForSelection ==
  ASSUME NEW call \in Calls, NEW feed \in Feeds, now \in Int, now - feed.fetchedAt <= MaxAge
  PROVE  pointForSelection(call, feed) \in Calls /\ CallSound(pointForSelection(call, feed))
<1> DEFINE new == pointForSelection(call, feed)
<1>1. CASE call.wants \in feed.points
  <2> DEFINE first == [i \in 1..workerCount |-> i]
             none == [p \in 1..Parcels |-> "UNASKED"]
  <2>1. new = [call EXCEPT !.pc = "VALIDATING", !.current = feed, !.answeredAt = now,
                           !.next = first, !.verdicts = none]
    BY <1>1 DEF pointForSelection
  <2>2. first \in [1..workerCount -> Nat] /\ none \in [1..Parcels -> Verdicts]
    BY WorkerCount DEF Verdicts
  <2> HIDE DEF first, none
  <2>3. /\ new \in Calls /\ new.pc = "VALIDATING" /\ new.wants = call.wants /\ new.current = feed
        /\ new.answeredAt = now /\ new.next = first /\ new.verdicts = none
    <3> HIDE DEF new
    <3>1. new \in Calls
      BY <2>1, <2>2 DEF Calls
    <3> QED
      BY <2>1, <3>1 DEF Calls
  <2>4. ASSUME NEW p \in 1..Parcels PROVE \E w \in 1..workerCount : Reaches(first, w, p)
    <3>1. workerCount \in Nat \ {0} /\ p \in Nat \ {0}
      BY WorkerCount, FeedWorkers
    <3>2. PICK w \in 1..workerCount, k \in Nat : p = w + k * workerCount
      BY <3>1, StridesCover
    <3>3. first[w] = w
      BY DEF first
    <3> QED
      BY <3>2, <3>3 DEF Reaches
  <2>5. PointTaken(new)
    BY <1>1, <2>3 DEF PointTaken
  <2>6. CallSound(new)
    <3> HIDE DEF new
    <3> QED
      BY <2>2, <2>3, <2>4, <2>5 DEF CallSound
  <2> QED
    BY <2>3, <2>6
<1>2. CASE call.wants \notin feed.points
  <2>1. new = [call EXCEPT !.pc = "REFUSED"]
    BY <1>2 DEF pointForSelection
  <2>2. new \in Calls /\ new.pc = "REFUSED"
    BY <2>1 DEF Calls
  <2> QED
    BY <2>2 DEF CallSound
<1> QED
  BY <1>1, <1>2

\* A call that was not asked yet, or asks for a point.
LEMMA UnaskedCall ==
  /\ Unasked \in Calls /\ Unasked.pc = "UNASKED"
  /\ \A p \in Points : [Unasked EXCEPT !.wants = p] \in Calls
  /\ NoSnapshot \in Feeds
<1>1. NoSnapshot \in Feeds
  BY DEF NoSnapshot, Feeds
<1>2. Unasked \in Calls /\ Unasked.pc = "UNASKED"
  BY <1>1 DEF Unasked, Calls
<1>3. \A p \in Points : [Unasked EXCEPT !.wants = p] \in Calls
  BY <1>2 DEF Calls
<1> QED
  BY <1>1, <1>2, <1>3

\* Before the first call.
LEMMA FeedInitially == FeedInit => FeedInv
BY UnaskedCall DEF FeedInit, FeedInv, FeedTypeOK, CallSound

\* A call is answered from the copy, or waits for the refresh it finds or begins.
LEMMA AskKeeps ==
  ASSUME FeedInv, NEW s \in Selections, NEW p \in Points, askSelection(s, p)
  PROVE  FeedInv'
<1> DEFINE call == [Unasked EXCEPT !.wants = p]
<1>1. call \in Calls /\ snapshot \in Feeds /\ now \in Int /\ selections \in [Selections -> Calls]
  BY UnaskedCall DEF FeedInv, FeedTypeOK
<1>2. UNCHANGED <<snapshot, retryAfter, now>> /\ (inFlight => inFlight')
  BY DEF askSelection
<1>3. PICK new : /\ selections' = [selections EXCEPT ![s] = new]
                 /\ new \in Calls /\ (CallSound(new) \/ (new.pc = "WAITING" /\ inFlight'))
  <2>1. CASE /\ servesCopy /\ UNCHANGED inFlight
             /\ selections' = [selections EXCEPT ![s] = pointForSelection(call, snapshot)]
    <3>1. now - snapshot.fetchedAt <= MaxAge
      BY <2>1, <1>1, FeedAges DEF servesCopy, isUsableStaleSnapshot, Feeds
    <3>2. pointForSelection(call, snapshot) \in Calls /\ CallSound(pointForSelection(call, snapshot))
      BY <1>1, <3>1, PointForSelection
    <3> QED
      BY <2>1, <3>2
  <2>2. CASE /\ inFlight' = TRUE
             /\ selections' = [selections EXCEPT ![s] = [call EXCEPT !.pc = "WAITING",
                                                                     !.current = snapshot]]
    <3> HIDE DEF call
    <3>1. /\ [call EXCEPT !.pc = "WAITING", !.current = snapshot] \in Calls
          /\ [call EXCEPT !.pc = "WAITING", !.current = snapshot].pc = "WAITING"
      BY <1>1 DEF Calls
    <3> QED
      BY <2>2, <3>1
  <2> QED
    BY <2>1, <2>2 DEF askSelection
<1>4. \A r \in Selections : CallSound(selections[r])
  BY DEF FeedInv
<1>5. \A r \in Selections : CallSound(selections[r])'
  <2> SUFFICES ASSUME NEW r \in Selections PROVE CallSound(selections[r])'
    OBVIOUS
  <2>1. CASE r = s
    <3>1. selections'[r] = new
      BY <1>1, <1>3, <2>1
    <3> QED
      BY <1>2, <1>3, <3>1 DEF CallSound, PointTaken
  <2>2. CASE r # s
    <3>1. selections'[r] = selections[r]
      BY <1>1, <1>3, <2>2
    <3> QED
      BY <1>2, <1>4, <3>1 DEF CallSound, PointTaken
  <2> QED
    BY <2>1, <2>2
<1> QED
  BY <1>1, <1>2, <1>3, <1>5 DEF FeedInv, FeedTypeOK

\* A complete refresh answers everyone who waited for it.
LEMMA FetchKeeps ==
  ASSUME FeedInv, NEW points \in SUBSET Points, fetchSnapshot(points)
  PROVE  FeedInv'
<1> DEFINE feed == [fetchedAt |-> now, points |-> points]
<1>1. feed \in Feeds /\ now \in Int /\ now - feed.fetchedAt <= MaxAge
  BY FeedAges DEF FeedInv, FeedTypeOK, Feeds
<1>2. /\ snapshot' = feed /\ now' = now /\ retryAfter' = 0
      /\ selections' = [s \in Selections |->
                          IF selections[s].pc = "WAITING" THEN pointForSelection(selections[s], feed)
                          ELSE selections[s]]
  BY DEF fetchSnapshot
<1> HIDE DEF feed
<1>3. ASSUME NEW s \in Selections
      PROVE  selections'[s] \in Calls /\ CallSound(selections[s])'
  <2>1. selections[s] \in Calls /\ CallSound(selections[s])
    BY DEF FeedInv, FeedTypeOK
  <2>2. PICK new : new = selections'[s]
    OBVIOUS
  <2>3. new \in Calls /\ CallSound(new) /\ new.pc # "WAITING"
    <3>1. CASE selections[s].pc = "WAITING"
      <4>1. new = pointForSelection(selections[s], feed)
        BY <1>2, <2>2, <3>1
      <4>2. new.pc # "WAITING"
        BY <2>1, <4>1 DEF pointForSelection, Calls
      <4> QED
        BY <1>1, <2>1, <4>1, <4>2, PointForSelection
    <3>2. CASE selections[s].pc # "WAITING"
      BY <1>2, <2>1, <2>2, <3>2
    <3> QED
      BY <3>1, <3>2
  <2> QED
    BY <1>2, <2>2, <2>3 DEF CallSound, PointTaken
<1>4. selections' = [s \in Selections |-> selections'[s]]
  BY <1>2
<1> QED
  BY <1>1, <1>2, <1>3, <1>4 DEF FeedInv, FeedTypeOK

\* A refresh that failed: whoever waited falls back on the copy it had read, or gives up.
LEMMA FetchFailsKeeps ==
  ASSUME FeedInv, fetchFails
  PROVE  FeedInv'
<1> DEFINE usable(s) == selections[s].pc = "WAITING" /\ isUsableStaleSnapshot(selections[s].current)
<1>1. /\ snapshot' = snapshot /\ now' = now /\ retryAfter' \in {retryAfter, now + RetryDelay}
      /\ selections' = [s \in Selections |->
                          IF usable(s) THEN pointForSelection(selections[s], selections[s].current)
                          ELSE IF selections[s].pc = "WAITING"
                               THEN [selections[s] EXCEPT !.pc = "UNAVAILABLE"]
                          ELSE selections[s]]
  BY DEF fetchFails
<1>2. now \in Int /\ snapshot \in Feeds /\ retryAfter' \in Int
  BY <1>1, FeedAges DEF FeedInv, FeedTypeOK
<1>3. ASSUME NEW s \in Selections
      PROVE  selections'[s] \in Calls /\ CallSound(selections[s])'
  <2>1. selections[s] \in Calls /\ CallSound(selections[s]) /\ selections[s].current \in Feeds
    BY DEF FeedInv, FeedTypeOK, Calls
  <2>2. PICK new : new = selections'[s]
    OBVIOUS
  <2>3. new \in Calls /\ CallSound(new) /\ new.pc # "WAITING"
    <3>1. CASE usable(s)
      <4>1. new = pointForSelection(selections[s], selections[s].current)
        BY <1>1, <2>2, <3>1
      <4>2. new.pc # "WAITING"
        BY <2>1, <4>1 DEF pointForSelection, Calls
      <4>3. now - selections[s].current.fetchedAt <= MaxAge
        BY <3>1 DEF isUsableStaleSnapshot
      <4> QED
        BY <1>2, <2>1, <4>1, <4>2, <4>3, PointForSelection
    <3>2. CASE ~usable(s) /\ selections[s].pc = "WAITING"
      <4>1. new = [selections[s] EXCEPT !.pc = "UNAVAILABLE"]
        BY <1>1, <2>2, <3>2
      <4>2. new \in Calls /\ new.pc = "UNAVAILABLE"
        BY <2>1, <4>1 DEF Calls
      <4> QED
        BY <4>2 DEF CallSound
    <3>3. CASE selections[s].pc # "WAITING"
      BY <1>1, <2>1, <2>2, <3>3
    <3> QED
      BY <3>1, <3>2, <3>3
  <2> QED
    BY <1>1, <2>2, <2>3 DEF CallSound, PointTaken
<1>4. selections' = [s \in Selections |-> selections'[s]]
  BY <1>1
<1> QED
  BY <1>1, <1>2, <1>3, <1>4 DEF FeedInv, FeedTypeOK

\* A worker's step: the parcel it validated is accepted, and every other one that
\* lay ahead of it still does.
LEMMA StrideKeeps ==
  ASSUME NEW next \in [1..workerCount -> Nat], NEW w \in 1..workerCount,
         NEW p \in 1..Parcels, NEW v \in 1..workerCount, Reaches(next, v, p)
  PROVE  (v = w /\ p = next[w]) \/ Reaches([next EXCEPT ![w] = stride(next[w])], v, p)
<1>1. PICK k \in Nat : p = next[v] + k * workerCount
  BY DEF Reaches
<1>2. workerCount \in Nat
  BY WorkerCount
<1>3. CASE v = w /\ k # 0
  <2>1. k - 1 \in Nat /\ k * workerCount = workerCount + (k - 1) * workerCount
        /\ (k - 1) * workerCount \in Nat
    BY <1>2, <1>3
  <2>2. p = (next[w] + workerCount) + (k - 1) * workerCount
    BY <1>1, <1>2, <1>3, <2>1
  <2>3. [next EXCEPT ![w] = stride(next[w])][v] = next[w] + workerCount
    BY <1>3 DEF stride
  <2> QED
    BY <2>1, <2>2, <2>3 DEF Reaches
<1>4. CASE v = w /\ k = 0
  BY <1>1, <1>2, <1>4
<1>5. CASE v # w
  <2>1. [next EXCEPT ![w] = stride(next[w])][v] = next[v]
    BY <1>5
  <2> QED
    BY <1>1, <2>1 DEF Reaches
<1> QED
  BY <1>3, <1>4, <1>5

\* The carrier's answer about one parcel: the last acceptance resolves the call.
LEMMA ValidateKeeps ==
  ASSUME FeedInv, NEW s \in Selections, NEW w \in 1..Concurrency, NEW ok \in BOOLEAN,
         validateParcel(s, w, ok)
  PROVE  FeedInv'
<1>1. PICK call \in Calls : call = selections[s] /\ CallSound(call)
  BY DEF FeedInv, FeedTypeOK
<1>2. /\ call.pc = "VALIDATING" /\ w \in DOMAIN call.next /\ call.next[w] <= Parcels
      /\ UNCHANGED <<snapshot, inFlight, retryAfter, now>>
  BY <1>1 DEF validateParcel
<1>3. /\ PointTaken(call) /\ call.next \in [1..workerCount -> Nat] /\ w \in 1..workerCount
      /\ call.verdicts \in [1..Parcels -> Verdicts] /\ call.next[w] \in Nat
  BY <1>1, <1>2 DEF CallSound
<1> DEFINE p == call.next[w]
           next == [call.next EXCEPT ![w] = stride(p)]
           verdicts == [call.verdicts EXCEPT ![p] = "ACCEPTED"]
           done == [call EXCEPT !.next = next, !.verdicts = verdicts]
           last == \A v \in DOMAIN done.next : done.next[v] > Parcels
<1>4. selections' = [selections EXCEPT ![s] =
        IF ~ok THEN [call EXCEPT !.pc = "REFUSED", !.verdicts[p] = "REFUSED"]
        ELSE IF last THEN [done EXCEPT !.pc = "RESOLVED"] ELSE done]
  BY <1>1 DEF validateParcel
<1>5. /\ next \in [1..workerCount -> Nat] /\ verdicts \in [1..Parcels -> Verdicts]
      /\ [call.verdicts EXCEPT ![p] = "REFUSED"] \in [1..Parcels -> Verdicts]
  <2>1. stride(p) \in Nat
    BY <1>3, WorkerCount DEF stride
  <2>2. next \in [1..workerCount -> Nat]
    BY <1>3, <2>1
  <2>3. "ACCEPTED" \in Verdicts /\ "REFUSED" \in Verdicts
    BY DEF Verdicts
  <2> HIDE DEF p
  <2>4. /\ verdicts \in [1..Parcels -> Verdicts]
        /\ [call.verdicts EXCEPT ![p] = "REFUSED"] \in [1..Parcels -> Verdicts]
    BY <1>3, <2>3
  <2> QED
    BY <2>2, <2>4
<1>6. ASSUME NEW q \in 1..Parcels
      PROVE  verdicts[q] = "ACCEPTED" \/ \E v \in 1..workerCount : Reaches(next, v, q)
  <2>1. CASE call.verdicts[q] = "ACCEPTED"
    BY <1>3, <2>1
  <2>2. CASE q = p
    BY <1>3, <2>2
  <2>3. CASE call.verdicts[q] # "ACCEPTED" /\ q # p
    <3>1. PICK v \in 1..workerCount : Reaches(call.next, v, q)
      BY <1>1, <1>2, <2>3 DEF CallSound
    <3> QED
      BY <1>3, <2>3, <3>1, StrideKeeps
  <2> QED
    BY <2>1, <2>2, <2>3
<1> HIDE DEF p, next, verdicts
<1>7. /\ done \in Calls /\ done.pc = "VALIDATING" /\ done.next = next /\ done.verdicts = verdicts
      /\ done.wants = call.wants /\ done.current = call.current /\ done.answeredAt = call.answeredAt
  BY <1>2, <1>5 DEF Calls
<1>8. PICK new : /\ new \in Calls /\ CallSound(new) /\ new.pc # "WAITING"
                 /\ selections' = [selections EXCEPT ![s] = new]
  <2>1. CASE ~ok
    <3>1. PICK refused : refused = [call EXCEPT !.pc = "REFUSED", !.verdicts[p] = "REFUSED"]
      OBVIOUS
    <3>2. refused \in Calls /\ refused.pc = "REFUSED"
      BY <3>1, <1>5 DEF Calls
    <3> QED
      BY <1>4, <2>1, <3>1, <3>2 DEF CallSound
  <2>2. CASE ok /\ last
    <3>1. PICK resolved : resolved = [done EXCEPT !.pc = "RESOLVED"]
      OBVIOUS
    <3>2. /\ resolved \in Calls /\ resolved.pc = "RESOLVED" /\ resolved.next = next
          /\ resolved.verdicts = verdicts /\ PointTaken(resolved)
      BY <3>1, <1>3, <1>7 DEF Calls, PointTaken
    <3>3. \A q \in 1..Parcels : verdicts[q] = "ACCEPTED"
      <4> SUFFICES ASSUME NEW q \in 1..Parcels, NEW v \in 1..workerCount, Reaches(next, v, q)
                   PROVE  FALSE
        BY <1>6
      <4>1. next[v] > Parcels /\ next[v] \in Nat
        BY <1>5, <1>7, <2>2
      <4>2. PICK k \in Nat : q = next[v] + k * workerCount
        BY DEF Reaches
      <4>3. k * workerCount \in Nat
        BY WorkerCount
      <4> QED
        BY <4>1, <4>2, <4>3, FeedWorkers
    <3>4. CallSound(resolved)
      BY <1>5, <3>2, <3>3 DEF CallSound
    <3> QED
      BY <1>4, <2>2, <3>1, <3>2, <3>4
  <2>3. CASE ok /\ ~last
    <3>1. PointTaken(done)
      BY <1>3, <1>7 DEF PointTaken
    <3>2. CallSound(done)
      <4> HIDE DEF done
      <4> QED
        BY <1>5, <1>6, <1>7, <3>1 DEF CallSound
    <3> QED
      BY <1>4, <1>7, <2>3, <3>2
  <2> QED
    BY <2>1, <2>2, <2>3
<1>9. ASSUME NEW r \in Selections
      PROVE  selections'[r] \in Calls /\ CallSound(selections[r])'
  <2>1. selections'[r] = IF r = s THEN new ELSE selections[r]
    BY <1>8 DEF FeedInv, FeedTypeOK
  <2>2. selections[r] \in Calls /\ CallSound(selections[r])
    BY DEF FeedInv, FeedTypeOK
  <2> QED
    BY <1>2, <1>8, <2>1, <2>2 DEF CallSound, PointTaken
<1> QED
  BY <1>2, <1>8, <1>9 DEF FeedInv, FeedTypeOK

\* A call begins again, or time goes on.
LEMMA RestKeeps ==
  ASSUME FeedInv,
         (\E s \in Selections : askAgain(s)) \/ FeedTick \/ UNCHANGED feedVars
  PROVE  FeedInv'
<1>1. CASE \E s \in Selections : askAgain(s)
  BY <1>1, UnaskedCall DEF askAgain, FeedInv, FeedTypeOK, CallSound, PointTaken
<1>2. CASE FeedTick \/ UNCHANGED feedVars
  BY <1>2 DEF FeedTick, feedVars, FeedInv, FeedTypeOK, CallSound, PointTaken
<1> QED
  BY <1>1, <1>2

\* For any number of calls, points, parcels and validation workers: a resolved
\* selection names a point of a feed at most MaxAge old when it was answered, and
\* the carrier has accepted every one of its parcels, however the strides of the
\* workers interleave; nobody waits without a refresh in flight
\* (currentSnapshot, withStaleFallback, validateSelection).
THEOREM SelectionsAreSound == FeedSpec => []SelectionSound
<1>1. FeedInit => FeedInv
  BY FeedInitially
<1>2. FeedInv /\ [FeedNext]_feedVars => FeedInv'
  BY AskKeeps, FetchKeeps, FetchFailsKeeps, ValidateKeeps, RestKeeps DEF FeedNext
<1>3. FeedInv => SelectionSound
  BY DEF FeedInv, CallSound, PointTaken, SelectionSound
<1> QED
  BY <1>1, <1>2, <1>3, PTL DEF FeedSpec

----------------------------------------------------------------------------
(* Legal documents.  An approved revision never changes again, at most one    *)
(* publication starts after the clock, and what was archived has ended.       *)

RevisionRows == [status : {"DRAFT", "APPROVED"}, editVersion : Nat, content : Texts,
                 effectiveAt : 0..MaxLegalTime, reviewed : Texts \cup {"none"}]
PublicationRows == [revision : Nat, startsAt : 0..MaxLegalTime, endsAt : Nat, cancelledAt : Nat,
                    archived : BOOLEAN]
VisitRows == [step : {"AWAY", "SHOWN", "LOCKED", "DECIDED"}, revision : Nat,
              text : Texts \cup {"none"}, decidedAt : Nat]

LegalTypeOK ==
  /\ revisions \in Seq(RevisionRows)
  /\ publications \in Seq(PublicationRows)
  /\ visits \in [Customers -> VisitRows]
  /\ legalClock \in 0..MaxLegalTime

\* The revision r is approved, with the text that was reviewed.
Approved(r, text) ==
  /\ r \in Revisions
  /\ revisions[r].status = "APPROVED"
  /\ revisions[r].content = text /\ revisions[r].reviewed = text

Standing(i) ==
  /\ publications[i].startsAt < publications[i].endsAt
  /\ publications[i].endsAt <= Forever
  /\ publications[i].archived => publications[i].endsAt <= legalClock
Apart(i, j) == publications[i].endsAt <= publications[j].startsAt \/ publications[j].endsAt <= publications[i].startsAt
Continued(i) ==
  publications[i].endsAt # Forever /\ ~publications[i].archived
    => \E j \in Uncancelled : publications[j].startsAt = publications[i].endsAt

AcceptedInForce(a) ==
  \E i \in Uncancelled : /\ publications[i].revision = a.revision
                         /\ publications[i].startsAt <= a.at /\ a.at <= publications[i].endsAt

RevisionsInv == \A r \in Revisions : revisions[r].status = "APPROVED"
                                       => revisions[r].content = revisions[r].reviewed
PublishedInv == \A i \in Publications : /\ publications[i].revision \in Revisions
                                        /\ revisions[publications[i].revision].status = "APPROVED"
TilesInv ==
  /\ \A i \in Uncancelled : Standing(i) /\ Continued(i)
  /\ \A i, j \in Uncancelled : i # j => Apart(i, j)
  /\ \A i, j \in Uncancelled : publications[i].startsAt > legalClock
                                 /\ publications[j].startsAt > legalClock => i = j
VisitsInv ==
  \A c \in Customers : visits[c].step # "AWAY" =>
    /\ Approved(visits[c].revision, visits[c].text)
    /\ visits[c].decidedAt <= legalClock
AcceptancesInv ==
  \A a \in acceptances : /\ Approved(a.revision, a.text)
                         /\ a.at \in Nat /\ a.at <= legalClock
                         /\ AcceptedInForce(a)

LegalInv ==
  LegalTypeOK /\ RevisionsInv /\ PublishedInv /\ TilesInv /\ VisitsInv /\ AcceptancesInv

\* The rows of the document.
LEMMA LegalRows ==
  ASSUME LegalTypeOK
  PROVE  /\ Len(revisions) \in Nat /\ Len(publications) \in Nat
         /\ \A r \in Revisions : revisions[r] \in RevisionRows
         /\ \A i \in Publications : /\ publications[i] \in PublicationRows
                                     /\ publications[i].startsAt \in 0..MaxLegalTime
                                     /\ publications[i].startsAt \in Nat
                                     /\ publications[i].endsAt \in Nat
<1>1. revisions \in Seq(RevisionRows) /\ publications \in Seq(PublicationRows)
  BY DEF LegalTypeOK
<1>2. \A r \in Revisions : revisions[r] \in RevisionRows
  BY <1>1, ElementOfSeq DEF Revisions
<1>3. \A i \in Publications : publications[i] \in PublicationRows
  BY <1>1, ElementOfSeq DEF Publications
<1>4. \A row \in PublicationRows : row.startsAt \in 0..MaxLegalTime /\ row.endsAt \in Nat
  BY DEF PublicationRows
<1>5. 0..MaxLegalTime \subseteq Nat
  BY LegalAssumption
<1> QED
  BY <1>1, <1>2, <1>3, <1>4, <1>5

\* Nothing was written yet.
LEMMA LegalInitially == LegalInit => LegalInv
<1> SUFFICES ASSUME LegalInit PROVE LegalInv
  OBVIOUS
<1>1. NotVisiting \in VisitRows /\ NotVisiting.step = "AWAY"
  BY DEF NotVisiting, VisitRows
<1>2. LegalTypeOK
  BY <1>1, LegalAssumption DEF LegalInit, LegalTypeOK
<1>3. Revisions = {} /\ Publications = {} /\ Uncancelled = {}
  BY DEF LegalInit, Revisions, Publications, Uncancelled
<1> QED
  BY <1>1, <1>2, <1>3 DEF LegalInit, LegalInv, RevisionsInv, PublishedInv, TilesInv, VisitsInv,
     AcceptancesInv

\* What time alone does to the publications.
LEMMA TilesLater ==
  ASSUME LegalInv, UNCHANGED publications, legalClock' \in 0..MaxLegalTime,
         legalClock <= legalClock'
  PROVE  TilesInv'
<1>1. Uncancelled' = Uncancelled /\ Uncancelled \subseteq Publications
  BY DEF Uncancelled, Publications, Forever
<1>2. \A i \in Uncancelled : publications[i] \in PublicationRows
  BY <1>1, LegalRows DEF LegalInv
<1>3. legalClock \in Int /\ legalClock' \in Int /\ Forever' = Forever /\ Forever \in Int
  BY LegalAssumption DEF LegalInv, LegalTypeOK, Forever
<1>4. \A i \in Uncancelled : Standing(i)'
  BY <1>1, <1>2, <1>3, LegalAssumption DEF LegalInv, TilesInv, Standing, PublicationRows
<1>5. \A i \in Uncancelled : Continued(i)'
  BY <1>1, <1>3 DEF LegalInv, TilesInv, Continued
<1>6. \A i, j \in Uncancelled : i # j => Apart(i, j)'
  BY DEF LegalInv, TilesInv, Apart
<1>7. \A i, j \in Uncancelled : publications[i].startsAt > legalClock'
                                 /\ publications[j].startsAt > legalClock' => i = j
  <2> SUFFICES ASSUME NEW i \in Uncancelled, NEW j \in Uncancelled,
                      publications[i].startsAt > legalClock', publications[j].startsAt > legalClock'
               PROVE  i = j
    OBVIOUS
  <2>1. publications[i].startsAt \in Int /\ publications[j].startsAt \in Int
    BY <1>2 DEF PublicationRows
  <2>2. publications[i].startsAt > legalClock /\ publications[j].startsAt > legalClock
    BY <1>3, <2>1
  <2> QED
    BY <2>2 DEF LegalInv, TilesInv
<1> QED
  BY <1>1, <1>4, <1>5, <1>6, <1>7 DEF TilesInv

\* A step that changes neither revisions nor publications.
LEMMA DocumentUnchanged ==
  ASSUME LegalInv, UNCHANGED <<revisions, publications>>, legalClock' \in 0..MaxLegalTime,
         legalClock <= legalClock', visits' \in [Customers -> VisitRows], VisitsInv',
         \A a \in acceptances' \ acceptances :
            Approved(a.revision, a.text) /\ a.at \in Nat /\ a.at <= legalClock /\ AcceptedInForce(a)
  PROVE  LegalInv'
<1>1. LegalTypeOK' /\ RevisionsInv' /\ PublishedInv' /\ TilesInv'
  BY TilesLater DEF LegalInv, LegalTypeOK, RevisionsInv, PublishedInv, Revisions, Publications
<1>2. AcceptancesInv'
  <2> SUFFICES ASSUME NEW a \in acceptances'
               PROVE  (Approved(a.revision, a.text) /\ a.at \in Nat /\ a.at <= legalClock
                         /\ AcceptedInForce(a))'
    BY DEF AcceptancesInv
  <2>1. Approved(a.revision, a.text) /\ a.at \in Nat /\ a.at <= legalClock /\ AcceptedInForce(a)
    BY DEF LegalInv, AcceptancesInv
  <2>2. a.at <= legalClock'
    BY <2>1, LegalAssumption DEF LegalInv, LegalTypeOK
  <2> QED
    BY <2>1, <2>2 DEF Approved, AcceptedInForce, Revisions, Uncancelled, Publications, Forever
<1> QED
  BY <1>1, <1>2 DEF LegalInv

\* A publication in force names an approved revision.
LEMMA InForceApproved ==
  ASSUME LegalInv, NEW t, NEW i \in readAt(t)
  PROVE  /\ i \in Uncancelled /\ inForce(i, t) /\ publications[i] \in PublicationRows
         /\ publications[i].revision \in Nat
         /\ revisions[publications[i].revision].content \in Texts
         /\ Approved(publications[i].revision, revisions[publications[i].revision].content)
<1>1. i \in Publications /\ inForce(i, t)
  BY DEF readAt
<1>2. publications[i].revision \in Revisions /\ publications[i] \in PublicationRows
  BY <1>1, LegalRows DEF LegalInv, PublishedInv
<1>3. revisions[publications[i].revision] \in RevisionRows
  BY <1>2, LegalRows DEF LegalInv
<1>4. i \in Uncancelled
  BY <1>1 DEF inForce
<1> QED
  BY <1>1, <1>2, <1>3, <1>4 DEF LegalInv, PublishedInv, RevisionsInv, Approved, RevisionRows, PublicationRows

\* A visit goes on: the others are as they were.
LEMMA VisitKeeps ==
  ASSUME LegalInv, NEW c \in Customers, NEW visit \in VisitRows,
         UNCHANGED <<revisions, publications, legalClock>>,
         visits' = [visits EXCEPT ![c] = visit],
         visit.step # "AWAY" => /\ Approved(visit.revision, visit.text)
                                /\ visit.decidedAt <= legalClock,
         \A a \in acceptances' \ acceptances :
            Approved(a.revision, a.text) /\ a.at \in Nat /\ a.at <= legalClock /\ AcceptedInForce(a)
  PROVE  LegalInv'
<1>1. visits' \in [Customers -> VisitRows]
  BY DEF LegalInv, LegalTypeOK
<1>2. VisitsInv'
  <2> SUFFICES ASSUME NEW d \in Customers, visits'[d].step # "AWAY"
               PROVE  Approved(visits[d].revision, visits[d].text)' /\ visits'[d].decidedAt <= legalClock'
    BY DEF VisitsInv
  <2>1. \A r, text : Approved(r, text)' <=> Approved(r, text)
    BY DEF Approved, Revisions
  <2>2. visits'[d] = IF d = c THEN visit ELSE visits[d]
    BY DEF LegalInv, LegalTypeOK
  <2>3. Approved(visits'[d].revision, visits'[d].text) /\ visits'[d].decidedAt <= legalClock
    BY <2>2 DEF LegalInv, VisitsInv
  <2> QED
    BY <2>1, <2>3 DEF Approved, Revisions
<1>3. legalClock' \in 0..MaxLegalTime /\ legalClock <= legalClock'
  BY LegalAssumption DEF LegalInv, LegalTypeOK
<1> QED
  BY <1>1, <1>2, <1>3, DocumentUnchanged

\* A customer is shown the document, locks it, decides, and accepts what was shown.
LEMMA CustomerKeeps ==
  ASSUME LegalInv, NEW c \in Customers,
         availability(c) \/ lockLegalDocuments(c) \/ createLegalAcceptanceDecision(c) \/ acceptShown(c)
  PROVE  LegalInv'
<1>1. UNCHANGED <<revisions, publications, legalClock>>
  BY DEF availability, lockLegalDocuments, createLegalAcceptanceDecision, acceptShown
<1>2. visits[c] \in VisitRows /\ legalClock \in Nat /\ visits \in [Customers -> VisitRows]
  BY LegalAssumption DEF LegalInv, LegalTypeOK
<1>3. CASE availability(c)
  <2>1. PICK i \in readAt(legalClock) :
          visits' = [visits EXCEPT ![c] = [step |-> "SHOWN", revision |-> publications[i].revision,
                       text |-> revisions[publications[i].revision].content, decidedAt |-> 0]]
    BY <1>3 DEF availability
  <2>2. PICK visit : visit = [step |-> "SHOWN", revision |-> publications[i].revision,
                              text |-> revisions[publications[i].revision].content, decidedAt |-> 0]
    OBVIOUS
  <2>3. /\ visit \in VisitRows /\ Approved(visit.revision, visit.text) /\ visit.decidedAt <= legalClock
    BY <1>2, <2>2, InForceApproved DEF VisitRows
  <2>4. UNCHANGED acceptances
    BY <1>3 DEF availability
  <2> QED
    BY <1>1, <2>1, <2>2, <2>3, <2>4, VisitKeeps
<1>4. CASE lockLegalDocuments(c)
  <2>1. PICK visit : visit = [visits[c] EXCEPT !.step = "LOCKED"]
    OBVIOUS
  <2>2. /\ visit \in VisitRows /\ visit.revision = visits[c].revision /\ visit.text = visits[c].text
        /\ visit.decidedAt = visits[c].decidedAt
    BY <1>2, <2>1 DEF VisitRows
  <2>3. /\ visits[c].step = "SHOWN" /\ visits' = [visits EXCEPT ![c] = visit] /\ UNCHANGED acceptances
    BY <1>2, <1>4, <2>1 DEF lockLegalDocuments
  <2>4. Approved(visit.revision, visit.text) /\ visit.decidedAt <= legalClock
    BY <2>2, <2>3 DEF LegalInv, VisitsInv
  <2> QED
    BY <1>1, <2>2, <2>3, <2>4, VisitKeeps
<1>5. CASE createLegalAcceptanceDecision(c)
  <2>1. PICK visit : visit = [visits[c] EXCEPT !.step = "DECIDED", !.decidedAt = legalClock]
    OBVIOUS
  <2>2. /\ visit \in VisitRows /\ visit.revision = visits[c].revision /\ visit.text = visits[c].text
        /\ visit.decidedAt = legalClock
    BY <1>2, <2>1 DEF VisitRows
  <2>3. /\ visits[c].step = "LOCKED" /\ visits' = [visits EXCEPT ![c] = visit] /\ UNCHANGED acceptances
    BY <1>2, <1>5, <2>1 DEF createLegalAcceptanceDecision
  <2>4. Approved(visit.revision, visit.text) /\ visit.decidedAt <= legalClock
    BY <1>2, <2>2, <2>3 DEF LegalInv, VisitsInv
  <2> QED
    BY <1>1, <2>2, <2>3, <2>4, VisitKeeps
<1>6. CASE acceptShown(c)
  <2>1. NotVisiting \in VisitRows /\ NotVisiting.step = "AWAY"
    BY DEF NotVisiting, VisitRows
  <2>2. visits[c].step = "DECIDED" /\ visits' = [visits EXCEPT ![c] = NotVisiting]
    BY <1>6 DEF acceptShown
  <2>3. ASSUME NEW a \in acceptances' \ acceptances
        PROVE  Approved(a.revision, a.text) /\ a.at \in Nat /\ a.at <= legalClock /\ AcceptedInForce(a)
    <3>1. PICK i \in readAt(visits[c].decidedAt) :
            /\ publications[i].revision = visits[c].revision
            /\ a = [revision |-> visits[c].revision, text |-> visits[c].text, at |-> visits[c].decidedAt]
      BY <1>6 DEF acceptShown
    <3>2. /\ a.revision = visits[c].revision /\ a.text = visits[c].text /\ a.at = visits[c].decidedAt
          /\ a.at \in Nat
      BY <1>2, <3>1 DEF VisitRows
    <3>3. /\ i \in Uncancelled /\ publications[i].startsAt <= a.at /\ a.at < publications[i].endsAt
          /\ publications[i] \in PublicationRows
      BY <3>1, <3>2, InForceApproved DEF inForce
    <3>4. a.at <= publications[i].endsAt
      BY <3>2, <3>3 DEF PublicationRows
    <3> QED
      BY <2>2, <3>1, <3>2, <3>3, <3>4 DEF LegalInv, VisitsInv, AcceptedInForce
  <2> QED
    BY <1>1, <2>1, <2>2, <2>3, VisitKeeps
<1> QED
  BY <1>3, <1>4, <1>5, <1>6

\* A page is read, or time goes on.
LEMMA LegalTimeKeeps ==
  ASSUME LegalInv,
         (\E e \in Editors : getDocumentByKey(e)) \/ legalTimePasses \/ UNCHANGED legalVars
  PROVE  LegalInv'
<1>1. UNCHANGED <<revisions, publications, visits, acceptances>>
      /\ legalClock' \in 0..MaxLegalTime /\ legalClock <= legalClock'
  BY LegalAssumption DEF getDocumentByKey, legalTimePasses, legalVars, LegalInv, LegalTypeOK
<1>2. visits' \in [Customers -> VisitRows]
  BY <1>1 DEF LegalInv, LegalTypeOK
<1>3. \A c \in Customers : visits[c].decidedAt \in Int
  BY DEF LegalInv, LegalTypeOK, VisitRows
<1>4. VisitsInv'
  BY <1>1, <1>3, LegalAssumption DEF LegalInv, LegalTypeOK, VisitsInv, Approved, Revisions
<1> QED
  BY <1>1, <1>2, <1>4, DocumentUnchanged

\* Revisions change, but none that is approved.
LEMMA RevisionsChange ==
  ASSUME LegalInv, revisions' \in Seq(RevisionRows), Len(revisions) <= Len(revisions'),
         \A r \in Revisions : revisions[r].status = "APPROVED" => revisions'[r] = revisions[r],
         RevisionsInv', UNCHANGED <<publications, visits, acceptances, legalClock>>
  PROVE  LegalInv'
<1>1. Revisions \subseteq Revisions'
  BY LegalRows DEF LegalInv, Revisions
<1>2. \A r, text : Approved(r, text) => Approved(r, text)'
  BY <1>1 DEF Approved
<1>3. PublishedInv'
  BY <1>1 DEF LegalInv, PublishedInv, Publications
<1>4. VisitsInv'
  BY <1>2 DEF LegalInv, VisitsInv
<1>5. AcceptancesInv'
  BY <1>2 DEF LegalInv, AcceptancesInv, AcceptedInForce, Uncancelled, Publications, Forever
<1>6. TilesInv'
  BY TilesLater, LegalAssumption DEF LegalInv, LegalTypeOK
<1> QED
  BY <1>3, <1>4, <1>5, <1>6 DEF LegalInv, LegalTypeOK

\* A draft is written, corrected or approved.
LEMMA RevisionKeeps ==
  ASSUME LegalInv, NEW e \in Editors,
         \/ \E text \in Texts : createDraft(e, text)
         \/ \E text \in Texts, r \in Revisions : updateDraft(e, r, text)
         \/ \E r \in Revisions, effective \in EffectiveDates : approveRevision(e, r, effective)
  PROVE  LegalInv'
<1>1. /\ revisions \in Seq(RevisionRows) /\ Len(revisions) \in Nat
      /\ \A r \in Revisions : revisions[r] \in RevisionRows
  BY LegalRows DEF LegalInv, LegalTypeOK
<1>2. UNCHANGED <<publications, visits, acceptances, legalClock>>
  BY DEF createDraft, updateDraft, approveRevision
<1>3. ASSUME NEW text \in Texts, createDraft(e, text)
      PROVE  LegalInv'
  <2>1. PICK row : row = [status |-> "DRAFT", editVersion |-> 1, content |-> text,
                          effectiveAt |-> 0, reviewed |-> "none"]
    OBVIOUS
  <2>2. row \in RevisionRows /\ row.status = "DRAFT"
    BY <2>1, LegalAssumption DEF RevisionRows
  <2>3. revisions' = Append(revisions, row)
    BY <1>3, <2>1 DEF createDraft
  <2>4. /\ revisions' \in Seq(RevisionRows) /\ Len(revisions') = Len(revisions) + 1
        /\ revisions'[Len(revisions) + 1] = row
        /\ \A r \in Revisions : revisions'[r] = revisions[r]
    BY <1>1, <2>2, <2>3 DEF Revisions
  <2>5. RevisionsInv'
    <3> SUFFICES ASSUME NEW r \in Revisions', revisions'[r].status = "APPROVED"
                 PROVE  revisions'[r].content = revisions'[r].reviewed
      BY DEF RevisionsInv
    <3>1. r \in Revisions
      BY <1>1, <2>2, <2>4 DEF Revisions
    <3> QED
      BY <2>4, <3>1 DEF LegalInv, RevisionsInv
  <2> QED
    BY <1>1, <1>2, <2>4, <2>5, RevisionsChange
<1>4. ASSUME NEW r \in Revisions, NEW row \in RevisionRows, revisions[r].status = "DRAFT",
             revisions' = [revisions EXCEPT ![r] = row],
             row.status = "APPROVED" => row.content = row.reviewed
      PROVE  LegalInv'
  <2>1. revisions' \in Seq(RevisionRows) /\ Len(revisions') = Len(revisions)
    BY <1>1, <1>4 DEF Revisions
  <2>2. \A q \in Revisions : revisions'[q] = IF q = r THEN row ELSE revisions[q]
    BY <1>1, <1>4 DEF Revisions
  <2>3. RevisionsInv'
    BY <1>4, <2>1, <2>2 DEF RevisionsInv, Revisions, LegalInv
  <2> QED
    BY <1>1, <1>2, <1>4, <2>1, <2>2, <2>3, RevisionsChange
<1>5. ASSUME NEW text \in Texts, NEW r \in Revisions, updateDraft(e, r, text)
      PROVE  LegalInv'
  <2>1. PICK row : row = [revisions[r] EXCEPT !.content = text,
                                              !.editVersion = revisions[r].editVersion + 1]
    OBVIOUS
  <2>2. revisions[r].status = "DRAFT" /\ revisions' = [revisions EXCEPT ![r] = row]
    BY <1>1, <1>5, <2>1 DEF updateDraft, draftExpected, Revisions
  <2>3. revisions[r].editVersion + 1 \in Nat
    BY <1>1 DEF RevisionRows
  <2>4. row \in RevisionRows /\ row.status = "DRAFT"
    BY <1>1, <2>1, <2>2, <2>3 DEF RevisionRows
  <2> QED
    BY <1>4, <2>2, <2>4
<1>6. ASSUME NEW r \in Revisions, NEW effective \in EffectiveDates, approveRevision(e, r, effective)
      PROVE  LegalInv'
  <2>1. PICK row : row = [revisions[r] EXCEPT !.status = "APPROVED", !.effectiveAt = effective,
                                              !.reviewed = revisions[r].content]
    OBVIOUS
  <2>2. revisions[r].status = "DRAFT" /\ revisions[r].content = screens[e].revisions[r].content
    BY <1>6 DEF approveRevision
  <2>3. effective \in 0..MaxLegalTime
    BY LegalAssumption
  <2>4. row \in RevisionRows /\ row.content = row.reviewed
    BY <1>1, <2>1, <2>3 DEF RevisionRows
  <2>5. revisions' = [revisions EXCEPT ![r].status = "APPROVED", ![r].effectiveAt = effective,
                                       ![r].reviewed = screens[e].revisions[r].content]
    BY <1>6 DEF approveRevision
  <2>6. revisions' = [revisions EXCEPT ![r] = row]
    BY <2>1, <2>2, <2>5
  <2> QED
    BY <1>4, <2>2, <2>4, <2>6
<1> QED
  BY <1>3, <1>5, <1>6

\* Publications change: revisions stay, and so does what was accepted.
LEMMA PublicationsChange ==
  ASSUME LegalInv, publications' \in Seq(PublicationRows), PublishedInv', TilesInv',
         legalClock' \in 0..MaxLegalTime, legalClock <= legalClock',
         \A a \in acceptances : AcceptedInForce(a)',
         UNCHANGED <<revisions, visits, acceptances>>
  PROVE  LegalInv'
<1>1. legalClock \in Int /\ legalClock' \in Int
  BY LegalAssumption DEF LegalInv, LegalTypeOK
<1>2. \A r, text : Approved(r, text)' <=> Approved(r, text)
  BY DEF Approved, Revisions
<1>3. \A c \in Customers : visits[c].decidedAt \in Int
  BY DEF LegalInv, LegalTypeOK, VisitRows
<1>4. VisitsInv'
  BY <1>1, <1>2, <1>3 DEF LegalInv, VisitsInv
<1>5. AcceptancesInv'
  BY <1>1, <1>2 DEF LegalInv, AcceptancesInv
<1>6. RevisionsInv'
  BY DEF LegalInv, RevisionsInv, Revisions
<1> QED
  BY <1>4, <1>5, <1>6 DEF LegalInv, LegalTypeOK

\* An archive ends a publication at the clock.
LEMMA ArchiveKeeps ==
  ASSUME LegalInv, NEW e \in Editors, NEW t \in LegalTicks, NEW i \in Publications,
         archivePublication(e, i, t)
  PROVE  LegalInv'
<1>1. /\ publications \in Seq(PublicationRows) /\ \A j \in Publications : publications[j] \in PublicationRows
      /\ Uncancelled \subseteq Publications /\ Publications = DOMAIN publications
  BY LegalRows DEF LegalInv, LegalTypeOK, Uncancelled, Publications
<1>2. /\ legalClock' = t /\ t \in 0..MaxLegalTime /\ legalClock <= t /\ legalClock \in Nat
      /\ t \in Nat /\ Forever \in Nat /\ t < Forever /\ MaxLegalTime \in Nat
  BY LegalAssumption DEF LegalTicks, archivePublication, LegalInv, LegalTypeOK, Forever
<1>3. /\ i \in Uncancelled /\ publications[i].startsAt < t /\ publications[i].startsAt <= legalClock
      /\ publications[i].endsAt = Forever \/ t < publications[i].endsAt
      /\ UNCHANGED <<revisions, visits, acceptances>>
  BY DEF archivePublication, inForce
<1>4. PICK row : row = [publications[i] EXCEPT !.endsAt = t, !.archived = TRUE]
  OBVIOUS
<1>5. /\ row \in PublicationRows /\ row.revision = publications[i].revision /\ row.endsAt = t
      /\ row.startsAt = publications[i].startsAt /\ row.cancelledAt = publications[i].cancelledAt
      /\ row.archived
  <2>1. TRUE \in BOOLEAN
    OBVIOUS
  <2> QED
    BY <1>1, <1>2, <1>4, <2>1 DEF PublicationRows
<1>6. publications' = [publications EXCEPT ![i] = row]
  BY <1>1, <1>4 DEF archivePublication
<1>7. /\ publications' \in Seq(PublicationRows) /\ Publications' = Publications
      /\ \A j \in Publications : publications'[j] = IF j = i THEN row ELSE publications[j]
  BY <1>1, <1>5, <1>6 DEF Publications
<1>8. Uncancelled' = Uncancelled /\ Forever' = Forever
  BY <1>5, <1>7 DEF Uncancelled, Forever
<1>9. PublishedInv'
  BY <1>3, <1>5, <1>7 DEF LegalInv, PublishedInv, Revisions
<1>10. TilesInv'
  <2>1. \A j \in Uncancelled : /\ publications'[j].startsAt = publications[j].startsAt
                               /\ publications'[j].endsAt <= publications[j].endsAt
                               /\ publications[j] \in PublicationRows /\ publications'[j] \in PublicationRows
    <3> SUFFICES ASSUME NEW j \in Uncancelled
                 PROVE  /\ publications'[j].startsAt = publications[j].startsAt
                        /\ publications'[j].endsAt <= publications[j].endsAt
                        /\ publications[j] \in PublicationRows /\ publications'[j] \in PublicationRows
      OBVIOUS
    <3>1. publications[j] \in PublicationRows /\ publications[j].endsAt \in Nat
      BY <1>1 DEF PublicationRows
    <3>2. CASE j = i
      BY <1>1, <1>2, <1>3, <1>5, <1>7, <3>1, <3>2
    <3>3. CASE j # i
      BY <1>1, <1>7, <3>1, <3>3
    <3> QED
      BY <3>2, <3>3
  <2>2. \A j \in Uncancelled : Standing(j)'
    <3> SUFFICES ASSUME NEW j \in Uncancelled PROVE Standing(j)'
      OBVIOUS
    <3>1. CASE j = i
      BY <1>1, <1>2, <1>3, <1>5, <1>7, <1>8, <3>1 DEF Standing
    <3>2. CASE j # i
      <4>1. Standing(j) /\ publications'[j] = publications[j] /\ publications[j].endsAt \in Nat
        BY <1>1, <1>7, <3>2 DEF LegalInv, TilesInv, PublicationRows
      <4> QED
        BY <1>2, <1>8, <4>1 DEF Standing
    <3> QED
      BY <3>1, <3>2
  <2>3. \A j \in Uncancelled : Continued(j)'
    <3> SUFFICES ASSUME NEW j \in Uncancelled, publications'[j].endsAt # Forever,
                        ~publications'[j].archived
                 PROVE  \E k \in Uncancelled : publications'[k].startsAt = publications'[j].endsAt
      BY <1>8 DEF Continued
    <3>1. publications'[j] = publications[j]
      BY <1>1, <1>5, <1>7
    <3>2. PICK k \in Uncancelled : publications[k].startsAt = publications[j].endsAt
      BY <3>1 DEF LegalInv, TilesInv, Continued
    <3> QED
      BY <2>1, <3>1, <3>2
  <2>4. \A j, k \in Uncancelled : j # k => Apart(j, k)'
    <3> SUFFICES ASSUME NEW j \in Uncancelled, NEW k \in Uncancelled, j # k PROVE Apart(j, k)'
      OBVIOUS
    <3>1. Apart(j, k)
      BY DEF LegalInv, TilesInv
    <3>2. /\ publications[j].startsAt \in Int /\ publications[k].startsAt \in Int
          /\ publications[j].endsAt \in Int /\ publications[k].endsAt \in Int
          /\ publications'[j].endsAt \in Int /\ publications'[k].endsAt \in Int
      BY <2>1 DEF PublicationRows
    <3> QED
      BY <2>1, <3>1, <3>2 DEF Apart
  <2>5. \A j, k \in Uncancelled : publications'[j].startsAt > legalClock'
                                    /\ publications'[k].startsAt > legalClock' => j = k
    BY <1>2, <2>1 DEF LegalInv, TilesInv, PublicationRows
  <2> QED
    BY <1>8, <2>2, <2>3, <2>4, <2>5 DEF TilesInv
<1>11. ASSUME NEW a \in acceptances PROVE AcceptedInForce(a)'
  <2>1. a.at \in Nat /\ a.at <= legalClock /\ AcceptedInForce(a)
    BY DEF LegalInv, AcceptancesInv
  <2>2. PICK j \in Uncancelled : /\ publications[j].revision = a.revision
                                 /\ publications[j].startsAt <= a.at /\ a.at <= publications[j].endsAt
    BY <2>1 DEF AcceptedInForce
  <2>3. a.at <= t
    BY <1>2, <2>1
  <2> QED
    BY <1>1, <1>5, <1>7, <1>8, <2>2, <2>3 DEF AcceptedInForce
<1> QED
  BY <1>2, <1>3, <1>7, <1>9, <1>10, <1>11, PublicationsChange

\* A cancelled publication leaves, and the one cut for it goes on.
LEMMA CancelKeeps ==
  ASSUME LegalInv, NEW e \in Editors, NEW t \in LegalTicks, NEW i \in Publications,
         cancelPublication(e, i, t)
  PROVE  LegalInv'
<1> DEFINE Restored(j) == /\ j \in Uncancelled
                          /\ publications[j].startsAt < publications[i].startsAt
                          /\ publications[j].endsAt = publications[i].startsAt
<1>1. /\ publications \in Seq(PublicationRows) /\ \A j \in Publications : publications[j] \in PublicationRows
      /\ Uncancelled \subseteq Publications /\ Publications = DOMAIN publications
      /\ Publications = 1..Len(publications) /\ Len(publications) \in Nat
  BY LegalRows DEF LegalInv, LegalTypeOK, Uncancelled, Publications
<1>2. /\ legalClock' = t /\ t \in 0..MaxLegalTime /\ legalClock <= t /\ legalClock \in Nat
      /\ t \in Nat /\ Forever \in Nat /\ MaxLegalTime < Forever /\ MaxLegalTime \in Nat
  BY LegalAssumption DEF LegalTicks, cancelPublication, LegalInv, LegalTypeOK, Forever
<1>3. /\ i \in Uncancelled /\ t < publications[i].startsAt
      /\ UNCHANGED <<revisions, visits, acceptances>>
  BY DEF cancelPublication
<1>4. \A j \in Publications : /\ publications[j].startsAt \in 0..MaxLegalTime
                              /\ publications[j].startsAt \in Nat /\ publications[j].endsAt \in Nat
  BY LegalRows DEF LegalInv
<1>5. \A j \in Publications :
        publications'[j] = IF j = i THEN [publications[i] EXCEPT !.cancelledAt = t]
                           ELSE IF Restored(j) THEN [publications[j] EXCEPT !.endsAt = Forever]
                           ELSE publications[j]
  <2>1. restorePredecessor(i)[i] = publications[i]
    BY <1>4 DEF restorePredecessor
  <2> QED
    BY <2>1 DEF cancelPublication, restorePredecessor
<1>6. DOMAIN publications' = 1..Len(publications)
  <2>1. DOMAIN restorePredecessor(i) = Publications
    BY DEF restorePredecessor
  <2> QED
    BY <1>1, <2>1 DEF cancelPublication
<1>7. \A j \in Publications :
        /\ publications'[j] \in PublicationRows
        /\ publications'[j].revision = publications[j].revision
        /\ publications'[j].startsAt = publications[j].startsAt
        /\ publications'[j].archived = publications[j].archived
        /\ publications'[j].endsAt = IF j # i /\ Restored(j) THEN Forever ELSE publications[j].endsAt
        /\ publications'[j].cancelledAt = IF j = i THEN t ELSE publications[j].cancelledAt
  <2> SUFFICES ASSUME NEW j \in Publications
               PROVE  /\ publications'[j] \in PublicationRows
                      /\ publications'[j].revision = publications[j].revision
                      /\ publications'[j].startsAt = publications[j].startsAt
                      /\ publications'[j].archived = publications[j].archived
                      /\ publications'[j].endsAt = IF j # i /\ Restored(j) THEN Forever
                                                   ELSE publications[j].endsAt
                      /\ publications'[j].cancelledAt = IF j = i THEN t
                                                        ELSE publications[j].cancelledAt
    OBVIOUS
  <2>1. publications[j] \in PublicationRows
    BY <1>1
  <2>2. CASE j = i
    BY <1>2, <1>5, <2>1, <2>2 DEF PublicationRows
  <2>3. CASE j # i /\ Restored(j)
    BY <1>2, <1>5, <2>1, <2>3 DEF PublicationRows
  <2>4. CASE j # i /\ ~Restored(j)
    BY <1>5, <2>1, <2>4
  <2> QED
    BY <2>2, <2>3, <2>4
<1>8. /\ publications' \in Seq(PublicationRows) /\ Publications' = Publications
  <2>1. publications' = [j \in 1..Len(publications) |-> publications'[j]]
    BY <1>1 DEF cancelPublication, restorePredecessor
  <2>2. publications' \in Seq(PublicationRows)
    BY <1>1, <1>7, <2>1
  <2>3. Len(publications') = Len(publications)
    BY <1>1, <1>6, <2>2
  <2> QED
    BY <2>2, <2>3 DEF Publications
<1>9. Uncancelled' = Uncancelled \ {i} /\ Forever' = Forever
  BY <1>2, <1>7, <1>8 DEF Uncancelled, Forever
<1>10. PublishedInv'
  BY <1>3, <1>7, <1>8 DEF LegalInv, PublishedInv, Revisions
<1>11. \A j \in Uncancelled : j # i => publications[j].startsAt <= legalClock
  <2> SUFFICES ASSUME NEW j \in Uncancelled, publications[j].startsAt > legalClock PROVE j = i
    BY <1>1, <1>2, <1>4
  <2>1. publications[i].startsAt > legalClock
    BY <1>2, <1>3, <1>4
  <2> QED
    BY <1>3, <2>1 DEF LegalInv, TilesInv
<1>12. TilesInv'
  <2>1. ASSUME NEW j \in Uncancelled, j # i PROVE Standing(j)' /\ Continued(j)'
    <3>1. Standing(j) /\ Continued(j) /\ j \in Publications
      BY <1>1 DEF LegalInv, TilesInv
    <3>2. CASE Restored(j)
      <4>1. publications'[j].endsAt = Forever
        BY <1>7, <2>1, <3>1, <3>2
      <4>2. ~publications[j].archived
        BY <1>2, <1>3, <1>4, <3>1, <3>2 DEF Standing
      <4> QED
        BY <1>2, <1>4, <1>7, <1>9, <3>1, <4>1, <4>2 DEF Standing, Continued
    <3>3. CASE ~Restored(j)
      <4>1. publications'[j].endsAt = publications[j].endsAt
        BY <1>7, <3>1, <3>3
      <4>2. Standing(j)'
        BY <1>2, <1>4, <1>7, <1>9, <3>1, <4>1 DEF Standing
      <4>3. ASSUME NEW k \in Uncancelled, publications[k].startsAt = publications[j].endsAt
            PROVE  k # i /\ publications'[k].startsAt = publications'[j].endsAt
        BY <1>1, <1>7, <3>1, <3>3, <4>1, <4>3 DEF Standing
      <4>4. Continued(j)'
        BY <1>7, <1>9, <3>1, <4>1, <4>3 DEF Continued
      <4> QED
        BY <4>2, <4>4
    <3> QED
      BY <3>2, <3>3
  <2>2. ASSUME NEW j \in Uncancelled, NEW k \in Uncancelled, j # i, k # i, j # k, Restored(j)
        PROVE  /\ publications[k].endsAt <= publications[j].startsAt /\ ~Restored(k)
    <3>1. Apart(j, k)
      BY <2>2 DEF LegalInv, TilesInv
    <3>2. publications[k].startsAt <= legalClock
      BY <1>11, <2>2
    <3>3. publications[k].endsAt <= publications[j].startsAt
      BY <1>1, <1>2, <1>3, <1>4, <2>2, <3>1, <3>2 DEF Apart
    <3> QED
      BY <1>1, <1>4, <2>2, <3>3
  <2>3. ASSUME NEW j \in Uncancelled, NEW k \in Uncancelled, j # i, k # i, j # k
        PROVE  Apart(j, k)'
    <3>1. Apart(j, k) /\ j \in Publications /\ k \in Publications
      BY <1>1, <2>3 DEF LegalInv, TilesInv
    <3>2. CASE Restored(j)
      BY <1>7, <2>2, <2>3, <3>1, <3>2 DEF Apart
    <3>3. CASE Restored(k)
      BY <1>7, <2>2, <2>3, <3>1, <3>3 DEF Apart
    <3>4. CASE ~Restored(j) /\ ~Restored(k)
      BY <1>7, <3>1, <3>4 DEF Apart
    <3> QED
      BY <3>2, <3>3, <3>4
  <2>4. \A j, k \in Uncancelled' : publications'[j].startsAt > legalClock'
                                    /\ publications'[k].startsAt > legalClock' => j = k
    BY <1>1, <1>2, <1>4, <1>7, <1>9, <1>11
  <2> QED
    BY <1>9, <2>1, <2>3, <2>4 DEF TilesInv
<1>13. ASSUME NEW a \in acceptances PROVE AcceptedInForce(a)'
  <2>1. a.at \in Nat /\ a.at <= legalClock /\ AcceptedInForce(a)
    BY DEF LegalInv, AcceptancesInv
  <2>2. PICK j \in Uncancelled : /\ publications[j].revision = a.revision
                                 /\ publications[j].startsAt <= a.at /\ a.at <= publications[j].endsAt
    BY <2>1 DEF AcceptedInForce
  <2>3. j # i /\ j \in Publications /\ a.at <= Forever
    BY <1>1, <1>2, <1>3, <1>4, <2>1, <2>2
  <2> QED
    BY <1>7, <1>9, <2>2, <2>3 DEF AcceptedInForce
<1> QED
  BY <1>2, <1>3, <1>8, <1>10, <1>12, <1>13, PublicationsChange

\* A publication starts after every one that stands, and at most one is cut for it.
LEMMA PublishKeeps ==
  ASSUME LegalInv, NEW e \in Editors, NEW t \in LegalTicks, NEW r \in Revisions,
         NEW asked \in legalClock..MaxLegalTime, publishRevision(e, r, asked, t)
  PROVE  LegalInv'
<1>1. PICK decided, starts, n :
        /\ decided = laterOrNow(revisions[r].effectiveAt, asked)
        /\ starts = IF decided <= t THEN laterOrNow(revisions[r].effectiveAt, t) ELSE decided
        /\ n = Len(publications) + 1
  OBVIOUS
<1> DEFINE row == [revision |-> r, startsAt |-> starts, endsAt |-> Forever,
                   cancelledAt |-> Forever, archived |-> FALSE]
           Cut(j) == j \in Predecessors(starts)
<1>2. /\ publications \in Seq(PublicationRows) /\ Len(publications) \in Nat /\ n \in Nat
      /\ Uncancelled \subseteq Publications /\ Publications = 1..Len(publications)
      /\ \A j \in Publications : publications[j] \in PublicationRows
      /\ \A j \in Publications : /\ publications[j].startsAt \in Nat
                                 /\ publications[j].endsAt \in Nat
  BY LegalRows, <1>1 DEF LegalInv, LegalTypeOK, Uncancelled, Publications
<1>3. /\ legalClock' = t /\ t \in 0..MaxLegalTime /\ legalClock <= t /\ legalClock \in Nat
      /\ t \in Nat /\ Forever \in Nat /\ MaxLegalTime < Forever /\ MaxLegalTime \in Nat
  BY LegalAssumption DEF LegalTicks, publishRevision, LegalInv, LegalTypeOK, Forever
<1>4. /\ revisions[r].status = "APPROVED" /\ ~pendingPublication(decided)
      /\ publications' = Append(cutPredecessor(starts), row)
      /\ UNCHANGED <<revisions, visits, acceptances>>
  BY <1>1 DEF publishRevision
<1>5. /\ revisions[r].effectiveAt \in 0..MaxLegalTime /\ asked \in 0..MaxLegalTime
      /\ r \in Nat /\ legalClock <= asked
  BY LegalRows, <1>3 DEF LegalInv, RevisionRows, Revisions
<1>6. /\ decided \in 0..MaxLegalTime /\ starts \in 0..MaxLegalTime /\ t <= starts /\ starts \in Nat
      /\ decided <= t => starts = t
      /\ decided > t => starts = decided
  BY <1>1, <1>3, <1>5 DEF laterOrNow
<1>7. \A j \in Uncancelled : publications[j].startsAt <= legalClock /\ publications[j].startsAt < starts
  <2> SUFFICES ASSUME NEW j \in Uncancelled
               PROVE  publications[j].startsAt <= legalClock /\ publications[j].startsAt < starts
    OBVIOUS
  <2>1. /\ ~(publications[j].startsAt > legalClock)
        /\ decided <= legalClock => publications[j].startsAt # legalClock
    BY <1>4 DEF pendingPublication
  <2> QED
    BY <1>2, <1>3, <1>6, <2>1
<1>8. \A i, j \in Predecessors(starts) : i = j
  <2> SUFFICES ASSUME NEW i \in Predecessors(starts), NEW j \in Predecessors(starts), i # j PROVE FALSE
    OBVIOUS
  <2>1. /\ i \in Uncancelled /\ j \in Uncancelled /\ i \in Publications /\ j \in Publications
        /\ publications[i].startsAt < starts /\ publications[i].endsAt > starts
        /\ publications[j].startsAt < starts /\ publications[j].endsAt > starts
    BY <1>2 DEF Predecessors
  <2>2. Apart(i, j)
    BY <2>1 DEF LegalInv, TilesInv
  <2> QED
    BY <1>2, <1>6, <2>1, <2>2 DEF Apart
<1>9. \A j \in Predecessors(starts) : Newest(Predecessors(starts)) = j
  <2> SUFFICES ASSUME NEW j \in Predecessors(starts) PROVE Newest(Predecessors(starts)) = j
    OBVIOUS
  <2>1. j \in Publications
    BY <1>2 DEF Predecessors
  <2>2. \A k \in Predecessors(starts) : publications[k].startsAt <= publications[j].startsAt
    BY <1>2, <1>8, <2>1
  <2>3. Newest(Predecessors(starts)) \in Predecessors(starts)
    BY <2>2 DEF Newest
  <2> QED
    BY <1>8, <2>3
<1>10. \A j \in Publications :
        cutPredecessor(starts)[j] = IF Cut(j) THEN [publications[j] EXCEPT !.endsAt = starts]
                                    ELSE publications[j]
  <2> SUFFICES ASSUME NEW j \in Publications
               PROVE  cutPredecessor(starts)[j] =
                        IF Cut(j) THEN [publications[j] EXCEPT !.endsAt = starts] ELSE publications[j]
    OBVIOUS
  <2>1. CASE Cut(j)
    BY <1>9, <2>1 DEF cutPredecessor
  <2>2. CASE ~Cut(j)
    <3>1. Predecessors(starts) # {} => Newest(Predecessors(starts)) \in Predecessors(starts)
      BY <1>9
    <3> QED
      BY <2>2, <3>1 DEF cutPredecessor
  <2> QED
    BY <2>1, <2>2
<1>11. /\ row \in PublicationRows /\ row.revision = r /\ row.startsAt = starts /\ row.endsAt = Forever
       /\ row.cancelledAt = Forever /\ ~row.archived
  <2>1. FALSE \in BOOLEAN
    OBVIOUS
  <2>2. row \in PublicationRows
    BY <1>3, <1>5, <1>6, <2>1, Zenon DEF PublicationRows
  <2> QED
    BY <2>2
<1> HIDE DEF row
<1>12. \A j \in Publications :
         /\ cutPredecessor(starts)[j] \in PublicationRows
         /\ cutPredecessor(starts)[j].revision = publications[j].revision
         /\ cutPredecessor(starts)[j].startsAt = publications[j].startsAt
         /\ cutPredecessor(starts)[j].archived = publications[j].archived
         /\ cutPredecessor(starts)[j].cancelledAt = publications[j].cancelledAt
         /\ cutPredecessor(starts)[j].endsAt = IF Cut(j) THEN starts ELSE publications[j].endsAt
  <2> SUFFICES ASSUME NEW j \in Publications
               PROVE  /\ cutPredecessor(starts)[j] \in PublicationRows
                      /\ cutPredecessor(starts)[j].revision = publications[j].revision
                      /\ cutPredecessor(starts)[j].startsAt = publications[j].startsAt
                      /\ cutPredecessor(starts)[j].archived = publications[j].archived
                      /\ cutPredecessor(starts)[j].cancelledAt = publications[j].cancelledAt
                      /\ cutPredecessor(starts)[j].endsAt = IF Cut(j) THEN starts
                                                            ELSE publications[j].endsAt
    OBVIOUS
  <2>1. publications[j] \in PublicationRows
    BY <1>2
  <2>2. CASE Cut(j)
    BY <1>6, <1>10, <2>1, <2>2 DEF PublicationRows
  <2>3. CASE ~Cut(j)
    BY <1>10, <2>1, <2>3
  <2> QED
    BY <2>2, <2>3
<1>13. cutPredecessor(starts) \in Seq(PublicationRows) /\ Len(cutPredecessor(starts)) = Len(publications)
  <2>1. cutPredecessor(starts) = [j \in 1..Len(publications) |-> cutPredecessor(starts)[j]]
    BY <1>2 DEF cutPredecessor
  <2>2. cutPredecessor(starts) \in Seq(PublicationRows)
    BY <1>2, <1>12, <2>1
  <2> QED
    BY <1>2, <2>1, <2>2
<1>14. /\ publications' \in Seq(PublicationRows) /\ Publications' = 1..n
       /\ publications'[n] = row
       /\ \A j \in Publications : publications'[j] = cutPredecessor(starts)[j] /\ j # n
       /\ \A j \in 1..n : j # n => j \in Publications
  BY <1>1, <1>2, <1>4, <1>11, <1>13 DEF Publications
<1>15. Uncancelled' = Uncancelled \cup {n} /\ Forever' = Forever /\ n \notin Uncancelled
  <2>1. Forever' = Forever /\ publications'[n].cancelledAt = Forever
    BY <1>11, <1>14 DEF Forever
  <2>2. n \notin Publications /\ n \in Publications'
    BY <1>1, <1>2, <1>14
  <2>3. \A j \in Publications : /\ publications'[j].cancelledAt = publications[j].cancelledAt
                                /\ j \in Publications'
    BY <1>1, <1>2, <1>12, <1>14
  <2> QED
    BY <1>14, <2>1, <2>2, <2>3 DEF Uncancelled
<1>16. PublishedInv'
  <2>1. Revisions' = Revisions /\ UNCHANGED revisions
    BY <1>4 DEF Revisions
  <2>2. \A j \in Publications' : j # n => publications'[j].revision = publications[j].revision
    BY <1>12, <1>14
  <2>3. publications'[n].revision = r
    BY <1>11, <1>14
  <2> QED
    BY <1>4, <1>14, <2>1, <2>2, <2>3 DEF LegalInv, PublishedInv
<1>17. ASSUME NEW j \in Uncancelled
       PROVE  /\ j \in Publications /\ Standing(j) /\ Continued(j) /\ publications[j].startsAt < starts
              /\ publications[j].startsAt \in Nat /\ publications[j].endsAt \in Nat
              /\ publications'[j].startsAt = publications[j].startsAt
              /\ publications'[j].archived = publications[j].archived
              /\ publications'[j].revision = publications[j].revision
              /\ \/ publications[j].endsAt > starts /\ publications'[j].endsAt = starts
                 \/ publications[j].endsAt <= starts /\ publications'[j].endsAt = publications[j].endsAt
  <2>1. /\ j \in Publications /\ Standing(j) /\ Continued(j) /\ publications[j].startsAt < starts
        /\ publications[j].startsAt \in Nat /\ publications[j].endsAt \in Nat
    BY <1>2, <1>7 DEF LegalInv, TilesInv
  <2>2. Cut(j) <=> publications[j].endsAt > starts
    BY <2>1 DEF Predecessors
  <2> HIDE DEF Cut
  <2> QED
    BY <1>6, <1>12, <1>14, <2>1, <2>2
<1>18. TilesInv'
  <2>1. ASSUME NEW j \in Uncancelled PROVE Standing(j)'
    <3>1. Standing(j) /\ publications[j].startsAt < starts
      BY <1>17
    <3>2. publications'[j].endsAt \in {starts, publications[j].endsAt}
          /\ publications'[j].endsAt <= publications[j].endsAt
      BY <1>6, <1>17
    <3>3. /\ publications'[j].startsAt = publications[j].startsAt
          /\ publications'[j].archived = publications[j].archived
          /\ publications[j].startsAt \in Nat /\ publications[j].endsAt \in Nat
      BY <1>17
    <3> QED
      BY <1>3, <1>6, <1>15, <3>1, <3>2, <3>3 DEF Standing
  <2>2. Standing(n)' /\ Continued(n)'
    BY <1>3, <1>6, <1>11, <1>14, <1>15 DEF Standing, Continued
  <2>3. ASSUME NEW j \in Uncancelled PROVE Continued(j)'
    <3>1. CASE publications[j].endsAt > starts
      BY <1>11, <1>14, <1>15, <1>17, <3>1 DEF Continued
    <3>2. CASE ~(publications[j].endsAt > starts)
      BY <1>15, <1>17, <3>2 DEF Continued
    <3> QED
      BY <3>1, <3>2
  <2>4. ASSUME NEW j \in Uncancelled PROVE Apart(j, n)' /\ Apart(n, j)'
    BY <1>2, <1>6, <1>11, <1>14, <1>17 DEF Apart
  <2>5. ASSUME NEW j \in Uncancelled, NEW k \in Uncancelled, j # k PROVE Apart(j, k)'
    <3>1. Apart(j, k)
      BY <2>5 DEF LegalInv, TilesInv
    <3> QED
      BY <1>2, <1>6, <1>17, <3>1 DEF Apart
  <2>6. \A j, k \in Uncancelled' : publications'[j].startsAt > legalClock'
                                    /\ publications'[k].startsAt > legalClock' => j = k
    <3>1. \A j \in Uncancelled : ~(publications'[j].startsAt > legalClock')
      BY <1>2, <1>3, <1>7, <1>17
    <3> QED
      BY <1>15, <3>1
  <2> QED
    BY <1>15, <2>1, <2>2, <2>3, <2>4, <2>5, <2>6 DEF TilesInv
<1>19. ASSUME NEW a \in acceptances PROVE AcceptedInForce(a)'
  <2>1. a.at \in Nat /\ a.at <= legalClock /\ AcceptedInForce(a)
    BY DEF LegalInv, AcceptancesInv
  <2>2. PICK j \in Uncancelled : /\ publications[j].revision = a.revision
                                 /\ publications[j].startsAt <= a.at /\ a.at <= publications[j].endsAt
    BY <2>1 DEF AcceptedInForce
  <2>3. a.at <= starts
    BY <1>3, <1>6, <2>1
  <2> QED
    BY <1>15, <1>17, <2>2, <2>3 DEF AcceptedInForce
<1> QED
  BY <1>3, <1>4, <1>14, <1>16, <1>18, <1>19, PublicationsChange

\* For any number of editors, customers, revisions and publications, and for every
\* date: the publications that stand tile the time without overlap, one ends only
\* when archived or when the next starts, and an acceptance is of an approved
\* text that was in force when it was decided and is unchanged since.
THEOREM LegalHistoryStands == LegalSpec => []LegalSound
<1>1. LegalInit => LegalInv
  BY LegalInitially
<1>2. LegalInv /\ [LegalNext]_legalVars => LegalInv'
  <2> SUFFICES ASSUME LegalInv, [LegalNext]_legalVars PROVE LegalInv'
    OBVIOUS
  <2>1. CASE \E e \in Editors : getDocumentByKey(e)
    BY <2>1, LegalTimeKeeps
  <2>2. CASE legalTimePasses \/ UNCHANGED legalVars
    BY <2>2, LegalTimeKeeps
  <2>3. ASSUME NEW e \in Editors,
               \/ \E text \in Texts : \/ createDraft(e, text)
                                      \/ \E r \in Revisions : updateDraft(e, r, text)
               \/ \E r \in Revisions, effective \in EffectiveDates : approveRevision(e, r, effective)
        PROVE  LegalInv'
    BY <2>3, RevisionKeeps
  <2>4. ASSUME NEW e \in Editors, NEW t \in LegalTicks,
               \/ \E r \in Revisions, asked \in legalClock..MaxLegalTime : publishRevision(e, r, asked, t)
               \/ \E i \in Publications : cancelPublication(e, i, t)
               \/ \E i \in Publications : archivePublication(e, i, t)
        PROVE  LegalInv'
    BY <2>4, PublishKeeps, CancelKeeps, ArchiveKeeps
  <2> QED
    BY <2>1, <2>2, <2>3, <2>4, CustomerKeeps DEF LegalNext
<1>3. LegalInv => LegalSound
  <2> SUFFICES ASSUME LegalInv PROVE LegalSound
    OBVIOUS
  <2>1. AcceptanceStands
    BY DEF LegalInv, AcceptancesInv, AcceptanceStands, Approved, AcceptedInForce
  <2>2. PublicationsTile
    BY DEF LegalInv, TilesInv, PublicationsTile, Standing, Continued, Apart
  <2> QED
    BY <2>1, <2>2 DEF LegalSound
<1> QED
  BY <1>1, <1>2, <1>3, PTL DEF LegalSpec

----------------------------------------------------------------------------
(* Retention of uploads, for every set of uploads, requests and workers.      *)

USE RetentionAssumption

\* What moving a request on does to its locals.
LEMMA StepEffect ==
    ASSUME TypeOK, NEW c \in Requests, NEW l \in RequestLabels, Step(c, l)
    PROVE  /\ request' \in [Requests -> [pc : RequestLabels,
                                         upload : Uploads \cup {NoUpload}]]
           /\ request'[c].pc = l
           /\ request'[c].upload = request[c].upload
           /\ \A b \in Requests : b # c => request'[b] = request[b]
<1> DEFINE r == [request[c] EXCEPT !.pc = l]
<1>1. request' = [request EXCEPT ![c] = r]
  BY DEF Step
<1>2. request \in [Requests -> [pc : RequestLabels,
                                upload : Uploads \cup {NoUpload}]]
  BY DEF TypeOK
<1>3. r \in [pc : RequestLabels, upload : Uploads \cup {NoUpload}]
      /\ r.pc = l /\ r.upload = request[c].upload
  BY <1>2
<1> HIDE DEF r
<1> QED
  BY <1>1, <1>2, <1>3

\* What moving a worker on does to its locals.
LEMMA WorkerEffect ==
    ASSUME TypeOK, NEW w \in Workers, NEW l \in WorkerLabels \ {"idle"},
           worker[w].pc # "idle", WorkerTo(w, l)
    PROVE  /\ worker' \in [Workers -> [pc : WorkerLabels,
                                       job : Jobs \cup {<<>>},
                                       keys : SUBSET Keys]]
           /\ \A v \in Workers : worker'[v].pc # "idle" => worker'[v].job \in Jobs
           /\ worker'[w].pc = l
           /\ worker'[w].job = worker[w].job
           /\ worker'[w].keys = worker[w].keys
           /\ \A v \in Workers : v # w => worker'[v] = worker[v]
<1> DEFINE r == [worker[w] EXCEPT !.pc = l]
<1>1. worker' = [worker EXCEPT ![w] = r]
  BY DEF WorkerTo
<1>2. worker \in [Workers -> [pc : WorkerLabels, job : Jobs \cup {<<>>},
                              keys : SUBSET Keys]]
      /\ \A v \in Workers : worker[v].pc # "idle" => worker[v].job \in Jobs
  BY DEF TypeOK
<1>3. /\ r \in [pc : WorkerLabels, job : Jobs \cup {<<>>}, keys : SUBSET Keys]
      /\ r.pc = l /\ r.job = worker[w].job /\ r.keys = worker[w].keys
  BY <1>2
<1> HIDE DEF r
<1> QED
  BY <1>1, <1>2, <1>3

\* A request that is answered, or dropped, keeps nothing.
LEMMA LeaveEffect ==
    ASSUME TypeOK, NEW c \in Requests, Leave(c)
    PROVE  /\ request' \in [Requests -> [pc : RequestLabels,
                                         upload : Uploads \cup {NoUpload}]]
           /\ request'[c] = Unserved
           /\ \A b \in Requests : b # c => request'[b] = request[b]
BY DEF TypeOK, Leave, Unserved, RequestLabels

\* A worker that rests keeps nothing.
LEMMA RestEffect ==
    ASSUME TypeOK, NEW w \in Workers, Rest(w)
    PROVE  /\ worker' \in [Workers -> [pc : WorkerLabels,
                                       job : Jobs \cup {<<>>},
                                       keys : SUBSET Keys]]
           /\ \A v \in Workers : worker'[v].pc # "idle" => worker'[v].job \in Jobs
           /\ worker'[w] = Resting
           /\ \A v \in Workers : v # w => worker'[v] = worker[v]
<1>1. Resting \in [pc : WorkerLabels, job : Jobs \cup {<<>>}, keys : SUBSET Keys]
      /\ Resting.pc = "idle"
  BY DEF Resting, WorkerLabels
<1> QED
  BY <1>1 DEF TypeOK, Rest

\* Every step keeps the types.
LEMMA TypeStep ==
    ASSUME TypeOK, [Next]_vars
    PROVE  TypeOK'
<1> USE DEF TypeOK, intentVars, assetVars, jobVars, storeVars, timeVars, Keys,
            RequestLabels, WorkerLabels, Terminal, Resting, Unserved, Ticks, Jobs,
            Asset
<1>1. ASSUME NEW u \in Uploads, InitiateUpload(u)
      PROVE  TypeOK'
  BY <1>1 DEF InitiateUpload, UploadJob
<1>2. ASSUME NEW u \in Uploads, ExpirePendingIntent(u)
      PROVE  TypeOK'
  BY <1>2 DEF ExpirePendingIntent
<1>3. ASSUME NEW u \in Uploads, BeginPut(u)
      PROVE  TypeOK'
  BY <1>3 DEF BeginPut
<1>4. ASSUME NEW u \in Uploads, IntentExpires(u)
      PROVE  TypeOK'
  BY <1>4 DEF IntentExpires
<1>5. ASSUME NEW u \in Uploads, PutLands(u)
      PROVE  TypeOK'
  BY <1>5 DEF PutLands
<1>6. ASSUME NEW u \in Uploads, CopyEnds(u)
      PROVE  TypeOK'
  BY <1>6 DEF CopyEnds
<1>7. ASSUME NEW u \in Uploads, SweepExpiredQuarantine(u)
      PROVE  TypeOK'
  BY <1>7 DEF SweepExpiredQuarantine
<1>8. ASSUME NEW u \in Uploads, RecordArtifact(u)
      PROVE  TypeOK'
  BY <1>8 DEF RecordArtifact, Available
<1>9. ASSUME NEW u \in Uploads, HoldAsset(u)
      PROVE  TypeOK'
  BY <1>9 DEF HoldAsset, Changeable
<1>10. ASSUME NEW u \in Uploads, EndClaim(u)
      PROVE  TypeOK'
  <2>1. PICK d \in Ticks : ReleaseAsset(u, d)
    <3>1. deadline[u] \in Ticks \/ ~ Changeable(u)
      BY DEF Changeable
    <3>2. clock > deadline[u] /\ Changeable(u) => clock \in Ticks
      BY DEF Changeable
    <3> QED
      BY <1>10, <3>1, <3>2 DEF EndClaim, ReleaseAsset
  <2> QED
    BY <2>1 DEF ReleaseAsset, Enqueued, AssetJob, Changeable
<1>11. ASSUME NEW u \in Uploads, NEW d \in Ticks, ExtendDeadline(u, d)
      PROVE  TypeOK'
  BY <1>11 DEF ExtendDeadline, Enqueued, AssetJob, Changeable, Available
<1>12. ASSUME NEW u \in Uploads, NEW d \in Ticks, EndOrder(u, d)
      PROVE  TypeOK'
  BY <1>12 DEF EndOrder, ReleaseAsset, Enqueued, AssetJob, Changeable
<1>13. ASSUME NEW c \in Requests, NEW u \in Uploads, BeginConfirm(c, u)
      PROVE  TypeOK'
  BY <1>13 DEF BeginConfirm
<1>14. ASSUME NEW c \in Requests, NEW u \in Uploads, ValidateUpload(c, u)
      PROVE  TypeOK'
  <2>1. request' \in [Requests -> [pc : RequestLabels,
                                        upload : Uploads \cup {NoUpload}]]
    BY <1>14, StepEffect DEF ValidateUpload
  <2> QED
    BY <1>14, <2>1 DEF ValidateUpload
<1>15. ASSUME NEW c \in Requests, NEW u \in Uploads, RejectPendingIntent(c, u)
      PROVE  TypeOK'
  <2>1. request' \in [Requests -> [pc : RequestLabels,
                                        upload : Uploads \cup {NoUpload}]]
    <3>1. CASE Rejectable(u)
      BY <1>15, <3>1, StepEffect DEF RejectPendingIntent
    <3>2. CASE ~ Rejectable(u)
      BY <1>15, <3>2, LeaveEffect DEF RejectPendingIntent
    <3> QED
      BY <3>1, <3>2
  <2>2. intent' \in [Uploads -> {"NONE", "PENDING", "GONE"} \cup Terminal]
    BY <1>15 DEF RejectPendingIntent
  <2> QED
    BY <1>15, <2>1, <2>2 DEF RejectPendingIntent
<1>16. ASSUME NEW c \in Requests, NEW u \in Uploads, DiscardRejected(c, u)
      PROVE  TypeOK'
  BY <1>16 DEF DiscardRejected, Leave
<1>17. ASSUME NEW c \in Requests, NEW u \in Uploads, LockIntent(c, u)
      PROVE  TypeOK'
  <2>1. request' \in [Requests -> [pc : RequestLabels,
                                        upload : Uploads \cup {NoUpload}]]
    <3>1. CASE Leave(c)
      BY <3>1 DEF Leave
    <3>2. CASE Step(c, "cleanup") \/ Step(c, "copy")
      BY <3>2, StepEffect
    <3> QED
      BY <1>17, <3>1, <3>2 DEF LockIntent
  <2> QED
    BY <1>17, <2>1 DEF LockIntent
<1>18. ASSUME NEW c \in Requests, NEW u \in Uploads, CopyObject(c, u)
      PROVE  TypeOK'
  <2>1. request' \in [Requests -> [pc : RequestLabels,
                                        upload : Uploads \cup {NoUpload}]]
    BY <1>18, StepEffect DEF CopyObject
  <2> QED
    BY <1>18, <2>1 DEF CopyObject
<1>19. ASSUME NEW c \in Requests, NEW u \in Uploads, CommitConfirm(c, u)
      PROVE  TypeOK'
  BY <1>19 DEF CommitConfirm, Step, Enqueued, AssetJob
<1>20. ASSUME NEW c \in Requests, NEW u \in Uploads, CleanupQuarantine(c, u)
      PROVE  TypeOK'
  BY <1>20 DEF CleanupQuarantine, Leave
<1>21. ASSUME NEW c \in Requests, NEW u \in Uploads, AbandonConfirm(c, u)
      PROVE  TypeOK'
  BY <1>21 DEF AbandonConfirm, Leave
<1>22. ASSUME NEW w \in Workers, NEW u \in Uploads, ClaimUploadIntent(w, u)
      PROVE  TypeOK'
  BY <1>22 DEF ClaimUploadIntent, ClaimableJob, FencedIntent, Lease, UploadJob
<1>23. ASSUME NEW w \in Workers, NEW u \in Uploads, NEW d \in Ticks, ClaimAsset(w, u, d)
      PROVE  TypeOK'
  BY <1>23 DEF ClaimAsset, ClaimableJob, Lease, AssetJob, Eligible
<1>24. ASSUME NEW w \in Workers, NEW u \in Uploads, NEW d \in Ticks, SkipAsset(w, u, d)
      PROVE  TypeOK'
  BY <1>24 DEF SkipAsset, ClaimableJob, AssetJob, Eligible
<1>25. ASSUME NEW w \in Workers, NEW u \in Uploads, DeleteObjects(w, u)
      PROVE  TypeOK'
  <2>1. /\ worker' \in [Workers -> [pc : WorkerLabels, job : Jobs \cup {<<>>},
                                    keys : SUBSET Keys]]
        /\ \A v \in Workers : worker'[v].pc # "idle" => worker'[v].job \in Jobs
    BY <1>25, WorkerEffect DEF DeleteObjects
  <2> QED
    BY <1>25, <2>1 DEF DeleteObjects
<1>26. ASSUME NEW w \in Workers, NEW u \in Uploads, DeleteFails(w, u)
      PROVE  TypeOK'
  <2>1. /\ worker' \in [Workers -> [pc : WorkerLabels, job : Jobs \cup {<<>>},
                                    keys : SUBSET Keys]]
        /\ \A v \in Workers : worker'[v].pc # "idle" => worker'[v].job \in Jobs
    BY <1>26, WorkerEffect DEF DeleteFails
  <2> QED
    BY <1>26, <2>1 DEF DeleteFails
<1>27. ASSUME NEW w \in Workers, ReadLease(w)
      PROVE  TypeOK'
  <2>1. /\ worker' \in [Workers -> [pc : WorkerLabels, job : Jobs \cup {<<>>},
                                    keys : SUBSET Keys]]
        /\ \A v \in Workers : worker'[v].pc # "idle" => worker'[v].job \in Jobs
    <3>1. CASE HoldsLease(w)
      <4>1. \E l \in WorkerLabels \ {"idle"} : WorkerTo(w, l)
        BY <1>27, <3>1 DEF ReadLease
      <4> QED
        BY <1>27, <4>1, WorkerEffect DEF ReadLease
    <3>2. CASE ~ HoldsLease(w)
      BY <1>27, <3>2, RestEffect DEF ReadLease
    <3> QED
      BY <3>1, <3>2
  <2> QED
    BY <1>27, <2>1 DEF ReadLease
<1>28. ASSUME NEW w \in Workers, NEW u \in Uploads, SetVerified(w, u)
      PROVE  TypeOK'
  <2>1. CASE WorkerTo(w, "fail") /\ UNCHANGED <<job, verified, lease>>
    <3>1. /\ worker' \in [Workers -> [pc : WorkerLabels, job : Jobs \cup {<<>>},
                                    keys : SUBSET Keys]]
        /\ \A v \in Workers : worker'[v].pc # "idle" => worker'[v].job \in Jobs
      BY <1>28, <2>1, WorkerEffect DEF SetVerified
    <3> QED
      BY <1>28, <2>1, <3>1 DEF SetVerified
  <2>2. CASE Rest(w)
    <3>1. /\ job' \in [Jobs -> {"NONE", "PENDING", "PROCESSING", "SUCCEEDED", "STALE",
                          "FAILED"}]
          /\ lease' \in [Jobs -> Workers \cup {NoWorker}]
          /\ verified' \in SUBSET Uploads
      <4>1. CASE u \in verified \/ job[UploadJob(u)] = "NONE"
        BY <1>28, <4>1 DEF SetVerified, UploadJob
      <4>2. CASE ~ (u \in verified \/ job[UploadJob(u)] = "NONE")
        <5>1. /\ job' = [job EXCEPT ![<<u, 0>>] = "PENDING"]
              /\ lease' = [lease EXCEPT ![<<u, 0>>] = NoWorker]
              /\ verified' = verified \cup {u}
          BY <1>28, <4>2 DEF SetVerified, UploadJob
        <5> QED
          BY <5>1
      <4> QED
        BY <4>1, <4>2
    <3>2. /\ worker' \in [Workers -> [pc : WorkerLabels, job : Jobs \cup {<<>>},
                                      keys : SUBSET Keys]]
          /\ \A v \in Workers : worker'[v].pc # "idle" => worker'[v].job \in Jobs
      BY <2>2, RestEffect
    <3> QED
      BY <1>28, <3>1, <3>2 DEF SetVerified
  <2> QED
    BY <1>28, <2>1, <2>2 DEF SetVerified
<1>29. ASSUME NEW w \in Workers, NEW u \in Uploads, SetSettled(w, u)
      PROVE  TypeOK'
  <2>1. CASE WorkerTo(w, "fail") /\ UNCHANGED <<intent, job, lease>>
    <3>1. /\ worker' \in [Workers -> [pc : WorkerLabels, job : Jobs \cup {<<>>},
                                    keys : SUBSET Keys]]
        /\ \A v \in Workers : worker'[v].pc # "idle" => worker'[v].job \in Jobs
      BY <1>29, <2>1, WorkerEffect DEF SetSettled
    <3> QED
      BY <1>29, <2>1, <3>1 DEF SetSettled
  <2>2. CASE Rest(w)
    <3>1. /\ job' \in [Jobs -> {"NONE", "PENDING", "PROCESSING", "SUCCEEDED", "STALE",
                          "FAILED"}]
          /\ lease' \in [Jobs -> Workers \cup {NoWorker}]
          /\ intent' \in [Uploads -> {"NONE", "PENDING", "GONE"} \cup Terminal]
      <4>1. CASE job[UploadJob(u)] = "NONE"
        BY <1>29, <4>1 DEF SetSettled, UploadJob
      <4>2. CASE ~ (job[UploadJob(u)] = "NONE")
        <5> DEFINE over == intent[u] \in {"EXPIRED", "REJECTED"}
        <5>1. /\ job' = [job EXCEPT ![<<u, 0>>] = IF over THEN "NONE" ELSE "SUCCEEDED"]
              /\ lease' = [lease EXCEPT ![<<u, 0>>] = NoWorker]
              /\ intent' = [intent EXCEPT ![u] = IF over THEN "GONE" ELSE intent[u]]
          BY <1>29, <4>2 DEF SetSettled, UploadJob
        <5> QED
          BY <5>1
      <4> QED
        BY <4>1, <4>2
    <3>2. /\ worker' \in [Workers -> [pc : WorkerLabels, job : Jobs \cup {<<>>},
                                      keys : SUBSET Keys]]
          /\ \A v \in Workers : worker'[v].pc # "idle" => worker'[v].job \in Jobs
      BY <2>2, RestEffect
    <3> QED
      BY <1>29, <3>1, <3>2 DEF SetSettled
  <2> QED
    BY <1>29, <2>1, <2>2 DEF SetSettled
<1>30. ASSUME NEW w \in Workers, NEW u \in Uploads, SetDeleted(w, u)
      PROVE  TypeOK'
  <2>1. CASE WorkerTo(w, "fail") /\ UNCHANGED <<deleted, job, lease>>
    <3>1. /\ worker' \in [Workers -> [pc : WorkerLabels, job : Jobs \cup {<<>>},
                                    keys : SUBSET Keys]]
        /\ \A v \in Workers : worker'[v].pc # "idle" => worker'[v].job \in Jobs
      BY <1>30, <2>1, WorkerEffect DEF SetDeleted
    <3> QED
      BY <1>30, <2>1, <3>1 DEF SetDeleted
  <2>2. CASE Rest(w)
    <3>1. /\ job' \in [Jobs -> {"NONE", "PENDING", "PROCESSING", "SUCCEEDED", "STALE",
                          "FAILED"}]
          /\ lease' \in [Jobs -> Workers \cup {NoWorker}]
          /\ deleted' \in SUBSET Uploads
      <4>1. CASE claim[u] = worker[w].job[2] /\ job[worker[w].job] = "PROCESSING"
                  /\ u \notin deleted
        <5>1. /\ job' = [job EXCEPT ![worker[w].job] = "SUCCEEDED"]
              /\ lease' = [lease EXCEPT ![worker[w].job] = NoWorker]
              /\ deleted' = deleted \cup {u}
          BY <1>30, <4>1 DEF SetDeleted
        <5> QED
          BY <1>30, <5>1 DEF SetDeleted
      <4>2. CASE ~ (claim[u] = worker[w].job[2] /\ job[worker[w].job] = "PROCESSING"
                  /\ u \notin deleted)
        BY <1>30, <4>2 DEF SetDeleted
      <4> QED
        BY <4>1, <4>2
    <3>2. /\ worker' \in [Workers -> [pc : WorkerLabels, job : Jobs \cup {<<>>},
                                      keys : SUBSET Keys]]
          /\ \A v \in Workers : worker'[v].pc # "idle" => worker'[v].job \in Jobs
      BY <2>2, RestEffect
    <3> QED
      BY <1>30, <3>1, <3>2 DEF SetDeleted
  <2> QED
    BY <1>30, <2>1, <2>2 DEF SetDeleted
<1>31. ASSUME NEW w \in Workers, SetFailed(w)
      PROVE  TypeOK'
  <2>1. /\ worker' \in [Workers -> [pc : WorkerLabels, job : Jobs \cup {<<>>},
                                    keys : SUBSET Keys]]
        /\ \A v \in Workers : worker'[v].pc # "idle" => worker'[v].job \in Jobs
    BY <1>31, RestEffect DEF SetFailed
  <2> HIDE DEF Jobs
  <2>2. /\ job' \in [Jobs -> {"NONE", "PENDING", "PROCESSING", "SUCCEEDED", "STALE", "FAILED"}]
        /\ lease' \in [Jobs -> Workers \cup {NoWorker}]
    BY <1>31 DEF SetFailed
  <2> QED
    BY <1>31, <2>1, <2>2 DEF SetFailed
<1>32. ASSUME NEW w \in Workers, CrashWorker(w)
      PROVE  TypeOK'
  BY <1>32 DEF CrashWorker, Rest
<1>33. ASSUME NEW j \in Jobs, RecoverLease(j)
      PROVE  TypeOK'
  BY <1>33 DEF RecoverLease
<1>34. CASE ClockTicks
  BY <1>34 DEF ClockTicks
<1>35. CASE UNCHANGED vars
  BY <1>35 DEF vars
<1> QED
  BY <1>1, <1>2, <1>3, <1>4, <1>5, <1>6, <1>7, <1>8, <1>9,
     <1>10, <1>11, <1>12, <1>13, <1>14, <1>15, <1>16, <1>17, <1>18,
     <1>19, <1>20, <1>21, <1>22, <1>23, <1>24, <1>25, <1>26, <1>27,
     <1>28, <1>29, <1>30, <1>31, <1>32, <1>33, <1>34, <1>35
  DEF Next, ConfirmStep, CompletionStep, WorkerStep, ClaimJob, OrderStep, StoreStep

\* Every variable of the retention protocol keeps its type.
THEOREM TypeCorrect == Spec => []TypeOK
<1>1. Init => TypeOK
  BY DEF Init, TypeOK, Keys, RequestLabels, WorkerLabels, Terminal, Resting,
         Unserved, Ticks, Jobs
<1>2. TypeOK /\ [Next]_vars => TypeOK'
  BY TypeStep
<1> QED
  BY <1>1, <1>2, PTL DEF Spec

-----------------------------------------------------------------------------
(* The bytes of an asset.  Who may still delete them is known in every       *)
(* state: the worker of an upload job only after the intent was fenced, a    *)
(* rejecting request only after the rejection, the worker of an asset job    *)
(* only under the claim, which freezes deadline and hold.                    *)

\* Intents no confirmation will ever turn into an asset.
Unconfirmable == {"REJECTED", "EXPIRED", "GONE"}
Promoting(c) == request[c].pc \in {"copy", "commit"}
AtWork(w) == worker[w].pc # "idle"
OnUpload(w) == AtWork(w) /\ worker[w].job[2] = 0
OnAsset(w) == AtWork(w) /\ worker[w].job[2] # 0

\* A cleanup job comes with its intent.
JobHasIntent ==
    \A u \in Uploads : job[<<u, 0>>] # "NONE" => intent[u] # "NONE"

\* An asset comes from a confirmed intent, an artifact from an asset.
AssetConfirmed ==
    \A u \in Uploads : /\ deadline[u] # 0 => intent[u] = "CONFIRMED"
                       /\ u \in derived => deadline[u] # 0

\* A claim freezes a deadline that has passed, without a hold.
ClaimFrozen ==
    \A u \in Uploads :
        claim[u] # 0 => /\ claim[u] = deadline[u]
                        /\ deadline[u] <= clock
                        /\ u \notin hold

\* Whoever cleans up the final object of an upload works on an intent that
\* will never be confirmed, however long ago the lease was lost.
UploadWorkersFenced ==
    \A w \in Workers :
        OnUpload(w) =>
            /\ "derived" \notin worker[w].keys
            /\ "final" \in worker[w].keys => intent[worker[w].job[1]] \in Unconfirmable

\* Whoever deletes an asset works under the claim of its own job.
AssetWorkersClaim ==
    \A w \in Workers : OnAsset(w) => claim[worker[w].job[1]] = worker[w].job[2]

\* A request discards only what it rejected, and promotes alone, under the
\* row lock of a pending intent.
RequestsFenced ==
    /\ \A c \in Requests : request[c].pc # "idle" => request[c].upload \in Uploads
    /\ \A c \in Requests :
          request[c].pc = "discard" => intent[request[c].upload] \in Unconfirmable
    /\ \A c \in Requests : Promoting(c) => intent[request[c].upload] = "PENDING"
    /\ \A c \in Requests :
          request[c].pc = "commit" => "final" \in objects[request[c].upload]
    /\ \A b, c \in Requests :
          Promoting(b) /\ Promoting(c) /\ request[b].upload = request[c].upload
             => b = c

\* The inductive invariant.
Safe ==
    /\ JobHasIntent /\ AssetConfirmed /\ ClaimFrozen
    /\ UploadWorkersFenced /\ AssetWorkersClaim /\ RequestsFenced
    /\ BytesRetained

\* A worker that goes on with its job, or rests, deletes no more than before.
LEMMA WorkersSettle ==
    ASSUME TypeOK, UploadWorkersFenced, AssetWorkersClaim, NEW w \in Workers,
           worker[w].pc # "idle",
           \A v \in Workers : v # w => worker'[v] = worker[v],
           \/ worker'[w].pc = "idle"
           \/ worker'[w].job = worker[w].job /\ worker'[w].keys = worker[w].keys,
           claim' = claim,
           \A u \in Uploads : intent[u] \in Unconfirmable
                                 => intent'[u] \in Unconfirmable
    PROVE  UploadWorkersFenced' /\ AssetWorkersClaim'
<1> USE DEF AtWork, OnUpload, OnAsset
<1>1. \A v \in Workers : AtWork(v)' => /\ AtWork(v)
                                       /\ worker'[v].job = worker[v].job
                                       /\ worker'[v].keys = worker[v].keys
  OBVIOUS
<1>2. \A v \in Workers : AtWork(v) => worker[v].job[1] \in Uploads
  BY DEF TypeOK, Jobs
<1>3. UploadWorkersFenced'
  BY <1>1, <1>2 DEF UploadWorkersFenced
<1>4. AssetWorkersClaim'
  BY <1>1 DEF AssetWorkersClaim
<1> QED
  BY <1>3, <1>4

\* A request that does not promote, or discard, any more disturbs nobody.
LEMMA RequestsSettle ==
    ASSUME TypeOK, RequestsFenced, NEW c \in Requests,
           \A b \in Requests : b # c => request'[b] = request[b],
           request'[c].pc \notin {"discard", "copy", "commit"},
           request'[c].pc # "idle" => request'[c].upload \in Uploads,
           intent' = intent,
           \A u \in Uploads : "final" \in objects[u] => \/ "final" \in objects'[u]
                                                        \/ intent[u] # "PENDING"
    PROVE  RequestsFenced'
BY DEF RequestsFenced, Promoting

\* Every step keeps the bytes of an asset safe.
LEMMA SafeStep ==
    ASSUME TypeOK, Safe, [Next]_vars
    PROVE  Safe'
<1> USE DEF Safe, intentVars, assetVars, jobVars, storeVars, timeVars
<1>1. ASSUME NEW u \in Uploads, CopyEnds(u)
      PROVE  Safe'
  <2>1. /\ objects' \in [Uploads -> SUBSET Keys]
        /\ \A v \in Uploads : objects[v] \subseteq objects'[v]
    <3>1. CASE objects' = objects
      BY <3>1 DEF TypeOK
    <3>2. CASE objects' = [objects EXCEPT ![u] = objects[u] \cup {"final"}]
      BY <3>2 DEF TypeOK, Keys
    <3> QED
      BY <1>1, <3>1, <3>2 DEF CopyEnds
  <2>2. BytesRetained' /\ RequestsFenced'
    BY <1>1, <2>1 DEF CopyEnds, BytesRetained, RequestsFenced, Promoting, Asset,
       TypeOK
  <2> QED
    BY <1>1, <2>2 DEF CopyEnds, JobHasIntent, AssetConfirmed, ClaimFrozen,
       UploadWorkersFenced, AssetWorkersClaim, AtWork, OnUpload, OnAsset
<1>2. ASSUME NEW c \in Requests, NEW u \in Uploads, ValidateUpload(c, u)
      PROVE  Safe'
  <2>1. RequestsFenced'
    <3>1. ASSUME NEW l \in {"lock", "reject"}, Step(c, l)
          PROVE  RequestsFenced'
      <4>1. l \in RequestLabels
        BY DEF RequestLabels
      <4> QED
        BY <1>2, <3>1, <4>1, StepEffect, RequestsSettle DEF ValidateUpload
    <3> QED
      BY <1>2, <3>1 DEF ValidateUpload
  <2> QED
    BY <1>2, <2>1 DEF ValidateUpload, JobHasIntent, AssetConfirmed, ClaimFrozen,
       BytesRetained, Asset, UploadWorkersFenced, AssetWorkersClaim, AtWork,
       OnUpload, OnAsset
<1>3. ASSUME NEW c \in Requests, NEW u \in Uploads, RejectPendingIntent(c, u)
      PROVE  Safe'
  <2>1. CASE ~ Rejectable(u)
    <3>1. Leave(c) /\ intent' = intent
      BY <1>3, <2>1 DEF RejectPendingIntent
    <3>2. RequestsFenced'
      BY <1>3, <3>1, LeaveEffect, RequestsSettle DEF RejectPendingIntent, Unserved
    <3> QED
      BY <1>3, <3>1, <3>2 DEF RejectPendingIntent, JobHasIntent, AssetConfirmed,
         ClaimFrozen, BytesRetained, Asset, UploadWorkersFenced,
         AssetWorkersClaim, AtWork, OnUpload, OnAsset
  <2>2. CASE Rejectable(u)
    <3>1. intent' = [intent EXCEPT ![u] = "REJECTED"] /\ Step(c, "discard")
      BY <1>3, <2>2 DEF RejectPendingIntent
    <3>2. /\ request'[c].pc = "discard" /\ request'[c].upload = u
          /\ \A b \in Requests : b # c => request'[b] = request[b]
      BY <1>3, <3>1, StepEffect DEF RejectPendingIntent, RequestLabels
    <3>3. \A v \in Uploads : /\ intent[v] \in Unconfirmable => intent'[v] \in Unconfirmable
                             /\ intent[v] = "CONFIRMED" => intent'[v] = "CONFIRMED"
                             /\ intent[v] # "NONE" => intent'[v] # "NONE"
      BY <2>2, <3>1 DEF Rejectable, Unconfirmable, TypeOK
    <3>4. RequestsFenced'
      <4>1. \A b \in Requests : Promoting(b)' => /\ b # c /\ Promoting(b)
                                                /\ request[b].upload # u
        BY <1>3, <3>2 DEF RejectPendingIntent, Promoting, Locked
      <4>2. \A b \in Requests : Promoting(b)' => intent'[request'[b].upload] = "PENDING"
        BY <3>1, <3>2, <4>1 DEF RequestsFenced, Promoting, TypeOK
      <4>3. \A b \in Requests :
               request'[b].pc = "discard" => intent'[request'[b].upload] \in Unconfirmable
        BY <3>1, <3>2, <3>3 DEF RequestsFenced, Unconfirmable, TypeOK
      <4>4. \A b \in Requests : /\ request'[b].pc # "idle" => request'[b].upload \in Uploads
                                /\ request'[b].pc = "commit" =>
                                      "final" \in objects'[request'[b].upload]
        BY <1>3, <3>2 DEF RejectPendingIntent, RequestsFenced
      <4> QED
        BY <3>2, <4>1, <4>2, <4>3, <4>4 DEF RequestsFenced
    <3>5. UploadWorkersFenced' /\ AssetWorkersClaim'
      BY <1>3, <3>3 DEF RejectPendingIntent, UploadWorkersFenced,
         AssetWorkersClaim, AtWork, OnUpload, OnAsset, TypeOK, Jobs
    <3> QED
      BY <1>3, <3>3, <3>4, <3>5 DEF RejectPendingIntent, JobHasIntent,
         AssetConfirmed,
         ClaimFrozen, BytesRetained, Asset
  <2> QED
    BY <2>1, <2>2
<1>4. ASSUME NEW c \in Requests, NEW u \in Uploads, DiscardRejected(c, u)
      PROVE  Safe'
  <2>1. intent[u] \in Unconfirmable
    BY <1>4 DEF DiscardRejected, RequestsFenced
  <2>2. \A v \in Uploads : v # u => objects'[v] = objects[v]
    BY <1>4 DEF DiscardRejected, TypeOK
  <2>3. RequestsFenced'
    BY <1>4, <2>1, <2>2, LeaveEffect, RequestsSettle DEF DiscardRejected,
       Unserved, Unconfirmable
  <2>4. BytesRetained'
    BY <1>4, <2>1, <2>2 DEF DiscardRejected, BytesRetained, Asset,
       AssetConfirmed, Unconfirmable
  <2> QED
    BY <1>4, <2>3, <2>4 DEF DiscardRejected, JobHasIntent, AssetConfirmed,
       ClaimFrozen,
       UploadWorkersFenced, AssetWorkersClaim, AtWork, OnUpload, OnAsset
<1>5. ASSUME NEW c \in Requests, NEW u \in Uploads, LockIntent(c, u)
      PROVE  Safe'
  <2>1. RequestsFenced'
    <3>1. CASE Leave(c)
      BY <1>5, <3>1, LeaveEffect, RequestsSettle DEF LockIntent, Unserved
    <3>2. CASE Step(c, "cleanup")
      BY <1>5, <3>2, StepEffect, RequestsSettle DEF LockIntent, RequestLabels
    <3>3. CASE Step(c, "copy") /\ intent[u] = "PENDING"
      <4>1. /\ request'[c].pc = "copy" /\ request'[c].upload = u
            /\ \A b \in Requests : b # c => request'[b] = request[b]
        BY <1>5, <3>3, StepEffect DEF LockIntent, RequestLabels
      <4> QED
        BY <1>5, <3>3, <4>1 DEF LockIntent, RequestsFenced, Promoting, Locked
    <3> QED
      BY <1>5, <3>1, <3>2, <3>3 DEF LockIntent
  <2> QED
    BY <1>5, <2>1 DEF LockIntent, JobHasIntent, AssetConfirmed, ClaimFrozen,
       BytesRetained, Asset, UploadWorkersFenced, AssetWorkersClaim, AtWork,
       OnUpload, OnAsset
<1>6. ASSUME NEW c \in Requests, NEW u \in Uploads, CopyObject(c, u)
      PROVE  Safe'
  <2>1. /\ request'[c].pc = "commit" /\ request'[c].upload = u
        /\ \A b \in Requests : b # c => request'[b] = request[b]
    BY <1>6, StepEffect DEF CopyObject, RequestLabels
  <2>2. "final" \in objects'[u] /\ \A v \in Uploads : objects[v] \subseteq objects'[v]
    BY <1>6 DEF CopyObject, TypeOK
  <2>3. RequestsFenced'
    BY <1>6, <2>1, <2>2 DEF CopyObject, RequestsFenced, Promoting
  <2>4. BytesRetained'
    BY <1>6, <2>2 DEF CopyObject, BytesRetained, Asset
  <2> QED
    BY <1>6, <2>3, <2>4 DEF CopyObject, JobHasIntent, AssetConfirmed, ClaimFrozen,
       UploadWorkersFenced, AssetWorkersClaim, AtWork, OnUpload, OnAsset
<1>7. ASSUME NEW c \in Requests, NEW u \in Uploads, CommitConfirm(c, u)
      PROVE  Safe'
  <2>1. PICK d \in Ticks : /\ deadline' = [deadline EXCEPT ![u] = d]
                           /\ job' = Enqueued(job, u, d)
    BY <1>7 DEF CommitConfirm
  <2>2. intent[u] = "PENDING" /\ "final" \in objects[u] /\ deadline[u] = 0
    BY <1>7 DEF CommitConfirm, RequestsFenced, Promoting, AssetConfirmed, TypeOK
  <2>3. /\ request'[c].pc = "cleanup" /\ request'[c].upload = u
        /\ \A b \in Requests : b # c => request'[b] = request[b]
    BY <1>7, StepEffect DEF CommitConfirm, RequestLabels
  <2>4. intent' = [intent EXCEPT ![u] = "CONFIRMED"]
    BY <1>7 DEF CommitConfirm
  <2>5. RequestsFenced'
    <3>1. \A b \in Requests : Promoting(b)' => /\ b # c /\ Promoting(b)
                                              /\ request[b].upload # u
      BY <1>7, <2>3 DEF CommitConfirm, RequestsFenced, Promoting
    <3>2. \A b \in Requests : Promoting(b)' => intent'[request'[b].upload] = "PENDING"
      BY <2>3, <2>4, <3>1 DEF RequestsFenced, Promoting, TypeOK
    <3>3. \A b \in Requests :
             request'[b].pc = "discard" => intent'[request'[b].upload] \in Unconfirmable
      BY <2>2, <2>3, <2>4 DEF RequestsFenced, Unconfirmable, TypeOK
    <3>4. \A b \in Requests : /\ request'[b].pc # "idle" => request'[b].upload \in Uploads
                              /\ request'[b].pc = "commit" =>
                                    "final" \in objects'[request'[b].upload]
      BY <1>7, <2>3 DEF CommitConfirm, RequestsFenced
    <3> QED
      BY <2>3, <3>1, <3>2, <3>3, <3>4 DEF RequestsFenced
  <2>6. JobHasIntent'
    BY <2>1, <2>4 DEF JobHasIntent, Enqueued, AssetJob, Ticks, TypeOK, Jobs
  <2>7. AssetConfirmed' /\ ClaimFrozen'
    BY <1>7, <2>1, <2>2, <2>4 DEF CommitConfirm, AssetConfirmed, ClaimFrozen,
       TypeOK, Ticks
  <2>8. UploadWorkersFenced' /\ AssetWorkersClaim'
    BY <1>7, <2>2, <2>4 DEF CommitConfirm, UploadWorkersFenced,
       AssetWorkersClaim, AtWork, OnUpload, OnAsset, Unconfirmable, TypeOK, Jobs
  <2>9. u \notin derived
    BY <2>2 DEF AssetConfirmed
  <2>10. BytesRetained'
    BY <1>7, <2>1, <2>2, <2>9 DEF CommitConfirm, BytesRetained, Asset, TypeOK
  <2> QED
    BY <2>5, <2>6, <2>7, <2>8, <2>10
<1>8. ASSUME NEW c \in Requests, NEW u \in Uploads, CleanupQuarantine(c, u)
      PROVE  Safe'
  <2>1. \A v \in Uploads : \A k \in {"final", "derived"} : k \in objects[v] => k \in objects'[v]
    BY <1>8 DEF CleanupQuarantine, TypeOK
  <2>2. RequestsFenced'
    BY <1>8, <2>1, LeaveEffect, RequestsSettle DEF CleanupQuarantine, Unserved
  <2>3. BytesRetained'
    BY <1>8, <2>1 DEF CleanupQuarantine, BytesRetained, Asset
  <2> QED
    BY <1>8, <2>2, <2>3 DEF CleanupQuarantine, JobHasIntent, AssetConfirmed,
       ClaimFrozen,
       UploadWorkersFenced, AssetWorkersClaim, AtWork, OnUpload, OnAsset
<1>9. ASSUME NEW c \in Requests, NEW u \in Uploads, AbandonConfirm(c, u)
      PROVE  Safe'
  <2>1. RequestsFenced'
    BY <1>9, LeaveEffect, RequestsSettle DEF AbandonConfirm, Unserved
  <2> QED
    BY <1>9, <2>1 DEF AbandonConfirm, JobHasIntent, AssetConfirmed, ClaimFrozen,
       BytesRetained, Asset, UploadWorkersFenced, AssetWorkersClaim, AtWork,
       OnUpload, OnAsset
<1>10. ASSUME NEW w \in Workers, NEW u \in Uploads, DeleteObjects(w, u)
      PROVE  Safe'
  <2>1. /\ worker'[w].job = worker[w].job /\ worker'[w].keys = worker[w].keys
        /\ \A v \in Workers : v # w => worker'[v] = worker[v]
    BY <1>10, WorkerEffect DEF DeleteObjects, WorkerLabels
  <2>2. UploadWorkersFenced' /\ AssetWorkersClaim'
    BY <1>10, <2>1, WorkersSettle DEF DeleteObjects
  <2>3. /\ \A v \in Uploads : v # u => objects'[v] = objects[v]
        /\ \A k \in objects[u] : k \notin worker[w].keys => k \in objects'[u]
    BY <1>10 DEF DeleteObjects, TypeOK
  <2>4. CASE worker[w].job[2] = 0
    <3>1. /\ "derived" \notin worker[w].keys
          /\ "final" \in worker[w].keys => intent[u] \in Unconfirmable
      BY <1>10, <2>4 DEF DeleteObjects, UploadWorkersFenced, OnUpload, AtWork
    <3>2. RequestsFenced'
      BY <1>10, <2>3, <3>1 DEF DeleteObjects, RequestsFenced, Promoting,
         Unconfirmable
    <3>3. BytesRetained'
      BY <1>10, <2>3, <3>1 DEF DeleteObjects, BytesRetained, Asset,
         AssetConfirmed, Unconfirmable
    <3> QED
      BY <1>10, <2>2, <3>2, <3>3 DEF DeleteObjects, JobHasIntent,
         AssetConfirmed, ClaimFrozen
  <2>5. CASE worker[w].job[2] # 0
    <3>1. claim[u] # 0 /\ intent[u] = "CONFIRMED"
      BY <1>10, <2>5 DEF DeleteObjects, AssetWorkersClaim, OnAsset, AtWork,
         ClaimFrozen,
         AssetConfirmed
    <3>2. RequestsFenced'
      BY <1>10, <2>3, <3>1 DEF DeleteObjects, RequestsFenced, Promoting
    <3>3. BytesRetained'
      BY <1>10, <2>3, <3>1 DEF DeleteObjects, BytesRetained, Asset
    <3> QED
      BY <1>10, <2>2, <3>2, <3>3 DEF DeleteObjects, JobHasIntent,
         AssetConfirmed, ClaimFrozen
  <2> QED
    BY <2>4, <2>5
<1>11. ASSUME NEW w \in Workers, NEW u \in Uploads, DeleteFails(w, u)
      PROVE  Safe'
  <2>1. /\ worker'[w].job = worker[w].job /\ worker'[w].keys = worker[w].keys
        /\ \A v \in Workers : v # w => worker'[v] = worker[v]
    BY <1>11, WorkerEffect DEF DeleteFails, WorkerLabels
  <2>2. UploadWorkersFenced' /\ AssetWorkersClaim'
    BY <1>11, <2>1, WorkersSettle DEF DeleteFails
  <2>3. /\ \A v \in Uploads : v # u => objects'[v] = objects[v]
        /\ \A k \in objects[u] : k \notin worker[w].keys => k \in objects'[u]
    BY <1>11 DEF DeleteFails, TypeOK
  <2>4. CASE worker[w].job[2] = 0
    <3>1. /\ "derived" \notin worker[w].keys
          /\ "final" \in worker[w].keys => intent[u] \in Unconfirmable
      BY <1>11, <2>4 DEF DeleteFails, UploadWorkersFenced, OnUpload, AtWork
    <3>2. RequestsFenced'
      BY <1>11, <2>3, <3>1 DEF DeleteFails, RequestsFenced, Promoting, Unconfirmable
    <3>3. BytesRetained'
      BY <1>11, <2>3, <3>1 DEF DeleteFails, BytesRetained, Asset,
         AssetConfirmed, Unconfirmable
    <3> QED
      BY <1>11, <2>2, <3>2, <3>3 DEF DeleteFails, JobHasIntent, AssetConfirmed,
         ClaimFrozen
  <2>5. CASE worker[w].job[2] # 0
    <3>1. claim[u] # 0 /\ intent[u] = "CONFIRMED"
      BY <1>11, <2>5 DEF DeleteFails, AssetWorkersClaim, OnAsset, AtWork,
         ClaimFrozen,
         AssetConfirmed
    <3>2. RequestsFenced'
      BY <1>11, <2>3, <3>1 DEF DeleteFails, RequestsFenced, Promoting
    <3>3. BytesRetained'
      BY <1>11, <2>3, <3>1 DEF DeleteFails, BytesRetained, Asset
    <3> QED
      BY <1>11, <2>2, <3>2, <3>3 DEF DeleteFails, JobHasIntent, AssetConfirmed,
         ClaimFrozen
  <2> QED
    BY <2>4, <2>5
<1>12. ASSUME NEW w \in Workers, ReadLease(w)
      PROVE  Safe'
  <2>1. /\ \A v \in Workers : v # w => worker'[v] = worker[v]
        /\ \/ worker'[w].pc = "idle"
           \/ worker'[w].job = worker[w].job /\ worker'[w].keys = worker[w].keys
    <3>1. CASE HoldsLease(w)
      <4>1. PICK l \in WorkerLabels \ {"idle"} : WorkerTo(w, l)
        BY <1>12, <3>1 DEF ReadLease, WorkerLabels
      <4> QED
        BY <1>12, <4>1, WorkerEffect DEF ReadLease
    <3>2. CASE ~ HoldsLease(w)
      BY <1>12, <3>2, RestEffect DEF ReadLease, Resting
    <3> QED
      BY <3>1, <3>2
  <2>2. UploadWorkersFenced' /\ AssetWorkersClaim'
    BY <1>12, <2>1, WorkersSettle DEF ReadLease
  <2> QED
    BY <1>12, <2>2 DEF ReadLease, JobHasIntent, AssetConfirmed, ClaimFrozen,
       BytesRetained, Asset, RequestsFenced, Promoting
<1>13. ASSUME NEW w \in Workers, NEW u \in Uploads, SetVerified(w, u)
      PROVE  Safe'
  <2>1. /\ \A v \in Workers : v # w => worker'[v] = worker[v]
        /\ \/ worker'[w].pc = "idle"
           \/ worker'[w].job = worker[w].job /\ worker'[w].keys = worker[w].keys
    BY <1>13, WorkerEffect, RestEffect DEF SetVerified, WorkerLabels, Resting
  <2>2. UploadWorkersFenced' /\ AssetWorkersClaim'
    BY <1>13, <2>1, WorkersSettle DEF SetVerified
  <2>3. \A v \in Uploads : job'[<<v, 0>>] # "NONE" => job[<<v, 0>>] # "NONE"
    <3>1. CASE job' = job
      BY <3>1
    <3>2. CASE /\ job[<<u, 0>>] # "NONE"
               /\ \A j \in Jobs : j # <<u, 0>> => job'[j] = job[j]
      BY <3>2 DEF Jobs
    <3> QED
      BY <1>13, <3>1, <3>2 DEF SetVerified, UploadJob, TypeOK
  <2>4. JobHasIntent'
    BY <1>13, <2>3 DEF SetVerified, JobHasIntent
  <2> QED
    BY <1>13, <2>2, <2>4 DEF SetVerified, AssetConfirmed, ClaimFrozen,
       BytesRetained, Asset, RequestsFenced, Promoting
<1>14. ASSUME NEW w \in Workers, NEW u \in Uploads, SetSettled(w, u)
      PROVE  Safe'
  <2>1. /\ \A v \in Workers : v # w => worker'[v] = worker[v]
        /\ \/ worker'[w].pc = "idle"
           \/ worker'[w].job = worker[w].job /\ worker'[w].keys = worker[w].keys
    BY <1>14, WorkerEffect, RestEffect DEF SetSettled, WorkerLabels, Resting
  <2>2. \A v \in Uploads : \/ intent'[v] = intent[v]
                           \/ /\ v = u /\ intent'[v] = "GONE"
                              /\ intent[v] \in {"EXPIRED", "REJECTED"}
    BY <1>14 DEF SetSettled, TypeOK
  <2>3. UploadWorkersFenced' /\ AssetWorkersClaim'
    BY <1>14, <2>1, <2>2, WorkersSettle DEF SetSettled, Unconfirmable
  <2>4. \A v \in Uploads : job'[<<v, 0>>] # "NONE" => job[<<v, 0>>] # "NONE"
    <3>1. CASE job' = job
      BY <3>1
    <3>2. CASE /\ job[<<u, 0>>] # "NONE"
               /\ \A j \in Jobs : j # <<u, 0>> => job'[j] = job[j]
      BY <3>2 DEF Jobs
    <3> QED
      BY <1>14, <3>1, <3>2 DEF SetSettled, UploadJob, TypeOK
  <2>5. JobHasIntent'
    BY <2>2, <2>4 DEF JobHasIntent
  <2>6. RequestsFenced'
    BY <1>14, <2>2 DEF SetSettled, RequestsFenced, Promoting, Unconfirmable
  <2>7. AssetConfirmed' /\ ClaimFrozen' /\ BytesRetained'
    BY <1>14, <2>2 DEF SetSettled, AssetConfirmed, ClaimFrozen, BytesRetained, Asset
  <2> QED
    BY <2>3, <2>5, <2>6, <2>7
<1>15. ASSUME NEW w \in Workers, NEW u \in Uploads, SetDeleted(w, u)
      PROVE  Safe'
  <2>1. /\ \A v \in Workers : v # w => worker'[v] = worker[v]
        /\ \/ worker'[w].pc = "idle"
           \/ worker'[w].job = worker[w].job /\ worker'[w].keys = worker[w].keys
    BY <1>15, WorkerEffect, RestEffect DEF SetDeleted, WorkerLabels, Resting
  <2>2. UploadWorkersFenced' /\ AssetWorkersClaim'
    BY <1>15, <2>1, WorkersSettle DEF SetDeleted
  <2>3. \A v \in Uploads : job'[<<v, 0>>] # "NONE" => job[<<v, 0>>] # "NONE"
    BY <1>15 DEF SetDeleted, TypeOK, Jobs
  <2>4. JobHasIntent'
    BY <1>15, <2>3 DEF SetDeleted, JobHasIntent
  <2> QED
    BY <1>15, <2>2, <2>4 DEF SetDeleted, AssetConfirmed, ClaimFrozen,
       BytesRetained, Asset, RequestsFenced, Promoting
<1>16. ASSUME NEW w \in Workers, SetFailed(w)
      PROVE  Safe'
  <2>1. /\ \A v \in Workers : v # w => worker'[v] = worker[v]
        /\ \/ worker'[w].pc = "idle"
           \/ worker'[w].job = worker[w].job /\ worker'[w].keys = worker[w].keys
    BY <1>16, RestEffect DEF SetFailed, Resting
  <2>2. UploadWorkersFenced' /\ AssetWorkersClaim'
    BY <1>16, <2>1, WorkersSettle DEF SetFailed
  <2>3. \A v \in Uploads : job'[<<v, 0>>] # "NONE" => job[<<v, 0>>] # "NONE"
    BY <1>16 DEF SetFailed, TypeOK, Jobs
  <2>4. JobHasIntent'
    BY <1>16, <2>3 DEF SetFailed, JobHasIntent
  <2> QED
    BY <1>16, <2>2, <2>4 DEF SetFailed, AssetConfirmed, ClaimFrozen,
       BytesRetained, Asset, RequestsFenced, Promoting
<1>17. ASSUME NEW w \in Workers, CrashWorker(w)
      PROVE  Safe'
  <2>1. /\ \A v \in Workers : v # w => worker'[v] = worker[v]
        /\ \/ worker'[w].pc = "idle"
           \/ worker'[w].job = worker[w].job /\ worker'[w].keys = worker[w].keys
    BY <1>17, RestEffect DEF CrashWorker, Resting
  <2>2. UploadWorkersFenced' /\ AssetWorkersClaim'
    BY <1>17, <2>1, WorkersSettle DEF CrashWorker
  <2> QED
    BY <1>17, <2>2 DEF CrashWorker, JobHasIntent, AssetConfirmed, ClaimFrozen,
       BytesRetained, Asset, RequestsFenced, Promoting
<1> USE DEF TypeOK, Safe, JobHasIntent, AssetConfirmed, ClaimFrozen,
            UploadWorkersFenced, AssetWorkersClaim, RequestsFenced, BytesRetained,
            Unconfirmable, Promoting, AtWork, OnUpload, OnAsset, Asset, Locked,
            Due, intentVars, assetVars, jobVars, storeVars, timeVars, Keys,
            RequestLabels, WorkerLabels, Terminal, Resting, Unserved, Ticks, Jobs
<1>18. ASSUME NEW u \in Uploads, InitiateUpload(u)
      PROVE  Safe'
  BY <1>18 DEF InitiateUpload, UploadJob
<1>19. ASSUME NEW u \in Uploads, ExpirePendingIntent(u)
      PROVE  Safe'
  BY <1>19 DEF ExpirePendingIntent
<1>20. ASSUME NEW u \in Uploads, BeginPut(u)
      PROVE  Safe'
  BY <1>20 DEF BeginPut
<1>21. ASSUME NEW u \in Uploads, IntentExpires(u)
      PROVE  Safe'
  BY <1>21 DEF IntentExpires
<1>22. ASSUME NEW u \in Uploads, PutLands(u)
      PROVE  Safe'
  BY <1>22 DEF PutLands
<1>23. ASSUME NEW u \in Uploads, SweepExpiredQuarantine(u)
      PROVE  Safe'
  BY <1>23 DEF SweepExpiredQuarantine
<1>24. ASSUME NEW u \in Uploads, RecordArtifact(u)
      PROVE  Safe'
  BY <1>24 DEF RecordArtifact, Available
<1>25. ASSUME NEW u \in Uploads, HoldAsset(u)
      PROVE  Safe'
  BY <1>25 DEF HoldAsset, Changeable
<1>26. ASSUME NEW u \in Uploads, EndClaim(u)
      PROVE  Safe'
  BY <1>26 DEF EndClaim, ReleaseAsset, Enqueued, AssetJob, Changeable
<1>27. ASSUME NEW u \in Uploads, NEW d \in Ticks, ExtendDeadline(u, d)
      PROVE  Safe'
  BY <1>27 DEF ExtendDeadline, Enqueued, AssetJob, Changeable, Available
<1>28. ASSUME NEW u \in Uploads, NEW d \in Ticks, EndOrder(u, d)
      PROVE  Safe'
  BY <1>28 DEF EndOrder, ReleaseAsset, Enqueued, AssetJob, Changeable
<1>29. ASSUME NEW c \in Requests, NEW u \in Uploads, BeginConfirm(c, u)
      PROVE  Safe'
  BY <1>29 DEF BeginConfirm
<1>30. ASSUME NEW w \in Workers, NEW u \in Uploads, ClaimUploadIntent(w, u)
      PROVE  Safe'
  BY <1>30 DEF ClaimUploadIntent, ClaimableJob, FencedIntent, Lease, UploadJob
<1>31. ASSUME NEW w \in Workers, NEW u \in Uploads, NEW d \in Ticks, ClaimAsset(w, u, d)
      PROVE  Safe'
  BY <1>31 DEF ClaimAsset, ClaimableJob, Lease, AssetJob, Eligible
<1>32. ASSUME NEW w \in Workers, NEW u \in Uploads, NEW d \in Ticks, SkipAsset(w, u, d)
      PROVE  Safe'
  BY <1>32 DEF SkipAsset, ClaimableJob, AssetJob, Eligible
<1>33. ASSUME NEW j \in Jobs, RecoverLease(j)
      PROVE  Safe'
  BY <1>33 DEF RecoverLease
<1>34. CASE ClockTicks
  BY <1>34 DEF ClockTicks
<1>35. CASE UNCHANGED vars
  BY <1>35 DEF vars
<1> QED
  BY <1>1, <1>2, <1>3, <1>4, <1>5, <1>6, <1>7, <1>8, <1>9,
     <1>10, <1>11, <1>12, <1>13, <1>14, <1>15, <1>16, <1>17, <1>18,
     <1>19, <1>20, <1>21, <1>22, <1>23, <1>24, <1>25, <1>26, <1>27,
     <1>28, <1>29, <1>30, <1>31, <1>32, <1>33, <1>34, <1>35
  DEF Next, ConfirmStep, CompletionStep, WorkerStep, ClaimJob, OrderStep, StoreStep

-----------------------------------------------------------------------------
\* The bytes of an asset, and its recorded artifacts, are in the store until
\* the asset is claimed for deletion, and whoever may still delete them does so
\* for the asset's own deadline, which has passed and is not held: whatever the
\* requests, the workers, and the leases they have lost.
THEOREM BytesSafe == Spec => [](BytesRetained /\ DeletionLicensed)
<1>1. Init => TypeOK /\ Safe
  BY DEF Init, TypeOK, Keys, RequestLabels, WorkerLabels, Terminal, Resting,
         Unserved, Ticks, Jobs, Safe, JobHasIntent, AssetConfirmed, ClaimFrozen,
         UploadWorkersFenced, AssetWorkersClaim, RequestsFenced, BytesRetained,
         Promoting, AtWork, OnUpload, OnAsset, Asset
<1>2. TypeOK /\ Safe /\ [Next]_vars => TypeOK' /\ Safe'
  BY TypeStep, SafeStep
<1>3. TypeOK /\ Safe => BytesRetained /\ DeletionLicensed
  <2>1. ASSUME TypeOK, ClaimFrozen, AssetWorkersClaim
        PROVE  DeletionLicensed
    <3> SUFFICES ASSUME NEW w \in Workers,
                        worker[w].pc = "delete", worker[w].job[2] # 0
                 PROVE  LET u == worker[w].job[1] IN
                        /\ Asset(u) /\ u \notin hold
                        /\ deadline[u] = worker[w].job[2] /\ Due(u)
      BY DEF DeletionLicensed
    <3>1. claim[worker[w].job[1]] = worker[w].job[2]
      BY <2>1 DEF AssetWorkersClaim, OnAsset, AtWork
    <3>2. worker[w].job[1] \in Uploads
      BY <2>1 DEF TypeOK, Jobs
    <3> QED
      BY <2>1, <3>1, <3>2 DEF ClaimFrozen, Asset, Due
  <2> QED
    BY <2>1 DEF Safe
<1> QED
  BY <1>1, <1>2, <1>3, PTL DEF Spec

-----------------------------------------------------------------------------
(* What a deletion leaves behind.  The bytes of a claimed asset only shrink: *)
(* nothing is derived from a source that is due, and no copy of it is under  *)
(* way any more.  The second pass over an upload finds no copy under way     *)
(* either, and an intent that was fenced before the first pass.              *)

\* Every stored artifact is recorded on its asset.
ArtifactsRecorded == \A u \in Uploads : "derived" \in objects[u] => u \in derived

\* No copy outlives the deadline of the asset it was made for.
DueNotFlying ==
    \A u \in Uploads : deadline[u] # 0 /\ deadline[u] <= clock => u \notin flying

\* A deleted asset stays claimed, and nothing of it is left.
DeletedEmpty ==
    \A u \in deleted : claim[u] # 0 /\ objects[u] \subseteq {"quarantine"}

\* Nothing is left of an upload whose intent is gone.
GoneEmpty ==
    \A u \in Uploads : intent[u] = "GONE" => "final" \notin objects[u] /\ u \notin flying

\* A worker of an asset deletes all of it, and records a deletion only then.
AssetWorkerThorough(w) ==
    OnAsset(w) =>
        /\ worker[w].pc \notin {"setVerified", "setSettled"}
        /\ "final" \in worker[w].keys
        /\ worker[w].job[1] \in derived => "derived" \in worker[w].keys
        /\ worker[w].pc \in {"complete", "setDeleted"} =>
              objects[worker[w].job[1]] \subseteq {"quarantine"}

\* A worker of an upload deletes all of it unless it was confirmed.  If its
\* lease is of the second pass, no copy is under way.
SecondPass(w) ==
    worker[w].job[1] \in verified /\ (HoldsLease(w) \/ worker[w].pc = "setSettled")

UploadWorkerThorough(w) ==
    OnUpload(w) =>
        /\ worker[w].pc # "setDeleted"
        /\ intent[worker[w].job[1]] \notin {"NONE", "PENDING"}
        /\ intent[worker[w].job[1]] \in Unconfirmable => "final" \in worker[w].keys
        /\ worker[w].pc = "setSettled" => worker[w].job[1] \in verified
        /\ SecondPass(w) =>
              /\ worker[w].job[1] \notin flying
              /\ worker[w].pc \in {"complete", "setSettled"} =>
                    \/ intent[worker[w].job[1]] = "CONFIRMED"
                    \/ "final" \notin objects[worker[w].job[1]]

WorkersThorough ==
    \A w \in Workers : AssetWorkerThorough(w) /\ UploadWorkerThorough(w)

\* The inductive invariant, next to Safe.
Clean ==
    /\ ArtifactsRecorded /\ DueNotFlying /\ DeletedEmpty /\ GoneEmpty
    /\ WorkersThorough

\* What one step may do to the objects of an upload.  A copy starts only for a
\* pending intent, an artifact only without a claim.
ObjectsSettle(u) ==
    /\ u \in flying' => u \in flying \/ intent[u] = "PENDING"
    /\ "final" \in objects'[u] => \/ "final" \in objects[u] \/ u \in flying
                                  \/ intent[u] = "PENDING"
    /\ "derived" \in objects'[u] => \/ "derived" \in objects[u]
                                    \/ claim[u] = 0 /\ u \in derived'
    /\ u \in derived => u \in derived'
    /\ claim[u] # 0 => claim'[u] = claim[u] /\ (u \in derived' => u \in derived)
    /\ intent[u] \in Unconfirmable => intent'[u] \in Unconfirmable
    /\ intent[u] = "CONFIRMED" => intent'[u] = "CONFIRMED"
    /\ deadline'[u] # 0 /\ deadline'[u] <= clock' => u \notin flying'

\* Every step settles the objects of every upload.
LEMMA ObjectsSettleStep ==
    ASSUME TypeOK, Safe, DueNotFlying, [Next]_vars, NEW v \in Uploads
    PROVE  ObjectsSettle(v)
<1> USE DEF ObjectsSettle, Unconfirmable, TypeOK, DueNotFlying,
            intentVars, assetVars, jobVars, storeVars, timeVars
<1>0. /\ deadline[v] # 0 => intent[v] = "CONFIRMED"
      /\ claim[v] # 0 => deadline[v] # 0 /\ deadline[v] <= clock /\ v \notin hold
  BY DEF Safe, AssetConfirmed, ClaimFrozen
<1>1. ASSUME NEW u \in Uploads,
             \/ BeginPut(u) \/ IntentExpires(u) \/ PutLands(u)
             \/ CopyEnds(u) \/ SweepExpiredQuarantine(u)
      PROVE  ObjectsSettle(v)
  <2>1. CASE BeginPut(u) \/ IntentExpires(u)
    BY <1>0, <2>1 DEF BeginPut, IntentExpires
  <2>2. CASE PutLands(u)
    BY <1>0, <2>2 DEF PutLands
  <2>3. CASE CopyEnds(u)
    <3>1. /\ "final" \in objects'[v] => "final" \in objects[v] \/ v \in flying
          /\ "derived" \in objects'[v] => "derived" \in objects[v]
      <4>1. CASE objects' = objects
        BY <4>1
      <4>2. CASE objects' = [objects EXCEPT ![u] = objects[u] \cup {"final"}]
        BY <2>3, <4>2 DEF CopyEnds
      <4> QED
        BY <2>3, <4>1, <4>2 DEF CopyEnds
    <3> QED
      BY <1>0, <2>3, <3>1 DEF CopyEnds
  <2>4. CASE SweepExpiredQuarantine(u)
    BY <1>0, <2>4 DEF SweepExpiredQuarantine
  <2> QED
    BY <1>1, <2>1, <2>2, <2>3, <2>4
<1>2. ASSUME NEW u \in Uploads, InitiateUpload(u) \/ ExpirePendingIntent(u)
      PROVE  ObjectsSettle(v)
  BY <1>0, <1>2 DEF InitiateUpload, ExpirePendingIntent
<1>3. ASSUME NEW u \in Uploads, RecordArtifact(u) \/ HoldAsset(u)
      PROVE  ObjectsSettle(v)
  BY <1>0, <1>3 DEF RecordArtifact, HoldAsset, Changeable, Available, Due, Asset
<1>4. ASSUME NEW u \in Uploads, EndClaim(u)
      PROVE  ObjectsSettle(v)
  <2>1. UNCHANGED <<intent, flying, objects, derived, claim, clock>>
    BY <1>4 DEF EndClaim, ReleaseAsset
  <2>2. deadline'[v] # 0 /\ deadline'[v] <= clock => deadline[v] # 0 /\ deadline[v] <= clock
    <3>1. deadline' = deadline \/ (deadline' = [deadline EXCEPT ![u] = clock] /\ clock > deadline[u] /\ deadline[u] # 0)
      BY <1>4 DEF EndClaim, ReleaseAsset, Changeable, Asset
    <3>2. deadline \in [Uploads -> Int] /\ clock \in Int
      OBVIOUS
    <3> HIDE DEF TypeOK
    <3> QED
      BY <3>1, <3>2
  <2> QED
    BY <1>0, <2>1, <2>2
<1>5. ASSUME NEW u \in Uploads, NEW d \in Ticks, ExtendDeadline(u, d) \/ EndOrder(u, d)
      PROVE  ObjectsSettle(v)
  <2>1. UNCHANGED <<intent, flying, objects, derived, claim, clock>>
    BY <1>5 DEF ExtendDeadline, EndOrder, ReleaseAsset
  <2>2. deadline'[v] # 0 /\ deadline'[v] <= clock => deadline[v] # 0 /\ deadline[v] <= clock
    <3>1. deadline' = [deadline EXCEPT ![u] = d] /\ d > clock
      BY <1>5 DEF ExtendDeadline, EndOrder, ReleaseAsset
    <3>2. deadline \in [Uploads -> Int] /\ clock \in Int /\ d \in Int
      BY DEF Ticks
    <3> HIDE DEF TypeOK
    <3> QED
      BY <3>1, <3>2
  <2> QED
    BY <1>0, <2>1, <2>2
<1>6. ASSUME NEW c \in Requests, NEW u \in Uploads,
             BeginConfirm(c, u) \/ ValidateUpload(c, u) \/ LockIntent(c, u)
             \/ CleanupQuarantine(c, u) \/ DiscardRejected(c, u)
      PROVE  ObjectsSettle(v)
  BY <1>0, <1>6 DEF BeginConfirm, ValidateUpload, LockIntent, CleanupQuarantine,
                    DiscardRejected
<1>7. ASSUME NEW c \in Requests, NEW u \in Uploads, RejectPendingIntent(c, u)
      PROVE  ObjectsSettle(v)
  BY <1>0, <1>7 DEF RejectPendingIntent, Rejectable
<1>8. ASSUME NEW c \in Requests, NEW u \in Uploads,
             CopyObject(c, u) \/ CommitConfirm(c, u) \/ AbandonConfirm(c, u)
      PROVE  ObjectsSettle(v)
  <2>1. request[c].pc \in {"copy", "commit"} => intent[u] = "PENDING"
    BY <1>8 DEF Safe, RequestsFenced, Promoting, CopyObject, CommitConfirm,
                AbandonConfirm
  <2>2. CASE CopyObject(c, u)
    BY <1>0, <2>1, <2>2 DEF CopyObject
  <2>3. CASE CommitConfirm(c, u)
    BY <1>0, <2>1, <2>3 DEF CommitConfirm, Ticks
  <2>4. CASE AbandonConfirm(c, u)
    BY <1>0, <2>1, <2>4 DEF AbandonConfirm
  <2> QED
    BY <1>8, <2>2, <2>3, <2>4
<1>9. ASSUME NEW w \in Workers, NEW u \in Uploads,
             ClaimUploadIntent(w, u) \/ DeleteObjects(w, u) \/ DeleteFails(w, u)
             \/ SetVerified(w, u) \/ SetSettled(w, u) \/ SetDeleted(w, u)
      PROVE  ObjectsSettle(v)
  BY <1>0, <1>9 DEF ClaimUploadIntent, FencedIntent, DeleteObjects, DeleteFails,
                    SetVerified, SetSettled, SetDeleted
<1>10. ASSUME NEW w \in Workers, NEW u \in Uploads, NEW d \in Ticks,
              ClaimAsset(w, u, d) \/ SkipAsset(w, u, d)
      PROVE  ObjectsSettle(v)
  BY <1>0, <1>10 DEF ClaimAsset, SkipAsset, Eligible, Ticks
<1>11. ASSUME NEW w \in Workers, ReadLease(w) \/ SetFailed(w) \/ CrashWorker(w)
      PROVE  ObjectsSettle(v)
  BY <1>0, <1>11 DEF ReadLease, SetFailed, CrashWorker
<1>12. ASSUME NEW j \in Jobs, RecoverLease(j)
      PROVE  ObjectsSettle(v)
  BY <1>0, <1>12 DEF RecoverLease
<1>13. CASE ClockTicks
  BY <1>0, <1>13 DEF ClockTicks
<1>14. CASE UNCHANGED vars
  BY <1>0, <1>14 DEF vars
<1> QED
  BY <1>1, <1>2, <1>3, <1>4, <1>5, <1>6, <1>7, <1>8, <1>9, <1>10, <1>11, <1>12,
     <1>13, <1>14
  DEF Next, ConfirmStep, CompletionStep, WorkerStep, ClaimJob, OrderStep, StoreStep

\* A lease is only ever taken by a worker at rest, and the marker of the first
\* pass is set by dropping the lease.
LeasesSettle ==
    /\ \A j \in Jobs, w \in Workers :
          job'[j] = "PROCESSING" /\ lease'[j] = w =>
             (job[j] = "PROCESSING" /\ lease[j] = w) \/ worker[w].pc = "idle"
    /\ verified \subseteq verified'
    /\ \A u \in verified' : u \notin verified => lease'[<<u, 0>>] = NoWorker

\* Every step settles the leases.
LEMMA LeasesSettleStep ==
    ASSUME TypeOK, [Next]_vars
    PROVE  LeasesSettle
<1> USE DEF LeasesSettle, TypeOK, intentVars, assetVars, jobVars, storeVars, timeVars
<1>1. ASSUME UNCHANGED jobVars PROVE LeasesSettle
  BY <1>1
<1>2. ASSUME NEW u \in Uploads, InitiateUpload(u)
      PROVE  LeasesSettle
  BY <1>2 DEF InitiateUpload, UploadJob, Jobs
<1>3. ASSUME NEW u \in Uploads, NEW d \in 0..MaxDeadline, job' = Enqueued(job, u, d),
             UNCHANGED <<verified, lease, worker>>
      PROVE  LeasesSettle
  BY <1>3 DEF Enqueued, AssetJob, Jobs
<1>4. ASSUME NEW w \in Workers, NEW j \in Jobs, NEW keys, worker[w].pc = "idle",
             Lease(w, j, keys), verified' = verified
      PROVE  LeasesSettle
  BY <1>4 DEF Lease
<1>5. ASSUME NEW j \in Jobs, NEW s, s # "PROCESSING", job' = [job EXCEPT ![j] = s],
             lease' = lease \/ lease' = [lease EXCEPT ![j] = NoWorker],
             verified' = verified
      PROVE  LeasesSettle
  BY <1>5
<1>6. ASSUME NEW w \in Workers, NEW u \in Uploads, SetVerified(w, u)
      PROVE  LeasesSettle
  <2>1. CASE UNCHANGED <<job, verified, lease>>
    BY <2>1
  <2>2. CASE /\ job' = [job EXCEPT ![<<u, 0>>] = "PENDING"]
             /\ verified' = verified \cup {u}
             /\ lease' = [lease EXCEPT ![<<u, 0>>] = NoWorker]
    <3>1. <<u, 0>> \in Jobs
      BY DEF Jobs
    <3>2. lease'[<<u, 0>>] = NoWorker /\ job'[<<u, 0>>] = "PENDING"
      BY <2>2, <3>1
    <3>3. \A j \in Jobs : j # <<u, 0>> => job'[j] = job[j] /\ lease'[j] = lease[j]
      BY <2>2, <3>1
    <3> QED
      BY <2>2, <3>2, <3>3
  <2> QED
    BY <1>6, <2>1, <2>2 DEF SetVerified, UploadJob
<1>7. ASSUME NEW w \in Workers, CrashWorker(w)
      PROVE  LeasesSettle
  BY <1>7 DEF CrashWorker
<1>8. ASSUME NEW w \in Workers, NEW u \in Uploads,
             SetSettled(w, u) \/ SetDeleted(w, u) \/ DeleteObjects(w, u) \/ DeleteFails(w, u)
      PROVE  LeasesSettle
  <2>1. UNCHANGED <<job, lease, verified>> => LeasesSettle
    OBVIOUS
  <2>2. <<u, 0>> \in Jobs /\ (worker[w].pc # "idle" => worker[w].job \in Jobs)
    BY DEF Jobs
  <2>3. CASE SetSettled(w, u)
    BY <1>5, <2>1, <2>2, <2>3 DEF SetSettled, UploadJob
  <2>4. CASE SetDeleted(w, u)
    BY <1>5, <2>1, <2>2, <2>4 DEF SetDeleted
  <2>5. CASE DeleteObjects(w, u) \/ DeleteFails(w, u)
    BY <2>1, <2>5 DEF DeleteObjects, DeleteFails
  <2> QED
    BY <1>8, <2>3, <2>4, <2>5
<1>9. ASSUME NEW w \in Workers, ReadLease(w) \/ SetFailed(w)
      PROVE  LeasesSettle
  <2>1. UNCHANGED <<job, lease, verified>> => LeasesSettle
    OBVIOUS
  <2> QED
    BY <1>5, <1>9, <2>1 DEF ReadLease, SetFailed
<1>10. ASSUME NEW j \in Jobs, RecoverLease(j)
      PROVE  LeasesSettle
  BY <1>5, <1>10 DEF RecoverLease
<1>11. ASSUME NEW w \in Workers, NEW u \in Uploads, NEW d \in Ticks,
              ClaimAsset(w, u, d) \/ SkipAsset(w, u, d)
      PROVE  LeasesSettle
  <2>1. AssetJob(u, d) \in Jobs
    BY DEF AssetJob, Jobs, Ticks
  <2> QED
    BY <1>4, <1>5, <1>11, <2>1 DEF ClaimAsset, SkipAsset
<1>12. ASSUME NEW w \in Workers, NEW u \in Uploads, ClaimUploadIntent(w, u)
      PROVE  LeasesSettle
  <2>1. UploadJob(u) \in Jobs
    BY DEF UploadJob, Jobs
  <2> QED
    BY <1>4, <1>12, <2>1 DEF ClaimUploadIntent
<1>13. ASSUME NEW u \in Uploads, OrderStep(u)
      PROVE  LeasesSettle
  BY <1>1, <1>3, <1>13 DEF OrderStep, RecordArtifact, HoldAsset, EndClaim,
      ReleaseAsset, ExtendDeadline, EndOrder, Ticks
<1>14. ASSUME NEW c \in Requests, NEW u \in Uploads,
              BeginConfirm(c, u) \/ ConfirmStep(c, u) \/ AbandonConfirm(c, u)
      PROVE  LeasesSettle
  BY <1>1, <1>3, <1>14 DEF BeginConfirm, ConfirmStep, AbandonConfirm,
      ValidateUpload, RejectPendingIntent, DiscardRejected, LockIntent, CopyObject,
      CommitConfirm, CleanupQuarantine, Ticks
<1>15. ASSUME NEW u \in Uploads,
              \/ ExpirePendingIntent(u) \/ BeginPut(u) \/ IntentExpires(u)
              \/ StoreStep(u)
      PROVE  LeasesSettle
  BY <1>1, <1>15 DEF ExpirePendingIntent, BeginPut, IntentExpires, StoreStep,
      PutLands, CopyEnds, SweepExpiredQuarantine
<1>16. CASE ClockTicks \/ UNCHANGED vars
  BY <1>1, <1>16 DEF ClockTicks, vars
<1> QED
  BY <1>2, <1>6, <1>7, <1>8, <1>9, <1>10, <1>11, <1>12, <1>13, <1>14, <1>15, <1>16
  DEF Next, CompletionStep, WorkerStep, ClaimJob

\* What one step may do to a worker: nothing, it comes to rest, it goes on to
\* record a failure or the first pass, or it takes one of the steps at which a
\* deletion is begun, done or found to be recordable.
WorkerMove(v) ==
    \/ worker'[v] = worker[v]
    \/ worker'[v].pc = "idle"
    \/ /\ AtWork(v)
       /\ worker'[v].job = worker[v].job /\ worker'[v].keys = worker[v].keys
       /\ \/ worker'[v].pc \in {"fail", "setFailed"}
          \/ worker'[v].pc = "setVerified" /\ OnUpload(v)
    \/ \E u \in Uploads : \/ ClaimUploadIntent(v, u) \/ DeleteObjects(v, u)
                          \/ \E d \in Ticks : ClaimAsset(v, u, d)
    \/ /\ worker[v].pc = "complete" /\ HoldsLease(v)
       /\ worker'[v].job = worker[v].job /\ worker'[v].keys = worker[v].keys
       /\ \/ worker'[v].pc = "setDeleted" /\ OnAsset(v)
          \/ /\ worker'[v].pc = "setSettled" /\ OnUpload(v)
             /\ worker[v].job[1] \in verified
       /\ UNCHANGED <<job, lease, verified>>

\* Every step moves every worker that way.
LEMMA WorkerMoveStep ==
    ASSUME TypeOK, [Next]_vars, NEW v \in Workers
    PROVE  WorkerMove(v)
<1> USE DEF intentVars, assetVars, jobVars, storeVars, timeVars
<1>1. ASSUME worker' = worker PROVE WorkerMove(v)
  BY <1>1 DEF WorkerMove
<1>2. ASSUME NEW w \in Workers, Rest(w)
      PROVE  WorkerMove(v)
  BY <1>2, RestEffect DEF WorkerMove, Resting
<1>3. ASSUME NEW w \in Workers, worker[w].pc # "idle", NEW l \in {"fail", "setFailed"},
             WorkerTo(w, l)
      PROVE  WorkerMove(v)
  <2>1. l \in WorkerLabels \ {"idle"}
    BY DEF WorkerLabels
  <2> QED
    BY <1>3, <2>1, WorkerEffect DEF WorkerMove, AtWork
<1>4. ASSUME NEW w \in Workers, NEW j, NEW keys, v # w, Lease(w, j, keys)
      PROVE  worker'[v] = worker[v]
  BY <1>4 DEF Lease, TypeOK
<1>5. ASSUME NEW w \in Workers, NEW u \in Uploads, ClaimUploadIntent(w, u)
      PROVE  WorkerMove(v)
  BY <1>4, <1>5 DEF WorkerMove, ClaimUploadIntent
<1>6. ASSUME NEW w \in Workers, NEW u \in Uploads, NEW d \in Ticks, ClaimAsset(w, u, d)
      PROVE  WorkerMove(v)
  BY <1>4, <1>6 DEF WorkerMove, ClaimAsset
<1>7. ASSUME NEW w \in Workers, NEW u \in Uploads, DeleteObjects(w, u)
      PROVE  WorkerMove(v)
  <2>1. v # w => worker'[v] = worker[v]
    BY <1>7, WorkerEffect DEF DeleteObjects, WorkerLabels
  <2> QED
    BY <1>7, <2>1 DEF WorkerMove
<1>8. ASSUME NEW w \in Workers, ReadLease(w)
      PROVE  WorkerMove(v)
  <2>1. CASE ~ HoldsLease(w)
    BY <1>2, <1>8, <2>1 DEF ReadLease
  <2>2. CASE HoldsLease(w) /\ worker[w].pc = "fail"
    BY <1>3, <1>8, <2>2 DEF ReadLease
  <2>3. CASE HoldsLease(w) /\ worker[w].pc # "fail" /\ worker[w].job[2] # 0
    <3>1. WorkerTo(w, "setDeleted") /\ worker[w].pc = "complete"
      BY <1>8, <2>3 DEF ReadLease
    <3>2. /\ worker'[w].pc = "setDeleted"
          /\ worker'[w].job = worker[w].job /\ worker'[w].keys = worker[w].keys
          /\ v # w => worker'[v] = worker[v]
      BY <3>1, WorkerEffect DEF WorkerLabels
    <3> QED
      BY <1>8, <2>3, <3>1, <3>2 DEF WorkerMove, ReadLease, OnAsset, AtWork
  <2>4. CASE /\ HoldsLease(w) /\ worker[w].pc # "fail" /\ worker[w].job[2] = 0
             /\ worker[w].job[1] \in verified
    <3>1. WorkerTo(w, "setSettled") /\ worker[w].pc = "complete"
      BY <1>8, <2>4 DEF ReadLease
    <3>2. /\ worker'[w].pc = "setSettled"
          /\ worker'[w].job = worker[w].job /\ worker'[w].keys = worker[w].keys
          /\ v # w => worker'[v] = worker[v]
      BY <3>1, WorkerEffect DEF WorkerLabels
    <3> QED
      BY <1>8, <2>4, <3>1, <3>2 DEF WorkerMove, ReadLease, OnUpload, AtWork
  <2>5. CASE /\ HoldsLease(w) /\ worker[w].pc # "fail" /\ worker[w].job[2] = 0
             /\ worker[w].job[1] \notin verified
    <3>1. WorkerTo(w, "setVerified") /\ worker[w].pc = "complete"
      BY <1>8, <2>5 DEF ReadLease
    <3>2. /\ worker'[w].pc = "setVerified"
          /\ worker'[w].job = worker[w].job /\ worker'[w].keys = worker[w].keys
          /\ v # w => worker'[v] = worker[v]
      BY <3>1, WorkerEffect DEF WorkerLabels
    <3> QED
      BY <1>8, <2>5, <3>1, <3>2 DEF WorkerMove, ReadLease, OnUpload, AtWork
  <2> QED
    BY <2>1, <2>2, <2>3, <2>4, <2>5
<1>9. ASSUME NEW w \in Workers, NEW u \in Uploads,
             \/ DeleteFails(w, u) \/ SetVerified(w, u) \/ SetSettled(w, u)
             \/ SetDeleted(w, u)
      PROVE  WorkerMove(v)
  BY <1>2, <1>3, <1>9 DEF DeleteFails, SetVerified, SetSettled, SetDeleted
<1>10. ASSUME NEW w \in Workers, SetFailed(w) \/ CrashWorker(w)
      PROVE  WorkerMove(v)
  BY <1>2, <1>10 DEF SetFailed, CrashWorker
<1>11. ASSUME NEW u \in Uploads,
              \/ InitiateUpload(u) \/ ExpirePendingIntent(u) \/ BeginPut(u)
              \/ IntentExpires(u) \/ StoreStep(u) \/ OrderStep(u)
      PROVE  worker' = worker
  BY <1>11 DEF InitiateUpload, ExpirePendingIntent, BeginPut, IntentExpires,
      StoreStep, PutLands, CopyEnds, SweepExpiredQuarantine, OrderStep,
      RecordArtifact, HoldAsset, EndClaim, ReleaseAsset, ExtendDeadline, EndOrder
<1>12. ASSUME NEW c \in Requests, NEW u \in Uploads,
              BeginConfirm(c, u) \/ ConfirmStep(c, u) \/ AbandonConfirm(c, u)
      PROVE  worker' = worker
  BY <1>12 DEF BeginConfirm, ConfirmStep, AbandonConfirm,
      ValidateUpload, RejectPendingIntent, DiscardRejected, LockIntent, CopyObject,
      CommitConfirm, CleanupQuarantine
<1>13. ASSUME \/ \E w \in Workers, u \in Uploads, d \in Ticks : SkipAsset(w, u, d)
              \/ \E j \in Jobs : RecoverLease(j)
              \/ ClockTicks \/ UNCHANGED vars
      PROVE  worker' = worker
  BY <1>13 DEF SkipAsset, RecoverLease, ClockTicks, vars
<1> HIDE DEF WorkerMove
<1> QED
  BY <1>1, <1>5, <1>6, <1>7, <1>8, <1>9, <1>10, <1>11, <1>12, <1>13
  DEF Next, CompletionStep, WorkerStep, ClaimJob

\* Every step keeps the workers thorough.
LEMMA ThoroughStep ==
    ASSUME TypeOK, Safe, Clean, [Next]_vars, NEW v \in Workers
    PROVE  AssetWorkerThorough(v)' /\ UploadWorkerThorough(v)'
<1> DEFINE u == worker[v].job[1]
<1>0. /\ WorkerMove(v) /\ LeasesSettle
      /\ \A x \in Uploads : ObjectsSettle(x)
      /\ AssetWorkerThorough(v) /\ UploadWorkerThorough(v)
  BY WorkerMoveStep, LeasesSettleStep, ObjectsSettleStep DEF Clean, WorkersThorough
<1>1. /\ intent \in [Uploads -> {"NONE", "PENDING", "CONFIRMED"} \cup Unconfirmable]
      /\ objects \in [Uploads -> SUBSET Keys] /\ objects' \in [Uploads -> SUBSET Keys]
  BY TypeStep DEF TypeOK, Terminal, Unconfirmable
<1>2. ASSUME AtWork(v), worker'[v].job = worker[v].job, worker'[v].keys = worker[v].keys,
             \/ worker'[v].pc = worker[v].pc
             \/ worker'[v].pc \in {"fail", "setFailed"}
             \/ worker'[v].pc = "setVerified" /\ OnUpload(v)
      PROVE  AssetWorkerThorough(v)' /\ UploadWorkerThorough(v)'
  <2>1. u \in Uploads /\ worker[v].job \in Jobs /\ ObjectsSettle(u)
    BY <1>0, <1>2 DEF AtWork, TypeOK, Jobs
  <2>2. AssetWorkerThorough(v)'
    <3> SUFFICES ASSUME OnAsset(v)' PROVE AssetWorkerThorough(v)'
      BY DEF AssetWorkerThorough
    <3>1. OnAsset(v) /\ claim[u] = worker[v].job[2] /\ claim[u] # 0
      BY <1>2 DEF OnAsset, AtWork, Safe, AssetWorkersClaim
    <3>2. intent[u] = "CONFIRMED" /\ u \notin flying
      BY <2>1, <3>1 DEF Safe, ClaimFrozen, AssetConfirmed, Clean, DueNotFlying
    <3>3. /\ u \in derived' => u \in derived
          /\ objects[u] \subseteq {"quarantine"} => objects'[u] \subseteq {"quarantine"}
      BY <1>1, <2>1, <3>1, <3>2 DEF ObjectsSettle, Keys
    <3> QED
      BY <1>0, <1>2, <3>1, <3>3 DEF AssetWorkerThorough, OnAsset, OnUpload
  <2>3. UploadWorkerThorough(v)'
    <3> SUFFICES ASSUME OnUpload(v)' PROVE UploadWorkerThorough(v)'
      BY DEF UploadWorkerThorough
    <3>1. OnUpload(v) /\ worker[v].job = <<u, 0>>
      BY <1>2, <2>1 DEF OnUpload, AtWork, Jobs
    <3>2. /\ intent[u] \in Unconfirmable => intent'[u] \in Unconfirmable
          /\ intent[u] = "CONFIRMED" => intent'[u] = "CONFIRMED"
          /\ intent[u] \in Unconfirmable \cup {"CONFIRMED"}
      BY <1>0, <1>1, <2>1, <3>1 DEF ObjectsSettle, UploadWorkerThorough
    <3>3. u \notin flying => /\ u \notin flying'
                             /\ "final" \notin objects[u] => "final" \notin objects'[u]
      BY <2>1, <3>2 DEF ObjectsSettle, Unconfirmable
    <3>4. HoldsLease(v)' => HoldsLease(v)
      BY <1>0, <1>2, <2>1 DEF HoldsLease, LeasesSettle, AtWork
    <3>5. HoldsLease(v)' /\ u \in verified' => u \in verified
      <4>1. HoldsLease(v)' => lease'[<<u, 0>>] = v
        BY <1>2, <3>1 DEF HoldsLease
      <4>2. v # NoWorker
        OBVIOUS
      <4> QED
        BY <1>0, <4>1, <4>2 DEF LeasesSettle
    <3>6. worker'[v].pc = "setSettled" => worker[v].pc = "setSettled" /\ u \in verified
      BY <1>0, <1>2, <3>1 DEF UploadWorkerThorough
    <3>7. worker'[v].pc \in {"complete", "setSettled"} => worker[v].pc = worker'[v].pc
      BY <1>2
    <3>8. SecondPass(v)' => SecondPass(v)
      BY <1>2, <3>4, <3>5, <3>6 DEF SecondPass
    <3>9. verified \subseteq verified'
      BY <1>0 DEF LeasesSettle
    <3>10. worker'[v].pc # "setDeleted"
      BY <1>0, <1>2, <3>1 DEF UploadWorkerThorough
    <3>11. /\ intent'[u] \notin {"NONE", "PENDING"}
           /\ intent'[u] \in Unconfirmable => "final" \in worker'[v].keys
      BY <1>0, <1>2, <3>1, <3>2 DEF UploadWorkerThorough, Unconfirmable
    <3>12. SecondPass(v)' =>
              /\ u \notin flying'
              /\ worker'[v].pc \in {"complete", "setSettled"} =>
                    intent'[u] = "CONFIRMED" \/ "final" \notin objects'[u]
      BY <1>0, <3>1, <3>2, <3>3, <3>7, <3>8 DEF UploadWorkerThorough
    <3> QED
      BY <1>2, <3>6, <3>9, <3>10, <3>11, <3>12 DEF UploadWorkerThorough
  <2> QED
    BY <2>2, <2>3
<1>3. ASSUME worker'[v].pc = "idle"
      PROVE  AssetWorkerThorough(v)' /\ UploadWorkerThorough(v)'
  BY <1>3 DEF AssetWorkerThorough, UploadWorkerThorough, OnAsset, OnUpload, AtWork
<1>4. ASSUME worker'[v] = worker[v]
      PROVE  AssetWorkerThorough(v)' /\ UploadWorkerThorough(v)'
  BY <1>2, <1>3, <1>4 DEF AtWork
<1>5. ASSUME NEW x \in Uploads, ClaimUploadIntent(v, x)
      PROVE  AssetWorkerThorough(v)' /\ UploadWorkerThorough(v)'
  <2>1. /\ worker'[v].pc = "delete" /\ worker'[v].job = <<x, 0>>
        /\ intent[x] # "CONFIRMED" => worker'[v].keys = {"quarantine", "final"}
        /\ UNCHANGED <<verified, flying>>
    BY <1>5 DEF ClaimUploadIntent, Lease, UploadJob, TypeOK, storeVars
  <2>2. /\ intent'[x] \notin {"NONE", "PENDING"}
        /\ intent'[x] \in Unconfirmable => intent[x] # "CONFIRMED"
    <3>1. intent[x] # "NONE"
      BY <1>5 DEF ClaimUploadIntent, ClaimableJob, UploadJob, Safe, JobHasIntent
    <3>2. intent'[x] = IF intent[x] = "PENDING" THEN "EXPIRED" ELSE intent[x]
      BY <1>1, <1>5 DEF ClaimUploadIntent, FencedIntent
    <3> QED
      BY <3>1, <3>2 DEF Unconfirmable
  <2>3. x \in verified => x \notin flying
    BY <1>5 DEF ClaimUploadIntent, ClaimableJob, UploadJob
  <2> QED
    BY <2>1, <2>2, <2>3 DEF AssetWorkerThorough, UploadWorkerThorough, OnAsset,
        OnUpload, AtWork, SecondPass
<1>6. ASSUME NEW x \in Uploads, NEW d \in Ticks, ClaimAsset(v, x, d)
      PROVE  AssetWorkerThorough(v)' /\ UploadWorkerThorough(v)'
  <2>1. /\ worker'[v].pc = "delete" /\ worker'[v].job = <<x, d>> /\ d # 0
        /\ worker'[v].keys = {"final"} \cup (IF x \in derived THEN {"derived"} ELSE {})
        /\ derived' = derived
    BY <1>6 DEF ClaimAsset, Lease, AssetJob, TypeOK, Ticks
  <2> QED
    BY <2>1 DEF AssetWorkerThorough, UploadWorkerThorough, OnAsset, OnUpload
<1>7. ASSUME NEW x \in Uploads, DeleteObjects(v, x)
      PROVE  AssetWorkerThorough(v)' /\ UploadWorkerThorough(v)'
  <2>1. /\ worker'[v].pc = "complete" /\ worker'[v].job = worker[v].job
        /\ worker'[v].keys = worker[v].keys /\ AtWork(v) /\ u = x
        /\ UNCHANGED <<intent, derived, job, lease, verified, flying>>
    BY <1>7, WorkerEffect DEF DeleteObjects, WorkerLabels, AtWork, intentVars,
        assetVars
  <2>2. objects'[x] = objects[x] \ worker[v].keys
    BY <1>1, <1>7 DEF DeleteObjects
  <2>3. "derived" \in objects[x] => x \in derived
    BY DEF Clean, ArtifactsRecorded
  <2>4. AssetWorkerThorough(v)'
    BY <1>0, <1>1, <2>1, <2>2, <2>3 DEF AssetWorkerThorough, OnAsset, AtWork, Keys
  <2>5. UploadWorkerThorough(v)'
    <3>1. OnUpload(v)' => OnUpload(v) /\ intent[x] \in Unconfirmable \cup {"CONFIRMED"}
      BY <1>0, <1>1, <2>1 DEF UploadWorkerThorough, OnUpload, AtWork
    <3>2. SecondPass(v)' => SecondPass(v)
      BY <2>1 DEF SecondPass, HoldsLease
    <3> QED
      BY <1>0, <2>1, <2>2, <3>1, <3>2 DEF UploadWorkerThorough
  <2> QED
    BY <2>4, <2>5
<1>8. ASSUME worker[v].pc = "complete", HoldsLease(v), worker'[v].job = worker[v].job,
             worker'[v].keys = worker[v].keys, UNCHANGED <<job, lease, verified>>,
             \/ worker'[v].pc = "setDeleted" /\ OnAsset(v)
             \/ /\ worker'[v].pc = "setSettled" /\ OnUpload(v)
                /\ worker[v].job[1] \in verified
      PROVE  AssetWorkerThorough(v)' /\ UploadWorkerThorough(v)'
  <2>1. u \in Uploads /\ ObjectsSettle(u)
    BY <1>0, <1>8 DEF TypeOK, Jobs
  <2>2. CASE worker'[v].pc = "setDeleted" /\ OnAsset(v)
    <3>1. claim[u] = worker[v].job[2] /\ claim[u] # 0
      BY <2>2 DEF OnAsset, AtWork, Safe, AssetWorkersClaim
    <3>2. intent[u] = "CONFIRMED" /\ u \notin flying
      BY <2>1, <3>1 DEF Safe, ClaimFrozen, AssetConfirmed, Clean, DueNotFlying
    <3>3. /\ u \in derived' => u \in derived
          /\ objects[u] \subseteq {"quarantine"} => objects'[u] \subseteq {"quarantine"}
      BY <1>1, <2>1, <3>1, <3>2 DEF ObjectsSettle, Keys
    <3> QED
      BY <1>0, <1>8, <2>2, <3>3 DEF AssetWorkerThorough, UploadWorkerThorough,
          OnAsset, OnUpload
  <2>3. CASE worker'[v].pc = "setSettled" /\ OnUpload(v) /\ u \in verified
    <3>1. /\ intent[u] \in Unconfirmable => intent'[u] \in Unconfirmable
          /\ intent[u] = "CONFIRMED" => intent'[u] = "CONFIRMED"
          /\ intent[u] \in Unconfirmable \cup {"CONFIRMED"}
      BY <1>0, <1>1, <2>1, <2>3 DEF ObjectsSettle, UploadWorkerThorough
    <3>2. u \notin flying => /\ u \notin flying'
                             /\ "final" \notin objects[u] => "final" \notin objects'[u]
      BY <2>1, <3>1 DEF ObjectsSettle, Unconfirmable
    <3>3. SecondPass(v)
      BY <1>8, <2>3 DEF SecondPass
    <3>4. u \notin flying /\ (intent[u] = "CONFIRMED" \/ "final" \notin objects[u])
      BY <1>0, <1>8, <2>3, <3>3 DEF UploadWorkerThorough
    <3>5. /\ intent'[u] \notin {"NONE", "PENDING"}
          /\ intent'[u] \in Unconfirmable => "final" \in worker'[v].keys
      BY <1>0, <1>8, <2>3, <3>1 DEF UploadWorkerThorough, Unconfirmable
    <3> QED
      BY <1>8, <2>3, <3>1, <3>2, <3>4, <3>5 DEF AssetWorkerThorough,
          UploadWorkerThorough, OnAsset, OnUpload
  <2> QED
    BY <1>8, <2>2, <2>3
<1> QED
  BY <1>0, <1>2, <1>3, <1>4, <1>5, <1>6, <1>7, <1>8 DEF WorkerMove

\* Only completing a deletion marks an asset deleted, and only the second pass
\* removes an intent.
LEMMA OnlyCompletion ==
    ASSUME TypeOK, [Next]_vars
    PROVE  /\ \/ deleted' = deleted
              \/ \E w \in Workers, u \in Uploads : SetDeleted(w, u)
           /\ \/ \A x \in Uploads : intent'[x] = "GONE" => intent[x] = "GONE"
              \/ \E w \in Workers, u \in Uploads : SetSettled(w, u)
<1> USE DEF intentVars, assetVars
<1> DEFINE Same == /\ deleted' = deleted
                   /\ \A x \in Uploads : intent'[x] = "GONE" => intent[x] = "GONE"
<1>0. intent \in [Uploads -> {"NONE", "PENDING", "GONE"} \cup Terminal]
  BY DEF TypeOK
<1>1. ASSUME NEW u \in Uploads,
             \/ InitiateUpload(u) \/ ExpirePendingIntent(u) \/ BeginPut(u)
             \/ IntentExpires(u) \/ StoreStep(u)
      PROVE  Same
  BY <1>0, <1>1 DEF InitiateUpload, ExpirePendingIntent, BeginPut, IntentExpires,
      StoreStep, PutLands, CopyEnds, SweepExpiredQuarantine
<1>2. ASSUME NEW u \in Uploads, OrderStep(u)
      PROVE  Same
  BY <1>2 DEF OrderStep, RecordArtifact, HoldAsset, EndClaim, ReleaseAsset,
      ExtendDeadline, EndOrder
<1>3. ASSUME NEW c \in Requests, NEW u \in Uploads,
             BeginConfirm(c, u) \/ ConfirmStep(c, u) \/ AbandonConfirm(c, u)
      PROVE  Same
  BY <1>0, <1>3 DEF BeginConfirm, ConfirmStep, AbandonConfirm, ValidateUpload,
      RejectPendingIntent, DiscardRejected, LockIntent, CopyObject, CommitConfirm,
      CleanupQuarantine
<1>4. ASSUME NEW w \in Workers, NEW u \in Uploads,
             ClaimJob(w, u) \/ DeleteFails(w, u) \/ DeleteObjects(w, u)
             \/ SetVerified(w, u)
      PROVE  Same
  BY <1>0, <1>4 DEF ClaimJob, ClaimUploadIntent, ClaimAsset, SkipAsset, DeleteFails,
      DeleteObjects, SetVerified, FencedIntent
<1>5. ASSUME NEW w \in Workers, ReadLease(w) \/ SetFailed(w) \/ CrashWorker(w)
      PROVE  Same
  BY <1>5 DEF ReadLease, SetFailed, CrashWorker
<1>6. ASSUME \/ \E j \in Jobs : RecoverLease(j)
             \/ ClockTicks \/ UNCHANGED vars
      PROVE  Same
  BY <1>6 DEF RecoverLease, ClockTicks, vars
<1>7. ASSUME NEW w \in Workers, NEW u \in Uploads, SetDeleted(w, u)
      PROVE  intent' = intent
  BY <1>7 DEF SetDeleted
<1>8. ASSUME NEW w \in Workers, NEW u \in Uploads, SetSettled(w, u)
      PROVE  deleted' = deleted
  BY <1>8 DEF SetSettled
<1> QED
  BY <1>1, <1>2, <1>3, <1>4, <1>5, <1>6, <1>7, <1>8
  DEF Next, CompletionStep, WorkerStep

\* Every step keeps what is deleted, and what is gone, empty.
LEMMA CleanStep ==
    ASSUME TypeOK, Safe, Clean, [Next]_vars
    PROVE  Clean'
<1>1. \A x \in Uploads : ObjectsSettle(x)
  BY ObjectsSettleStep DEF Clean
<1>2. /\ objects \in [Uploads -> SUBSET Keys] /\ objects' \in [Uploads -> SUBSET Keys]
      /\ deleted \subseteq Uploads
  BY TypeStep DEF TypeOK
<1>3. ArtifactsRecorded' /\ DueNotFlying'
  BY <1>1 DEF ObjectsSettle, Clean, ArtifactsRecorded, DueNotFlying
<1>4. WorkersThorough'
  BY ThoroughStep DEF WorkersThorough
<1>5. ASSUME NEW x \in deleted'
      PROVE  x \in Uploads /\ claim[x] # 0 /\ objects[x] \subseteq {"quarantine"}
  <2>1. CASE x \in deleted
    BY <1>2, <2>1 DEF Clean, DeletedEmpty
  <2>2. CASE x \notin deleted
    <3>1. PICK w \in Workers : SetDeleted(w, x)
      <4>1. PICK w \in Workers, u \in Uploads : SetDeleted(w, u)
        BY <1>5, <2>2, OnlyCompletion
      <4> QED
        BY <1>5, <2>2, <4>1 DEF SetDeleted
    <3>2. worker[w].pc = "setDeleted" /\ worker[w].job[1] = x /\ x \in Uploads
      BY <3>1 DEF SetDeleted, TypeOK, Jobs
    <3>3. OnAsset(w)
      BY <3>2 DEF Clean, WorkersThorough, UploadWorkerThorough, OnUpload, OnAsset,
          AtWork
    <3> QED
      BY <3>2, <3>3 DEF Clean, WorkersThorough, AssetWorkerThorough, Safe,
          AssetWorkersClaim, OnAsset
  <2> QED
    BY <2>1, <2>2
<1>6. DeletedEmpty'
  <2> SUFFICES ASSUME NEW x \in deleted'
               PROVE  claim'[x] # 0 /\ objects'[x] \subseteq {"quarantine"}
    BY DEF DeletedEmpty
  <2>1. x \in Uploads /\ claim[x] # 0 /\ objects[x] \subseteq {"quarantine"}
    BY <1>5
  <2>2. intent[x] = "CONFIRMED" /\ x \notin flying
    BY <2>1 DEF Safe, ClaimFrozen, AssetConfirmed, Clean, DueNotFlying
  <2> QED
    BY <1>1, <1>2, <2>1, <2>2 DEF ObjectsSettle, Keys
<1>7. ASSUME NEW x \in Uploads, intent'[x] = "GONE"
      PROVE  /\ intent[x] \in Unconfirmable
             /\ "final" \notin objects[x] /\ x \notin flying
  <2>1. CASE intent[x] = "GONE"
    BY <2>1 DEF Clean, GoneEmpty, Unconfirmable
  <2>2. CASE intent[x] # "GONE"
    <3>1. PICK w \in Workers : SetSettled(w, x)
      <4>0. intent \in [Uploads -> {"NONE", "PENDING", "GONE"} \cup Terminal]
        BY DEF TypeOK
      <4>1. PICK w \in Workers, u \in Uploads : SetSettled(w, u)
        BY <1>7, <2>2, OnlyCompletion
      <4> QED
        BY <1>7, <2>2, <4>0, <4>1 DEF SetSettled
    <3>2. worker[w].pc = "setSettled" /\ worker[w].job[1] = x /\ x \in Uploads
      BY <3>1 DEF SetSettled, TypeOK, Jobs
    <3>3. OnUpload(w)
      BY <3>2 DEF Clean, WorkersThorough, AssetWorkerThorough, OnUpload, OnAsset,
          AtWork
    <3>4. intent[x] \in {"EXPIRED", "REJECTED"}
      BY <1>7, <2>2, <3>1 DEF SetSettled, TypeOK
    <3> QED
      BY <3>2, <3>3, <3>4 DEF Clean, WorkersThorough, UploadWorkerThorough,
          SecondPass, Unconfirmable
  <2> QED
    BY <2>1, <2>2
<1>8. GoneEmpty'
  BY <1>1, <1>7 DEF GoneEmpty, ObjectsSettle, Unconfirmable
<1> QED
  BY <1>3, <1>4, <1>6, <1>8 DEF Clean

-----------------------------------------------------------------------------
\* Deletion is neither too eager nor too lazy: whoever may still delete is
\* licensed to, and once a deletion or the removal of an intent is recorded,
\* nothing of the upload is left or can come back, whatever copies were under
\* way, workers crashed and leases were lost on the way.
THEOREM DeletionsAreSound == Spec => []DeletionsSound
<1>1. Init => TypeOK /\ Safe /\ Clean
  BY DEF Init, TypeOK, Keys, RequestLabels, WorkerLabels, Terminal, Resting,
         Unserved, Ticks, Jobs, Safe, JobHasIntent, AssetConfirmed, ClaimFrozen,
         UploadWorkersFenced, AssetWorkersClaim, RequestsFenced, BytesRetained,
         Promoting, AtWork, OnUpload, OnAsset, Asset, Clean, ArtifactsRecorded,
         DueNotFlying, DeletedEmpty, GoneEmpty, WorkersThorough,
         AssetWorkerThorough, UploadWorkerThorough
<1>2. TypeOK /\ Safe /\ Clean /\ [Next]_vars => TypeOK' /\ Safe' /\ Clean'
  BY TypeStep, SafeStep, CleanStep
<1>3. TypeOK /\ Clean => NothingLeftBehind
  BY DEF Clean, GoneEmpty, DeletedEmpty, NothingLeftBehind
<1>4. Spec => []NothingLeftBehind
  BY <1>1, <1>2, <1>3, PTL DEF Spec
<1> QED
  BY <1>4, BytesSafe, PTL DEF DeletionsSound
=============================================================================
