---------------------------- MODULE OperatorAuth ----------------------------
(* Operator logins and sessions (admin-access/operator-auth.service.ts, the   *)
(* expiry worker and the provisioning script).  A handler serves one browser  *)
(* request; every database statement outside a transaction is a step of its   *)
(* own, and a transaction is split where another could run between two of its *)
(* statements.  Tokens, hashes and cookies are identities: a request knows    *)
(* the session or the attempt it names.                                       *)
EXTENDS Integers, FiniteSets, Sequences

CONSTANTS Handlers,        \* concurrent requests
          Attempts,        \* GitHub login attempts
          MaxStarts,       \* MAX_LOGIN_STARTS of a window, both counters
          MaxSessions, MaxVersions, MaxAuthTime

\* 0 stands for a login without an attempt (the development password).
ASSUME AuthAssumption == 0 \notin Attempts

VARIABLES environment,     \* "development" (password) or "production" (GitHub)
          operator,        \* the operator's row: role, nodes granted, active, credentialVersion
          attempts,        \* operator_login_attempts
          sessions,        \* operator_sessions, in order of creation
          buckets,         \* starts counted per client, and for everyone
          handlers,        \* what each request has done so far
          authTime

authVars == <<environment, operator, attempts, sessions, buckets, handlers, authTime>>

LOGIN_ATTEMPT == 1
SESSION_IDLE == 2
SESSION_ABSOLUTE == 3
LAST_SEEN_WRITE == 1

Idle == [pc |-> "IDLE", attempt |-> 0, version |-> 0, session |-> 0, at |-> 0,
         revokes |-> {}]

AuthInit ==
  /\ environment \in {"development", "production"}
  /\ operator \in [role : {"ADMIN", "OPERATOR"}, nodes : 0..2, active : {TRUE}, version : {1}]
  /\ attempts = [a \in Attempts |-> [status |-> "NONE", expiresAt |-> 0, session |-> 0]]
  /\ sessions = <<>>
  /\ buckets = [client |-> 0, everyone |-> 0]
  /\ handlers = [h \in Handlers |-> Idle]
  /\ authTime = 0

Goto(h, pc) == handlers' = [handlers EXCEPT ![h].pc = pc]
Ends(h) == handlers' = [handlers EXCEPT ![h] = Idle]

----------------------------------------------------------------------------
(* claimLoginBudget: one transaction, so a refused start counts nothing. *)
claimLoginBudget ==
  /\ buckets.client < MaxStarts
  /\ buckets.everyone < MaxStarts
  /\ buckets' = [client |-> buckets.client + 1, everyone |-> buckets.everyone + 1]

startGithubLogin(a) ==
  /\ environment # "development"
  /\ attempts[a].status = "NONE"
  /\ claimLoginBudget
  /\ attempts' = [attempts EXCEPT ![a] =
                    [status |-> "PENDING", expiresAt |-> authTime + LOGIN_ATTEMPT, session |-> 0]]
  /\ UNCHANGED <<environment, operator, sessions, handlers, authTime>>

(* claimGithubAttempt: the attempt is read ... *)
readGithubAttempt(h, a) ==
  /\ environment # "development"
  /\ handlers[h].pc = "IDLE"
  /\ attempts[a].status = "PENDING" /\ attempts[a].expiresAt > authTime
  /\ handlers' = [handlers EXCEPT ![h] = [Idle EXCEPT !.pc = "READ", !.attempt = a]]
  /\ UNCHANGED <<environment, operator, attempts, sessions, buckets, authTime>>

(* ... and taken only while it is still PENDING. *)
claimAsRead(a) == attempts[a].status # "PURGED"
stillPending(a) == attempts[a].status = "PENDING"

claimGithubAttempt(h) ==
  LET a == handlers[h].attempt IN
  /\ handlers[h].pc = "READ"
  /\ IF stillPending(a)
     THEN /\ attempts' = [attempts EXCEPT ![a].status = "EXCHANGING"]
          /\ \/ Goto(h, "CLAIMED")
             \/ Ends(h)                   \* the browser binding does not match
     ELSE Ends(h) /\ UNCHANGED attempts
  /\ UNCHANGED <<environment, operator, sessions, buckets, authTime>>

(* The exchange with GitHub, outside any transaction, then the operator it names. *)
exchangeCode(h) ==
  /\ handlers[h].pc = "CLAIMED"
  /\ \/ operator.active /\ handlers' = [handlers EXCEPT ![h].pc = "KNOWN", ![h].version = operator.version]
     \/ Goto(h, "UNKNOWN")                \* no active operator with this identity
     \/ Goto(h, "FAILING")                \* the exchange failed
  /\ UNCHANGED <<environment, operator, attempts, sessions, buckets, authTime>>

finishUnknown(h) ==
  LET a == handlers[h].attempt IN
  /\ handlers[h].pc = "UNKNOWN"
  /\ IF attempts[a].status = "PURGED"
     THEN Goto(h, "FAILING") /\ UNCHANGED attempts
     ELSE Ends(h) /\ attempts' = [attempts EXCEPT ![a].status = "FAILED"]
  /\ UNCHANGED <<environment, operator, sessions, buckets, authTime>>

(* The handler of the error: the attempt fails unless it has an outcome. *)
failGithubAttempt(h) ==
  LET a == handlers[h].attempt IN
  /\ handlers[h].pc = "FAILING"
  /\ Ends(h)
  /\ attempts' = IF attempts[a].status = "EXCHANGING"
                 THEN [attempts EXCEPT ![a].status = "FAILED"] ELSE attempts
  /\ UNCHANGED <<environment, operator, sessions, buckets, authTime>>

(* A development login: the budget, the credential, then the password.  A failure is counted. *)
loginWithDevelopmentPassword(h) ==
  /\ environment = "development"
  /\ handlers[h].pc = "IDLE"
  /\ claimLoginBudget
  /\ \/ operator.active /\ handlers' = [handlers EXCEPT ![h] =
                                          [Idle EXCEPT !.pc = "KNOWN", !.version = operator.version]]
     \/ Ends(h)
  /\ UNCHANGED <<environment, operator, attempts, sessions, authTime>>

----------------------------------------------------------------------------
(* The transaction of a login: lockOperatorIdentity, revokeOperatorSessions,  *)
(* createSession and, for GitHub, finishGithubAttempt.                        *)
lockOperatorIdentity == \A h \in Handlers : handlers[h].pc # "LOCKED"

Revoked(R) == [i \in DOMAIN sessions |-> [sessions[i] EXCEPT !.revoked = @ \/ i \in R]]
revokeOperatorSessions == {i \in DOMAIN sessions : ~sessions[i].revoked}

nodeScope == IF operator.role = "ADMIN" THEN operator.nodes <= 1 ELSE operator.nodes = 1

(* A node scope that cannot serve a session rolls the transaction back; what is revoked shows when it commits. *)
lockAndRevoke(h) ==
  /\ handlers[h].pc = "KNOWN"
  /\ lockOperatorIdentity
  /\ \/ nodeScope /\ handlers' = [handlers EXCEPT ![h].pc = "LOCKED", ![h].revokes = revokeOperatorSessions]
     \/ ~nodeScope /\ handlers[h].attempt = 0 /\ Ends(h)
     \/ ~nodeScope /\ handlers[h].attempt # 0 /\ Goto(h, "FAILING")
  /\ UNCHANGED <<environment, operator, attempts, sessions, buckets, authTime>>

createSession(h) ==
  LET a == handlers[h].attempt
      session == [attempt |-> a, version |-> handlers[h].version, revoked |-> FALSE,
                  lastSeenAt |-> authTime, absoluteExpiresAt |-> authTime + SESSION_ABSOLUTE] IN
  /\ handlers[h].pc = "LOCKED"
  /\ Len(sessions) < MaxSessions
  /\ IF a # 0 /\ attempts[a].status = "PURGED"
     THEN Goto(h, "FAILING") /\ UNCHANGED <<sessions, attempts>>    \* update finds no row
     ELSE /\ sessions' = Append(Revoked(handlers[h].revokes), session)
          /\ attempts' = IF a = 0 THEN attempts
                         ELSE [attempts EXCEPT ![a].status = "COMPLETED", ![a].session = Len(sessions) + 1]
          /\ Ends(h)
  /\ UNCHANGED <<environment, operator, buckets, authTime>>

----------------------------------------------------------------------------
(* Requests of a session: what authenticateRequest accepts. *)
accepted(i) ==
  LET s == sessions[i] IN
  /\ ~s.revoked
  /\ s.absoluteExpiresAt > authTime
  /\ s.lastSeenAt + SESSION_IDLE > authTime
  /\ operator.active
  /\ s.version = operator.version
  /\ nodeScope

authenticateRequest(h, i) ==
  /\ handlers[h].pc = "IDLE"
  /\ accepted(i)
  /\ authTime - sessions[i].lastSeenAt >= LAST_SEEN_WRITE
  /\ handlers' = [handlers EXCEPT ![h] = [Idle EXCEPT !.pc = "SEEN", !.session = i, !.at = authTime]]
  /\ UNCHANGED <<environment, operator, attempts, sessions, buckets, authTime>>

(* The write of lastSeenAt, conditional on the row as it is by then. *)
writeLastSeen(h) ==
  LET i == handlers[h].session IN
  /\ handlers[h].pc = "SEEN"
  /\ sessions' = IF ~sessions[i].revoked /\ sessions[i].lastSeenAt < handlers[h].at
                 THEN [sessions EXCEPT ![i].lastSeenAt = handlers[h].at] ELSE sessions
  /\ Ends(h)
  /\ UNCHANGED <<environment, operator, attempts, buckets, authTime>>

logout(i) ==
  /\ accepted(i)
  /\ sessions' = Revoked({i})
  /\ UNCHANGED <<environment, operator, attempts, buckets, handlers, authTime>>

(* provision-operator: reset-password and disable, run by hand, one at a time. *)
resetPassword ==
  /\ environment = "development"
  /\ operator.version < MaxVersions
  /\ lockOperatorIdentity
  /\ operator' = [operator EXCEPT !.version = @ + 1]
  /\ sessions' = Revoked(revokeOperatorSessions)
  /\ UNCHANGED <<environment, attempts, buckets, handlers, authTime>>

disable ==
  /\ operator.version < MaxVersions
  /\ lockOperatorIdentity
  /\ operator' = [operator EXCEPT !.version = @ + 1, !.active = FALSE]
  /\ sessions' = Revoked(revokeOperatorSessions)
  /\ UNCHANGED <<environment, attempts, buckets, handlers, authTime>>

(* The expiry worker deletes attempts past their time, whatever their status, and old buckets.   *)
purgeExpired ==
  /\ \E a \in Attempts : attempts[a].status \notin {"NONE", "PURGED"} /\ attempts[a].expiresAt < authTime
  /\ attempts' = [a \in Attempts |->
                    IF attempts[a].status # "NONE" /\ attempts[a].expiresAt < authTime
                    THEN [attempts[a] EXCEPT !.status = "PURGED"] ELSE attempts[a]]
  /\ UNCHANGED <<environment, operator, sessions, buckets, handlers, authTime>>

AuthTick ==
  /\ authTime < MaxAuthTime
  /\ authTime' = authTime + 1
  /\ buckets' \in {buckets, [client |-> 0, everyone |-> 0]}      \* the window may end
  /\ UNCHANGED <<environment, operator, attempts, sessions, handlers>>

AuthNext ==
  \/ \E a \in Attempts : startGithubLogin(a)
  \/ \E h \in Handlers, a \in Attempts : readGithubAttempt(h, a)
  \/ \E h \in Handlers : claimGithubAttempt(h) \/ exchangeCode(h) \/ finishUnknown(h)
                           \/ failGithubAttempt(h) \/ loginWithDevelopmentPassword(h)
                           \/ lockAndRevoke(h) \/ createSession(h) \/ writeLastSeen(h)
  \/ \E h \in Handlers, i \in DOMAIN sessions : authenticateRequest(h, i)
  \/ \E i \in DOMAIN sessions : logout(i)
  \/ resetPassword \/ disable \/ purgeExpired \/ AuthTick

AuthSpec == AuthInit /\ [][AuthNext]_authVars

----------------------------------------------------------------------------
(* However callbacks of one attempt are repeated and logins overlap, an       *)
(* attempt yields at most one session and that session is the one it records; *)
(* an attempt that failed yields none; at most one session of the operator is *)
(* accepted; and nothing is accepted for credentials that have been replaced. *)
(* (completeGithubLogin, claimGithubAttempt, lockOperatorIdentity.)           *)
OneLoginOneSession ==
  /\ \A i \in DOMAIN sessions : sessions[i].attempt # 0 =>
       /\ attempts[sessions[i].attempt].session = i
       /\ attempts[sessions[i].attempt].status \in {"COMPLETED", "PURGED"}
  /\ \A i, j \in DOMAIN sessions : accepted(i) /\ accepted(j) => i = j
=============================================================================
