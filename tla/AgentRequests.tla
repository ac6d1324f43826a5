---------------------------- MODULE AgentRequests ----------------------------
(***************************************************************************)
(* Who is let in: the bearer tokens an agent's callers hold and the reads  *)
(* that each request makes before its handler runs, beside the revocations *)
(* and renewals of HeadlessAccess.                                         *)
(*                                                                         *)
(* A wallet session (routes/session/challenge.ts, routes/session/create.ts)*)
(* is minted from a nonce the agent's wallet signs.  An access token       *)
(* (routes/oauth/token.ts) is minted from a client credential.  Neither    *)
(* carries authority: resolveAgentActor and resolveHeadlessActor read the  *)
(* rows again for every request.  Every awaited query is a step of its     *)
(* own, so anything may change between two of them.  The gateway's clock   *)
(* and the database's are one clock here.                                  *)
(*                                                                         *)
(* A rate limiter's refusal, a malformed body, a bad signature or secret   *)
(* change nothing and are left out; so is purging expired nonces, which no *)
(* query finds.                                                            *)
(***************************************************************************)
EXTENDS HeadlessAccess

CONSTANTS
    Nonces,           \* ids of agent_challenges rows, purpose "session"
    Logins,           \* calls of POST /session/create; each mints one token
    Exchanges,        \* calls of POST /oauth/token; each mints one token
    Calls,            \* requests that carry a token
    NonceTtl,         \* AGENT_CHALLENGE_TTL_SECONDS
    SessionTtl,       \* AGENT_SESSION_TTL_SECONDS
    AccessTokenTtl    \* ACCESS_TOKEN_TTL_SECONDS

ASSUME RequestsAssumption ==
    /\ NonceTtl \in Nat \ {0}
    /\ SessionTtl \in Nat \ {0}
    /\ AccessTokenTtl \in Nat \ {0}
    /\ Logins \cap Exchanges = {}
    /\ None \notin Nonces \cup Logins \cup Exchanges

VARIABLES
    nonce,            \* nonce -> row
    login,            \* login -> how far it is, and the token it minted
    exchange,         \* exchange -> how far it is, and the token it minted
    call              \* call -> how far it is

requestVars == <<nonce, login, exchange, call>>
allVars == <<now, agentStatus, permitted, authorization, credential, challenge,
             rotating, nonce, login, exchange, call>>

Tokens == Logins \cup Exchanges

NonceRow == [state : {"absent", "open", "consumed"}, expiresAt : Nat]

LoginRecord ==
    [at : {"idle", "loaded", "consumed", "issued"},
     nonce : Nonces \cup {None}, expiresAt : Nat]

ExchangeRecord ==
    [at : {"idle", "credential", "authorization", "issued"},
     credential : Credentials \cup {None},
     authorization : Authorizations \cup {None}, expiresAt : Nat]

\* arrivedLive remembers whether everything the token stands for was live
\* when the call arrived; the code keeps no such thing.
CallRecord ==
    [at : {"idle", "reading", "served"},
     token : Tokens \cup {None},
     template : Templates \cup {None},
     unread : SUBSET {"authorization", "credential", "agent", "permissions"},
     arrivedLive : BOOLEAN]

RequestsTypeOK ==
    /\ nonce \in [Nonces -> NonceRow]
    /\ login \in [Logins -> LoginRecord]
    /\ exchange \in [Exchanges -> ExchangeRecord]
    /\ call \in [Calls -> CallRecord]

\* A request that is refused leaves nothing behind: its slot is free again.
NoLogin == [at |-> "idle", nonce |-> None, expiresAt |-> 0]
NoExchange == [at |-> "idle", credential |-> None, authorization |-> None,
               expiresAt |-> 0]
NoCall == [at |-> "idle", token |-> None, template |-> None, unread |-> {},
           arrivedLive |-> FALSE]

RequestsInit ==
    /\ nonce = [n \in Nonces |-> [state |-> "absent", expiresAt |-> 0]]
    /\ login = [l \in Logins |-> NoLogin]
    /\ exchange = [x \in Exchanges |-> NoExchange]
    /\ call = [r \in Calls |-> NoCall]

----------------------------------------------------------------------------
\* Wallet sessions.

\* POST /session/challenge: a ready agent gets a nonce, issueSessionChallenge.
IssueChallenge(n) ==
    /\ nonce[n].state = "absent"
    /\ agentStatus = "ready"
    /\ nonce' = [nonce EXCEPT ![n] =
            [state |-> "open", expiresAt |-> now + NonceTtl]]
    /\ UNCHANGED <<accessVars, login, exchange, call>>

NonceOpen(n) == nonce[n].state = "open" /\ now < nonce[n].expiresAt

\* POST /session/create, first query: loadSessionChallenge, then the signature
\* over the stored message.  Any number of copies of one signed body arrive.
LoadChallenge(l, n) ==
    /\ login[l].at = "idle"
    /\ NonceOpen(n)
    /\ login' = [login EXCEPT ![l].at = "loaded", ![l].nonce = n]
    /\ UNCHANGED <<accessVars, nonce, exchange, call>>

\* A slip: the update is keyed by the nonce alone.
ConsumeChallengeAgain(l) ==
    /\ login[l].at = "loaded"
    /\ nonce' = [nonce EXCEPT ![login[l].nonce].state = "consumed"]
    /\ login' = [login EXCEPT ![l].at = "consumed"]
    /\ UNCHANGED <<accessVars, exchange, call>>

\* consumeSessionChallenge: one UPDATE that filters on consumed_at and
\* expires_at.
ConsumeChallenge(l) ==
    /\ login[l].at = "loaded"
    /\ IF NonceOpen(login[l].nonce)
       THEN /\ nonce' = [nonce EXCEPT ![login[l].nonce].state = "consumed"]
            /\ login' = [login EXCEPT ![l].at = "consumed"]
       ELSE /\ login' = [login EXCEPT ![l] = NoLogin]
            /\ UNCHANGED nonce
    /\ UNCHANGED <<accessVars, exchange, call>>

\* The agent is looked up after the nonce is spent; a ready one gets the token.
IssueSession(l) ==
    /\ login[l].at = "consumed"
    /\ login' = IF agentStatus = "ready"
                THEN [login EXCEPT ![l].at = "issued",
                                   ![l].expiresAt = now + SessionTtl]
                ELSE [login EXCEPT ![l] = NoLogin]
    /\ UNCHANGED <<accessVars, nonce, exchange, call>>

----------------------------------------------------------------------------
\* Access tokens: verifyHeadlessCredential, one query after the other.

FindCredential(x, c) ==
    /\ exchange[x].at = "idle"
    /\ credential[c].status = "active"
    /\ exchange' = [exchange EXCEPT ![x].at = "credential", ![x].credential = c]
    /\ UNCHANGED <<accessVars, nonce, login, call>>

\* The authorization that is active by now, not the one the credential was
\* minted under: a credential survives renewal.
FindAuthorization(x) ==
    /\ exchange[x].at = "credential"
    /\ \/ \E a \in Authorizations :
            /\ Live(a)
            /\ exchange' = [exchange EXCEPT ![x].at = "authorization",
                                            ![x].authorization = a]
       \/ /\ \A a \in Authorizations : ~Live(a)
          /\ exchange' = [exchange EXCEPT ![x] = NoExchange]
    /\ UNCHANGED <<accessVars, nonce, login, call>>

\* findOwnedAgent, then issueHeadlessAccessToken.
IssueAccessToken(x) ==
    /\ exchange[x].at = "authorization"
    /\ exchange' = IF agentStatus = "ready"
                   THEN [exchange EXCEPT ![x].at = "issued",
                                         ![x].expiresAt = now + AccessTokenTtl]
                   ELSE [exchange EXCEPT ![x] = NoExchange]
    /\ UNCHANGED <<accessVars, nonce, login, call>>

----------------------------------------------------------------------------
\* Requests.

\* jwtVerify: the signature holds for what was issued, and exp is ahead.
Valid(t) ==
    \/ t \in Logins /\ login[t].at = "issued" /\ now < login[t].expiresAt
    \/ t \in Exchanges /\ exchange[t].at = "issued" /\ now < exchange[t].expiresAt

\* Everything a token stands for holds at this instant.
GrantLive(t) ==
    /\ Valid(t)
    /\ agentStatus = "ready"
    /\ t \in Exchanges =>
            /\ Live(exchange[t].authorization)
            /\ credential[exchange[t].credential].status = "active"

\* A slip: the credential is not read again once its token is out.
ReadsOfTrusting(t) ==
    IF t \in Exchanges THEN {"authorization", "agent"}
    ELSE {"agent", "permissions"}

\* The rows a resolver reads for a token, before the handler runs.
ReadsOf(t) ==
    IF t \in Exchanges THEN {"authorization", "credential", "agent"}
    ELSE {"agent", "permissions"}

Arrive(r, t, template) ==
    /\ call[r].at = "idle"
    /\ Valid(t)
    /\ call' = [call EXCEPT ![r] =
            [at |-> "reading", token |-> t, template |-> template,
             unread |-> ReadsOf(t), arrivedLive |-> GrantLive(t)]]
    /\ UNCHANGED <<accessVars, nonce, login, exchange>>

\* loadPermissions and hasCapability, for the template of the route.
Permitted(r) == call[r].template \in permitted

\* What one of the reads must find.  resolveAgentActor refuses every status
\* but ready; agentRoute then asks for the capability.
Finds(r, row) ==
    CASE row = "agent" -> agentStatus = "ready"
      [] row = "permissions" -> Permitted(r)
      [] row = "authorization" -> Live(exchange[call[r].token].authorization)
      [] row = "credential" ->
            credential[exchange[call[r].token].credential].status = "active"

\* One query answers.  resolveHeadlessActor sends its three together
\* (Promise.all), so they are answered in any order; permissions are loaded
\* only after the agent.
Read(r, row) ==
    /\ call[r].at = "reading"
    /\ row \in call[r].unread
    /\ row = "permissions" => "agent" \notin call[r].unread
    /\ call' = IF Finds(r, row)
               THEN [call EXCEPT ![r].unread = @ \ {row}]
               ELSE [call EXCEPT ![r] = NoCall]
    /\ UNCHANGED <<accessVars, nonce, login, exchange>>

\* The handler runs (control/route.ts, route-factory.ts).
ServeCall(r) ==
    /\ call[r].at = "reading"
    /\ call[r].unread = {}
    /\ call' = [call EXCEPT ![r].at = "served"]
    /\ UNCHANGED <<accessVars, nonce, login, exchange>>

RequestStep ==
    \/ \E n \in Nonces : IssueChallenge(n)
    \/ \E l \in Logins, n \in Nonces : LoadChallenge(l, n)
    \/ \E l \in Logins : ConsumeChallenge(l) \/ IssueSession(l)
    \/ \E x \in Exchanges, c \in Credentials : FindCredential(x, c)
    \/ \E x \in Exchanges : FindAuthorization(x) \/ IssueAccessToken(x)
    \/ \E r \in Calls, t \in Tokens, q \in Templates : Arrive(r, t, q)
    \/ \E r \in Calls :
            \/ \E row \in {"authorization", "credential", "agent", "permissions"} :
                    Read(r, row)
            \/ ServeCall(r)

RequestsNext ==
    \/ AccessNext /\ UNCHANGED requestVars
    \/ RequestStep

AllInit == AccessInit /\ RequestsInit

RequestsSpec == AllInit /\ [][RequestsNext]_allVars

----------------------------------------------------------------------------
\* A revocation takes effect for every request that arrives after it, whatever
\* token the caller still holds: a served request's agent, and for a headless
\* caller its authorization and its credential, were all live when it arrived,
\* although three queries read them at three instants (actor-auth.ts:24,
\* headless-session.ts:164).
ServedWasLive ==
    \A r \in Calls : call[r].at = "served" => call[r].arrivedLive

\* One signed nonce opens at most one session, however many copies of the
\* signed request pass the first query together (grant.ts:220, "consumed
\* atomically so a captured signature cannot be replayed").
OneSessionPerNonce ==
    \A l, m \in Logins :
        login[l].at \in {"consumed", "issued"}
        /\ login[m].at \in {"consumed", "issued"}
        /\ login[l].nonce = login[m].nonce => l = m
=============================================================================
