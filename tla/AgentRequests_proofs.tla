----------------------- MODULE AgentRequests_proofs -----------------------
(***************************************************************************)
(* Proofs about AgentRequests, for any number of nonces, logins, token     *)
(* exchanges and requests in flight, any grants and any clock: its type    *)
(* invariant, that a signed nonce opens one session, and that a revocation *)
(* is felt by every request that arrives after it, although a request      *)
(* reads the rows it stands on one at a time.                              *)
(***************************************************************************)
EXTENDS AgentRequests, HeadlessAccess_proofs

----------------------------------------------------------------------------
\* Type correctness.

LEMMA RequestsInitType == RequestsInit => RequestsTypeOK
BY DEF RequestsInit, RequestsTypeOK, NonceRow, LoginRecord, ExchangeRecord,
       CallRecord, NoLogin, NoExchange, NoCall

LEMMA RequestStepType ==
    AccessTypeOK /\ RequestsTypeOK /\ RequestStep => RequestsTypeOK'
<1> SUFFICES ASSUME AccessTypeOK, RequestsTypeOK, RequestStep
             PROVE  RequestsTypeOK'
  OBVIOUS
<1>t. /\ now \in Nat
      /\ nonce \in [Nonces -> NonceRow]
      /\ login \in [Logins -> LoginRecord]
      /\ exchange \in [Exchanges -> ExchangeRecord]
      /\ call \in [Calls -> CallRecord]
  BY AccessAssumption DEF AccessTypeOK, RequestsTypeOK
<1>1. ASSUME NEW n \in Nonces, IssueChallenge(n)
      PROVE  RequestsTypeOK'
  <2>1. nonce' \in [Nonces -> NonceRow]
    BY <1>1, <1>t, RequestsAssumption DEF IssueChallenge, NonceRow
  <2> QED
    BY <1>1, <1>t, <2>1 DEF IssueChallenge, RequestsTypeOK
<1>2. ASSUME NEW l \in Logins, NEW n \in Nonces, LoadChallenge(l, n)
      PROVE  RequestsTypeOK'
  <2>1. login' \in [Logins -> LoginRecord]
    BY <1>2, <1>t DEF LoadChallenge, LoginRecord
  <2> QED
    BY <1>2, <1>t, <2>1 DEF LoadChallenge, RequestsTypeOK
<1>3. ASSUME NEW l \in Logins, ConsumeChallenge(l)
      PROVE  RequestsTypeOK'
  <2>1. nonce' \in [Nonces -> NonceRow]
    BY <1>3, <1>t DEF ConsumeChallenge, NonceRow
  <2>2. login' \in [Logins -> LoginRecord]
    BY <1>3, <1>t DEF ConsumeChallenge, LoginRecord, NoLogin
  <2> QED
    BY <1>3, <1>t, <2>1, <2>2 DEF ConsumeChallenge, RequestsTypeOK
<1>4. ASSUME NEW l \in Logins, IssueSession(l)
      PROVE  RequestsTypeOK'
  <2>1. now + SessionTtl \in Nat
    BY <1>t, RequestsAssumption
  <2>2. login' \in [Logins -> LoginRecord]
    BY <1>4, <1>t, <2>1 DEF IssueSession, LoginRecord, NoLogin
  <2> QED
    BY <1>4, <1>t, <2>2 DEF IssueSession, RequestsTypeOK
<1>5. ASSUME NEW x \in Exchanges, NEW c \in Credentials, FindCredential(x, c)
      PROVE  RequestsTypeOK'
  <2>1. exchange' \in [Exchanges -> ExchangeRecord]
    BY <1>5, <1>t DEF FindCredential, ExchangeRecord
  <2> QED
    BY <1>5, <1>t, <2>1 DEF FindCredential, RequestsTypeOK
<1>6. ASSUME NEW x \in Exchanges, FindAuthorization(x)
      PROVE  RequestsTypeOK'
  <2>1. exchange' \in [Exchanges -> ExchangeRecord]
    BY <1>6, <1>t DEF FindAuthorization, ExchangeRecord, NoExchange
  <2> QED
    BY <1>6, <1>t, <2>1 DEF FindAuthorization, RequestsTypeOK
<1>7. ASSUME NEW x \in Exchanges, IssueAccessToken(x)
      PROVE  RequestsTypeOK'
  <2>1. now + AccessTokenTtl \in Nat
    BY <1>t, RequestsAssumption
  <2>2. exchange' \in [Exchanges -> ExchangeRecord]
    BY <1>7, <1>t, <2>1 DEF IssueAccessToken, ExchangeRecord, NoExchange
  <2> QED
    BY <1>7, <1>t, <2>2 DEF IssueAccessToken, RequestsTypeOK
<1>8. ASSUME NEW r \in Calls, NEW t \in Tokens, NEW q \in Templates,
             Arrive(r, t, q)
      PROVE  RequestsTypeOK'
  <2>1. ReadsOf(t) \in SUBSET {"authorization", "credential", "agent", "permissions"}
    BY DEF ReadsOf
  <2>2. GrantLive(t) \in BOOLEAN
    BY DEF GrantLive
  <2>3. call' \in [Calls -> CallRecord]
    BY <1>8, <1>t, <2>1, <2>2 DEF Arrive, CallRecord
  <2> QED
    BY <1>8, <1>t, <2>3 DEF Arrive, RequestsTypeOK
<1>9. ASSUME NEW r \in Calls,
             NEW row \in {"authorization", "credential", "agent", "permissions"},
             Read(r, row)
      PROVE  RequestsTypeOK'
  <2>1. call' \in [Calls -> CallRecord]
    BY <1>9, <1>t DEF Read, CallRecord, NoCall
  <2> QED
    BY <1>9, <1>t, <2>1 DEF Read, RequestsTypeOK
<1>10. ASSUME NEW r \in Calls, ServeCall(r)
      PROVE  RequestsTypeOK'
  <2>1. call' \in [Calls -> CallRecord]
    BY <1>10, <1>t DEF ServeCall, CallRecord
  <2> QED
    BY <1>10, <1>t, <2>1 DEF ServeCall, RequestsTypeOK
<1> QED
  BY <1>1, <1>2, <1>3, <1>4, <1>5, <1>6, <1>7, <1>8, <1>9, <1>10 DEF RequestStep

\* What a step of the requests, or a step of the grants, leaves alone.
LEMMA RequestsLeaveGrants == RequestStep => UNCHANGED accessVars
BY DEF RequestStep, IssueChallenge, LoadChallenge, ConsumeChallenge,
       IssueSession, FindCredential, FindAuthorization, IssueAccessToken,
       Arrive, Read, ServeCall

LEMMA StepIsOfOne ==
    [RequestsNext]_allVars =>
        \/ [AccessNext]_accessVars /\ UNCHANGED requestVars
        \/ RequestStep /\ UNCHANGED accessVars
BY RequestsLeaveGrants DEF RequestsNext, allVars, accessVars, requestVars

TypesOK == AccessTypeOK /\ RequestsTypeOK

LEMMA TypesStep == TypesOK /\ [RequestsNext]_allVars => TypesOK'
<1> SUFFICES ASSUME TypesOK, [RequestsNext]_allVars PROVE TypesOK'
  OBVIOUS
<1>1. CASE [AccessNext]_accessVars /\ UNCHANGED requestVars
  <2>1. AccessTypeOK'
    BY <1>1, AccessNextType, AccessStutterType DEF TypesOK
  <2>2. RequestsTypeOK'
    BY <1>1 DEF TypesOK, RequestsTypeOK, requestVars
  <2> QED
    BY <2>1, <2>2 DEF TypesOK
<1>2. CASE RequestStep /\ UNCHANGED accessVars
  BY <1>2, RequestStepType, AccessStutterType DEF TypesOK
<1> QED
  BY <1>1, <1>2, StepIsOfOne

\* Every reachable state of the grants and of the requests beside them is well
\* typed.
THEOREM RequestsTypeCorrect == RequestsSpec => [](AccessTypeOK /\ RequestsTypeOK)
<1>1. AccessInit /\ RequestsInit => TypesOK
  BY AccessInitType, RequestsInitType DEF TypesOK
<1> QED
  BY <1>1, TypesStep, PTL DEF RequestsSpec, AllInit, TypesOK

----------------------------------------------------------------------------
\* One session per nonce.  A login that is past its update has consumed the
\* nonce, and the update takes an open one only.

SpentIsConsumed ==
    \A l \in Logins : login[l].at \in {"consumed", "issued"} =>
        nonce[login[l].nonce].state = "consumed"

LoadedHasNonce ==
    \A l \in Logins : login[l].at # "idle" => login[l].nonce \in Nonces

LoginInv == SpentIsConsumed /\ LoadedHasNonce /\ OneSessionPerNonce

LEMMA LoginStep == TypesOK /\ LoginInv /\ [RequestsNext]_allVars => LoginInv'
<1> SUFFICES ASSUME TypesOK, LoginInv, [RequestsNext]_allVars PROVE LoginInv'
  OBVIOUS
<1> USE DEF LoginInv, SpentIsConsumed, LoadedHasNonce, OneSessionPerNonce
<1>t. /\ nonce \in [Nonces -> NonceRow]
      /\ login \in [Logins -> LoginRecord]
  BY DEF TypesOK, RequestsTypeOK
<1>1. CASE UNCHANGED <<nonce, login>>
  BY <1>1
<1>2. ASSUME NEW n \in Nonces, IssueChallenge(n) PROVE LoginInv'
  BY <1>2, <1>t DEF IssueChallenge, NonceRow
<1>3. ASSUME NEW l \in Logins, NEW n \in Nonces, LoadChallenge(l, n)
      PROVE  LoginInv'
  BY <1>3, <1>t DEF LoadChallenge, LoginRecord
<1>4. ASSUME NEW l \in Logins, ConsumeChallenge(l) PROVE LoginInv'
  <2>1. login[l].at = "loaded" /\ login[l].nonce \in Nonces
    BY <1>4 DEF ConsumeChallenge
  <2>2. CASE NonceOpen(login[l].nonce)
    <3>1. /\ nonce' = [nonce EXCEPT ![login[l].nonce].state = "consumed"]
          /\ login' = [login EXCEPT ![l].at = "consumed"]
      BY <1>4, <2>2 DEF ConsumeChallenge
    <3>2. nonce[login[l].nonce].state = "open"
      BY <2>2 DEF NonceOpen
    <3>3. \A m \in Logins : login'[m].nonce = login[m].nonce
      BY <3>1, <1>t DEF LoginRecord
    <3>4. \A m \in Logins \ {l} : login'[m].at = login[m].at
      BY <3>1, <1>t DEF LoginRecord
    <3>5. SpentIsConsumed' /\ LoadedHasNonce'
      BY <3>1, <3>3, <3>4, <2>1, <1>t DEF LoginRecord, NonceRow
    <3>6. ASSUME NEW m \in Logins \ {l}, login[m].at \in {"consumed", "issued"}
          PROVE  login[m].nonce # login[l].nonce
      BY <3>2, <3>6
    <3>7. OneSessionPerNonce'
      BY <3>3, <3>4, <3>6
    <3> QED
      BY <3>5, <3>7
  <2>3. CASE ~NonceOpen(login[l].nonce)
    BY <1>4, <2>3, <1>t DEF ConsumeChallenge, NoLogin, LoginRecord
  <2> QED
    BY <2>2, <2>3
<1>5. ASSUME NEW l \in Logins, IssueSession(l) PROVE LoginInv'
  BY <1>5, <1>t DEF IssueSession, NoLogin, LoginRecord
<1>6. CASE RequestStep
  BY <1>6, <1>1, <1>2, <1>3, <1>4, <1>5
     DEF RequestStep, FindCredential, FindAuthorization, IssueAccessToken,
         Arrive, Read, ServeCall
<1> QED
  BY <1>1, <1>6, StepIsOfOne DEF requestVars

\* However many copies of a signed login request are served at once, and
\* however they interleave, one session is opened by a nonce (grant.ts:220).
THEOREM OneSession == RequestsSpec => []OneSessionPerNonce
<1>1. AccessInit /\ RequestsInit => LoginInv
  BY DEF RequestsInit, NoLogin, LoginInv, SpentIsConsumed, LoadedHasNonce,
         OneSessionPerNonce
<1>2. RequestsSpec => []TypesOK
  BY RequestsTypeCorrect, PTL DEF TypesOK
<1>3. LoginInv => OneSessionPerNonce
  BY DEF LoginInv
<1> QED
  BY <1>1, <1>2, <1>3, LoginStep, PTL DEF RequestsSpec, AllInit
----------------------------------------------------------------------------
\* Revocations are felt.  What a token stands for only ever goes down: a
\* revoked agent, an ended or expired authorization and a revoked credential
\* stay so.  A request that arrived too late therefore still has to read one
\* row that refuses it.

\* What a step of the grants does to the rows that tokens name.
NothingRises ==
    /\ agentStatus # "ready" => agentStatus' # "ready"
    /\ \A a \in Authorizations :
         authorization[a].status \notin {"absent", "draft"} =>
            /\ authorization'[a].status \notin {"absent", "draft"}
            /\ ~Live(a) => ~Live(a)'
    /\ \A c \in Credentials :
         credential[c].status # "absent" =>
            /\ credential'[c].status # "absent"
            /\ credential[c].status # "active" => credential'[c].status # "active"

LEMMA GrantsNeverRise == AccessTypeOK /\ [AccessNext]_accessVars => NothingRises
<1> SUFFICES ASSUME AccessTypeOK, [AccessNext]_accessVars PROVE NothingRises
  OBVIOUS
<1> USE DEF NothingRises, Live, LiveAt
<1>t. /\ authorization \in [Authorizations -> AuthorizationRow]
      /\ credential \in [Credentials -> CredentialRow]
      /\ now \in Nat
  BY AccessAssumption DEF AccessTypeOK
<1>1. ASSUME NEW a \in Authorizations,
             CreateDraft(a) \/ ExpireDraft(a) \/ Activate(a)
      PROVE  NothingRises
  BY <1>1, <1>t DEF CreateDraft, ExpireDraft, Activate, AuthorizationRow
<1>2. ASSUME NEW h \in Challenges,
             OpenChallenge(h) \/ RotateCheck(h) \/ RotateRollback(h)
      PROVE  NothingRises
  BY <1>2 DEF OpenChallenge, RotateCheck, RotateRollback
<1>3. ASSUME NEW h \in Challenges, NEW c \in Credentials, RotateCommit(h, c)
      PROVE  NothingRises
  BY <1>3, <1>t DEF RotateCommit, CredentialRow
<1>4. ASSUME NEW b \in BOOLEAN, RevokeAccess(b) PROVE NothingRises
  BY <1>4, <1>t DEF RevokeAccess, AuthorizationRow, CredentialRow
<1>5. ASSUME RevokeAgent \/ \E T \in SUBSET Templates : SetPermissions(T)
      PROVE  NothingRises
  BY <1>5 DEF RevokeAgent, SetPermissions
<1>6. CASE Tick
  BY <1>6, <1>t DEF Tick, AuthorizationRow
<1>7. CASE UNCHANGED accessVars
  BY <1>7 DEF accessVars
<1> QED
  BY <1>1, <1>2, <1>3, <1>4, <1>5, <1>6, <1>7 DEF AccessNext

\* An exchange names rows that were live when it read them, and a token in use
\* is one that was issued.
ExchangesAnchored ==
    \A x \in Exchanges :
        /\ exchange[x].at # "idle" =>
              /\ exchange[x].credential \in Credentials
              /\ credential[exchange[x].credential].status # "absent"
        /\ exchange[x].at \in {"authorization", "issued"} =>
              /\ exchange[x].authorization \in Authorizations
              /\ authorization[exchange[x].authorization].status
                    \notin {"absent", "draft"}

Issued(t) ==
    \/ t \in Logins /\ login[t].at = "issued"
    \/ t \in Exchanges /\ exchange[t].at = "issued"

CallsHoldTokens ==
    \A r \in Calls : call[r].at # "idle" => Issued(call[r].token)

\* The rows a token stands for that are no longer live.
Down(t) ==
    (IF agentStatus # "ready" THEN {"agent"} ELSE {})
    \cup (IF t \in Exchanges /\ ~Live(exchange[t].authorization)
          THEN {"authorization"} ELSE {})
    \cup (IF t \in Exchanges /\ credential[exchange[t].credential].status # "active"
          THEN {"credential"} ELSE {})

LateReadsDown ==
    \A r \in Calls :
        call[r].at # "idle" /\ ~call[r].arrivedLive =>
            /\ call[r].at = "reading"
            /\ call[r].unread \cap Down(call[r].token) # {}

CallInv == ExchangesAnchored /\ CallsHoldTokens /\ LateReadsDown

LEMMA CallGrantStep ==
    ASSUME TypesOK, CallInv, [AccessNext]_accessVars, UNCHANGED requestVars
    PROVE  CallInv'
<1>1. NothingRises
  BY GrantsNeverRise DEF TypesOK
<1>2. UNCHANGED <<login, exchange, call>>
  BY DEF requestVars
<1>3. ExchangesAnchored'
  BY <1>1, <1>2 DEF CallInv, ExchangesAnchored, NothingRises
<1>4. CallsHoldTokens'
  BY <1>2 DEF CallInv, CallsHoldTokens, Issued
<1>5. ASSUME NEW t, Issued(t) PROVE Down(t) \subseteq Down(t)'
  <2>1. CASE t \in Exchanges
    <3>1. CASE exchange[t].at = "issued"
      <4>1. /\ exchange[t].credential \in Credentials
            /\ credential[exchange[t].credential].status # "absent"
            /\ exchange[t].authorization \in Authorizations
            /\ authorization[exchange[t].authorization].status
                  \notin {"absent", "draft"}
        BY <2>1, <3>1 DEF CallInv, ExchangesAnchored
      <4>2. ~Live(exchange[t].authorization) => ~Live(exchange[t].authorization)'
        BY <1>1, <1>2, <4>1 DEF NothingRises, Live, LiveAt
      <4> QED
        BY <1>1, <1>2, <2>1, <4>1, <4>2 DEF NothingRises, Down
    <3>2. CASE exchange[t].at # "issued"
      BY <1>5, <2>1, <3>2, RequestsAssumption DEF Issued
    <3> QED
      BY <3>1, <3>2
  <2>2. CASE t \notin Exchanges
    BY <1>1, <2>2 DEF NothingRises, Down
  <2> QED
    BY <2>1, <2>2
<1>6. ASSUME NEW r \in Calls, call[r].at # "idle", ~call[r].arrivedLive
      PROVE  /\ call[r].at = "reading"
             /\ call[r].unread \cap Down(call[r].token)' # {}
  <2>1. /\ call[r].at = "reading"
        /\ call[r].unread \cap Down(call[r].token) # {}
    BY <1>6 DEF CallInv, LateReadsDown
  <2>2. Issued(call[r].token)
    BY <1>6 DEF CallInv, CallsHoldTokens
  <2>3. Down(call[r].token) \subseteq Down(call[r].token)'
    BY <1>2, <1>5, <2>2
  <2> QED
    BY <2>1, <2>3
<1>7. LateReadsDown'
  BY <1>2, <1>6 DEF LateReadsDown
<1> QED
  BY <1>3, <1>4, <1>7 DEF CallInv

\* The rows a request has to read are those whose loss a call can meet.
LEMMA LateMeetsDown ==
    ASSUME NEW t \in Tokens, Valid(t), ~GrantLive(t)
    PROVE  ReadsOf(t) \cap Down(t) # {}
<1>1. CASE agentStatus # "ready"
  BY <1>1 DEF ReadsOf, Down
<1>2. CASE agentStatus = "ready"
  <2>1. t \in Exchanges
    BY <1>2 DEF GrantLive
  <2>2. \/ ~Live(exchange[t].authorization)
        \/ credential[exchange[t].credential].status # "active"
    BY <1>2 DEF GrantLive
  <2>3. CASE ~Live(exchange[t].authorization)
    BY <2>1, <2>3 DEF ReadsOf, Down
  <2>4. CASE credential[exchange[t].credential].status # "active"
    BY <2>1, <2>4 DEF ReadsOf, Down
  <2> QED
    BY <2>2, <2>3, <2>4
<1> QED
  BY <1>1, <1>2

LEMMA CallRequestStep ==
    ASSUME TypesOK, CallInv, RequestStep, UNCHANGED accessVars
    PROVE  CallInv'
<1>t. /\ login \in [Logins -> LoginRecord]
      /\ exchange \in [Exchanges -> ExchangeRecord]
      /\ call \in [Calls -> CallRecord]
  BY DEF TypesOK, RequestsTypeOK
<1>a. UNCHANGED <<now, agentStatus, authorization, credential>>
  BY DEF accessVars
<1>i. ExchangesAnchored /\ CallsHoldTokens /\ LateReadsDown
  BY DEF CallInv
\* A token that is out stays as it is.
<1>k. ASSUME UNCHANGED call, ExchangesAnchored',
             \A t : Issued(t) => Issued(t)'
                    /\ (t \in Exchanges => exchange'[t] = exchange[t])
      PROVE  CallInv'
  <2>1. CallsHoldTokens'
    BY <1>i, <1>k DEF CallsHoldTokens
  <2>2. ASSUME NEW t, Issued(t) PROVE Down(t)' = Down(t)
    BY <1>a, <1>k, <2>2 DEF Down, Live, LiveAt
  <2>3. LateReadsDown'
    BY <1>i, <1>k, <2>2 DEF LateReadsDown, CallsHoldTokens
  <2> QED
    BY <1>k, <2>1, <2>3 DEF CallInv
<1>1. ASSUME NEW n \in Nonces, IssueChallenge(n) PROVE CallInv'
  <2>1. UNCHANGED <<login, exchange, call>>
    BY <1>1 DEF IssueChallenge
  <2> QED
    BY <1>a, <1>i, <1>k, <2>1 DEF ExchangesAnchored, Issued
<1>2. ASSUME NEW l \in Logins, NEW n \in Nonces, LoadChallenge(l, n) PROVE CallInv'
  <2>1. UNCHANGED <<exchange, call>> /\ ExchangesAnchored'
    BY <1>2, <1>a, <1>i DEF LoadChallenge, ExchangesAnchored
  <2>2. \A m \in Logins : login[m].at = "issued" => login'[m].at = "issued"
    BY <1>2, <1>t DEF LoadChallenge, LoginRecord
  <2> QED
    BY <1>k, <2>1, <2>2 DEF Issued
<1>3. ASSUME NEW l \in Logins, ConsumeChallenge(l) PROVE CallInv'
  <2>1. UNCHANGED <<exchange, call>> /\ ExchangesAnchored'
    BY <1>3, <1>a, <1>i DEF ConsumeChallenge, ExchangesAnchored
  <2>2. \A m \in Logins : login[m].at = "issued" => login'[m].at = "issued"
    BY <1>3, <1>t DEF ConsumeChallenge, LoginRecord
  <2> QED
    BY <1>k, <2>1, <2>2 DEF Issued
<1>4. ASSUME NEW l \in Logins, IssueSession(l) PROVE CallInv'
  <2>1. UNCHANGED <<exchange, call>> /\ ExchangesAnchored'
    BY <1>4, <1>a, <1>i DEF IssueSession, ExchangesAnchored
  <2>2. \A m \in Logins : login[m].at = "issued" => login'[m].at = "issued"
    BY <1>4, <1>t DEF IssueSession, LoginRecord
  <2> QED
    BY <1>k, <2>1, <2>2 DEF Issued
<1>5. ASSUME NEW x \in Exchanges, NEW c \in Credentials, FindCredential(x, c)
      PROVE  CallInv'
  <2>1. /\ UNCHANGED <<login, call>>
        /\ exchange[x].at # "issued"
        /\ \A y \in Exchanges \ {x} : exchange'[y] = exchange[y]
    BY <1>5, <1>t DEF FindCredential
  <2>2. /\ exchange'[x].at = "credential"
        /\ exchange'[x].credential = c
        /\ credential'[c].status = "active"
    BY <1>5, <1>a, <1>t DEF FindCredential, ExchangeRecord
  <2>3. ExchangesAnchored'
    BY <1>a, <1>i, <2>1, <2>2 DEF ExchangesAnchored
  <2> QED
    BY <1>k, <2>1, <2>3, RequestsAssumption DEF Issued
<1>6. ASSUME NEW x \in Exchanges, FindAuthorization(x) PROVE CallInv'
  <2>1. /\ UNCHANGED <<login, call>>
        /\ exchange[x].at = "credential"
        /\ \A y \in Exchanges \ {x} : exchange'[y] = exchange[y]
    BY <1>6, <1>t DEF FindAuthorization
  <2>2. \/ exchange'[x] = NoExchange
        \/ \E a \in Authorizations :
              /\ Live(a)
              /\ exchange'[x].at = "authorization"
              /\ exchange'[x].credential = exchange[x].credential
              /\ exchange'[x].authorization = a
    BY <1>6, <1>t DEF FindAuthorization, ExchangeRecord
  <2>3. ExchangesAnchored'
    BY <1>a, <1>i, <2>1, <2>2 DEF ExchangesAnchored, NoExchange, Live, LiveAt
  <2> QED
    BY <1>k, <2>1, <2>3, RequestsAssumption DEF Issued
<1>7. ASSUME NEW x \in Exchanges, IssueAccessToken(x) PROVE CallInv'
  <2>1. /\ UNCHANGED <<login, call>>
        /\ exchange[x].at = "authorization"
        /\ \A y \in Exchanges \ {x} : exchange'[y] = exchange[y]
    BY <1>7, <1>t DEF IssueAccessToken
  <2>2. \/ exchange'[x] = NoExchange
        \/ /\ exchange'[x].credential = exchange[x].credential
           /\ exchange'[x].authorization = exchange[x].authorization
    BY <1>7, <1>t DEF IssueAccessToken, ExchangeRecord
  <2>3. ExchangesAnchored'
    BY <1>a, <1>i, <2>1, <2>2 DEF ExchangesAnchored, NoExchange
  <2> QED
    BY <1>k, <2>1, <2>3, RequestsAssumption DEF Issued
\* The steps of a request leave the tokens alone.
<1>c. ASSUME UNCHANGED <<login, exchange>>
      PROVE  /\ ExchangesAnchored'
             /\ \A t : Issued(t)' = Issued(t) /\ Down(t)' = Down(t)
  BY <1>a, <1>c, <1>i DEF ExchangesAnchored, Issued, Down, Live, LiveAt
<1>8. ASSUME NEW r \in Calls, NEW t \in Tokens, NEW q \in Templates,
             Arrive(r, t, q)
      PROVE  CallInv'
  <2>1. UNCHANGED <<login, exchange>> /\ Valid(t)
    BY <1>8 DEF Arrive
  <2>2. /\ \A s \in Calls \ {r} : call'[s] = call[s]
        /\ call'[r] = [at |-> "reading", token |-> t, template |-> q,
                       unread |-> ReadsOf(t), arrivedLive |-> GrantLive(t)]
    BY <1>8, <1>t DEF Arrive
  <2>3. Issued(t)
    BY <2>1 DEF Valid, Issued
  <2>4. CallsHoldTokens'
    BY <1>c, <1>i, <2>1, <2>2, <2>3 DEF CallsHoldTokens
  <2>5. ~GrantLive(t) => ReadsOf(t) \cap Down(t)' # {}
    BY <1>c, <2>1, LateMeetsDown
  <2>6. LateReadsDown'
    BY <1>c, <1>i, <2>1, <2>2, <2>5 DEF LateReadsDown
  <2> QED
    BY <1>c, <2>1, <2>4, <2>6 DEF CallInv
<1>9. ASSUME NEW r \in Calls,
             NEW row \in {"authorization", "credential", "agent", "permissions"},
             Read(r, row)
      PROVE  CallInv'
  <2>1. UNCHANGED <<login, exchange>> /\ call[r].at = "reading"
    BY <1>9 DEF Read
  <2>2. \A s \in Calls \ {r} : call'[s] = call[s]
    BY <1>9, <1>t DEF Read
  <2>3. CASE Finds(r, row)
    <3>1. /\ call'[r].at = "reading"
          /\ call'[r].token = call[r].token
          /\ call'[r].arrivedLive = call[r].arrivedLive
          /\ call'[r].unread = call[r].unread \ {row}
      BY <1>9, <1>t, <2>1, <2>3 DEF Read, CallRecord
    <3>2. row \notin Down(call[r].token)
      BY <2>3 DEF Finds, Down
    <3>3. CallsHoldTokens'
      BY <1>c, <1>i, <2>1, <2>2, <3>1 DEF CallsHoldTokens
    <3>4. LateReadsDown'
      BY <1>c, <1>i, <2>1, <2>2, <3>1, <3>2 DEF LateReadsDown
    <3> QED
      BY <1>c, <2>1, <3>3, <3>4 DEF CallInv
  <2>4. CASE ~Finds(r, row)
    <3>1. call'[r] = NoCall
      BY <1>9, <1>t, <2>4 DEF Read
    <3>2. call'[r].at = "idle"
      BY <3>1 DEF NoCall
    <3>3. CallsHoldTokens' /\ LateReadsDown'
      BY <1>c, <1>i, <2>1, <2>2, <3>2 DEF CallsHoldTokens, LateReadsDown
    <3> QED
      BY <1>c, <2>1, <3>3 DEF CallInv
  <2> QED
    BY <2>3, <2>4
<1>10. ASSUME NEW r \in Calls, ServeCall(r) PROVE CallInv'
  <2>1. UNCHANGED <<login, exchange>> /\ call[r].at = "reading" /\ call[r].unread = {}
    BY <1>10 DEF ServeCall
  <2>2. /\ \A s \in Calls \ {r} : call'[s] = call[s]
        /\ call'[r].token = call[r].token
        /\ call'[r].arrivedLive = call[r].arrivedLive
    BY <1>10, <1>t DEF ServeCall, CallRecord
  <2>3. call[r].arrivedLive
    BY <1>i, <1>t, <2>1 DEF LateReadsDown, CallRecord
  <2>4. CallsHoldTokens'
    BY <1>c, <1>i, <2>1, <2>2 DEF CallsHoldTokens
  <2>5. LateReadsDown'
    BY <1>c, <1>i, <2>1, <2>2, <2>3 DEF LateReadsDown
  <2> QED
    BY <1>c, <2>1, <2>4, <2>5 DEF CallInv
<1> QED
  BY <1>1, <1>2, <1>3, <1>4, <1>5, <1>6, <1>7, <1>8, <1>9, <1>10 DEF RequestStep

LEMMA CallStep == TypesOK /\ CallInv /\ [RequestsNext]_allVars => CallInv'
BY StepIsOfOne, CallGrantStep, CallRequestStep

\* No request is served whose agent was revoked, whose authorization had ended
\* or whose credential was revoked when it arrived, although its rows are read
\* by separate queries (actor-auth.ts:27, headless-session.ts:164).
THEOREM RevocationIsFelt == RequestsSpec => []ServedWasLive
<1>1. AccessInit /\ RequestsInit => CallInv
  BY DEF RequestsInit, NoExchange, NoCall, CallInv, ExchangesAnchored,
         CallsHoldTokens, LateReadsDown
<1>2. RequestsSpec => []TypesOK
  BY RequestsTypeCorrect, PTL DEF TypesOK
<1>3. CallInv /\ TypesOK => ServedWasLive
  BY DEF CallInv, LateReadsDown, ServedWasLive, TypesOK, RequestsTypeOK, CallRecord
<1> QED
  BY <1>1, <1>2, <1>3, CallStep, PTL DEF RequestsSpec, AllInit
=============================================================================
