---------------------------- MODULE HeadlessAccess ----------------------------
(***************************************************************************)
(* Owner-granted headless access to one hosted agent: the typed-data       *)
(* authorizations an owner signs, the client credentials minted under      *)
(* them, and the two revocations.  State and actions follow the SQL        *)
(* functions of migrations 260, 266, 268 and 269 and the handlers of       *)
(* packages/agent-gateway/src/auth/headless-authorization.ts.              *)
(*                                                                         *)
(* One agent is modelled: every function takes the agent id, locks or      *)
(* filters on it, and touches no other agent's rows.  Each SQL function is *)
(* one transaction at READ COMMITTED.  Functions that hold one advisory    *)
(* lock are serialised with themselves only; rotation, whose check and     *)
(* writes are separate statements under a lock that revocation does not    *)
(* take, is therefore two steps.                                           *)
(***************************************************************************)
EXTENDS Integers

CONSTANTS
    Authorizations,   \* ids of agent_authorizations rows
    Credentials,      \* ids of agent_authorization_credentials rows
    Challenges,       \* ids of agent_credential_rotation_challenges rows
    Templates,        \* daily_quest_templates the agent may be permitted
    Lifetime,         \* seconds until a drafted authorization expires
    DraftTtl,         \* seconds until an unsigned draft expires (10 minutes)
    ChallengeTtl,     \* seconds until a rotation challenge expires
    MaxTime,          \* bound on the clock
    None              \* SQL NULL for a foreign key

ASSUME AccessAssumption ==
    /\ Lifetime \in [Authorizations -> Nat \ {0}]
    /\ DraftTtl \in Nat \ {0}
    /\ ChallengeTtl \in Nat \ {0}
    /\ MaxTime \in Nat
    /\ None \notin Authorizations \cup Credentials \cup Challenges

VARIABLES
    now,              \* the database clock, now()
    agentStatus,      \* registered_agents.status, "ready" or "revoked" here
    permitted,        \* templates all five capabilities are granted for
    authorization,    \* authorization id -> row
    credential,       \* credential id -> row
    challenge,        \* challenge id -> row
    rotating          \* challenges whose rotation passed its checks, not committed

accessVars == <<now, agentStatus, permitted, authorization, credential,
                challenge, rotating>>

AuthorizationStatus ==
    {"absent", "draft", "active", "superseded", "revoked", "expired"}

AuthorizationRow ==
    [status : AuthorizationStatus, expiresAt : Nat, draftExpiresAt : Nat]

\* mintedBy is the challenge that agent_authorization_audit records for the
\* rotation.
CredentialRow ==
    [status : {"absent", "active", "revoked"},
     mintedBy : Challenges \cup {None}]

ChallengeRow ==
    [state : {"absent", "open", "consumed"},
     authorization : Authorizations \cup {None},
     expiresAt : Nat]

AccessTypeOK ==
    /\ now \in 0..MaxTime
    /\ agentStatus \in {"ready", "revoked"}
    /\ permitted \in SUBSET Templates
    /\ authorization \in [Authorizations -> AuthorizationRow]
    /\ credential \in [Credentials -> CredentialRow]
    /\ challenge \in [Challenges -> ChallengeRow]
    /\ rotating \in SUBSET Challenges

AccessInit ==
    /\ now = 0
    /\ agentStatus = "ready"
    /\ permitted = Templates
    /\ authorization = [a \in Authorizations |->
            [status |-> "absent", expiresAt |-> 0, draftExpiresAt |-> 0]]
    /\ credential = [c \in Credentials |->
            [status |-> "absent", mintedBy |-> None]]
    /\ challenge = [h \in Challenges |->
            [state |-> "absent", authorization |-> None, expiresAt |-> 0]]
    /\ rotating = {}

\* status = 'active' AND (expires_at IS NULL OR expires_at > t)
LiveAt(a, t) ==
    /\ authorization[a].status = "active"
    /\ t < authorization[a].expiresAt

Live(a) == LiveAt(a, now)

ActiveAuthorizations ==
    {a \in Authorizations : authorization[a].status = "active"}

ActiveCredentials ==
    {c \in Credentials : credential[c].status = "active"}

----------------------------------------------------------------------------
\* A slip: the row is created without its status, as a plain insert would.
CreateDraftPending(a) ==
    /\ authorization[a].status = "absent"
    /\ agentStatus = "ready"
    /\ authorization' = [authorization EXCEPT ![a].status = "pending",
                        ![a].draftExpiresAt = now + DraftTtl]
    /\ UNCHANGED <<now, agentStatus, permitted, credential, challenge, rotating>>

\* createAuthorizationDraft: needs a ready agent; inserts a draft that lives
\* ten minutes.
CreateDraft(a) ==
    /\ authorization[a].status = "absent"
    /\ agentStatus = "ready"
    /\ authorization' = [authorization EXCEPT ![a] =
            [status |-> "draft", expiresAt |-> now + Lifetime[a],
             draftExpiresAt |-> now + DraftTtl]]
    /\ UNCHANGED <<now, agentStatus, permitted, credential, challenge, rotating>>

\* activate_agent_authorization on a draft past its signing window.
ExpireDraft(a) ==
    /\ authorization[a].status = "draft"
    /\ authorization[a].draftExpiresAt <= now
    /\ authorization' = [authorization EXCEPT ![a].status = "expired"]
    /\ UNCHANGED <<now, agentStatus, permitted, credential, challenge, rotating>>

\* A slip: the previous authorization stays active.
ActivateBeside(a) ==
    /\ authorization[a].status = "draft"
    /\ now < authorization[a].draftExpiresAt
    /\ authorization' = [authorization EXCEPT ![a].status = "active"]
    /\ UNCHANGED <<now, agentStatus, permitted, credential, challenge, rotating>>

\* A slip: the signed document is honoured whatever became of its row.
ActivateAgain(a) ==
    /\ authorization[a].status # "absent"
    /\ now < authorization[a].expiresAt
    /\ authorization' = [b \in Authorizations |->
            IF b = a THEN [authorization[b] EXCEPT !.status = "active"]
            ELSE IF authorization[b].status = "active"
                 THEN [authorization[b] EXCEPT !.status = "superseded"]
                 ELSE authorization[b]]
    /\ UNCHANGED <<now, agentStatus, permitted, credential, challenge, rotating>>

\* activate_agent_authorization on a live draft: the previous active row, if
\* any, is superseded in the same transaction.  The agent's own status is not
\* read here.
Activate(a) ==
    /\ authorization[a].status = "draft"
    /\ now < authorization[a].draftExpiresAt
    /\ now < authorization[a].expiresAt
    /\ authorization' = [b \in Authorizations |->
            IF b = a THEN [authorization[b] EXCEPT !.status = "active"]
            ELSE IF authorization[b].status = "active"
                 THEN [authorization[b] EXCEPT !.status = "superseded"]
                 ELSE authorization[b]]
    /\ UNCHANGED <<now, agentStatus, permitted, credential, challenge, rotating>>

\* createCredentialRotationDraft: a challenge bound to the live authorization.
OpenChallenge(h) ==
    /\ challenge[h].state = "absent"
    /\ \E a \in Authorizations :
        /\ Live(a)
        /\ challenge' = [challenge EXCEPT ![h] =
                [state |-> "open", authorization |-> a,
                 expiresAt |-> now + ChallengeTtl]]
    /\ UNCHANGED <<now, agentStatus, permitted, authorization, credential, rotating>>

\* rotate_agent_authorization_credential up to its last check.  The advisory
\* lock admits one rotation at a time, and the challenge row stays locked.
RotateCheck(h) ==
    /\ rotating = {}
    /\ agentStatus = "ready"
    /\ challenge[h].state = "open"
    /\ now < challenge[h].expiresAt
    /\ Live(challenge[h].authorization)
    /\ rotating' = {h}
    /\ UNCHANGED <<now, agentStatus, permitted, authorization, credential, challenge>>

\* A slip: the challenge is not consumed.
RotateCommitReusable(h, c) ==
    /\ h \in rotating
    /\ credential[c].status = "absent"
    /\ credential' = [d \in Credentials |->
            IF d = c THEN [status |-> "active", mintedBy |-> h]
            ELSE IF credential[d].status = "active"
                 THEN [credential[d] EXCEPT !.status = "revoked"]
                 ELSE credential[d]]
    /\ rotating' = {}
    /\ UNCHANGED <<now, agentStatus, permitted, authorization, challenge>>

\* The writes of the same transaction: consume the challenge, revoke whatever
\* credential is active by now, insert the new one.  None of them looks at the
\* authorization again.
RotateCommit(h, c) ==
    /\ h \in rotating
    /\ credential[c].status = "absent"
    /\ challenge' = [challenge EXCEPT ![h].state = "consumed"]
    /\ credential' = [d \in Credentials |->
            IF d = c THEN [status |-> "active", mintedBy |-> h]
            ELSE IF credential[d].status = "active"
                 THEN [credential[d] EXCEPT !.status = "revoked"]
                 ELSE credential[d]]
    /\ rotating' = {}
    /\ UNCHANGED <<now, agentStatus, permitted, authorization>>

\* The rotation's transaction fails before it commits: nothing is kept.
RotateRollback(h) ==
    /\ h \in rotating
    /\ rotating' = {}
    /\ UNCHANGED <<now, agentStatus, permitted, authorization, credential, challenge>>

\* revoke_agent_headless_access; with revokeAuthorization FALSE only the
\* credential goes.
RevokeAccess(revokeAuthorization) ==
    /\ credential' = [c \in Credentials |->
            IF credential[c].status = "active"
            THEN [credential[c] EXCEPT !.status = "revoked"]
            ELSE credential[c]]
    /\ authorization' =
            IF revokeAuthorization
            THEN [a \in Authorizations |->
                    IF authorization[a].status = "active"
                    THEN [authorization[a] EXCEPT !.status = "revoked"]
                    ELSE authorization[a]]
            ELSE authorization
    /\ UNCHANGED <<now, agentStatus, permitted, challenge, rotating>>

\* revoke_platform_agent; its lifecycle version check only refuses stale
\* callers.  Authorizations and credentials keep their status.
RevokeAgent ==
    /\ agentStatus = "ready"
    /\ agentStatus' = "revoked"
    /\ UNCHANGED <<now, permitted, authorization, credential, challenge, rotating>>

\* update_platform_agent_permissions: the whole grant is replaced.
SetPermissions(templates) ==
    /\ agentStatus = "ready"
    /\ permitted' = templates
    /\ UNCHANGED <<now, agentStatus, authorization, credential, challenge, rotating>>

Tick ==
    /\ now < MaxTime
    /\ now' = now + 1
    /\ UNCHANGED <<agentStatus, permitted, authorization, credential, challenge, rotating>>

AccessNext ==
    \/ \E a \in Authorizations : CreateDraft(a) \/ ExpireDraft(a) \/ Activate(a)
    \/ \E h \in Challenges : OpenChallenge(h) \/ RotateCheck(h) \/ RotateRollback(h)
    \/ \E h \in Challenges, c \in Credentials : RotateCommit(h, c)
    \/ \E b \in BOOLEAN : RevokeAccess(b)
    \/ RevokeAgent
    \/ \E T \in SUBSET Templates : SetPermissions(T)
    \/ Tick

AccessSpec == AccessInit /\ [][AccessNext]_accessVars

----------------------------------------------------------------------------
\* Two drafts signed in any order never leave two authorizations active, and
\* two rotations never leave two credentials active: activation supersedes and
\* rotation revokes inside its own transaction (266:129, 268:11).
SingleGrant ==
    /\ \A a, b \in ActiveAuthorizations : a = b
    /\ \A c, d \in ActiveCredentials : c = d

\* One owner signature over a rotation challenge mints at most one credential,
\* however often the signed request is sent again (consumed_at, 268:11).
OneCredentialPerSignature ==
    \A c, d \in Credentials :
        credential[c].mintedBy = credential[d].mintedBy
        /\ credential[c].mintedBy # None => c = d

\* A grant that ended stays ended: no sequence of drafts, activations and
\* revocations makes a superseded, revoked or expired authorization, or a
\* revoked credential, live again (266:129, 266:276).
EndedGrantsStayEnded ==
    [][/\ \A a \in Authorizations :
            authorization[a].status \in {"superseded", "revoked", "expired"}
            => authorization'[a].status = authorization[a].status
       /\ \A c \in Credentials :
            credential[c].status = "revoked"
            => credential'[c].status = "revoked"]_accessVars

\* Revoking the authorization also ends the credential minted under it: an
\* authorization only becomes revoked in the transaction that revokes the
\* active credential (revoke_agent_headless_access, 266:276).
RevocationEndsCredential ==
    \A c \in ActiveCredentials :
        authorization[challenge[credential[c].mintedBy].authorization].status
            # "revoked"
=============================================================================
