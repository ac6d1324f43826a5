------------------------ MODULE HeadlessAccess_proofs ------------------------
(***************************************************************************)
(* Proofs about HeadlessAccess, for any sets of authorizations,            *)
(* credentials and challenges: its type invariant, and that drafts,        *)
(* activations, rotations and revocations in any order leave one grant at  *)
(* most and bring no ended grant back.                                     *)
(***************************************************************************)
EXTENDS HeadlessAccess, TLAPS

----------------------------------------------------------------------------
\* Type correctness.

LEMMA AccessInitType == AccessInit => AccessTypeOK
BY AccessAssumption DEF AccessInit, AccessTypeOK, AuthorizationRow,
   AuthorizationStatus, CredentialRow, ChallengeRow

LEMMA AccessNextType == AccessTypeOK /\ AccessNext => AccessTypeOK'
<1> SUFFICES ASSUME AccessTypeOK, AccessNext PROVE AccessTypeOK'
  OBVIOUS
<1> USE AccessAssumption DEF AccessTypeOK, AuthorizationRow,
        AuthorizationStatus, CredentialRow, ChallengeRow
<1>1. ASSUME NEW a \in Authorizations, CreateDraft(a) PROVE AccessTypeOK'
  BY <1>1 DEF CreateDraft
<1>2. ASSUME NEW a \in Authorizations, ExpireDraft(a) PROVE AccessTypeOK'
  BY <1>2 DEF ExpireDraft
<1>3. ASSUME NEW a \in Authorizations, Activate(a) PROVE AccessTypeOK'
  BY <1>3 DEF Activate
<1>4. ASSUME NEW h \in Challenges, OpenChallenge(h) PROVE AccessTypeOK'
  BY <1>4 DEF OpenChallenge
<1>5. ASSUME NEW h \in Challenges, RotateCheck(h) PROVE AccessTypeOK'
  BY <1>5 DEF RotateCheck
<1>6. ASSUME NEW h \in Challenges, RotateRollback(h) PROVE AccessTypeOK'
  BY <1>6 DEF RotateRollback
<1>7. ASSUME NEW h \in Challenges, NEW c \in Credentials, RotateCommit(h, c)
      PROVE  AccessTypeOK'
  BY <1>7 DEF RotateCommit
<1>8. ASSUME NEW b \in BOOLEAN, RevokeAccess(b) PROVE AccessTypeOK'
  <2>1. credential' \in [Credentials -> CredentialRow]
    BY <1>8 DEF RevokeAccess
  <2>2. CASE b = TRUE
    <3>1. authorization' = [a \in Authorizations |->
            IF authorization[a].status = "active"
            THEN [authorization[a] EXCEPT !.status = "revoked"]
            ELSE authorization[a]]
      BY <1>8, <2>2 DEF RevokeAccess
    <3>2. authorization' \in [Authorizations -> AuthorizationRow]
      BY <3>1
    <3> QED
      BY <1>8, <2>1, <3>2 DEF RevokeAccess
  <2>3. CASE b = FALSE
    BY <1>8, <2>1, <2>3 DEF RevokeAccess
  <2> QED
    BY <2>2, <2>3
<1>9. CASE RevokeAgent
  BY <1>9 DEF RevokeAgent
<1>10. ASSUME NEW T \in SUBSET Templates, SetPermissions(T) PROVE AccessTypeOK'
  BY <1>10 DEF SetPermissions
<1>11. CASE Tick
  BY <1>11 DEF Tick
<1> QED
  BY <1>1, <1>2, <1>3, <1>4, <1>5, <1>6, <1>7, <1>8, <1>9, <1>10, <1>11
     DEF AccessNext

LEMMA AccessStutterType ==
    AccessTypeOK /\ UNCHANGED accessVars => AccessTypeOK'
BY DEF AccessTypeOK, accessVars

\* Every reachable access state is well typed.
THEOREM AccessTypeCorrect == AccessSpec => []AccessTypeOK
<1>1. AccessTypeOK /\ [AccessNext]_accessVars => AccessTypeOK'
  BY AccessNextType, AccessStutterType
<1> QED
  BY AccessInitType, <1>1, PTL DEF AccessSpec

----------------------------------------------------------------------------
\* One grant at a time.  The statuses alone are inductive: what makes another
\* row active ends the one that was.

LEMMA SingleGrantStep ==
    AccessTypeOK /\ SingleGrant /\ [AccessNext]_accessVars => SingleGrant'
<1> SUFFICES ASSUME AccessTypeOK, SingleGrant, [AccessNext]_accessVars
             PROVE  SingleGrant'
  OBVIOUS
<1> USE DEF SingleGrant, ActiveAuthorizations, ActiveCredentials
<1>t. /\ authorization \in [Authorizations -> AuthorizationRow]
      /\ credential \in [Credentials -> CredentialRow]
  BY DEF AccessTypeOK
<1>1. ASSUME NEW a \in Authorizations, CreateDraft(a) PROVE SingleGrant'
  BY <1>1, <1>t DEF CreateDraft
<1>2. ASSUME NEW a \in Authorizations, ExpireDraft(a) PROVE SingleGrant'
  BY <1>2, <1>t DEF ExpireDraft, AuthorizationRow
<1>3. ASSUME NEW a \in Authorizations, Activate(a) PROVE SingleGrant'
  <2>1. ASSUME NEW b \in Authorizations, b # a
        PROVE  authorization'[b].status # "active"
    BY <1>3, <1>t, <2>1 DEF Activate, AuthorizationRow
  <2> QED
    BY <1>3, <2>1 DEF Activate
<1>4. ASSUME NEW h \in Challenges,
             OpenChallenge(h) \/ RotateCheck(h) \/ RotateRollback(h)
      PROVE  SingleGrant'
  BY <1>4 DEF OpenChallenge, RotateCheck, RotateRollback
<1>5. ASSUME NEW h \in Challenges, NEW c \in Credentials, RotateCommit(h, c)
      PROVE  SingleGrant'
  <2>1. ASSUME NEW d \in Credentials, d # c
        PROVE  credential'[d].status # "active"
    BY <1>5, <1>t, <2>1 DEF RotateCommit, CredentialRow
  <2> QED
    BY <1>5, <2>1 DEF RotateCommit
<1>6. ASSUME NEW b \in BOOLEAN, RevokeAccess(b) PROVE SingleGrant'
  <2>1. ASSUME NEW a \in Authorizations, authorization'[a].status = "active"
        PROVE  authorization[a].status = "active"
    BY <1>6, <1>t, <2>1 DEF RevokeAccess, AuthorizationRow
  <2>2. ASSUME NEW c \in Credentials, credential'[c].status = "active"
        PROVE  credential[c].status = "active"
    BY <1>6, <1>t, <2>2 DEF RevokeAccess, CredentialRow
  <2> QED
    BY <2>1, <2>2
<1>7. ASSUME RevokeAgent \/ Tick \/ \E T \in SUBSET Templates : SetPermissions(T)
      PROVE  SingleGrant'
  BY <1>7 DEF RevokeAgent, Tick, SetPermissions
<1>8. CASE UNCHANGED accessVars
  BY <1>8 DEF accessVars
<1> QED
  BY <1>1, <1>2, <1>3, <1>4, <1>5, <1>6, <1>7, <1>8 DEF AccessNext

\* However many drafts are signed and rotations requested, at most one
\* authorization and one credential of the agent are active (266:129, 268:11).
THEOREM OneGrantAtATime == AccessSpec => []SingleGrant
<1>1. AccessInit => SingleGrant
  BY DEF AccessInit, SingleGrant, ActiveAuthorizations, ActiveCredentials
<1> QED
  BY <1>1, AccessTypeCorrect, SingleGrantStep, PTL DEF AccessSpec

----------------------------------------------------------------------------
\* The state part of EndedGrantsStayEnded.
EndedStays ==
    /\ \A a \in Authorizations :
         authorization[a].status \in {"superseded", "revoked", "expired"}
         => authorization'[a].status = authorization[a].status
    /\ \A c \in Credentials :
         credential[c].status = "revoked" => credential'[c].status = "revoked"

LEMMA EndedStaysStep == AccessTypeOK /\ [AccessNext]_accessVars => EndedStays
<1> SUFFICES ASSUME AccessTypeOK, [AccessNext]_accessVars PROVE EndedStays
  OBVIOUS
<1> USE DEF EndedStays
<1>t. /\ authorization \in [Authorizations -> AuthorizationRow]
      /\ credential \in [Credentials -> CredentialRow]
  BY DEF AccessTypeOK
<1>1. ASSUME NEW a \in Authorizations,
             CreateDraft(a) \/ ExpireDraft(a) \/ Activate(a)
      PROVE  EndedStays
  BY <1>1, <1>t DEF CreateDraft, ExpireDraft, Activate, AuthorizationRow
<1>2. ASSUME NEW h \in Challenges,
             OpenChallenge(h) \/ RotateCheck(h) \/ RotateRollback(h)
      PROVE  EndedStays
  BY <1>2 DEF OpenChallenge, RotateCheck, RotateRollback
<1>3. ASSUME NEW h \in Challenges, NEW c \in Credentials, RotateCommit(h, c)
      PROVE  EndedStays
  BY <1>3, <1>t DEF RotateCommit, CredentialRow
<1>4. ASSUME NEW b \in BOOLEAN, RevokeAccess(b) PROVE EndedStays
  BY <1>4, <1>t DEF RevokeAccess, AuthorizationRow, CredentialRow
<1>5. ASSUME RevokeAgent \/ Tick \/ \E T \in SUBSET Templates : SetPermissions(T)
      PROVE  EndedStays
  BY <1>5 DEF RevokeAgent, Tick, SetPermissions
<1>6. CASE UNCHANGED accessVars
  BY <1>6 DEF accessVars
<1> QED
  BY <1>1, <1>2, <1>3, <1>4, <1>5, <1>6 DEF AccessNext

\* No step of any function brings an ended authorization or credential back
\* (266:129, 266:276).
THEOREM EndedGrantsAreFinal == AccessSpec => EndedGrantsStayEnded
<1>1. AccessTypeOK /\ [AccessNext]_accessVars => [EndedStays]_accessVars
  BY EndedStaysStep
<1> QED
  BY <1>1, AccessTypeCorrect, PTL
     DEF AccessSpec, EndedGrantsStayEnded, EndedStays

----------------------------------------------------------------------------
\* One credential per signature.  The challenge of a rotation under way is
\* open, and a challenge that minted a credential is consumed.

MintInv ==
    /\ \A h \in rotating : challenge[h].state = "open"
    /\ \A c \in Credentials :
         credential[c].mintedBy # None =>
            challenge[credential[c].mintedBy].state = "consumed"
    /\ OneCredentialPerSignature

LEMMA MintInvStep ==
    AccessTypeOK /\ MintInv /\ [AccessNext]_accessVars => MintInv'
<1> SUFFICES ASSUME AccessTypeOK, MintInv, [AccessNext]_accessVars
             PROVE  MintInv'
  OBVIOUS
<1> USE DEF MintInv, OneCredentialPerSignature
<1>t. /\ credential \in [Credentials -> CredentialRow]
      /\ challenge \in [Challenges -> ChallengeRow]
      /\ rotating \in SUBSET Challenges
  BY DEF AccessTypeOK
<1>m. \A c \in Credentials : credential[c].mintedBy \in Challenges \cup {None}
  BY <1>t DEF CredentialRow
<1>1. CASE UNCHANGED <<credential, challenge, rotating>>
  BY <1>1
<1>2. ASSUME NEW h \in Challenges, OpenChallenge(h) PROVE MintInv'
  <2>1. /\ UNCHANGED <<credential, rotating>>
        /\ challenge[h].state = "absent"
        /\ \A g \in Challenges \ {h} : challenge'[g] = challenge[g]
    BY <1>2, <1>t DEF OpenChallenge
  <2> QED
    BY <1>t, <1>m, <2>1
<1>3. ASSUME NEW h \in Challenges, RotateCheck(h) PROVE MintInv'
  BY <1>3 DEF RotateCheck
<1>4. ASSUME NEW h \in Challenges, RotateRollback(h) PROVE MintInv'
  BY <1>4 DEF RotateRollback
<1>5. ASSUME NEW h \in Challenges, NEW c \in Credentials, RotateCommit(h, c)
      PROVE  MintInv'
  <2>1. /\ rotating' = {}
        /\ challenge[h].state = "open"
        /\ challenge'[h].state = "consumed"
        /\ \A g \in Challenges \ {h} : challenge'[g] = challenge[g]
    BY <1>5, <1>t DEF RotateCommit, ChallengeRow
  <2>2. /\ credential'[c].mintedBy = h
        /\ \A d \in Credentials \ {c} :
              credential'[d].mintedBy = credential[d].mintedBy
    BY <1>5, <1>t DEF RotateCommit, CredentialRow
  <2>3. \A d \in Credentials : credential[d].mintedBy # h
    BY <2>1, AccessAssumption
  <2> QED
    BY <1>m, <2>1, <2>2, <2>3
<1>6. ASSUME NEW b \in BOOLEAN, RevokeAccess(b) PROVE MintInv'
  <2>1. /\ UNCHANGED <<challenge, rotating>>
        /\ \A d \in Credentials : credential'[d].mintedBy = credential[d].mintedBy
    BY <1>6, <1>t DEF RevokeAccess, CredentialRow
  <2> QED
    BY <2>1
<1> QED
  BY <1>1, <1>2, <1>3, <1>4, <1>5, <1>6
     DEF AccessNext, CreateDraft, ExpireDraft, Activate, RevokeAgent,
         SetPermissions, Tick, accessVars

\* However often a signed rotation request is served, its challenge mints one
\* credential (headless-authorization.ts:411, 268:11).
THEOREM OneMintPerChallenge == AccessSpec => []OneCredentialPerSignature
<1>1. AccessInit => MintInv
  BY DEF AccessInit, MintInv, OneCredentialPerSignature
<1>2. MintInv => OneCredentialPerSignature
  BY DEF MintInv
<1> QED
  BY <1>1, <1>2, AccessTypeCorrect, MintInvStep, PTL DEF AccessSpec
=============================================================================
