----------------------- MODULE AgentLifecycle_proofs -----------------------
(***************************************************************************)
(* Proofs about AgentLifecycle, for any number of requests in flight and   *)
(* of attempts and any budget of them: its type invariant, that what an    *)
(* owner or World settled is not undone by a request that read the row     *)
(* before, and that a registration is attempted by one row and relayed     *)
(* once.                                                                   *)
(***************************************************************************)
EXTENDS AgentLifecycle, TLAPS

----------------------------------------------------------------------------
\* Type correctness.

Budget == [patches : Nat, edits : Nat, faults : Nat, deaths : Nat, attempts : Nat]
Queue == [wallet : BOOLEAN, confirm : SUBSET Attempts]

LEMMA AgentInitType == AgentInit => AgentTypeOK
<1> SUFFICES ASSUME AgentInit PROVE AgentTypeOK
  OBVIOUS
<1>1. agent \in AgentRow
  BY DEF AgentInit, AgentRow, WorldStatus
<1>2. attempt \in [Attempts -> AttemptRow]
  BY DEF AgentInit, AttemptRow
<1>3. request \in [Tabs -> Request]
  BY DEF AgentInit, Idle, Request, Step, WorldStatus
<1>4. budget \in Budget
  BY LifecycleAssumption DEF AgentInit, Budget
<1> QED
  BY <1>1, <1>2, <1>3, <1>4 DEF AgentInit, AgentTypeOK, Budget

\* What the helpers do to the variables they write.
LEMMA RequestWrites ==
    ASSUME request \in [Tabs -> Request], NEW t \in Tabs
    PROVE  /\ Answered(t) => request' \in [Tabs -> Request]
           /\ \A s \in Step : Goto(t, s) => request' \in [Tabs -> Request]
           /\ \A to \in WorldStatus : Set(t, to) => request' \in [Tabs -> Request]
           /\ AfterSet(t) => request' \in [Tabs -> Request]
           /\ Catch(t) => request' \in [Tabs -> Request]
<1>1. Idle \in Request
  BY DEF Idle, Request, Step, WorldStatus
<1>2. Answered(t) => request' \in [Tabs -> Request]
  BY <1>1 DEF Answered
<1>3. ASSUME NEW s \in Step, Goto(t, s) PROVE request' \in [Tabs -> Request]
  BY <1>3 DEF Goto, Request
<1>4. ASSUME NEW to \in WorldStatus, Set(t, to) PROVE request' \in [Tabs -> Request]
  <2>1. [request[t] EXCEPT !.at = "set", !.to = to] \in Request
    BY DEF Request, Step
  <2>2. request' = [request EXCEPT ![t] =
            [request[t] EXCEPT !.at = "set", !.to = to]]
    BY <1>4 DEF Set
  <2> QED
    BY <2>1, <2>2
<1>5. "resend" \in Step
  BY DEF Step
<1>6. AfterSet(t) => request' \in [Tabs -> Request]
  BY <1>2, <1>3, <1>5 DEF AfterSet
<1>7. Catch(t) => request' \in [Tabs -> Request]
  <2> DEFINE r == [request[t] EXCEPT !.at = "set", !.to = "submitted",
                                     !.last = FALSE]
  <2>1. r \in Request
    BY DEF Request, Step, WorldStatus
  <2>2. Catch(t) => request' = [request EXCEPT ![t] = r]
    BY DEF Catch
  <2> QED
    BY <2>1, <2>2
<1> QED
  BY <1>2, <1>3, <1>4, <1>6, <1>7

LEMMA BudgetWrites ==
    ASSUME budget \in Budget,
           NEW k \in {"patches", "edits", "faults", "deaths", "attempts"}, Spend(k)
    PROVE  budget' \in Budget
BY DEF Spend, Budget

LEMMA ClosedType ==
    ASSUME attempt \in [Attempts -> AttemptRow]
    PROVE  Closed \in [Attempts -> AttemptRow]
BY DEF Closed, AttemptRow

LEMMA StartedType ==
    ASSUME Closed \in [Attempts -> AttemptRow], NEW a, NEW number \in Nat
    PROVE  Started(a, number) \in [Attempts -> AttemptRow]
BY DEF Started, AttemptRow

\* A request that completes an attempt names it, and one that is to write the
\* permissions was asked to.
RequestsHold ==
    \A t \in Tabs :
        /\ request[t].at \in {"check", "claim", "relay", "submit", "resubmit",
                               "notify", "resend", "fail"}
              => request[t].attempt \in Attempts
        /\ request[t].at \in {"grant", "permit"} => "permissions" \in request[t].edits

LEMMA AgentNextType ==
    AgentTypeOK /\ RequestsHold /\ AgentNext => AgentTypeOK'
<1> SUFFICES ASSUME AgentTypeOK, RequestsHold, AgentNext PROVE AgentTypeOK'
  OBVIOUS
<1>t. /\ agent \in AgentRow
      /\ attempt \in [Attempts -> AttemptRow]
      /\ fresh \subseteq Tabs
      /\ request \in [Tabs -> Request]
      /\ queued \in Queue
      /\ book \in [human : BOOLEAN, nonce : Nat]
      /\ relays \subseteq Attempts
      /\ relayed \in [Attempts -> Nat]
      /\ budget \in Budget
  BY DEF AgentTypeOK, Queue, Budget
<1>s. /\ {"reset", "send", "undo", "permit", "grant", "revoke", "lookup", "nonce",
          "start", "reload", "claim", "relay", "submit", "resubmit", "notify",
          "resend", "fail"} \subseteq Step
      /\ WorldStatus = {"not_started", "in_progress", "skipped", "submitted",
                        "verified", "failed"}
  BY DEF Step, WorldStatus
<1>1. ASSUME NEW t \in Tabs, CreateAgent(t)
      PROVE  AgentTypeOK'
  <2>1. agent' \in AgentRow
    BY <1>1, <1>t DEF CreateAgent, Created, AgentRow
  <2>2. request' \in [Tabs -> Request]
    BY <1>1, <1>s, <1>t, RequestWrites DEF CreateAgent, Refused
  <2>3. fresh' \subseteq Tabs
    BY <1>1, <1>t DEF CreateAgent, Reads, Bump, Refused
  <2> QED
    BY <1>1, <1>t, <2>1, <2>2, <2>3
       DEF CreateAgent, AgentTypeOK, Queue, Budget, chainVars
<1>2. ASSUME NEW t \in Tabs, ProvisionRead(t)
      PROVE  AgentTypeOK'
  <2>1. request' \in [Tabs -> Request]
    BY <1>2, <1>s, <1>t, RequestWrites DEF ProvisionRead, Refused
  <2>2. fresh' \subseteq Tabs
    BY <1>2, <1>t DEF ProvisionRead, Reads, Bump, Refused
  <2> QED
    BY <1>2, <1>t, <2>1, <2>2
       DEF ProvisionRead, AgentTypeOK, Queue, Budget, chainVars
<1>3. ASSUME NEW t \in Tabs, NEW edits \in SUBSET Settings \ {{}}, PatchRead(t, edits)
      PROVE  AgentTypeOK'
  <2> DEFINE r == [request[t] EXCEPT !.edits = edits, !.seen = agent.edited,
                  !.at = IF edits = {"permissions"} THEN "permit" ELSE "policy"]
  <2>1. /\ agent.edited \in SUBSET Settings
        /\ "permit" \in Step /\ "policy" \in Step
    BY <1>t DEF Step, AgentRow
  <2>2. r \in Request
    BY <1>t, <2>1 DEF Request
  <2>3. request' = [request EXCEPT ![t] = r]
    BY <1>3 DEF PatchRead
  <2>4. request' \in [Tabs -> Request]
    BY <1>t, <2>2, <2>3
  <2>5. fresh' \subseteq Tabs
    BY <1>3, <1>t DEF PatchRead, Reads, Bump, Refused
  <2>6. budget' \in Budget
    BY <1>3, <1>t, BudgetWrites DEF PatchRead
  <2> QED
    BY <1>3, <1>t, <2>1, <2>2, <2>3, <2>4, <2>5, <2>6
       DEF PatchRead, AgentTypeOK, Queue, Budget, chainVars
<1>4. ASSUME NEW t \in Tabs, RevokeRead(t)
      PROVE  AgentTypeOK'
  <2>1. request' \in [Tabs -> Request]
    BY <1>4, <1>s, <1>t, RequestWrites DEF RevokeRead, Refused
  <2>2. fresh' \subseteq Tabs
    BY <1>4, <1>t DEF RevokeRead, Reads, Bump, Refused
  <2>3. budget' \in Budget
    BY <1>4, <1>t, BudgetWrites DEF RevokeRead
  <2> QED
    BY <1>4, <1>t, <2>1, <2>2, <2>3
       DEF RevokeRead, AgentTypeOK, Queue, Budget, chainVars
<1>5. ASSUME NEW t \in Tabs, SkipRead(t)
      PROVE  AgentTypeOK'
  <2>1. request' \in [Tabs -> Request]
    BY <1>5, <1>s, <1>t, RequestWrites DEF SkipRead, Refused
  <2>2. fresh' \subseteq Tabs
    BY <1>5, <1>t DEF SkipRead, Reads, Bump, Refused
  <2>3. budget' \in Budget
    BY <1>5, <1>t, BudgetWrites DEF SkipRead
  <2> QED
    BY <1>5, <1>t, <2>1, <2>2, <2>3
       DEF SkipRead, AgentTypeOK, Queue, Budget, chainVars
<1>6. ASSUME NEW t \in Tabs, SessionRead(t)
      PROVE  AgentTypeOK'
  <2>1. request' \in [Tabs -> Request]
    BY <1>6, <1>s, <1>t, RequestWrites DEF SessionRead, Refused
  <2>2. fresh' \subseteq Tabs
    BY <1>6, <1>t DEF SessionRead, Reads, Bump, Refused
  <2> QED
    BY <1>6, <1>t, <2>1, <2>2
       DEF SessionRead, AgentTypeOK, Queue, Budget, chainVars
<1>7. ASSUME NEW t \in Tabs, NEW a \in Attempts, CompleteRead(t, a)
      PROVE  AgentTypeOK'
  <2> DEFINE r == [request[t] EXCEPT !.at = "check", !.attempt = a]
  <2>1. r \in Request
    BY <1>t DEF Request, Step
  <2>2. request' = [request EXCEPT ![t] = r]
    BY <1>7 DEF CompleteRead
  <2>3. request' \in [Tabs -> Request]
    BY <1>t, <2>1, <2>2
  <2>4. fresh' \subseteq Tabs
    BY <1>7, <1>t DEF CompleteRead, Reads, Bump, Refused
  <2> QED
    BY <1>7, <1>t, <2>1, <2>2, <2>3, <2>4
       DEF CompleteRead, AgentTypeOK, Queue, Budget, chainVars
<1>8. ASSUME NEW t \in Tabs, NEW a \in Attempts, AskAgain(t, a)
      PROVE  AgentTypeOK'
  <2>1. fresh' \subseteq Tabs
    BY <1>8, <1>t DEF AskAgain, Reads, Bump, Refused
  <2>2. queued' \in Queue
    BY <1>8, <1>t DEF AskAgain, SendReconcile, Queue
  <2> QED
    BY <1>8, <1>t, <2>1, <2>2
       DEF AskAgain, AgentTypeOK, Queue, Budget, chainVars
<1>9. ASSUME NEW t \in Tabs, ProvisionReset(t)
      PROVE  AgentTypeOK'
  <2>1. agent' \in AgentRow
    BY <1>9, <1>t DEF ProvisionReset, Transition, CannotTransition, AgentRow
  <2>2. request' \in [Tabs -> Request]
    BY <1>9, <1>s, <1>t, RequestWrites DEF ProvisionReset, Refused
  <2>3. fresh' \subseteq Tabs
    BY <1>9, <1>t DEF ProvisionReset, Reads, Bump, Refused
  <2> QED
    BY <1>9, <1>t, <2>1, <2>2, <2>3
       DEF ProvisionReset, AgentTypeOK, Queue, Budget, chainVars
<1>10. ASSUME NEW t \in Tabs, SendProvision(t)
      PROVE  AgentTypeOK'
  <2>1. request' \in [Tabs -> Request]
    BY <1>10, <1>s, <1>t, RequestWrites DEF SendProvision, Refused
  <2>2. fresh' \subseteq Tabs
    BY <1>10, <1>t DEF SendProvision, Reads, Bump, Refused
  <2>3. queued' \in Queue
    BY <1>10, <1>t DEF SendProvision, Queue
  <2>4. budget' \in Budget
    BY <1>10, <1>t, BudgetWrites DEF SendProvision
  <2> QED
    BY <1>10, <1>t, <2>1, <2>2, <2>3, <2>4
       DEF SendProvision, AgentTypeOK, Queue, Budget, chainVars
<1>11. ASSUME NEW t \in Tabs, UndoProvision(t)
      PROVE  AgentTypeOK'
  <2>1. agent' \in AgentRow
    BY <1>11, <1>t DEF UndoProvision, Transition, CannotTransition, AgentRow
  <2>2. request' \in [Tabs -> Request]
    BY <1>11, <1>s, <1>t, RequestWrites DEF UndoProvision, Refused
  <2>3. fresh' \subseteq Tabs
    BY <1>11, <1>t DEF UndoProvision, Reads, Bump, Refused
  <2> QED
    BY <1>11, <1>t, <2>1, <2>2, <2>3
       DEF UndoProvision, AgentTypeOK, Queue, Budget, chainVars
<1>12. ASSUME NEW t \in Tabs, PolicyWrite(t)
      PROVE  AgentTypeOK'
  <2>1. agent' \in AgentRow
    BY <1>12, <1>t DEF PolicyWrite, AgentRow, Request
  <2>2. request' \in [Tabs -> Request]
    BY <1>12, <1>s, <1>t, RequestWrites DEF PolicyWrite, Refused
  <2>3. fresh' \subseteq Tabs
    BY <1>12, <1>t DEF PolicyWrite, Reads, Bump, Refused
  <2> QED
    BY <1>12, <1>t, <2>1, <2>2, <2>3
       DEF PolicyWrite, AgentTypeOK, Queue, Budget, chainVars
<1>13. ASSUME NEW t \in Tabs, PermissionsRead(t)
      PROVE  AgentTypeOK'
  <2>1. request' \in [Tabs -> Request]
    BY <1>13, <1>s, <1>t, RequestWrites DEF PermissionsRead, Refused
  <2>2. fresh' \subseteq Tabs
    BY <1>13, <1>t DEF PermissionsRead, Reads, Bump, Refused
  <2> QED
    BY <1>13, <1>t, <2>1, <2>2
       DEF PermissionsRead, AgentTypeOK, Queue, Budget, chainVars
<1>14. ASSUME NEW t \in Tabs, PermissionsWrite(t)
      PROVE  AgentTypeOK'
  <2>1. "permissions" \in Settings
    BY <1>14, <1>t DEF PermissionsWrite, At, RequestsHold, Request
  <2>2. agent' \in AgentRow
    BY <1>14, <1>t, <2>1 DEF PermissionsWrite, AgentRow
  <2>3. request' \in [Tabs -> Request]
    BY <1>14, <1>s, <1>t, RequestWrites DEF PermissionsWrite, Refused
  <2>4. fresh' \subseteq Tabs
    BY <1>14, <1>t DEF PermissionsWrite, Reads, Bump, Refused
  <2> QED
    BY <1>14, <1>t, <2>1, <2>2, <2>3, <2>4
       DEF PermissionsWrite, AgentTypeOK, Queue, Budget, chainVars
<1>15. ASSUME NEW t \in Tabs, RevokeWrite(t)
      PROVE  AgentTypeOK'
  <2>1. agent' \in AgentRow
    BY <1>15, <1>t DEF RevokeWrite, AgentRow
  <2>2. request' \in [Tabs -> Request]
    BY <1>15, <1>s, <1>t, RequestWrites DEF RevokeWrite, Refused
  <2>3. fresh' \subseteq Tabs
    BY <1>15, <1>t DEF RevokeWrite, Reads, Bump, Refused
  <2> QED
    BY <1>15, <1>t, <2>1, <2>2, <2>3
       DEF RevokeWrite, AgentTypeOK, Queue, Budget, chainVars
<1>16. ASSUME NEW t \in Tabs, SetWorldState(t)
      PROVE  AgentTypeOK'
  <2>1. agent' \in AgentRow
    BY <1>16, <1>t DEF SetWorldState, AgentRow, Request
  <2>2. request' \in [Tabs -> Request]
    BY <1>16, <1>s, <1>t, RequestWrites DEF SetWorldState, Refused
  <2>3. fresh' \subseteq Tabs
    BY <1>16, <1>t DEF SetWorldState, Reads, Bump, Refused
  <2> QED
    BY <1>16, <1>t, <2>1, <2>2, <2>3
       DEF SetWorldState, AgentTypeOK, Queue, Budget, chainVars
<1>17. ASSUME NEW t \in Tabs, ReloadVersion(t)
      PROVE  AgentTypeOK'
  <2>1. request' \in [Tabs -> Request]
    BY <1>17, <1>s, <1>t, RequestWrites
       DEF ReloadVersion, Refused, Request, Step
  <2>2. fresh' \subseteq Tabs
    BY <1>17, <1>t DEF ReloadVersion, Reads, Bump, Refused
  <2> QED
    BY <1>17, <1>t, <2>1, <2>2
       DEF ReloadVersion, AgentTypeOK, Queue, Budget, chainVars
<1>18. ASSUME NEW t \in Tabs, SessionLookup(t)
      PROVE  AgentTypeOK'
  <2>1. request' \in [Tabs -> Request]
    BY <1>18, <1>s, <1>t, RequestWrites DEF SessionLookup, Refused
  <2>2. fresh' \subseteq Tabs
    BY <1>18, <1>t DEF SessionLookup, Reads, Bump, Refused
  <2>3. budget' \in Budget
    BY <1>18, <1>t, BudgetWrites DEF SessionLookup
  <2> QED
    BY <1>18, <1>t, <2>1, <2>2, <2>3
       DEF SessionLookup, AgentTypeOK, Queue, Budget, chainVars
<1>19. ASSUME NEW t \in Tabs, SessionNonce(t)
      PROVE  AgentTypeOK'
  <2>1. request' \in [Tabs -> Request]
    BY <1>19, <1>s, <1>t, RequestWrites DEF SessionNonce, Refused, Request, Step
  <2>2. fresh' \subseteq Tabs
    BY <1>19, <1>t DEF SessionNonce, Reads, Bump, Refused
  <2>3. budget' \in Budget
    BY <1>19, <1>t, BudgetWrites DEF SessionNonce
  <2> QED
    BY <1>19, <1>t, <2>1, <2>2, <2>3
       DEF SessionNonce, AgentTypeOK, Queue, Budget, chainVars
<1>20. ASSUME NEW t \in Tabs, SessionStart(t)
      PROVE  AgentTypeOK'
  <2>1. agent' \in AgentRow
    BY <1>20, <1>t DEF SessionStart, AgentRow, WorldStatus
  <2>2. Closed \in [Attempts -> AttemptRow] /\ request[t].nonce \in Nat
    BY <1>t, ClosedType DEF Request
  <2>3. attempt' \in [Attempts -> AttemptRow]
    BY <1>20, <1>t, <2>2, StartedType DEF SessionStart
  <2>4. request' \in [Tabs -> Request]
    BY <1>20, <1>s, <1>t, RequestWrites DEF SessionStart, Refused
  <2>5. fresh' \subseteq Tabs
    BY <1>20, <1>t DEF SessionStart, Reads, Bump, Refused
  <2>6. budget' \in Budget
    BY <1>20, <1>t, BudgetWrites DEF SessionStart
  <2> QED
    BY <1>20, <1>t, <2>1, <2>2, <2>3, <2>4, <2>5, <2>6
       DEF SessionStart, AgentTypeOK, Queue, Budget, chainVars
<1>21. ASSUME NEW t \in Tabs, CompleteCheck(t)
      PROVE  AgentTypeOK'
  <2>1. request' \in [Tabs -> Request]
    BY <1>21, <1>s, <1>t, RequestWrites DEF CompleteCheck, Refused
  <2>2. fresh' \subseteq Tabs
    BY <1>21, <1>t DEF CompleteCheck, Reads, Bump, Refused
  <2>3. budget' \in Budget
    BY <1>21, <1>t, BudgetWrites DEF CompleteCheck
  <2> QED
    BY <1>21, <1>t, <2>1, <2>2, <2>3
       DEF CompleteCheck, AgentTypeOK, Queue, Budget, chainVars
<1>22. ASSUME NEW t \in Tabs, Claim(t)
      PROVE  AgentTypeOK'
  <2>1. attempt' \in [Attempts -> AttemptRow]
    BY <1>22, <1>t DEF Claim, AttemptRow
  <2>2. request' \in [Tabs -> Request]
    BY <1>22, <1>s, <1>t, RequestWrites DEF Claim, Refused
  <2>3. fresh' \subseteq Tabs
    BY <1>22, <1>t DEF Claim, Reads, Bump, Refused
  <2> QED
    BY <1>22, <1>t, <2>1, <2>2, <2>3
       DEF Claim, AgentTypeOK, Queue, Budget, chainVars
<1>23. ASSUME NEW t \in Tabs, Relay(t)
      PROVE  AgentTypeOK'
  <2>1. request' \in [Tabs -> Request]
    BY <1>23, <1>s, <1>t, RequestWrites DEF Relay, Refused
  <2>2. fresh' \subseteq Tabs
    BY <1>23, <1>t DEF Relay, Reads, Bump, Refused
  <2>3. budget' \in Budget
    BY <1>23, <1>t, BudgetWrites DEF Relay
  <2>4. relays' \subseteq Attempts /\ relayed' \in [Attempts -> Nat]
    BY <1>23, <1>t DEF Relay, At, RequestsHold
  <2> QED
    BY <1>23, <1>t, <2>1, <2>2, <2>3, <2>4
       DEF Relay, AgentTypeOK, Queue, Budget, chainVars
<1>24. ASSUME NEW t \in Tabs, Submit(t)
      PROVE  AgentTypeOK'
  <2>1. agent' \in AgentRow
    BY <1>24, <1>t DEF Submit, AgentRow, WorldStatus
  <2>2. attempt' \in [Attempts -> AttemptRow]
    BY <1>24, <1>t DEF Submit, AttemptRow
  <2>3. request' \in [Tabs -> Request]
    BY <1>24, <1>s, <1>t, RequestWrites DEF Submit, Refused
  <2>4. fresh' \subseteq Tabs
    BY <1>24, <1>t DEF Submit, Reads, Bump, Refused, Catch
  <2> QED
    BY <1>24, <1>t, <2>1, <2>2, <2>3, <2>4
       DEF Submit, AgentTypeOK, Queue, Budget, chainVars
<1>25. ASSUME NEW t \in Tabs, ReloadForSubmit(t)
      PROVE  AgentTypeOK'
  <2>1. request' \in [Tabs -> Request]
    BY <1>25, <1>s, <1>t, RequestWrites
       DEF ReloadForSubmit, Refused, Request, Step
  <2>2. fresh' \subseteq Tabs
    BY <1>25, <1>t DEF ReloadForSubmit, Reads, Bump, Refused, Catch
  <2> QED
    BY <1>25, <1>t, <2>1, <2>2
       DEF ReloadForSubmit, AgentTypeOK, Queue, Budget, chainVars
<1>26. ASSUME NEW t \in Tabs, Notify(t)
      PROVE  AgentTypeOK'
  <2>1. request' \in [Tabs -> Request]
    BY <1>26, <1>s, <1>t, RequestWrites DEF Notify, Refused
  <2>2. fresh' \subseteq Tabs
    BY <1>26, <1>t DEF Notify, Reads, Bump, Refused, Catch
  <2>3. queued' \in Queue
    BY <1>26, <1>t DEF Notify, SendReconcile, Queue, At, RequestsHold
  <2>4. budget' \in Budget
    BY <1>26, <1>t, BudgetWrites DEF Notify
  <2> QED
    BY <1>26, <1>t, <2>1, <2>2, <2>3, <2>4
       DEF Notify, AgentTypeOK, Queue, Budget, chainVars
<1>27. ASSUME NEW t \in Tabs, Resend(t)
      PROVE  AgentTypeOK'
  <2>1. request' \in [Tabs -> Request]
    BY <1>27, <1>s, <1>t, RequestWrites DEF Resend, Refused
  <2>2. fresh' \subseteq Tabs
    BY <1>27, <1>t DEF Resend, Reads, Bump, Refused
  <2>3. queued' \in Queue
    BY <1>27, <1>t DEF Resend, SendReconcile, Queue, At, RequestsHold
  <2>4. budget' \in Budget
    BY <1>27, <1>t, BudgetWrites DEF Resend
  <2> QED
    BY <1>27, <1>t, <2>1, <2>2, <2>3, <2>4
       DEF Resend, AgentTypeOK, Queue, Budget, chainVars
<1>28. ASSUME NEW t \in Tabs, Fail(t)
      PROVE  AgentTypeOK'
  <2>1. agent' \in AgentRow
    BY <1>28, <1>t DEF Fail, AgentRow, WorldStatus
  <2>2. attempt' \in [Attempts -> AttemptRow]
    BY <1>28, <1>t DEF Fail, AttemptRow
  <2>3. request' \in [Tabs -> Request]
    BY <1>28, <1>s, <1>t, RequestWrites DEF Fail, Refused
  <2>4. fresh' \subseteq Tabs
    BY <1>28, <1>t DEF Fail, Reads, Bump, Refused
  <2> QED
    BY <1>28, <1>t, <2>1, <2>2, <2>3, <2>4
       DEF Fail, AgentTypeOK, Queue, Budget, chainVars
<1>29. ASSUME NEW t \in Tabs, RequestDies(t)
      PROVE  AgentTypeOK'
  <2>1. request' \in [Tabs -> Request]
    BY <1>29, <1>s, <1>t, RequestWrites DEF RequestDies, Refused
  <2>2. fresh' \subseteq Tabs
    BY <1>29, <1>t DEF RequestDies, Reads, Bump, Refused
  <2>3. budget' \in Budget
    BY <1>29, <1>t, BudgetWrites DEF RequestDies
  <2> QED
    BY <1>29, <1>t, <2>1, <2>2, <2>3
       DEF RequestDies, AgentTypeOK, Queue, Budget, chainVars
<1>30. CASE AttachWallet
  <2>1. agent' \in AgentRow
    BY <1>30, <1>t DEF AttachWallet, AgentRow
  <2>2. queued' \in Queue
    BY <1>30, <1>t DEF AttachWallet, Queue
  <2> QED
    BY <1>30, <1>t, <2>1, <2>2
       DEF AttachWallet, AgentTypeOK, Queue, Budget, Bump, chainVars
<1>31. ASSUME NEW a \in Attempts, Confirm(a)
      PROVE  AgentTypeOK'
  <2>1. agent' \in AgentRow
    BY <1>31, <1>t DEF Confirm, AgentRow, WorldStatus
  <2>2. queued' \in Queue
    BY <1>31, <1>t DEF Confirm, Queue
  <2>3. attempt' \in [Attempts -> AttemptRow]
    BY <1>31, <1>t DEF Confirm, AttemptRow
  <2> QED
    BY <1>31, <1>t, <2>1, <2>2, <2>3
       DEF Confirm, AgentTypeOK, Queue, Budget, Bump, chainVars
<1>32. ASSUME NEW a \in Attempts, Lapse(a)
      PROVE  AgentTypeOK'
  <2>1. attempt' \in [Attempts -> AttemptRow]
    BY <1>32, <1>t DEF Lapse, AttemptRow
  <2> QED
    BY <1>32, <1>t, <2>1 DEF Lapse, AgentTypeOK, Queue, Budget, chainVars
<1>33. ASSUME NEW a \in Attempts, Lands(a)
      PROVE  AgentTypeOK'
  <2>1. book' \in [human : BOOLEAN, nonce : Nat]
    BY <1>33, <1>t DEF Lands
  <2> QED
    BY <1>33, <1>t, <2>1 DEF Lands, AgentTypeOK, Queue, Budget
<1> QED
  BY <1>1, <1>2, <1>3, <1>4, <1>5, <1>6, <1>7, <1>8, <1>9, <1>10, <1>11, <1>12, <1>13, <1>14, <1>15, <1>16, <1>17, <1>18, <1>19, <1>20, <1>21, <1>22, <1>23, <1>24, <1>25, <1>26, <1>27, <1>28, <1>29, <1>30, <1>31, <1>32, <1>33
     DEF AgentNext, Ask, Serve, Jobs, World

\* How the helpers move a request on; Others says whom they leave alone.
Others(t) == \A u \in Tabs \ {t} : request'[u] = request[u]
Moves(t, s, to) ==
    /\ request'[t].at = s
    /\ request'[t].to = to
    /\ request'[t].attempt = request[t].attempt
    /\ request'[t].edits = request[t].edits
    /\ Others(t)

LEMMA RequestMoves ==
    ASSUME request \in [Tabs -> Request], NEW t \in Tabs
    PROVE  /\ Answered(t) => request'[t] = Idle /\ Others(t)
           /\ \A s : Goto(t, s) => Moves(t, s, request[t].to)
           /\ \A to : Set(t, to) => Moves(t, "set", to)
           /\ Catch(t) => Moves(t, "set", "submitted")
<1> USE DEF Request, Moves, Others
<1>1. Answered(t) => request'[t] = Idle /\ Others(t)
  BY DEF Answered
<1>2. ASSUME NEW s, Goto(t, s) PROVE Moves(t, s, request[t].to)
  BY <1>2 DEF Goto
<1>3. ASSUME NEW to, Set(t, to) PROVE Moves(t, "set", to)
  BY <1>3 DEF Set
<1>4. Catch(t) => Moves(t, "set", "submitted")
  BY DEF Catch
<1> QED
  BY <1>1, <1>2, <1>3, <1>4

LEMMA HoldStep ==
    AgentTypeOK /\ RequestsHold /\ AgentNext => RequestsHold'
<1> SUFFICES ASSUME AgentTypeOK, RequestsHold, AgentNext PROVE RequestsHold'
  OBVIOUS
<1>t. request \in [Tabs -> Request]
  BY DEF AgentTypeOK
<1>1. ASSUME UNCHANGED request PROVE RequestsHold'
  BY <1>1 DEF RequestsHold
<1>2. ASSUME NEW t \in Tabs, Answered(t) PROVE RequestsHold'
  BY <1>t, <1>2, RequestMoves DEF RequestsHold, Others, Idle
<1>3. ASSUME NEW t \in Tabs, NEW s, NEW to, Moves(t, s, to),
             s \in {"check", "claim", "relay", "submit", "resubmit", "notify",
                    "resend", "fail"} => request[t].attempt \in Attempts,
             s \in {"grant", "permit"} => "permissions" \in request[t].edits
      PROVE  RequestsHold'
  BY <1>t, <1>3 DEF RequestsHold, Moves, Others
<1>4. ASSUME NEW t \in Tabs, AfterSet(t) PROVE RequestsHold'
  <2>1. request[t].attempt \in Attempts \cup {None}
    BY <1>t DEF Request
  <2> QED
    BY <1>t, <1>2, <1>3, <1>4, <2>1, RequestMoves DEF AfterSet
<1>5. ASSUME NEW t \in Tabs,
             \/ CreateAgent(t) \/ ProvisionRead(t) \/ RevokeRead(t) \/ SkipRead(t)
             \/ SessionRead(t) \/ ProvisionReset(t) \/ SendProvision(t)
             \/ UndoProvision(t) \/ PermissionsWrite(t) \/ RevokeWrite(t)
             \/ SessionLookup(t) \/ SessionStart(t) \/ Fail(t) \/ RequestDies(t)
             \/ Resend(t) \/ Notify(t)
      PROVE  RequestsHold'
  BY <1>t, <1>2, <1>3, <1>5, RequestMoves
     DEF CreateAgent, ProvisionRead, RevokeRead, SkipRead, SessionRead,
         ProvisionReset, SendProvision, UndoProvision, PermissionsWrite,
         RevokeWrite, SessionLookup, SessionStart, Fail, RequestDies, Resend,
         Notify, Refused
<1>6. ASSUME NEW t \in Tabs, NEW edits \in SUBSET Settings \ {{}},
             PatchRead(t, edits)
      PROVE  RequestsHold'
  <2>1. /\ request'[t].at = IF edits = {"permissions"} THEN "permit" ELSE "policy"
        /\ request'[t].edits = edits
        /\ Others(t)
    BY <1>t, <1>6 DEF PatchRead, Others, Request
  <2> QED
    BY <2>1 DEF RequestsHold, Others
<1>7. ASSUME NEW t \in Tabs, NEW a \in Attempts, CompleteRead(t, a)
      PROVE  RequestsHold'
  <2>1. /\ request'[t].at = "check"
        /\ request'[t].attempt = a
        /\ Others(t)
    BY <1>t, <1>7 DEF CompleteRead, Others, Request
  <2> QED
    BY <2>1 DEF RequestsHold, Others
<1>8. ASSUME NEW t \in Tabs, PolicyWrite(t) \/ PermissionsRead(t)
      PROVE  RequestsHold'
  BY <1>t, <1>2, <1>3, <1>8, RequestMoves
     DEF PolicyWrite, PermissionsRead, Refused, At, RequestsHold
<1>9. ASSUME NEW t \in Tabs, SetWorldState(t) PROVE RequestsHold'
  BY <1>t, <1>3, <1>4, <1>9, RequestMoves DEF SetWorldState
<1>10. ASSUME NEW t \in Tabs,
              request' = [request EXCEPT ![t].at = "set", ![t].last = TRUE]
       PROVE  RequestsHold'
  <2>1. Moves(t, "set", request[t].to)
    BY <1>t, <1>10 DEF Moves, Others, Request
  <2> QED
    BY <1>3, <2>1
<1>11. ASSUME NEW t \in Tabs, ReloadVersion(t) PROVE RequestsHold'
  BY <1>4, <1>10, <1>11 DEF ReloadVersion
<1>12. ASSUME NEW t \in Tabs, SessionNonce(t) PROVE RequestsHold'
  <2>1. CASE Set(t, "failed")
    BY <1>t, <1>3, <2>1, RequestMoves
  <2>2. CASE request' = [request EXCEPT ![t].at = "start", ![t].nonce = book.nonce]
    <3>1. Moves(t, "start", request[t].to)
      BY <1>t, <2>2 DEF Moves, Others, Request
    <3> QED
      BY <1>3, <3>1
  <2> QED
    BY <1>12, <2>1, <2>2 DEF SessionNonce
<1>13. ASSUME NEW t \in Tabs, CompleteCheck(t) \/ Claim(t) \/ Relay(t)
       PROVE  RequestsHold'
  BY <1>t, <1>2, <1>3, <1>13, RequestMoves
     DEF CompleteCheck, Claim, Relay, Refused, At, RequestsHold
<1>14. ASSUME NEW t \in Tabs, Submit(t) PROVE RequestsHold'
  BY <1>t, <1>3, <1>14, RequestMoves DEF Submit, At, RequestsHold
<1>15. ASSUME NEW t \in Tabs, ReloadForSubmit(t) PROVE RequestsHold'
  <2>1. CASE Catch(t)
    BY <1>t, <1>3, <2>1, RequestMoves
  <2>2. CASE request' = [request EXCEPT ![t].at = "submit", ![t].last = TRUE]
    <3>1. Moves(t, "submit", request[t].to)
      BY <1>t, <2>2 DEF Moves, Others, Request
    <3> QED
      BY <1>3, <1>15, <3>1 DEF ReloadForSubmit, At, RequestsHold
  <2> QED
    BY <1>15, <2>1, <2>2 DEF ReloadForSubmit
<1>16. CASE \/ \E t \in Tabs, a \in Attempts : AskAgain(t, a)
            \/ Jobs \/ World
  BY <1>1, <1>16
     DEF AskAgain, Jobs, AttachWallet, Confirm, World, Lapse, Lands
<1> QED
  BY <1>5, <1>6, <1>7, <1>8, <1>9, <1>11, <1>12, <1>13, <1>14, <1>15, <1>16
     DEF AgentNext, Ask, Serve

LEMMA AgentStepType ==
    AgentTypeOK /\ RequestsHold /\ [AgentNext]_agentVars
        => AgentTypeOK' /\ RequestsHold'
<1>1. CASE UNCHANGED agentVars
  BY <1>1 DEF agentVars, AgentTypeOK, RequestsHold
<1> QED
  BY <1>1, AgentNextType, HoldStep

\* Every reachable state of the row, its attempts and the requests on it is well
\* typed.
THEOREM AgentTypeCorrect == AgentSpec => []AgentTypeOK
<1>1. AgentInit => RequestsHold
  BY DEF AgentInit, Idle, RequestsHold
<1> QED
  BY <1>1, AgentInitType, AgentStepType, PTL DEF AgentSpec

----------------------------------------------------------------------------
\* A settled row.

LEMMA AgentUntouched ==
    ASSUME NEW t \in Tabs,
           \/ SendProvision(t) \/ PermissionsRead(t) \/ ReloadVersion(t)
           \/ SessionLookup(t) \/ SessionNonce(t) \/ CompleteCheck(t) \/ Claim(t)
           \/ Relay(t) \/ ReloadForSubmit(t) \/ Notify(t) \/ Resend(t)
           \/ ProvisionRead(t)
           \/ \E edits \in SUBSET Settings \ {{}} : PatchRead(t, edits)
           \/ RevokeRead(t) \/ SkipRead(t) \/ SessionRead(t)
           \/ \E a \in Attempts : CompleteRead(t, a) \/ AskAgain(t, a)
           \/ RequestDies(t)
    PROVE  UNCHANGED agent
BY DEF SendProvision, PermissionsRead, ReloadVersion, SessionLookup,
       SessionNonce, CompleteCheck, Claim, Relay, ReloadForSubmit, Notify,
       Resend, ProvisionRead, PatchRead, RevokeRead, SkipRead, SessionRead,
       CompleteRead, AskAgain, RequestDies

\* Every write finds a row that is not revoked and keeps the human it has.
Settles ==
    agent' # agent => agent.status # "revoked" /\ (agent.human => agent'.human)

LEMMA EveryWriteSettles == AgentTypeOK /\ AgentNext => Settles
<1> SUFFICES ASSUME AgentTypeOK, AgentNext PROVE Settles
  OBVIOUS
<1> USE DEF Settles
<1>t. agent \in AgentRow
  BY DEF AgentTypeOK
<1>1. ASSUME NEW t \in Tabs, Ask(t) \/ RequestDies(t) PROVE Settles
  <2>1. CASE CreateAgent(t)
    BY <1>t, <2>1 DEF CreateAgent, Created, AgentRow
  <2> QED
    BY <1>1, <2>1, AgentUntouched DEF Ask
<1>2. ASSUME NEW t \in Tabs, Serve(t) PROVE Settles
  <2>1. CASE ProvisionReset(t) \/ UndoProvision(t)
    BY <1>t, <2>1
       DEF ProvisionReset, UndoProvision, Transition, CannotTransition,
           Provisioning, AgentRow
  <2>2. CASE PolicyWrite(t) \/ PermissionsWrite(t) \/ RevokeWrite(t)
    BY <1>t, <2>2 DEF PolicyWrite, PermissionsWrite, RevokeWrite, AgentRow
  <2>3. CASE SetWorldState(t)
    BY <1>t, <2>3 DEF SetWorldState, AgentRow
  <2>4. CASE SessionStart(t)
    BY <1>t, <2>4 DEF SessionStart, Ready, AgentRow
  <2>5. CASE Submit(t) \/ Fail(t)
    BY <1>t, <2>5 DEF Submit, Fail, AgentRow
  <2> QED
    BY <1>2, <2>1, <2>2, <2>3, <2>4, <2>5, AgentUntouched DEF Serve
<1>3. CASE Jobs
  BY <1>t, <1>3 DEF Jobs, AttachWallet, Confirm, AgentRow
<1>4. CASE World
  BY <1>4 DEF World, Lapse, Lands
<1> QED
  BY <1>1, <1>2, <1>3, <1>4 DEF AgentNext

\* A revoked row is final for every request and job, those that read it before
\* it was revoked and those that reload its version after (lifecycle.ts:37).
THEOREM RevocationIsFinal == AgentSpec => RevokedIsFinal
<1>1. AgentTypeOK /\ [AgentNext]_agentVars
        => [agent.status = "revoked" => agent' = agent]_agentVars
  BY EveryWriteSettles DEF Settles
<1> QED
  BY <1>1, AgentTypeCorrect, PTL DEF AgentSpec, RevokedIsFinal

\* No skip, failed lookup or late submission forgets the human of a confirmed
\* agent (260:520).
THEOREM HumanStays == AgentSpec => HumanIsKept
<1>1. AgentTypeOK /\ [AgentNext]_agentVars
        => [agent.human => agent'.human]_agentVars
  BY EveryWriteSettles DEF Settles
<1> QED
  BY <1>1, AgentTypeCorrect, PTL DEF AgentSpec, HumanIsKept

----------------------------------------------------------------------------
\* Where a request came from.

\* A request is about to relay, or to write a policy, as it was before or
\* because it has just got there; and none is about to say verified unless
\* AgentBook said so.
Traced ==
    \A u \in Tabs :
        /\ request'[u].at = "relay" => request'[u] = request[u] \/ Claim(u)
        /\ request'[u].at = "policy" =>
              \/ request'[u] = request[u]
              \/ \E edits \in SUBSET Settings \ {{}} : PatchRead(u, edits)
        /\ request'[u].to = "verified" =>
              request[u].to = "verified" \/ book.human

LEMMA Tracing == AgentTypeOK /\ AgentNext => Traced
<1> SUFFICES ASSUME AgentTypeOK, AgentNext PROVE Traced
  OBVIOUS
<1>t. request \in [Tabs -> Request]
  BY DEF AgentTypeOK
<1>1. ASSUME UNCHANGED request PROVE Traced
  BY <1>1 DEF Traced
<1>2. ASSUME NEW t \in Tabs, Answered(t) PROVE Traced
  BY <1>t, <1>2, RequestMoves DEF Traced, Others, Idle
<1>3. ASSUME NEW t \in Tabs, NEW s, NEW to, Moves(t, s, to),
             s \notin {"relay", "policy"},
             to = "verified" => request[t].to = "verified" \/ book.human
      PROVE  Traced
  BY <1>t, <1>3 DEF Traced, Moves, Others
<1>4. ASSUME NEW t \in Tabs, AfterSet(t) PROVE Traced
  BY <1>t, <1>2, <1>3, <1>4, RequestMoves DEF AfterSet
<1>5. ASSUME NEW t \in Tabs,
             \/ CreateAgent(t) \/ ProvisionRead(t) \/ RevokeRead(t) \/ SkipRead(t)
             \/ SessionRead(t) \/ ProvisionReset(t) \/ SendProvision(t)
             \/ UndoProvision(t) \/ PermissionsRead(t) \/ PermissionsWrite(t)
             \/ RevokeWrite(t) \/ PolicyWrite(t)
      PROVE  Traced
  BY <1>t, <1>2, <1>3, <1>5, RequestMoves
     DEF CreateAgent, ProvisionRead, RevokeRead, SkipRead, SessionRead,
         ProvisionReset, SendProvision, UndoProvision, PermissionsRead,
         PermissionsWrite, RevokeWrite, PolicyWrite, Refused
<1>6. ASSUME NEW t \in Tabs,
             \/ SessionLookup(t) \/ SessionStart(t) \/ CompleteCheck(t)
             \/ Relay(t) \/ Submit(t) \/ Notify(t) \/ Resend(t)
             \/ Fail(t) \/ RequestDies(t)
      PROVE  Traced
  BY <1>t, <1>2, <1>3, <1>6, RequestMoves
     DEF SessionLookup, SessionStart, CompleteCheck, Relay, Submit, Notify,
         Resend, Fail, RequestDies, Refused
<1>7. ASSUME NEW t \in Tabs, NEW edits \in SUBSET Settings \ {{}},
             PatchRead(t, edits)
      PROVE  Traced
  <2>1. /\ request'[t].at # "relay"
        /\ request'[t].to = request[t].to
        /\ Others(t)
    BY <1>t, <1>7 DEF PatchRead, Others, Request
  <2> QED
    BY <1>7, <2>1 DEF Traced, Others
<1>8. ASSUME NEW t \in Tabs, NEW a \in Attempts, CompleteRead(t, a)
      PROVE  Traced
  <2>1. /\ request'[t].at = "check"
        /\ request'[t].to = request[t].to
        /\ Others(t)
    BY <1>t, <1>8 DEF CompleteRead, Others, Request
  <2> QED
    BY <2>1 DEF Traced, Others
<1>9. ASSUME NEW t \in Tabs, Claim(t) PROVE Traced
  <2>1. CASE Answered(t)
    BY <1>2, <2>1
  <2>2. CASE Goto(t, "relay")
    <3>1. Moves(t, "relay", request[t].to)
      BY <1>t, <2>2, RequestMoves
    <3> QED
      BY <1>9, <3>1 DEF Traced, Moves, Others
  <2> QED
    BY <1>9, <2>1, <2>2 DEF Claim, Refused
<1>10. ASSUME NEW t \in Tabs, SetWorldState(t) PROVE Traced
  BY <1>t, <1>3, <1>4, <1>10, RequestMoves DEF SetWorldState
<1>11. ASSUME NEW t \in Tabs, NEW s \in {"set", "submit"},
              request' = [request EXCEPT ![t].at = s, ![t].last = TRUE]
       PROVE  Traced
  <2>1. Moves(t, s, request[t].to)
    BY <1>t, <1>11 DEF Moves, Others, Request
  <2> QED
    BY <1>3, <2>1
<1>12. ASSUME NEW t \in Tabs, ReloadVersion(t) \/ ReloadForSubmit(t) PROVE Traced
  BY <1>t, <1>3, <1>4, <1>11, <1>12, RequestMoves DEF ReloadVersion, ReloadForSubmit
<1>13. ASSUME NEW t \in Tabs, SessionNonce(t) PROVE Traced
  <2>1. CASE Set(t, "failed")
    BY <1>t, <1>3, <2>1, RequestMoves
  <2>2. CASE request' = [request EXCEPT ![t].at = "start", ![t].nonce = book.nonce]
    <3>1. Moves(t, "start", request[t].to)
      BY <1>t, <2>2 DEF Moves, Others, Request
    <3> QED
      BY <1>3, <3>1
  <2> QED
    BY <1>13, <2>1, <2>2 DEF SessionNonce
<1>14. CASE \/ \E t \in Tabs, a \in Attempts : AskAgain(t, a)
            \/ Jobs \/ World
  BY <1>1, <1>14
     DEF AskAgain, Jobs, AttachWallet, Confirm, World, Lapse, Lands
<1> QED
  BY <1>5, <1>6, <1>7, <1>8, <1>9, <1>10, <1>12, <1>13, <1>14
     DEF AgentNext, Ask, Serve

----------------------------------------------------------------------------
\* Settings.

\* A request whose version is still the row's has seen the row's settings: what
\* it writes back undoes nothing.
SeenIsCurrent ==
    \A t \in fresh : At(t, "policy") => request[t].seen = agent.edited

\* A write of the settings makes every version stale, and a request that reads
\* its version again has no policy to write any more.
Rereads ==
    /\ agent'.edited # agent.edited => fresh' = {}
    /\ \A u \in fresh' :
          \/ u \in fresh
          \/ request'[u].at # "policy"
          \/ \E edits \in SUBSET Settings \ {{}} : PatchRead(u, edits)

LEMMA Rereading == AgentTypeOK /\ AgentNext => Rereads
<1> SUFFICES ASSUME AgentTypeOK, AgentNext PROVE Rereads
  OBVIOUS
<1>t. request \in [Tabs -> Request] /\ agent \in AgentRow /\ fresh \subseteq Tabs
  BY DEF AgentTypeOK
<1>1. ASSUME agent'.edited = agent.edited \/ fresh' = {}, fresh' \subseteq fresh
      PROVE  Rereads
  BY <1>1 DEF Rereads
<1>2. ASSUME NEW t \in Tabs, UNCHANGED agent,
             fresh' \subseteq fresh \cup {t}, request'[t].at # "policy"
      PROVE  Rereads
  BY <1>2 DEF Rereads
<1>3. ASSUME NEW t \in Tabs, CreateAgent(t) PROVE Rereads
  <2>1. request'[t].at = "send" /\ fresh' = {t} /\ agent'.edited = agent.edited
    BY <1>t, <1>3, RequestMoves DEF CreateAgent, Created, AgentRow, Moves
  <2> QED
    BY <2>1 DEF Rereads
<1>4. ASSUME NEW t \in Tabs,
             \/ ProvisionRead(t) \/ RevokeRead(t) \/ SkipRead(t) \/ SessionRead(t)
             \/ PermissionsRead(t)
      PROVE  Rereads
  BY <1>t, <1>2, <1>4, RequestMoves
     DEF ProvisionRead, RevokeRead, SkipRead, SessionRead, PermissionsRead,
         Reads, Moves, Refused, Idle
<1>5. ASSUME NEW t \in Tabs, NEW edits \in SUBSET Settings \ {{}},
             PatchRead(t, edits)
      PROVE  Rereads
  BY <1>5 DEF PatchRead, Reads, Rereads
<1>6. ASSUME NEW t \in Tabs, NEW a \in Attempts, CompleteRead(t, a)
      PROVE  Rereads
  <2>1. request'[t].at = "check"
    BY <1>t, <1>6 DEF CompleteRead, Request
  <2> QED
    BY <1>2, <1>6, <2>1 DEF CompleteRead, Reads
<1>7. ASSUME NEW t \in Tabs, ProvisionReset(t) PROVE Rereads
  <2>1. CASE Transition(t, "provisioning_wallet") /\ fresh' = {t} /\ Goto(t, "send")
    BY <1>1, <1>t, <2>1 DEF Transition, AgentRow
  <2>2. CASE CannotTransition(t) /\ Refused(t)
    BY <1>1, <2>2 DEF CannotTransition, Refused
  <2> QED
    BY <1>7, <2>1, <2>2 DEF ProvisionReset
<1>8. ASSUME NEW t \in Tabs, PolicyWrite(t) \/ PermissionsWrite(t) PROVE Rereads
  BY <1>1, <1>8 DEF PolicyWrite, PermissionsWrite, Bump, Refused
<1>9. ASSUME NEW t \in Tabs, UndoProvision(t) \/ RevokeWrite(t) PROVE Rereads
  BY <1>1, <1>9
     DEF UndoProvision, RevokeWrite, Transition, CannotTransition, Bump, Refused
<1>10. ASSUME NEW t \in Tabs,
              \/ SessionStart(t) \/ SetWorldState(t) \/ Submit(t) \/ Fail(t)
       PROVE  Rereads
  <2>1. fresh' \subseteq fresh
    BY <1>10 DEF SessionStart, SetWorldState, Submit, Fail, Bump, Refused, Catch
  <2>2. agent'.edited = agent.edited
    BY <1>t, <1>10 DEF SessionStart, SetWorldState, Submit, Fail, AgentRow
  <2> QED
    BY <1>1, <2>1, <2>2
<1>11. ASSUME NEW t \in Tabs,
              \/ SendProvision(t) \/ SessionLookup(t) \/ SessionNonce(t)
              \/ CompleteCheck(t) \/ Claim(t) \/ Relay(t) \/ Notify(t)
              \/ Resend(t) \/ RequestDies(t)
       PROVE  Rereads
  BY <1>1, <1>11
     DEF SendProvision, SessionLookup, SessionNonce, CompleteCheck, Claim, Relay,
         Notify, Resend, RequestDies, Refused, Catch
<1>12. ASSUME NEW t \in Tabs, NEW s \in {"set", "submit"},
              request' = [request EXCEPT ![t].at = s, ![t].last = TRUE],
              Reads(t), UNCHANGED agent
       PROVE  Rereads
  <2>1. request'[t].at = s
    BY <1>t, <1>12 DEF Request
  <2> QED
    BY <1>2, <1>12, <2>1 DEF Reads
<1>13. ASSUME NEW t \in Tabs, ReloadVersion(t) \/ ReloadForSubmit(t) PROVE Rereads
  BY <1>1, <1>12, <1>13 DEF ReloadVersion, ReloadForSubmit, Catch
<1>14. CASE \/ \E t \in Tabs, a \in Attempts : AskAgain(t, a)
            \/ Jobs \/ World
  <2>1. fresh' \subseteq fresh
    BY <1>14 DEF AskAgain, Jobs, AttachWallet, Confirm, World, Lapse, Lands, Bump
  <2>2. agent'.edited = agent.edited
    BY <1>t, <1>14
       DEF AskAgain, Jobs, AttachWallet, Confirm, World, Lapse, Lands, AgentRow
  <2> QED
    BY <1>1, <2>1, <2>2
<1> QED
  BY <1>3, <1>4, <1>5, <1>6, <1>7, <1>8, <1>9, <1>10, <1>11, <1>13, <1>14
     DEF AgentNext, Ask, Serve

LEMMA SeenStep ==
    AgentTypeOK /\ RequestsHold /\ SeenIsCurrent /\ AgentNext => SeenIsCurrent'
<1> SUFFICES ASSUME AgentTypeOK, RequestsHold, SeenIsCurrent, AgentNext,
                    NEW t \in fresh', request'[t].at = "policy"
             PROVE  request'[t].seen = agent'.edited
  BY DEF SeenIsCurrent, At
<1>1. t \in Tabs
  BY AgentNextType DEF AgentTypeOK
<1>2. agent'.edited = agent.edited
  BY Rereading DEF Rereads
<1>3. CASE \E edits \in SUBSET Settings \ {{}} : PatchRead(t, edits)
  BY <1>1, <1>2, <1>3 DEF PatchRead, AgentTypeOK, Request
<1>4. CASE ~ \E edits \in SUBSET Settings \ {{}} : PatchRead(t, edits)
  <2>1. t \in fresh /\ request'[t] = request[t]
    BY <1>1, <1>4, Rereading, Tracing DEF Rereads, Traced
  <2> QED
    BY <1>2, <2>1 DEF SeenIsCurrent, At
<1> QED
  BY <1>3, <1>4

LEMMA EditsGrow ==
    AgentTypeOK /\ SeenIsCurrent /\ AgentNext => agent.edited \subseteq agent'.edited
<1> SUFFICES ASSUME AgentTypeOK, SeenIsCurrent, AgentNext
             PROVE  agent.edited \subseteq agent'.edited
  OBVIOUS
<1>t. agent \in AgentRow
  BY DEF AgentTypeOK
<1>1. ASSUME NEW t \in Tabs, PolicyWrite(t)
      PROVE  agent.edited \subseteq agent'.edited
  <2>1. CASE UNCHANGED agent
    BY <2>1
  <2>2. CASE t \in fresh /\ agent'.edited = (agent.edited \cap {"permissions"})
                \cup ((request[t].seen \cup request[t].edits) \ {"permissions"})
    BY <1>1, <2>2 DEF SeenIsCurrent, PolicyWrite
  <2> QED
    BY <1>1, <1>t, <2>1, <2>2 DEF PolicyWrite, AgentRow
<1>2. ASSUME NEW t \in Tabs, Ask(t) \/ RequestDies(t)
      PROVE  agent.edited \subseteq agent'.edited
  <2>1. CASE CreateAgent(t)
    BY <1>t, <2>1 DEF CreateAgent, Created, AgentRow
  <2> QED
    BY <1>2, <2>1, AgentUntouched DEF Ask
<1>3. ASSUME NEW t \in Tabs, Serve(t)
      PROVE  agent.edited \subseteq agent'.edited
  <2>1. CASE ProvisionReset(t) \/ UndoProvision(t)
    BY <1>t, <2>1
       DEF ProvisionReset, UndoProvision, Transition, CannotTransition, AgentRow
  <2>2. CASE PermissionsWrite(t) \/ RevokeWrite(t) \/ SetWorldState(t)
    BY <1>t, <2>2 DEF PermissionsWrite, RevokeWrite, SetWorldState, AgentRow
  <2>3. CASE SessionStart(t) \/ Submit(t) \/ Fail(t)
    BY <1>t, <2>3 DEF SessionStart, Submit, Fail, AgentRow
  <2> QED
    BY <1>1, <1>3, <2>1, <2>2, <2>3, AgentUntouched DEF Serve
<1>4. CASE Jobs \/ World
  BY <1>t, <1>4 DEF Jobs, AttachWallet, Confirm, World, Lapse, Lands, AgentRow
<1> QED
  BY <1>1, <1>2, <1>3, <1>4 DEF AgentNext

\* A settings change is not undone by a request that read the row before it:
\* what such a request writes back, it has seen since (updatePlatformAgent).
THEOREM EditsKept == AgentSpec => EditsAreKept
<1>1. AgentInit => RequestsHold /\ SeenIsCurrent
  BY DEF AgentInit, Idle, RequestsHold, SeenIsCurrent
<1>2. AgentTypeOK /\ RequestsHold /\ SeenIsCurrent /\ [AgentNext]_agentVars
        => SeenIsCurrent'
  <2>1. CASE UNCHANGED agentVars
    BY <2>1 DEF agentVars, SeenIsCurrent, At
  <2> QED
    BY <2>1, SeenStep
<1>3. AgentTypeOK /\ SeenIsCurrent /\ [AgentNext]_agentVars
        => [agent.edited \subseteq agent'.edited]_agentVars
  BY EditsGrow
<1> QED
  BY <1>1, <1>2, <1>3, AgentInitType, AgentStepType, PTL DEF AgentSpec, EditsAreKept

----------------------------------------------------------------------------
\* Attempts.

Open == {"in_progress", "relaying", "submitted"}
Unclaimed == {"absent", "in_progress"}

\* An attempt is opened when no other stays open, and once claimed it is not
\* claimable again.
AttemptMoves ==
    \A a \in Attempts :
        /\ attempt'[a].status \in Open =>
              \/ attempt[a].status \in Open
              \/ \A b \in Attempts \ {a} : attempt'[b].status \notin Open
        /\ attempt[a].status \notin Unclaimed => attempt'[a].status \notin Unclaimed

LEMMA ClosedMoves ==
    ASSUME attempt \in [Attempts -> AttemptRow], NEW a \in Attempts
    PROVE  /\ Closed[a].status \in Open => attempt[a].status \in Open
           /\ attempt[a].status \notin Unclaimed => Closed[a].status \notin Unclaimed
           /\ Closed[a] \in AttemptRow
BY DEF Closed, AttemptRow, Open, Unclaimed

LEMMA StartMoves ==
    ASSUME AgentTypeOK, NEW t \in Tabs, SessionStart(t) PROVE AttemptMoves
<1>t. attempt \in [Attempts -> AttemptRow]
  BY DEF AgentTypeOK
<1>1. CASE UNCHANGED attempt
  BY <1>1 DEF AttemptMoves
<1>2. CASE attempt' = Closed
  BY <1>t, <1>2, ClosedMoves DEF AttemptMoves
<1>3. ASSUME NEW a \in Attempts, Newest(a), UnderSubmission(Closed) = {},
             attempt' = Started(a, request[t].nonce)
      PROVE  AttemptMoves
  <2>1. attempt'[a].status = "in_progress" /\ attempt[a].status = "absent"
    BY <1>3 DEF Started, Newest, Unused
  <2>2. ASSUME NEW b \in Attempts \ {a}
        PROVE  /\ attempt'[b].status \notin Open
               /\ attempt[b].status \notin Unclaimed
                     => attempt'[b].status \notin Unclaimed
    <3>1. Closed[b].status \notin {"relaying", "submitted"}
      BY <1>3 DEF UnderSubmission
    <3>2. CASE Closed[b].status = "in_progress"
      <4>1. attempt'[b].status = "expired"
        BY <1>t, <1>3, <3>2, ClosedMoves DEF Started, AttemptRow
      <4> QED
        BY <4>1 DEF Open, Unclaimed
    <3>3. CASE Closed[b].status # "in_progress"
      <4>1. attempt'[b] = Closed[b]
        BY <1>3, <3>3 DEF Started
      <4> QED
        BY <1>t, <3>1, <3>3, <4>1, ClosedMoves DEF Open
    <3> QED
      BY <3>2, <3>3
  <2> QED
    BY <2>1, <2>2 DEF AttemptMoves, Open, Unclaimed
<1> QED
  BY <1>1, <1>2, <1>3 DEF SessionStart

LEMMA AttemptsUntouched ==
    ASSUME NEW t \in Tabs,
           Ask(t) \/ RequestDies(t) \/ (Serve(t) /\ ~SessionStart(t) /\ ~Claim(t)
              /\ ~Submit(t) /\ ~Fail(t))
    PROVE  UNCHANGED attempt
BY DEF Ask, Serve, CreateAgent, ProvisionRead, PatchRead, RevokeRead, SkipRead,
       SessionRead, CompleteRead, AskAgain, RequestDies, ProvisionReset,
       SendProvision, UndoProvision, PolicyWrite, PermissionsRead,
       PermissionsWrite, RevokeWrite, SetWorldState, ReloadVersion,
       SessionLookup, SessionNonce, CompleteCheck, Relay, ReloadForSubmit,
       Notify, Resend

LEMMA Attempting == AgentTypeOK /\ RequestsHold /\ AgentNext => AttemptMoves
<1> SUFFICES ASSUME AgentTypeOK, RequestsHold, AgentNext PROVE AttemptMoves
  OBVIOUS
<1>t. attempt \in [Attempts -> AttemptRow]
  BY DEF AgentTypeOK
<1>1. CASE UNCHANGED attempt
  BY <1>1 DEF AttemptMoves
<1>2. ASSUME NEW t \in Tabs, Claim(t) PROVE AttemptMoves
  BY <1>t, <1>2 DEF Claim, At, RequestsHold, AttemptMoves, AttemptRow, Open, Unclaimed
<1>3. ASSUME NEW t \in Tabs, Submit(t) PROVE AttemptMoves
  BY <1>t, <1>3 DEF Submit, At, RequestsHold, AttemptMoves, AttemptRow, Open, Unclaimed
<1>4. ASSUME NEW t \in Tabs, Fail(t) PROVE AttemptMoves
  BY <1>t, <1>4 DEF Fail, At, RequestsHold, AttemptMoves, AttemptRow, Open, Unclaimed
<1>5. ASSUME NEW a \in Attempts, Confirm(a) \/ Lapse(a) PROVE AttemptMoves
  BY <1>t, <1>5 DEF Confirm, Lapse, AttemptMoves, AttemptRow, Open, Unclaimed
<1>6. CASE AttachWallet \/ \E a \in Attempts : Lands(a)
  BY <1>1, <1>6 DEF AttachWallet, Lands
<1> QED
  BY <1>1, <1>2, <1>3, <1>4, <1>5, <1>6, StartMoves, AttemptsUntouched
     DEF AgentNext, Jobs, World

\* At most one registration of an agent is open, whichever requests start,
\* complete and fail attempts and whenever these run out of time (260:624).
THEOREM OneOpen == AgentSpec => []OneOpenAttempt
<1>1. AgentInit => OneOpenAttempt /\ RequestsHold
  BY DEF AgentInit, Idle, OneOpenAttempt, RequestsHold
<1>2. AgentTypeOK /\ RequestsHold /\ OneOpenAttempt /\ [AgentNext]_agentVars
        => OneOpenAttempt'
  <2>1. CASE UNCHANGED agentVars
    BY <2>1 DEF agentVars, OneOpenAttempt
  <2>2. ASSUME AgentTypeOK, RequestsHold, OneOpenAttempt, AgentNext
        PROVE  OneOpenAttempt'
    <3>1. AttemptMoves
      BY <2>2, Attempting
    <3> QED
      BY <2>2, <3>1 DEF AttemptMoves, OneOpenAttempt, Open
  <2> QED
    BY <2>1, <2>2
<1> QED
  BY <1>1, <1>2, AgentInitType, AgentStepType, PTL DEF AgentSpec

----------------------------------------------------------------------------
\* The relay.

\* An attempt that was relayed, or whose proof a request is about to send, is
\* past the claim; no two requests are about to send the same, and none one that
\* was sent.
RelayInv ==
    /\ \A a \in Attempts : relayed[a] > 0 => attempt[a].status \notin Unclaimed
    /\ \A t \in Tabs : At(t, "relay") =>
          /\ attempt[request[t].attempt].status \notin Unclaimed
          /\ relayed[request[t].attempt] = 0
    /\ \A t, u \in Tabs :
          At(t, "relay") /\ At(u, "relay") /\ request[t].attempt = request[u].attempt
             => t = u
    /\ RelayedOnce

\* What a claim that goes on to the relay found and left.
LEMMA Claiming ==
    ASSUME AgentTypeOK, RequestsHold, NEW t \in Tabs, Claim(t),
           request'[t].at = "relay"
    PROVE  /\ request'[t].attempt = request[t].attempt
           /\ request[t].attempt \in Attempts
           /\ attempt[request[t].attempt].status = "in_progress"
           /\ attempt'[request[t].attempt].status = "relaying"
           /\ relayed' = relayed
           /\ Others(t)
<1>t. /\ request \in [Tabs -> Request]
      /\ attempt \in [Attempts -> AttemptRow]
      /\ request[t].attempt \in Attempts
  BY DEF AgentTypeOK, RequestsHold, Claim, At
<1>1. ~Answered(t)
  BY <1>t, RequestMoves DEF Idle
<1>2. Goto(t, "relay")
  BY <1>1 DEF Claim, Refused
<1>3. Moves(t, "relay", request[t].to)
  BY <1>t, <1>2, RequestMoves
<1> QED
  BY <1>t, <1>1, <1>3 DEF Claim, Refused, Moves, AttemptRow, chainVars

\* The relay is asked by a request that is then elsewhere.
LEMMA Relaying ==
    ASSUME AgentTypeOK, RequestsHold, AgentNext
    PROVE  \/ relayed' = relayed
           \/ \E t \in Tabs :
                /\ At(t, "relay") /\ request'[t].at # "relay"
                /\ request[t].attempt \in Attempts
                /\ relayed' = [relayed EXCEPT ![request[t].attempt] = @ + 1]
<1>t. request \in [Tabs -> Request]
  BY DEF AgentTypeOK
<1>1. ASSUME NEW t \in Tabs, Relay(t)
      PROVE  /\ At(t, "relay") /\ request'[t].at # "relay"
             /\ request[t].attempt \in Attempts
             /\ relayed' = [relayed EXCEPT ![request[t].attempt] = @ + 1]
  BY <1>t, <1>1, RequestMoves DEF Relay, At, Moves, RequestsHold
<1>2. ASSUME NEW t \in Tabs, Ask(t) \/ RequestDies(t) PROVE relayed' = relayed
  BY <1>2 DEF Ask, CreateAgent, ProvisionRead, PatchRead, RevokeRead, SkipRead,
              SessionRead, CompleteRead, AskAgain, RequestDies, chainVars
<1>3. ASSUME NEW t \in Tabs, Serve(t), ~Relay(t) PROVE relayed' = relayed
  BY <1>3 DEF Serve, ProvisionReset, SendProvision, UndoProvision, PolicyWrite,
              PermissionsRead, PermissionsWrite, RevokeWrite, SetWorldState,
              ReloadVersion, SessionLookup, SessionNonce, SessionStart,
              CompleteCheck, Claim, Submit, ReloadForSubmit, Notify, Resend, Fail,
              chainVars
<1>4. CASE Jobs \/ World
  BY <1>4 DEF Jobs, World, AttachWallet, Confirm, Lapse, Lands, chainVars
<1> QED
  BY <1>1, <1>2, <1>3, <1>4 DEF AgentNext

LEMMA RelayStep ==
    AgentTypeOK /\ RequestsHold /\ RelayInv /\ AgentNext => RelayInv'
<1> SUFFICES ASSUME AgentTypeOK, RequestsHold, RelayInv, AgentNext PROVE RelayInv'
  OBVIOUS
<1>t. /\ attempt \in [Attempts -> AttemptRow] /\ relayed \in [Attempts -> Nat]
      /\ request \in [Tabs -> Request]
      /\ AttemptMoves /\ Traced /\ AgentTypeOK' /\ RequestsHold'
  BY Attempting, Tracing, AgentNextType, HoldStep DEF AgentTypeOK
<1>1. ASSUME NEW a \in Attempts, relayed'[a] > 0
      PROVE  attempt'[a].status \notin Unclaimed /\ relayed'[a] <= 1
  <2>1. CASE relayed' = relayed
    BY <1>1, <1>t, <2>1 DEF RelayInv, RelayedOnce, AttemptMoves
  <2>2. ASSUME NEW t \in Tabs, At(t, "relay"), request[t].attempt \in Attempts,
               relayed' = [relayed EXCEPT ![request[t].attempt] = @ + 1]
        PROVE  attempt'[a].status \notin Unclaimed /\ relayed'[a] <= 1
    BY <1>1, <1>t, <2>2 DEF RelayInv, RelayedOnce, AttemptMoves
  <2> QED
    BY <2>1, <2>2, Relaying
<1>2. ASSUME NEW t \in Tabs, request'[t].at = "relay"
      PROVE  /\ attempt'[request'[t].attempt].status \notin Unclaimed
             /\ relayed'[request'[t].attempt] = 0
  <2>1. CASE Claim(t)
    BY <1>2, <1>t, <2>1, Claiming DEF RelayInv, Unclaimed
  <2>2. CASE request'[t] = request[t]
    <3>1. /\ request[t].attempt \in Attempts
          /\ attempt[request[t].attempt].status \notin Unclaimed
          /\ relayed[request[t].attempt] = 0
      BY <1>2, <2>2 DEF RelayInv, RequestsHold, At
    <3>2. relayed'[request[t].attempt] = 0
      <4>1. ASSUME NEW u \in Tabs, At(u, "relay"), request'[u].at # "relay",
                   request[u].attempt \in Attempts,
                   relayed' = [relayed EXCEPT ![request[u].attempt] = @ + 1]
            PROVE  relayed'[request[t].attempt] = 0
        <5>1. request[u].attempt # request[t].attempt
          BY <1>2, <2>2, <4>1 DEF RelayInv, At
        <5> QED
          BY <1>t, <3>1, <4>1, <5>1
      <4> QED
        BY <3>1, <4>1, Relaying
    <3> QED
      BY <1>t, <2>2, <3>1, <3>2 DEF AttemptMoves
  <2> QED
    BY <1>2, <1>t, <2>1, <2>2 DEF Traced
<1>3. ASSUME NEW t \in Tabs, NEW u \in Tabs,
             request'[t].at = "relay", request'[u].at = "relay",
             request'[t].attempt = request'[u].attempt, t # u,
             Claim(t)
      PROVE  FALSE
  <2>1. /\ request'[u] = request[u]
        /\ attempt[request[t].attempt].status = "in_progress"
        /\ request'[t].attempt = request[t].attempt
    BY <1>3, Claiming DEF Others
  <2> QED
    BY <1>3, <2>1 DEF RelayInv, At, Unclaimed
<1>4. ASSUME NEW t \in Tabs, NEW u \in Tabs,
             request'[t].at = "relay", request'[u].at = "relay",
             request'[t].attempt = request'[u].attempt
      PROVE  t = u
  <2>1. CASE request'[t] = request[t] /\ request'[u] = request[u]
    BY <1>4, <2>1 DEF RelayInv, At
  <2> QED
    BY <1>3, <1>4, <1>t, <2>1 DEF Traced
<1>5. RelayedOnce'
  BY <1>1, <1>t DEF RelayedOnce, AgentTypeOK
<1> QED
  BY <1>1, <1>2, <1>4, <1>5 DEF RelayInv, At

\* The proof of an attempt goes to the relay at most once, whichever requests
\* hold it, die with it, or are answered too late (world.ts:378).
THEOREM RelayOnce == AgentSpec => []RelayedOnce
<1>1. AgentInit => RequestsHold /\ RelayInv
  BY DEF AgentInit, Idle, RequestsHold, RelayInv, RelayedOnce, At
<1>2. AgentTypeOK /\ RequestsHold /\ RelayInv /\ [AgentNext]_agentVars => RelayInv'
  <2>1. CASE UNCHANGED agentVars
    BY <2>1 DEF agentVars, RelayInv, RelayedOnce, At
  <2> QED
    BY <2>1, RelayStep
<1>3. RelayInv => RelayedOnce
  BY DEF RelayInv
<1> QED
  BY <1>1, <1>2, <1>3, AgentInitType, AgentStepType, PTL DEF AgentSpec

----------------------------------------------------------------------------
\* What is shown as verified.

\* A request that is about to say verified was told so by AgentBook.
VerifiedInv ==
    /\ VerifiedIsRegistered
    /\ \A t \in Tabs : request[t].to = "verified" => book.human

LEMMA BookGrows == AgentTypeOK /\ AgentNext /\ book.human => book'.human
<1> SUFFICES ASSUME AgentTypeOK, AgentNext, book.human PROVE book'.human
  OBVIOUS
<1>1. ASSUME NEW t \in Tabs, Ask(t) \/ RequestDies(t) PROVE book' = book
  BY <1>1 DEF Ask, CreateAgent, ProvisionRead, PatchRead, RevokeRead, SkipRead,
              SessionRead, CompleteRead, AskAgain, RequestDies, chainVars
<1>2. ASSUME NEW t \in Tabs, Serve(t) PROVE book' = book
  BY <1>2 DEF Serve, ProvisionReset, SendProvision, UndoProvision, PolicyWrite,
              PermissionsRead, PermissionsWrite, RevokeWrite, SetWorldState,
              ReloadVersion, SessionLookup, SessionNonce, SessionStart,
              CompleteCheck, Claim, Relay, Submit, ReloadForSubmit, Notify,
              Resend, Fail, chainVars
<1>3. CASE Jobs \/ \E a \in Attempts : Lapse(a)
  BY <1>3 DEF Jobs, AttachWallet, Confirm, Lapse, chainVars
<1>4. ASSUME NEW a \in Attempts, Lands(a) PROVE book'.human
  BY <1>4 DEF Lands
<1> QED
  BY <1>1, <1>2, <1>3, <1>4 DEF AgentNext, World

LEMMA Verifying ==
    ASSUME AgentTypeOK, AgentNext, VerifiedInv,
           agent'.world = "verified" \/ agent'.human
    PROVE  book.human
<1>t. agent \in AgentRow
  BY DEF AgentTypeOK
<1>1. CASE UNCHANGED <<agent>>
  BY <1>1 DEF VerifiedInv, VerifiedIsRegistered
<1>2. ASSUME NEW t \in Tabs, Ask(t) \/ RequestDies(t) PROVE book.human
  <2>1. CASE CreateAgent(t)
    BY <1>t, <2>1
       DEF CreateAgent, Created, AgentRow, VerifiedInv, VerifiedIsRegistered
  <2> QED
    BY <1>1, <1>2, <2>1, AgentUntouched DEF Ask
<1>3. ASSUME NEW t \in Tabs, Serve(t) PROVE book.human
  <2>1. CASE ProvisionReset(t) \/ UndoProvision(t)
    BY <1>t, <2>1
       DEF ProvisionReset, UndoProvision, Transition, CannotTransition, AgentRow,
           VerifiedInv, VerifiedIsRegistered
  <2>2. CASE PolicyWrite(t) \/ PermissionsWrite(t) \/ RevokeWrite(t)
    BY <1>t, <2>2 DEF PolicyWrite, PermissionsWrite, RevokeWrite, AgentRow,
                      VerifiedInv, VerifiedIsRegistered
  <2>3. CASE SessionStart(t) \/ Submit(t) \/ Fail(t)
    BY <1>t, <2>3 DEF SessionStart, Submit, Fail, AgentRow,
                      VerifiedInv, VerifiedIsRegistered
  <2>4. CASE SetWorldState(t)
    BY <1>t, <2>4 DEF SetWorldState, AgentRow, VerifiedInv, VerifiedIsRegistered
  <2> QED
    BY <1>1, <1>3, <2>1, <2>2, <2>3, <2>4, AgentUntouched DEF Serve
<1>4. CASE AttachWallet
  BY <1>t, <1>4 DEF AttachWallet, AgentRow, VerifiedInv, VerifiedIsRegistered
<1>5. CASE (\E a \in Attempts : Confirm(a)) \/ World
  BY <1>1, <1>5 DEF Confirm, World, Lapse, Lands
<1> QED
  BY <1>2, <1>3, <1>4, <1>5 DEF AgentNext, Jobs

\* An agent shown as verified, or with a human on its row, is one AgentBook has:
\* no acceptance by the relay and no stale request makes it so (260:1023).
THEOREM VerifiedRegistered == AgentSpec => []VerifiedIsRegistered
<1>1. AgentInit => VerifiedInv
  BY DEF AgentInit, Idle, VerifiedInv, VerifiedIsRegistered
<1>2. AgentTypeOK /\ VerifiedInv /\ [AgentNext]_agentVars => VerifiedInv'
  <2>1. CASE UNCHANGED agentVars
    BY <2>1 DEF agentVars, VerifiedInv, VerifiedIsRegistered
  <2>2. ASSUME AgentTypeOK, VerifiedInv, AgentNext PROVE VerifiedInv'
    <3>1. VerifiedIsRegistered'
      BY <2>2, BookGrows, Verifying DEF VerifiedIsRegistered
    <3>2. ASSUME NEW t \in Tabs, request'[t].to = "verified" PROVE book'.human
      BY <2>2, <3>2, BookGrows, Tracing DEF Traced, VerifiedInv
    <3> QED
      BY <3>1, <3>2 DEF VerifiedInv
  <2> QED
    BY <2>1, <2>2
<1>3. VerifiedInv => VerifiedIsRegistered
  BY DEF VerifiedInv
<1> QED
  BY <1>1, <1>2, <1>3, AgentTypeCorrect, PTL DEF AgentSpec
=============================================================================
