---------------------------- MODULE AgentLifecycle ----------------------------
(***************************************************************************)
(* The row of one hosted agent (registered_agents) and its registrations   *)
(* with World's AgentBook (agent_world_registrations): the owner's routes  *)
(* under packages/agent-gateway/src/routes/agents, the SQL functions of    *)
(* migrations 260 and 269 they call, and the two jobs that provision the   *)
(* wallet and reconcile a registration.                                    *)
(*                                                                         *)
(* Every function takes the row's lock and compares lifecycle_version with *)
(* the version its caller read; every write adds one.  The version itself  *)
(* is left out: "fresh" is the set of callers whose version is still the   *)
(* row's, which each write empties, so that requests need not be counted.  *)
(* A request is a process of its own (two browser tabs, a retried call),   *)
(* one step per await.  Reads of one request that no other step can tell   *)
(* apart are one step.                                                     *)
(***************************************************************************)
EXTENDS Integers

CONSTANTS
    Settings,      \* "name" and "swaps" of the policy, "permissions" apart
    Tabs,          \* requests of the owner in flight at one time
    MaxAttempts,   \* bound on the agent_world_registrations rows
    Budgets,       \* how often a behaviour may meet what is not the normal
                   \* course: patches, edits (skips and revocations), faults
                   \* (failing calls), deaths of requests, and attempts
    None           \* SQL NULL, or no value

ASSUME LifecycleAssumption ==
    /\ Settings \subseteq {"name", "swaps", "permissions"}
    /\ MaxAttempts \in Nat
    /\ Budgets \subseteq [patches : Nat, edits : Nat, faults : Nat,
                          deaths : Nat, attempts : 0..MaxAttempts]
    /\ None \notin Nat

Attempts == 1..MaxAttempts

VARIABLES
    agent,         \* the registered_agents row
    attempt,       \* attempt id -> agent_world_registrations row
    fresh,         \* tabs whose lifecycle version is still the row's
    request,       \* tab -> the request it has in flight
    queued,        \* events sent: for the wallet, and per attempt
    book,          \* AgentBook's entry for the agent's wallet
    relays,        \* attempts whose registration the relay has accepted
    relayed,       \* attempt id -> times its proof was sent to the relay
    budget         \* what is left of the budget it started with

agentVars == <<agent, attempt, fresh, request, queued, book, relays,
               relayed, budget>>

WorldStatus ==
    {"not_started", "in_progress", "skipped", "submitted", "verified", "failed"}

AgentRow ==
    [status : {"absent", "provisioning_wallet", "provisioning_failed",
               "ready", "revoked"},
     wallet : BOOLEAN,
     edited : SUBSET Settings,      \* settings that have their new value
     world : WorldStatus,
     human : BOOLEAN]               \* agentbook_human_id is set

AttemptRow ==
    [status : {"absent", "in_progress", "relaying", "submitted", "verified",
               "failed", "expired"},
     nonce : Nat,
     late : BOOLEAN]                \* expires_at has passed

Step == {"idle", "reset", "send", "undo", "policy", "grant", "permit", "revoke",
         "lookup", "nonce", "start", "set", "reload",
         "check", "claim", "relay", "submit", "resubmit", "notify", "resend", "fail"}

Idle == [at |-> "idle", attempt |-> None, nonce |-> 0, edits |-> {},
         seen |-> {}, to |-> "not_started", last |-> FALSE]

Request ==
    [at : Step,
     attempt : Attempts \cup {None},
     nonce : Nat,
     edits : SUBSET Settings,       \* what a PATCH asks for
     seen : SUBSET Settings,        \* the settings as this request read them
     to : WorldStatus,              \* world status it is about to set
     last : BOOLEAN]                \* in its second, last try at a version

AgentTypeOK ==
    /\ agent \in AgentRow
    /\ attempt \in [Attempts -> AttemptRow]
    /\ fresh \subseteq Tabs
    /\ request \in [Tabs -> Request]
    /\ queued \in [wallet : BOOLEAN, confirm : SUBSET Attempts]
    /\ book \in [human : BOOLEAN, nonce : Nat]
    /\ relays \subseteq Attempts
    /\ relayed \in [Attempts -> Nat]
    /\ budget \in [patches : Nat, edits : Nat, faults : Nat, deaths : Nat,
                   attempts : Nat]

AgentInit ==
    /\ agent = [status |-> "absent", wallet |-> FALSE, edited |-> {},
                world |-> "not_started", human |-> FALSE]
    /\ attempt = [a \in Attempts |->
            [status |-> "absent", nonce |-> 0, late |-> FALSE]]
    /\ fresh = {}
    /\ request = [t \in Tabs |-> Idle]
    /\ queued = [wallet |-> FALSE, confirm |-> {}]
    /\ book = [human |-> FALSE, nonce |-> 0]
    /\ relays = {}
    /\ relayed = [a \in Attempts |-> 0]
    /\ budget \in Budgets

chainVars == <<book, relays, relayed>>

At(t, step) == request[t].at = step
Goto(t, step) == request' = [request EXCEPT ![t].at = step]

\* The request is answered; the version it read is forgotten with it.
Answered(t) == request' = [request EXCEPT ![t] = Idle]
Refused(t) == Answered(t) /\ fresh' = fresh \ {t}

Spend(kind) ==
    /\ budget[kind] > 0
    /\ budget' = [budget EXCEPT ![kind] = @ - 1]

Reads(c) == fresh' = fresh \cup {c}

\* lifecycle_version = lifecycle_version + 1
Bump == fresh' = {}

Ready == agent.status = "ready" /\ agent.wallet
Provisioning == agent.status \in {"provisioning_wallet", "provisioning_failed"}

----------------------------------------------------------------------------
\* createPlatformAgent: the row as it is read back.
Created == [agent EXCEPT !.status = "provisioning_wallet"]

\* CREATE, up to its event.
CreateAgent(t) ==
    /\ At(t, "idle")
    /\ agent.status = "absent"
    /\ agent' = Created
    /\ Goto(t, "send")
    /\ fresh' = {t}
    /\ UNCHANGED <<attempt, queued, budget, chainVars>>

\* POST provision: the row is read.
ProvisionRead(t) ==
    /\ At(t, "idle")
    /\ ~agent.wallet
    /\ Provisioning
    /\ Goto(t, "reset")
    /\ Reads(t)
    /\ UNCHANGED <<agent, attempt, queued, budget, chainVars>>

\* transition_platform_agent_provisioning
Transition(t, status) ==
    /\ t \in fresh
    /\ ~agent.wallet
    /\ Provisioning
    /\ agent' = [agent EXCEPT !.status = status]

CannotTransition(t) ==
    /\ t \notin fresh \/ agent.wallet \/ ~Provisioning
    /\ UNCHANGED agent

\* The request keeps the version its own write made (nextVersion).
ProvisionReset(t) ==
    /\ At(t, "reset")
    /\ \/ Transition(t, "provisioning_wallet") /\ fresh' = {t} /\ Goto(t, "send")
       \/ CannotTransition(t) /\ Refused(t)
    /\ UNCHANGED <<attempt, queued, budget, chainVars>>

\* agent/provision.requested, from CREATE and from POST provision.
SendProvision(t) ==
    /\ At(t, "send")
    /\ \/ /\ queued' = [queued EXCEPT !.wallet = TRUE]
          /\ Refused(t)
          /\ UNCHANGED budget
       \/ /\ Spend("faults")
          /\ Goto(t, "undo")
          /\ UNCHANGED <<queued, fresh>>
    /\ UNCHANGED <<agent, attempt, chainVars>>

\* A slip: the status of another table's vocabulary.
UndoProvisionFailed(t) ==
    /\ At(t, "undo")
    /\ \/ Transition(t, "failed") /\ Bump /\ Answered(t)
       \/ CannotTransition(t) /\ Refused(t)
    /\ UNCHANGED <<attempt, queued, budget, chainVars>>

\* The queue was unavailable.  A version that moved on makes this a no-op.
UndoProvision(t) ==
    /\ At(t, "undo")
    /\ \/ Transition(t, "provisioning_failed") /\ Bump /\ Answered(t)
       \/ CannotTransition(t) /\ Refused(t)
    /\ UNCHANGED <<attempt, queued, budget, chainVars>>

\* The job takes the event and calls attach_platform_agent_wallet, reading the
\* row again after a conflict: modelled where a call is no conflict.  A
\* revoked agent is refused, one that has its wallet answered as a replay.
AttachWallet ==
    /\ queued.wallet
    /\ queued' = [queued EXCEPT !.wallet = FALSE]
    /\ \/ /\ agent.status = "revoked" \/ agent.wallet
          /\ UNCHANGED <<agent, fresh>>
       \/ /\ agent.status # "revoked" /\ ~agent.wallet
          /\ agent' = [agent EXCEPT !.status = "ready", !.wallet = TRUE]
          /\ Bump
    /\ UNCHANGED <<attempt, request, budget, chainVars>>

----------------------------------------------------------------------------
\* PATCH: the policy fields are written back as they were read, apart from the
\* ones the owner gave.
PatchRead(t, edits) ==
    /\ At(t, "idle")
    /\ agent.status \notin {"absent", "revoked"}
    /\ Spend("patches")
    /\ request' = [request EXCEPT ![t].edits = edits, ![t].seen = agent.edited,
                   ![t].at = IF edits = {"permissions"} THEN "permit" ELSE "policy"]
    /\ Reads(t)
    /\ UNCHANGED <<agent, attempt, queued, chainVars>>

\* A slip: the policy is written without comparing the version.
PolicyWriteBlind(t) ==
    /\ At(t, "policy")
    /\ \/ /\ agent.status # "revoked"
          /\ agent' = [agent EXCEPT !.edited =
                (@ \cap {"permissions"})
                \cup ((request[t].seen \cup request[t].edits) \ {"permissions"})]
          /\ Bump
          /\ IF "permissions" \in request[t].edits THEN Goto(t, "grant") ELSE Answered(t)
       \/ agent.status = "revoked" /\ Refused(t) /\ UNCHANGED agent
    /\ UNCHANGED <<attempt, queued, budget, chainVars>>

\* update_platform_agent_policy
PolicyWrite(t) ==
    /\ At(t, "policy")
    /\ \/ /\ t \in fresh /\ agent.status # "revoked"
          /\ agent' = [agent EXCEPT !.edited =
                (@ \cap {"permissions"})
                \cup ((request[t].seen \cup request[t].edits) \ {"permissions"})]
          /\ Bump
          /\ IF "permissions" \in request[t].edits THEN Goto(t, "grant") ELSE Answered(t)
       \/ (t \notin fresh \/ agent.status = "revoked") /\ Refused(t) /\ UNCHANGED agent
    /\ UNCHANGED <<attempt, queued, budget, chainVars>>

\* updateAgentPermissions reads the row for itself.
PermissionsRead(t) ==
    /\ At(t, "grant")
    /\ \/ agent.status = "revoked" /\ Refused(t)
       \/ agent.status # "revoked" /\ Goto(t, "permit") /\ Reads(t)
    /\ UNCHANGED <<agent, attempt, queued, budget, chainVars>>

\* update_platform_agent_permissions; a conflict is answered 409 although the
\* policy has been written.
PermissionsWrite(t) ==
    /\ At(t, "permit")
    /\ \/ /\ t \in fresh /\ agent.status # "revoked"
          /\ agent' = [agent EXCEPT !.edited = @ \cup {"permissions"}]
          /\ Bump
          /\ Answered(t)
       \/ (t \notin fresh \/ agent.status = "revoked") /\ Refused(t) /\ UNCHANGED agent
    /\ UNCHANGED <<attempt, queued, budget, chainVars>>

RevokeRead(t) ==
    /\ At(t, "idle")
    /\ agent.status \notin {"absent", "revoked"}
    /\ Spend("edits")
    /\ Goto(t, "revoke")
    /\ Reads(t)
    /\ UNCHANGED <<agent, attempt, queued, chainVars>>

\* revoke_platform_agent; a version that moved on is answered AGENT_UNKNOWN.
RevokeWrite(t) ==
    /\ At(t, "revoke")
    /\ \/ /\ t \in fresh /\ agent.status # "revoked"
          /\ agent' = [agent EXCEPT !.status = "revoked"]
          /\ Bump
          /\ Answered(t)
       \/ (t \notin fresh \/ agent.status = "revoked") /\ Refused(t) /\ UNCHANGED agent
    /\ UNCHANGED <<attempt, queued, budget, chainVars>>

----------------------------------------------------------------------------
\* A request that is about to set the world status.
Set(t, to) == request' = [request EXCEPT ![t].at = "set", ![t].to = to]

\* setWorldState is over.  COMPLETE, the only caller with an attempt, then
\* sends its event; the others answer.
AfterSet(t) ==
    \/ request[t].attempt # None /\ Goto(t, "resend")
    \/ request[t].attempt = None /\ Answered(t)

SkipRead(t) ==
    /\ At(t, "idle")
    /\ agent.status # "absent"
    /\ agent.world # "verified"
    /\ Spend("edits")
    /\ Set(t, "skipped")
    /\ Reads(t)
    /\ UNCHANGED <<agent, attempt, queued, chainVars>>

\* A slip: a revoked agent is written to like any other.
SetWorldStateAlways(t) ==
    /\ At(t, "set")
    /\ \/ /\ t \in fresh
          /\ agent' = [agent EXCEPT !.world = request[t].to,
                                    !.human = @ \/ request[t].to = "verified"]
          /\ Bump
          /\ AfterSet(t)
       \/ /\ t \notin fresh
          /\ ~request[t].last
          /\ Goto(t, "reload")
          /\ UNCHANGED <<agent, fresh>>
       \/ /\ t \notin fresh /\ request[t].last
          /\ AfterSet(t)
          /\ fresh' = fresh \ {t}
          /\ UNCHANGED agent
    /\ UNCHANGED <<attempt, queued, budget, chainVars>>

\* A slip: the human id given is written whatever the status, so that it is
\* cleared by every other one.
SetWorldStateOverwriting(t) ==
    /\ At(t, "set")
    /\ \/ /\ t \in fresh /\ agent.status # "revoked"
          /\ agent' = [agent EXCEPT !.world = request[t].to,
                                    !.human = request[t].to = "verified"]
          /\ Bump
          /\ AfterSet(t)
       \/ /\ t \notin fresh /\ agent.status # "revoked"
          /\ ~request[t].last
          /\ Goto(t, "reload")
          /\ UNCHANGED <<agent, fresh>>
       \/ /\ agent.status = "revoked" \/ (t \notin fresh /\ request[t].last)
          /\ AfterSet(t)
          /\ fresh' = fresh \ {t}
          /\ UNCHANGED agent
    /\ UNCHANGED <<attempt, queued, budget, chainVars>>

\* setWorldState: set_platform_agent_world_state, tried a second time at a
\* reloaded version.
SetWorldState(t) ==
    /\ At(t, "set")
    /\ \/ /\ t \in fresh /\ agent.status # "revoked"
          /\ agent' = [agent EXCEPT !.world = request[t].to,
                                    !.human = @ \/ request[t].to = "verified"]
          /\ Bump
          /\ AfterSet(t)
       \/ /\ t \notin fresh /\ agent.status # "revoked"
          /\ ~request[t].last
          /\ Goto(t, "reload")
          /\ UNCHANGED <<agent, fresh>>
       \/ /\ agent.status = "revoked" \/ (t \notin fresh /\ request[t].last)
          /\ AfterSet(t)
          /\ fresh' = fresh \ {t}
          /\ UNCHANGED agent
    /\ UNCHANGED <<attempt, queued, budget, chainVars>>

\* callWithAgentLifecycleVersion after a conflict.
ReloadVersion(t) ==
    /\ At(t, "reload")
    /\ \/ agent.status = "revoked" /\ AfterSet(t) /\ UNCHANGED fresh
       \/ /\ agent.status # "revoked"
          /\ request' = [request EXCEPT ![t].at = "set", ![t].last = TRUE]
          /\ Reads(t)
    /\ UNCHANGED <<agent, attempt, queued, budget, chainVars>>

----------------------------------------------------------------------------
SessionRead(t) ==
    /\ At(t, "idle")
    /\ Ready
    /\ Goto(t, "lookup")
    /\ Reads(t)
    /\ UNCHANGED <<agent, attempt, queued, budget, chainVars>>

\* A slip: AgentBook is not asked whether it knows the wallet already.
SessionLookupSkipped(t) ==
    /\ At(t, "lookup")
    /\ Goto(t, "nonce")
    /\ UNCHANGED <<agent, attempt, fresh, queued, budget, chainVars>>

\* lookupAgentBookHuman, which may be unavailable.
SessionLookup(t) ==
    /\ At(t, "lookup")
    /\ \/ book.human /\ Set(t, "verified") /\ UNCHANGED budget
       \/ ~book.human /\ Goto(t, "nonce") /\ UNCHANGED budget
       \/ Spend("faults") /\ Set(t, "failed")
    /\ UNCHANGED <<agent, attempt, fresh, queued, chainVars>>

\* nextAgentBookNonce, read after the lookup.
SessionNonce(t) ==
    /\ At(t, "nonce")
    /\ \/ /\ request' = [request EXCEPT ![t].at = "start", ![t].nonce = book.nonce]
          /\ UNCHANGED budget
       \/ Spend("faults") /\ Set(t, "failed")
    /\ UNCHANGED <<agent, attempt, fresh, queued, chainVars>>

\* The attempts once those past their time are closed.
Closed ==
    [a \in Attempts |->
        IF attempt[a].status \in {"in_progress", "relaying"} /\ attempt[a].late
        THEN [attempt[a] EXCEPT !.status = "expired"]
        ELSE attempt[a]]

\* A slip: only a submitted attempt stands in the way of a new one.
UnderSubmissionLate(rows) ==
    {a \in Attempts : rows[a].status = "submitted"}

UnderSubmission(rows) ==
    {a \in Attempts : rows[a].status \in {"relaying", "submitted"}}

\* Attempts are numbered as they are inserted.
Unused == {a \in Attempts : attempt[a].status = "absent"}
Newest(a) == a \in Unused /\ \A b \in Unused : a <= b

\* An attempt that was not taken further is replaced.
Started(a, number) ==
    [b \in Attempts |->
        IF b = a THEN [status |-> "in_progress", nonce |-> number, late |-> FALSE]
        ELSE IF Closed[b].status = "in_progress"
             THEN [Closed[b] EXCEPT !.status = "expired"]
             ELSE Closed[b]]

\* start_agent_world_registration.  What it closed stays closed when it then
\* finds a submission under way.  A behaviour has a budget of attempts.
SessionStart(t) ==
    /\ At(t, "start")
    /\ \/ /\ ~Ready \/ t \notin fresh \/ budget.attempts = 0
          /\ Refused(t)
          /\ UNCHANGED <<agent, attempt, budget>>
       \/ /\ Ready /\ t \in fresh /\ budget.attempts > 0
          /\ UnderSubmission(Closed) # {}
          /\ attempt' = Closed
          /\ Refused(t)
          /\ UNCHANGED <<agent, budget>>
       \/ /\ Ready /\ t \in fresh /\ budget.attempts > 0
          /\ UnderSubmission(Closed) = {}
          /\ Spend("attempts")
          /\ \E a \in Attempts :
                Newest(a) /\ attempt' = Started(a, request[t].nonce)
          /\ agent' = [agent EXCEPT !.world = "in_progress"]
          /\ Bump
          /\ Answered(t)
    /\ UNCHANGED <<queued, chainVars>>

----------------------------------------------------------------------------
\* agent/world-registration.reconcile for attempt a.
SendReconcile(a) == queued' = [queued EXCEPT !.confirm = @ \cup {a}]

\* COMPLETE on an attempt that has been sent, and RECONCILE: the event again.
\* The queue drops a second event with COMPLETE's id; that is left out.
AskAgain(t, a) ==
    /\ At(t, "idle")
    /\ Ready
    /\ a \in UnderSubmission(attempt)
    /\ SendReconcile(a)
    /\ UNCHANGED <<agent, attempt, fresh, request, budget, chainVars>>

CompleteRead(t, a) ==
    /\ At(t, "idle")
    /\ Ready
    /\ attempt[a].status = "in_progress" /\ ~attempt[a].late
    /\ request' = [request EXCEPT ![t].at = "check", ![t].attempt = a]
    /\ Reads(t)
    /\ UNCHANGED <<agent, attempt, queued, budget, chainVars>>

\* The nonce is read again and compared; the proof may be malformed.
CompleteCheck(t) ==
    /\ At(t, "check")
    /\ \/ Refused(t) /\ UNCHANGED budget
       \/ /\ book.nonce = attempt[request[t].attempt].nonce
          /\ Goto(t, "claim")
          /\ UNCHANGED <<fresh, budget>>
       \/ Spend("faults") /\ Goto(t, "fail") /\ UNCHANGED fresh
    /\ UNCHANGED <<agent, attempt, queued, chainVars>>

\* A slip: the claim checks the row it answers for, and not who claimed it.
ClaimTwice(t) ==
    LET a == request[t].attempt IN
    /\ At(t, "claim")
    /\ \/ /\ ~Ready \/ t \notin fresh
             \/ attempt[a].status \notin {"in_progress", "relaying"} \/ attempt[a].late
          /\ Refused(t)
          /\ UNCHANGED attempt
       \/ /\ Ready /\ t \in fresh
          /\ attempt[a].status \in {"in_progress", "relaying"} /\ ~attempt[a].late
          /\ attempt' = [attempt EXCEPT ![a].status = "relaying"]
          /\ Goto(t, "relay")
          /\ UNCHANGED fresh
    /\ UNCHANGED <<agent, queued, budget, chainVars>>

\* claim_agent_world_registration_submission: no version of its own.
Claim(t) ==
    LET a == request[t].attempt IN
    /\ At(t, "claim")
    /\ \/ /\ ~Ready \/ t \notin fresh \/ attempt[a].status # "in_progress"
          /\ Refused(t)
          /\ UNCHANGED attempt
       \/ /\ Ready /\ t \in fresh /\ attempt[a].status = "in_progress"
          /\ attempt[a].late
          /\ attempt' = [attempt EXCEPT ![a].status = "expired"]
          /\ Refused(t)
       \/ /\ Ready /\ t \in fresh /\ attempt[a].status = "in_progress"
          /\ ~attempt[a].late
          /\ attempt' = [attempt EXCEPT ![a].status = "relaying"]
          /\ Goto(t, "relay")
          /\ UNCHANGED fresh
    /\ UNCHANGED <<agent, queued, budget, chainVars>>

\* submitAgentBookRegistration: accepted, refused, or accepted with the answer
\* lost to the timeout.
Relay(t) ==
    LET a == request[t].attempt IN
    /\ At(t, "relay")
    /\ relayed' = [relayed EXCEPT ![a] = @ + 1]
    /\ \/ relays' = relays \cup {a} /\ Goto(t, "submit") /\ UNCHANGED budget
       \/ UNCHANGED relays /\ Goto(t, "fail") /\ Spend("faults")
       \/ relays' = relays \cup {a} /\ Goto(t, "fail") /\ Spend("faults")
    /\ UNCHANGED <<agent, attempt, fresh, queued, book>>

\* COMPLETE's catch once the relay accepted: it starts over from the version it
\* read first, which a reload has shown to be stale.
Catch(t) ==
    /\ request' = [request EXCEPT ![t].at = "set", ![t].to = "submitted",
                   ![t].last = FALSE]
    /\ fresh' = IF request[t].last THEN fresh \ {t} ELSE fresh

\* A slip: the relay's acceptance is taken for the confirmation.
SubmitAsVerified(t) ==
    LET a == request[t].attempt IN
    /\ At(t, "submit")
    /\ t \in fresh /\ agent.status # "revoked" /\ attempt[a].status = "relaying"
    /\ attempt' = [attempt EXCEPT ![a].status = "verified"]
    /\ agent' = [agent EXCEPT !.world = "verified", !.human = TRUE]
    /\ Bump
    /\ Goto(t, "notify")
    /\ UNCHANGED <<queued, budget, chainVars>>

\* submit_agent_world_registration, tried a second time at a reloaded version.
Submit(t) ==
    LET a == request[t].attempt IN
    /\ At(t, "submit")
    /\ \/ /\ t \in fresh /\ agent.status # "revoked" /\ attempt[a].status = "relaying"
          /\ attempt' = [attempt EXCEPT ![a].status = "submitted"]
          /\ agent' = [agent EXCEPT !.world = "submitted"]
          /\ Bump
          /\ Goto(t, "notify")
       \/ /\ t \notin fresh /\ agent.status # "revoked" /\ ~request[t].last
          /\ Goto(t, "resubmit")
          /\ UNCHANGED <<agent, attempt, fresh>>
       \/ /\ \/ agent.status = "revoked"
             \/ t \in fresh /\ attempt[a].status # "relaying"
             \/ t \notin fresh /\ request[t].last
          /\ Catch(t)
          /\ UNCHANGED <<agent, attempt>>
    /\ UNCHANGED <<queued, budget, chainVars>>

ReloadForSubmit(t) ==
    /\ At(t, "resubmit")
    /\ \/ agent.status = "revoked" /\ Catch(t)
       \/ /\ agent.status # "revoked"
          /\ request' = [request EXCEPT ![t].at = "submit", ![t].last = TRUE]
          /\ Reads(t)
    /\ UNCHANGED <<agent, attempt, queued, budget, chainVars>>

Notify(t) ==
    /\ At(t, "notify")
    /\ \/ SendReconcile(request[t].attempt) /\ Refused(t) /\ UNCHANGED budget
       \/ Spend("faults") /\ Catch(t) /\ UNCHANGED queued
    /\ UNCHANGED <<agent, attempt, chainVars>>

\* The event from the catch block; a second failure is answered 503.
Resend(t) ==
    /\ At(t, "resend")
    /\ Refused(t)
    /\ \/ SendReconcile(request[t].attempt) /\ UNCHANGED budget
       \/ Spend("faults") /\ UNCHANGED queued
    /\ UNCHANGED <<agent, attempt, chainVars>>

\* fail_agent_world_registration: nothing for an agent that is verified.
Fail(t) ==
    LET a == request[t].attempt IN
    /\ At(t, "fail")
    /\ \/ /\ agent.status = "revoked" \/ agent.world = "verified" \/ t \notin fresh
          /\ Refused(t)
          /\ UNCHANGED <<agent, attempt>>
       \/ /\ agent.status # "revoked" /\ agent.world # "verified" /\ t \in fresh
          /\ attempt' = [attempt EXCEPT ![a].status =
                IF @ \in {"in_progress", "relaying"} THEN "failed" ELSE @]
          /\ agent' = [agent EXCEPT !.world = "failed"]
          /\ Bump
          /\ Answered(t)
    /\ UNCHANGED <<queued, budget, chainVars>>

\* The request dies between two steps: a serverless timeout, a deploy.
RequestDies(t) ==
    /\ ~At(t, "idle")
    /\ Spend("deaths")
    /\ Refused(t)
    /\ UNCHANGED <<agent, attempt, queued, chainVars>>

----------------------------------------------------------------------------
\* The reconciliation job waits until AgentBook knows the wallet and calls
\* record_agentbook_confirmation, reading the row again after a conflict:
\* modelled where a call is no conflict.  It may never run, as a registration
\* may never land: nothing is assumed of either.
Confirm(a) ==
    /\ a \in queued.confirm
    /\ book.human
    /\ queued' = [queued EXCEPT !.confirm = @ \ {a}]
    /\ \/ /\ agent.status # "revoked"
          /\ attempt[a].status \in {"relaying", "submitted", "verified"}
          /\ agent' = [agent EXCEPT !.world = "verified", !.human = TRUE]
          /\ attempt' = [attempt EXCEPT ![a].status = "verified"]
          /\ Bump
       \/ /\ \/ agent.status = "revoked"
             \/ attempt[a].status \notin {"relaying", "submitted", "verified"}
          /\ UNCHANGED <<agent, attempt, fresh>>
    /\ UNCHANGED <<request, budget, chainVars>>

\* expires_at of an open attempt passes.
Lapse(a) ==
    /\ attempt[a].status \in {"in_progress", "relaying"}
    /\ ~attempt[a].late
    /\ attempt' = [attempt EXCEPT ![a].late = TRUE]
    /\ UNCHANGED <<agent, fresh, request, queued, budget, chainVars>>

\* The relay's transaction lands; AgentBook takes it at its next nonce only.
Lands(a) ==
    /\ a \in relays
    /\ relays' = relays \ {a}
    /\ book' = IF attempt[a].nonce = book.nonce
               THEN [human |-> TRUE, nonce |-> book.nonce + 1] ELSE book
    /\ UNCHANGED <<agent, attempt, fresh, request, queued, relayed, budget>>

----------------------------------------------------------------------------
\* A step of the request in flight.
Serve(t) ==
    \/ ProvisionReset(t) \/ SendProvision(t) \/ UndoProvision(t)
    \/ PolicyWrite(t) \/ PermissionsRead(t) \/ PermissionsWrite(t)
    \/ RevokeWrite(t)
    \/ SetWorldState(t) \/ ReloadVersion(t)
    \/ SessionLookup(t) \/ SessionNonce(t) \/ SessionStart(t)
    \/ CompleteCheck(t) \/ Claim(t) \/ Relay(t)
    \/ Submit(t) \/ ReloadForSubmit(t) \/ Notify(t) \/ Resend(t) \/ Fail(t)

\* A request of the owner arrives.
Ask(t) ==
    \/ CreateAgent(t) \/ ProvisionRead(t)
    \/ \E edits \in SUBSET Settings \ {{}} : PatchRead(t, edits)
    \/ RevokeRead(t)
    \/ SkipRead(t)
    \/ SessionRead(t)
    \/ \E a \in Attempts : CompleteRead(t, a) \/ AskAgain(t, a)

Jobs == AttachWallet \/ \E a \in Attempts : Confirm(a)

World == \E a \in Attempts : Lapse(a) \/ Lands(a)

AgentNext ==
    \/ \E t \in Tabs : Ask(t) \/ Serve(t) \/ RequestDies(t)
    \/ Jobs
    \/ World

AgentSpec == AgentInit /\ [][AgentNext]_agentVars

\* A request that was received is served, and the owner of an agent that is
\* ready asks for World verification again and again.  Nothing is assumed of
\* the queue, the jobs or the chain.
FairAgentSpec ==
    /\ AgentSpec
    /\ \A t \in Tabs : WF_agentVars(Serve(t))
    /\ SF_agentVars(\E t \in Tabs : SessionRead(t))

----------------------------------------------------------------------------
\* At most one registration of an agent is open, whichever tabs start, complete,
\* fail and replace attempts and whenever the attempts run out of time
\* (start_agent_world_registration, 260:624).
OneOpenAttempt ==
    \A a, b \in Attempts :
        /\ attempt[a].status \in {"in_progress", "relaying", "submitted"}
        /\ attempt[b].status \in {"in_progress", "relaying", "submitted"}
        => a = b

\* The proof of an attempt, which World accepts once, goes to the relay at most
\* once: not again from a second tab, after a lost answer, or after a request
\* that died (claim_agent_world_registration_submission, world.ts:378-406).
RelayedOnce == \A a \in Attempts : relayed[a] <= 1

\* An agent shown as verified, or with a human on its row, is one AgentBook has:
\* neither the relay's acceptance nor a stale request makes it so
\* (world.ts:155-171, 260:1023).
VerifiedIsRegistered ==
    agent.world = "verified" \/ agent.human => book.human

\* A revoked row is final: no request that read it earlier or reloaded its
\* version, and no writes to it again (lifecycle.ts:37).
RevokedIsFinal ==
    [][agent.status = "revoked" => agent' = agent]_agentVars

\* A settings change that was applied is not undone by another request that
\* read the row before it (updatePlatformAgent writes back what it read).
EditsAreKept == [][agent.edited \subseteq agent'.edited]_agentVars

\* The human of a confirmed agent is kept when a skip, a failed lookup or a
\* late submission overwrites its world status (260:520-523).
HumanIsKept == [][agent.human => agent'.human]_agentVars

\* An owner who keeps asking gets a registered agent recognised, whatever
\* became of the attempt, its event and the reconciliation: the session looks
\* AgentBook up before anything else (world.ts:138-171).
LandedIsRecognised ==
    book.human ~> (agent.human \/ agent.status = "revoked")
=============================================================================
