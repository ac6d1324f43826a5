--------------------------- MODULE MCAgentLifecycle ---------------------------
(***************************************************************************)
(* AgentLifecycle for TLC: two requests at a time and two attempts, so     *)
(* that one request can overtake another at each of its steps and an       *)
(* attempt can be replaced.                                                *)
(***************************************************************************)
EXTENDS AgentLifecycle, TLC

CONSTANTS t1, t2

TwoTabs == {t1, t2}

\* Two settings changes and a skip or a revocation; a skip and a revocation; a
\* registration with a skip or a revocation; two registrations with a failing
\* call; a registration with a request that dies.  A request that never goes on
\* stands for one that died wherever only safety is at stake.
MCBudgets ==
    {[patches |-> 2, edits |-> 1, faults |-> 0, deaths |-> 0, attempts |-> 0],
     [patches |-> 0, edits |-> 2, faults |-> 0, deaths |-> 0, attempts |-> 0],
     [patches |-> 0, edits |-> 1, faults |-> 0, deaths |-> 0, attempts |-> 1],
     [patches |-> 0, edits |-> 0, faults |-> 1, deaths |-> 0, attempts |-> 2],
     [patches |-> 0, edits |-> 0, faults |-> 0, deaths |-> 1, attempts |-> 1]}
=============================================================================
