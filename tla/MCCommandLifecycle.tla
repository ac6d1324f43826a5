------------------------- MODULE MCCommandLifecycle -------------------------
(***************************************************************************)
(* Instance of CommandLifecycle for TLC: two commands, so that one can     *)
(* follow another on the same run.                                         *)
(***************************************************************************)
EXTENDS CommandLifecycle

CONSTANTS c1, c2, r1

MCCommands == {c1, c2}
MCRuns == {r1}

\* Two answers, one with a fault or with an overlapping delivery, or a revocation
\* in the middle of deliveries that overlap.
MCBudgets ==
    {[answers |-> 2, faults |-> 0, revocations |-> 0, overlaps |-> 0],
     [answers |-> 1, faults |-> 1, revocations |-> 0, overlaps |-> 0],
     [answers |-> 1, faults |-> 0, revocations |-> 0, overlaps |-> 1],
     [answers |-> 0, faults |-> 0, revocations |-> 1, overlaps |-> 1]}
=============================================================================
