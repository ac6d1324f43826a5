--------------------------- MODULE MCHeadlessAccess ---------------------------
(***************************************************************************)
(* HeadlessAccess and AgentRequests for TLC: two authorizations of         *)
(* different lifetimes and two credentials, so that renewal, rotation and  *)
(* both revocations interleave with the queries of a request.              *)
(***************************************************************************)
EXTENDS AgentRequests, TLC

CONSTANTS a1, a2, c1, c2, l1, l2

MCAuthorizations == {a1, a2}
MCLifetime == (a1 :> 2) @@ (a2 :> 4)
MCCredentials == {c1, c2}
MCLogins == {l1, l2}

\* Credentials, and copies of a login, differ in nothing but their name.
Alike == Permutations(MCCredentials) \cup Permutations(MCLogins)
=============================================================================
