----------------------------- MODULE MCPaidRequest -----------------------------
(***************************************************************************)
(* PaidRequest for TLC.                                                    *)
(***************************************************************************)
EXTENDS PaidRequest

CONSTANTS s1, s2, b1, b2

TwoCallers == {s1, s2}
OneCaller == {s1}
TwoContents == {b1, b2}

SameOrNot == {f \in [Callers -> Contents] : f[s1] = b1}
=============================================================================
