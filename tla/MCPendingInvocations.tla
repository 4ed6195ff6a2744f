------------------------ MODULE MCPendingInvocations ------------------------
(* Instances of PendingInvocations for TLC. *)
EXTENDS PendingInvocations, TLC

CONSTANTS alice, bob, d1, d2

\* Two approvers, who may disagree.
TwoApprovers == d1 :> alice @@ d2 :> bob

\* Rows and sweeps are interchangeable: no property names one.
TableSymmetry ==
    Permutations(Ids) \cup Permutations(Sweepers)
=============================================================================
