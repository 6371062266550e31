------------------------ MODULE MCPaymentCompliance ------------------------
(* Small instances of PaymentCompliance for TLC. *)
EXTENDS PaymentCompliance

\* Two payments around a detection; two payments around two approvals; one payment amid
\* racing submissions and approvals; one around a detection and a declaration.
SmallBudgets == {
    [pay |-> 2, submit |-> 1, verify |-> 1, detect |-> 1, declare |-> 0],
    [pay |-> 2, submit |-> 1, verify |-> 2, detect |-> 0, declare |-> 0],
    [pay |-> 1, submit |-> 2, verify |-> 2, detect |-> 0, declare |-> 0],
    [pay |-> 1, submit |-> 1, verify |-> 1, detect |-> 1, declare |-> 1]}

Symmetry == Permutations(Calls)
=============================================================================
