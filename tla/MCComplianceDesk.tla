-------------------------- MODULE MCComplianceDesk --------------------------
(* Small instances of ComplianceDesk for TLC. *)
EXTENDS ComplianceDesk

None == [op \in {"submit", "verify", "screen", "upload", "create", "consent", "required", "complain",
                 "handle"} |-> 0]

\* Screenings of a user with racing submissions; versions, consents and a question of a user;
\* a complaint and what staff do with it.
SmallBudgets == {
    [None EXCEPT !["submit"] = 2, !["verify"] = 1, !["screen"] = 2, !["upload"] = 1],
    [None EXCEPT !["create"] = 3, !["consent"] = 2, !["required"] = 1],
    [None EXCEPT !["complain"] = 1, !["handle"] = 3]}

Symmetry == Permutations(Calls)
=============================================================================
