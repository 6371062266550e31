--------------------------- MODULE MCTenantAccess ---------------------------
(* Small instances of TenantAccess for TLC. *)
EXTENDS TenantAccess

Nothing == [op \in TenantOps \cup {"memory", "perKey", "recent", "redis", "tick", "signup", "found",
                                   "operate", "restart"} |-> 0]

\* Requests that are only limited, across windows and a restart; signups; organizations whose
\* members and keys read, write, make and revoke.
SmallBudgets == {
    [Nothing EXCEPT !["memory"] = 6, !["tick"] = MaxTime, !["restart"] = 1],
    [Nothing EXCEPT !["perKey"] = 6, !["tick"] = MaxTime, !["restart"] = 1],
    [Nothing EXCEPT !["recent"] = 6, !["tick"] = MaxTime, !["restart"] = 1],
    [Nothing EXCEPT !["redis"] = 6, !["tick"] = 2],
    [Nothing EXCEPT !["signup"] = 3, !["tick"] = 1, !["restart"] = 1],
    [Nothing EXCEPT !["signup"] = 1, !["project"] = 1, !["usage"] = 1, !["trail"] = 1],
    [Nothing EXCEPT !["signup"] = 1, !["create"] = 3, !["operate"] = 1],
    [Nothing EXCEPT !["found"] = 2, !["create"] = 1, !["project"] = 2, !["operate"] = 1],
    [Nothing EXCEPT !["found"] = 2, !["key"] = 2, !["revoke"] = 1],
    [Nothing EXCEPT !["found"] = 1, !["key"] = 1, !["status"] = 2, !["organization"] = 1, !["tick"] = 1]}

\* Each setting in either state, with each way to limit.
SomeDeployments == {
    [enforced |-> FALSE, dev |-> FALSE, limiting |-> "distributed"],
    [enforced |-> FALSE, dev |-> TRUE, limiting |-> "local"],
    [enforced |-> TRUE, dev |-> TRUE, limiting |-> "distributed"],
    [enforced |-> TRUE, dev |-> FALSE, limiting |-> "required"]}

Symmetry == Permutations(Calls) \cup Permutations(Conns)
=============================================================================
