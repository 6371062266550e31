----------------------------- MODULE MCIssuance -----------------------------
(* Small instances of Issuance for TLC. *)
EXTENDS Issuance

\* Two calls that take the only two connections, with a completion that fails and is retried; two
\* that find a third one free: mints that race for one user, rows named as users in checks of
\* transfers, completions of one audit or two.
SmallLimits == {
    [connections |-> 2, failures |-> 1, audits |-> 1, completions |-> 2,
     offerings |-> 1, investors |-> 1, holdings |-> 1, records |-> 0],
    [connections |-> 3, failures |-> 0, audits |-> 1, completions |-> 1,
     offerings |-> 1, investors |-> 2, holdings |-> 2, records |-> 0],
    [connections |-> 3, failures |-> 0, audits |-> 1, completions |-> 1,
     offerings |-> 1, investors |-> 2, holdings |-> 1, records |-> 1],
    [connections |-> 3, failures |-> 1, audits |-> 2, completions |-> 2,
     offerings |-> 1, investors |-> 0, holdings |-> 0, records |-> 1]}
=============================================================================
