-------------------------- MODULE MCTaskSettlement --------------------------
(* Small instances of TaskSettlement for TLC. *)
EXTENDS TaskSettlement, TLC

CONSTANTS a, b, c

\* b is a with a blank; c is similar to b but not to a.
MCOutputs == {a, b, c}
MCTrimmed == [o \in MCOutputs |-> IF o = b THEN a ELSE o]
MCSimilar == {<<o, o>> : o \in MCOutputs} \union {<<a, b>>, <<b, a>>, <<b, c>>, <<c, b>>}
=============================================================================
