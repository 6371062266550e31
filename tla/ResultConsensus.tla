--------------------------- MODULE ResultConsensus ---------------------------
(***************************************************************************)
(* The decision rules of services/resultVerification.ts as operators on    *)
(* lists of rows of task_results, in the order the query returns them.     *)
(*                                                                         *)
(* An output is a model value.  Trimmed is what String.trim makes of it,   *)
(* Similar the pairs that calculateSimilarity rates at 90 or more.         *)
(***************************************************************************)
EXTENDS Integers, Sequences, FiniteSets

CONSTANTS
    Nodes,      \* nodes that may report
    Outputs,    \* outputs they may report
    Trimmed,    \* [Outputs -> Outputs]
    Similar     \* set of pairs of outputs

ASSUME NodesAssumption == IsFiniteSet(Nodes)
ASSUME TrimmedAssumption == Trimmed \in [Outputs -> Outputs]
ASSUME SimilarAssumption ==
    /\ \A o \in Outputs : <<o, o>> \in Similar
    /\ \A o, p \in Outputs : <<o, p>> \in Similar => <<p, o>> \in Similar

\* A list of rows has one row [node, output] per node: UNIQUE(task_id, node_id).
Reporters(rs) == {rs[i].node : i \in DOMAIN rs}

\* Math.ceil(totalNodes * 0.66)
Threshold(n) == (66 * n + 99) \div 100

-----------------------------------------------------------------------------
\* Rows whose output, under the conversion key, is that of row i.
SameAs(rs, key, i) == {j \in DOMAIN rs : key[rs[j].output] = key[rs[i].output]}

\* The first of some rows, by its index.
FirstOf(c) == CHOOSE i \in c : \A j \in c : i <= j

\* Mutant: maxCount is never updated, so the last group seen wins.
LastGroupRow(rs, key) ==
    CHOOSE i \in DOMAIN rs :
        /\ i = FirstOf(SameAs(rs, key, i))
        /\ \A j \in DOMAIN rs : FirstOf(SameAs(rs, key, j)) <= i

\* The loop over outputGroups: the largest group, the first seen if several.
LeadingRow(rs, key) ==
    CHOOSE i \in DOMAIN rs : \A j \in DOMAIN rs :
        \/ Cardinality(SameAs(rs, key, i)) > Cardinality(SameAs(rs, key, j))
        \/ /\ Cardinality(SameAs(rs, key, i)) = Cardinality(SameAs(rs, key, j))
           /\ i <= j

NoVerdict == [reached |-> FALSE]

Verdict(rs, members, output) ==
    IF Cardinality(members) < Threshold(Len(rs))
    THEN NoVerdict
    ELSE [reached |-> TRUE,
          agreeing |-> {rs[i].node : i \in members},
          disagreeing |-> Reporters(rs) \ {rs[i].node : i \in members},
          output |-> output]

\* verifyDeterministicResults: exact match of the trimmed outputs.
DeterministicVerdict(rs) ==
    LET i == LeadingRow(rs, Trimmed) IN
    Verdict(rs, SameAs(rs, Trimmed, i), Trimmed[rs[i].output])

-----------------------------------------------------------------------------
\* Mutant: processed is asked about the first node of the pair only.
ClusteredOnFirst(s, rs, i, j) ==
    LET holding == {k \in DOMAIN s.clusters : s.clusters[k] \cap {i, j} # {}} IN
    IF i >= j \/ <<rs[i].output, rs[j].output>> \notin Similar \/ i \in s.processed
    THEN s
    ELSE [clusters |-> IF holding = {} THEN Append(s.clusters, {i, j})
                       ELSE [s.clusters EXCEPT ![FirstOf(holding)] = @ \union {i, j}],
          processed |-> s.processed \union {i, j}]

\* One pass of the clustering loop, over the pair of rows i < j: a pair of similar rows, none of
\* them processed, joins the first cluster that has one of them, or starts a cluster.
Clustered(s, rs, i, j) ==
    LET holding == {k \in DOMAIN s.clusters : s.clusters[k] \cap {i, j} # {}} IN
    IF i >= j \/ <<rs[i].output, rs[j].output>> \notin Similar \/ {i, j} \cap s.processed # {}
    THEN s
    ELSE [clusters |-> IF holding = {} THEN Append(s.clusters, {i, j})
                       ELSE [s.clusters EXCEPT ![FirstOf(holding)] = @ \union {i, j}],
          processed |-> s.processed \union {i, j}]

\* clusters[0] after the stable sort by length: the first of the largest.
Largest(clusters) ==
    clusters[FirstOf({k \in DOMAIN clusters :
        \A l \in DOMAIN clusters : Cardinality(clusters[l]) <= Cardinality(clusters[k])})]

\* The loop over similarities, which lists the pairs of rows row by row, and its largest cluster,
\* if there is one: from[p, s] is what comes of s with the pairs after the first p.
MajorityCluster(rs) ==
    LET n == Len(rs)
        States == [clusters : Seq(SUBSET (1 .. n)), processed : SUBSET (1 .. n)]
        from[p \in 0 .. n * n, s \in States] ==
            IF p < n * n THEN from[p + 1, Clustered(s, rs, (p \div n) + 1, (p % n) + 1)]
            ELSE IF s.clusters = << >> THEN {} ELSE Largest(s.clusters)
    IN  from[0, [clusters |-> << >>, processed |-> {}]]

\* verifyNonDeterministicResults: similarity of 90% or more.
NonDeterministicVerdict(rs) ==
    LET members == DOMAIN rs \cap MajorityCluster(rs) IN
    IF members = {} THEN NoVerdict ELSE Verdict(rs, members, rs[FirstOf(members)].output)

Raw == [o \in Outputs |-> o]

\* runTiebreaker with enough nodes: the most common output, untrimmed.
TiebreakVerdict(rs) ==
    [reached |-> TRUE, agreeing |-> Reporters(rs), disagreeing |-> {},
     output |-> rs[LeadingRow(rs, Raw)].output]

=============================================================================
