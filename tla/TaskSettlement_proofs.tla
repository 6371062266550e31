----------------------- MODULE TaskSettlement_proofs -----------------------
(***************************************************************************)
(* Proofs about TaskSettlement and the decision rules of ResultConsensus,  *)
(* for every number of nodes, of outputs, of requests and of restarts.     *)
(***************************************************************************)
EXTENDS TaskSettlement, FiniteSetTheorems, FunctionTheorems, SequenceTheorems, TLAPS

-----------------------------------------------------------------------------
(***************************************************************************)
(* The loops that look for a first or a largest one.                       *)
(***************************************************************************)
\* Some of the numbers is the least.
LEMMA LeastElement ==
    ASSUME NEW S \in SUBSET Nat, S # {}
    PROVE  \E n \in S : \A m \in S : n <= m
<1>1. PICK n \in S : \A m \in S : ~(<<m, n>> \in OpToRel(<, Nat))
  BY WFMin, NatLessThanWellFounded
<1>2. \A m \in S : <<m, n>> \in OpToRel(<, Nat) <=> m < n
  BY DEF OpToRel
<1>3. \A m \in S : m \in Nat /\ n \in Nat /\ ~(m < n)
  BY <1>1, <1>2
<1>4. \A m \in S : n <= m
  BY <1>3
<1> QED BY <1>4

\* FirstOf finds the least of some indices.
LEMMA FirstFound ==
    ASSUME NEW S \in SUBSET Nat, S # {}
    PROVE  FirstOf(S) \in S /\ \A m \in S : FirstOf(S) <= m
  BY LeastElement DEF FirstOf

\* The rows a verification works on: at least one, each with a node and an output.
Rows == {rs \in Seq([node : Nodes, output : Outputs]) : rs # <<>>}

\* Indices and fields of rows.
LEMMA RowFacts ==
    ASSUME NEW rs \in Rows
    PROVE  /\ Len(rs) \in Nat \ {0} /\ DOMAIN rs = 1 .. Len(rs) /\ DOMAIN rs \in SUBSET Nat
           /\ \A i \in DOMAIN rs : rs[i].node \in Nodes /\ rs[i].output \in Outputs
<1>1. rs \in Seq([node : Nodes, output : Outputs]) /\ rs # <<>>
  BY DEF Rows
<1>2. Len(rs) \in Nat /\ DOMAIN rs = 1 .. Len(rs)
  BY <1>1
<1>3. \A i \in DOMAIN rs : rs[i] \in [node : Nodes, output : Outputs]
  <2>1. \A T : \A s \in Seq(T) : \A i \in DOMAIN s : s[i] \in T
    OBVIOUS
  <2> QED BY <1>1, <2>1
<1>4. Len(rs) # 0
  BY <1>1
<1> QED BY <1>2, <1>3, <1>4

\* The groups of rows are finite sets of indices.
LEMMA GroupFacts ==
    ASSUME NEW rs \in Rows, NEW key, NEW i \in DOMAIN rs
    PROVE  /\ SameAs(rs, key, i) \in SUBSET (DOMAIN rs) /\ i \in SameAs(rs, key, i)
           /\ IsFiniteSet(SameAs(rs, key, i))
           /\ Cardinality(SameAs(rs, key, i)) \in 0 .. Len(rs)
<1>1. SameAs(rs, key, i) \in SUBSET (DOMAIN rs) /\ i \in SameAs(rs, key, i)
  BY DEF SameAs
<1>2. IsFiniteSet(DOMAIN rs) /\ Cardinality(DOMAIN rs) = Len(rs)
  <2>1. 1 \in Int /\ Len(rs) \in Int /\ DOMAIN rs = 1 .. Len(rs) /\ Len(rs) >= 1
    BY RowFacts
  <2>2. IsFiniteSet(1 .. Len(rs))
        /\ Cardinality(1 .. Len(rs)) = IF 1 > Len(rs) THEN 0 ELSE Len(rs) - 1 + 1
    BY <2>1, FS_Interval
  <2> QED BY <2>1, <2>2
<1>3. IsFiniteSet(SameAs(rs, key, i)) /\ Cardinality(SameAs(rs, key, i)) <= Len(rs)
  BY <1>1, <1>2, FS_Subset
<1>4. Cardinality(SameAs(rs, key, i)) \in Nat
  BY <1>3, FS_CardinalityType
<1>5. Len(rs) \in Nat
  BY RowFacts
<1> QED BY <1>1, <1>3, <1>4, <1>5

\* The loop over the groups finds a row, and no row is of a larger group.
LEMMA LeadingFound ==
    ASSUME NEW rs \in Rows, NEW key
    PROVE  /\ LeadingRow(rs, key) \in DOMAIN rs
           /\ \A j \in DOMAIN rs :
                 Cardinality(SameAs(rs, key, j)) <= Cardinality(SameAs(rs, key, LeadingRow(rs, key)))
<1> DEFINE size(i) == Cardinality(SameAs(rs, key, i))
           behind == {Len(rs) - size(i) : i \in DOMAIN rs}
<1>1. \A i \in DOMAIN rs : size(i) \in 0 .. Len(rs)
  BY GroupFacts
<1>2. Len(rs) \in Nat \ {0} /\ DOMAIN rs = 1 .. Len(rs) /\ DOMAIN rs \in SUBSET Nat
  BY RowFacts
<1> HIDE DEF size
<1>3. behind \in SUBSET Nat /\ behind # {}
  BY <1>1, <1>2
<1>4. PICK b \in behind : \A c \in behind : b <= c
  BY <1>3, LeastElement
<1> DEFINE largest == {i \in DOMAIN rs : Len(rs) - size(i) = b}
<1>5. largest \in SUBSET Nat /\ largest # {}
  BY <1>2, <1>4
<1>6. PICK i \in largest : \A j \in largest : i <= j
  BY <1>5, LeastElement
<1>7. i \in DOMAIN rs /\ \A j \in DOMAIN rs : size(i) > size(j) \/ (size(i) = size(j) /\ i <= j)
  <2>1. i \in DOMAIN rs /\ Len(rs) - size(i) = b
    BY <1>6
  <2>2. ASSUME NEW j \in DOMAIN rs PROVE size(i) > size(j) \/ (size(i) = size(j) /\ i <= j)
    <3>1. b <= Len(rs) - size(j)
      BY <1>4
    <3>2. size(i) \in Nat /\ size(j) \in Nat /\ Len(rs) \in Nat
      BY <1>1, <1>2, <2>1
    <3>3. size(i) >= size(j)
      BY <2>1, <3>1, <3>2
    <3>4. size(i) = size(j) => i <= j
      BY <1>6, <2>1, <3>2
    <3> QED BY <3>2, <3>3, <3>4
  <2> QED BY <2>1, <2>2
<1>8. /\ LeadingRow(rs, key) \in DOMAIN rs
      /\ \A j \in DOMAIN rs : \/ size(LeadingRow(rs, key)) > size(j)
                              \/ size(LeadingRow(rs, key)) = size(j) /\ LeadingRow(rs, key) <= j
  BY <1>7 DEF LeadingRow, size
<1> DEFINE lead == LeadingRow(rs, key)
<1> HIDE DEF lead
<1>9. lead \in DOMAIN rs /\ \A j \in DOMAIN rs : size(j) <= size(lead)
  BY <1>1, <1>8 DEF lead
<1> QED BY <1>9 DEF lead, size

-----------------------------------------------------------------------------
(***************************************************************************)
(* The rows of a SELECT.                                                   *)
(***************************************************************************)
\* The pending nodes are finitely many.
LEMMA PendingFinite ==
    /\ Pending \in SUBSET Nodes
    /\ \A S \in SUBSET Nodes : IsFiniteSet(S) /\ Cardinality(S) \in Nat
<1>1. Pending \in SUBSET Nodes
  BY DEF Pending
<1>2. ASSUME NEW S \in SUBSET Nodes PROVE IsFiniteSet(S) /\ Cardinality(S) \in Nat
  BY NodesAssumption, FS_Subset, FS_CardinalityType
<1> QED BY <1>1, <1>2

\* A list is a function of its positions.
LEMMA FunctionIsSeq ==
    ASSUME NEW T, NEW n \in Nat, NEW f \in [1 .. n -> T]
    PROVE  f \in Seq(T)
  OBVIOUS

\* The rows have each pending node once, with its output, in some order.
LEMMA PendingRowFacts ==
    ASSUME TypeOK, Pending # {}, NEW rs \in PendingRows
    PROVE  /\ rs \in Rows /\ Len(rs) = Cardinality(Pending) /\ Reporters(rs) = Pending
           /\ DOMAIN rs = 1 .. Cardinality(Pending)
           /\ \A i \in DOMAIN rs : rs[i].node \in Pending /\ rs[i].output = output[rs[i].node]
           /\ \A i, j \in DOMAIN rs : rs[i].node = rs[j].node => i = j
<1> DEFINE N == Cardinality(Pending)
           F == [i \in 1 .. N |-> rs[i].node]
<1>1. IsFiniteSet(Pending) /\ N \in Nat /\ Pending \subseteq Nodes
  BY PendingFinite
<1>2. N # 0
  BY <1>1, FS_EmptySet
<1>3. rs \in [1 .. N -> {[node |-> n, output |-> output[n]] : n \in Pending}] /\ Reporters(rs) = Pending
  BY DEF PendingRows
<1>4. \A n \in Pending : output[n] \in Outputs
  BY DEF TypeOK, Pending
<1>5. \A i \in 1 .. N : /\ rs[i].node \in Pending /\ rs[i].output = output[rs[i].node]
                        /\ rs[i] \in [node : Nodes, output : Outputs]
  <2>1. ASSUME NEW i \in 1 .. N
        PROVE  /\ rs[i].node \in Pending /\ rs[i].output = output[rs[i].node]
               /\ rs[i] \in [node : Nodes, output : Outputs]
    <3>1. PICK n \in Pending : rs[i] = [node |-> n, output |-> output[n]]
      BY <1>3
    <3> QED BY <1>1, <1>4, <3>1
  <2> QED BY <2>1
<1> HIDE DEF N
<1>6. rs \in Seq([node : Nodes, output : Outputs]) /\ DOMAIN rs = 1 .. N /\ Len(rs) = N
  <2>1. rs \in [1 .. N -> [node : Nodes, output : Outputs]]
    BY <1>3, <1>5
  <2>2. rs \in Seq([node : Nodes, output : Outputs])
    BY <1>1, <2>1, FunctionIsSeq
  <2>3. DOMAIN rs = 1 .. N
    BY <2>1
  <2>4. Len(rs) = N
    BY <1>1, <2>2, <2>3, LenProperties
  <2> QED BY <2>2, <2>3, <2>4
<1>7. rs # <<>>
  BY <1>1, <1>2, <1>6
<1>8. F \in [1 .. N -> Pending] /\ \A n \in Pending : \E i \in 1 .. N : F[i] = n
  BY <1>3, <1>5, <1>6 DEF Reporters
<1>9. F \in Surjection(1 .. N, Pending)
  BY <1>8, Fun_IsSurj
<1>10. IsFiniteSet(1 .. N) /\ Cardinality(1 .. N) = N
  BY <1>1, FS_Interval
<1>11. F \in Injection(1 .. N, Pending)
  BY <1>9, <1>10, FS_SurjSameCardinalityImpliesInj DEF N
<1> HIDE DEF F
<1>12. \A i, j \in 1 .. N : F[i] = F[j] => i = j
  BY <1>11, Fun_InjectionProperties
<1>13. \A i, j \in 1 .. N : rs[i].node = rs[j].node => i = j
  BY <1>12 DEF F
<1> QED BY <1>3, <1>5, <1>6, <1>7, <1>13 DEF Rows, N

\* The pending nodes whose trimmed output is o.
Backers(o) == {n \in Pending : Trimmed[output[n]] = o}

\* A group of rows is the group of their nodes, one row each.
LEMMA GroupIsBackers ==
    ASSUME TypeOK, Pending # {}, NEW rs \in PendingRows, NEW i \in DOMAIN rs
    PROVE  LET o == Trimmed[rs[i].output]
           IN  /\ {rs[j].node : j \in SameAs(rs, Trimmed, i)} = Backers(o)
               /\ Cardinality(SameAs(rs, Trimmed, i)) = Cardinality(Backers(o))
<1> DEFINE o == Trimmed[rs[i].output]
           S == SameAs(rs, Trimmed, i)
           F == [j \in S |-> rs[j].node]
<1>1. /\ rs \in Rows /\ Reporters(rs) = Pending
      /\ \A j \in DOMAIN rs : rs[j].node \in Pending /\ rs[j].output = output[rs[j].node]
      /\ \A j, k \in DOMAIN rs : rs[j].node = rs[k].node => j = k
  BY PendingRowFacts
<1>2. S \subseteq DOMAIN rs /\ IsFiniteSet(S)
  BY <1>1, GroupFacts
<1>3. \A j \in DOMAIN rs : j \in S <=> rs[j].node \in Backers(o)
  BY <1>1 DEF SameAs, Backers
<1>4. \A n \in Backers(o) : \E j \in S : rs[j].node = n
  <2>1. ASSUME NEW n \in Backers(o) PROVE \E j \in S : rs[j].node = n
    <3>1. n \in Reporters(rs)
      BY <1>1 DEF Backers
    <3>2. PICK j \in DOMAIN rs : rs[j].node = n
      BY <3>1 DEF Reporters
    <3> QED BY <1>3, <3>2
  <2> QED BY <2>1
<1>5. {rs[j].node : j \in S} = Backers(o)
  BY <1>2, <1>3, <1>4
<1>6. F \in [S -> Backers(o)] /\ \A n \in Backers(o) : \E j \in S : F[j] = n
  BY <1>2, <1>3, <1>4
<1>7. \A j, k \in S : F[j] = F[k] => j = k
  BY <1>1, <1>2
<1>8. F \in Bijection(S, Backers(o))
  BY <1>6, <1>7, Fun_IsBij
<1>9. Cardinality(Backers(o)) = Cardinality(S)
  BY <1>2, <1>8, FS_Bijection DEF ExistsBijection
<1> QED BY <1>5, <1>9

-----------------------------------------------------------------------------
(***************************************************************************)
(* The deterministic consensus.                                            *)
(***************************************************************************)
\* Math.ceil(n * 0.66) is the least count that is 66% of n.
LEMMA ThresholdRule ==
    ASSUME NEW n \in Nat, NEW m \in Nat
    PROVE  m < Threshold(n) <=> 100 * m < 66 * n
  BY DEF Threshold

\* 66% of the pending nodes back the output.
Enough(o) == 100 * Cardinality(Backers(o)) >= 66 * Cardinality(Pending)

\* The counts of backers.
LEMMA BackersFacts ==
    /\ Cardinality(Pending) \in Nat /\ (Pending # {} => Cardinality(Pending) # 0)
    /\ \A o : /\ Backers(o) \in SUBSET Pending /\ IsFiniteSet(Backers(o))
              /\ Cardinality(Backers(o)) \in Nat
<1>1. IsFiniteSet(Pending) /\ Cardinality(Pending) \in Nat /\ Pending \subseteq Nodes
  BY PendingFinite
<1>2. Pending # {} => Cardinality(Pending) # 0
  BY <1>1, FS_EmptySet
<1>3. ASSUME NEW o
      PROVE  /\ Backers(o) \in SUBSET Pending /\ IsFiniteSet(Backers(o))
             /\ Cardinality(Backers(o)) \in Nat
  <2>1. Backers(o) \in SUBSET Pending
    BY DEF Backers
  <2> QED BY <1>1, <2>1, PendingFinite
<1> QED BY <1>1, <1>2, <1>3

\* Two outputs cannot each have 66% of the nodes.
LEMMA OneMajority ==
    ASSUME Pending # {}, NEW o, NEW p, Enough(o), Enough(p)
    PROVE  o = p
<1> SUFFICES ASSUME o # p PROVE FALSE
  OBVIOUS
<1>1. Backers(o) \cap Backers(p) = {} /\ Backers(o) \cup Backers(p) \subseteq Pending
  BY DEF Backers
<1>2. /\ IsFiniteSet(Backers(o)) /\ IsFiniteSet(Backers(p)) /\ IsFiniteSet(Pending)
      /\ Cardinality(Pending) \in Nat /\ Cardinality(Pending) # 0
      /\ Cardinality(Backers(o)) \in Nat /\ Cardinality(Backers(p)) \in Nat
  BY BackersFacts, PendingFinite
<1>3. Cardinality(Backers(o) \cap Backers(p)) = 0
  BY <1>1, FS_EmptySet
<1>4. Cardinality(Backers(o) \cup Backers(p)) = Cardinality(Backers(o)) + Cardinality(Backers(p))
  <2>1. Cardinality(Backers(o) \cup Backers(p))
          = Cardinality(Backers(o)) + Cardinality(Backers(p)) - Cardinality(Backers(o) \cap Backers(p))
    BY <1>2, FS_Union
  <2> QED BY <1>2, <1>3, <2>1
<1>5. Cardinality(Backers(o) \cup Backers(p)) <= Cardinality(Pending)
  BY <1>1, <1>2, FS_Subset
<1>6. Cardinality(Backers(o)) + Cardinality(Backers(p)) <= Cardinality(Pending)
  BY <1>4, <1>5
<1> QED BY <1>2, <1>6 DEF Enough

\* The verdict is that on the output of the leading row, which no output has more backers than.
LEMMA DeterministicRule ==
    ASSUME TypeOK, Pending # {}, NEW rs \in PendingRows
    PROVE  \E o \in Outputs :
              /\ DeterministicVerdict(rs) =
                    IF Enough(o) THEN [reached |-> TRUE, agreeing |-> Backers(o),
                                       disagreeing |-> Pending \ Backers(o), output |-> o]
                    ELSE NoVerdict
              /\ \A p : Cardinality(Backers(p)) <= Cardinality(Backers(o))
<1> DEFINE i == LeadingRow(rs, Trimmed)
           S == SameAs(rs, Trimmed, i)
           o == Trimmed[rs[i].output]
<1>1. /\ rs \in Rows /\ Len(rs) = Cardinality(Pending) /\ Reporters(rs) = Pending
      /\ \A j \in DOMAIN rs : rs[j].node \in Pending /\ rs[j].output = output[rs[j].node]
  BY PendingRowFacts
<1>2. /\ i \in DOMAIN rs
      /\ \A j \in DOMAIN rs : Cardinality(SameAs(rs, Trimmed, j)) <= Cardinality(S)
  BY <1>1, LeadingFound
<1>3. {rs[j].node : j \in S} = Backers(o) /\ Cardinality(S) = Cardinality(Backers(o))
  BY <1>2, GroupIsBackers
<1>4. o \in Outputs
  BY <1>1, <1>2, RowFacts, TrimmedAssumption
<1> HIDE DEF i
<1>5. ~(Cardinality(S) < Threshold(Len(rs))) <=> Enough(o)
  <2>1. Cardinality(Backers(o)) \in Nat /\ Cardinality(Pending) \in Nat
    BY BackersFacts
  <2>2. Cardinality(S) < Threshold(Len(rs)) <=> 100 * Cardinality(Backers(o)) < 66 * Cardinality(Pending)
    BY <1>1, <1>3, <2>1, ThresholdRule
  <2> QED BY <2>1, <2>2 DEF Enough
<1>6. DeterministicVerdict(rs) = Verdict(rs, S, o)
  BY DEF DeterministicVerdict, i
<1>7. DeterministicVerdict(rs) =
        IF Enough(o) THEN [reached |-> TRUE, agreeing |-> Backers(o),
                           disagreeing |-> Pending \ Backers(o), output |-> o]
        ELSE NoVerdict
  BY <1>1, <1>3, <1>5, <1>6 DEF Verdict
<1>8. ASSUME NEW p PROVE Cardinality(Backers(p)) <= Cardinality(Backers(o))
  <2>1. CASE Backers(p) = {}
    <3>1. Cardinality(Backers(p)) = 0
      BY <2>1, FS_EmptySet
    <3> QED BY <3>1, BackersFacts
  <2>2. CASE Backers(p) # {}
    <3>1. PICK n \in Pending : Trimmed[output[n]] = p
      BY <2>2 DEF Backers
    <3>2. PICK j \in DOMAIN rs : rs[j].node = n
      BY <1>1 DEF Reporters
    <3>3. Trimmed[rs[j].output] = p
      BY <1>1, <3>1, <3>2
    <3>4. Cardinality(SameAs(rs, Trimmed, j)) = Cardinality(Backers(p))
      BY <3>3, GroupIsBackers
    <3> QED BY <1>2, <1>3, <3>4
  <2> QED BY <2>1, <2>2
<1> QED BY <1>4, <1>7, <1>8

\* The rule that decides a deterministic consensus, for every number of nodes and in whatever
\* order their rows are read: 66% of them reported one output, and it is that one.
LEMMA DeterministicAlways ==
    ASSUME TypeOK PROVE DeterministicDecision
<1> SUFFICES ASSUME Pending # {}, NEW rs \in PendingRows
             PROVE  LET v == DeterministicVerdict(rs) IN
                    /\ v.reached <=> \E o \in Outputs : Enough(o)
                    /\ v.reached => v.agreeing = Backers(v.output)
                    /\ \A qs \in PendingRows : DeterministicVerdict(qs) = v
  BY DEF DeterministicDecision, Enough, Backers
<1> DEFINE Found(o) == [reached |-> TRUE, agreeing |-> Backers(o),
                        disagreeing |-> Pending \ Backers(o), output |-> o]
<1>1. PICK o \in Outputs :
        /\ DeterministicVerdict(rs) = IF Enough(o) THEN Found(o) ELSE NoVerdict
        /\ \A p : Cardinality(Backers(p)) <= Cardinality(Backers(o))
  BY DeterministicRule
<1>2. \A p : Enough(p) => Enough(o)
  BY <1>1, BackersFacts DEF Enough
<1>3. ASSUME NEW qs \in PendingRows PROVE DeterministicVerdict(qs) = DeterministicVerdict(rs)
  <2>1. PICK p \in Outputs :
          /\ DeterministicVerdict(qs) = IF Enough(p) THEN Found(p) ELSE NoVerdict
          /\ \A q : Cardinality(Backers(q)) <= Cardinality(Backers(p))
    BY DeterministicRule
  <2>2. \A q : Enough(q) => Enough(p)
    BY <2>1, BackersFacts DEF Enough
  <2>3. CASE Enough(o)
    <3>1. Enough(p)
      BY <2>2, <2>3
    <3>2. o = p
      BY <2>3, <3>1, OneMajority
    <3> QED BY <1>1, <2>1, <3>2
  <2>4. CASE ~Enough(o)
    <3>1. ~Enough(p)
      BY <1>2, <2>4
    <3> QED BY <1>1, <2>1, <2>4, <3>1
  <2> QED BY <2>3, <2>4
<1>4. CASE Enough(o)
  <2>1. DeterministicVerdict(rs) = Found(o)
    BY <1>1, <1>4
  <2> QED BY <1>3, <1>4, <2>1
<1>5. CASE ~Enough(o)
  <2>1. ~DeterministicVerdict(rs).reached
    BY <1>1, <1>5 DEF NoVerdict
  <2> QED BY <1>2, <1>3, <1>5, <2>1
<1> QED BY <1>4, <1>5

-----------------------------------------------------------------------------
(***************************************************************************)
(* What any consensus credits.                                             *)
(***************************************************************************)
\* A similarity consensus is of some of the rows, however they were clustered, and of one at
\* least: two thirds of the rows are not none.
LEMMA SimilarRule ==
    ASSUME NEW rs \in Rows, NonDeterministicVerdict(rs).reached
    PROVE  \E C \in SUBSET (DOMAIN rs) :
              /\ FirstOf(C) \in C
              /\ NonDeterministicVerdict(rs).agreeing = {rs[k].node : k \in C}
              /\ NonDeterministicVerdict(rs).output = rs[FirstOf(C)].output
<1>1. PICK C : /\ C = DOMAIN rs \cap MajorityCluster(rs)
               /\ NonDeterministicVerdict(rs) = Verdict(rs, C, rs[FirstOf(C)].output)
  BY DEF NonDeterministicVerdict, NoVerdict
<1>2. ~(Cardinality(C) < Threshold(Len(rs)))
  BY <1>1 DEF Verdict, NoVerdict
<1>7. /\ NonDeterministicVerdict(rs).agreeing = {rs[k].node : k \in C}
      /\ NonDeterministicVerdict(rs).output = rs[FirstOf(C)].output
  BY <1>1, <1>2 DEF Verdict
<1>3. Len(rs) \in Nat \ {0} /\ C \in SUBSET (DOMAIN rs) /\ C \in SUBSET Nat
  BY <1>1, RowFacts
<1>4. 0 < Threshold(Len(rs))
  BY <1>3 DEF Threshold
<1>5. C # {}
  BY <1>2, <1>4, FS_EmptySet
<1>6. FirstOf(C) \in C
  BY <1>3, <1>5, FirstFound
<1> QED BY <1>3, <1>6, <1>7

\* Whatever rule decides, the verdict names an output that was reported, and credits pending nodes.
LEMMA DecisionFacts ==
    ASSUME TypeOK, Pending # {}, NEW rs \in PendingRows
    PROVE  Decide(rs).output \in Outputs /\ Decide(rs).agreeing \subseteq Pending
<1>1. /\ rs \in Rows /\ Reporters(rs) = Pending
      /\ \A i \in DOMAIN rs : rs[i].node \in Pending /\ rs[i].output \in Outputs
  BY PendingRowFacts, RowFacts
<1>2. CASE ~Consensus(rs).reached
  <2>1. Decide(rs) = TiebreakVerdict(rs)
    BY <1>2 DEF Decide
  <2>2. LeadingRow(rs, Raw) \in DOMAIN rs
    BY <1>1, LeadingFound
  <2> QED BY <1>1, <2>1, <2>2 DEF TiebreakVerdict
<1>3. CASE Consensus(rs).reached /\ deterministic
  <2>1. Decide(rs) = DeterministicVerdict(rs) /\ DeterministicVerdict(rs).reached
    BY <1>3 DEF Decide, Consensus
  <2>2. PICK o \in Outputs : DeterministicVerdict(rs) =
                    IF Enough(o) THEN [reached |-> TRUE, agreeing |-> Backers(o),
                                       disagreeing |-> Pending \ Backers(o), output |-> o]
                    ELSE NoVerdict
    BY DeterministicRule
  <2>3. Enough(o)
    BY <2>1, <2>2 DEF NoVerdict
  <2> QED BY <2>1, <2>2, <2>3, BackersFacts
<1>4. CASE Consensus(rs).reached /\ ~deterministic
  <2>1. Decide(rs) = NonDeterministicVerdict(rs) /\ NonDeterministicVerdict(rs).reached
    BY <1>4 DEF Decide, Consensus
  <2>2. PICK C \in SUBSET (DOMAIN rs) :
              /\ FirstOf(C) \in C
              /\ NonDeterministicVerdict(rs).agreeing = {rs[k].node : k \in C}
              /\ NonDeterministicVerdict(rs).output = rs[FirstOf(C)].output
    BY <1>1, <2>1, SimilarRule
  <2> QED BY <1>1, <2>1, <2>2
<1> QED BY <1>2, <1>3, <1>4

-----------------------------------------------------------------------------
(***************************************************************************)
(* The inductive invariant.                                                *)
(***************************************************************************)
Statuses == {"none", "pending", "verified", "rejected"}
Labels == {"idle", "queued", "insert", "select", "mark", "credit", "tiebreak", "save", "complete",
           "pay", "done"}

\* What a worker has decided is about an output that was reported and rows that are there; once
\* it has saved the consensus there is one.
Held(w) ==
    /\ pc[w] \in {"insert", "mark", "credit", "tiebreak", "save"} => verdict[w].output \in Outputs
    /\ pc[w] = "mark" => \A n \in verdict[w].agreeing : n \in Nodes /\ status[n] # "none"
    /\ pc[w] \in {"complete", "pay"} => consensus # {}

\* Workers about to credit n, and those about to mark the rows of a verdict that will credit it.
Crediting(n) == {w \in Workers : pc[w] = "credit" /\ n \in todo[w]}
Marking(n) == {w \in Workers : pc[w] = "mark" /\ n \in verdict[w].agreeing}

\* Nobody credits a node before its row is marked, and no row is pending again: whoever is to
\* credit it has selected it before the first marking.
CreditedOnce(n) ==
    /\ status[n] \in {"none", "pending"} => credited[n] = 0 /\ Crediting(n) = {}
    /\ credited[n] + Cardinality(Crediting(n)) + Cardinality(Marking(n)) <= Cardinality(Workers)

SettleInv ==
    /\ TypeOK
    /\ verdict = [w \in Workers |-> verdict[w]]
    /\ \A w \in Workers : Held(w)
    /\ tstatus = "completed" => consensus # {}
    /\ \A n \in Nodes : CreditedOnce(n)

\* Sets of workers are finite.
LEMMA WorkersFinite ==
    /\ Queue \in Workers /\ IsFiniteSet(Workers) /\ Cardinality(Workers) \in Nat
    /\ \A S \in SUBSET Workers : /\ IsFiniteSet(S) /\ Cardinality(S) \in Nat
                                 /\ Cardinality(S) <= Cardinality(Workers)
<1>1. IsFiniteSet(Workers) /\ Queue \in Workers
  BY WorkersAssumption, FS_AddElement DEF Workers
<1>2. Cardinality(Workers) \in Nat
  BY <1>1, FS_CardinalityType
<1>3. ASSUME NEW S \in SUBSET Workers
      PROVE  IsFiniteSet(S) /\ Cardinality(S) \in Nat /\ Cardinality(S) <= Cardinality(Workers)
  BY <1>1, FS_Subset, FS_CardinalityType
<1> QED BY <1>1, <1>2, <1>3

\* What the counts are.
LEMMA CreditCounts ==
    ASSUME SettleInv, NEW n \in Nodes
    PROVE  /\ Crediting(n) \in SUBSET Workers /\ Marking(n) \in SUBSET Workers
           /\ IsFiniteSet(Crediting(n)) /\ IsFiniteSet(Marking(n))
           /\ Cardinality(Crediting(n)) \in Nat /\ Cardinality(Marking(n)) \in Nat
           /\ credited[n] \in Nat /\ Cardinality(Workers) \in Nat
<1>1. Crediting(n) \in SUBSET Workers /\ Marking(n) \in SUBSET Workers
  BY DEF Crediting, Marking
<1>2. credited[n] \in Nat
  BY DEF SettleInv, TypeOK
<1> QED BY <1>1, <1>2, WorkersFinite

\* Steps that credit nobody and select nobody for it.
LEMMA QuietCredits ==
    ASSUME SettleInv, NEW n \in Nodes, credited' = credited,
           Crediting(n)' \subseteq Crediting(n), Marking(n)' \subseteq Marking(n),
           status'[n] \in {"none", "pending"} => status[n] \in {"none", "pending"}
    PROVE  CreditedOnce(n)'
<1>1. /\ Cardinality(Crediting(n)') <= Cardinality(Crediting(n))
      /\ Cardinality(Marking(n)') <= Cardinality(Marking(n))
      /\ Cardinality(Crediting(n)') \in Nat /\ Cardinality(Marking(n)') \in Nat
  BY CreditCounts, FS_Subset, FS_CardinalityType
<1>2. CreditedOnce(n)
  BY DEF SettleInv
<1>3. credited'[n] + Cardinality(Crediting(n)') + Cardinality(Marking(n)') <= Cardinality(Workers)
  BY <1>1, <1>2, CreditCounts DEF CreditedOnce
<1>4. status'[n] \in {"none", "pending"} => credited'[n] = 0 /\ Crediting(n)' = {}
  BY <1>2 DEF CreditedOnce
<1> QED BY <1>3, <1>4 DEF CreditedOnce

\* A step of one worker to a label where it neither marks nor credits.
LEMMA MovesQuietly ==
    ASSUME SettleInv, NEW w \in Workers, NEW l \in Labels \ {"mark", "credit"},
           pc' = [pc EXCEPT ![w] = l], credited' = credited,
           \A v \in Workers : v # w => verdict'[v] = verdict[v] /\ todo'[v] = todo[v],
           \A n \in Nodes : status'[n] \in {"none", "pending"} => status[n] \in {"none", "pending"}
    PROVE  \A n \in Nodes : CreditedOnce(n)'
<1> SUFFICES ASSUME NEW n \in Nodes PROVE CreditedOnce(n)'
  OBVIOUS
<1>1. \A v \in Workers : pc'[v] = IF v = w THEN l ELSE pc[v]
  BY DEF SettleInv, TypeOK
<1>2. Crediting(n)' \subseteq Crediting(n)
  BY <1>1 DEF Crediting
<1>3. Marking(n)' \subseteq Marking(n)
  BY <1>1 DEF Marking
<1> QED BY <1>2, <1>3, QuietCredits

-----------------------------------------------------------------------------
(***************************************************************************)
(* Each step keeps the invariant.                                          *)
(***************************************************************************)
\* Steps of one worker that write no row of task_results and credit nobody.
LEMMA MoveKeeps ==
    ASSUME SettleInv, NEW w \in Workers, NEW l \in Labels \ {"mark", "credit"}, NEW v,
           NEW T \in SUBSET Nodes,
           pc' = [pc EXCEPT ![w] = l], verdict' = [verdict EXCEPT ![w] = v],
           todo' = [todo EXCEPT ![w] = T], UNCHANGED <<deterministic, status, output, credited>>,
           l \in {"insert", "tiebreak", "save"} => v.output \in Outputs,
           l \in {"complete", "pay"} => consensus' # {},
           consensus \subseteq consensus', consensus' \subseteq Outputs,
           tstatus' \in {"assigned", "completed", "failed"},
           tstatus' = "completed" => consensus' # {}, retries' \in 0 .. MaxRetries
    PROVE  SettleInv'
<1>1. TypeOK'
  BY DEF SettleInv, TypeOK, Labels
<1>2. verdict' = [u \in Workers |-> verdict'[u]]
  BY DEF SettleInv
<1>3. \A u \in Workers : /\ pc'[u] = IF u = w THEN l ELSE pc[u]
                         /\ verdict'[u] = IF u = w THEN v ELSE verdict[u]
                         /\ todo'[u] = IF u = w THEN T ELSE todo[u]
  BY DEF SettleInv, TypeOK
<1>4. ASSUME NEW u \in Workers PROVE Held(u)'
  <2>1. CASE u = w
    BY <1>3, <2>1 DEF Held
  <2>2. CASE u # w
    <3>1. Held(u) /\ pc'[u] = pc[u] /\ verdict'[u] = verdict[u]
      BY <1>3, <2>2 DEF SettleInv
    <3> QED BY <3>1 DEF Held
  <2> QED BY <2>1, <2>2
<1>5. \A n \in Nodes : CreditedOnce(n)'
  BY <1>3, MovesQuietly
<1> QED BY <1>1, <1>2, <1>4, <1>5 DEF SettleInv

\* A result is recorded: the status of a row that is there stays.
LEMMA RecordKeeps ==
    ASSUME SettleInv, NEW w \in Workers, NEW l \in {"insert", "select"}, NEW T \in SUBSET Nodes,
           NEW n \in Nodes, NEW o \in Outputs, Record(n, o), l = "insert" => pc[w] = "insert",
           pc' = [pc EXCEPT ![w] = l], todo' = [todo EXCEPT ![w] = T],
           UNCHANGED <<deterministic, tstatus, consensus, credited, verdict, retries>>
    PROVE  SettleInv'
<1>1. \A m \in Nodes : /\ output'[m] = IF m = n THEN o ELSE output[m]
                       /\ status'[m] = IF m = n /\ status[m] = "none" THEN "pending" ELSE status[m]
  BY DEF Record, SettleInv, TypeOK
<1>2. TypeOK'
  <2>1. output' \in [Nodes -> Outputs \union {NoOutput}]
    BY DEF Record, SettleInv, TypeOK
  <2>2. status' \in [Nodes -> {"none", "pending", "verified", "rejected"}]
    BY DEF Record, SettleInv, TypeOK
  <2>3. \A m \in Nodes : status'[m] = "none" <=> output'[m] = NoOutput
    BY <1>1, OutputsAssumption DEF SettleInv, TypeOK
  <2>4. pc' \in [Workers -> Labels] /\ todo' \in [Workers -> SUBSET Nodes]
    BY DEF SettleInv, TypeOK, Labels
  <2> QED BY <2>1, <2>2, <2>3, <2>4 DEF SettleInv, TypeOK, Labels
<1>3. \A u \in Workers : pc'[u] = IF u = w THEN l ELSE pc[u]
  BY DEF SettleInv, TypeOK
<1>4. ASSUME NEW u \in Workers PROVE Held(u)'
  <2>1. Held(u)
    BY DEF SettleInv
  <2>2. \A m \in Nodes : status[m] # "none" => status'[m] # "none"
    BY <1>1
  <2>3. CASE u = w
    BY <1>3, <2>1, <2>3 DEF Held
  <2>4. CASE u # w
    <3>1. pc'[u] = pc[u]
      BY <1>3, <2>4
    <3> QED BY <2>1, <2>2, <3>1 DEF Held
  <2> QED BY <2>3, <2>4
<1>5. \A m \in Nodes : CreditedOnce(m)'
  <2>1. l \in Labels \ {"mark", "credit"}
    BY DEF Labels
  <2>2. \A v \in Workers : v # w => todo'[v] = todo[v]
    BY DEF SettleInv, TypeOK
  <2>3. \A m \in Nodes : status'[m] \in {"none", "pending"} => status[m] \in {"none", "pending"}
    BY <1>1
  <2> QED BY <2>1, <2>2, <2>3, MovesQuietly
<1> QED BY <1>2, <1>4, <1>5 DEF SettleInv

\* A verification reaches a consensus about the rows it has read.
LEMMA SelectKeeps ==
    ASSUME SettleInv, NEW w \in Workers, NEW v, v.output \in Outputs, v.agreeing \subseteq Pending,
           pc[w] = "select", pc' = [pc EXCEPT ![w] = "mark"], verdict' = [verdict EXCEPT ![w] = v],
           UNCHANGED <<deterministic, status, output, tstatus, consensus, credited, todo, retries>>
    PROVE  SettleInv'
<1>1. TypeOK'
  BY DEF SettleInv, TypeOK
<1>2. verdict' = [u \in Workers |-> verdict'[u]]
  BY DEF SettleInv
<1>3. \A u \in Workers : /\ pc'[u] = IF u = w THEN "mark" ELSE pc[u]
                         /\ verdict'[u] = IF u = w THEN v ELSE verdict[u]
  BY DEF SettleInv, TypeOK
<1>4. ASSUME NEW u \in Workers PROVE Held(u)'
  <2>1. CASE u = w
    <3>1. \A n \in v.agreeing : n \in Nodes /\ status[n] # "none"
      BY DEF Pending
    <3> QED BY <1>3, <2>1, <3>1 DEF Held
  <2>2. CASE u # w
    <3>1. Held(u) /\ pc'[u] = pc[u] /\ verdict'[u] = verdict[u]
      BY <1>3, <2>2 DEF SettleInv
    <3> QED BY <3>1 DEF Held
  <2> QED BY <2>1, <2>2
<1>5. ASSUME NEW n \in Nodes PROVE CreditedOnce(n)'
  <2>1. Crediting(n)' = Crediting(n)
    BY <1>3 DEF Crediting
  <2>2. CASE n \in v.agreeing
    <3>1. status[n] = "pending" /\ CreditedOnce(n)
      BY <2>2 DEF Pending, SettleInv
    <3>2. credited[n] = 0 /\ Crediting(n) = {}
      BY <3>1 DEF CreditedOnce
    <3>3. Marking(n)' \in SUBSET Workers
      BY DEF Marking
    <3>4. Cardinality(Marking(n)') \in Nat /\ Cardinality(Marking(n)') <= Cardinality(Workers)
      BY <3>3, WorkersFinite
    <3>5. Cardinality(Crediting(n)') = 0
      BY <2>1, <3>2, FS_EmptySet
    <3> QED BY <2>1, <3>2, <3>4, <3>5 DEF CreditedOnce
  <2>3. CASE n \notin v.agreeing
    <3>1. Marking(n)' \subseteq Marking(n)
      BY <1>3, <2>3 DEF Marking
    <3> QED BY <2>1, <3>1, QuietCredits
  <2> QED BY <2>2, <2>3
<1> QED BY <1>1, <1>2, <1>4, <1>5 DEF SettleInv

\* The rows are marked, and the worker goes on to credit those it has found to agree.
LEMMA MarkKeeps ==
    ASSUME SettleInv, NEW w \in Workers, MarkResults(w), UNCHANGED deterministic
    PROVE  SettleInv'
<1>1. /\ pc[w] = "mark" /\ pc' = [pc EXCEPT ![w] = "credit"]
      /\ todo' = [todo EXCEPT ![w] = verdict[w].agreeing]
      /\ status' = [n \in Nodes |-> IF status[n] = "none" THEN "none"
                                    ELSE IF n \in verdict[w].agreeing THEN "verified" ELSE "rejected"]
      /\ UNCHANGED <<output, tstatus, consensus, credited, verdict, retries>>
  BY DEF MarkResults, At, Goto
<1>2. \A n \in verdict[w].agreeing : n \in Nodes /\ status[n] # "none"
  BY <1>1 DEF SettleInv, Held
<1>3. \A n \in Nodes : /\ status'[n] = "none" <=> status[n] = "none"
                       /\ status'[n] # "pending"
  BY <1>1
<1>4. TypeOK'
  <2>1. status' \in [Nodes -> {"none", "pending", "verified", "rejected"}]
    BY <1>1
  <2>2. \A n \in Nodes : status'[n] = "none" <=> output'[n] = NoOutput
    BY <1>1, <1>3 DEF SettleInv, TypeOK
  <2>3. pc' \in [Workers -> Labels] /\ todo' \in [Workers -> SUBSET Nodes]
    BY <1>1, <1>2 DEF SettleInv, TypeOK, Labels
  <2> QED BY <1>1, <2>1, <2>2, <2>3 DEF SettleInv, TypeOK, Labels
<1>5. \A u \in Workers : /\ pc'[u] = IF u = w THEN "credit" ELSE pc[u]
                         /\ todo'[u] = IF u = w THEN verdict[w].agreeing ELSE todo[u]
  BY <1>1 DEF SettleInv, TypeOK
<1>6. ASSUME NEW u \in Workers PROVE Held(u)'
  <2>1. Held(u) /\ Held(w)
    BY DEF SettleInv
  <2> QED BY <1>1, <1>3, <1>5, <2>1 DEF Held
<1>7. ASSUME NEW n \in Nodes PROVE CreditedOnce(n)'
  <2>1. CreditedOnce(n)
    BY DEF SettleInv
  <2>2. CASE n \in verdict[w].agreeing
    <3>1. w \in Marking(n) /\ Marking(n)' = Marking(n) \ {w}
      BY <1>1, <1>5, <2>2 DEF Marking
    <3>2. w \notin Crediting(n) /\ Crediting(n)' = Crediting(n) \cup {w}
      BY <1>1, <1>5, <2>2 DEF Crediting
    <3>3. Cardinality(Marking(n) \ {w}) = Cardinality(Marking(n)) - 1
      BY <3>1, CreditCounts, FS_RemoveElement
    <3>4. Cardinality(Crediting(n) \cup {w}) = Cardinality(Crediting(n)) + 1
      BY <3>2, CreditCounts, FS_AddElement
    <3>5. credited'[n] + Cardinality(Crediting(n)') + Cardinality(Marking(n)') <= Cardinality(Workers)
      BY <1>1, <2>1, <3>1, <3>2, <3>3, <3>4, CreditCounts DEF CreditedOnce
    <3>6. status'[n] \notin {"none", "pending"}
      BY <1>2, <1>3, <2>2
    <3> QED BY <3>5, <3>6 DEF CreditedOnce
  <2>3. CASE n \notin verdict[w].agreeing
    <3>1. Marking(n)' \subseteq Marking(n) /\ Crediting(n)' \subseteq Crediting(n)
      BY <1>1, <1>5, <2>3 DEF Marking, Crediting
    <3>2. status'[n] \in {"none", "pending"} => status[n] \in {"none", "pending"}
      BY <1>3
    <3> QED BY <1>1, <3>1, <3>2, QuietCredits
  <2> QED BY <2>2, <2>3
<1> QED BY <1>1, <1>4, <1>6, <1>7 DEF SettleInv

\* One pass of the loop of credits.
LEMMA CreditKeeps ==
    ASSUME SettleInv, NEW w \in Workers, NEW m \in Nodes, Credit(w, m), UNCHANGED deterministic
    PROVE  SettleInv'
<1>1. PICK l \in {"save", "credit"} :
        /\ pc[w] = "credit" /\ m \in todo[w] /\ pc' = [pc EXCEPT ![w] = l]
        /\ todo' = [todo EXCEPT ![w] = todo[w] \ {m}]
        /\ credited' = [credited EXCEPT ![m] = credited[m] + 1]
        /\ UNCHANGED <<status, output, tstatus, consensus, verdict, retries>>
  BY DEF Credit, At, Goto, Loop
<1>2. TypeOK'
  BY <1>1 DEF SettleInv, TypeOK
<1>3. \A u \in Workers : /\ pc'[u] = IF u = w THEN l ELSE pc[u]
                         /\ todo'[u] = IF u = w THEN todo[w] \ {m} ELSE todo[u]
  BY <1>1 DEF SettleInv, TypeOK
<1>4. ASSUME NEW u \in Workers PROVE Held(u)'
  <2>1. Held(u)
    BY DEF SettleInv
  <2> QED BY <1>1, <1>3, <2>1 DEF Held
<1>5. ASSUME NEW n \in Nodes PROVE CreditedOnce(n)'
  <2>1. CreditedOnce(n)
    BY DEF SettleInv
  <2>2. Marking(n)' \subseteq Marking(n)
    BY <1>1, <1>3 DEF Marking
  <2>3. CASE n = m
    <3>1. w \in Crediting(n) /\ Crediting(n)' \subseteq Crediting(n) \ {w}
      BY <1>1, <1>3, <2>3 DEF Crediting
    <3>2. /\ Cardinality(Crediting(n) \ {w}) = Cardinality(Crediting(n)) - 1
          /\ IsFiniteSet(Crediting(n) \ {w})
      BY <3>1, CreditCounts, FS_RemoveElement
    <3>3. /\ Cardinality(Crediting(n)') <= Cardinality(Crediting(n)) - 1
          /\ Cardinality(Crediting(n)') \in Nat
      BY <3>1, <3>2, FS_Subset, FS_CardinalityType
    <3>4. Cardinality(Marking(n)') <= Cardinality(Marking(n)) /\ Cardinality(Marking(n)') \in Nat
      BY <2>2, CreditCounts, FS_Subset, FS_CardinalityType
    <3>5. credited'[n] = credited[n] + 1
      BY <1>1, <2>3 DEF SettleInv, TypeOK
    <3>6. credited'[n] + Cardinality(Crediting(n)') + Cardinality(Marking(n)') <= Cardinality(Workers)
      BY <2>1, <3>3, <3>4, <3>5, CreditCounts DEF CreditedOnce
    <3>7. status'[n] \notin {"none", "pending"}
      BY <1>1, <2>1, <3>1 DEF CreditedOnce
    <3> QED BY <3>6, <3>7 DEF CreditedOnce
  <2>4. CASE n # m
    <3>1. credited'[n] = credited[n]
      BY <1>1, <2>4 DEF SettleInv, TypeOK
    <3>2. Crediting(n)' \subseteq Crediting(n)
      BY <1>1, <1>3 DEF Crediting
    <3>3. /\ Cardinality(Crediting(n)') <= Cardinality(Crediting(n))
          /\ Cardinality(Marking(n)') <= Cardinality(Marking(n))
          /\ Cardinality(Crediting(n)') \in Nat /\ Cardinality(Marking(n)') \in Nat
      BY <2>2, <3>2, CreditCounts, FS_Subset, FS_CardinalityType
    <3>4. credited'[n] + Cardinality(Crediting(n)') + Cardinality(Marking(n)') <= Cardinality(Workers)
      BY <2>1, <3>1, <3>3, CreditCounts DEF CreditedOnce
    <3>5. status'[n] \in {"none", "pending"} => credited'[n] = 0 /\ Crediting(n)' = {}
      BY <1>1, <2>1, <3>1, <3>2 DEF CreditedOnce
    <3> QED BY <3>4, <3>5 DEF CreditedOnce
  <2> QED BY <2>3, <2>4
<1> QED BY <1>1, <1>2, <1>4, <1>5 DEF SettleInv

\* A restart ends every worker.
LEMMA CrashKeeps ==
    ASSUME SettleInv, Crash, UNCHANGED deterministic
    PROVE  SettleInv'
<1>1. /\ pc' = [w \in Workers |-> Finished(w)] /\ verdict' = [w \in Workers |-> NoVerdict]
      /\ todo' = [w \in Workers |-> {}]
      /\ UNCHANGED <<status, output, tstatus, consensus, credited, retries>>
  BY DEF Crash
<1>2. \A w \in Workers : pc'[w] \in {"idle", "done"}
  BY <1>1 DEF Finished
<1>3. TypeOK'
  BY <1>1, <1>2 DEF SettleInv, TypeOK
<1>4. \A w \in Workers : Held(w)'
  BY <1>2 DEF Held
<1>5. ASSUME NEW n \in Nodes PROVE CreditedOnce(n)'
  <2>1. Crediting(n)' = {} /\ Marking(n)' = {}
    BY <1>2 DEF Crediting, Marking
  <2> QED BY <1>1, <2>1, QuietCredits
<1> QED BY <1>1, <1>3, <1>4, <1>5 DEF SettleInv

\* What QueueThrows does: the worker waits again or is done, and the task may be marked failed.
LEMMA QueueThrowsWrites ==
    ASSUME SettleInv, QueueThrows
    PROVE  /\ \E l \in {"queued", "done"} : Leave(Queue, l)
           /\ tstatus' \in {tstatus, "failed"} /\ retries' \in 0 .. MaxRetries
<1>1. retries \in 0 .. MaxRetries /\ MaxRetries \in Nat
  BY MaxRetriesAssumption DEF SettleInv, TypeOK
<1> QED BY <1>1 DEF QueueThrows

\* Every step keeps the invariant.
LEMMA Inductive == SettleInv /\ [Next]_vars => SettleInv'
<1> SUFFICES ASSUME SettleInv, [Next]_vars PROVE SettleInv'
  OBVIOUS
<1>t. /\ todo \in [Workers -> SUBSET Nodes] /\ verdict = [w \in Workers |-> verdict[w]]
      /\ consensus \subseteq Outputs /\ tstatus \in {"assigned", "completed", "failed"}
      /\ tstatus = "completed" => consensus # {}
      /\ retries \in 0 .. MaxRetries /\ Queue \in Workers
  BY WorkersFinite DEF SettleInv, TypeOK
<1>e. \A w \in Workers : /\ verdict = [verdict EXCEPT ![w] = verdict[w]]
                         /\ todo = [todo EXCEPT ![w] = todo[w]] /\ todo[w] \in SUBSET Nodes
  BY <1>t
<1>l. ASSUME NEW w \in Workers, NEW l \in {"idle", "queued", "done"}, Leave(w, l),
             UNCHANGED <<deterministic, status, output, credited, consensus>>,
             tstatus' \in {tstatus, "failed"}, retries' \in 0 .. MaxRetries
      PROVE  SettleInv'
  <2>1. /\ pc' = [pc EXCEPT ![w] = l] /\ verdict' = [verdict EXCEPT ![w] = NoVerdict]
        /\ todo' = [todo EXCEPT ![w] = {}]
    BY <1>l DEF Leave, Goto
  <2>2. l \in Labels \ {"mark", "credit"} /\ {} \in SUBSET Nodes
    BY DEF Labels
  <2>3. l \notin {"insert", "tiebreak", "save", "complete", "pay"}
    OBVIOUS
  <2>4. /\ consensus \subseteq consensus' /\ consensus' \subseteq Outputs
        /\ tstatus' \in {"assigned", "completed", "failed"}
        /\ tstatus' = "completed" => consensus' # {}
    BY <1>t, <1>l
  <2> QED BY <1>l, <2>1, <2>2, <2>3, <2>4, MoveKeeps
<1>1. CASE UNCHANGED vars
  <2>1. SettleInv' <=> SettleInv
    BY <1>1 DEF vars, workVars, bounds, SettleInv, TypeOK, Held, CreditedOnce, Crediting, Marking
  <2> QED BY <2>1
<1>2. ASSUME NEW h \in Handlers, NEW n \in Nodes, NEW o \in Outputs, Report(h, n, o),
             UNCHANGED deterministic
      PROVE  SettleInv'
  <2>1. h \in Workers
    BY DEF Workers
  <2> QED BY <1>2, <1>e, <2>1, RecordKeeps DEF Report, Goto
<1>3. ASSUME NEW o \in Answers, RunInference(o), UNCHANGED deterministic
      PROVE  SettleInv'
  <2>1. Assigned \in SUBSET Nodes
    BY AssignedAssumption
  <2> DEFINE v == [reached |-> FALSE, output |-> o]
  <2>2. v.output \in Outputs
    BY AnswersAssumption
  <2> HIDE DEF v
  <2>3. /\ pc' = [pc EXCEPT ![Queue] = "insert"] /\ verdict' = [verdict EXCEPT ![Queue] = v]
        /\ todo' = [todo EXCEPT ![Queue] = Assigned]
        /\ UNCHANGED <<status, output, tstatus, consensus, credited, retries>>
    BY <1>3 DEF RunInference, Goto, v
  <2> QED BY <1>3, <1>t, <2>1, <2>2, <2>3, MoveKeeps DEF Labels
<1>4. ASSUME NEW n \in Nodes, InsertResult(n), UNCHANGED deterministic
      PROVE  SettleInv'
  <2>1. PICK l \in {"insert", "select"} :
          /\ pc[Queue] = "insert" /\ pc' = [pc EXCEPT ![Queue] = l]
          /\ todo' = [todo EXCEPT ![Queue] = todo[Queue] \ {n}]
          /\ Record(n, verdict[Queue].output)
          /\ UNCHANGED <<tstatus, consensus, credited, verdict, retries>>
    BY <1>4 DEF InsertResult, At, Goto, Loop
  <2>2. verdict[Queue].output \in Outputs
    BY <1>t, <2>1 DEF SettleInv, Held
  <2>3. todo[Queue] \ {n} \in SUBSET Nodes
    BY <1>e, <1>t
  <2> QED BY <1>4, <1>t, <2>1, <2>2, <2>3, RecordKeeps
<1>5. ASSUME InferenceFails, UNCHANGED deterministic PROVE SettleInv'
  BY <1>5, <1>l, <1>t, QueueThrowsWrites DEF InferenceFails
<1>6. ASSUME NEW w \in Workers, VerifyStep(w), UNCHANGED deterministic PROVE SettleInv'
  <2>f. Finished(w) \in {"idle", "done"}
    BY DEF Finished
  <2>1. CASE NothingPending(w)
    BY <1>6, <1>l, <1>t, <2>1, <2>f DEF NothingPending
  <2>2. CASE SelectPending(w)
    <3>1. PICK rs \in PendingRows :
            /\ verdict' = [verdict EXCEPT ![w] = Decide(rs)]
            /\ pc' = [pc EXCEPT ![w] = IF Consensus(rs).reached THEN "mark" ELSE "tiebreak"]
            /\ pc[w] = "select" /\ Pending # {}
            /\ UNCHANGED <<status, output, tstatus, consensus, credited, todo, retries>>
      BY <2>2 DEF SelectPending, At, Goto
    <3>2. Decide(rs).output \in Outputs /\ Decide(rs).agreeing \subseteq Pending
      BY <3>1, DecisionFacts DEF SettleInv
    <3>3. CASE Consensus(rs).reached
      BY <1>6, <3>1, <3>2, <3>3, SelectKeeps
    <3>4. CASE ~Consensus(rs).reached
      <4>1. /\ pc' = [pc EXCEPT ![w] = "tiebreak"] /\ todo' = [todo EXCEPT ![w] = todo[w]]
            /\ todo[w] \in SUBSET Nodes /\ UNCHANGED <<deterministic, status, output, credited>>
        BY <1>6, <1>e, <3>1, <3>4
      <4>2. /\ "tiebreak" \in Labels \ {"mark", "credit"} /\ "tiebreak" \notin {"complete", "pay"}
            /\ consensus \subseteq consensus' /\ consensus' \subseteq Outputs
            /\ tstatus' \in {"assigned", "completed", "failed"} /\ retries' \in 0 .. MaxRetries
            /\ tstatus' = "completed" => consensus' # {}
        BY <1>t, <3>1 DEF Labels
      <4> QED BY <3>1, <3>2, <4>1, <4>2, MoveKeeps
    <3> QED BY <3>3, <3>4
  <2>3. CASE MarkResults(w)
    BY <1>6, <2>3, MarkKeeps
  <2>4. ASSUME NEW n \in Nodes, Credit(w, n) PROVE SettleInv'
    BY <1>6, <2>4, CreditKeeps
  <2>5. CASE TiebreakFails(w)
    BY <1>6, <1>l, <1>t, <2>5, <2>f DEF TiebreakFails
  <2>6. CASE TiebreakDecides(w)
    <3>1. /\ pc[w] = "tiebreak" /\ pc' = [pc EXCEPT ![w] = "save"]
          /\ UNCHANGED <<status, output, tstatus, consensus, credited, verdict, todo, retries>>
      BY <2>6 DEF TiebreakDecides, At, Goto
    <3>2. verdict[w].output \in Outputs
      BY <3>1 DEF SettleInv, Held
    <3>3. /\ "save" \in Labels \ {"mark", "credit"} /\ "save" \notin {"complete", "pay"}
          /\ consensus \subseteq consensus' /\ consensus' \subseteq Outputs
          /\ tstatus' \in {"assigned", "completed", "failed"} /\ retries' \in 0 .. MaxRetries
          /\ tstatus' = "completed" => consensus' # {}
      BY <1>t, <3>1 DEF Labels
    <3>4. /\ verdict' = [verdict EXCEPT ![w] = verdict[w]] /\ todo' = [todo EXCEPT ![w] = todo[w]]
          /\ todo[w] \in SUBSET Nodes /\ UNCHANGED <<deterministic, status, output, credited>>
      BY <1>6, <1>e, <3>1
    <3> QED BY <3>1, <3>2, <3>3, <3>4, MoveKeeps
  <2>7. CASE SaveConsensus(w)
    <3>1. /\ pc[w] = "save" /\ Leave(w, "complete")
          /\ consensus' = consensus \union {verdict[w].output}
          /\ UNCHANGED <<status, output, tstatus, credited, retries>>
      BY <2>7 DEF SaveConsensus, At
    <3>2. verdict[w].output \in Outputs
      BY <3>1 DEF SettleInv, Held
    <3>3. /\ consensus \subseteq consensus' /\ consensus' \subseteq Outputs /\ consensus' # {}
          /\ {} \in SUBSET Nodes /\ "complete" \in Labels \ {"mark", "credit"}
      BY <1>t, <3>1, <3>2 DEF Labels
    <3>4. /\ pc' = [pc EXCEPT ![w] = "complete"] /\ verdict' = [verdict EXCEPT ![w] = NoVerdict]
          /\ todo' = [todo EXCEPT ![w] = {}]
      BY <3>1 DEF Leave, Goto
    <3>5. /\ tstatus' \in {"assigned", "completed", "failed"} /\ retries' \in 0 .. MaxRetries
          /\ tstatus' = "completed" => consensus' # {}
      BY <1>t, <3>1, <3>3
    <3>6. "complete" \notin {"insert", "tiebreak", "save"} /\ UNCHANGED <<deterministic, status, output, credited>>
      BY <1>6, <3>1
    <3> HIDE DEF NoVerdict
    <3> QED BY <3>3, <3>4, <3>5, <3>6, MoveKeeps
  <2>8. CASE MarkCompleted(w)
    <3>1. /\ pc[w] = "complete" /\ pc' = [pc EXCEPT ![w] = "pay"] /\ tstatus' = "completed"
          /\ UNCHANGED <<status, output, consensus, credited, verdict, todo, retries>>
      BY <2>8 DEF MarkCompleted, At, Goto
    <3>2. consensus # {}
      BY <3>1 DEF SettleInv, Held
    <3>3. /\ "pay" \in Labels \ {"mark", "credit"} /\ "pay" \notin {"insert", "tiebreak", "save"}
          /\ consensus \subseteq consensus' /\ consensus' \subseteq Outputs /\ consensus' # {}
          /\ tstatus' \in {"assigned", "completed", "failed"} /\ retries' \in 0 .. MaxRetries
      BY <1>t, <3>1, <3>2 DEF Labels
    <3>4. /\ verdict' = [verdict EXCEPT ![w] = verdict[w]] /\ todo' = [todo EXCEPT ![w] = todo[w]]
          /\ todo[w] \in SUBSET Nodes /\ UNCHANGED <<deterministic, status, output, credited>>
      BY <1>6, <1>e, <3>1
    <3> QED BY <3>1, <3>3, <3>4, MoveKeeps
  <2>9. CASE PaymentThrows(w)
    <3>1. UNCHANGED <<status, output, consensus, credited>>
      BY <2>9 DEF PaymentThrows
    <3>2. CASE w = Queue
      BY <1>6, <1>l, <1>t, <2>9, <3>1, <3>2, QueueThrowsWrites DEF PaymentThrows
    <3>3. CASE w # Queue
      BY <1>6, <1>l, <1>t, <2>9, <3>1, <3>3 DEF PaymentThrows
    <3> QED BY <3>2, <3>3
  <2> QED BY <1>6, <2>1, <2>2, <2>3, <2>4, <2>5, <2>6, <2>7, <2>8, <2>9 DEF VerifyStep
<1>7. ASSUME Crash, UNCHANGED deterministic PROVE SettleInv'
  BY <1>7, CrashKeeps
<1>8. ASSUME NEW w \in Workers, StatementFails(w), UNCHANGED deterministic PROVE SettleInv'
  <2>1. UNCHANGED <<status, output, consensus, credited>>
    BY <1>8 DEF StatementFails
  <2>2. CASE w = Queue
    BY <1>8, <1>l, <1>t, <2>1, <2>2, QueueThrowsWrites DEF StatementFails
  <2>3. CASE w # Queue
    BY <1>8, <1>l, <1>t, <2>1, <2>3 DEF StatementFails
  <2> QED BY <2>2, <2>3
<1> QED BY <1>1, <1>2, <1>3, <1>4, <1>5, <1>6, <1>7, <1>8 DEF Next, Step, QueueStep

\* The invariant holds of every state the server can reach.
LEMMA Invariant == Spec => []SettleInv
<1>1. Init => SettleInv
  <2> SUFFICES ASSUME Init PROVE SettleInv
    OBVIOUS
  <2>1. TypeOK
    BY MaxRetriesAssumption DEF Init, TypeOK
  <2>2. ASSUME NEW n \in Nodes PROVE CreditedOnce(n)
    <3>1. Crediting(n) = {} /\ Marking(n) = {} /\ credited[n] = 0
      BY DEF Init, Crediting, Marking
    <3>2. Cardinality(Crediting(n)) = 0 /\ Cardinality(Marking(n)) = 0
      BY <3>1, FS_EmptySet
    <3> QED BY <3>1, <3>2, WorkersFinite DEF CreditedOnce
  <2>3. \A w \in Workers : Held(w)
    BY DEF Init, Held
  <2> QED BY <2>1, <2>2, <2>3 DEF Init, SettleInv
<1> QED BY <1>1, Inductive, PTL DEF Spec

\* GET /v1/tasks/:taskId has a result to serve for every completed task: the consensus row is
\* saved before the task is marked, by a worker that a restart may stop anywhere in between.
THEOREM CompletedAreServed == Spec => []CompletedHasResult
<1>1. SettleInv => CompletedHasResult
  BY DEF SettleInv, CompletedHasResult
<1> QED BY <1>1, Invariant, PTL

\* A node is credited for a task at most once per verification that ran at the same time, of any
\* number of reports and verifications of the task.
THEOREM CreditsAreBounded == Spec => []CreditBound
<1>1. SettleInv => CreditBound
  <2> SUFFICES ASSUME SettleInv, NEW n \in Nodes
               PROVE  credited[n] + Cardinality(Crediting(n)) <= Cardinality(Workers)
    BY DEF CreditBound, Crediting
  <2> QED BY CreditCounts DEF SettleInv, CreditedOnce
<1> QED BY <1>1, Invariant, PTL

\* The rows that are pending when a verification selects decide as the rule says, in any order.
THEOREM DecisionsAreByMajority == Spec => []DeterministicDecision
<1>1. SettleInv => DeterministicDecision
  BY DeterministicAlways DEF SettleInv
<1> QED BY <1>1, Invariant, PTL

\* Results are verified before their task is settled, one statement at a time; for any number of
\* nodes, requests, failing statements and restarts, a worker goes on settling a task with verified
\* results unless a verification was ended between its decision and the completion.
THEOREM VerifiedAreHeld == Spec => []VerifiedIsHeld
<1>1. Init => VerifiedIsHeld
  BY DEF Init, VerifiedIsHeld
<1>2. TypeOK /\ VerifiedIsHeld /\ [Next]_vars => VerifiedIsHeld'
  <2> SUFFICES ASSUME TypeOK, VerifiedIsHeld, [Next]_vars, NEW n \in Nodes, status'[n] = "verified",
                      tstatus' = "assigned", ~cut'
               PROVE  \E w \in Workers : Settling(w)'
    BY DEF VerifiedIsHeld
  <2> DEFINE Held1 == status[n] = "verified" /\ tstatus = "assigned" /\ ~cut
             Goes(w, l) == pc' = [pc EXCEPT ![w] = l]
             Still(w) == Settling(w) => \E l \in {"credit", "save", "complete"} : Goes(w, l)
  <2>t. /\ status \in [Nodes -> Statuses] /\ pc \in [Workers -> Labels]
        /\ \A w \in Workers : \A l : Goes(w, l) => \A u \in Workers : pc'[u] = IF u = w THEN l ELSE pc[u]
    BY DEF TypeOK, Statuses, Labels
  <2>r. ASSUME NEW m \in Nodes, NEW o, Record(m, o) PROVE status[n] = "verified"
    BY <2>r, <2>t DEF Record
  <2>k. ASSUME Held1, NEW w \in Workers, NEW l, Goes(w, l), Still(w)
        PROVE  \E u \in Workers : Settling(u)'
    <3>1. PICK u \in Workers : Settling(u)
      BY <2>k DEF VerifiedIsHeld
    <3>2. CASE u = w
      <4>1. PICK k \in {"credit", "save", "complete"} : Goes(w, k)
        BY <2>k, <3>1, <3>2
      <4> QED BY <2>t, <4>1 DEF Settling
    <3>3. CASE u # w
      BY <2>k, <2>t, <3>1, <3>3 DEF Settling
    <3> QED BY <3>2, <3>3
  <2>q. ASSUME QueueThrows, tstatus' = "assigned" PROVE tstatus = "assigned" /\ \E l : Goes(Queue, l)
    BY <2>q DEF QueueThrows, Leave, Goto
  <2>1. ASSUME NEW h \in Handlers, NEW m \in Nodes, NEW o \in Outputs, Report(h, m, o)
        PROVE  \E w \in Workers : Settling(w)'
    <3>1. h \in Workers /\ Held1 /\ Goes(h, "select") /\ Still(h)
      BY <2>1, <2>r DEF Report, Workers, bounds, At, Goto, Settling
    <3> QED BY <3>1, <2>k
  <2>2. ASSUME QueueStep PROVE \E w \in Workers : Settling(w)'
    <3>1. Queue \in Workers
      BY WorkersFinite
    <3>2. ASSUME NEW o \in Answers, RunInference(o) PROVE Held1 /\ Goes(Queue, "insert") /\ Still(Queue)
      BY <3>2 DEF RunInference, bounds, At, Goto, Settling
    <3>3. ASSUME NEW m \in Nodes, InsertResult(m) PROVE Held1 /\ Still(Queue) /\ \E l : Goes(Queue, l)
      BY <3>3, <2>r DEF InsertResult, bounds, At, Goto, Settling
    <3>4. ASSUME InferenceFails PROVE Held1 /\ Still(Queue) /\ \E l : Goes(Queue, l)
      BY <3>4, <2>q DEF InferenceFails, bounds, At, Settling
    <3> HIDE DEF Held1, Goes, Still
    <3> QED BY <2>2, <2>k, <3>1, <3>2, <3>3, <3>4 DEF QueueStep
  <2>3. ASSUME NEW w \in Workers, MarkResults(w) PROVE \E u \in Workers : Settling(u)'
    BY <2>3, <2>t DEF MarkResults, Goto, Settling
  <2>4. ASSUME NEW w \in Workers, VerifyStep(w), ~MarkResults(w)
        PROVE  Held1 /\ Still(w) /\ \E l : Goes(w, l)
    <3>1. CASE NothingPending(w)
      BY <3>1 DEF NothingPending, bounds, At, Leave, Goto, Settling
    <3>2. CASE SelectPending(w)
      BY <3>2 DEF SelectPending, bounds, At, Goto, Settling
    <3>3. ASSUME NEW m \in Nodes, Credit(w, m) PROVE Held1 /\ Still(w) /\ \E l : Goes(w, l)
      BY <3>3 DEF Credit, bounds, At, Goto
    <3>4. CASE TiebreakDecides(w)
      BY <3>4 DEF TiebreakDecides, bounds, At, Goto
    <3>5. CASE SaveConsensus(w)
      BY <3>5 DEF SaveConsensus, bounds, At, Leave, Goto
    <3>6. CASE PaymentThrows(w)
      BY <3>6, <2>q DEF PaymentThrows, bounds, At, Leave, Goto, Settling
    <3>7. ~TiebreakFails(w) /\ ~MarkCompleted(w)
      BY DEF TiebreakFails, MarkCompleted
    <3> HIDE DEF Held1, Goes, Still
    <3> QED BY <2>4, <3>1, <3>2, <3>3, <3>4, <3>5, <3>6, <3>7 DEF VerifyStep
  <2>5. ASSUME NEW w \in Workers, StatementFails(w) PROVE Held1 /\ Still(w) /\ \E l : Goes(w, l)
    <3>1. ~cut /\ ~Settling(w) /\ status' = status
      BY <2>5 DEF StatementFails
    <3>2. tstatus = "assigned" /\ \E l : Goes(w, l)
      BY <2>5, <2>q DEF StatementFails, Leave, Goto
    <3> QED BY <3>1, <3>2
  <2>6. CASE Crash
    <3>1. Held1 /\ \A w \in Workers : ~Settling(w)
      BY <2>6 DEF Crash
    <3> QED BY <3>1 DEF VerifiedIsHeld
  <2>7. CASE UNCHANGED vars
    BY <2>7 DEF vars, workVars, bounds, VerifiedIsHeld, Settling
  <2> HIDE DEF Held1, Goes, Still
  <2> QED BY <2>1, <2>2, <2>3, <2>4, <2>5, <2>6, <2>7, <2>k DEF Next, Step
<1>3. SettleInv => TypeOK
  BY DEF SettleInv
<1> QED BY <1>1, <1>2, <1>3, Invariant, PTL DEF Spec

=============================================================================
