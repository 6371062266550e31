------------------------ MODULE TaskAssignment_proofs ------------------------
(* Proofs about TaskAssignment for every set of nodes, tasks and requests. *)
EXTENDS TaskAssignment, FiniteSetTheorems, TLAPS

USE DEF nodeVars, taskVars, localVars

Reports == [Tasks -> [Nodes -> {"none", "open", "completed", "failed"}]]

\* A report recorded for one node of one task leaves the others as they were.
LEMMA ReportRecorded ==
  ASSUME NEW r \in Reports, NEW t, NEW n, NEW v \in {"none", "open", "completed", "failed"}
  PROVE  [r EXCEPT ![t][n] = v] \in Reports
<1>1. ASSUME t \in Tasks PROVE [r[t] EXCEPT ![n] = v] \in [Nodes -> {"none", "open", "completed", "failed"}]
  BY <1>1 DEF Reports
<1> QED BY <1>1 DEF Reports

\* A report keeps the ranges of everything it writes, whatever it is about.
LEMMA SettleTyped ==
  ASSUME TypeOK, NEW t, NEW n, NEW r \in {"completed", "failed"}, Settle(t, n, r)
  PROVE  /\ load' \in [Nodes -> Nat]
         /\ report' \in Reports
         /\ missing' \in [Nodes -> Nat]
<1>1. ASSUME n \in Nodes PROVE Relieved(load[n]) \in Nat
  BY <1>1 DEF Relieved, TypeOK
<1>2. load' \in [Nodes -> Nat]
  BY <1>1 DEF Settle, TypeOK
<1>3. report' \in Reports
  BY ReportRecorded DEF Settle, TypeOK, Reports
<1>4. PICK v : missing' = [missing EXCEPT ![n] = v] /\ (v = missing[n] \/ v = missing[n] + 1)
  BY DEF Settle
<1>5. n \in Nodes => v \in Nat
  BY <1>4 DEF TypeOK
<1>6. missing' \in [Nodes -> Nat]
  BY <1>4, <1>5 DEF TypeOK
<1> QED BY <1>2, <1>3, <1>6

\* handleTaskFailure's COMMIT also lowers the reputation, to no less than zero.
LEMMA CommitTyped ==
  ASSUME TypeOK, NEW h \in Handlers, CommitFailure(h)
  PROVE  /\ load' \in [Nodes -> Nat]
         /\ rep' \in [Nodes -> Nat]
         /\ report' \in Reports
         /\ missing' \in [Nodes -> Nat]
         /\ pc' = [pc EXCEPT ![h] = "idle"]
<1>1. ASSUME culprit[h] \in Nodes PROVE Penalized(rep[culprit[h]]) \in Nat
  BY <1>1 DEF Penalized, TypeOK
<1>2. rep' \in [Nodes -> Nat]
  BY <1>1 DEF CommitFailure, TypeOK
<1> QED BY <1>2, SettleTyped DEF CommitFailure

\* Every column and local variable keeps its range under all interleavings; in
\* particular current_load never goes negative (GREATEST(0, current_load - 1)).
THEOREM TypeCorrect == Spec => []TypeOK
<1>1. Init => TypeOK
  <2> SUFFICES ASSUME Init PROVE TypeOK
    OBVIOUS
  <2>1. rep \in [Nodes -> Nat]
    BY ReputationsAssumption DEF Init
  <2>2. report \in [Tasks -> [Nodes -> {"none", "open", "completed", "failed"}]]
    BY DEF Init
  <2>3. culprit \in [Handlers -> Nodes \union {NoNode}] /\ job \in [Handlers -> Tasks \union {NoTask}]
    BY DEF Init
  <2> QED BY <2>1, <2>2, <2>3 DEF Init, TypeOK
<1>2. TypeOK /\ [Next]_vars => TypeOK'
  <2> SUFFICES ASSUME TypeOK, [Next]_vars PROVE TypeOK'
    OBVIOUS
  <2> USE DEF TypeOK
  <2>1. ASSUME NEW h \in Handlers, AssignStep(h) PROVE TypeOK'
    <3>1. CASE SelectNodes(h)
      <4>1. \A S \in Selections : S \in SUBSET Nodes
        BY DEF Selections, EligibleNodes
      <4> QED BY <3>1, <4>1 DEF SelectNodes
    <3>2. CASE NoEligibleNodes(h)
      BY <3>2 DEF NoEligibleNodes
    <3>3. CASE WriteAssignment(h)
      <4>1. report' \in [Tasks -> [Nodes -> {"none", "open", "completed", "failed"}]]
        BY <3>3 DEF WriteAssignment
      <4> QED BY <3>3, <4>1 DEF WriteAssignment
    <3>4. ASSUME NEW n \in Nodes, BumpLoad(h, n) PROVE TypeOK'
      BY <3>4 DEF BumpLoad
    <3>5. CASE RouteAssigned(h)
      BY <3>5 DEF RouteAssigned
    <3>6. CASE EnqueueAssigned(h)
      BY <3>6 DEF EnqueueAssigned
    <3> QED BY <2>1, <3>1, <3>2, <3>3, <3>4, <3>5, <3>6 DEF AssignStep
  <2>2. ASSUME NEW h \in Handlers, FailureStep(h) PROVE TypeOK'
    <3>1. CASE PenalizeNode(h)
      BY <3>1 DEF PenalizeNode
    <3>2. CASE CommitRemaining(h)
      BY <3>2, CommitTyped DEF CommitRemaining, Reports
    <3>3. CASE CommitReassignment(h)
      BY <3>3, CommitTyped DEF CommitReassignment, Reports
    <3> QED BY <2>2, <3>1, <3>2, <3>3 DEF FailureStep
  <2>3. ASSUME NEW h \in Handlers, NewRequest(h) PROVE TypeOK'
    <3>1. ASSUME NEW t \in Tasks, CreateTask(h, t) PROVE TypeOK'
      BY <3>1 DEF CreateTask
    <3>2. ASSUME NEW t \in Tasks, NEW n \in Nodes, BeginFailure(h, t, n) PROVE TypeOK'
      BY <3>2 DEF BeginFailure
    <3> QED BY <2>3, <3>1, <3>2 DEF NewRequest
  <2>4. ASSUME NEW n \in Nodes, RegisterNode(n) \/ UpdateNodeHealth(n) \/ GoStale(n)
        PROVE TypeOK'
    <3>1. /\ UNCHANGED <<load, rep, taskVars, pc, localVars, failures>>
          /\ \E s \in {"stale", "fresh"} : seen' = [seen EXCEPT ![n] = s]
      BY <2>4 DEF RegisterNode, UpdateNodeHealth, GoStale
    <3>2. seen' \in [Nodes -> {"absent", "stale", "fresh"}]
      BY <3>1
    <3> QED BY <3>1, <3>2
  <2>5. ASSUME NEW n \in Nodes, NEW r \in Reputations, UpdateNodeReputation(n, r)
        PROVE TypeOK'
    BY <2>5, ReputationsAssumption DEF UpdateNodeReputation
  <2>6. ASSUME NEW n \in Nodes, NEW t \in Tasks, CompleteTask(t, n) PROVE TypeOK'
    BY <2>6, SettleTyped DEF CompleteTask, Reports
  <2>8. ASSUME NEW h \in Handlers, StatementFails(h) PROVE TypeOK'
    <3>1. missing' \in [Nodes -> Nat]
      BY <2>8 DEF StatementFails
    <3> QED BY <2>8, <3>1 DEF StatementFails
  <2>7. CASE UNCHANGED vars
    BY <2>7 DEF vars
  <2> QED BY <2>1, <2>2, <2>3, <2>4, <2>5, <2>6, <2>7, <2>8 DEF Next, HandlerStep, NodeStep
<1> QED BY <1>1, <1>2, PTL DEF Spec

-----------------------------------------------------------------------------
\* The requests about to bump a node are some of the requests in flight.
LEMMA PendingFinite ==
  ASSUME NEW n
  PROVE  /\ IsFiniteSet(Pending(n))
         /\ Cardinality(Pending(n)) \in Nat
         /\ Cardinality(Handlers) \in Nat
         /\ Cardinality(Pending(n)) <= Cardinality(Handlers)
  BY HandlersAssumption, FS_Subset, FS_CardinalityType DEF Pending

\* The same of the next state.
LEMMA PendingFinitePrime ==
  ASSUME NEW n
  PROVE  /\ IsFiniteSet(Pending(n)')
         /\ Cardinality(Pending(n)') \in Nat
         /\ Cardinality(Pending(n)') <= Cardinality(Handlers)
  BY HandlersAssumption, FS_Subset, FS_CardinalityType DEF Pending

\* A step that raises neither the load of n nor the set of requests about to
\* raise it keeps n within its bound.
LEMMA BoundKept ==
  ASSUME TypeOK, TypeOK', OverloadBound, NEW n \in Nodes,
         load'[n] <= load[n], Pending(n)' \subseteq Pending(n)
  PROVE  load'[n] + Cardinality(Pending(n)') <= Capacity + Cardinality(Handlers) - 1
<1>1. Cardinality(Pending(n)') <= Cardinality(Pending(n))
  BY PendingFinite, FS_Subset
<1> QED
  BY <1>1, PendingFinite, PendingFinitePrime, CapacityAssumption DEF OverloadBound, TypeOK

\* assignTask reads the loads, awaits, and adds to them later.  For any number
\* of nodes and requests, no interleaving takes a node's load, with what is about
\* to be added to it, past Capacity plus the other requests in flight.
THEOREM OverloadBounded == Spec => []OverloadBound
<1>1. ASSUME NEW n \in Nodes, Init, Handlers # {}
      PROVE  load[n] + Cardinality(Pending(n)) <= Capacity + Cardinality(Handlers) - 1
  <2>1. load[n] = 0 /\ Pending(n) = {}
    BY <1>1 DEF Init, Pending
  <2>2. Cardinality(Handlers) \in Nat /\ Cardinality(Handlers) # 0
    BY <1>1, HandlersAssumption, FS_CardinalityType, FS_EmptySet
  <2> QED BY <2>1, <2>2, FS_EmptySet, CapacityAssumption
<1>2. Init => OverloadBound
  <2>1. ASSUME NEW n \in Nodes, Init, Handlers = {}
        PROVE  load[n] + Cardinality(Pending(n)) <= Capacity + Cardinality(Handlers) - 1
    <3>1. load[n] = 0 /\ Pending(n) = {}
      BY <2>1 DEF Init, Pending
    <3> QED BY <2>1, <3>1, FS_EmptySet, CapacityAssumption
  <2> QED BY <1>1, <2>1 DEF OverloadBound
<1>3. TypeOK /\ TypeOK' /\ OverloadBound /\ [Next]_vars => OverloadBound'
  <2> SUFFICES ASSUME TypeOK, TypeOK', OverloadBound, [Next]_vars, NEW n \in Nodes
               PROVE  load'[n] + Cardinality(Pending(n)')
                        <= Capacity + Cardinality(Handlers) - 1
    BY DEF OverloadBound
  <2> DEFINE Kept == load'[n] <= load[n] /\ Pending(n)' \subseteq Pending(n)
  <2>k. Kept => load'[n] + Cardinality(Pending(n)') <= Capacity + Cardinality(Handlers) - 1
    BY BoundKept
  <2> HIDE DEF Kept
  <2>1. ASSUME NEW h \in Handlers, SelectNodes(h)
        PROVE  load'[n] + Cardinality(Pending(n)') <= Capacity + Cardinality(Handlers) - 1
    <3>1. PICK S \in Selections : todo' = [todo EXCEPT ![h] = S]
      BY <2>1 DEF SelectNodes
    <3>2. load' = load
      BY <2>1 DEF SelectNodes
    <3>3. CASE n \in S
      <4>1. load[n] < Capacity
        BY <3>3 DEF Selections, EligibleNodes
      <4>2. load'[n] \in Nat /\ load'[n] <= Capacity - 1
        BY <3>2, <4>1, CapacityAssumption DEF TypeOK
      <4> QED BY <4>2, PendingFinite, PendingFinitePrime, CapacityAssumption
    <3>4. CASE n \notin S
      <4>1. Kept
        BY <3>1, <3>2, <3>4 DEF Kept, Pending, TypeOK
      <4> QED BY <4>1, <2>k
    <3> QED BY <3>3, <3>4
  <2>2. ASSUME NEW h \in Handlers, NEW m \in Nodes, BumpLoad(h, m)
        PROVE  load'[n] + Cardinality(Pending(n)') <= Capacity + Cardinality(Handlers) - 1
    <3>1. CASE m = n
      <4>1. load'[n] = load[n] + 1
        BY <2>2, <3>1 DEF BumpLoad, TypeOK
      <4>2. h \in Pending(n) /\ Pending(n)' = Pending(n) \ {h}
        BY <2>2, <3>1 DEF BumpLoad, Pending, TypeOK
      <4>3. Cardinality(Pending(n)') = Cardinality(Pending(n)) - 1
        BY <4>2, PendingFinite, FS_RemoveElement
      <4> QED BY <4>1, <4>3, PendingFinite, CapacityAssumption DEF OverloadBound, TypeOK
    <3>2. CASE m # n
      <4>1. Kept
        BY <2>2, <3>2 DEF Kept, BumpLoad, Pending, TypeOK
      <4> QED BY <4>1, <2>k
    <3> QED BY <3>1, <3>2
  <2>3. ASSUME NEW h \in Handlers,
               \/ NoEligibleNodes(h) \/ WriteAssignment(h) \/ RouteAssigned(h)
               \/ EnqueueAssigned(h) \/ PenalizeNode(h)
               \/ \E t \in Tasks : CreateTask(h, t)
               \/ \E t \in Tasks, m \in Nodes : BeginFailure(h, t, m)
        PROVE  Kept
    BY <2>3 DEF NoEligibleNodes, WriteAssignment, RouteAssigned, EnqueueAssigned,
                PenalizeNode, CreateTask, BeginFailure, Kept, Pending, TypeOK
  <2>4. ASSUME NEW h \in Handlers, CommitRemaining(h) \/ CommitReassignment(h)
        PROVE  Kept
    <3>1. todo' = todo
      BY <2>4 DEF CommitRemaining, CommitReassignment
    <3>2. load' = [load EXCEPT ![culprit[h]] = Relieved(@)]
      BY <2>4 DEF CommitRemaining, CommitReassignment, CommitFailure, Settle
    <3>3. load'[n] <= load[n]
      BY <3>2 DEF Relieved, TypeOK
    <3> QED BY <3>1, <3>3 DEF Kept, Pending
  <2>5. ASSUME NodeStep PROVE Kept
    <3>1. ASSUME NEW t \in Tasks, NEW m \in Nodes, CompleteTask(t, m) PROVE Kept
      BY <3>1 DEF CompleteTask, Settle, Relieved, Kept, Pending, TypeOK
    <3>2. ASSUME NEW m \in Nodes,
                 \/ RegisterNode(m) \/ UpdateNodeHealth(m) \/ GoStale(m)
                 \/ \E r \in Reputations : UpdateNodeReputation(m, r)
          PROVE  Kept
      BY <3>2 DEF RegisterNode, UpdateNodeHealth, GoStale, UpdateNodeReputation,
                  Kept, Pending, TypeOK
    <3> QED BY <2>5, <3>1, <3>2 DEF NodeStep
  <2>7. ASSUME NEW h \in Handlers, StatementFails(h) PROVE Kept
    BY <2>7 DEF StatementFails, Kept, Pending, TypeOK
  <2>6. CASE UNCHANGED vars
    <3>1. Kept
      BY <2>6 DEF vars, Kept, Pending, TypeOK
    <3> QED BY <3>1, <2>k
  <2> QED BY <2>1, <2>2, <2>3, <2>4, <2>5, <2>6, <2>7, <2>k
          DEF Next, HandlerStep, NewRequest, AssignStep, FailureStep
<1> QED BY <1>2, <1>3, TypeCorrect, PTL DEF Spec

-----------------------------------------------------------------------------
(***************************************************************************)
(* The other direction: what load has to cover.                            *)
(***************************************************************************)
\* The tasks n was assigned and has not reported on since.
Open(n) == {t \in Tasks : report[t][n] = "open"}

\* Handlers that have written n into assigned_nodes and have yet to add to its load.
Bumping(n) == {h \in Handlers : pc[h] = "bump" /\ n \in todo[h]}

Covered(n) ==
    /\ IsFiniteSet(Open(n))
    /\ Cardinality(Open(n)) <= load[n] + Cardinality(Bumping(n)) + missing[n]

\* A handler that serves a failure report is about a task and a node.
Named(h) ==
    pass[h] = "reassign" \/ pc[h] \in {"penalize", "commitRemaining"}
        => job[h] \in Tasks /\ culprit[h] \in Nodes

CoverInv ==
    /\ \A h \in Handlers : Named(h)
    /\ \A n \in Nodes : Covered(n)

\* The handlers about to bump a node are some of those that chose it.
LEMMA BumpingFinite ==
  ASSUME NEW n
  PROVE  /\ IsFiniteSet(Bumping(n)) /\ Cardinality(Bumping(n)) \in Nat
         /\ IsFiniteSet(Bumping(n)') /\ Cardinality(Bumping(n)') \in Nat
         /\ IsFiniteSet(Pending(n)) /\ Cardinality(Pending(n)) \in Nat
         /\ Cardinality(Bumping(n)) <= Cardinality(Pending(n))
<1>1. Bumping(n) \subseteq Pending(n) /\ Bumping(n)' \subseteq Handlers
  BY DEF Bumping, Pending
<1> QED BY <1>1, PendingFinite, HandlersAssumption, FS_Subset, FS_CardinalityType

\* A finite set with one element that may be new.
LEMMA OneElementMore ==
  ASSUME NEW S, NEW x, IsFiniteSet(S)
  PROVE  /\ IsFiniteSet(S \cup {x}) /\ Cardinality(S \cup {x}) \in Nat
         /\ Cardinality(S \cup {x}) <= Cardinality(S) + 1
<1>1. IsFiniteSet(S \cup {x}) /\ Cardinality(S \cup {x}) \in Nat /\ Cardinality(S) \in Nat
  BY FS_AddElement, FS_CardinalityType
<1>2. Cardinality(S \cup {x}) = Cardinality(S) \/ Cardinality(S \cup {x}) = Cardinality(S) + 1
  BY FS_AddElement
<1> QED BY <1>1, <1>2

\* A step that opens no further task for n, and lowers neither its load nor what is to be
\* added nor what is known to be missing.
LEMMA CoveredKept ==
  ASSUME TypeOK, TypeOK', NEW n \in Nodes, Covered(n), Open(n)' \subseteq Open(n),
         load'[n] >= load[n], missing'[n] >= missing[n], Bumping(n) \subseteq Bumping(n)'
  PROVE  Covered(n)'
<1>1. /\ IsFiniteSet(Open(n)') /\ Cardinality(Open(n)') \in Nat /\ Cardinality(Open(n)) \in Nat
      /\ Cardinality(Open(n)') <= Cardinality(Open(n))
  BY FS_Subset, FS_CardinalityType DEF Covered
<1>2. Cardinality(Bumping(n)) <= Cardinality(Bumping(n)')
  BY BumpingFinite, FS_Subset
<1>3. load[n] \in Nat /\ load'[n] \in Nat /\ missing[n] \in Nat /\ missing'[n] \in Nat
  BY DEF TypeOK
<1>4. Cardinality(Open(n)') <= load'[n] + Cardinality(Bumping(n)') + missing'[n]
  BY <1>1, <1>2, <1>3, BumpingFinite DEF Covered
<1> QED BY <1>1, <1>4 DEF Covered

\* assigned_nodes is written before current_load: the handler that has written it is what
\* covers the new assignments.
LEMMA WriteCovers ==
  ASSUME TypeOK, TypeOK', NEW h \in Handlers, WriteAssignment(h), NEW n \in Nodes, Covered(n)
  PROVE  Covered(n)'
<1>1. /\ pc[h] = "write" /\ pc' = [pc EXCEPT ![h] = "bump"]
      /\ UNCHANGED <<load, todo, missing>>
  BY DEF WriteAssignment
<1>2. \A t \in Tasks :
         report'[t][n] = IF t = job[h] /\ n \in todo[h] THEN "open" ELSE report[t][n]
  BY DEF WriteAssignment, TypeOK
<1>3. load[n] \in Nat /\ missing[n] \in Nat
  BY DEF TypeOK
<1>4. CASE n \notin todo[h]
  <2>1. Open(n)' \subseteq Open(n)
    BY <1>2, <1>4 DEF Open
  <2>2. Bumping(n) \subseteq Bumping(n)'
    BY <1>1 DEF Bumping, TypeOK
  <2> QED BY <1>1, <1>3, <2>1, <2>2, CoveredKept
<1>5. CASE n \in todo[h]
  <2>1. Open(n)' \subseteq Open(n) \cup {job[h]}
    BY <1>2 DEF Open
  <2>2. h \notin Bumping(n) /\ Bumping(n)' = Bumping(n) \cup {h}
    BY <1>1, <1>5 DEF Bumping, TypeOK
  <2>3. Cardinality(Bumping(n)') = Cardinality(Bumping(n)) + 1
    BY <2>2, BumpingFinite, FS_AddElement
  <2>4. IsFiniteSet(Open(n)) /\ Cardinality(Open(n)) \in Nat
    BY FS_CardinalityType DEF Covered
  <2>5. /\ IsFiniteSet(Open(n) \cup {job[h]}) /\ Cardinality(Open(n) \cup {job[h]}) \in Nat
        /\ Cardinality(Open(n) \cup {job[h]}) <= Cardinality(Open(n)) + 1
    BY <2>4, OneElementMore
  <2>6. IsFiniteSet(Open(n)') /\ Cardinality(Open(n)') \in Nat
        /\ Cardinality(Open(n)') <= Cardinality(Open(n) \cup {job[h]})
    BY <2>1, <2>5, FS_Subset, FS_CardinalityType
  <2>7. Cardinality(Open(n)') <= load'[n] + Cardinality(Bumping(n)') + missing'[n]
    BY <1>1, <1>3, <2>3, <2>4, <2>5, <2>6, BumpingFinite DEF Covered
  <2> QED BY <2>6, <2>7 DEF Covered
<1> QED BY <1>4, <1>5

\* The loop of assignTask moves one unit from what is to be added to the load.
LEMMA BumpCovers ==
  ASSUME TypeOK, TypeOK', NEW h \in Handlers, NEW m \in Nodes, BumpLoad(h, m),
         NEW n \in Nodes, Covered(n)
  PROVE  Covered(n)'
<1>1. /\ UNCHANGED <<report, missing, pc>> /\ pc[h] = "bump" /\ m \in todo[h]
      /\ load' = [load EXCEPT ![m] = @ + 1] /\ todo' = [todo EXCEPT ![h] = @ \ {m}]
  BY DEF BumpLoad
<1>2. Open(n)' = Open(n)
  BY <1>1 DEF Open
<1>3. load[n] \in Nat /\ missing[n] \in Nat
  BY DEF TypeOK
<1>4. CASE m = n
  <2>1. h \in Bumping(n) /\ Bumping(n)' = Bumping(n) \ {h}
    BY <1>1, <1>4 DEF Bumping, TypeOK
  <2>2. Cardinality(Bumping(n)') = Cardinality(Bumping(n)) - 1
    BY <2>1, BumpingFinite, FS_RemoveElement
  <2>3. load'[n] = load[n] + 1
    BY <1>1, <1>4 DEF TypeOK
  <2>4. IsFiniteSet(Open(n)) /\ Cardinality(Open(n)) \in Nat
    BY FS_CardinalityType DEF Covered
  <2>5. Cardinality(Open(n)) <= load'[n] + Cardinality(Bumping(n)') + missing'[n]
    BY <1>1, <1>3, <2>2, <2>3, <2>4, BumpingFinite DEF Covered
  <2> QED BY <1>2, <2>4, <2>5 DEF Covered
<1>5. CASE m # n
  <2>1. Bumping(n) \subseteq Bumping(n)'
    BY <1>1, <1>5 DEF Bumping, TypeOK
  <2>2. load'[n] = load[n] /\ missing'[n] = missing[n]
    BY <1>1, <1>5 DEF TypeOK
  <2> QED BY <1>2, <1>3, <2>1, <2>2, CoveredKept
<1> QED BY <1>4, <1>5

\* A report takes at most one off the load, and either settles one open task or is recorded
\* as missing; the clamp at zero only ever keeps more.
LEMMA SettleCovers ==
  ASSUME TypeOK, TypeOK', NEW t \in Tasks, NEW m \in Nodes, NEW r \in {"completed", "failed"},
         Settle(t, m, r), NEW n \in Nodes, Covered(n), Bumping(n)' = Bumping(n)
  PROVE  Covered(n)'
<1>1. \A s \in Tasks : report'[s][n] = IF s = t /\ n = m THEN r ELSE report[s][n]
  BY DEF Settle, TypeOK
<1>2. load[n] \in Nat /\ load'[n] \in Nat /\ missing[n] \in Nat /\ missing'[n] \in Nat
  BY DEF TypeOK
<1>3. Open(n)' \subseteq Open(n)
  BY <1>1 DEF Open
<1>4. CASE m # n
  <2>1. load'[n] = load[n] /\ missing'[n] = missing[n]
    BY <1>4 DEF Settle, TypeOK
  <2> QED BY <1>2, <1>3, <2>1, CoveredKept
<1>5. CASE m = n
  <2>1. load'[n] = Relieved(load[n])
    BY <1>5 DEF Settle, TypeOK
  <2>2. load'[n] >= load[n] - 1
    BY <1>2, <2>1 DEF Relieved
  <2>3. /\ IsFiniteSet(Open(n)) /\ Cardinality(Open(n)) \in Nat
        /\ IsFiniteSet(Open(n)') /\ Cardinality(Open(n)') \in Nat
        /\ Cardinality(Open(n)') <= Cardinality(Open(n))
    BY <1>3, FS_Subset, FS_CardinalityType DEF Covered
  <2>4. CASE report[t][n] = "open"
    <3>1. missing'[n] = missing[n]
      BY <1>5, <2>4 DEF Settle, TypeOK
    <3>2. t \in Open(n) /\ Open(n)' \subseteq Open(n) \ {t}
      BY <1>1, <1>5, <2>4 DEF Open
    <3>3. IsFiniteSet(Open(n) \ {t}) /\ Cardinality(Open(n) \ {t}) = Cardinality(Open(n)) - 1
      BY <2>3, <3>2, FS_RemoveElement
    <3>4. Cardinality(Open(n)') <= Cardinality(Open(n)) - 1
      BY <3>2, <3>3, FS_Subset
    <3>5. Cardinality(Open(n)') <= load'[n] + Cardinality(Bumping(n)) + missing'[n]
      BY <1>2, <2>2, <2>3, <3>1, <3>4, BumpingFinite DEF Covered
    <3> QED BY <2>3, <3>5 DEF Covered
  <2>5. CASE report[t][n] # "open"
    <3>1. missing'[n] = missing[n] + 1
      BY <1>5, <2>5 DEF Settle, TypeOK
    <3>2. Cardinality(Open(n)') <= load'[n] + Cardinality(Bumping(n)) + missing'[n]
      BY <1>2, <2>2, <2>3, <3>1, BumpingFinite DEF Covered
    <3> QED BY <2>3, <3>2 DEF Covered
  <2> QED BY <2>4, <2>5
<1> QED BY <1>4, <1>5

\* A request that ends by an error leaves the increments it did not make as missing.
LEMMA FailCovers ==
  ASSUME TypeOK, TypeOK', NEW h \in Handlers, StatementFails(h), NEW n \in Nodes, Covered(n)
  PROVE  Covered(n)'
<1>1. /\ UNCHANGED <<load, report>>
      /\ \A g \in Handlers \ {h} : pc'[g] = pc[g] /\ todo'[g] = todo[g]
      /\ pc'[h] = "idle"
  BY DEF StatementFails, TypeOK
<1>2. Open(n)' = Open(n) /\ load'[n] = load[n]
  BY <1>1 DEF Open
<1>3. load[n] \in Nat /\ missing[n] \in Nat
  BY DEF TypeOK
<1>4. CASE h \in Bumping(n)
  <2>1. missing'[n] = missing[n] + 1
    BY <1>3, <1>4 DEF StatementFails, Bumping
  <2>2. Bumping(n)' = Bumping(n) \ {h}
    BY <1>1 DEF Bumping
  <2>3. Cardinality(Bumping(n)') = Cardinality(Bumping(n)) - 1
    BY <1>4, <2>2, BumpingFinite, FS_RemoveElement
  <2>4. IsFiniteSet(Open(n)) /\ Cardinality(Open(n)) \in Nat
    BY FS_CardinalityType DEF Covered
  <2>5. Cardinality(Open(n)) <= load'[n] + Cardinality(Bumping(n)') + missing'[n]
    BY <1>2, <1>3, <2>1, <2>3, <2>4, BumpingFinite DEF Covered
  <2> QED BY <1>2, <2>4, <2>5 DEF Covered
<1>5. CASE h \notin Bumping(n)
  <2>1. missing'[n] = missing[n]
    BY <1>3, <1>5 DEF StatementFails, Bumping
  <2>2. Bumping(n) \subseteq Bumping(n)'
    BY <1>1, <1>5 DEF Bumping
  <2> QED BY <1>2, <1>3, <2>1, <2>2, CoveredKept
<1> QED BY <1>4, <1>5

\* Steps that open and settle nothing.
LEMMA OtherCovers ==
  ASSUME TypeOK, TypeOK', UNCHANGED <<load, report, missing>>, NEW n \in Nodes, Covered(n),
         Bumping(n) \subseteq Bumping(n)'
  PROVE  Covered(n)'
<1>1. Open(n)' = Open(n)
  BY DEF Open
<1>2. load[n] \in Nat /\ missing[n] \in Nat
  BY DEF TypeOK
<1> QED BY <1>1, <1>2, CoveredKept

\* The +1 of assignTask, the -1 of completeTask and handleTaskFailure and the clamp at zero
\* happen in any order, nodes report what and as often as they like, and statements fail; still,
\* for any number of nodes, tasks and requests, only surplus reports and lost increments let a
\* node's open tasks exceed its load and what is about to be added to it.
THEOREM LoadCovers == Spec => []LoadCoversAssignments
<1>1. Init => CoverInv
  <2> SUFFICES ASSUME Init PROVE CoverInv
    OBVIOUS
  <2>1. \A h \in Handlers : Named(h)
    BY DEF Init, Named
  <2>2. ASSUME NEW n \in Nodes PROVE Covered(n)
    <3>1. Open(n) = {} /\ Bumping(n) = {} /\ load[n] = 0 /\ missing[n] = 0
      BY DEF Init, Open, Bumping
    <3> QED BY <3>1, FS_EmptySet DEF Covered
  <2> QED BY <2>1, <2>2 DEF CoverInv
<1>2. TypeOK /\ CoverInv /\ [Next]_vars => \A h \in Handlers : Named(h)'
  <2> SUFFICES ASSUME TypeOK, CoverInv, [Next]_vars, NEW h \in Handlers PROVE Named(h)'
    OBVIOUS
  <2>1. ASSUME NEW g \in Handlers, HandlerStep(g) \/ StatementFails(g) PROVE Named(h)'
    <3>1. job' = job /\ culprit' = culprit
      BY <2>1 DEF HandlerStep, AssignStep, FailureStep, SelectNodes, NoEligibleNodes, WriteAssignment,
                  BumpLoad, RouteAssigned, EnqueueAssigned, PenalizeNode, CommitRemaining,
                  CommitReassignment, StatementFails
    <3>2. /\ pass'[h] = "reassign" => pass[h] = "reassign"
          /\ pc'[h] \in {"penalize", "commitRemaining"} => pc[h] \in {"penalize", "commitRemaining"}
      BY <2>1 DEF HandlerStep, AssignStep, FailureStep, SelectNodes, NoEligibleNodes, WriteAssignment,
                  BumpLoad, RouteAssigned, EnqueueAssigned, PenalizeNode, CommitRemaining,
                  CommitReassignment, CommitFailure, StatementFails, TypeOK
    <3> QED BY <3>1, <3>2 DEF CoverInv, Named
  <2>2. ASSUME NEW g \in Handlers, NewRequest(g) PROVE Named(h)'
    <3>1. ASSUME NEW t \in Tasks, CreateTask(g, t) PROVE Named(h)'
      BY <3>1 DEF CreateTask, CoverInv, Named, TypeOK
    <3>2. ASSUME NEW t \in Tasks, NEW n \in Nodes, BeginFailure(g, t, n) PROVE Named(h)'
      BY <3>2 DEF BeginFailure, CoverInv, Named, TypeOK
    <3> QED BY <2>2, <3>1, <3>2 DEF NewRequest
  <2>3. ASSUME NodeStep \/ UNCHANGED vars PROVE Named(h)'
    <3>1. UNCHANGED <<pc, localVars>>
      BY <2>3 DEF NodeStep, RegisterNode, UpdateNodeHealth, GoStale, UpdateNodeReputation,
                  CompleteTask, vars
    <3> QED BY <3>1 DEF CoverInv, Named
  <2> QED BY <2>1, <2>2, <2>3 DEF Next
<1>3. TypeOK /\ TypeOK' /\ CoverInv /\ [Next]_vars => \A n \in Nodes : Covered(n)'
  <2> SUFFICES ASSUME TypeOK, TypeOK', CoverInv, [Next]_vars, NEW n \in Nodes PROVE Covered(n)'
    OBVIOUS
  <2>0. Covered(n)
    BY DEF CoverInv
  <2>1. ASSUME NEW h \in Handlers,
               \/ SelectNodes(h) \/ NoEligibleNodes(h) \/ RouteAssigned(h) \/ EnqueueAssigned(h)
               \/ PenalizeNode(h) \/ NewRequest(h)
        PROVE  Covered(n)'
    <3>1. UNCHANGED <<load, report, missing>>
      BY <2>1 DEF SelectNodes, NoEligibleNodes, RouteAssigned, EnqueueAssigned, PenalizeNode,
                  NewRequest, CreateTask, BeginFailure
    <3>2. Bumping(n) \subseteq Bumping(n)'
      BY <2>1 DEF SelectNodes, NoEligibleNodes, RouteAssigned, EnqueueAssigned, PenalizeNode,
                  NewRequest, CreateTask, BeginFailure, Bumping, TypeOK
    <3> QED BY <2>0, <3>1, <3>2, OtherCovers
  <2>2. ASSUME NEW h \in Handlers, CommitRemaining(h) \/ CommitReassignment(h) PROVE Covered(n)'
    <3>1. job[h] \in Tasks /\ culprit[h] \in Nodes
      BY <2>2 DEF CommitRemaining, CommitReassignment, CoverInv, Named
    <3>2. Settle(job[h], culprit[h], "failed")
      BY <2>2 DEF CommitRemaining, CommitReassignment, CommitFailure
    <3>3. Bumping(n)' = Bumping(n)
      BY <2>2 DEF CommitRemaining, CommitReassignment, CommitFailure, Bumping, TypeOK
    <3> QED BY <2>0, <3>1, <3>2, <3>3, SettleCovers
  <2>3. ASSUME NEW t \in Tasks, NEW m \in Nodes, CompleteTask(t, m) PROVE Covered(n)'
    <3>1. Settle(t, m, "completed") /\ Bumping(n)' = Bumping(n)
      BY <2>3 DEF CompleteTask, Bumping
    <3> QED BY <2>0, <3>1, SettleCovers
  <2>4. ASSUME NEW m \in Nodes,
               \/ RegisterNode(m) \/ UpdateNodeHealth(m) \/ GoStale(m)
               \/ \E r \in Reputations : UpdateNodeReputation(m, r)
        PROVE  Covered(n)'
    <3>1. UNCHANGED <<load, report, missing, pc, todo>>
      BY <2>4 DEF RegisterNode, UpdateNodeHealth, GoStale, UpdateNodeReputation
    <3> QED BY <2>0, <3>1, OtherCovers DEF Bumping
  <2>5. CASE UNCHANGED vars
    <3>1. UNCHANGED <<load, report, missing, pc, todo>>
      BY <2>5 DEF vars
    <3> QED BY <2>0, <3>1, OtherCovers DEF Bumping
  <2> QED BY <2>0, <2>1, <2>2, <2>3, <2>4, <2>5, WriteCovers, BumpCovers, FailCovers
          DEF Next, HandlerStep, AssignStep, FailureStep, NodeStep
<1>4. TypeOK /\ CoverInv => LoadCoversAssignments
  <2> SUFFICES ASSUME TypeOK, CoverInv, NEW n \in Nodes
               PROVE  Cardinality(Open(n)) <= load[n] + Cardinality(Pending(n)) + missing[n]
    BY DEF LoadCoversAssignments, Open
  <2>1. load[n] \in Nat /\ missing[n] \in Nat
    BY DEF TypeOK
  <2>2. Cardinality(Open(n)) \in Nat
    BY FS_CardinalityType DEF CoverInv, Covered
  <2> QED BY <2>1, <2>2, BumpingFinite DEF CoverInv, Covered
<1>5. TypeOK /\ TypeOK' /\ CoverInv /\ [Next]_vars => CoverInv'
  BY <1>2, <1>3 DEF CoverInv
<1> QED BY <1>1, <1>4, <1>5, TypeCorrect, PTL DEF Spec
=============================================================================
