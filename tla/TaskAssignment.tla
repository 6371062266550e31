--------------------------- MODULE TaskAssignment ---------------------------
(***************************************************************************)
(* Node registry and task distribution of the api-server:                  *)
(* services/taskDistribution.ts and services/nodeRegistry.ts, as driven by *)
(* POST /v1/inference and POST /v1/nodes/... of index.ts.                  *)
(*                                                                         *)
(* A handler is one request being served.  Every SQL statement a handler   *)
(* awaits is one step, so the handlers interleave at the statements.       *)
(* Statements outside BEGIN..COMMIT commit at once.  handleTaskFailure     *)
(* holds the row lock of the failed node from its UPDATE to its COMMIT,    *)
(* while assignTask, which it awaits, works on a second connection.        *)
(* Nodes report when they like: neither endpoint asks whether the node     *)
(* holds the task or has reported on it before.                            *)
(*                                                                         *)
(* All nodes are in the region the requests ask for; RAM, GPU and model    *)
(* filters are static per node and reduce Nodes.                           *)
(***************************************************************************)
EXTENDS Integers, FiniteSets

CONSTANTS
    Nodes,          \* compute nodes
    Tasks,          \* task ids that requests may create
    Handlers,       \* requests in flight at the same time
    Capacity,       \* nodes.max_concurrent_tasks (3 in schema.sql)
    Reputations,    \* values verification may give a node's reputation
    MinReputation,  \* 30 in assignTask
    MaxNodesPerTask,\* 3 in assignTask
    MaxFailures     \* bound: failure reports, surplus completions and failing statements

ASSUME HandlersAssumption == IsFiniteSet(Handlers)
ASSUME CapacityAssumption == Capacity \in Nat \ {0}
ASSUME ReputationsAssumption == Reputations \subseteq Nat

VARIABLES
    load,       \* nodes.current_load
    rep,        \* nodes.reputation
    seen,       \* last_seen within 5 minutes: "absent" (no row), "stale", "fresh"
    tstatus,    \* tasks.status, "none" before the INSERT
    assigned,   \* tasks.assigned_nodes
    pc,         \* where each handler awaits
    pass,       \* who called assignTask: "route", "enqueue" or "reassign"
    job,        \* the handler's taskId
    todo,       \* selected nodes whose current_load is still to be bumped
    culprit,    \* failedNodeId of a failure report
    remaining,  \* assigned nodes left, as read by handleTaskFailure
    report,     \* history: "open" from the assignment until the node reports
    missing,    \* history: what surplus reports and failing statements took off a load
    failures    \* what MaxFailures bounds

taskVars == <<tstatus, assigned, report, missing>>
nodeVars == <<load, rep, seen>>
localVars == <<pass, job, todo, culprit, remaining>>
vars == <<load, rep, seen, tstatus, assigned, pc, pass, job, todo, culprit,
          remaining, report, missing, failures>>

NoTask == "no task"
NoNode == "no node"

Init ==
    /\ load = [n \in Nodes |-> 0]
    /\ rep \in [Nodes -> Reputations]
    /\ seen = [n \in Nodes |-> "absent"]
    /\ tstatus = [t \in Tasks |-> "none"]
    /\ assigned = [t \in Tasks |-> {}]
    /\ pc = [h \in Handlers |-> "idle"]
    /\ pass = [h \in Handlers |-> "route"]
    /\ job = [h \in Handlers |-> NoTask]
    /\ todo = [h \in Handlers |-> {}]
    /\ culprit = [h \in Handlers |-> NoNode]
    /\ remaining = [h \in Handlers |-> {}]
    /\ report = [t \in Tasks |-> [n \in Nodes |-> "none"]]
    /\ missing = [n \in Nodes |-> 0]
    /\ failures = 0

-----------------------------------------------------------------------------
(***************************************************************************)
(* Row locks.  Only handleTaskFailure keeps one across awaits.             *)
(***************************************************************************)
HoldsRow(h, n) ==
    /\ culprit[h] = n
    /\ \/ pc[h] = "commitRemaining"
       \/ pass[h] = "reassign" /\ pc[h] \in {"select", "write", "bump"}

Unlocked(n) == \A h \in Handlers : ~HoldsRow(h, n)

\* Mutant: the GREATEST(0, ...) is dropped.
RelievedUnclamped(l) == l - 1

\* What handleTaskFailure does to the failed node when it commits.
Relieved(l) == IF l = 0 THEN 0 ELSE l - 1
Penalized(r) == IF r < 2 THEN 0 ELSE r - 2

-----------------------------------------------------------------------------
(***************************************************************************)
(* nodeRegistry.ts                                                         *)
(***************************************************************************)
\* registerNode: INSERT, or UPDATE of an existing row; both end 'online'.
RegisterNode(n) ==
    /\ Unlocked(n)
    /\ seen' = [seen EXCEPT ![n] = "fresh"]
    /\ UNCHANGED <<load, rep, taskVars, pc, localVars, failures>>

\* updateNodeHealth: the UPDATE matches no row for an unregistered device.
UpdateNodeHealth(n) ==
    /\ seen[n] # "absent"
    /\ Unlocked(n)
    /\ seen' = [seen EXCEPT ![n] = "fresh"]
    /\ UNCHANGED <<load, rep, taskVars, pc, localVars, failures>>

\* Five minutes pass without a heartbeat.
GoStale(n) ==
    /\ seen[n] = "fresh"
    /\ seen' = [seen EXCEPT ![n] = "stale"]
    /\ UNCHANGED <<load, rep, taskVars, pc, localVars, failures>>

\* updateNodeReputation, and the penalties of resultVerification.ts.
UpdateNodeReputation(n, r) ==
    /\ seen[n] # "absent"
    /\ Unlocked(n)
    /\ rep' = [rep EXCEPT ![n] = r]
    /\ UNCHANGED <<load, seen, taskVars, pc, localVars, failures>>

\* Mutant: the capacity filter is dropped.
EligibleIgnoringLoad == {n \in Nodes : seen[n] = "fresh" /\ rep[n] >= MinReputation}

\* getActiveNodes followed by assignTask's filter.
EligibleNodes ==
    {n \in Nodes : seen[n] = "fresh" /\ rep[n] >= MinReputation /\ load[n] < Capacity}

\* 40% reputation + 30% proximity (equal for all here) + 30% free capacity,
\* scaled by 10 * Capacity to stay in the integers.
Score(n) == 4 * rep[n] * Capacity + 300 * (Capacity - load[n])

\* n may be sorted before m: by score, then in the order of the query.
RanksBefore(n, m) ==
    \/ Score(n) > Score(m)
    \/ Score(n) = Score(m) /\ rep[n] > rep[m]
    \/ Score(n) = Score(m) /\ rep[n] = rep[m] /\ load[n] <= load[m]

\* The sets scoredNodes.slice(0, min(3, length)) can hold.
Selections ==
    {S \in SUBSET EligibleNodes :
        /\ \/ Cardinality(S) = MaxNodesPerTask
           \/ S = EligibleNodes /\ Cardinality(S) <= MaxNodesPerTask
        /\ \A n \in S, m \in EligibleNodes \ S : RanksBefore(n, m)}

-----------------------------------------------------------------------------
(***************************************************************************)
(* createTask and assignTask                                               *)
(***************************************************************************)
\* POST /v1/inference: the INSERT of createTask, then assignTask is called.
CreateTask(h, t) ==
    /\ pc[h] = "idle"
    /\ tstatus[t] = "none"
    /\ tstatus' = [tstatus EXCEPT ![t] = "queued"]
    /\ pc' = [pc EXCEPT ![h] = "select"]
    /\ pass' = [pass EXCEPT ![h] = "route"]
    /\ job' = [job EXCEPT ![h] = t]
    /\ UNCHANGED <<nodeVars, assigned, report, missing, todo, culprit, remaining, failures>>

SelectNodes(h) ==
    /\ pc[h] = "select"
    /\ EligibleNodes # {}
    /\ \E S \in Selections : todo' = [todo EXCEPT ![h] = S]
    /\ pc' = [pc EXCEPT ![h] = "write"]
    /\ UNCHANGED <<nodeVars, taskVars, pass, job, culprit, remaining, failures>>

\* Mutant: the request waits for a node instead of failing.
NoEligibleNodesWaits(h) ==
    /\ pc[h] = "select"
    /\ EligibleNodes = {}
    /\ UNCHANGED vars

\* throw 'No eligible nodes available': the request fails; a failure report
\* rolls its transaction back and so leaves the failed node as it was.
NoEligibleNodes(h) ==
    /\ pc[h] = "select"
    /\ EligibleNodes = {}
    /\ pc' = [pc EXCEPT ![h] = "idle"]
    /\ UNCHANGED <<nodeVars, taskVars, localVars, failures>>

WriteAssignment(h) ==
    /\ pc[h] = "write"
    /\ assigned' = [assigned EXCEPT ![job[h]] = todo[h]]
    /\ tstatus' = [tstatus EXCEPT ![job[h]] = "assigned"]
    /\ report' = [report EXCEPT ![job[h]] =
                      [n \in Nodes |-> IF n \in todo[h] THEN "open" ELSE @[n]]]
    /\ pc' = [pc EXCEPT ![h] = "bump"]
    /\ UNCHANGED <<nodeVars, missing, localVars, failures>>

\* Mutant: the loop over the selected nodes stops after the first.
BumpFirstOnly(h, n) ==
    /\ pc[h] = "bump"
    /\ n \in todo[h]
    /\ Unlocked(n)
    /\ load' = [load EXCEPT ![n] = @ + 1]
    /\ todo' = [todo EXCEPT ![h] = {}]
    /\ UNCHANGED <<rep, seen, taskVars, pc, pass, job, culprit, remaining, failures>>

\* UPDATE nodes SET current_load = current_load + 1, one node at a time.
BumpLoad(h, n) ==
    /\ pc[h] = "bump"
    /\ n \in todo[h]
    /\ Unlocked(n)
    /\ load' = [load EXCEPT ![n] = @ + 1]
    /\ todo' = [todo EXCEPT ![h] = @ \ {n}]
    /\ UNCHANGED <<rep, seen, taskVars, pc, pass, job, culprit, remaining, failures>>

\* The route calls taskQueue.enqueue, which assigns the task a second time.
RouteAssigned(h) ==
    /\ pc[h] = "bump" /\ todo[h] = {} /\ pass[h] = "route"
    /\ pass' = [pass EXCEPT ![h] = "enqueue"]
    /\ pc' = [pc EXCEPT ![h] = "select"]
    /\ UNCHANGED <<nodeVars, taskVars, job, todo, culprit, remaining, failures>>

EnqueueAssigned(h) ==
    /\ pc[h] = "bump" /\ todo[h] = {} /\ pass[h] = "enqueue"
    /\ pc' = [pc EXCEPT ![h] = "idle"]
    /\ UNCHANGED <<nodeVars, taskVars, localVars, failures>>

-----------------------------------------------------------------------------
(***************************************************************************)
(* handleTaskFailure and completeTask                                      *)
(***************************************************************************)
\* getNodeByDeviceId finds the node, and the task exists; nothing else is asked
\* of a report, so it may be repeated, or be about a task of other nodes.
MayReport(t, n) == seen[n] # "absent" /\ tstatus[t] # "none"

\* A report takes one off the load of n.  It pays for the +1 of an assignment if
\* n has not reported since it was assigned t, and is surplus if it has.
Settle(t, n, r) ==
    /\ load' = [load EXCEPT ![n] = Relieved(@)]
    /\ report' = [report EXCEPT ![t][n] = r]
    /\ missing' = [missing EXCEPT ![n] = IF report[t][n] = "open" THEN @ ELSE @ + 1]

\* BEGIN; SELECT * FROM tasks, without FOR UPDATE.
BeginFailure(h, t, n) ==
    /\ pc[h] = "idle"
    /\ MayReport(t, n)
    /\ failures < MaxFailures
    /\ failures' = failures + 1
    /\ remaining' = [remaining EXCEPT ![h] = assigned[t] \ {n}]
    /\ job' = [job EXCEPT ![h] = t]
    /\ culprit' = [culprit EXCEPT ![h] = n]
    /\ pass' = [pass EXCEPT ![h] = "reassign"]
    /\ pc' = [pc EXCEPT ![h] = "penalize"]
    /\ UNCHANGED <<nodeVars, taskVars, todo>>

\* UPDATE nodes: takes the row lock; the new values show at COMMIT.
PenalizeNode(h) ==
    /\ pc[h] = "penalize"
    /\ Unlocked(culprit[h])
    /\ pc' = [pc EXCEPT ![h] = IF remaining[h] # {} THEN "commitRemaining" ELSE "select"]
    /\ UNCHANGED <<nodeVars, taskVars, localVars, failures>>

CommitFailure(h) ==
    /\ Settle(job[h], culprit[h], "failed")
    /\ rep' = [rep EXCEPT ![culprit[h]] = Penalized(@)]
    /\ pc' = [pc EXCEPT ![h] = "idle"]

\* Some nodes are still working: UPDATE tasks SET assigned_nodes; COMMIT.
CommitRemaining(h) ==
    /\ pc[h] = "commitRemaining"
    /\ assigned' = [assigned EXCEPT ![job[h]] = remaining[h]]
    /\ CommitFailure(h)
    /\ UNCHANGED <<seen, tstatus, localVars, failures>>

\* assignTask returned: COMMIT.
CommitReassignment(h) ==
    /\ pc[h] = "bump" /\ todo[h] = {} /\ pass[h] = "reassign"
    /\ CommitFailure(h)
    /\ UNCHANGED <<seen, tstatus, assigned, localVars, failures>>

\* completeTask: one transaction, its two writes show together.  A node may
\* complete what it has not been assigned, or complete it again.
CompleteTask(t, n) ==
    /\ MayReport(t, n)
    /\ Unlocked(n)
    /\ \/ report[t][n] = "open" /\ failures' = failures
       \/ report[t][n] # "open" /\ failures < MaxFailures /\ failures' = failures + 1
    /\ Settle(t, n, "completed")
    /\ UNCHANGED <<rep, seen, tstatus, assigned, pc, localVars>>

\* A statement or a connection of h fails and the request ends.  assignTask has
\* no transaction: a load still to be bumped stays as it is, while tasks says
\* that the node is assigned.  A failure report rolls its own transaction back.
StatementFails(h) ==
    /\ pc[h] # "idle"
    /\ failures < MaxFailures
    /\ failures' = failures + 1
    /\ pc' = [pc EXCEPT ![h] = "idle"]
    /\ todo' = [todo EXCEPT ![h] = {}]
    /\ missing' = [n \in Nodes |->
                      missing[n] + IF pc[h] = "bump" /\ n \in todo[h] THEN 1 ELSE 0]
    /\ UNCHANGED <<nodeVars, tstatus, assigned, report, pass, job, culprit, remaining>>

-----------------------------------------------------------------------------
AssignStep(h) ==
    \/ SelectNodes(h)
    \/ NoEligibleNodes(h)
    \/ WriteAssignment(h)
    \/ \E n \in Nodes : BumpLoad(h, n)
    \/ RouteAssigned(h)
    \/ EnqueueAssigned(h)

FailureStep(h) ==
    \/ PenalizeNode(h)
    \/ CommitRemaining(h)
    \/ CommitReassignment(h)

\* What the event loop and the database do for a request already accepted.
HandlerStep(h) == AssignStep(h) \/ FailureStep(h)

NewRequest(h) ==
    \/ \E t \in Tasks : CreateTask(h, t)
    \/ \E t \in Tasks, n \in Nodes : BeginFailure(h, t, n)

NodeStep ==
    \E n \in Nodes :
        \/ RegisterNode(n)
        \/ UpdateNodeHealth(n)
        \/ GoStale(n)
        \/ \E r \in Reputations : UpdateNodeReputation(n, r)
        \/ \E t \in Tasks : CompleteTask(t, n)

Next ==
    \/ \E h \in Handlers : HandlerStep(h) \/ NewRequest(h) \/ StatementFails(h)
    \/ NodeStep

Spec == Init /\ [][Next]_vars
FairSpec == Spec /\ \A h \in Handlers : WF_vars(HandlerStep(h))

-----------------------------------------------------------------------------
(***************************************************************************)
(* Properties                                                              *)
(***************************************************************************)
\* Ranges; current_load never goes negative (GREATEST in the UPDATEs).
TypeOK ==
    /\ load \in [Nodes -> Nat]
    /\ rep \in [Nodes -> Nat]
    /\ seen \in [Nodes -> {"absent", "stale", "fresh"}]
    /\ tstatus \in [Tasks -> {"none", "queued", "assigned"}]
    /\ assigned \in [Tasks -> SUBSET Nodes]
    /\ pc \in [Handlers -> {"idle", "select", "write", "bump", "penalize", "commitRemaining"}]
    /\ pass \in [Handlers -> {"route", "enqueue", "reassign"}]
    /\ job \in [Handlers -> Tasks \union {NoTask}]
    /\ todo \in [Handlers -> SUBSET Nodes]
    /\ culprit \in [Handlers -> Nodes \union {NoNode}]
    /\ remaining \in [Handlers -> SUBSET Nodes]
    /\ report \in [Tasks -> [Nodes -> {"none", "open", "completed", "failed"}]]
    /\ missing \in [Nodes -> Nat]
    /\ failures \in Nat

\* Handlers that chose n and have yet to add to its current_load.
Pending(n) == {h \in Handlers : n \in todo[h]}

\* assignTask checks current_load < max_concurrent_tasks on a read that other
\* requests may outdate.  However they interleave, a node is overcommitted by at
\* most one task per request in flight beyond the first.
OverloadBound ==
    \A n \in Nodes :
        load[n] + Cardinality(Pending(n)) <= Capacity + Cardinality(Handlers) - 1

\* current_load undercounts for two reasons only: reports that settle nothing
\* (repeated, or about a task the node was not given) and increments lost to a
\* failing statement.  Whatever order the +1 of assignTask, the -1 of
\* completeTask and handleTaskFailure, the clamp at 0 and the rollbacks happen
\* in, nothing else makes a node's open tasks exceed its load and what is about
\* to be added to it.
LoadCoversAssignments ==
    \A n \in Nodes :
        Cardinality({t \in Tasks : report[t][n] = "open"})
            <= load[n] + Cardinality(Pending(n)) + missing[n]

\* Failure reports that wait, inside assignTask, for row locks that their own
\* outer transactions hold.  A single report can wait for itself.  The database
\* sees no cycle: the locks and the waits are on different connections.
Deadlocked(D) ==
    /\ D # {}
    /\ \A h \in D :
        /\ pc[h] = "bump" /\ todo[h] # {}
        /\ \A n \in todo[h] : \E g \in D : HoldsRow(g, n)

\* Every request is eventually answered, unless failure reports deadlocked:
\* no other combination of awaits and row locks stops a request.
RequestsFinish ==
    \A h \in Handlers :
        pc[h] # "idle" ~> (pc[h] = "idle" \/ \E D \in SUBSET Handlers : Deadlocked(D))

=============================================================================
