--------------------------- MODULE TaskSettlement ---------------------------
(***************************************************************************)
(* How one task is settled: the results that POST .../complete and         *)
(* taskQueue.processTask write, verifyTaskResults, which every one of them *)
(* then runs, and the call of distributeNodePayments after a consensus.    *)
(*                                                                         *)
(* Nothing here is in a transaction except completeTask: every statement   *)
(* commits on its own, and the workers interleave at them.                 *)
(* Reputations are left to TaskAssignment, which lets them change freely.  *)
(***************************************************************************)
EXTENDS ResultConsensus

CONSTANTS
    Assigned,       \* tasks.assigned_nodes
    Answers,        \* outputs that runInference may return
    Handlers,       \* .../complete requests in flight at the same time
    MaxRetries,     \* QueuedTask.maxRetries (3)
    MaxReports,     \* bound: reports that nodes send
    MaxFailures,    \* bound: statements and connections that fail
    MaxCrashes      \* bound: restarts of the api-server

Queue == "queue"
Workers == Handlers \union {Queue}

ASSUME AssignedAssumption == Assigned \subseteq Nodes /\ Assigned # {}
ASSUME AnswersAssumption == Answers \subseteq Outputs
ASSUME WorkersAssumption == IsFiniteSet(Handlers) /\ Queue \notin Handlers
ASSUME MaxRetriesAssumption == MaxRetries \in Nat

VARIABLES
    deterministic, \* tasks.model_id is 'whisper'
    status,     \* task_results.verification_status, "none" without a row
    output,     \* task_results.output_data
    tstatus,    \* tasks.status
    consensus,  \* the final_outputs of the rows of consensus_results
    credited,   \* tasks_completed that each node owes to this task
    pc,         \* where each worker awaits
    verdict,    \* what the worker's verification decided
    todo,       \* nodes whose statement is still to run in a loop of the worker
    retries,    \* QueuedTask.retries
    cut,        \* history: a verification ended between its decision and the task's completion
    reports, failures, crashes

workVars == <<pc, verdict, todo>>
bounds == <<cut, reports, failures, crashes>>
vars == <<deterministic, status, output, tstatus, consensus, credited, workVars, retries, bounds>>

NoOutput == "no output"
ASSUME OutputsAssumption == NoOutput \notin Outputs

Init ==
    /\ deterministic \in BOOLEAN
    /\ status = [n \in Nodes |-> "none"]
    /\ output = [n \in Nodes |-> NoOutput]
    /\ tstatus = "assigned"
    /\ consensus = {}
    /\ credited = [n \in Nodes |-> 0]
    /\ pc = [w \in Workers |-> IF w = Queue THEN "queued" ELSE "idle"]
    /\ verdict = [w \in Workers |-> NoVerdict]
    /\ todo = [w \in Workers |-> {}]
    /\ retries = 0 /\ cut = FALSE
    /\ reports = 0 /\ failures = 0 /\ crashes = 0

At(w, l) == pc[w] = l
Goto(w, l) == pc' = [pc EXCEPT ![w] = l]

\* The worker is through, and its local variables with it.
Finished(w) == IF w = Queue THEN "done" ELSE "idle"
Leave(w, l) ==
    /\ Goto(w, l)
    /\ verdict' = [verdict EXCEPT ![w] = NoVerdict]
    /\ todo' = [todo EXCEPT ![w] = {}]

\* One pass of a loop over nodes, with a statement for node n.
Loop(w, n) ==
    /\ n \in todo[w]
    /\ todo' = [todo EXCEPT ![w] = @ \ {n}]

-----------------------------------------------------------------------------
(***************************************************************************)
(* Results arrive                                                          *)
(***************************************************************************)

\* INSERT ... ON CONFLICT DO UPDATE: the status of an existing row stays.
Record(n, o) ==
    /\ output' = [output EXCEPT ![n] = o]
    /\ status' = [status EXCEPT ![n] = IF @ = "none" THEN "pending" ELSE @]

\* POST /v1/nodes/tasks/:taskId/complete; the node need not be assigned.
Report(h, n, o) ==
    /\ At(h, "idle")
    /\ reports < MaxReports
    /\ reports' = reports + 1
    /\ Record(n, o)
    /\ Goto(h, "select")
    /\ UNCHANGED <<tstatus, consensus, credited, verdict, todo, retries, cut,
                   failures, crashes>>

\* processTask: one inference, whose output stands for every assigned node.
RunInference(o) ==
    /\ At(Queue, "queued")
    /\ Goto(Queue, "insert")
    /\ verdict' = [verdict EXCEPT ![Queue] = [reached |-> FALSE, output |-> o]]
    /\ todo' = [todo EXCEPT ![Queue] = Assigned]
    /\ UNCHANGED <<status, output, tstatus, consensus, credited, retries, bounds>>

InsertResult(n) ==
    /\ At(Queue, "insert") /\ Loop(Queue, n)
    /\ Record(n, verdict[Queue].output)
    /\ Goto(Queue, IF todo[Queue] = {n} THEN "select" ELSE "insert")
    /\ UNCHANGED <<tstatus, consensus, credited, verdict, retries, bounds>>

\* processTask threw: it is queued again, and after maxRetries marked failed.
QueueThrows ==
    \/ /\ retries < MaxRetries
       /\ retries' = retries + 1
       /\ Leave(Queue, "queued")
       /\ UNCHANGED tstatus
    \/ /\ retries = MaxRetries
       /\ Leave(Queue, "done")
       /\ tstatus' = "failed"
       /\ UNCHANGED retries

InferenceFails ==
    /\ At(Queue, "queued")
    /\ QueueThrows
    /\ UNCHANGED <<status, output, consensus, credited, bounds>>

-----------------------------------------------------------------------------
(***************************************************************************)
(* verifyTaskResults                                                       *)
(***************************************************************************)
Pending == {n \in Nodes : status[n] = "pending"}

\* SELECT ... without ORDER BY: the pending rows in any order.
PendingRows ==
    {rs \in [1 .. Cardinality(Pending) -> {[node |-> n, output |-> output[n]] : n \in Pending}] :
        Reporters(rs) = Pending}

Consensus(rs) == IF deterministic THEN DeterministicVerdict(rs) ELSE NonDeterministicVerdict(rs)
Decide(rs) == IF Consensus(rs).reached THEN Consensus(rs) ELSE TiebreakVerdict(rs)

\* verifyTaskResults returns { consensus: false }.
NothingPending(w) ==
    /\ At(w, "select") /\ Pending = {}
    /\ Leave(w, Finished(w))
    /\ UNCHANGED <<status, output, tstatus, consensus, credited, retries, bounds>>

SelectPending(w) ==
    /\ At(w, "select") /\ Pending # {}
    /\ \E rs \in PendingRows :
        /\ verdict' = [verdict EXCEPT ![w] = Decide(rs)]
        /\ Goto(w, IF Consensus(rs).reached THEN "mark" ELSE "tiebreak")
    /\ UNCHANGED <<status, output, tstatus, consensus, credited, todo, retries, bounds>>

\* Mutant: the agreeing nodes' rows are left as they are.
MarkRejectedOnly(w) ==
    /\ At(w, "mark")
    /\ status' = [n \in Nodes |->
                    IF status[n] = "none" \/ n \in verdict[w].agreeing
                    THEN status[n] ELSE "rejected"]
    /\ todo' = [todo EXCEPT ![w] = verdict[w].agreeing]
    /\ Goto(w, "credit")
    /\ UNCHANGED <<output, tstatus, consensus, credited, verdict, retries, bounds>>

\* UPDATE task_results ... WHERE task_id: every row of the task, also those that
\* an earlier verification decided and those that arrived since the SELECT.
MarkResults(w) ==
    /\ At(w, "mark")
    /\ status' = [n \in Nodes |->
                    IF status[n] = "none" THEN "none"
                    ELSE IF n \in verdict[w].agreeing THEN "verified" ELSE "rejected"]
    /\ todo' = [todo EXCEPT ![w] = verdict[w].agreeing]
    /\ Goto(w, "credit")
    /\ UNCHANGED <<output, tstatus, consensus, credited, verdict, retries, bounds>>

\* UPDATE nodes SET tasks_completed = tasks_completed + 1, node by node.
Credit(w, n) ==
    /\ At(w, "credit") /\ Loop(w, n)
    /\ credited' = [credited EXCEPT ![n] = @ + 1]
    /\ Goto(w, IF todo[w] = {n} THEN "save" ELSE "credit")
    /\ UNCHANGED <<status, output, tstatus, consensus, verdict, retries, bounds>>

\* runTiebreaker with fewer than two nodes of reputation 70 to spare.
TiebreakFails(w) ==
    /\ At(w, "tiebreak")
    /\ tstatus' = "failed"
    /\ Leave(w, Finished(w))
    /\ UNCHANGED <<status, output, consensus, credited, retries, bounds>>

\* The results stay 'pending'.
TiebreakDecides(w) ==
    /\ At(w, "tiebreak")
    /\ Goto(w, "save")
    /\ UNCHANGED <<status, output, tstatus, consensus, credited, verdict, todo, retries,
                   bounds>>

\* Mutant: the task is marked completed before its consensus row is saved.
SaveAfterCompleting(w) ==
    /\ At(w, "save")
    /\ IF tstatus = "completed"
       THEN consensus' = consensus \union {verdict[w].output} /\ Goto(w, "complete") /\ UNCHANGED tstatus
       ELSE tstatus' = "completed" /\ UNCHANGED <<consensus, pc>>
    /\ UNCHANGED <<status, output, credited, verdict, todo, retries, bounds>>

\* Mutant: verification returns once the consensus row is saved.
SaveOnly(w) ==
    /\ At(w, "save")
    /\ consensus' = consensus \union {verdict[w].output}
    /\ Leave(w, Finished(w))
    /\ UNCHANGED <<status, output, tstatus, credited, retries, bounds>>

\* INSERT INTO consensus_results
SaveConsensus(w) ==
    /\ At(w, "save")
    /\ consensus' = consensus \union {verdict[w].output}
    /\ Leave(w, "complete")
    /\ UNCHANGED <<status, output, tstatus, credited, retries, bounds>>

\* UPDATE tasks SET status = 'completed'
MarkCompleted(w) ==
    /\ At(w, "complete")
    /\ tstatus' = "completed"
    /\ Goto(w, "pay")
    /\ UNCHANGED <<status, output, consensus, credited, verdict, todo, retries, bounds>>

-----------------------------------------------------------------------------
\* distributeNodePayments, and the queue before it, select tasks.user_id, a column
\* that no schema or migration of the repository creates: the SELECT throws.
PaymentThrows(w) ==
    /\ At(w, "pay")
    /\ IF w = Queue THEN QueueThrows
       ELSE Leave(w, "idle") /\ UNCHANGED <<tstatus, retries>>
    /\ UNCHANGED <<status, output, consensus, credited, bounds>>

\* w has decided, and as a rule marked the results, but not marked the task yet.
Settling(w) == pc[w] \in {"credit", "save", "complete"}

\* A statement of w fails, or it gets no connection: updateNodeReputation takes
\* another one for every node.  Nothing is rolled back.  The error reaches the
\* route, which answers 500, or the queue, which runs the task again.
StatementFails(w) ==
    /\ pc[w] \in {"insert", "select", "mark", "credit", "tiebreak", "save", "complete"}
    /\ failures < MaxFailures
    /\ failures' = failures + 1
    /\ cut' = (cut \/ Settling(w))
    /\ IF w = Queue THEN QueueThrows
       ELSE Leave(w, "idle") /\ UNCHANGED <<tstatus, retries>>
    /\ UNCHANGED <<status, output, consensus, credited, reports, crashes>>

\* The process restarts: requests and the in-memory queue are gone.
Crash ==
    /\ crashes < MaxCrashes
    /\ crashes' = crashes + 1
    /\ pc' = [w \in Workers |-> Finished(w)]
    /\ verdict' = [w \in Workers |-> NoVerdict]
    /\ todo' = [w \in Workers |-> {}]
    /\ cut' = (cut \/ \E w \in Workers : Settling(w))
    /\ UNCHANGED <<status, output, tstatus, consensus, credited, retries, reports, failures>>

-----------------------------------------------------------------------------
VerifyStep(w) ==
    \/ NothingPending(w) \/ SelectPending(w) \/ MarkResults(w)
    \/ \E n \in Nodes : Credit(w, n)
    \/ TiebreakFails(w) \/ TiebreakDecides(w)
    \/ SaveConsensus(w) \/ MarkCompleted(w) \/ PaymentThrows(w)

QueueStep ==
    \/ \E o \in Answers : RunInference(o)
    \/ \E n \in Nodes : InsertResult(n)
    \/ InferenceFails

Step ==
    \/ \E h \in Handlers, n \in Nodes, o \in Outputs : Report(h, n, o)
    \/ \E w \in Workers : VerifyStep(w) \/ StatementFails(w)
    \/ QueueStep
    \/ Crash

\* A task keeps its model.
Next == Step /\ UNCHANGED deterministic

Spec == Init /\ [][Next]_vars

\* The event loop and the database go on with what was started.
FairSpec == Spec /\ \A w \in Workers : WF_vars(VerifyStep(w) /\ UNCHANGED deterministic)

-----------------------------------------------------------------------------
\* Ranges; a row of task_results has an output exactly when it has a status.
TypeOK ==
    /\ status \in [Nodes -> {"none", "pending", "verified", "rejected"}]
    /\ output \in [Nodes -> Outputs \union {NoOutput}]
    /\ \A n \in Nodes : status[n] = "none" <=> output[n] = NoOutput
    /\ tstatus \in {"assigned", "completed", "failed"} /\ consensus \subseteq Outputs
    /\ credited \in [Nodes -> Nat] /\ deterministic \in BOOLEAN
    /\ pc \in [Workers -> {"idle", "queued", "insert", "select", "mark", "credit", "tiebreak",
                           "save", "complete", "pay", "done"}]
    /\ todo \in [Workers -> SUBSET Nodes]
    /\ retries \in 0 .. MaxRetries

\* GET /v1/tasks/:taskId serves the result of a completed task: whatever the
\* interleaving and wherever a crash falls, a completed task has one to serve; variables keep their ranges.
CompletedHasResult == TypeOK /\ (tstatus = "completed" => consensus # {})

\* Each verification selects only pending results and marks them, so however
\* often a task is verified, a node is credited once per verification that ran
\* at the same time, and never again later.
CreditBound ==
    \A n \in Nodes :
        credited[n] + Cardinality({w \in Workers : pc[w] = "credit" /\ n \in todo[w]})
            <= Cardinality(Workers)

\* Once a result is marked verified the task is settled, although the marking, the
\* credits and the consensus row are separate statements, each with a connection
\* that may fail; only a verification that is ended between them, by its own error
\* or by a restart, leaves it unsettled, and no retry of the queue repairs that.
VerifiedSettles ==
    (\E n \in Nodes : status[n] = "verified") ~> (tstatus # "assigned" \/ cut)

\* The same as an invariant: a task with verified results that is still to be settled
\* is in the hands of a worker.
VerifiedIsHeld ==
    (\E n \in Nodes : status[n] = "verified") /\ tstatus = "assigned" /\ ~cut
        => \E w \in Workers : Settling(w)

\* A deterministic consensus is reached exactly when two thirds of the nodes that are pending,
\* counted at 66%, reported one output, and the penalised nodes reported another; the query has
\* no ORDER BY, and the verdict does not depend on the order of the rows.
DeterministicDecision ==
    deterministic /\ Pending # {} =>
        \A rs \in PendingRows :
            LET v == DeterministicVerdict(rs)
                backers(o) == {n \in Pending : Trimmed[output[n]] = o} IN
            /\ v.reached <=>
                  \E o \in Outputs : 100 * Cardinality(backers(o)) >= 66 * Cardinality(Pending)
            /\ v.reached => v.agreeing = backers(v.output)
            /\ \A qs \in PendingRows : DeterministicVerdict(qs) = v

\* Pairs of pending nodes that reported similar outputs.
SimilarPairs ==
    {p \in SUBSET Pending :
        \E n, m \in p : n # m /\ p = {n, m} /\ <<output[n], output[m]>> \in Similar}

\* The similarity rule asks for a cluster of two thirds of the results, but its greedy clusters
\* never grow past a pair: two or three results of which two are similar meet it, in whatever
\* order the query returns them.  Which pair is credited, and so who is penalised, is up to that
\* order: each similar pair is credited in some order, and no other set of nodes in any.
SimilarityDecision ==
    ~deterministic /\ Pending # {} =>
        LET verdicts == {NonDeterministicVerdict(rs) : rs \in PendingRows} IN
        IF Cardinality(Pending) \in {2, 3} /\ SimilarPairs # {}
        THEN /\ \A v \in verdicts : v.reached /\ v.disagreeing = Pending \ v.agreeing
             /\ {v.agreeing : v \in verdicts} = SimilarPairs
        ELSE verdicts = {NoVerdict}

=============================================================================
