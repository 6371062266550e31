----------------------------- MODULE TaskQueue -----------------------------
(***************************************************************************)
(* The in-memory queue of services/taskQueue.ts: an array, the set         *)
(* `processing`, and promises.  The program is single-threaded, so what    *)
(* runs between two awaits is one step: a push together with the           *)
(* processQueue loop after it, for instance.  What processTask does to the *)
(* database is TaskSettlement; here it returns or throws, having completed *)
(* the task or not.                                                        *)
(***************************************************************************)
EXTENDS Integers, Sequences, FiniteSets

CONSTANTS
    Tasks,          \* ids of the tasks that requests enqueue
    MaxConcurrent,  \* 10
    MaxRetries,     \* 3
    MaxCrashes      \* bound: restarts of the api-server

ASSUME LimitsAssumption == MaxConcurrent \in Nat \ {0} /\ MaxRetries \in Nat

VARIABLES
    queue,      \* this.queue
    processing, \* this.processing
    thrown,     \* tasks whose processTask rejected; the .catch is yet to run
    retries,    \* QueuedTask.retries
    attempts,   \* history: calls of processTask
    tstatus,    \* tasks.status, "none" before the request
    failing,    \* markTaskFailed has been called and awaits its UPDATE
    crashes

vars == <<queue, processing, thrown, retries, attempts, tstatus, failing, crashes>>

Init ==
    /\ queue = <<>> /\ processing = {} /\ thrown = {} /\ failing = {}
    /\ retries = [t \in Tasks |-> 0]
    /\ attempts = [t \in Tasks |-> 0]
    /\ tstatus = [t \in Tasks |-> "none"]
    /\ crashes = 0

Elements(q) == {q[i] : i \in DOMAIN q}
Waiting == Elements(queue)

-----------------------------------------------------------------------------

\* How many of the waiting tasks q the loop of processQueue takes off the queue
\* when p are in process.
Startable(q, p) ==
    IF Len(q) <= MaxConcurrent - Cardinality(p) THEN Len(q) ELSE MaxConcurrent - Cardinality(p)

Started(q, p) == {q[i] : i \in 1 .. Startable(q, p)}

\* What the loop leaves in `processing`, and the calls of processTask it makes.
Start(q, p) ==
    /\ processing' = p \union Started(q, p)
    /\ attempts' = [t \in Tasks |-> IF t \in Started(q, p) THEN attempts[t] + 1 ELSE attempts[t]]

\* Mutant: one shift too many when the loop stops at the limit.
ProcessQueueSkips(q, p) ==
    /\ queue' = SubSeq(q, Startable(q, p) + 2, Len(q))
    /\ Start(q, p)

\* processQueue: shift tasks and start them while there is room.  A task that is
\* already in process would be dropped; QueuedOnce says there is none.
ProcessQueue(q, p) ==
    /\ queue' = SubSeq(q, Startable(q, p) + 1, Len(q))
    /\ Start(q, p)

\* Mutant: a request may enqueue a task that has failed.
EnqueueAgain(t) ==
    /\ tstatus[t] \in {"none", "failed"}
    /\ tstatus' = [tstatus EXCEPT ![t] = "assigned"]
    /\ ProcessQueue(Append(queue, t), processing)
    /\ UNCHANGED <<thrown, retries, failing, crashes>>

\* enqueue, once its own assignTask has succeeded.
Enqueue(t) ==
    /\ tstatus[t] = "none"
    /\ tstatus' = [tstatus EXCEPT ![t] = "assigned"]
    /\ ProcessQueue(Append(queue, t), processing)
    /\ UNCHANGED <<thrown, retries, failing, crashes>>

\* Mutant: a finished task does not start the next one.
ReturnsOnly(t) ==
    /\ t \in processing
    /\ tstatus' = [tstatus EXCEPT ![t] = "completed"]
    /\ processing' = processing \ {t}
    /\ UNCHANGED <<queue, attempts, thrown, retries, failing, crashes>>

\* processTask returns, with or without a consensus, and starts the next task.
Returns(t) ==
    /\ t \in processing
    /\ \E s \in {tstatus[t], "completed", "failed"} : tstatus' = [tstatus EXCEPT ![t] = s]
    /\ ProcessQueue(queue, processing \ {t})
    /\ UNCHANGED <<thrown, retries, failing, crashes>>

\* processTask throws, in runInference, in a statement or while it pays the nodes
\* of a task it has completed.
Throws(t) ==
    /\ t \in processing
    /\ \E s \in {tstatus[t], "completed"} : tstatus' = [tstatus EXCEPT ![t] = s]
    /\ processing' = processing \ {t}
    /\ thrown' = thrown \union {t}
    /\ UNCHANGED <<queue, retries, attempts, failing, crashes>>

\* Mutant: the task is pushed both by processTask and by the .catch.
RetryPushedTwice(t) ==
    /\ t \in thrown /\ retries[t] < MaxRetries
    /\ retries' = [retries EXCEPT ![t] = @ + 1]
    /\ queue' = queue \o <<t, t>>
    /\ thrown' = thrown \ {t}
    /\ processing' = processing \ {t}
    /\ UNCHANGED <<attempts, tstatus, failing, crashes>>

\* The .catch pushes the task back.  It does not call processQueue.
Retry(t) ==
    /\ t \in thrown /\ retries[t] < MaxRetries
    /\ retries' = [retries EXCEPT ![t] = @ + 1]
    /\ queue' = Append(queue, t)
    /\ thrown' = thrown \ {t}
    /\ processing' = processing \ {t}
    /\ UNCHANGED <<attempts, tstatus, failing, crashes>>

\* The .catch gives up and calls markTaskFailed.
GiveUp(t) ==
    /\ t \in thrown /\ retries[t] >= MaxRetries
    /\ thrown' = thrown \ {t}
    /\ processing' = processing \ {t}
    /\ failing' = failing \union {t}
    /\ UNCHANGED <<queue, retries, attempts, tstatus, crashes>>

\* The UPDATE has no condition on the status: it also overwrites 'completed'.
MarkTaskFailed(t) ==
    /\ t \in failing
    /\ tstatus' = [tstatus EXCEPT ![t] = "failed"]
    /\ failing' = failing \ {t}
    /\ UNCHANGED <<queue, processing, thrown, retries, attempts, crashes>>

\* The process restarts: nothing reloads unfinished tasks from the database.
Crash ==
    /\ crashes < MaxCrashes
    /\ crashes' = crashes + 1
    /\ queue' = <<>> /\ processing' = {} /\ thrown' = {} /\ failing' = {}
    /\ UNCHANGED <<retries, attempts, tstatus>>

Settle(t) == Retry(t) \/ GiveUp(t) \/ MarkTaskFailed(t)
Run(t) == Returns(t) \/ Throws(t) \/ Settle(t)

Next ==
    \/ \E t \in Tasks : Enqueue(t) \/ Run(t)
    \/ Crash

Spec == Init /\ [][Next]_vars

\* A started processTask settles, and the microtasks it leaves run.
FairSpec == Spec /\ \A t \in Tasks : WF_vars(Returns(t) \/ Throws(t)) /\ WF_vars(Settle(t))

-----------------------------------------------------------------------------
\* Ranges; the .catch never counts more than maxRetries.
TypeOK ==
    /\ queue \in Seq(Tasks)
    /\ processing \subseteq Tasks /\ thrown \subseteq Tasks /\ failing \subseteq Tasks
    /\ retries \in [Tasks -> 0 .. MaxRetries]
    /\ attempts \in [Tasks -> Nat]
    /\ tstatus \in [Tasks -> {"none", "assigned", "completed", "failed"}]
    /\ crashes \in Nat

\* processQueue silently drops a task that is already in process.  A task waits
\* once, and never while it runs or while its failure is being handled, although
\* both processTask and the .catch take it out of `processing`.
QueuedOnce ==
    /\ \A i, j \in DOMAIN queue : queue[i] = queue[j] => i = j
    /\ Waiting \intersect (processing \union thrown \union failing) = {}
    /\ thrown \intersect (processing \union failing) = {}
    /\ processing \intersect failing = {}

\* No more than maxConcurrent tasks run, and no task runs more than once and
\* maxRetries times again.
Bounded ==
    /\ Cardinality(processing) <= MaxConcurrent
    /\ \A t \in Tasks : attempts[t] <= MaxRetries + 1

\* Without a restart no task is forgotten: until its last attempt has returned or
\* given up it waits, runs or is about to be retried.  retries counts its
\* failures, so what is left of attempts is one attempt that did not throw.
NoTaskForgotten ==
    crashes = 0 =>
        \A t \in Tasks :
            tstatus[t] # "none" /\ attempts[t] <= retries[t] => t \in Waiting

PoolState(t) ==
    CASE t \in Waiting -> "waiting"
      [] t \in processing -> "running"
      [] t \in thrown -> "broken"
      [] tstatus[t] = "none" -> "new"
      [] OTHER -> "done"

Pool == INSTANCE RetryPool WITH
    Jobs <- Tasks, Slots <- MaxConcurrent, MaxAttempts <- MaxRetries + 1,
    state <- [t \in Tasks |-> PoolState(t)], tries <- attempts

\* The array, the set and the promises of the queue are together a pool of retried
\* jobs: the order of pushes, deletes and .catch callbacks starts no task twice.
ImplementsRetryPool == Pool!Spec

\* Every waiting task is eventually started as long as no attempt has thrown: a
\* task that returns, whatever its outcome, passes its slot on.
StartsUnlessThrown ==
    \A t \in Tasks : t \in Waiting ~> (t \notin Waiting \/ \E u \in Tasks : retries[u] > 0)

=============================================================================
