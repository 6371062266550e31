--------------------------- MODULE InferenceJobs ---------------------------
(***************************************************************************)
(* POST /v1/tenant/inference of one organization within one day:           *)
(* routes/tenant.ts with services/quotaService.ts, inferenceJobs.ts,       *)
(* inferenceExecutor.ts and auditUsage.ts.  A handler is a request in      *)
(* flight; it interleaves with the others, and with the executors it       *)
(* leaves behind, at each await.  The tables inference_requests and        *)
(* usage_records survive a restart, handlers and executors do not.         *)
(***************************************************************************)
EXTENDS Integers, FiniteSets

CONSTANTS
    Handlers,   \* concurrent requests
    MaxJobs,    \* bound: rows of inference_requests, numbered as they are inserted
    Keys,       \* idempotency keys
    NoKey,      \* a request without one
    Limit,      \* quota_requests_per_day
    MaxFailures,\* bound: statements that are rejected or time out
    MaxCrashes  \* bound: restarts of the api-server

ASSUME ParametersAssumption ==
    /\ {Limit, MaxJobs, MaxFailures, MaxCrashes} \subseteq Nat
    /\ NoKey \notin Keys
    /\ IsFiniteSet(Handlers) /\ Handlers # {}

Jobs == 1 .. MaxJobs
NoJob == 0

VARIABLES
    pc, key, mine,     \* per handler; mine is the job it has inserted
    status, jobKey,    \* inference_requests, status "none": no such row
    exec,              \* executeInferenceJob, per job
    usage,             \* number of usage_records of the day
    accepted,          \* history: the jobs of the requests answered 202
    failures, crashes

handlerVars == <<pc, key, mine>>
jobVars == <<status, jobKey>>
vars == <<handlerVars, jobVars, exec, usage, accepted, failures, crashes>>

Statuses == {"none", "QUEUED", "RUNNING", "SUCCEEDED", "FAILED"}

Init ==
    /\ pc = [h \in Handlers |-> "idle"] /\ key = [h \in Handlers |-> NoKey]
    /\ mine = [h \in Handlers |-> NoJob]
    /\ status = [j \in Jobs |-> "none"] /\ jobKey = [j \in Jobs |-> NoKey]
    /\ exec = [j \in Jobs |-> "none"]
    /\ usage = 0 /\ accepted = {} /\ failures = 0 /\ crashes = 0

\* The rows that the SELECT of createInferenceJob and the unique index find.
Holders(k) == {j \in Jobs : k # NoKey /\ status[j] # "none" /\ jobKey[j] = k}

\* How the statement a step awaits ends.
Works == UNCHANGED failures
Fails == failures < MaxFailures /\ failures' = failures + 1

Goto(h, l) == pc' = [pc EXCEPT ![h] = l]

\* The handler is through, and its local variables with it.
Leave(h) ==
    /\ Goto(h, "idle")
    /\ key' = [key EXCEPT ![h] = NoKey] /\ mine' = [mine EXCEPT ![h] = NoJob]

-----------------------------------------------------------------------------
\* A request that passes authentication, validation and the model checks.
Receive(h, k) ==
    /\ pc[h] = "idle"
    /\ Goto(h, "quota")
    /\ key' = [key EXCEPT ![h] = k]
    /\ UNCHANGED <<mine, jobVars, exec, usage, accepted, failures, crashes>>

\* Mutant: an off-by-one in the comparison with the limit.
CheckOrganizationQuotaLate(h) ==
    /\ pc[h] = "quota"
    /\ \/ usage > Limit /\ Leave(h)
       \/ usage <= Limit /\ Goto(h, "lookup") /\ UNCHANGED <<key, mine>>
    /\ Works
    /\ UNCHANGED <<jobVars, exec, usage, accepted, crashes>>

\* checkOrganizationQuota counts usage_records; 429 when they reach the limit.
CheckOrganizationQuota(h) ==
    /\ pc[h] = "quota"
    /\ \/ usage >= Limit /\ Leave(h) /\ Works
       \/ usage < Limit /\ Goto(h, "lookup") /\ UNCHANGED <<key, mine>> /\ Works
       \/ Leave(h) /\ Fails
    /\ UNCHANGED <<jobVars, exec, usage, accepted, crashes>>

\* The SELECT of createInferenceJob: a known key is answered with its job, or
\* with 409 when the hash of the payload differs.
LookupKey(h) ==
    /\ pc[h] = "lookup"
    /\ \/ Holders(key[h]) = {} /\ Goto(h, "insert") /\ UNCHANGED <<key, mine>> /\ Works
       \/ Holders(key[h]) # {} /\ Leave(h) /\ Works
       \/ Leave(h) /\ Fails
    /\ UNCHANGED <<jobVars, exec, usage, accepted, crashes>>

\* The row of the next job.
Insert(h) ==
    \E j \in Jobs :
        /\ {i \in Jobs : status[i] = "none"} = j .. MaxJobs
        /\ status' = [status EXCEPT ![j] = "QUEUED"]
        /\ jobKey' = [jobKey EXCEPT ![j] = key[h]]
        /\ mine' = [mine EXCEPT ![h] = j]
        /\ Goto(h, "start") /\ UNCHANGED key /\ Works

\* Mutant: no unique index on (organization_id, idempotency_key).
InsertJobUnindexed(h) ==
    /\ pc[h] = "insert"
    /\ Insert(h)
    /\ UNCHANGED <<exec, usage, accepted, crashes>>

\* Its INSERT and COMMIT.  The unique index rejects a key that a concurrent
\* request has inserted since the SELECT; the handler answers 500.
InsertJob(h) ==
    /\ pc[h] = "insert"
    /\ \/ Holders(key[h]) = {} /\ Insert(h)
       \/ Holders(key[h]) # {} /\ Leave(h) /\ Works /\ UNCHANGED jobVars
       \/ Leave(h) /\ Fails /\ UNCHANGED jobVars
    /\ UNCHANGED <<exec, usage, accepted, crashes>>

\* INFERENCE_STARTED is audited, then 202 and setImmediate.  When the audit fails
\* the answer is 500: the job stays QUEUED and nothing executes it.
StartJob(h) ==
    /\ pc[h] = "start"
    /\ \/ /\ Goto(h, "meter") /\ UNCHANGED <<key, mine>>
          /\ exec' = [exec EXCEPT ![mine[h]] = "start"]
          /\ accepted' = accepted \union {mine[h]}
          /\ Works
       \/ /\ Leave(h) /\ Fails
          /\ UNCHANGED <<exec, accepted>>
    /\ UNCHANGED <<jobVars, usage, crashes>>

\* A restart.  Nothing resumes a QUEUED or RUNNING job.
Restart ==
    /\ pc' = [h \in Handlers |-> "idle"]
    /\ key' = [h \in Handlers |-> NoKey] /\ mine' = [h \in Handlers |-> NoJob]
    /\ exec' = [j \in Jobs |-> IF exec[j] = "none" THEN "none" ELSE "done"]
    /\ crashes' = crashes + 1

\* Mutant: the QUEUED usage record is not written.
MeterNothing(h) ==
    /\ pc[h] = "meter"
    /\ Leave(h) /\ Works
    /\ UNCHANGED <<jobVars, exec, usage, accepted, crashes>>

\* appendUsageRecord(QUEUED), after the answer.  When it fails the catch block
\* answers a second time: that throws in the async handler, and the unhandled
\* rejection ends the process.
Meter(h) ==
    /\ pc[h] = "meter"
    /\ \/ /\ usage' = usage + 1
          /\ Leave(h) /\ Works
          /\ UNCHANGED <<exec, crashes>>
       \/ crashes < MaxCrashes /\ Restart /\ Fails /\ UNCHANGED usage
    /\ UNCHANGED <<jobVars, accepted>>

HandlerStep(h) ==
    CheckOrganizationQuota(h) \/ LookupKey(h) \/ InsertJob(h) \/ StartJob(h) \/ Meter(h)

-----------------------------------------------------------------------------
\* executeInferenceJob.  Proceed and Break are the ways an await ends: the next
\* statement, or the catch block.
Proceed(j, l) == exec' = [exec EXCEPT ![j] = l]
SetStatus(j, s) == status' = [status EXCEPT ![j] = s]

\* The update to RUNNING is outside the try block: its failure is swallowed.
StartExecution(j) ==
    /\ exec[j] = "start"
    /\ \/ SetStatus(j, "RUNNING") /\ Proceed(j, "generate") /\ Works
       \/ Proceed(j, "done") /\ Fails /\ UNCHANGED status
    /\ UNCHANGED <<handlerVars, jobKey, usage, accepted, crashes>>

\* provider.generate answers, or throws: an error, a timeout.
Generate(j) ==
    /\ exec[j] = "generate"
    /\ Proceed(j, "succeed") \/ Proceed(j, "fail")
    /\ UNCHANGED <<handlerVars, jobVars, usage, accepted, failures, crashes>>

MarkSucceeded(j) ==
    /\ exec[j] = "succeed"
    /\ \/ SetStatus(j, "SUCCEEDED") /\ Proceed(j, "usage") /\ Works
       \/ Proceed(j, "fail") /\ Fails /\ UNCHANGED status
    /\ UNCHANGED <<handlerVars, jobKey, usage, accepted, crashes>>

\* appendUsageRecord(SUCCEEDED): the second record of the job.
MeterSuccess(j) ==
    /\ exec[j] = "usage"
    /\ \/ usage' = usage + 1 /\ Proceed(j, "audit") /\ Works
       \/ Proceed(j, "fail") /\ Fails /\ UNCHANGED usage
    /\ UNCHANGED <<handlerVars, jobVars, accepted, crashes>>

\* Mutant: the catch block runs after a success too.
AuditSuccessFallsThrough(j) ==
    /\ exec[j] = "audit"
    /\ Proceed(j, "fail") /\ Works
    /\ UNCHANGED <<handlerVars, jobVars, usage, accepted, crashes>>

AuditSuccess(j) ==
    /\ exec[j] = "audit"
    /\ \/ Proceed(j, "done") /\ Works
       \/ Proceed(j, "fail") /\ Fails
    /\ UNCHANGED <<handlerVars, jobVars, usage, accepted, crashes>>

\* Mutant: the catch block only logs.
MarkFailedNothing(j) ==
    /\ exec[j] = "fail"
    /\ Proceed(j, "done") /\ Works
    /\ UNCHANGED <<handlerVars, jobVars, usage, accepted, crashes>>

\* The catch block: FAILED, whatever the status was, then the audit event, which
\* changes nothing here and whose failure is swallowed.
MarkFailed(j) ==
    /\ exec[j] = "fail"
    /\ Proceed(j, "done")
    /\ \/ SetStatus(j, "FAILED") /\ Works
       \/ Fails /\ UNCHANGED status
    /\ UNCHANGED <<handlerVars, jobKey, usage, accepted, crashes>>

Execute(j) ==
    \/ StartExecution(j) \/ Generate(j) \/ MarkSucceeded(j)
    \/ MeterSuccess(j) \/ AuditSuccess(j) \/ MarkFailed(j)

Crash ==
    /\ crashes < MaxCrashes
    /\ Restart
    /\ UNCHANGED <<jobVars, usage, accepted, failures>>

Next ==
    \/ \E h \in Handlers :
          \/ \E k \in Keys \union {NoKey} : Receive(h, k)
          \/ HandlerStep(h)
    \/ \E j \in Jobs : Execute(j)
    \/ Crash

Spec == Init /\ [][Next]_vars

\* Statements return, provider.generate has a timeout, and microtasks run.
FairSpec ==
    /\ Spec
    /\ \A h \in Handlers : WF_vars(HandlerStep(h))
    /\ \A j \in Jobs : WF_vars(Execute(j))

-----------------------------------------------------------------------------
\* Ranges: every status that the executor and its catch block write is one of the enum.
TypeOK ==
    /\ pc \in [Handlers -> {"idle", "quota", "lookup", "insert", "start", "meter"}]
    /\ key \in [Handlers -> Keys \union {NoKey}]
    /\ mine \in [Handlers -> Jobs \union {NoJob}]
    /\ status \in [Jobs -> Statuses]
    /\ jobKey \in [Jobs -> Keys \union {NoKey}]
    /\ exec \in [Jobs -> {"none", "start", "generate", "succeed", "usage", "audit", "fail", "done"}]
    /\ usage \in Nat /\ accepted \subseteq Jobs
    /\ failures \in 0 .. MaxFailures /\ crashes \in 0 .. MaxCrashes

\* However requests with one idempotency key interleave between the SELECT and
\* the INSERT, one job holds the key; and two accepted requests never share a job.
\* Every status that is written is one of the enum.
OneJobPerKey ==
    /\ TypeOK
    /\ \A i, j \in Jobs : j \in Holders(jobKey[i]) => i = j
    /\ \A g, h \in Handlers :
          g # h /\ pc[g] \in {"start", "meter"} /\ pc[h] \in {"start", "meter"} => mine[g] # mine[h]

\* The race between counting and metering is bounded: the quota is overrun by at
\* most the requests in flight, and by as many again for each restart, which may
\* lose their usage records.
QuotaOverrunBounded ==
    Cardinality(accepted) + 1 <= Limit + Cardinality(Handlers) * (crashes + 1)

\* While nothing fails, every accepted job is metered once when it is accepted
\* and once when it succeeds, whatever overtakes what: the executor often runs
\* before the handler has written its record.
UsageAccounted ==
    failures + crashes = 0 =>
        usage + Cardinality({h \in Handlers : pc[h] = "meter"})
              + Cardinality({j \in Jobs : exec[j] = "usage"})
            = Cardinality(accepted) + Cardinality({j \in Jobs : status[j] = "SUCCEEDED"})

\* A job that has finished keeps its outcome, and a job that runs is never queued
\* again, though no statement of updateInferenceJob looks at the status it
\* replaces; only a failed statement lets the catch block undo a success.
StatusForward ==
    [][\A j \in Jobs :
          status'[j] # status[j] =>
             \/ status[j] = "none" /\ status'[j] = "QUEUED"
             \/ status[j] = "QUEUED" /\ status'[j] = "RUNNING"
             \/ status[j] = "RUNNING" /\ status'[j] \in {"SUCCEEDED", "FAILED"}
             \/ failures > 0 /\ status[j] = "SUCCEEDED" /\ status'[j] = "FAILED"]_vars

\* A request that is answered 202 has its job executed to an outcome, unless a
\* statement fails or the process restarts: nothing else loses the callback.
AcceptedFinishes ==
    \A j \in Jobs :
        j \in accepted ~> (status[j] \in {"SUCCEEDED", "FAILED"} \/ failures + crashes > 0)

=============================================================================
