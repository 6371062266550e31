------------------------ MODULE InferenceJobs_proofs ------------------------
(***************************************************************************)
(* Proofs about InferenceJobs for every number of requests in flight, of   *)
(* jobs, of failures and of restarts.                                      *)
(***************************************************************************)
EXTENDS InferenceJobs, FiniteSetTheorems, TLAPS

USE DEF handlerVars, jobVars

\* The bounds are natural numbers, and no job has the number of no job.
LEMMA Numbers ==
    /\ Limit \in Nat /\ MaxJobs \in Nat /\ MaxFailures \in Nat /\ MaxCrashes \in Nat
    /\ Jobs \subseteq Nat /\ NoJob \notin Jobs
  BY ParametersAssumption DEF Jobs, NoJob

\* How a statement ends moves the count of failures by at most one, within its bound.
LEMMA FailuresCount ==
    ASSUME failures \in 0 .. MaxFailures, Works \/ Fails
    PROVE  failures' \in 0 .. MaxFailures /\ failures' >= failures /\ (Fails => failures' > 0)
  BY Numbers DEF Works, Fails

-----------------------------------------------------------------------------
(***************************************************************************)
(* The inductive invariant.                                                *)
(***************************************************************************)
Labels == {"idle", "quota", "lookup", "insert", "start", "meter"}
Places == {"none", "start", "generate", "succeed", "usage", "audit", "fail", "done"}

\* A row has a key of its own, and a job that is not there has none.
Keyed ==
    /\ \A i, j \in Jobs : j \in Holders(jobKey[i]) => i = j
    /\ \A j \in Jobs : status[j] = "none" => jobKey[j] = NoKey

\* A handler past its INSERT has a job to itself, which nothing executes before it has answered.
Owned(h) ==
    /\ mine[h] \in Jobs /\ status[mine[h]] # "none"
    /\ pc[h] = "start" => /\ status[mine[h]] = "QUEUED" /\ exec[mine[h]] = "none"
                          /\ mine[h] \notin accepted
    /\ \A g \in Handlers : g # h /\ pc[g] \in {"start", "meter"} => mine[g] # mine[h]

\* Where an executor is tells the status of its job; only after a failure does the catch block
\* meet a success.
Phase(j) ==
    /\ exec[j] = "none" => status[j] \in {"none", "QUEUED"} /\ j \notin accepted
    /\ exec[j] = "start" => status[j] = "QUEUED"
    /\ exec[j] \in {"generate", "succeed"} => status[j] = "RUNNING"
    /\ exec[j] \in {"usage", "audit"} => status[j] = "SUCCEEDED"
    /\ exec[j] = "fail" => \/ status[j] = "RUNNING"
                           \/ status[j] = "SUCCEEDED" /\ failures > 0
    /\ exec[j] = "done" => status[j] # "none"

JobsInv ==
    /\ TypeOK
    /\ Keyed
    /\ \A h \in Handlers : pc[h] \in {"start", "meter"} => Owned(h)
    /\ \A j \in Jobs : Phase(j)

\* Steps that write no row and accept no request: handlers move on or leave, executors may stop.
LEMMA QuietKeeps ==
    ASSUME JobsInv, UNCHANGED <<jobVars, accepted>>,
           pc' \in [Handlers -> Labels], key' \in [Handlers -> Keys \union {NoKey}],
           mine' \in [Handlers -> Jobs \union {NoJob}], exec' \in [Jobs -> Places],
           usage' \in Nat, crashes' \in 0 .. MaxCrashes, Works \/ Fails,
           \A h \in Handlers : pc'[h] \in {"start", "meter"} => pc'[h] = pc[h] /\ mine'[h] = mine[h],
           \A j \in Jobs : exec'[j] = exec[j] \/ (exec[j] # "none" /\ exec'[j] = "done")
    PROVE  JobsInv'
<1>1. failures' \in 0 .. MaxFailures /\ failures' >= failures
  BY FailuresCount DEF JobsInv, TypeOK
<1>2. TypeOK'
  BY <1>1 DEF JobsInv, TypeOK, Labels, Places
<1>3. Keyed'
  BY DEF JobsInv, Keyed, Holders
<1>4. ASSUME NEW h \in Handlers, pc'[h] \in {"start", "meter"} PROVE Owned(h)'
  <2>1. pc'[h] = pc[h] /\ mine'[h] = mine[h] /\ Owned(h)
    BY <1>4 DEF JobsInv
  <2>2. pc[h] = "start" => exec'[mine[h]] = "none"
    BY <2>1 DEF Owned
  <2>3. ASSUME NEW g \in Handlers, g # h, pc'[g] \in {"start", "meter"} PROVE mine'[g] # mine'[h]
    BY <2>1, <2>3 DEF Owned
  <2> QED BY <2>1, <2>2, <2>3 DEF Owned
<1>5. ASSUME NEW j \in Jobs PROVE Phase(j)'
  <2>1. Phase(j)
    BY DEF JobsInv
  <2>2. CASE exec'[j] = exec[j]
    <3>1. failures > 0 => failures' > 0
      BY <1>1 DEF JobsInv, TypeOK
    <3> QED BY <2>1, <2>2, <3>1 DEF Phase
  <2>3. CASE exec[j] # "none" /\ exec'[j] = "done"
    <3>1. status[j] # "none"
      BY <2>1, <2>3 DEF Phase, JobsInv, TypeOK
    <3> QED BY <2>3, <3>1 DEF Phase
  <2> QED BY <2>2, <2>3
<1> QED BY <1>2, <1>3, <1>4, <1>5 DEF JobsInv

\* The INSERT takes the next row, for a key that no row has.
LEMMA InsertKeeps ==
    ASSUME JobsInv, NEW h \in Handlers, pc[h] = "insert", Holders(key[h]) = {}, Insert(h),
           UNCHANGED <<exec, usage, accepted, crashes>>
    PROVE  JobsInv'
<1>1. PICK j \in Jobs : /\ {i \in Jobs : status[i] = "none"} = j .. MaxJobs
                        /\ status' = [status EXCEPT ![j] = "QUEUED"]
                        /\ jobKey' = [jobKey EXCEPT ![j] = key[h]]
                        /\ mine' = [mine EXCEPT ![h] = j]
                        /\ pc' = [pc EXCEPT ![h] = "start"] /\ UNCHANGED <<key, failures>>
  BY DEF Insert, Goto, Works
<1>2. status[j] = "none" /\ jobKey[j] = NoKey /\ exec[j] = "none" /\ j \notin accepted
  <2>1. j \in j .. MaxJobs
    BY Numbers DEF Jobs
  <2>2. status[j] = "none"
    BY <1>1, <2>1
  <2>3. Phase(j) /\ exec[j] \in Places
    BY DEF JobsInv, TypeOK, Places
  <2>4. exec[j] = "none"
    BY <2>2, <2>3 DEF Phase, Places
  <2> QED BY <2>2, <2>3, <2>4 DEF Phase, JobsInv, Keyed
<1>3. TypeOK'
  BY <1>1 DEF JobsInv, TypeOK, Statuses
<1>4. Keyed'
  <2>1. ASSUME NEW a \in Jobs, NEW b \in Jobs, b \in Holders(jobKey[a])' PROVE a = b
    <3>1. jobKey'[a] # NoKey /\ status'[b] # "none" /\ jobKey'[b] = jobKey'[a]
      BY <2>1 DEF Holders
    <3>2. \A i \in Jobs \ {j} : jobKey'[i] = jobKey[i] /\ status'[i] = status[i]
      BY <1>1 DEF JobsInv, TypeOK
    <3>3. jobKey'[j] = key[h]
      BY <1>1 DEF JobsInv, TypeOK
    <3>4. CASE a # j /\ b # j
      BY <3>1, <3>2, <3>4 DEF JobsInv, Keyed, Holders
    <3>5. CASE a = j /\ b # j
      BY <3>1, <3>2, <3>3, <3>5 DEF Holders
    <3>6. CASE a # j /\ b = j
      <4>1. status[a] # "none"
        BY <3>1, <3>2, <3>6 DEF JobsInv, Keyed
      <4> QED BY <3>1, <3>2, <3>3, <3>6, <4>1 DEF Holders
    <3> QED BY <3>4, <3>5, <3>6
  <2>2. ASSUME NEW i \in Jobs, status'[i] = "none" PROVE jobKey'[i] = NoKey
    BY <1>1, <2>2 DEF JobsInv, TypeOK, Keyed
  <2> QED BY <2>1, <2>2 DEF Keyed
<1>5. ASSUME NEW g \in Handlers, pc'[g] \in {"start", "meter"} PROVE Owned(g)'
  <2>1. \A f \in Handlers \ {h} : pc'[f] = pc[f] /\ mine'[f] = mine[f]
    BY <1>1 DEF JobsInv, TypeOK
  <2>2. pc'[h] = "start" /\ mine'[h] = j /\ status'[j] = "QUEUED"
    BY <1>1 DEF JobsInv, TypeOK
  <2>3. ASSUME NEW f \in Handlers \ {h}, pc[f] \in {"start", "meter"}
        PROVE  Owned(f) /\ mine[f] # j /\ status'[mine[f]] = status[mine[f]]
    <3>1. Owned(f)
      BY <2>3 DEF JobsInv
    <3> QED BY <1>1, <1>2, <3>1 DEF Owned, JobsInv, TypeOK
  <2>4. CASE g = h
    BY <1>2, <2>1, <2>2, <2>3, <2>4 DEF Owned
  <2>5. CASE g # h
    <3>1. Owned(g) /\ mine'[g] = mine[g] /\ pc'[g] = pc[g] /\ mine[g] # j
          /\ status'[mine[g]] = status[mine[g]]
      BY <1>5, <2>1, <2>3, <2>5
    <3>2. ASSUME NEW f \in Handlers, f # g, pc'[f] \in {"start", "meter"} PROVE mine'[f] # mine'[g]
      BY <2>1, <2>2, <3>1, <3>2 DEF Owned
    <3> QED BY <3>1, <3>2 DEF Owned
  <2> QED BY <2>4, <2>5
<1>6. ASSUME NEW i \in Jobs PROVE Phase(i)'
  <2>1. Phase(i) /\ (i # j => status'[i] = status[i]) /\ (i = j => status'[i] = "QUEUED")
    BY <1>1 DEF JobsInv, TypeOK
  <2> QED BY <1>1, <1>2, <2>1 DEF Phase
<1> QED BY <1>3, <1>4, <1>5, <1>6 DEF JobsInv

\* 202: the callback of setImmediate takes the job up.
LEMMA AcceptKeeps ==
    ASSUME JobsInv, NEW h \in Handlers, pc[h] = "start",
           pc' = [pc EXCEPT ![h] = "meter"], exec' = [exec EXCEPT ![mine[h]] = "start"],
           accepted' = accepted \union {mine[h]},
           UNCHANGED <<key, mine, jobVars, usage, failures, crashes>>
    PROVE  JobsInv'
<1>1. Owned(h) /\ mine[h] \in Jobs /\ status[mine[h]] = "QUEUED"
  BY DEF JobsInv, Owned
<1>2. TypeOK'
  BY <1>1 DEF JobsInv, TypeOK
<1>3. Keyed'
  BY DEF JobsInv, Keyed, Holders
<1>4. ASSUME NEW g \in Handlers, pc'[g] \in {"start", "meter"} PROVE Owned(g)'
  <2>1. pc[g] \in {"start", "meter"} /\ (pc'[g] = "start" => g # h /\ pc[g] = "start")
    BY <1>4 DEF JobsInv, TypeOK
  <2>2. Owned(g)
    BY <2>1 DEF JobsInv
  <2>3. pc'[g] = "start" => mine[g] # mine[h]
    BY <1>1, <2>1 DEF Owned
  <2>4. pc'[g] = "start" => exec'[mine[g]] = "none" /\ mine[g] \notin accepted'
    BY <2>1, <2>2, <2>3 DEF Owned, JobsInv, TypeOK
  <2>5. ASSUME NEW f \in Handlers, f # g, pc'[f] \in {"start", "meter"} PROVE mine[f] # mine[g]
    <3>1. pc[f] \in {"start", "meter"}
      BY <2>5 DEF JobsInv, TypeOK
    <3> QED BY <2>2, <2>5, <3>1 DEF Owned
  <2> QED BY <2>1, <2>2, <2>4, <2>5 DEF Owned
<1>5. ASSUME NEW j \in Jobs PROVE Phase(j)'
  <2>1. Phase(j) /\ (j # mine[h] => exec'[j] = exec[j]) /\ (j = mine[h] => exec'[j] = "start")
    BY DEF JobsInv, TypeOK
  <2> QED BY <1>1, <2>1 DEF Phase
<1> QED BY <1>2, <1>3, <1>4, <1>5 DEF JobsInv

-----------------------------------------------------------------------------
\* What a step of an executor writes, and when.
LEMMA ExecuteWrites ==
    ASSUME JobsInv, NEW j \in Jobs, Execute(j)
    PROVE  /\ UNCHANGED <<handlerVars, jobKey, accepted, crashes>> /\ (Works \/ Fails)
           /\ \E l \in Places, s \in Statuses :
                /\ exec' = [exec EXCEPT ![j] = l] /\ status' = [status EXCEPT ![j] = s]
                /\ \/ exec[j] = "start" /\ l = "generate" /\ s = "RUNNING" /\ usage' = usage
                   \/ exec[j] = "start" /\ l = "done" /\ s = status[j] /\ usage' = usage
                   \/ exec[j] = "generate" /\ l \in {"succeed", "fail"} /\ s = status[j] /\ usage' = usage
                   \/ exec[j] = "succeed" /\ l = "usage" /\ s = "SUCCEEDED" /\ usage' = usage
                   \/ exec[j] = "succeed" /\ l = "fail" /\ s = status[j] /\ usage' = usage /\ Fails
                   \/ exec[j] = "usage" /\ l = "audit" /\ s = status[j] /\ usage' = usage + 1
                   \/ exec[j] = "usage" /\ l = "fail" /\ s = status[j] /\ usage' = usage /\ Fails
                   \/ exec[j] = "audit" /\ l = "done" /\ s = status[j] /\ usage' = usage
                   \/ exec[j] = "audit" /\ l = "fail" /\ s = status[j] /\ usage' = usage /\ Fails
                   \/ exec[j] = "fail" /\ l = "done" /\ s \in {"FAILED", status[j]} /\ usage' = usage
<1> USE DEF Proceed, SetStatus, Places, Statuses
<1>1. status \in [Jobs -> Statuses] /\ [status EXCEPT ![j] = status[j]] = status
  BY DEF JobsInv, TypeOK
<1>2. CASE StartExecution(j)
  BY <1>1, <1>2 DEF StartExecution
<1>3. CASE Generate(j)
  BY <1>1, <1>3 DEF Generate, Works
<1>4. CASE MarkSucceeded(j)
  BY <1>1, <1>4 DEF MarkSucceeded
<1>5. CASE MeterSuccess(j)
  BY <1>1, <1>5 DEF MeterSuccess
<1>6. CASE AuditSuccess(j)
  BY <1>1, <1>6 DEF AuditSuccess
<1>7. CASE MarkFailed(j)
  BY <1>1, <1>7 DEF MarkFailed
<1> QED BY <1>2, <1>3, <1>4, <1>5, <1>6, <1>7 DEF Execute

\* The executor of one job leaves the other jobs, and the requests, alone.
LEMMA ExecuteKeeps ==
    ASSUME JobsInv, NEW j \in Jobs, Execute(j)
    PROVE  JobsInv'
<1>1. UNCHANGED <<handlerVars, jobKey, accepted, crashes>> /\ (Works \/ Fails)
  BY ExecuteWrites
<1>2. PICK l \in Places, s \in Statuses :
        /\ exec' = [exec EXCEPT ![j] = l] /\ status' = [status EXCEPT ![j] = s]
        /\ \/ exec[j] = "start" /\ l = "generate" /\ s = "RUNNING" /\ usage' = usage
           \/ exec[j] = "start" /\ l = "done" /\ s = status[j] /\ usage' = usage
           \/ exec[j] = "generate" /\ l \in {"succeed", "fail"} /\ s = status[j] /\ usage' = usage
           \/ exec[j] = "succeed" /\ l = "usage" /\ s = "SUCCEEDED" /\ usage' = usage
           \/ exec[j] = "succeed" /\ l = "fail" /\ s = status[j] /\ usage' = usage /\ Fails
           \/ exec[j] = "usage" /\ l = "audit" /\ s = status[j] /\ usage' = usage + 1
           \/ exec[j] = "usage" /\ l = "fail" /\ s = status[j] /\ usage' = usage /\ Fails
           \/ exec[j] = "audit" /\ l = "done" /\ s = status[j] /\ usage' = usage
           \/ exec[j] = "audit" /\ l = "fail" /\ s = status[j] /\ usage' = usage /\ Fails
           \/ exec[j] = "fail" /\ l = "done" /\ s \in {"FAILED", status[j]} /\ usage' = usage
  BY ExecuteWrites
<1>3. /\ failures' \in 0 .. MaxFailures /\ failures' >= failures /\ failures \in Nat
      /\ (Fails => failures' > 0)
  BY <1>1, FailuresCount, Numbers DEF JobsInv, TypeOK
<1>4. exec[j] # "none" /\ l # "none" /\ status[j] # "none" /\ s # "none"
  <2>1. Phase(j)
    BY DEF JobsInv
  <2>2. exec[j] # "none" /\ l # "none"
    BY <1>2
  <2>3. status[j] # "none"
    BY <1>2, <2>1 DEF Phase
  <2> QED BY <1>2, <2>2, <2>3
<1>5. TypeOK'
  <2>1. usage' \in Nat
    BY <1>2 DEF JobsInv, TypeOK
  <2>2. exec' \in [Jobs -> Places] /\ status' \in [Jobs -> Statuses]
    BY <1>2 DEF JobsInv, TypeOK, Places
  <2> QED BY <1>1, <1>3, <2>1, <2>2 DEF JobsInv, TypeOK, Places
<1>6. \A i \in Jobs : status'[i] = "none" <=> status[i] = "none"
  BY <1>2, <1>4 DEF JobsInv, TypeOK
<1>7. Keyed'
  BY <1>1, <1>6 DEF JobsInv, Keyed, Holders
<1>8. ASSUME NEW h \in Handlers, pc'[h] \in {"start", "meter"} PROVE Owned(h)'
  <2>1. Owned(h) /\ pc' = pc /\ mine' = mine
    BY <1>1, <1>8 DEF JobsInv
  <2>2. pc[h] = "start" => mine[h] # j
    BY <1>4, <2>1 DEF Owned
  <2>3. pc[h] = "start" => exec'[mine[h]] = exec[mine[h]] /\ status'[mine[h]] = status[mine[h]]
    BY <1>2, <2>1, <2>2 DEF Owned, JobsInv, TypeOK
  <2>4. status'[mine[h]] # "none"
    BY <1>6, <2>1 DEF Owned
  <2> QED BY <1>1, <2>1, <2>3, <2>4 DEF Owned
<1>9. ASSUME NEW i \in Jobs PROVE Phase(i)'
  <2>1. Phase(i)
    BY DEF JobsInv
  <2>2. CASE i # j
    <3>1. exec'[i] = exec[i] /\ status'[i] = status[i]
      BY <1>2, <2>2 DEF JobsInv, TypeOK
    <3>2. failures > 0 => failures' > 0
      BY <1>3
    <3> QED BY <1>1, <2>1, <3>1, <3>2 DEF Phase
  <2>3. CASE i = j
    <3>1. exec'[i] = l /\ status'[i] = s
      BY <1>2, <2>3 DEF JobsInv, TypeOK
    <3> QED BY <1>2, <1>3, <1>4, <2>1, <2>3, <3>1 DEF Phase
  <2> QED BY <2>2, <2>3
<1> QED BY <1>5, <1>7, <1>8, <1>9 DEF JobsInv

\* A restart leaves idle handlers and no callback.
LEMMA RestartKeeps ==
    ASSUME JobsInv, crashes < MaxCrashes, Restart, UNCHANGED <<jobVars, accepted, usage>>,
           Works \/ Fails
    PROVE  JobsInv'
<1>1. crashes' \in 0 .. MaxCrashes
  BY Numbers DEF JobsInv, TypeOK, Restart
<1>2. exec' \in [Jobs -> Places]
  BY DEF JobsInv, TypeOK, Restart, Places
<1>3. \A j \in Jobs : exec'[j] = exec[j] \/ (exec[j] # "none" /\ exec'[j] = "done")
  BY DEF Restart
<1>4. /\ pc' \in [Handlers -> Labels] /\ key' \in [Handlers -> Keys \union {NoKey}]
      /\ mine' \in [Handlers -> Jobs \union {NoJob}]
      /\ \A h \in Handlers : pc'[h] = "idle"
  BY DEF Restart, Labels
<1>5. usage' \in Nat
  BY DEF JobsInv, TypeOK
<1>6. \A h \in Handlers : pc'[h] \in {"start", "meter"} => pc'[h] = pc[h] /\ mine'[h] = mine[h]
  BY <1>4
<1> QED BY <1>1, <1>2, <1>3, <1>4, <1>5, <1>6, QuietKeeps

\* A handler that leaves, or goes on before its INSERT.
LEMMA HandlerMoves ==
    ASSUME JobsInv, NEW h \in Handlers, UNCHANGED <<jobVars, exec, accepted, crashes>>,
           Works \/ Fails, usage' \in Nat,
           \/ Leave(h)
           \/ \E k \in Keys \union {NoKey}, l \in {"quota", "lookup", "insert"} :
                Goto(h, l) /\ key' = [key EXCEPT ![h] = k] /\ UNCHANGED mine
    PROVE  JobsInv'
<1>1. /\ pc' \in [Handlers -> Labels] /\ key' \in [Handlers -> Keys \union {NoKey}]
      /\ mine' \in [Handlers -> Jobs \union {NoJob}] /\ pc'[h] \notin {"start", "meter"}
      /\ \A g \in Handlers \ {h} : pc'[g] = pc[g] /\ mine'[g] = mine[g]
  BY DEF JobsInv, TypeOK, Labels, Leave, Goto
<1>2. exec' \in [Jobs -> Places] /\ crashes' \in 0 .. MaxCrashes
  BY DEF JobsInv, TypeOK, Places
<1>3. \A g \in Handlers : pc'[g] \in {"start", "meter"} => pc'[g] = pc[g] /\ mine'[g] = mine[g]
  BY <1>1
<1> QED BY <1>1, <1>2, <1>3, QuietKeeps

\* Every step of the server keeps the invariant.
LEMMA Inductive == JobsInv /\ [Next]_vars => JobsInv'
<1> SUFFICES ASSUME JobsInv, [Next]_vars PROVE JobsInv'
  OBVIOUS
<1>k. \A h \in Handlers : key[h] \in Keys \union {NoKey} /\ key = [key EXCEPT ![h] = key[h]]
  BY DEF JobsInv, TypeOK
<1>u. usage \in Nat
  BY DEF JobsInv, TypeOK
<1>1. ASSUME NEW h \in Handlers, NEW k \in Keys \union {NoKey}, Receive(h, k) PROVE JobsInv'
  BY <1>1, <1>u, HandlerMoves DEF Receive, Works
<1>2. ASSUME NEW h \in Handlers, CheckOrganizationQuota(h) PROVE JobsInv'
  BY <1>2, <1>k, <1>u, HandlerMoves DEF CheckOrganizationQuota
<1>3. ASSUME NEW h \in Handlers, LookupKey(h) PROVE JobsInv'
  BY <1>3, <1>k, <1>u, HandlerMoves DEF LookupKey
<1>4. ASSUME NEW h \in Handlers, InsertJob(h) PROVE JobsInv'
  <2>1. pc[h] = "insert" /\ UNCHANGED <<exec, usage, accepted, crashes>>
    BY <1>4 DEF InsertJob
  <2>2. CASE Holders(key[h]) = {} /\ Insert(h)
    BY <2>1, <2>2, InsertKeeps
  <2>3. CASE Leave(h) /\ (Works \/ Fails) /\ UNCHANGED jobVars
    BY <1>u, <2>1, <2>3, HandlerMoves
  <2> QED BY <1>4, <2>2, <2>3 DEF InsertJob
<1>5. ASSUME NEW h \in Handlers, StartJob(h) PROVE JobsInv'
  <2>1. pc[h] = "start" /\ UNCHANGED <<jobVars, usage, crashes>>
    BY <1>5 DEF StartJob
  <2>2. CASE /\ Goto(h, "meter") /\ UNCHANGED <<key, mine>>
             /\ exec' = [exec EXCEPT ![mine[h]] = "start"]
             /\ accepted' = accepted \union {mine[h]}
             /\ Works
    BY <2>1, <2>2, AcceptKeeps DEF Goto, Works
  <2>3. CASE Leave(h) /\ Fails /\ UNCHANGED <<exec, accepted>>
    BY <1>u, <2>1, <2>3, HandlerMoves
  <2> QED BY <1>5, <2>2, <2>3 DEF StartJob
<1>6. ASSUME NEW h \in Handlers, Meter(h) PROVE JobsInv'
  <2>1. UNCHANGED <<jobVars, accepted>>
    BY <1>6 DEF Meter
  <2>2. CASE usage' = usage + 1 /\ Leave(h) /\ Works /\ UNCHANGED <<exec, crashes>>
    BY <1>u, <2>1, <2>2, HandlerMoves
  <2>3. CASE crashes < MaxCrashes /\ Restart /\ Fails /\ UNCHANGED usage
    BY <2>1, <2>3, RestartKeeps
  <2> QED BY <1>6, <2>2, <2>3 DEF Meter
<1>7. ASSUME NEW j \in Jobs, Execute(j) PROVE JobsInv'
  BY <1>7, ExecuteKeeps
<1>8. CASE Crash
  BY <1>8, RestartKeeps DEF Crash, Works
<1>9. CASE UNCHANGED vars
  <2>1. /\ pc' \in [Handlers -> Labels] /\ key' \in [Handlers -> Keys \union {NoKey}]
        /\ mine' \in [Handlers -> Jobs \union {NoJob}] /\ exec' \in [Jobs -> Places]
        /\ usage' \in Nat /\ crashes' \in 0 .. MaxCrashes /\ Works
        /\ UNCHANGED <<handlerVars, jobVars, exec, accepted>>
    BY <1>9 DEF vars, Works, JobsInv, TypeOK, Labels, Places
  <2> QED BY <2>1, QuietKeeps
<1> QED BY <1>1, <1>2, <1>3, <1>4, <1>5, <1>6, <1>7, <1>8, <1>9 DEF Next, HandlerStep

\* The invariant holds of every state the server can reach.
LEMMA Invariant == Spec => []JobsInv
<1>1. Init => JobsInv
  <2> SUFFICES ASSUME Init PROVE JobsInv
    OBVIOUS
  <2>1. TypeOK
    BY Numbers DEF Init, TypeOK, Statuses
  <2> QED BY <2>1 DEF Init, JobsInv, Keyed, Holders, Phase
<1> QED BY <1>1, Inductive, PTL DEF Spec

\* Requests with one idempotency key, of any number in flight, never make two jobs: the unique
\* index decides what the SELECT before the INSERT cannot; and no two of them run one job.
THEOREM KeysMakeOneJob == Spec => []OneJobPerKey
<1>1. JobsInv => OneJobPerKey
  BY DEF JobsInv, OneJobPerKey, Keyed, Owned
<1> QED BY <1>1, Invariant, PTL

\* updateInferenceJob looks at no status, yet the order of the statements of an executor lets
\* a job go forward only, and lets the catch block undo a success only after a failure.
THEOREM StatusesGoForward == Spec => StatusForward
<1> DEFINE Forward == \A j \in Jobs :
          status'[j] # status[j] =>
             \/ status[j] = "none" /\ status'[j] = "QUEUED"
             \/ status[j] = "QUEUED" /\ status'[j] = "RUNNING"
             \/ status[j] = "RUNNING" /\ status'[j] \in {"SUCCEEDED", "FAILED"}
             \/ failures > 0 /\ status[j] = "SUCCEEDED" /\ status'[j] = "FAILED"
<1>1. JobsInv /\ [Next]_vars => [Forward]_vars
  <2> SUFFICES ASSUME JobsInv, Next PROVE Forward
    BY DEF vars
  <2>1. CASE UNCHANGED status
    BY <2>1
  <2>2. ASSUME NEW h \in Handlers, Insert(h) PROVE Forward
    <3>1. PICK i \in Jobs : /\ {j \in Jobs : status[j] = "none"} = i .. MaxJobs
                            /\ status' = [status EXCEPT ![i] = "QUEUED"]
      BY <2>2 DEF Insert
    <3>2. i \in i .. MaxJobs
      BY Numbers DEF Jobs
    <3>3. status[i] = "none"
      BY <3>1, <3>2
    <3> QED BY <3>1, <3>3 DEF JobsInv, TypeOK
  <2>3. ASSUME NEW i \in Jobs, Execute(i) PROVE Forward
    <3>1. PICK s \in Statuses :
            /\ status' = [status EXCEPT ![i] = s]
            /\ \/ s = status[i]
               \/ exec[i] = "start" /\ s = "RUNNING"
               \/ exec[i] = "succeed" /\ s = "SUCCEEDED"
               \/ exec[i] = "fail" /\ s = "FAILED"
      BY <2>3, ExecuteWrites
    <3>2. Phase(i)
      BY DEF JobsInv
    <3>3. \A j \in Jobs : status'[j] # status[j] => j = i /\ status'[j] = s
      BY <3>1 DEF JobsInv, TypeOK
    <3> QED BY <3>1, <3>2, <3>3 DEF Phase
  <2>4. ASSUME NEW h \in Handlers, HandlerStep(h), ~Insert(h) PROVE UNCHANGED status
    BY <2>4 DEF HandlerStep, CheckOrganizationQuota, LookupKey, InsertJob, StartJob, Meter
  <2>5. ASSUME NEW h \in Handlers, NEW k \in Keys \union {NoKey}, Receive(h, k)
        PROVE  UNCHANGED status
    BY <2>5 DEF Receive
  <2>6. CASE Crash
    BY <2>1, <2>6 DEF Crash
  <2> QED BY <2>1, <2>2, <2>3, <2>4, <2>5, <2>6 DEF Next
<1> QED BY <1>1, Invariant, PTL DEF Spec, StatusForward

\* Every column, counter and local variable keeps its range, whatever interleaves, fails or is
\* stopped: updateInferenceJob writes nothing outside the enum of statuses.
THEOREM TypeCorrect == Spec => []TypeOK
<1>1. JobsInv => TypeOK
  BY DEF JobsInv
<1> QED BY <1>1, Invariant, PTL

-----------------------------------------------------------------------------
(***************************************************************************)
(* Counting.                                                               *)
(***************************************************************************)
\* Handlers that have answered 202 and have yet to write the usage record.
Metering == {h \in Handlers : pc[h] = "meter"}
\* Handlers that the quota has let pass and that have not answered.
Ahead == {h \in Handlers : pc[h] \in {"lookup", "insert", "start"}}

\* The sets that are counted are finite.
LEMMA Finite ==
    /\ IsFiniteSet(Handlers) /\ Cardinality(Handlers) \in Nat /\ Cardinality(Handlers) >= 1
    /\ IsFiniteSet(Jobs)
    /\ \A S \in SUBSET Handlers : /\ IsFiniteSet(S) /\ Cardinality(S) \in Nat
                                  /\ Cardinality(S) <= Cardinality(Handlers)
    /\ \A S \in SUBSET Jobs : IsFiniteSet(S) /\ Cardinality(S) \in Nat
<1>1. IsFiniteSet(Handlers) /\ Cardinality(Handlers) \in Nat
  BY ParametersAssumption, FS_CardinalityType
<1>2. Cardinality(Handlers) # 0
  BY <1>1, ParametersAssumption, FS_EmptySet
<1>3. IsFiniteSet(Jobs)
  BY Numbers, FS_Interval DEF Jobs
<1>4. ASSUME NEW S \in SUBSET Handlers
      PROVE  IsFiniteSet(S) /\ Cardinality(S) \in Nat /\ Cardinality(S) <= Cardinality(Handlers)
  BY <1>1, FS_Subset, FS_CardinalityType
<1>5. ASSUME NEW S \in SUBSET Jobs PROVE IsFiniteSet(S) /\ Cardinality(S) \in Nat
  BY <1>3, FS_Subset, FS_CardinalityType
<1> QED BY <1>1, <1>2, <1>3, <1>4, <1>5

\* A set of handlers and a disjoint one together count no more than all.
LEMMA DisjointCount ==
    ASSUME NEW S \in SUBSET Handlers, NEW T \in SUBSET Handlers, S \cap T = {}
    PROVE  Cardinality(S) + Cardinality(T) <= Cardinality(Handlers)
<1>1. IsFiniteSet(S) /\ IsFiniteSet(T) /\ Cardinality(S) \in Nat /\ Cardinality(T) \in Nat
  BY Finite
<1>2. Cardinality(S \cup T) = Cardinality(S) + Cardinality(T)
  <2>1. Cardinality(S \cup T) = Cardinality(S) + Cardinality(T) - Cardinality(S \cap T)
    BY <1>1, FS_Union
  <2>2. Cardinality(S \cap T) = 0
    BY FS_EmptySet
  <2> QED BY <1>1, <2>1, <2>2
<1>3. Cardinality(S \cup T) <= Cardinality(Handlers)
  BY Finite
<1> QED BY <1>2, <1>3

\* What a set gains or loses with one element.
LEMMA OneMore ==
    ASSUME NEW S, IsFiniteSet(S), NEW x
    PROVE  /\ Cardinality(S) \in Nat
           /\ IsFiniteSet(S \cup {x}) /\ IsFiniteSet(S \ {x})
           /\ Cardinality(S \cup {x}) = IF x \in S THEN Cardinality(S) ELSE Cardinality(S) + 1
           /\ Cardinality(S \ {x}) = IF x \in S THEN Cardinality(S) - 1 ELSE Cardinality(S)
  BY FS_CardinalityType, FS_AddElement, FS_RemoveElement

\* A restart adds one more set of handlers to the overrun.
LEMMA Product ==
    ASSUME NEW a \in Nat, NEW b \in Nat
    PROVE  a * b \in Nat /\ a * (b + 1) \in Nat /\ a * (b + 1) = a * b + a
  OBVIOUS

\* The overrun that restarts have allowed for.
Extra == Cardinality(Handlers) * crashes

\* Accepted requests without a usage record are still to be metered or were stopped; and those
\* let pass, with those accepted, stay below the limit but for the handlers in flight.
OverrunInv ==
    /\ Cardinality(accepted) <= usage + Cardinality(Metering) + Extra
    /\ Cardinality(accepted) + Cardinality(Ahead) + 1 <= Limit + Extra + Cardinality(Handlers)

\* What the counts are, before and after a step.
LEMMA Counted ==
    ASSUME JobsInv
    PROVE  /\ Metering \in SUBSET Handlers /\ Ahead \in SUBSET Handlers /\ Metering \cap Ahead = {}
           /\ Cardinality(Metering) \in Nat /\ Cardinality(Ahead) \in Nat
           /\ Cardinality(accepted) \in Nat /\ IsFiniteSet(accepted)
           /\ IsFiniteSet(Metering) /\ IsFiniteSet(Ahead)
           /\ usage \in Nat /\ crashes \in Nat
           /\ Extra \in Nat /\ Cardinality(Handlers) * (crashes + 1) = Extra + Cardinality(Handlers)
<1>1. Metering \in SUBSET Handlers /\ Ahead \in SUBSET Handlers /\ Metering \cap Ahead = {}
  BY DEF Metering, Ahead
<1>2. accepted \in SUBSET Jobs /\ usage \in Nat /\ crashes \in Nat
  BY Numbers DEF JobsInv, TypeOK
<1>3. Extra \in Nat /\ Cardinality(Handlers) * (crashes + 1) = Extra + Cardinality(Handlers)
  BY <1>2, Finite, Product DEF Extra
<1> QED BY <1>1, <1>2, <1>3, Finite

\* Steps that take no request past the quota and accept none.
LEMMA QuietCounts ==
    ASSUME JobsInv, OverrunInv, accepted' = accepted, crashes' = crashes, usage' \in Nat,
           Ahead' \subseteq Ahead,
           \/ Metering' = Metering /\ usage' >= usage
           \/ \E h \in Handlers : Metering' = Metering \ {h} /\ usage' = usage + 1
    PROVE  OverrunInv'
<1>1. Cardinality(Ahead') <= Cardinality(Ahead) /\ Cardinality(Ahead') \in Nat
  <2>1. IsFiniteSet(Ahead)
    BY Counted
  <2> QED BY <2>1, Counted, FS_Subset, FS_CardinalityType
<1>2. usage' + Cardinality(Metering') >= usage + Cardinality(Metering) /\ Cardinality(Metering') \in Nat
  <2>1. CASE Metering' = Metering /\ usage' >= usage
    BY <2>1, Counted
  <2>2. ASSUME NEW h \in Handlers, Metering' = Metering \ {h}, usage' = usage + 1
        PROVE  usage' + Cardinality(Metering') >= usage + Cardinality(Metering)
               /\ Cardinality(Metering') \in Nat
    <3>1. IsFiniteSet(Metering) /\ Metering' \subseteq Metering
      BY <2>2, Counted
    <3>2. Cardinality(Metering') >= Cardinality(Metering) - 1 /\ Cardinality(Metering') \in Nat
      BY <2>2, <3>1, OneMore, FS_Subset, FS_CardinalityType
    <3> QED BY <2>2, <3>2, Counted
  <2> QED BY <2>1, <2>2
<1>3. Extra' = Extra
  BY DEF Extra
<1>4. /\ Cardinality(accepted) \in Nat /\ Cardinality(Metering) \in Nat /\ Cardinality(Ahead) \in Nat
      /\ usage \in Nat /\ Extra \in Nat /\ Limit \in Nat /\ Cardinality(Handlers) \in Nat
  BY Counted, Finite, Numbers
<1>5. Cardinality(accepted') = Cardinality(accepted)
  OBVIOUS
<1>6. Cardinality(accepted') <= usage' + Cardinality(Metering') + Extra'
  BY <1>2, <1>3, <1>4, <1>5 DEF OverrunInv
<1>7. Cardinality(accepted') + Cardinality(Ahead') + 1 <= Limit + Extra' + Cardinality(Handlers)
  BY <1>1, <1>3, <1>4, <1>5 DEF OverrunInv
<1> QED BY <1>6, <1>7 DEF OverrunInv

\* The race between counting and metering: no interleaving of requests and restarts accepts more
\* in a day than the quota, a request in flight each, and as many for each restart.
THEOREM QuotaOverrun == Spec => []QuotaOverrunBounded
<1>1. Init => OverrunInv
  <2> SUFFICES ASSUME Init PROVE OverrunInv
    OBVIOUS
  <2>1. Metering = {} /\ Ahead = {} /\ accepted = {} /\ usage = 0 /\ crashes = 0
    BY DEF Init, Metering, Ahead
  <2>2. Extra = 0
    BY <2>1, Finite DEF Extra
  <2> QED BY <2>1, <2>2, Finite, Numbers, FS_EmptySet DEF OverrunInv
<1>2. JobsInv /\ JobsInv' /\ OverrunInv /\ [Next]_vars => OverrunInv'
  <2> SUFFICES ASSUME JobsInv, JobsInv', OverrunInv, [Next]_vars PROVE OverrunInv'
    OBVIOUS
  <2>u. usage' \in Nat /\ usage \in Nat
    BY DEF JobsInv, TypeOK
  <2>p. DOMAIN pc = Handlers /\ pc \in [Handlers -> Labels]
    BY DEF JobsInv, TypeOK, Labels
  <2>1. ASSUME NEW h \in Handlers, pc[h] \notin {"meter"}, Leave(h),
               UNCHANGED <<accepted, usage, crashes>>
        PROVE  OverrunInv'
    <3>1. Ahead' \subseteq Ahead /\ Metering' = Metering
      BY <2>1, <2>p DEF Leave, Goto, Ahead, Metering
    <3> QED BY <2>1, <2>u, <3>1, QuietCounts
  <2>2. ASSUME NEW h \in Handlers, NEW l \in {"quota", "insert", "start"},
               l = "quota" \/ pc[h] \in {"lookup", "insert"}, pc[h] # "meter",
               pc' = [pc EXCEPT ![h] = l], UNCHANGED <<accepted, usage, crashes>>
        PROVE  OverrunInv'
    <3>1. Ahead' \subseteq Ahead
      BY <2>2, <2>p DEF Ahead
    <3>2. Metering' = Metering
      BY <2>2, <2>p DEF Metering
    <3> QED BY <2>2, <2>u, <3>1, <3>2, QuietCounts
  <2>3. ASSUME NEW h \in Handlers, pc[h] = "quota", usage < Limit, pc' = [pc EXCEPT ![h] = "lookup"],
               UNCHANGED <<accepted, usage, crashes>>
        PROVE  OverrunInv'
    <3>1. Ahead' = Ahead \cup {h} /\ Metering' = Metering /\ h \notin Metering
      BY <2>3, <2>p DEF Ahead, Metering
    <3>2. Ahead' \in SUBSET Handlers /\ Ahead' \cap Metering = {}
      BY <3>1, Counted
    <3>3. Cardinality(Ahead') + Cardinality(Metering) <= Cardinality(Handlers)
      BY <3>2, Counted, DisjointCount
    <3>4. Cardinality(Ahead') \in Nat
      BY <3>2, Finite
    <3>5. Extra' = Extra
      BY <2>3 DEF Extra
    <3> QED BY <2>3, <3>1, <3>3, <3>4, <3>5, Counted, Finite, Numbers DEF OverrunInv
  <2>4. ASSUME NEW h \in Handlers, pc[h] = "start", pc' = [pc EXCEPT ![h] = "meter"],
               accepted' = accepted \union {mine[h]}, UNCHANGED <<usage, crashes>>
        PROVE  OverrunInv'
    <3>1. Ahead' = Ahead \ {h} /\ h \in Ahead /\ Metering' = Metering \cup {h} /\ h \notin Metering
      BY <2>4, <2>p DEF Ahead, Metering
    <3>2. Cardinality(Ahead') = Cardinality(Ahead) - 1 /\ Cardinality(Metering') = Cardinality(Metering) + 1
      BY <3>1, Counted, OneMore
    <3>3. Cardinality(accepted') <= Cardinality(accepted) + 1 /\ Cardinality(accepted') \in Nat
      <4>1. accepted' = accepted \union {mine[h]}
        BY <2>4
      <4>2. IsFiniteSet(accepted) /\ Cardinality(accepted) \in Nat
        BY Counted
      <4>3. CASE mine[h] \in accepted
        <5>1. accepted' = accepted
          BY <4>1, <4>3
        <5> QED BY <4>2, <5>1
      <4>4. CASE mine[h] \notin accepted
        <5>1. Cardinality(accepted \union {mine[h]}) = Cardinality(accepted) + 1
          BY <4>2, <4>4, OneMore
        <5> QED BY <4>1, <4>2, <5>1
      <4> QED BY <4>3, <4>4
    <3>4. Extra' = Extra
      BY <2>4 DEF Extra
    <3>5. /\ Cardinality(accepted) \in Nat /\ Cardinality(Metering) \in Nat /\ Cardinality(Ahead) \in Nat
          /\ Extra \in Nat /\ Limit \in Nat /\ Cardinality(Handlers) \in Nat
      BY Counted, Finite, Numbers
    <3>6. Cardinality(accepted') <= usage' + Cardinality(Metering') + Extra'
      BY <2>4, <2>u, <3>2, <3>3, <3>4, <3>5 DEF OverrunInv
    <3>7. Cardinality(accepted') + Cardinality(Ahead') + 1 <= Limit + Extra' + Cardinality(Handlers)
      BY <3>2, <3>3, <3>4, <3>5 DEF OverrunInv
    <3> QED BY <3>6, <3>7 DEF OverrunInv
  <2>5. ASSUME NEW h \in Handlers, pc[h] = "meter", Leave(h), usage' = usage + 1,
               UNCHANGED <<accepted, crashes>>
        PROVE  OverrunInv'
    <3>1. Ahead' \subseteq Ahead /\ Metering' = Metering \ {h}
      BY <2>5, <2>p DEF Leave, Goto, Ahead, Metering
    <3> QED BY <2>5, <2>u, <3>1, QuietCounts
  <2>6. ASSUME Restart, UNCHANGED <<accepted, usage>>
        PROVE  OverrunInv'
    <3>1. Ahead' = {} /\ Metering' = {} /\ crashes' = crashes + 1
      BY <2>6 DEF Restart, Ahead, Metering
    <3>2. Cardinality(Metering) <= Cardinality(Handlers)
      BY Counted, Finite
    <3>3. Extra' = Extra + Cardinality(Handlers)
      BY <3>1, Counted DEF Extra
    <3>4. Cardinality(Ahead') = 0 /\ Cardinality(Metering') = 0
      BY <3>1, FS_EmptySet
    <3> QED BY <2>6, <3>2, <3>3, <3>4, Counted, Finite, Numbers DEF OverrunInv
  <2>7. ASSUME UNCHANGED <<pc, accepted, crashes>>, usage' >= usage
        PROVE  OverrunInv'
    <3>1. Ahead' = Ahead /\ Metering' = Metering
      BY <2>7 DEF Ahead, Metering
    <3> QED BY <2>7, <2>u, <3>1, QuietCounts
  <2>8. ASSUME NEW h \in Handlers, NEW k \in Keys \union {NoKey}, Receive(h, k) PROVE OverrunInv'
    BY <2>2, <2>8 DEF Receive, Goto
  <2>9. ASSUME NEW h \in Handlers, CheckOrganizationQuota(h) PROVE OverrunInv'
    BY <2>1, <2>3, <2>9 DEF CheckOrganizationQuota, Goto
  <2>10. ASSUME NEW h \in Handlers, LookupKey(h) PROVE OverrunInv'
    BY <2>1, <2>2, <2>10 DEF LookupKey, Goto
  <2>11. ASSUME NEW h \in Handlers, InsertJob(h) PROVE OverrunInv'
    <3>1. pc[h] = "insert" /\ UNCHANGED <<accepted, usage, crashes>>
      BY <2>11 DEF InsertJob
    <3>2. CASE Insert(h)
      <4>1. pc' = [pc EXCEPT ![h] = "start"]
        BY <3>2 DEF Insert, Goto
      <4> QED BY <2>2, <3>1, <4>1
    <3> QED BY <2>1, <2>11, <3>1, <3>2 DEF InsertJob
  <2>12. ASSUME NEW h \in Handlers, StartJob(h) PROVE OverrunInv'
    BY <2>1, <2>4, <2>12 DEF StartJob, Goto
  <2>13. ASSUME NEW h \in Handlers, Meter(h) PROVE OverrunInv'
    BY <2>5, <2>6, <2>13 DEF Meter
  <2>14. ASSUME NEW j \in Jobs, Execute(j) PROVE OverrunInv'
    <3>1. UNCHANGED <<pc, accepted, crashes>> /\ usage' \in {usage, usage + 1}
      BY <2>14, ExecuteWrites
    <3> QED BY <2>7, <2>u, <3>1
  <2>15. CASE Crash
    BY <2>6, <2>15 DEF Crash
  <2>16. CASE UNCHANGED vars
    BY <2>7, <2>u, <2>16 DEF vars
  <2> QED BY <2>8, <2>9, <2>10, <2>11, <2>12, <2>13, <2>14, <2>15, <2>16 DEF Next, HandlerStep
<1>3. JobsInv /\ OverrunInv => QuotaOverrunBounded
  <2> SUFFICES ASSUME JobsInv, OverrunInv PROVE QuotaOverrunBounded
    OBVIOUS
  <2> QED BY Counted, Finite, Numbers DEF OverrunInv, QuotaOverrunBounded
<1> QED BY <1>1, <1>2, <1>3, Invariant, PTL DEF Spec

-----------------------------------------------------------------------------
(***************************************************************************)
(* The usage records of a day without failures.                            *)
(***************************************************************************)
\* Executors that have yet to write the usage record of a success, and the successes.
Using == {j \in Jobs : exec[j] = "usage"}
Succeeded == {j \in Jobs : status[j] = "SUCCEEDED"}

\* Each acceptance and each success has its record, or someone who is about to write it.
Balance ==
    usage + Cardinality(Metering) + Cardinality(Using)
        = Cardinality(accepted) + Cardinality(Succeeded)

\* Nothing has failed and nothing has restarted.
LEMMA BothZero ==
    ASSUME NEW a \in Nat, NEW b \in Nat, a + b = 0
    PROVE  a = 0 /\ b = 0
  OBVIOUS

\* The counted sets are finite.
LEMMA BalanceTypes ==
    ASSUME JobsInv
    PROVE  /\ IsFiniteSet(Metering) /\ IsFiniteSet(Using)
           /\ IsFiniteSet(accepted) /\ IsFiniteSet(Succeeded)
           /\ Cardinality(Metering) \in Nat /\ Cardinality(Using) \in Nat
           /\ Cardinality(accepted) \in Nat /\ Cardinality(Succeeded) \in Nat /\ usage \in Nat
<1>1. Using \in SUBSET Jobs /\ Succeeded \in SUBSET Jobs
  BY DEF Using, Succeeded
<1> QED BY <1>1, Counted, Finite

\* The five steps that count: one that moves an element into or out of a counted set.
LEMMA BalanceMoves ==
    ASSUME JobsInv, Balance,
           \/ UNCHANGED <<usage, Metering, Using, accepted, Succeeded>>
           \/ \E h, j : /\ h \notin Metering /\ Metering' = Metering \cup {h}
                        /\ j \notin accepted /\ accepted' = accepted \cup {j}
                        /\ UNCHANGED <<usage, Using, Succeeded>>
           \/ \E h : /\ h \in Metering /\ Metering' = Metering \ {h} /\ usage' = usage + 1
                     /\ UNCHANGED <<Using, accepted, Succeeded>>
           \/ \E j : /\ j \notin Succeeded /\ Succeeded' = Succeeded \cup {j}
                     /\ j \notin Using /\ Using' = Using \cup {j}
                     /\ UNCHANGED <<usage, Metering, accepted>>
           \/ \E j : /\ j \in Using /\ Using' = Using \ {j} /\ usage' = usage + 1
                     /\ UNCHANGED <<Metering, accepted, Succeeded>>
    PROVE  Balance'
<1>1. CASE UNCHANGED <<usage, Metering, Using, accepted, Succeeded>>
  BY <1>1 DEF Balance
<1>2. ASSUME NEW h, NEW j, h \notin Metering, Metering' = Metering \cup {h},
             j \notin accepted, accepted' = accepted \cup {j}, UNCHANGED <<usage, Using, Succeeded>>
      PROVE  Balance'
  <2>1. Cardinality(Metering \cup {h}) = Cardinality(Metering) + 1
    BY <1>2, BalanceTypes, OneMore
  <2>2. Cardinality(accepted \cup {j}) = Cardinality(accepted) + 1
    BY <1>2, BalanceTypes, OneMore
  <2>3. /\ Cardinality(Metering') = Cardinality(Metering) + 1
        /\ Cardinality(accepted') = Cardinality(accepted) + 1
        /\ Cardinality(Using') = Cardinality(Using)
        /\ Cardinality(Succeeded') = Cardinality(Succeeded) /\ usage' = usage
    BY <1>2, <2>1, <2>2
  <2> QED BY <2>3, BalanceTypes DEF Balance
<1>3. ASSUME NEW h, h \in Metering, Metering' = Metering \ {h}, usage' = usage + 1,
             UNCHANGED <<Using, accepted, Succeeded>>
      PROVE  Balance'
  <2>1. Cardinality(Metering \ {h}) = Cardinality(Metering) - 1
    BY <1>3, BalanceTypes, OneMore
  <2> QED BY <1>3, <2>1, BalanceTypes DEF Balance
<1>4. ASSUME NEW j, j \notin Succeeded, Succeeded' = Succeeded \cup {j},
             j \notin Using, Using' = Using \cup {j}, UNCHANGED <<usage, Metering, accepted>>
      PROVE  Balance'
  <2>1. Cardinality(Succeeded \cup {j}) = Cardinality(Succeeded) + 1
    BY <1>4, BalanceTypes, OneMore
  <2>2. Cardinality(Using \cup {j}) = Cardinality(Using) + 1
    BY <1>4, BalanceTypes, OneMore
  <2>3. /\ Cardinality(Succeeded') = Cardinality(Succeeded) + 1
        /\ Cardinality(Using') = Cardinality(Using) + 1
        /\ Cardinality(Metering') = Cardinality(Metering)
        /\ Cardinality(accepted') = Cardinality(accepted) /\ usage' = usage
    BY <1>4, <2>1, <2>2
  <2> QED BY <2>3, BalanceTypes DEF Balance
<1>5. ASSUME NEW j, j \in Using, Using' = Using \ {j}, usage' = usage + 1,
             UNCHANGED <<Metering, accepted, Succeeded>>
      PROVE  Balance'
  <2>1. Cardinality(Using \ {j}) = Cardinality(Using) - 1
    BY <1>5, BalanceTypes, OneMore
  <2> QED BY <1>5, <2>1, BalanceTypes DEF Balance
<1>6. CASE \E h, j : /\ h \notin Metering /\ Metering' = Metering \cup {h}
                     /\ j \notin accepted /\ accepted' = accepted \cup {j}
                     /\ UNCHANGED <<usage, Using, Succeeded>>
  BY <1>2, <1>6
<1>7. CASE \E h : /\ h \in Metering /\ Metering' = Metering \ {h} /\ usage' = usage + 1
                  /\ UNCHANGED <<Using, accepted, Succeeded>>
  BY <1>3, <1>7
<1>8. CASE \E j : /\ j \notin Succeeded /\ Succeeded' = Succeeded \cup {j}
                  /\ j \notin Using /\ Using' = Using \cup {j}
                  /\ UNCHANGED <<usage, Metering, accepted>>
  BY <1>4, <1>8
<1>9. CASE \E j : /\ j \in Using /\ Using' = Using \ {j} /\ usage' = usage + 1
                  /\ UNCHANGED <<Metering, accepted, Succeeded>>
  BY <1>5, <1>9
<1> QED BY <1>1, <1>6, <1>7, <1>8, <1>9

\* While nothing fails and nothing restarts, the day's usage records are those of the accepted
\* requests and of the successes, but for the ones a handler or an executor is about to write.
THEOREM UsageIsAccounted == Spec => []UsageAccounted
<1>1. UsageAccounted <=> (failures + crashes = 0 => Balance)
  BY DEF UsageAccounted, Balance, Metering, Using, Succeeded
<1>2. Init => UsageAccounted
  <2> SUFFICES ASSUME Init PROVE Balance
    BY <1>1
  <2>1. Metering = {} /\ Using = {} /\ accepted = {} /\ Succeeded = {} /\ usage = 0
    BY DEF Init, Metering, Using, Succeeded
  <2> QED BY <2>1, FS_EmptySet DEF Balance
<1>3. JobsInv /\ JobsInv' /\ UsageAccounted /\ [Next]_vars => UsageAccounted'
  <2> SUFFICES ASSUME JobsInv, JobsInv', UsageAccounted, [Next]_vars, failures' + crashes' = 0
               PROVE  Balance'
    BY <1>1 DEF UsageAccounted, Balance, Metering, Using, Succeeded
  <2>t. /\ pc \in [Handlers -> Labels] /\ exec \in [Jobs -> Places] /\ status \in [Jobs -> Statuses]
    BY DEF JobsInv, TypeOK, Labels, Places
  <2>m. failures \in Nat /\ crashes \in Nat /\ failures' \in Nat /\ crashes' \in Nat
    BY Numbers DEF JobsInv, TypeOK
  <2>z. failures' = 0 /\ crashes' = 0
    BY <2>m, BothZero
  <2>n. ~Fails /\ crashes' # crashes + 1
    BY <2>m, <2>z DEF Fails
  <2>b. failures' = failures /\ crashes' = crashes => Balance
    BY <1>1, <2>z
  <2>1. ASSUME UNCHANGED <<usage, accepted, status, exec, failures, crashes>>, Metering' = Metering
        PROVE  Balance'
    <3>1. Using' = Using /\ Succeeded' = Succeeded
      BY <2>1 DEF Using, Succeeded
    <3> QED BY <2>1, <2>b, <3>1, BalanceMoves
  <2>2. ASSUME NEW h \in Handlers, NEW l \in Labels, pc[h] # "meter", l # "meter",
               pc' = [pc EXCEPT ![h] = l]
        PROVE  Metering' = Metering
    BY <2>t, <2>2 DEF Metering
  <2>3. ASSUME NEW h \in Handlers, NEW k \in Keys \union {NoKey}, Receive(h, k) PROVE Balance'
    BY <2>1, <2>2, <2>3 DEF Receive, Goto, Labels
  <2>4. ASSUME NEW h \in Handlers, CheckOrganizationQuota(h) \/ LookupKey(h) PROVE Balance'
    BY <2>1, <2>2, <2>4, <2>n DEF CheckOrganizationQuota, LookupKey, Leave, Goto, Works, Labels
  <2>5. ASSUME NEW h \in Handlers, InsertJob(h) PROVE Balance'
    <3>1. CASE Insert(h)
      <4>1. PICK j \in Jobs : /\ {i \in Jobs : status[i] = "none"} = j .. MaxJobs
                              /\ status' = [status EXCEPT ![j] = "QUEUED"]
                              /\ pc' = [pc EXCEPT ![h] = "start"] /\ UNCHANGED failures
        BY <3>1 DEF Insert, Goto, Works
      <4>2. j \in j .. MaxJobs
        BY Numbers DEF Jobs
      <4>3. status[j] = "none"
        BY <4>1, <4>2
      <4>4. Succeeded' = Succeeded
        BY <2>t, <4>1, <4>3 DEF Succeeded
      <4>5. Metering' = Metering
        BY <2>2, <2>5, <4>1 DEF InsertJob, Labels
      <4>6. Using' = Using /\ UNCHANGED <<usage, accepted, crashes, failures>>
        BY <2>5, <4>1 DEF InsertJob, Using
      <4> QED BY <2>b, <4>4, <4>5, <4>6, BalanceMoves
    <3>2. CASE ~Insert(h)
      BY <2>1, <2>2, <2>5, <2>n, <3>2 DEF InsertJob, Leave, Goto, Works, Labels
    <3> QED BY <3>1, <3>2
  <2>6. ASSUME NEW h \in Handlers, StartJob(h) PROVE Balance'
    <3>1. /\ pc[h] = "start" /\ pc' = [pc EXCEPT ![h] = "meter"]
          /\ exec' = [exec EXCEPT ![mine[h]] = "start"] /\ accepted' = accepted \union {mine[h]}
          /\ UNCHANGED <<status, usage, failures, crashes>>
      BY <2>6, <2>n DEF StartJob, Goto, Works
    <3>2. mine[h] \notin accepted /\ exec[mine[h]] = "none"
      BY <3>1 DEF JobsInv, Owned
    <3>3. h \notin Metering /\ Metering' = Metering \cup {h}
      BY <2>t, <3>1 DEF Metering
    <3>4. Using' = Using /\ Succeeded' = Succeeded
      BY <2>t, <3>1, <3>2 DEF Using, Succeeded
    <3> QED BY <2>b, <3>1, <3>2, <3>3, <3>4, BalanceMoves
  <2>7. ASSUME NEW h \in Handlers, Meter(h) PROVE Balance'
    <3>1. /\ pc[h] = "meter" /\ pc' = [pc EXCEPT ![h] = "idle"] /\ usage' = usage + 1
          /\ UNCHANGED <<status, exec, accepted, failures, crashes>>
      BY <2>7, <2>n DEF Meter, Leave, Goto, Works
    <3>2. h \in Metering /\ Metering' = Metering \ {h}
      BY <2>t, <3>1 DEF Metering
    <3>3. Using' = Using /\ Succeeded' = Succeeded
      BY <3>1 DEF Using, Succeeded
    <3> QED BY <2>b, <3>1, <3>2, <3>3, BalanceMoves
  <2>8. ASSUME NEW j \in Jobs, Execute(j) PROVE Balance'
    <3>1. UNCHANGED <<pc, accepted, failures, crashes>> /\ Metering' = Metering /\ Balance
      BY <2>8, <2>n, <2>b DEF Execute, StartExecution, Generate, MarkSucceeded, MeterSuccess,
                              AuditSuccess, MarkFailed, Metering, Works
    <3>2. failures = 0 /\ Phase(j)
      BY <2>z, <3>1 DEF JobsInv
    <3>3. CASE StartExecution(j) \/ Generate(j) \/ AuditSuccess(j) \/ MarkFailed(j)
      <4>1. PICK l \in {"generate", "succeed", "fail", "done"} :
              exec[j] # "usage" /\ exec' = [exec EXCEPT ![j] = l] /\ usage' = usage
        BY <3>3 DEF StartExecution, Generate, AuditSuccess, MarkFailed, Proceed
      <4>2. Using' = Using
        BY <2>t, <4>1 DEF Using
      <4>3. \/ status' = status
            \/ \E s \in {"RUNNING", "FAILED"} : status' = [status EXCEPT ![j] = s] /\ status[j] # "SUCCEEDED"
        BY <3>2, <3>3 DEF StartExecution, Generate, AuditSuccess, MarkFailed, SetStatus, Phase
      <4>4. Succeeded' = Succeeded
        BY <2>t, <4>3 DEF Succeeded
      <4> QED BY <3>1, <4>1, <4>2, <4>4, BalanceMoves
    <3>4. CASE MarkSucceeded(j)
      <4>1. /\ exec[j] = "succeed" /\ status' = [status EXCEPT ![j] = "SUCCEEDED"]
            /\ exec' = [exec EXCEPT ![j] = "usage"] /\ usage' = usage
        BY <2>n, <3>4 DEF MarkSucceeded, SetStatus, Proceed
      <4>2. status[j] = "RUNNING"
        BY <3>2, <4>1 DEF Phase
      <4>3. j \notin Succeeded /\ Succeeded' = Succeeded \cup {j}
        BY <2>t, <4>1, <4>2 DEF Succeeded
      <4>4. j \notin Using /\ Using' = Using \cup {j}
        BY <2>t, <4>1 DEF Using
      <4> QED BY <3>1, <4>1, <4>3, <4>4, BalanceMoves
    <3>5. CASE MeterSuccess(j)
      <4>1. /\ exec[j] = "usage" /\ exec' = [exec EXCEPT ![j] = "audit"] /\ usage' = usage + 1
            /\ status' = status
        BY <2>n, <3>5 DEF MeterSuccess, Proceed
      <4>2. j \in Using /\ Using' = Using \ {j}
        BY <2>t, <4>1 DEF Using
      <4>3. Succeeded' = Succeeded
        BY <4>1 DEF Succeeded
      <4> QED BY <3>1, <4>1, <4>2, <4>3, BalanceMoves
    <3> QED BY <2>8, <3>3, <3>4, <3>5 DEF Execute
  <2>9. ~Crash
    BY <2>n DEF Crash, Restart
  <2>10. CASE UNCHANGED vars
    <3>1. Metering' = Metering
      BY <2>10 DEF vars, Metering
    <3> QED BY <2>1, <2>10, <3>1 DEF vars
  <2> QED BY <2>3, <2>4, <2>5, <2>6, <2>7, <2>8, <2>9, <2>10 DEF Next, HandlerStep
<1> QED BY <1>2, <1>3, Invariant, PTL DEF Spec

=============================================================================
