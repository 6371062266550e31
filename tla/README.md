# Specification of the AIN API server

TLA+ modules, TLC configurations and TLAPS proofs for the Galaxia AIN API: a
TypeScript/Express server (`src/src`) over PostgreSQL (`src/database`) that
assigns inference tasks to compute nodes, verifies and settles their results,
runs inference jobs for tenant organizations under a quota, keeps a token
ledger behind compliance checks, certifies and issues tokenized assets, and
limits, authenticates and audits what its tenants do.

Line references are to files under `src/`. "Statement" means one SQL statement
on one pooled connection; a `BEGIN ... COMMIT` block whose writes nobody can see
before the COMMIT is one step at the COMMIT, except where it holds row locks
others wait for.

## 1. Inventory

The server is one Node process. What interleaves is what lies between two
`await`s: request handlers, the task queue's promises, `setImmediate` callbacks
of the inference executor, event-bus handlers, and the statements all of them
send over a pool of at most 20 connections (`config/databaseConfig.ts`).
Handlers share database rows and a few module-level objects. PostgreSQL runs at
READ COMMITTED; no query of the modelled services uses `FOR UPDATE`, so a value
read and written back later is always a possible stale read.

| Component | State | Operations | Interacts with | Hard behaviour |
|---|---|---|---|---|
| Node registry, task distribution (`nodeRegistry.ts`, `taskDistribution.ts`) | `nodes` (load, reputation, heartbeat), `tasks` (status, `assigned_nodes`) | register, heartbeat, reputation, `createTask`, `assignTask`, `handleTaskFailure`, `completeTask` | the inference route and the queue both call `assignTask` | unlocked check of `current_load`; a transaction that waits for a second connection; clamped decrements |
| Result verification (`resultVerification.ts`) | `task_results`, `consensus_results` | `verifyTaskResults`: deterministic, similarity and tiebreak rules | called by node reports and by the queue; credits nodes | unordered rows, a relation that is not transitive, autocommitted steps |
| Task queue (`taskQueue.ts`) | array, `processing` set, retry counters | `enqueue`, `processQueue`, `processTask`, `.catch` | distribution, inference, verification, payment | two places take a task out of `processing`; retries; nothing survives a restart |
| Tenant inference (`routes/tenant.ts`, `inferenceJobs.ts`, `inferenceExecutor.ts`, `quotaService.ts`) | `inference_requests`, `usage_records`, `audit_logs` | submit, execute | unique index on the idempotency key | check-then-act on quota and key; the executor overtakes its own handler; a 202 lives in a callback |
| Payment ledger (`payment.ts`) | `users.token_balance`, `nodes.total_earnings`, `token_transactions` | deposit, payment, payout, refund; `distributeNodePayments` | KYC limits before BEGIN | absolute writes of values read without a lock |
| Audit and events (`auditService.ts`, `auditEventHandler.ts`) | `audit_requests`, `audit_findings`, `audit_certifications`, in-process bus | create, add findings, complete, verify | each call holds one connection and asks for a second | inner transaction commits alone; handler publishes what it consumes |
| Issuance (`issuanceService.ts`) | `offerings`, `investors`, `token_holdings`, `accreditations` | create offering, verify accreditation, mint, restrictions, cap table | reads audit certifications | duplicate investor rows; checks outside the transaction that relies on them; failure after COMMIT |
| KYC and limits (`kycService.ts`) | `kyc_profiles`, `kyc_documents`, `sanctions_screening` | submit, verify, upload, screen, read limits | read by the ledger | no unique index on `user_id`; SELECT then INSERT or UPDATE; five inserts and two updates per screening |
| Payment compliance (`payment.ts`, `transactionMonitoring.ts`, `travelRule.ts`, Clearing and L1 clients) | `token_transactions`, `transaction_alerts` | checks before BEGIN, calls after COMMIT, monitoring | reads profiles and jurisdictions | checks read apart from the write; answers lost after delivery; monitoring nobody awaits |
| Jurisdiction, legal documents (`jurisdictionService.ts`, `legalDocuments.ts`) | `user_jurisdictions`, `legal_documents`, `user_consents` | detect, declare, create a version, consent, list what is required | geo-blocking of payments | versions replaced while lists and consents are read |
| Complaints (`complaintsService.ts`) | `complaints` | submit, acknowledge, assign, resolve, escalate, list overdue | none | business days across weekends |
| Activity store (`activityStore.ts`) | a JSON file and its caps | append, upsert, list | `routes/activity.ts` | a read error becomes an empty store that the next write saves; one temporary file for two servers |
| Rate limiters (`middleware/auth.ts`, `routes/activity.ts`, `infra/memoryRateLimit.ts`, `infra/rateLimitDistributed.ts`) | counters in memory or in Redis | count and compare | signup, tenant routes, API keys, activity routes | increment and expiry are two requests; each draws the edge of a window differently |
| Tenant context, organizations, keys (`db/tenantContext.ts`, `tenantService.ts`, `apiCredentials.ts`, `auth/`, `routes/freeSignup.ts`) | `organizations`, `organization_members`, `projects`, `api_credentials`, `audit_events`; session settings on pooled connections | signup, found, read and create projects, make and revoke keys | row-level security; limiters | a setting that outlives its transaction; an operation over three connections |
| Readiness (`infra/startupReadiness.ts`, `security/readiness.ts`) | none | probes and flags read anew for each request | health routes | none |
| Integration clients, crypto, providers, middleware, server wiring | none or remote | HTTP calls, computations, request checks | everything | remote failures |

`PROJECT.json` lists the same parts with the files of each, and under `hazards`
the lines where each hard behaviour bites and the properties aimed at it.

What makes each component correct, and what the properties below say:

* distribution: load undercounts work in progress only by reports that settle
  nothing and by statements that failed, and races overcommit a node only by the
  requests in flight; every request is answered;
* verification: whether results agree does not depend on the order of rows, and which
  are credited only where similar pairs overlap; a majority is a real one; a completed task
  has a result, and a verified one is completed unless its verification was cut short;
* queue: every task runs, within the limits, and is lost by a restart only;
* tenant jobs: one job per key, a bounded overrun of the quota, records that
  account for the jobs, an outcome for every accepted job;
* ledger: balances that are what the transactions add up to and never negative,
  a bounded overrun of the daily limit;
* audit and issuance: what is issued rests on a completed audit and a completion of it
  that reported nothing critical, and on an investor who was accredited; a failed
  completion leaves its findings and nothing else; calls do not wait for each other for ever;
* payments: each rests on an approval that covers it and on no detected
  jurisdiction, is given to Clearing and L1 at most once, and is monitored;
* compliance desk: a mark of screening rests on every list, "nothing left to
  accept" is true, one version of a document is in force, complaints fall due on
  the right day;
* activity store: what was answered for stays until newer entries displace it;
* limiters: no more than the windows allow, and no refusal without others near;
* tenants: pooled connections carry no tenant, a disabled organization is changed only
  by requests that were under way, and what was done has its key and its audit event.

## 2. Modules

| Module | Models | State ↔ code | Actions ↔ code |
|---|---|---|---|
| `TaskAssignment` | `nodeRegistry`, `taskDistribution`, and the assigning part of the inference route and of `enqueue` | `load`, `rep`, `seen`, `tstatus`, `assigned`: columns; `pc`, `todo`, `culprit`, `remaining`: locals of a handler; `report`, `missing`: histories | one action per statement of `assignTask` and `handleTaskFailure`; row locks of the latter are `HoldsRow`; nodes report on any task, as often as they like (`MayReport`); `StatementFails` anywhere |
| `ResultConsensus` | the decision rules of `resultVerification` as operators | a sequence of rows in the order the database returned them | `DeterministicVerdict`, `NonDeterministicVerdict`, `TiebreakVerdict` |
| `TaskSettlement` | reports, queue worker and verification of one task, statement by statement | `status`, `output`: `task_results`; `consensus`: `consensus_results`; `credited`: reputation credits; `cut`: history | `Report`, `SelectPending`, `MarkResults`, `Credit`, `SaveConsensus`, `MarkCompleted`, tiebreak, `PaymentThrows`, `StatementFails`, `Crash` |
| `TaskQueue` | the in-memory queue | `queue`, `processing`; `thrown`: rejected promises whose `.catch` is pending; `failing`: pending `markTaskFailed` | `Enqueue`, `Returns`, `Throws`, `Retry`, `GiveUp`, `MarkTaskFailed`, `Crash` |
| `RetryPool` | abstract: a pool of retried jobs | state and tries of each job | `TaskQueue` implements it (`ImplementsRetryPool`) |
| `InferenceJobs` | `POST /v1/tenant/inference` and the executor | `status`, `jobKey`: `inference_requests`; `usage`: rows of `usage_records`; `exec`: position of each callback | handler: quota, lookup, insert, start, meter; executor: one action per await |
| `PaymentLedger` | `processPayment` for one user and one node on one day | `balance`, `earnings`, and sums over `token_transactions` | `Call`, `CheckLimits`, `ReadBalance`, one commit per kind, `Abort` |
| `AuditCertification` | `auditService`, its routes and the event handler, on the connection pool | audits with the completions whose critical finding is on record, certifications with the completion each is of; connections held; events under way; `left`: the completions that failed in between; `limits`: pool size and bounds of a server | `RequestAudit`, `HandleAuditRequired`, `AddFindings`, `Certify`, `VerifyCertification`, `Abort` |
| `Issuance` | extends the former with `issuanceService` | offerings, investor rows (`user` holds any id: `Ids`), holdings; `records`: filings and transfer checks | offering, accreditation, mint, filing, `Reread`; a transfer check is four steps (`BeginTransferCheck` to `LogTransferCheck`); `Fail`; `Activate` is the operator who sets an offering active |
| `ServerCalls` | the calls under way in a server, for the four modules below | `pc`, `req`: where a call waits and what it has read; `log`: history | entering, moving on, finishing and failing, used by the actions of the others |
| `KycProfiles` | `kycService` but screenings and uploads | `profiles`: rows in order of insertion | `BeginSubmit`, `WriteProfile`, `VerifyProfile` |
| `Jurisdictions` | `jurisdictionService` | `jurisdictions`: one row per user | `BeginDetect`, `DetectJurisdiction`, `DeclareJurisdiction` |
| `PaymentCompliance` | the checks of `processPayment` before BEGIN and everything after COMMIT, with the two modules before | `transactions`; `outside`: what Clearing and L1 hold; `monitors`: each `monitorTransaction`; `alerts` | one action per SELECT before BEGIN, per request and UPDATE after COMMIT, per check of the monitoring |
| `LegalDocuments` | `legalDocuments` | `documents`, `consents`; `answers`, `accepted`: histories | creating a version (UPDATE, then INSERT), consent, the question what is required in three reads |
| `Complaints` | `complaintsService` | `complaints` with the due day | submission, the four UPDATEs of staff, `Overdue` |
| `ComplianceDesk` | the compliance routes besides payments: `KycProfiles`, `LegalDocuments`, `Complaints`, and screenings and uploads | `screenings`, `kyc_documents` | `ScreenList` once per list, `MarkScreened`, `ScreenPEP`, uploads |
| `RecentLog` | abstract: a capped log, newest first | `recent`: ids | each part of the activity file implements it (`PartsAreRecentLogs`) |
| `ActivityStore` | `activityStore` and the POST handlers of `routes/activity.ts`, on one or two servers | `file`, `tmp`; `call`: per server, with the file its descriptor points to; `written`: history | `PostEvent` (with any id, also a published one), `PostJob`; read, open, write and rename as steps; `Restart` anywhere |
| `RateLimits` | three limiters in memory and the one over Redis | `memory`, `perKey`, `recent`, `redis`; `arrivals`: history | `CountMemory`, `CountPerKey`, `CountRecent`; `Incr`, `Expire`, their failures; `Tick` |
| `TenantAccess` | `routes/tenant.ts` (but inference), `routes/freeSignup.ts`, `auth/`, `tenantContext`, behind `RateLimits` | organizations, members, projects, keys; `conns`: the settings of each pooled connection; `deeds` (and whether each came late, to a disabled organization), `audit`: histories | one action per statement or transaction; `Identity` is `requireAuth`, `Visible` the policies |

`TaskSettlement` uses the operators of `ResultConsensus`; `Issuance` shares the
pool, the calls and the certifications of `AuditCertification`.
`PaymentCompliance` and `ComplianceDesk` compose the same `KycProfiles`, once with
what a payment reads and once with what the desk writes; `TenantAccess` composes
signup and the tenant routes with the limiters they pass. `MC*` modules
instantiate the others for TLC, and `*_proofs` modules hold the proofs; two of these
are about two modules each, `Compliance_proofs` and `ServerState_proofs`. The
specifications of `ComplianceDesk` and `ActivityStore` are named `DeskSpec` and
`StoreSpec` so that they can stand beside another one there.

A definition whose comment begins with "Mutant:" belongs to no specification. It
is a plausible bug in the definition below it, kept beside it to show that the
property it breaks can fail.

### Abstractions

* Outputs, ids and keys are model values. String similarity is a relation given
  as a constant, reflexive and symmetric but not transitive, as a threshold on
  edit distance is; trimming is a function on outputs.
* Time is modelled only where windows or days matter: `RateLimits` counts
  instants, `Complaints` days. Elsewhere a heartbeat is fresh or stale, a
  certification has no expiry, ledger, quota and monitoring live within one day.
* Amounts are whole tokens; the tables hold decimals and the code uses doubles.
* Geographic and reputation scores decide only an order among eligible nodes.
  `Selections` allows what the sort can produce, ties in any order.
* In `TaskAssignment` reputation takes the values of `Reputations` and what the
  penalty makes of them.
* In `InferenceJobs` there is one organization, and payloads are left out.
* Of a list of audit findings the model keeps whether one is critical, which with the
  score is what `completeAudit` decides by, and of which completion it is: two
  completions of one audit are told apart, the rows of one are not.
* In `Issuance` the id of an investor's row is its number, which a client may send
  wherever the code takes a user's id: nothing in the schema or the routes keeps the two apart.
* Sanctions lists never match and geolocation answers one country, as the code's
  stand-ins for both do. Amounts stand in their order to the limits and thresholds;
  the columns of a profile that derive from its tier are functions of it.
* `PaymentCompliance` sees one node and users with a wallet; the balances of the
  transaction between BEGIN and COMMIT are those of `PaymentLedger`.
* In `ActivityStore` a torn file reads as the empty store, as `JSON.parse` failing
  makes it; texts and the fields of a job that no cap or filter looks at are left out.
* In `RateLimits` each limiter has one key, but for the buckets in Redis.
* In `TenantAccess` a request names any row of any organization; slugs, hashes,
  signatures and the expiry of keys are left out. Row-level security is a
  constant of the deployment: the policies bind the server's role or they do not.

## 3. Runs

Each passing run explores its whole state space. Times are for two TLC workers.

| Run | Checks | Instance and size |
|---|---|---|
| `assignment_safety` | `TypeOK`, `OverloadBound`, `LoadCoversAssignments`, `RequestsFinish` | 2 nodes, 1 task, 2 handlers, capacity 1, 2 failure reports, surplus completions or failing statements; 393 k states, 46 s |
| `settlement_safety` | `CompletedHasResult`, `CreditBound`, `DeterministicDecision`, `SimilarityDecision`, `VerifiedSettles` | 3 nodes, 1 report handler and the queue worker, 3 outputs, 1 retry, 1 failing statement, 1 restart; 1.4 M states, 2 min |
| `queue_safety` | `QueuedOnce`, `NoTaskForgotten`, `StartsUnlessThrown`, `ImplementsRetryPool` | 3 tasks, 2 slots, 2 retries, 1 restart; 35 k states, 5 s |
| `jobs_safety` | `OneJobPerKey`, `QuotaOverrunBounded`, `UsageAccounted`, `StatusForward`, `AcceptedFinishes` | 2 handlers, 3 jobs, 1 key, limit 1, 1 failure, 1 restart; 292 k states, 37 s |
| `ledger_safety` | `TypeOK`, `DailyOverrunBounded` | 3 handlers (symmetric), amounts 1 and 2, 5 calls; 1.1 M states, 12 s |
| `issuance_safety` | `CertificationBacked`, `HoldingsQualified`, `InvestorRowsBounded`, `CallsFinish` | 2 handlers, 1 user, 4 mixes of limits: 2 or 3 connections, up to 2 audits, completions, investor rows and holdings, 1 offering, record and failure; 640 k states, 2 min |
| `compliance_safety` | `PaidOnlyWhenCleared`, `UnlimitedOnlyByRace`, `SubmittedOnce`, `StructuringNoticed` | 1 user, 2 calls, 2 amounts, 4 mixes of calls, 1 failure or restart; 3.5 M states, 77 s |
| `desk_safety` | `ScreenedAgainstAll`, `ClearedMeansAccepted`, `OneCurrentUnlessKeptOrRaced`, `OverdueAfterResponseDays` | 1 user, 2 calls, 2 types and 2 scopes of documents, 3 mixes, 1 failure; 1.7 M states, 46 s |
| `activity_safety` | `AnsweredKept`, `JobsAnnounced`, `PartsAreRecentLogs` | 1 or 2 servers, 3 requests, caps 2 and 1, 2 stops or unreadable files; 6.0 M states, 87 s |
| `access_safety` | `WindowBound`, `WaitingHelps`, `PoolCarriesNoTenant`, `LateChangesBounded`, `PartialOnlyByFailure` | 2 calls, 2 connections, 4 deployments, 9 mixes, limit 2, windows of 2 instants, 1 failure, 1 restart; 0.8 M states, 73 s |
| `ledger_lost` | violates `LedgerBalances` | two deposits race |
| `compliance_unmonitored` | violates `StructuringNoticed` | the instance of `compliance_safety`, with the columns the repository's migrations create |

The type invariants of the other modules are conjuncts of the property that comes
first in the run (of `InvestorRowsBounded` and `PoolCarriesNoTenant` in theirs); that of
`TaskQueue` is proved.

### What the passing runs show

* **Assignment.** `assignTask` filters on `current_load` and increments it three
  awaits later. `OverloadBound` says how far that can go wrong: by the requests
  in flight besides one. `LoadCoversAssignments` is about the other direction.
  Neither endpoint asks whether the node holds the task or has reported on it, and
  `assignTask` has no transaction, so load does undercount: `missing` adds up what
  reports that settle nothing have taken off a load and what failing statements never
  added. The property says that this is all: the increments, the decrements of
  completions and of failures, the clamp at zero, the locks and the rollbacks happen in
  any order, and lose nothing else. `RequestsFinish` isolates the one way a request
  hangs (below).
* **Settlement.** Verification is a chain of autocommitted statements, each on a
  connection it may not get, run by every report and by the queue. `CompletedHasResult`
  and `VerifiedSettles` relate the ends of that chain: once a worker has decided, only
  its own error or a restart before the last statement (`cut`) leaves the task
  assigned. `CreditBound` says that only verifications that overlapped
  credit a node twice. `DeterministicDecision` says that the order of rows does not
  matter and that the final result has its two thirds. `SimilarityDecision` gives the
  greedy clusters a reference that knows no clusters: the loop never merges more than
  two rows, so two or three results of which two are similar always meet the threshold
  and larger sets never do, in whatever order the rows come, and every similar
  pair is the credited one in some order. The decision rules are
  checked on every set of pending results the instance reaches, in every row order.
* **Queue.** `QueuedOnce` is what makes the `continue` in `processQueue`
  harmless. `StartsUnlessThrown` is the liveness that remains given that a retry is
  started by nobody (below).
  `ImplementsRetryPool` shows that the array, the set and the promises are
  together a pool in which no job is started after it is done and none more than
  `maxRetries + 1` times.
* **Jobs.** Only the unique index keeps two racing requests with one key from
  making two jobs. The executor may run to its end before the handler has written
  the first usage record; `UsageAccounted` and `StatusForward` hold in that order
  as well.
* **Ledger.** Absolute writes never produce a negative balance, because the value
  written was checked when it was read, though they lose updates (below).
* **Issuance.** A failed `completeAudit` leaves its findings behind: a critical one stays
  on record, and a retry that reports none certifies the contract all the same (below).
  `CertificationBacked` says what holds both ways: what a certification was refused for
  is on record, and a critical finding on record was answered by a refused
  certification unless its completion failed in between or is between its two
  transactions now. `HoldingsQualified` carries that to what is minted: a
  holding rests on a completion that itself has no critical finding on record.
  A recorded check that lets restricted tokens go to a row has found the row's id
  accredited as if it were a user's. With a pool of three, two mints that have both
  found no row of their user insert one each, which `InvestorRowsBounded` allows and bounds;
  with a pool of two each call waits for a second connection, only the connection
  timeout ends that, and `CallsFinish` needs it.
* **Payments.** The geo-blocking, the status of the profile and its limits are
  three SELECTs through the pool before BEGIN, and an approval may be withdrawn or
  a second profile inserted between them. `PaidOnlyWhenCleared` says what still
  holds: judged at the moment the call began, the payment was allowed.
  `UnlimitedOnlyByRace` finds the two ways to a payment without a daily limit. After
  COMMIT a request may arrive and its answer be lost; `SubmittedOnce` holds because
  nothing sends it again. `StructuringNoticed` is about several monitorings of one
  user at once: whichever comes last sees all the splits. That run gives the database the column that
  no migration of the repository creates; `compliance_unmonitored` shows that with the
  repository's own schema the property fails.
* **Desk.** `ScreenedAgainstAll` relates a flag to five rows written before it, by
  calls that overlap and fail. `ClearedMeansAccepted` holds although the documents
  shown, the list and the consents are read one after the other while operators
  replace versions. `OverdueAfterResponseDays` compares the day-by-day loop with
  a count of business days, from each kind of weekday.
* **Activity.** The rename makes each update whole, so a stop anywhere loses
  nothing that was answered for; `harmed` marks the two things that do, an
  unreadable file and requests that overlap on two servers. Within that,
  each part of the file is the abstract `RecentLog`. `JobsAnnounced` is about two updates
  of one request, the job and the event that names it: a client may send the id of that
  event, which `GET /v1/activity` publishes, and so put its own in its place
  (`Replaced`); besides this, no other update displaces it before the cap does.
* **Limiters.** `WindowBound` is exact: windows that start with a request admit
  `2 Limit - 1` in the length of one window, the sliding one `Limit`, and Redis
  `2 Limit` and the requests it failed to count, among those it answers within their
  slot. `WaitingHelps` is the other side, that a lost EXPIRE or refused requests
  block nobody later.
* **Tenants.** `PoolCarriesNoTenant` is why settings must be local to a transaction.
  `LateChangesBounded`: the status of an organization is asked for when a request is
  authenticated and never again, so an organization is still changed after an operator
  has disabled it, by those that had passed before, each at most once, even if it waits
  for Redis or for a connection meanwhile. `PartialOnlyByFailure`
  counts what a signup or a change of keys may leave half done. Where `GET
  /projects/:projectId` compares the organization of the row it has read, nothing lies between
  the comparison and the answer: the reading routes change nothing in the model.

### Bounds

Two handlers give every pairwise interleaving of statements; the bounded-overrun
properties are attained with them (`QuotaOverrunBounded` is reached with
equality without a restart; after one, the three jobs of the instance stay one
below its bound, and with `MaxJobs = 4`, which takes TLC some minutes, the same
properties hold and the bound is reached) and `ledger_safety` uses three so that the bound
is not only that of a pair. Capacity 1, quota 1 and a daily limit of 1 put the
boundary where every call meets it. One failure or restart at any point reaches
every error path from every state; two failure reports are the least that can
undo each other, and a report and its repetition, or a report and a failing statement,
share the same two. Three reporters are the least with a two-thirds majority that
is not unanimity and with a chain of similarity. Two slots and three tasks let a
task wait behind running ones, be retried, and be overtaken. Counters that only
grow (`requests`, `failures`, `crashes`, rows) are bounded by the constants
marked "bound" in each module.
`Budgets` is such a bound: each mix says how many calls of each operation a behaviour
may begin, so that operations which interact meet in one mix and others do not
multiply. `CHECK_DEADLOCK FALSE` appears in every
configuration because the server is idle once the bounded requests are served.

`compliance_safety` has amounts on both sides of the threshold for L1 and just below
the reporting threshold, tiers that allow one, both and (an unknown tier) any
amount, and lowers the counts of the velocity and structuring rules to 1 and 2.
`desk_safety` starts complaints on a Sunday, Wednesday, Friday and Saturday and keeps
the 15 days of the code. `activity_safety` has caps that the second and third
request reach, and one id shared by events and jobs. `access_safety` lets time pass
through two windows and a half with up to six requests against a limit of two, for
Redis through one window and a half.

`issuance_safety` starts a server with one of the four `SmallLimits`. Two calls on two
connections exhaust the pool, and with two completions of one audit one can fail and be
retried. Two calls on three connections get on at once, so that two mints, or a mint
and a verification, both look for a row before either inserts one: with two investor rows
and two holdings that race ends with two rows of one user, which is the bound of
`InvestorRowsBounded` for two handlers. The third mix has a transfer check between rows
whose ids clients may have verified as users'; the fourth two audits, so that a
certification can rest on the wrong one, and a filing beside the completions.

### Fairness

* A handler whose next statement can run eventually runs it (weak fairness per
  handler): Node resumes awaited promises, and PostgreSQL answers. No fairness is
  assumed of clients, nodes, failures or restarts.
* `TaskQueue`: a started `processTask` eventually returns or throws, as each of
  its awaits does; a pending `.catch` runs.
* `InferenceJobs`: callbacks given to `setImmediate` run.
* `Issuance`: a call whose connection request is served, or times out, goes on.
  The pool serves requests in order and `connectionTimeoutMillis` is 5 s, so weak
  fairness of "proceed or fail" is what the code gives.

### Findings

1. Concurrent ledger calls lose balance updates (`payment.ts:138`, run `ledger_lost`).
2. Transaction monitoring stores no alert: one of its checks selects a column that
   only another table has, so every `monitorTransaction` throws before the loop
   that stores (`transactionMonitoring.ts:229`, run `compliance_unmonitored`).

### Seen while modelling, without a run of its own

These are in the models as the code has them, and the properties name them as
exceptions where they touch one.

Tasks and settlement:

* `handleTaskFailure` awaits `assignTask`, which uses another connection, while its
  own transaction holds the failed node's row (`taskDistribution.ts:259`). If that
  node is chosen again the request waits for itself and the database sees no
  cycle: the exception in `RequestsFinish`.
* A task pushed back for a retry is started by nobody until something else is
  enqueued or ends (`taskQueue.ts:83`): the exception in `StartsUnlessThrown`.
* Reports that come after a verification are verified alone and may insert a second,
  different final result (`resultVerification.ts:269`).
* `/complete` and `/fail` take a report of any registered node on any task, and take it
  again (`index.ts:314`, `index.ts:351`): each takes one off `current_load`. A failure
  between the UPDATE of `tasks` and those of `current_load` (`taskDistribution.ts:112-121`)
  leaves an assignment that is not counted. Both are the `missing` of `LoadCoversAssignments`.
* A statement that fails after the results are marked leaves them verified and the task
  assigned; no later verification selects them again: the exception in `VerifiedSettles`.
* Two failure reports of one task overwrite each other's `assigned_nodes`, so a
  node that failed the task may be assigned to it again.
* The inference route and `enqueue` both assign the task: load is counted twice.
* A single pending report is its own majority.
* Greedy clustering can penalize a node whose output is similar to a credited one.
* `markTaskFailed` overwrites `completed`; its own rejection is not handled.
* `tasks.user_id` is read by the queue and by `distributeNodePayments` but is in
  no schema file, so the statement throws and no node is paid. Behind it,
  `gxaCoin.getBalance` reads `.data` of a payload that `ecosystem.request` has
  already unwrapped, so the direct payment would throw as well. This is why
  direct payments have no module.

Jobs, audit and issuance:

* A successful job writes two usage records, and the daily quota counts records
  (`quotaService.ts:22`), so it costs two requests; `UsageAccounted` has both.
* The handler of `audit.required` publishes `audit.required` (`auditService.ts:58`).
* A duplicate idempotency key that loses the race gets a 500; `payloadHash`
  covers only the length of the input.
* Minting requires an offering to be `active`, and no code sets that
  (`docs/AUDIT_ISSUANCE_INTEGRATION.md:146` says tokens can be minted when it is
  `ready_for_issuance`). A mint whose final read fails is reported as failed after
  its COMMIT. Tokens minted are never compared with `total_supply`, nor
  accreditation expiry with the time.
* A completion whose signing or second transaction fails leaves its findings committed
  (`auditService.ts:201`), and a retry looks only at what it is given: a contract with a
  critical finding on record can be certified, offered and minted, though
  `docs/AUDIT_ISSUANCE_INTEGRATION.md:160` says that critical issues block deployment.
* `checkTransferRestrictions` looks up a user id where the log needs the id of an
  investor row. `galaxia_id_user_id` refers to no table and `POST
  /accreditation/verify` takes any id, so a row's id can be verified as a user's and the
  check then allows the transfer to it. The cap table counts duplicate investor rows as
  holders.
* `processPayment` of kinds deposit, payment and refund, `completeAudit`,
  `processDailyPayouts`, `cancelInferenceJob` and `updateNodeStatus` have no
  caller in the server, nor has `processPayment` of kind `payment`; all kinds of
  payment and `completeAudit` are modelled as operations of their services.

Compliance:

* `middleware/compliance.ts` is mounted (`index.ts:158`) before authentication, so it
  finds no user and lets every request pass.
* A jurisdiction is detected only by `GET /jurisdiction`, always as the same, blocked
  country; a user who never asks is never blocked.
* `isGeoBlocked` and `isTravelRuleRequired` are given a country in two places where they
  want a user id: `GET /compliance/status` fails once a row exists, and no travel-rule
  record is ever written.
* An approval does not end: its expiry is stored and never compared. A new submission
  keeps the mark of screening made for the old name. An unknown tier has no limits.
* `requires_reacceptance = false` leaves the version before in force beside the new one.

Limiters and tenants:

* An error that Upstash answers with status 200 counts as a first request, and is
  allowed (`result ?? 1`). The limiters in memory are per process.
* The bucket is named before the INCR is sent. An INCR that arrives once the bucket has
  expired makes it anew, and the count of that slot starts again: with a limit of two,
  five requests of two slots can pass. Hence "within its slot" in `WindowBound`.
* Authentication, the insertion of keys and audit events run through the pool
  without the setting of an organization. Where the policies bind the server's role
  (FORCE, not a superuser), no key or membership is found, signup leaves an
  organization without a key, and no event is written: the exception in
  `PartialOnlyByFailure`.
* The key of a free signup has the scope `projects:write`, but its role is refused by
  `POST /projects`.

Activity store:

* A read error becomes an empty store that the next write saves.
* Two servers on one directory, as `docs/DEPLOYMENT.md:109` runs them, lose updates and
  may fail at the rename.
* `POST /jobs` without a status resets that of an existing job to `simulated`; a negative
  `limit` slices from the end.
* An event sent with the id of a published one replaces it, its references included
  (`activityStore.ts:129`): the exception `Replaced` in `JobsAnnounced`.

## 4. Proofs

TLC explores the instances above; the theorems hold for every value of the
constants that satisfies the named assumptions of the module.

**`TaskAssignment_proofs`** (assumes `HandlersAssumption`, `CapacityAssumption`,
`ReputationsAssumption`)

* `TypeCorrect`: `Spec => []TypeOK`. It carries "load never goes negative": it is
  the clamp in `completeTask` and in `Relieved` that keeps `load \in Nat`.
* `OverloadBounded`: `Spec => []OverloadBound`. The plain statement
  `load[n] <= Capacity + |Handlers| - 1` is not inductive, since nothing in it
  limits increments that are already decided. `OverloadBound` adds to the load the
  handlers that chose `n` and have yet to increment it (`Pending(n)`). A selection
  needs `load[n] < Capacity`, and after it at most all handlers are pending; an
  increment moves one unit from the second term to the first; everything else
  leaves the sum or lowers it.
* `LoadCovers`: `Spec => []LoadCoversAssignments`. `CoverInv` is about a node's open
  tasks (`Open(n)`), those it was assigned and has not reported on since: they are no
  more than its load, the handlers that have written the assignment and not yet
  incremented it (`Bumping(n)`), and `missing[n]`. `WriteAssignment` opens at most one
  task and adds its handler (`WriteAssignment` again of an open task adds only that), an
  increment moves a unit to the load (`BumpCovers`), a report closes a task or is missing
  (`SettleCovers`), and a failing statement moves a handler's unit to `missing`.

**`PaymentLedger_proofs`** (assumes `HandlersAssumption`, `AmountsAssumption`,
`LimitsAssumption`)

* `TypeCorrect`: `Spec => []TypeOK`. `TypeOK` includes what makes the absolute
  write safe: a payment about to commit has read at least its amount.
* `OverrunBounded`: `Spec => []DailyOverrunBounded`. The strengthening
  `OverrunInv` speaks of the calls that have passed the limit check and may still
  commit: whichever is taken as the last, what is paid, its amount, and one
  `Single` for each other, fits `Daily` plus one `Single` for each handler but one.
  A check passes a call that fits on its own; a commit turns its amount into
  `paid`.

**`ServerState_proofs`**, of `TaskQueue` (assumes `LimitsAssumption`; `Tasks` is any
set, finite or not)

* `TypeCorrect`, `TasksQueuedOnce`, `TasksBounded`, `NoneForgotten`: the safety
  properties of the queue; `ImplementsRetryPool` implies the third, and the run does
  without it. None is inductive alone. `QueueInv` adds
  `Accounted(t)`: a waiting task has been started as often as it has failed, a
  running or rejected one once more, and a task nobody has enqueued is nowhere.
  That is what turns the bound on `retries` into one on attempts. The loop of
  `processQueue` is treated once, in `Dispatched`: the entries left are the
  distinct remainder of the array, and the started ones fit the free slots.
* `QueueImplementsPool`: `Spec => ImplementsRetryPool`. One lemma per action gives
  the step of `RetryPool` it is: `Enqueue` is `Submit`, `Returns` is `Finish`,
  `Throws` is `Break`, `Retry` is `Requeue`, `GiveUp` is `Abandon`, `Crash` is
  `Stop`, and `MarkTaskFailed` changes nothing the pool knows of. `MoveStep`
  states what the steps have in common.

The same module, of `ActivityStore` (assumes `CapsAssumption`: caps of at least one)

* `AnsweredStaysListed`, `AnsweredJobsAnnounced`: `StoreSpec => []AnsweredKept` and
  `StoreSpec => []JobsAnnounced`. Neither is inductive: an answer is about a file that
  was replaced three steps before, from a copy in memory. `Calm` says what a call
  alone on the file holds of it at each of its steps (the copy is the file with the
  update applied, the temporary file is the copy), and `HistoryFits` what the file is
  to the updates that became it: the id of each stands in the file with only newer ones
  before it, or as many newer ones as the cap have displaced it, and an event in the
  file is what the last update of its id made it (`LastOf`).
  `MovedKeeps` is the step of that argument for one list. An id the server makes up is new,
  so an announcement that is not the last update of its id was replaced by a client's:
  nothing is assumed of the ids clients send.
* `PartsAreLogs`: `StoreSpec => PartsAreRecentLogs`, the refinement. Only a rename
  replaces the file until something is harmed, with an update applied to it
  (`StoreSteps`), and such an update is a `Put` of the log it belongs to (`UpdateIsPut`).
* These rest on what `[entry, ...rest.filter(...)].slice(0, max)` computes, for lists of
  any length: `WithoutIsGap` shows that the loop of the filter leaves out the one entry
  of the id, `PutMoves` that the whole moves the entry to the front. The induction is
  done without the induction theorems, on the least index at which two lists
  would differ (`LeastElement`).

**`Compliance_proofs`**, of `PaymentCompliance` (assumes `PaymentAssumption` and
`CallsAssumption`: amounts are natural numbers; any calls, users, budgets, tiers and thresholds, but it
takes at least one payment to make an alert of structuring, and three in the code)

* `PaymentsSubmittedOnce`: `Spec => []SubmittedOnce`. What Clearing and L1 hold of a
  payment says nothing by itself about what a call is about to send, so `OwnInv`
  ties the two together: the place of a call after its COMMIT fixes what is held of
  its payment (`Placed`), and no two calls have the same payment in hand. Steps come in four
  kinds: those of other operations and of monitoring leave both sides alone
  (`Quiet`), checks may end a call but not bring it past its COMMIT, the COMMIT
  gives it a row nobody has (`CommitKeeps`), and what follows writes that row only
  (`OwnStep`).
* `PaymentsAreCleared`, `UnlimitedNeedsRace`: `Spec => []PaidOnlyWhenCleared` and
  `Spec => []UnlimitedOnlyByRace`. What a check has read may be out of date at the
  COMMIT, so `ClearInv` speaks of the history and not of the tables: an approved row
  is backed by an approval after every submission of its user (`Backed`), whoever was
  detected has a row that blocks (`Detections`), and each label a call has reached says
  which entries of the log its reads have shown (`Passed`). All of it lasts, since the
  log and the profiles only grow (`Persists`), and the COMMIT hands it to the row
  (`Paid`).
* `SplitsAreNoticed`: `Spec => [](SplitsFound /\ IF RiskColumn THEN StructuringNoticed ELSE
  alerts = {})`, for every schema. `SplitsFound` is about the detection, which does not need
  the column that monitoring selects afterwards: whoever comes to that SELECT has found the
  splits it has to. What becomes of them depends on the column. The repository's migrations
  do not create it, and then no alert of any kind is ever stored, which is the general form of what
  `compliance_unmonitored` shows; with it the alert is stored. A monitoring counts what is there when it looks, which may be
  more than when its payment was committed and says nothing of the payments that came
  first. `WatchInv` therefore asks only of the payments that had enough splits before them
  (`Due`, which no later row changes: `DueStays`): until one of their monitorings is lost, each has yet to look, has it among
  what it found, or has stored the alert (or has failed for want of the column). The latest of a user's splits is always
  such a payment (`LargestElement`), and one alert is what the property asks.

The same module, of `ComplianceDesk` (assumes `CallsAssumption` and `DaysAssumption`: at
least one day to respond; any users, tiers, types, jurisdictions and numbers of calls)

* `Screened`: `DeskSpec => []ScreenedAgainstAll`. The flag is set by a call that has
  inserted its rows before, perhaps beside another that failed half way. `KycReady`
  says for each place of a call which lists it has put on record; no record
  is taken away (`KycGrows`).
* `Cleared`: `DeskSpec => []ClearedMeansAccepted`. The documents, the list of those
  required and each consent are read apart. A type and jurisdiction with a version in
  force keeps one, though which one changes, and what was once accepted stays accepted
  (`LegalGrows`). So the list a question reads has a version of each type it was
  asked for (`LegalReady`), and a consent to all on the list is one for each type.
* `OneCurrent`: `DeskSpec => []OneCurrentUnlessKeptOrRaced`. Between the UPDATE that
  unsets the versions in force and the INSERT of the new one others may insert theirs:
  `Drafted` says that a draft which users have to accept anew unsets every version in
  force that was there when it was begun.
* `OverdueInTime`: `DeskSpec => []OverdueAfterResponseDays`. The due day is stored when
  the complaint arrives and no update of staff touches it. `DueDateCounts` and
  `DueDateDecides` show that the loop over the calendar stops on the business day by
  which exactly that many have passed, for any first day and any number of days
  (by induction through `Inductive`, on the least number that fails).

**`InferenceJobs_proofs`** (assumes `ParametersAssumption`: a finite, non-empty set
of handlers; any limit and any bounds)

* `KeysMakeOneJob`, `StatusesGoForward`, `TypeCorrect`: `Spec => []OneJobPerKey`,
  `Spec => StatusForward`, `Spec => []TypeOK`, from `JobsInv`. Which transition the
  executor may write is decided by where its callback is, so the invariant says what
  the position tells of the row (`Phase`), that a handler past its INSERT has the
  job to itself (`Owned`), and that keys of rows differ (`Keyed`).
* `QuotaOverrun`: `Spec => []QuotaOverrunBounded`. Counting and metering are far
  apart, so `OverrunInv` counts both ends: what has been accepted is covered by usage
  records, handlers that have yet to write one, and what restarts may have lost; and
  with the handlers the quota has let pass it stays within the limit, those losses and
  one request for each handler but one.
* `UsageIsAccounted`: `Spec => []UsageAccounted`. While nothing has failed, `Balance`
  equates records written and records still to be written, by handlers and by
  executors, with acceptances and successes.

**`TaskSettlement_proofs`** (assumes `NodesAssumption`, `OutputsAssumption`, `AnswersAssumption`,
`WorkersAssumption`, `MaxRetriesAssumption`: finite nodes and workers, a similarity
that is reflexive and symmetric)

* `CompletedAreServed`, `CreditsAreBounded`: `Spec => []CompletedHasResult` and
  `Spec => []CreditBound`. `SettleInv` says for each worker what it holds at the
  statement it waits at (`Held`), and for each node that nobody credits it before its
  row is marked: credits paid, workers about to pay one and workers about to
  mark the row are together no more than the workers (`CreditedOnce`).
* `DecisionsAreByMajority`: `Spec => []DeterministicDecision`, for every set of pending rows in
  every order. The lemmas on the rule are independent of the state machine: the first of a
  list of candidates exists and is the least, a leading group is as large as any, and two
  groups of two thirds are one.
* `VerifiedAreHeld`: `Spec => []VerifiedIsHeld`, the safety part of `VerifiedSettles`: while a
  task has verified results and is not settled, and no verification was cut short, a worker is
  between its decision and the completion. With weak fairness of the workers that is why the
  task settles; TLC checks that conclusion.

**`TenantAccess_proofs`** (assumes `CallsAssumption`, `WindowAssumption`,
`HalfAssumption`, `ConnsAssumption`)

* `PoolIsClean`: `Spec => []PoolCarriesNoTenant`, with the type
  invariants of the limiters and the tables.
  `AccessInv` says that a request has the fields and rows that the label it waits at
  will use (`Ready`), and that a connection is out exactly while one call, its only
  holder, has a transaction open on it for its own organization (`Pool`).
* `LateIsBounded`: `Spec => []LateChangesBounded`. `LateInv` adds to the late changes of a
  disabled organization the calls that have been authenticated for it and have yet to make
  theirs (`Able`): no call joins them any more, and a change takes the place of its call.
* `PartialIsBounded`: `Spec => []PartialOnlyByFailure`. A restart takes several calls
  at once, so the bound is not one for each failure. `Losses` takes away from the
  organizations without a key and the deeds without an event those that a call under
  way still owes, and bounds the rest by failures and calls interrupted.
* `RefusalsAreForOthers`, `WindowsAreBounded`: `Spec => []WaitingHelps` and
  `Spec => []WindowBound`, from `LimitInv`. Of a counter in memory it says what its count
  stands for in the history (`Fixed`, `Sliding`): which requests of its window it has let
  through, and that any window that reaches back before it had room for less than
  `Limit`. A bucket was made by a request of its name that is not about to be counted
  again, and lives through its slot unless its EXPIRE was lost (`Made`): that request is
  the other one of `WaitingHelps`. What two slots of a key grant, with the
  requests that only wait for EXPIRE, is no more than what their buckets have counted up
  to `Limit` and the errors of INCR together (`Slots`); bounding each slot by
  itself is not enough, since each could spend all the errors.

**`Issuance_proofs`** (assumes `AuditAssumption`: finitely many calls; any pool of
auditors, users and bounds)

* `CertificationsBacked`, `HoldersQualify`: `Spec => []CertificationBacked` and
  `Spec => []HoldingsQualified`. What a call has read is only worth something if it
  stays true, so `IssuanceInv` says for each label what the reads before it have
  established (`Fits`): a critical finding is on record before the certificate, the asset is
  certified before the offering, the user is accredited once past `CheckInvestor`, the
  row found is a row of the user. It lasts because no row is taken away (`Grows`) and
  the ids some verification has accredited only become more. `Sound` and `Qualified` say it
  of the rows. `Recorded` is about the two transactions of a completion: each call of
  `completeAudit` has its completion to itself, and a critical finding on record was reported
  to the call or the certification of its completion (`Accounted` says where it has led). So a
  completion that has certified has none on record, whatever others left there. No
  assumption separates the ids of users from those of rows.
* `InvestorRowsAreBounded`: `Spec => []InvestorRowsBounded`. The table has no unique
  constraint, so two calls may both have found no row. `RowsCounted` adds the calls that
  will still insert one: once a user has a row no further call joins them, and there
  are no more of them than handlers.

Every safety property, action property and refinement that a passing run checks has a
theorem, but for `SimilarityDecision`. Some definitions were restated on the way. The CASE in `DueDate` had guards
of which two may hold on one day, and then TLA+ does not say which arm is meant (TLC
takes the first): it is an IF with an ELSE IF now, and so is the choice in `RenameTmp`.
`Without` was a `SelectSeq`, whose definition no prover unfolds: it is the filter's
loop as a recursive function, and `RecentLog!Put` needs no recursion any more.

Not within reach of the prover, and left to TLC: the liveness properties
(`RequestsFinish`, `VerifiedSettles`, `StartsUnlessThrown`, `AcceptedFinishes`,
`CallsFinish`), which rest on fairness and ENABLED. Not proved either is `SimilarityDecision`: what the greedy
loop makes of a list of any length is an induction over that list.

## 5. Not modelled

`PROJECT.json` gives the reason for every component without a module. In short:
stateless request checks, headers and metrics; cryptographic computations;
remote services beyond whether they take a request and whether their answer
arrives; capability detection and geographic lookup; read-only routes; readiness
reports, which store nothing; deployment files. Of the modelled components:

* the limiter over a table (`middleware/rateLimiter.ts`) is imported by no route;
* direct payments stop at a column that is in no schema file (above);
* transmission of travel-rule records, since none is ever written;
* `middleware/compliance.ts`, which never sees a user;
* slugs, hashes, token signatures and expiry dates of keys, certifications and
  approvals: what can be wrong with them is a comparison in one place.

## 6. Plan

The modules of the plan are written. Compositions that would add behaviour:
`PaymentCompliance` with the balances of `PaymentLedger`; `TaskQueue` with
`TaskSettlement` through the outcomes of `processTask`.

What could be proved next: that the composed models implement the
parts they are made of. No module that a proof reaches declares a RECURSIVE operator.
