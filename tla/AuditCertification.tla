------------------------- MODULE AuditCertification -------------------------
(***************************************************************************)
(* services/audit/auditService.ts and the in-process event bus of          *)
(* services/events/auditEventHandler.ts, on the connection pool of         *)
(* config/database.ts.  A handler is a call in flight: it keeps one        *)
(* connection from BEGIN to release, if it opens a transaction, and takes  *)
(* another for every statement it sends through the pool; a call that uses *)
(* one connection once is one step, its COMMIT.                            *)
(***************************************************************************)
EXTENDS Integers, Sequences, FiniteSets, TLC

CONSTANTS
    Handlers,        \* calls in flight
    Limits           \* the size of a server's pool, DB_POOL_MAX, with bounds: how many statements
                     \* or signatures fail, calls of completeAudit are made, and rows of each
                     \* table are inserted

ASSUME AuditAssumption ==
    /\ IsFiniteSet(Handlers)
    /\ \A l \in Limits : \A f \in {"connections", "failures", "audits", "completions"} : l[f] \in Nat

Scores == {79, 80}                       \* around the pass mark
NoJob == [kind |-> "none"]

VARIABLES
    limits,         \* of this server
    pc,             \* per handler: where it waits, "idle" without a call
    job,            \* per handler: its arguments and what it has read
    audits,         \* audit_requests, each with the completions that have recorded a critical
                    \* finding in audit_findings, in order of insertion
    certifications, \* audit_certifications, with the completion each is of, and whether that
                    \* reported a critical finding
    required,       \* audit.required events not handled yet
    completions,    \* history: calls of completeAudit so far
    left,           \* history: the completions that failed once their findings were committed
    failures

auditVars == <<audits, certifications, required, completions>>
callVars == <<limits, pc, job, failures, left>>

AuditInit ==
    /\ limits \in Limits
    /\ pc = [h \in Handlers |-> "idle"] /\ job = [h \in Handlers |-> NoJob]
    /\ audits = <<>> /\ certifications = <<>>
    /\ required = 0 /\ failures = 0 /\ completions = 0 /\ left = {}

\* Where a call holds no connection: checkTransferRestrictions opens no transaction.
Unconnected == {"idle", "lockup", "recipient", "record"}

\* Where it has what it needs: the statements go to the client it holds.
Writing == {"offer", "accredit", "hold", "certify"}

\* pool.connect and pool.query find a connection.
FreeConnection == Cardinality({h \in Handlers : pc[h] \notin Unconnected}) < limits.connections

Enter(h, l, j) ==
    /\ pc[h] = "idle" /\ FreeConnection
    /\ pc' = [pc EXCEPT ![h] = l] /\ job' = [job EXCEPT ![h] = j]
    /\ UNCHANGED <<limits, failures, left>>

\* The calls of a kind under way, which a bound counts with the rows they may insert.
InFlight(kind) == Cardinality({h \in Handlers : job[h].kind = kind})

At(h, l) == pc[h] = l
Pooled(h, l) == At(h, l) /\ FreeConnection

Goto(h, l) == pc' = [pc EXCEPT ![h] = l] /\ UNCHANGED <<limits, job, failures, left>>

\* r with the fields of facts.
With(r, facts) == [f \in DOMAIN r \cup DOMAIN facts |-> IF f \in DOMAIN facts THEN facts[f] ELSE r[f]]

Note(h, facts, l) ==
    /\ pc' = [pc EXCEPT ![h] = l] /\ job' = [job EXCEPT ![h] = With(@, facts)]
    /\ UNCHANGED <<limits, failures, left>>

\* The call returns or throws: finally releases the connection.
Release(h) ==
    /\ pc' = [pc EXCEPT ![h] = "idle"] /\ job' = [job EXCEPT ![h] = NoJob]
    /\ UNCHANGED limits

Return(h) == Release(h) /\ UNCHANGED <<failures, left>>

\* What a ROLLBACK of completeAudit does not take back.
Leaves(h) == left' = left \cup (IF pc[h] = "certify" THEN {job[h].completion} ELSE {})

\* Mutant: connectionTimeoutMillis 0, a call waits for ever.
AbortOnErrorOnly(h) ==
    /\ pc[h] # "idle"
    /\ failures < limits.failures /\ failures' = failures + 1
    /\ Release(h) /\ Leaves(h)

\* A statement fails, or waits connectionTimeoutMillis for a connection: ROLLBACK.
Abort(h) ==
    /\ pc[h] # "idle"
    /\ \/ pc[h] \notin Writing /\ ~FreeConnection /\ UNCHANGED failures
       \/ failures < limits.failures /\ failures' = failures + 1
    /\ Release(h) /\ Leaves(h)

-----------------------------------------------------------------------------
\* The INSERT and the event that follows its COMMIT, whoever has asked for it.
CreateAuditRequest ==
    /\ FreeConnection
    /\ Len(audits) < limits.audits
    /\ audits' = Append(audits, [status |-> "pending", criticals |-> {}])
    /\ UNCHANGED <<callVars, certifications, completions>>

RequestAudit ==
    /\ CreateAuditRequest
    /\ required' = required + 1

\* The handler of audit.required creates an audit, which publishes audit.required.
HandleAuditRequired ==
    /\ required > 0
    /\ CreateAuditRequest
    /\ required' = required - 1 + 1

\* createAuditRequest throws in the handler: the publisher logs it, nothing is retried.
DropAuditRequired ==
    /\ required > 0
    /\ failures < limits.failures
    /\ failures' = failures + 1
    /\ required' = required - 1
    /\ UNCHANGED <<limits, pc, job, left, audits, certifications, completions>>

-----------------------------------------------------------------------------
\* Of a list of findings, whether one is critical decides.
BeginCompleteAudit(h, a, critical, score) ==
    /\ completions < limits.completions
    /\ completions' = completions + 1
    /\ Enter(h, "findings", [kind |-> "audit", audit |-> a, completion |-> completions + 1,
                             critical |-> critical, score |-> score])
    /\ UNCHANGED <<audits, certifications, required>>

\* Mutant: the findings go with a transaction that is never committed.
AddFindingsUncommitted(h) ==
    /\ Pooled(h, "findings")
    /\ Goto(h, "certify")
    /\ UNCHANGED auditVars

\* In a transaction of its own, on a second connection: a later ROLLBACK keeps them.
AddFindings(h) ==
    /\ Pooled(h, "findings")
    /\ audits' = IF job[h].critical
                 THEN [audits EXCEPT ![job[h].audit].criticals = @ \cup {job[h].completion}]
                 ELSE audits
    /\ Goto(h, "certify")
    /\ UNCHANGED <<certifications, required, completions>>

\* Of the findings reported with this call, and not of those on record.
Certified(critical, score) == ~critical /\ score >= 80

\* Both signatures, the INSERT, the UPDATE of the request and COMMIT.
Certify(h) ==
    /\ At(h, "certify")
    /\ LET j == job[h] IN
        /\ certifications' = Append(certifications,
             [audit |-> j.audit, completion |-> j.completion, critical |-> j.critical,
              certified |-> Certified(j.critical, j.score)])
        /\ audits' = [audits EXCEPT ![j.audit].status = "completed"]
    /\ Return(h)
    /\ UNCHANGED <<required, completions>>

\* No code sets revoked or expires_at: a row that exists is valid.
VerifyCertification(c) ==
    /\ c \in DOMAIN certifications
    /\ certifications[c].certified

AuditStep(h) == AddFindings(h) \/ Certify(h)

AuditNext ==
    \/ RequestAudit
    \/ HandleAuditRequired
    \/ DropAuditRequired
    \/ \E h \in Handlers, a \in DOMAIN audits, critical \in BOOLEAN, s \in Scores :
         BeginCompleteAudit(h, a, critical, s)
    \/ \E h \in Handlers : AuditStep(h)

-----------------------------------------------------------------------------
\* Ranges; a certification refers to an audit on record, whatever verifyCertification let pass.
AuditTypeOK ==
    /\ audits \in Seq([status : {"pending", "completed"}, criticals : SUBSET (1 .. completions)])
    /\ certifications \in Seq([audit : DOMAIN audits, completion : 1 .. completions,
                               critical : BOOLEAN, certified : BOOLEAN])
    /\ left \subseteq 1 .. completions
    /\ limits \in Limits /\ {required, failures, completions} \subseteq Nat

\* completeAudit writes findings and certification in two transactions, on two connections, and
\* either may fail: the audit of a certification is completed and the critical finding it was
\* refused for is on record; and each completion's critical finding on record goes with a
\* certification that it was refused for, unless the completion failed in between or is there now.
CertificationBacked ==
    /\ \A c \in DOMAIN certifications :
        LET a == audits[certifications[c].audit] IN
        /\ a.status = "completed"
        /\ certifications[c].critical => certifications[c].completion \in a.criticals
    /\ \A a \in DOMAIN audits : \A n \in audits[a].criticals :
        \/ n \in left
        \/ \E h \in Handlers : At(h, "certify") /\ job[h].audit = a /\ job[h].completion = n
        \/ \E c \in DOMAIN certifications :
              /\ certifications[c].audit = a /\ certifications[c].completion = n
              /\ ~certifications[c].certified

=============================================================================
