---------------------------- MODULE TenantAccess ----------------------------
(***************************************************************************)
(* Organizations, their members, projects and credentials:                 *)
(* routes/tenant.ts and routes/freeSignup.ts with the authentication, the  *)
(* limiters and the transactions they go through.  Row-level security is a *)
(* setting of the pooled connection a statement runs on.                   *)
(***************************************************************************)
EXTENDS RateLimits

CONSTANTS
    Conns, NoCall,
    Deployments   \* bound: the settings a server may be started with

ASSUME ConnsAssumption == NoCall \notin Calls

VARIABLES
    enforced,  \* the policies bind the role of the server (FORCE, and no superuser)
    dev,       \* ALLOW_DEV_AUTH outside production
    orgs,      \* per organization: its status, and whether it was made by free signup
    members, projects, creds,
    conns,     \* per connection: its holder and the settings the policies read
    deeds, audit   \* history: changes made, and those with an event

rows == <<orgs, members, projects, creds>>
rest == <<enforced, dev, log>>
vars == <<callVars, limitVars, rest, rows, conns, deeds, audit>>

None == 0    \* current_organization_id() is NULL
Blank == [call |-> NoCall, org |-> None, bootstrap |-> FALSE]

AccessInit ==
    /\ CallsInit /\ LimitsInit
    /\ enforced \in BOOLEAN /\ dev \in BOOLEAN
    /\ [enforced |-> enforced, dev |-> dev, limiting |-> limiting] \in Deployments
    /\ orgs = <<>> /\ members = {} /\ projects = <<>> /\ creds = <<>>
    /\ conns = [k \in Conns |-> Blank]
    /\ deeds = <<>> /\ audit = {}

-----------------------------------------------------------------------------
\* ROLE_PERMISSIONS and the scopes of the key free signup makes.
Reading == {"projects:read", "usage:read", "audit:read"}
RolePermissions ==
    [OWNER |-> Reading \cup {"projects:write"}, ADMIN |-> Reading \cup {"projects:write"},
     AI_OPERATOR |-> {"projects:read", "usage:read"}, DEVELOPER |-> {"projects:read", "projects:write"},
     BILLING |-> {"usage:read"}, AUDITOR |-> {"audit:read", "usage:read"},
     VIEWER |-> {"projects:read", "usage:read"}, API_SERVICE_ACCOUNT |-> {}]
SignupScopes == Reading \cup {"projects:write"}

\* requireRole of a route; routes without it take every role.
RolesFor(op) ==
    CASE op = "create" -> {"OWNER", "ADMIN", "DEVELOPER"}
      [] op \in {"key", "revoke"} -> {"OWNER", "ADMIN"}
      [] OTHER -> DOMAIN RolePermissions

\* The scope the handler of a route asks for; some ask for none.
ScopesFor(op) ==
    CASE op \in {"organization", "list", "project"} -> {"projects:read"}
      [] op = "create" -> {"projects:write"}
      [] op = "usage" -> {"usage:read"}
      [] op = "trail" -> {"audit:read"}
      [] OTHER -> {}

Authorized(r) == ScopesFor(r.op) \subseteq RolePermissions[r.role] \cup r.scopes

-----------------------------------------------------------------------------
Free(k) == conns[k].call = NoCall

\* The policies, USING and WITH CHECK alike, for a row of org on connection k.
Visible(k, org) == ~enforced \/ conns[k].bootstrap \/ conns[k].org = org

\* pool.query: one statement on whichever connection is free.
OnPool(org, visible) == \E k \in Conns : Free(k) /\ Visible(k, org) = visible

Take(c, k, org, bootstrap) ==
    conns' = [conns EXCEPT ![k] = [call |-> c, org |-> org, bootstrap |-> bootstrap]]

\* Mutant: set_config(..., false), for the session.
AfterSession(conn) == [conn EXCEPT !.call = NoCall]
\* COMMIT or ROLLBACK ends what set_config(..., true) has set.
AfterTransaction(conn) == Blank

Release(c) ==
    conns' = [k \in Conns |-> IF conns[k].call = c THEN AfterTransaction(conns[k]) ELSE conns[k]]

\* A change in the organization, and whether that had been disabled.
Disabled(org) == org \in DOMAIN orgs /\ ~orgs[org].active
Deed(op, org) == deeds' = Append(deeds, [op |-> op, org |-> org, late |-> Disabled(org)])

-----------------------------------------------------------------------------
\* POST /free-signup, up to createOrganization: as the limiter decides.
BeginSignup(c) ==
    /\ UNCHANGED <<rest, rows, conns, deeds, audit>>
    /\ \/ AskRedis(c, <<"signup">>, "organization", [op |-> "signup"])
       \/ MemoryAllows /\ Enter(c, "organization", [op |-> "signup"]) /\ CountMemory
       \/ ~MemoryAllows /\ AtOnce("signup") /\ CountMemory

\* POST /organizations, where the deployment allows it.
BeginOrganization(c) ==
    /\ dev
    /\ Enter(c, "organization", [op |-> "found"])
    /\ UNCHANGED <<limitVars, rest, rows, conns, deeds, audit>>

OpenBootstrap(c) ==
    /\ At(c, "organization")
    /\ \E k \in Conns : Free(k) /\ Take(c, k, None, TRUE)
    /\ Goto(c, "bootstrap")
    /\ UNCHANGED <<limitVars, rest, rows, deeds, audit>>

\* createOrganization: the organization and its owner, in one transaction.
CommitOrganization(c) ==
    LET org == Len(orgs) + 1 IN
    /\ At(c, "bootstrap")
    /\ orgs' = Append(orgs, [active |-> TRUE, signup |-> req[c].op = "signup"])
    /\ \E u \in Users : members' = members \cup {[org |-> org, user |-> u, role |-> "OWNER", active |-> TRUE]}
    /\ Release(c) /\ Deed(req[c].op, org)
    /\ Note(c, [org |-> org, target |-> SignupScopes, deed |-> Len(deeds) + 1],
            IF req[c].op = "signup" THEN "credential" ELSE "event")
    /\ UNCHANGED <<limitVars, rest, projects, creds, audit>>

-----------------------------------------------------------------------------
\* requireAuth: by key, by membership, or by headers in development.
Key == {[org |-> creds[n].org, role |-> "API_SERVICE_ACCOUNT", scopes |-> creds[n].scopes] :
            n \in {n \in DOMAIN creds : creds[n].active /\ orgs[creds[n].org].active}}
\* Mutant: the status of the organization is not looked at.
AnyMembership == {[org |-> m.org, role |-> m.role, scopes |-> {}] : m \in {m \in members : m.active}}
Membership == {[org |-> m.org, role |-> m.role, scopes |-> {}] :
                   m \in {m \in members : m.active /\ orgs[m.org].active}}
Headers == {[org |-> o, role |-> a, scopes |-> {}] :
                o \in DOMAIN orgs, a \in IF dev THEN {"ADMIN", "VIEWER"} ELSE {}}

Identity(who) ==
    \/ who \in Key \cup Membership /\ OnPool(who.org, TRUE)
    \/ who \in Headers

\* What a request names: the credential to revoke, of any organization; the scopes of a new
\* key, of which none is for the routes here by default.
Targets(op) ==
    CASE op = "revoke" -> DOMAIN creds
      [] op = "key" -> {{}, {"projects:read"}} [] OTHER -> {None}

Limited == {"organization", "status", "key"}
Entry(op) == CASE op = "key" -> "credential" [] op = "revoke" -> "revoke" [] OTHER -> "tenant"

BeginTenant(c, op) ==
    \E who \in Key \cup Membership \cup Headers, target \in Targets(op) :
        LET r == With(who, [op |-> op, target |-> target]) IN
        /\ Identity(who) /\ who.role \in RolesFor(op)
        /\ IF op \in Limited
           THEN \/ AskRedis(c, IF op = "key" THEN <<"cred", who.org>> ELSE <<"read", who.org>>, Entry(op), r)
                \/ limiting = "local" /\ Enter(c, Entry(op), r) /\ UNCHANGED limitVars
           ELSE Enter(c, Entry(op), r) /\ UNCHANGED limitVars
        /\ UNCHANGED <<rest, rows, conns, deeds, audit>>

\* withTenantTransaction, after authorize.
OpenTenant(c) ==
    /\ At(c, "tenant") /\ Authorized(req[c])
    /\ \E k \in Conns : Free(k) /\ Take(c, k, req[c].org, FALSE)
    /\ Goto(c, "transaction")
    /\ UNCHANGED <<limitVars, rest, rows, deeds, audit>>

Refuse(c) ==
    /\ At(c, "tenant") /\ ~Authorized(req[c])
    /\ Finish(c)
    /\ UNCHANGED <<limitVars, rest, rows, conns, deeds, audit>>

\* GET /organization, /status, /projects, /projects/:id, /usage and /audit: they select rows of
\* the organization and change nothing.
ReadTenant(c) ==
    /\ At(c, "transaction") /\ req[c].op # "create"
    /\ Release(c) /\ Finish(c)
    /\ UNCHANGED <<limitVars, rest, rows, deeds, audit>>

\* POST /projects.
CommitProject(c) ==
    /\ At(c, "transaction") /\ req[c].op = "create"
    /\ projects' = Append(projects, req[c].org)
    /\ Release(c) /\ Deed("create", req[c].org)
    /\ Note(c, [deed |-> Len(deeds) + 1], "event")
    /\ UNCHANGED <<limitVars, rest, orgs, members, creds, audit>>

-----------------------------------------------------------------------------
\* createApiCredential for signup and POST /credentials.
\* Mutant: the key goes to the organization created last.
InsertForLast(c) ==
    /\ At(c, "credential") /\ OnPool(req[c].org, TRUE)
    /\ creds' = Append(creds, [org |-> Len(orgs), scopes |-> req[c].target, active |-> TRUE])
    /\ IF req[c].op = "signup"
       THEN Goto(c, "event") /\ UNCHANGED deeds
       ELSE Deed("key", req[c].org) /\ Note(c, [deed |-> Len(deeds) + 1], "event")
    /\ UNCHANGED <<limitVars, rest, orgs, members, projects, conns, audit>>
InsertCredential(c) ==
    /\ At(c, "credential") /\ OnPool(req[c].org, TRUE)
    /\ creds' = Append(creds, [org |-> req[c].org, scopes |-> req[c].target, active |-> TRUE])
    /\ IF req[c].op = "signup"
       THEN Goto(c, "event") /\ UNCHANGED deeds
       ELSE Deed("key", req[c].org) /\ Note(c, [deed |-> Len(deeds) + 1], "event")
    /\ UNCHANGED <<limitVars, rest, orgs, members, projects, conns, audit>>

Revoke(c) ==
    LET n == req[c].target IN
    /\ At(c, "revoke") /\ OnPool(req[c].org, TRUE)
    /\ creds[n].org = req[c].org /\ creds[n].active
    /\ creds' = [creds EXCEPT ![n].active = FALSE]
    /\ Deed("revoke", creds[n].org) /\ Note(c, [deed |-> Len(deeds) + 1], "event")
    /\ UNCHANGED <<limitVars, rest, orgs, members, projects, conns, audit>>

\* appendAuditEvent, and the answer.
AppendAudit(c) ==
    /\ At(c, "event") /\ OnPool(req[c].org, TRUE)
    /\ audit' = audit \cup {req[c].deed}
    /\ Finish(c)
    /\ UNCHANGED <<limitVars, rest, rows, conns, deeds>>

\* A statement of the pool the policies refuse, or a key that is not there: 500 or 404.
Unseen(c) ==
    /\ \/ pc[c] \in {"credential", "event", "revoke"} /\ OnPool(req[c].org, FALSE)
       \/ At(c, "revoke") /\ ~(creds[req[c].target].org = req[c].org /\ creds[req[c].target].active)
    /\ Finish(c)
    /\ UNCHANGED <<limitVars, rest, rows, conns, deeds, audit>>

-----------------------------------------------------------------------------
\* An operator disables an organization, or adds or removes a member.
Operate ==
    /\ AtOnce("operate")
    /\ \/ \E o \in DOMAIN orgs : orgs' = [orgs EXCEPT ![o].active = FALSE] /\ UNCHANGED members
       \/ \E o \in DOMAIN orgs, u \in Users, a \in {"DEVELOPER", "VIEWER"} :
            /\ \A m \in members : ~(m.org = o /\ m.user = u)
            /\ members' = members \cup {[org |-> o, user |-> u, role |-> a, active |-> TRUE]}
            /\ UNCHANGED orgs
       \/ \E m \in members :
            m.active /\ members' = (members \ {m}) \cup {[m EXCEPT !.active = FALSE]} /\ UNCHANGED orgs
    /\ UNCHANGED <<limitVars, rest, projects, creds, conns, deeds, audit>>

\* A statement fails; withTenantTransaction and withBootstrapTransaction roll back.
StatementFails(c) ==
    /\ pc[c] \notin {"incr", "expire"}
    /\ Fail(c) /\ Release(c)
    /\ UNCHANGED <<limitVars, rest, rows, deeds, audit>>

\* The process stops; the server rolls back what its connections had open.
Restart ==
    /\ Begin("restart")
    /\ pc' = [c \in Calls |-> "idle"] /\ req' = [c \in Calls |-> NoRequest]
    /\ conns' = [k \in Conns |-> Blank]
    /\ Forget
    /\ UNCHANGED <<failures, rest, rows, deeds, audit>>

TenantOps == {"organization", "status", "list", "project", "usage", "trail", "create", "key", "revoke"}

Next ==
    \/ \E c \in Calls :
        \/ BeginSignup(c) \/ BeginOrganization(c) \/ OpenBootstrap(c) \/ CommitOrganization(c)
        \/ \E op \in TenantOps : BeginTenant(c, op)
        \/ OpenTenant(c) \/ Refuse(c) \/ ReadTenant(c) \/ CommitProject(c)
        \/ InsertCredential(c) \/ Revoke(c) \/ AppendAudit(c) \/ Unseen(c) \/ StatementFails(c)
    \/ LimitsNext /\ UNCHANGED <<rest, rows, conns, deeds, audit>>
    \/ Operate
    \/ Restart

Spec == AccessInit /\ [][Next]_vars

-----------------------------------------------------------------------------
\* Ranges and references; a call holds a connection exactly while it has a transaction open.
TypeOK ==
    /\ LimitsTypeOK
    /\ \A m \in members : m.org \in DOMAIN orgs
    /\ \A n \in DOMAIN creds : creds[n].org \in DOMAIN orgs
    /\ \A p \in DOMAIN projects : projects[p] \in DOMAIN orgs
    /\ audit \subseteq DOMAIN deeds
    /\ \A c \in Calls : Cardinality({k \in Conns : conns[k].call = c}) =
                            IF pc[c] \in {"bootstrap", "transaction"} THEN 1 ELSE 0

\* "Run queries within a transaction with RLS org context (transaction-local)": a connection in
\* the pool grants nothing, and one that is out grants what its holder was authenticated for.  A
\* call holds one exactly while its transaction is open.
PoolCarriesNoTenant ==
    TypeOK /\ \A k \in Conns : LET conn == conns[k] IN
        /\ Free(k) => conn = Blank
        /\ ~Free(k) => IF At(conn.call, "bootstrap") THEN conn.bootstrap
                       ELSE conn.org = req[conn.call].org /\ ~conn.bootstrap

\* Every authentication asks for the status of the organization, none of the later statements
\* does: once it is disabled, what still changes in it are the requests that had been authenticated
\* before, each at most once, whatever its members, keys and limiters do later.  The headers of
\* development are not checked.
LateChangesBounded ==
    dev \/ \A o \in DOMAIN orgs :
        Cardinality({n \in DOMAIN deeds : deeds[n].org = o /\ deeds[n].late}) <= Cardinality(Calls)

\* What a restart can have interrupted.
Interrupted == (life - 1) * Cardinality(Calls)

\* What a caller has been told is done is done in full: signup leaves no organization without
\* a key, and each organization, project, key and revocation has its audit event; but for calls
\* that have not ended, failed or were stopped, or unless the policies refuse the INSERT.
PartialOnlyByFailure ==
    LET keyed == {creds[n].org : n \in DOMAIN creds}
        keyless == {o \in DOMAIN orgs \ keyed : orgs[o].signup}
        lost == failures + Interrupted IN
    enforced \/
        /\ Cardinality(keyless) <= Cardinality({c \in Calls : At(c, "credential")}) + lost
        /\ Cardinality(DOMAIN deeds \ audit)
             <= Cardinality({c \in Calls : pc[c] \in {"credential", "event"}}) + lost
=============================================================================
