------------------------------ MODULE Issuance ------------------------------
(***************************************************************************)
(* services/issuance/issuanceService.ts over AuditCertification.  Its      *)
(* calls read through the pool, outside the transaction they hold open,    *)
(* and read once more after COMMIT.  An investor's row has an id, its      *)
(* number here, and names a user by an id that refers to no table: a       *)
(* client may send a row's id for it, and several rows may name one user.  *)
(***************************************************************************)
EXTENDS AuditCertification

CONSTANT Users   \* ids of users of Galaxia ID

\* Records: regulatory_filings and transfer_restrictions_log together.
ASSUME IssuanceAssumption ==
    \A l \in Limits : \A f \in {"investors", "offerings", "holdings", "records"} : l[f] \in Nat

NewRow == 0   \* no investor row found

Ids == Users \cup (Nat \ {NewRow})   \* what investors.galaxia_id_user_id may hold

VARIABLES
    offerings,   \* in order of insertion
    investors,   \* in order of insertion
    holdings,    \* in order of insertion
    filings,     \* regulatory_filings, in order of insertion
    transfers,   \* transfer_restrictions_log, in order of insertion
    accredited   \* history: the ids some verification has accredited

records == <<filings, transfers>>
issuanceVars == <<offerings, investors, holdings, records, accredited>>
vars == <<callVars, auditVars, issuanceVars>>

Init ==
    /\ AuditInit
    /\ offerings = <<>> /\ investors = <<>> /\ holdings = <<>>
    /\ filings = <<>> /\ transfers = <<>> /\ accredited = {}

RowsOf(u) == {i \in DOMAIN investors : investors[i].user = u}

\* rows[0] of a SELECT without ORDER BY: any of the user's rows.
SomeRow(u) == IF RowsOf(u) = {} THEN {NewRow} ELSE RowsOf(u)

\* The ids that clients know: any of them may come as investorId.
Known == Users \cup DOMAIN investors

RoomForInvestor(u) ==
    RowsOf(u) # {} \/ Len(investors) + InFlight("accreditation") + InFlight("mint") < limits.investors

-----------------------------------------------------------------------------
\* createOffering
BeginOffering(h, c, only) ==
    /\ Len(offerings) + InFlight("offering") < limits.offerings
    /\ Enter(h, "verify", [kind |-> "offering", cert |-> c, accreditedOnly |-> only])
    /\ UNCHANGED <<auditVars, issuanceVars>>

CheckCertification(h) ==
    /\ Pooled(h, "verify")
    /\ IF VerifyCertification(job[h].cert) THEN Goto(h, "offer") ELSE Return(h)
    /\ UNCHANGED <<auditVars, issuanceVars>>

\* INSERT, COMMIT and offering.created; with contract code its handler asks for an audit.
InsertOffering(h, code) ==
    /\ At(h, "offer")
    /\ offerings' = Append(offerings, [cert |-> job[h].cert, status |-> "ready_for_issuance",
                                       accreditedOnly |-> job[h].accreditedOnly])
    /\ required' = required + code
    /\ Goto(h, "reread")
    /\ UNCHANGED <<audits, certifications, completions, investors, holdings, records, accredited>>

\* getOffering or getTokenHolding after COMMIT; Abort here reports a failure of what is done.
Reread(h) ==
    /\ Pooled(h, "reread")
    /\ Return(h)
    /\ UNCHANGED <<auditVars, issuanceVars>>

\* No code writes status "active"; an operator does.
Activate(o) ==
    /\ offerings[o].status = "ready_for_issuance"
    /\ offerings' = [offerings EXCEPT ![o].status = "active"]
    /\ UNCHANGED <<callVars, auditVars, investors, holdings, records, accredited>>

-----------------------------------------------------------------------------
\* verifyAccreditation
BeginAccreditation(h, u, method) ==
    /\ RoomForInvestor(u)
    /\ Enter(h, "investor", [kind |-> "accreditation", user |-> u, method |-> method])
    /\ UNCHANGED <<auditVars, issuanceVars>>

Accredits(method) == method \in {"automatic", "third-party"}

\* verifyAccreditation and mintTokens: SELECT the investor through the pool.
FindInvestor(h, i) ==
    /\ Pooled(h, "investor")
    /\ i \in SomeRow(job[h].user)
    /\ Note(h, [row |-> i], IF job[h].kind = "mint" THEN "hold" ELSE "accredit")
    /\ UNCHANGED <<auditVars, issuanceVars>>

\* Mutant: the INSERT does not depend on what was found.
WithInvestorAlways(h, status) == Append(investors, [user |-> job[h].user, status |-> status])

\* The table once a transaction has committed with row i, or a new one, of its user.
WithInvestor(h, status) ==
    IF job[h].row = NewRow
    THEN Append(investors, [user |-> job[h].user, status |-> status])
    ELSE investors

\* INSERT when it was not found, UPDATE and COMMIT.
WriteAccreditation(h) ==
    LET status == IF Accredits(job[h].method) THEN "accredited" ELSE "non-accredited"
        table == WithInvestor(h, status)
        row == IF job[h].row = NewRow THEN Len(table) ELSE job[h].row IN
    /\ At(h, "accredit")
    /\ investors' = [table EXCEPT ![row].status = status]
    /\ accredited' = IF status = "accredited" THEN accredited \cup {job[h].user}
                                              ELSE accredited
    /\ Return(h)
    /\ UNCHANGED <<auditVars, offerings, holdings, records>>

-----------------------------------------------------------------------------
\* mintTokens
BeginMint(h, o, u) ==
    /\ RoomForInvestor(u) /\ Len(holdings) + InFlight("mint") < limits.holdings
    /\ Enter(h, "offering", [kind |-> "mint", offering |-> o, user |-> u])
    /\ UNCHANGED <<auditVars, issuanceVars>>

CheckOffering(h) ==
    /\ Pooled(h, "offering")
    /\ IF offerings[job[h].offering].status = "active"
       THEN Goto(h, "eligible") ELSE Return(h)
    /\ UNCHANGED <<auditVars, issuanceVars>>

\* Mutant: an investor on record passes, whatever its status.
CheckInvestorKnown(h, i) ==
    /\ Pooled(h, "eligible")
    /\ i \in SomeRow(job[h].user)
    /\ IF offerings[job[h].offering].accreditedOnly /\ i = NewRow
       THEN Return(h) ELSE Goto(h, "investor")
    /\ UNCHANGED <<auditVars, issuanceVars>>

\* getAccreditationStatus, and transfer_restrictions, which no code changes.
CheckInvestor(h, i) ==
    /\ Pooled(h, "eligible")
    /\ i \in SomeRow(job[h].user)
    /\ IF offerings[job[h].offering].accreditedOnly
            /\ (i = NewRow \/ investors[i].status # "accredited")
       THEN Return(h) ELSE Goto(h, "investor")
    /\ UNCHANGED <<auditVars, issuanceVars>>

\* INSERT of the investor when it was not found, of the holding, and COMMIT.
MintHolding(h) ==
    LET table == WithInvestor(h, "unverified")
        row == IF job[h].row = NewRow THEN Len(table) ELSE job[h].row IN
    /\ At(h, "hold")
    /\ investors' = table
    /\ holdings' = Append(holdings, [offering |-> job[h].offering, row |-> row])
    /\ Goto(h, "reread")
    /\ UNCHANGED <<auditVars, offerings, records, accredited>>

-----------------------------------------------------------------------------
RoomForRecord == Len(filings) + Len(transfers) + InFlight("transfer") < limits.records

\* submitFiling: one INSERT in a transaction, of an offering that exists.
SubmitFiling(o, autoSubmit) ==
    /\ FreeConnection /\ RoomForRecord
    /\ filings' = Append(filings, [offering |-> o, status |-> IF autoSubmit THEN "submitted" ELSE "draft"])
    /\ UNCHANGED <<callVars, auditVars, offerings, investors, holdings, transfers, accredited>>

\* checkTransferRestrictions, from an investor's row to whatever id the request names.
\* The offering is the first SELECT; its restrictions never change.
BeginTransferCheck(h, o, from, to) ==
    /\ RoomForRecord
    /\ Enter(h, "lockup", [kind |-> "transfer", offering |-> o, from |-> from, to |-> to])
    /\ UNCHANGED <<auditVars, issuanceVars>>

\* LIMIT 1 of the sender's holdings: whether its lockup_end_date lies ahead.
CheckLockup(h, locked) ==
    /\ Pooled(h, "lockup")
    /\ locked => \E n \in DOMAIN holdings :
                    holdings[n].offering = job[h].offering /\ holdings[n].row = job[h].from
    /\ Note(h, [locked |-> locked],
            IF offerings[job[h].offering].accreditedOnly THEN "recipient" ELSE "record")
    /\ UNCHANGED <<auditVars, issuanceVars>>

\* getAccreditationStatus takes the id for a user's, be it that of a row.
CheckRecipient(h, i) ==
    /\ Pooled(h, "recipient")
    /\ i \in SomeRow(job[h].to)
    /\ Note(h, [locked |-> job[h].locked \/ i = NewRow \/ investors[i].status # "accredited"], "record")
    /\ UNCHANGED <<auditVars, issuanceVars>>

\* The INSERT, whose reference is to a row: with another id it fails, and so does the call.
LogTransferCheck(h) ==
    /\ Pooled(h, "record")
    /\ transfers' = IF job[h].to \in DOMAIN investors
                    THEN Append(transfers, [offering |-> job[h].offering, from |-> job[h].from,
                                            to |-> job[h].to, allowed |-> ~job[h].locked])
                    ELSE transfers
    /\ Return(h)
    /\ UNCHANGED <<auditVars, offerings, investors, holdings, filings, accredited>>

-----------------------------------------------------------------------------
Step(h) ==
    \/ AuditStep(h) /\ UNCHANGED issuanceVars
    \/ CheckCertification(h)
    \/ \E code \in {0, 1} : InsertOffering(h, code)
    \/ Reread(h)
    \/ \E i \in 0 .. Len(investors) : FindInvestor(h, i) \/ CheckInvestor(h, i)
    \/ WriteAccreditation(h)
    \/ CheckOffering(h)
    \/ MintHolding(h)
    \/ \E locked \in BOOLEAN : CheckLockup(h, locked)
    \/ \E i \in 0 .. Len(investors) : CheckRecipient(h, i)
    \/ LogTransferCheck(h)

Fail(h) == Abort(h) /\ UNCHANGED <<auditVars, issuanceVars>>

Next ==
    \/ AuditNext /\ UNCHANGED issuanceVars
    \/ \E h \in Handlers : Step(h) \/ Fail(h)
    \/ \E h \in Handlers, c \in 0 .. Len(certifications), only \in BOOLEAN : BeginOffering(h, c, only)
    \/ \E o \in DOMAIN offerings : Activate(o)
    \/ \E h \in Handlers, u \in Known, m \in {"automatic", "self-certified"} : BeginAccreditation(h, u, m)
    \/ \E h \in Handlers, o \in DOMAIN offerings, u \in Known : BeginMint(h, o, u)
    \/ \E o \in DOMAIN offerings, autoSubmit \in BOOLEAN : SubmitFiling(o, autoSubmit)
    \/ \E h \in Handlers, o \in DOMAIN offerings, from \in DOMAIN investors, to \in Known :
         BeginTransferCheck(h, o, from, to)

Spec == Init /\ [][Next]_vars

\* The pool serves its queue in order or times a waiting call out, and PostgreSQL
\* answers: a call always gets on or fails.
FairSpec == Spec /\ \A h \in Handlers : WF_vars(Step(h) \/ Fail(h))

-----------------------------------------------------------------------------
\* Ranges; offerings and holdings refer to rows that exist, as their foreign keys demand.
TypeOK ==
    /\ AuditTypeOK
    /\ offerings \in Seq([cert : DOMAIN certifications, accreditedOnly : BOOLEAN,
                          status : {"ready_for_issuance", "active"}])
    /\ investors \in Seq([user : Ids, status : {"accredited", "non-accredited", "unverified"}])
    /\ holdings \in Seq([offering : DOMAIN offerings, row : DOMAIN investors])
    /\ filings \in Seq([offering : DOMAIN offerings, status : {"draft", "submitted"}])
    /\ transfers \in Seq([offering : DOMAIN offerings, from : DOMAIN investors, to : DOMAIN investors,
                          allowed : BOOLEAN])
    /\ accredited \subseteq Ids

\* Tokens are held only of contracts with a certified audit to which the completion that certified
\* it has reported no critical finding ("Failed audit blocks token issuance",
\* tests/integration/audit-issuance.test.ts:82): what critical finding the audit has on record is
\* another completion's, which failed after committing it, was refused for it, or came later.
\* Those of an accredited-only offering are held by users who have been accredited, although
\* mintTokens checks one row of the user, outside its transaction, and inserts for another.  A
\* check on record that lets such tokens go to a row has found the row's own id accredited as if
\* it were a user's.
HoldingsQualified ==
    /\ \A n \in DOMAIN holdings :
        LET o == offerings[holdings[n].offering]
            c == certifications[o.cert] IN
        /\ c.certified /\ c.completion \notin audits[c.audit].criticals
        /\ o.accreditedOnly => investors[holdings[n].row].user \in accredited
    /\ \A n \in DOMAIN transfers :
        offerings[transfers[n].offering].accreditedOnly /\ transfers[n].allowed => transfers[n].to \in accredited

\* The SELECT before the INSERT makes at most one row per racing call: the table
\* has no unique index on galaxia_id_user_id.  Rows keep their ranges and references.
InvestorRowsBounded ==
    TypeOK /\ \A i \in DOMAIN investors : Cardinality(RowsOf(investors[i].user)) <= Cardinality(Handlers)

\* Calls that hold one connection each and wait for another get on or fail.
CallsFinish == \A h \in Handlers : pc[h] # "idle" ~> pc[h] = "idle"
=============================================================================
