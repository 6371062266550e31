-------------------------- MODULE Issuance_proofs --------------------------
(***************************************************************************)
(* Proofs about Issuance and the AuditCertification below it, for any      *)
(* users, any finite set of handlers, and any pool and bounds.             *)
(***************************************************************************)
EXTENDS Issuance, FiniteSetTheorems, TLAPS

\* The labels at which a call works on an audit, on a user, on a transfer check.
Auditing == {"findings", "certify"}
Serving == {"investor", "accredit", "offering", "eligible", "hold"}
Transferring == {"lockup", "recipient", "record"}
Inserts == {"accredit", "hold"}
Labels == {"idle", "verify", "offer", "reread"} \cup Auditing \cup Serving \cup Transferring

\* What mintTokens has established once CheckInvestor is behind it.
Eligible(j) ==
    /\ "offering" \in DOMAIN j /\ j.offering \in DOMAIN offerings
    /\ offerings[j.offering].accreditedOnly => j.user \in accredited

\* The row FindInvestor has found is of the user of the call, if there is one.
Found(j) == j.row = NewRow \/ (j.row \in DOMAIN investors /\ investors[j.row].user = j.user)

\* What a call's job has when it waits at label l.
Fits(j, l) ==
    /\ l \in Labels
    /\ l \in Auditing => /\ j.audit \in DOMAIN audits /\ j.critical \in BOOLEAN
                         /\ j.completion \in 1 .. completions
    /\ l = "certify" => (j.critical => j.completion \in audits[j.audit].criticals)
    /\ l \in {"verify", "offer"} => j.accreditedOnly \in BOOLEAN
    /\ l = "offer" => j.cert \in DOMAIN certifications /\ certifications[j.cert].certified
    /\ l \in Serving => "user" \in DOMAIN j /\ j.user \in Ids
    /\ l \in {"offering", "eligible"} => "offering" \in DOMAIN j /\ j.offering \in DOMAIN offerings
    /\ (l = "investor" /\ j.kind = "mint") \/ l = "hold" => Eligible(j)
    /\ l \in Inserts => Found(j)
    /\ l \in Transferring => /\ {"offering", "from", "to"} \subseteq DOMAIN j
                             /\ j.offering \in DOMAIN offerings /\ j.from \in DOMAIN investors
    /\ l \in {"recipient", "record"} => j.locked \in BOOLEAN
    /\ l = "record" => (offerings[j.offering].accreditedOnly => j.locked \/ j.to \in accredited)

Calls ==
    /\ DOMAIN pc = Handlers /\ DOMAIN job = Handlers
    /\ \A h \in Handlers : Fits(job[h], pc[h])

\* A certification has its audit completed and the critical finding it was refused for on record,
\* every offering has one that was not refused, and a row is marked as accredited for an id that
\* has been.
Sound ==
    /\ \A c \in DOMAIN certifications :
        /\ audits[certifications[c].audit].status = "completed"
        /\ certifications[c].critical =>
              certifications[c].completion \in audits[certifications[c].audit].criticals
        /\ certifications[c].certified => ~certifications[c].critical
    /\ \A o \in DOMAIN offerings : certifications[offerings[o].cert].certified
    /\ \A i \in DOMAIN investors : investors[i].status = "accredited" => investors[i].user \in accredited

\* What holdings and recorded checks say of accreditation.
Qualified ==
    /\ \A n \in DOMAIN holdings :
        offerings[holdings[n].offering].accreditedOnly => investors[holdings[n].row].user \in accredited
    /\ \A n \in DOMAIN transfers :
        offerings[transfers[n].offering].accreditedOnly /\ transfers[n].allowed => transfers[n].to \in accredited

\* Where a critical finding that completion n has put on record of audit a leads.
Accounted(a, n) ==
    \/ n \in left
    \/ \E h \in Handlers : pc[h] = "certify" /\ job[h].audit = a /\ job[h].completion = n
    \/ \E c \in DOMAIN certifications :
          certifications[c].audit = a /\ certifications[c].completion = n /\ ~certifications[c].certified

\* Completion n has a critical finding on record.
OnRecord(n) == \E a \in DOMAIN audits : n \in audits[a].criticals

\* No call shares its completion with another call or with a certification, and a critical finding
\* on record was reported to the call, or the certification, of its completion.
Recorded ==
    /\ \A a \in DOMAIN audits : \A n \in audits[a].criticals : Accounted(a, n)
    /\ \A g, h \in Handlers :
          pc[g] \in Auditing /\ pc[h] \in Auditing /\ job[g].completion = job[h].completion => g = h
    /\ \A h \in Handlers : pc[h] \in Auditing =>
          /\ \A c \in DOMAIN certifications : certifications[c].completion # job[h].completion
          /\ OnRecord(job[h].completion) => job[h].critical
    /\ \A c \in DOMAIN certifications :
          OnRecord(certifications[c].completion) => certifications[c].critical

\* The calls that found no row of the user and will insert one.
Inserting(u) == {h \in Handlers : pc[h] \in Inserts /\ job[h].row = NewRow /\ job[h].user = u}

\* Once the user has a row, the calls that will insert another are those of before.
RowsCounted ==
    \A u \in Ids : RowsOf(u) # {} =>
        Cardinality(RowsOf(u)) + Cardinality(Inserting(u)) <= Cardinality(Handlers)

\* The joint invariant.
IssuanceInv == TypeOK /\ Calls /\ Sound /\ Qualified /\ RowsCounted /\ Recorded

-----------------------------------------------------------------------------
\* Rows are never taken away, nor is what calls and other rows rely on.
Grows ==
    /\ DOMAIN audits \subseteq DOMAIN audits'
    /\ \A a \in DOMAIN audits :
           /\ audits[a].criticals \subseteq audits'[a].criticals
           /\ audits[a].status = "completed" => audits'[a].status = "completed"
    /\ DOMAIN certifications \subseteq DOMAIN certifications'
    /\ \A c \in DOMAIN certifications : certifications'[c] = certifications[c]
    /\ DOMAIN offerings \subseteq DOMAIN offerings'
    /\ \A o \in DOMAIN offerings : /\ offerings'[o].cert = offerings[o].cert
                                   /\ offerings'[o].accreditedOnly = offerings[o].accreditedOnly
    /\ DOMAIN investors \subseteq DOMAIN investors'
    /\ \A i \in DOMAIN investors : investors'[i].user = investors[i].user
    /\ accredited \subseteq accredited'
    /\ 1 .. completions \subseteq 1 .. completions'

\* Tables that stay as they are grow.
LEMMA SameGrows ==
    ASSUME UNCHANGED <<audits, certifications, completions, offerings, investors, accredited>>
    PROVE  Grows
  BY DEF Grows

\* What a call has established lasts.
LEMMA FitsStays ==
    ASSUME NEW j, NEW l, Fits(j, l), Grows
    PROVE  Fits(j, l)'
<1>1. Eligible(j) => Eligible(j)'
  BY DEF Grows, Eligible
<1>2. Found(j) => Found(j)'
  BY DEF Grows, Found, NewRow
<1>3. l = "certify" => (j.critical => j.completion \in audits'[j.audit].criticals)
  BY DEF Fits, Grows, Auditing
<1>4. l = "offer" => j.cert \in DOMAIN certifications' /\ certifications'[j.cert].certified
  BY DEF Fits, Grows
<1>5. l = "record" => (offerings'[j.offering].accreditedOnly => j.locked \/ j.to \in accredited')
  BY DEF Fits, Grows, Transferring
<1> QED BY <1>1, <1>2, <1>3, <1>4, <1>5 DEF Fits, Grows

\* A step in which one call moves.
LEMMA CallMoves ==
    ASSUME Calls, Grows, NEW h \in Handlers, DOMAIN pc' = Handlers, DOMAIN job' = Handlers,
           \A g \in Handlers \ {h} : pc'[g] = pc[g] /\ job'[g] = job[g],
           Fits(job[h], pc[h])'
    PROVE  Calls'
<1>1. ASSUME NEW g \in Handlers \ {h} PROVE Fits(job[g], pc[g])'
  <2>1. PICK j, l : j = job[g] /\ l = pc[g]
    OBVIOUS
  <2>2. Fits(j, l)'
    BY <2>1, FitsStays DEF Calls
  <2>3. job'[g] = j /\ pc'[g] = l
    BY <2>1
  <2> QED BY <2>2, <2>3 DEF Fits, Eligible, Found
<1> QED BY <1>1 DEF Calls

\* A step in which none does.
LEMMA CallsStay ==
    ASSUME Calls, Grows, UNCHANGED <<pc, job>>
    PROVE  Calls'
<1>1. ASSUME NEW g \in Handlers PROVE Fits(job[g], pc[g])'
  <2>1. PICK j, l : j = job[g] /\ l = pc[g]
    OBVIOUS
  <2>2. Fits(j, l)'
    BY <2>1, FitsStays DEF Calls
  <2>3. job'[g] = j /\ pc'[g] = l
    BY <2>1
  <2> QED BY <2>2, <2>3 DEF Fits, Eligible, Found
<1> QED BY <1>1 DEF Calls

\* A step that records no finding, and no certification: a call that was to certify moves only
\* with its completion entered as left.
LEMMA RecordStays ==
    ASSUME Recorded, certifications' = certifications, left \subseteq left',
           \A a \in DOMAIN audits' : \A n \in audits'[a].criticals :
              a \in DOMAIN audits /\ n \in audits[a].criticals,
           \A g \in Handlers : \/ pc'[g] = pc[g] /\ job'[g] = job[g]
                               \/ /\ pc'[g] \notin Auditing
                                  /\ pc[g] = "certify" => job[g].completion \in left'
    PROVE  Recorded'
<1>1. ASSUME NEW n PROVE OnRecord(n)' => OnRecord(n)
  BY DEF OnRecord
<1>2. ASSUME NEW h \in Handlers, pc'[h] \in Auditing PROVE pc'[h] = pc[h] /\ job'[h] = job[h]
  BY <1>2
<1>3. ASSUME NEW a \in DOMAIN audits', NEW n \in audits'[a].criticals PROVE Accounted(a, n)'
  <2>1. Accounted(a, n)
    BY DEF Recorded
  <2>2. CASE n \in left \/ \E c \in DOMAIN certifications :
               certifications[c].audit = a /\ certifications[c].completion = n /\ ~certifications[c].certified
    BY <2>2 DEF Accounted
  <2>3. CASE \E h \in Handlers : pc[h] = "certify" /\ job[h].audit = a /\ job[h].completion = n
    BY <2>3 DEF Accounted
  <2> QED BY <2>1, <2>2, <2>3 DEF Accounted
<1>4. \A g, h \in Handlers : pc'[g] \in Auditing /\ pc'[h] \in Auditing
         /\ job'[g].completion = job'[h].completion => g = h
  BY <1>2 DEF Recorded
<1>5. ASSUME NEW h \in Handlers, pc'[h] \in Auditing
      PROVE  /\ \A c \in DOMAIN certifications : certifications[c].completion # job'[h].completion
             /\ OnRecord(job[h].completion)' => job'[h].critical
  <2>1. PICK n : n = job[h].completion
    OBVIOUS
  <2>2. job'[h] = job[h] /\ pc[h] \in Auditing
    BY <1>2, <1>5
  <2>3. OnRecord(n)' => OnRecord(n)
    BY <1>1
  <2>4. OnRecord(job[h].completion)' => OnRecord(n)'
    BY <2>1, <2>2 DEF OnRecord
  <2> QED BY <2>1, <2>2, <2>3, <2>4 DEF Recorded
<1>6. ASSUME NEW c \in DOMAIN certifications
      PROVE  OnRecord(certifications[c].completion)' => certifications[c].critical
  <2>1. PICK n : n = certifications[c].completion
    OBVIOUS
  <2>2. OnRecord(n)' => OnRecord(n)
    BY <1>1
  <2>3. OnRecord(certifications[c].completion)' => OnRecord(n)'
    BY <2>1 DEF OnRecord
  <2> QED BY <2>1, <2>2, <2>3 DEF Recorded
<1> QED BY <1>3, <1>4, <1>5, <1>6 DEF Recorded

-----------------------------------------------------------------------------
\* The rows of a user are finitely many, and so are the calls.
LEMMA Finite ==
    ASSUME TypeOK, NEW u
    PROVE  /\ IsFiniteSet(RowsOf(u)) /\ Cardinality(RowsOf(u)) \in Nat
           /\ IsFiniteSet(Handlers) /\ Cardinality(Handlers) \in Nat
           /\ IsFiniteSet(Inserting(u)) /\ Cardinality(Inserting(u)) \in Nat
           /\ Cardinality(Inserting(u)) <= Cardinality(Handlers)
<1>1. Len(investors) \in Nat /\ RowsOf(u) \subseteq 1 .. Len(investors)
  BY DEF TypeOK, RowsOf
<1>2. IsFiniteSet(RowsOf(u))
  <2>1. IsFiniteSet(1 .. Len(investors))
    BY <1>1, FS_Interval
  <2> QED BY <1>1, <2>1, FS_Subset
<1>3. IsFiniteSet(Handlers) /\ Inserting(u) \subseteq Handlers
  BY AuditAssumption DEF Inserting
<1> QED BY <1>2, <1>3, FS_Subset, FS_CardinalityType

\* No row is inserted, and whoever finds none of a user that has rows did so before.
LEMMA CountStays ==
    ASSUME TypeOK, RowsCounted, \A u \in Ids : RowsOf(u)' = RowsOf(u),
           \A u \in Ids : RowsOf(u) # {} => Inserting(u)' \subseteq Inserting(u)
    PROVE  RowsCounted'
<1> SUFFICES ASSUME NEW u \in Ids, RowsOf(u) # {}
             PROVE  Cardinality(RowsOf(u)) + Cardinality(Inserting(u)') <= Cardinality(Handlers)
  BY DEF RowsCounted
<1>1. Cardinality(RowsOf(u)) + Cardinality(Inserting(u)) <= Cardinality(Handlers)
  BY DEF RowsCounted
<1>2. Inserting(u)' \subseteq Inserting(u) /\ IsFiniteSet(Inserting(u))
  BY Finite
<1>3. /\ Cardinality(Inserting(u)') <= Cardinality(Inserting(u))
      /\ Cardinality(Inserting(u)') \in Nat
  BY <1>2, FS_Subset, FS_CardinalityType
<1> QED BY <1>1, <1>3, Finite

\* A call inserts the row it had not found.
LEMMA CountInserted ==
    ASSUME TypeOK, RowsCounted, NEW v \in Ids, NEW h \in Inserting(v), NEW k, k \notin RowsOf(v),
           RowsOf(v)' = RowsOf(v) \cup {k}, \A u \in Ids \ {v} : RowsOf(u)' = RowsOf(u),
           \A u \in Ids : Inserting(u)' \subseteq Inserting(u) \ {h}
    PROVE  RowsCounted'
<1> SUFFICES ASSUME NEW u \in Ids, RowsOf(u)' # {}
             PROVE  Cardinality(RowsOf(u)') + Cardinality(Inserting(u)') <= Cardinality(Handlers)
  BY DEF RowsCounted
<1>1. Inserting(u)' \subseteq Inserting(u) \ {h} /\ IsFiniteSet(Inserting(u))
  BY Finite
<1>2. CASE u # v
  <2>1. Cardinality(RowsOf(u)) + Cardinality(Inserting(u)) <= Cardinality(Handlers)
    BY <1>2 DEF RowsCounted
  <2>2. Inserting(u)' \subseteq Inserting(u)
    BY <1>1
  <2>3. /\ Cardinality(Inserting(u)') <= Cardinality(Inserting(u))
        /\ Cardinality(Inserting(u)') \in Nat
    BY <1>1, <2>2, FS_Subset, FS_CardinalityType
  <2> QED BY <1>2, <2>1, <2>3, Finite
<1>3. CASE u = v
  <2>1. Cardinality(RowsOf(v)') = Cardinality(RowsOf(v)) + 1
    BY Finite, FS_AddElement
  <2>2. IsFiniteSet(Inserting(v) \ {h}) /\ Cardinality(Inserting(v) \ {h}) = Cardinality(Inserting(v)) - 1
    BY Finite, FS_RemoveElement
  <2>3. /\ Cardinality(Inserting(v)') <= Cardinality(Inserting(v)) - 1
        /\ Cardinality(Inserting(v)') \in Nat
    BY <1>1, <1>3, <2>2, FS_Subset, FS_CardinalityType
  <2>4. Cardinality(RowsOf(v)) + Cardinality(Inserting(v)) <= Cardinality(Handlers)
    <3>1. CASE RowsOf(v) # {}
      BY <3>1 DEF RowsCounted
    <3>2. CASE RowsOf(v) = {}
      BY <3>2, Finite, FS_EmptySet
    <3> QED BY <3>1, <3>2
  <2> QED BY <1>3, <2>1, <2>3, <2>4, Finite
<1> QED BY <1>2, <1>3

-----------------------------------------------------------------------------
\* The elements of a sequence.
LEMMA Elements ==
    ASSUME NEW S, NEW s \in Seq(S)
    PROVE  DOMAIN s = 1 .. Len(s) /\ Len(s) \in Nat /\ \A k \in DOMAIN s : s[k] \in S
  OBVIOUS

\* Rows refer to rows.
LEMMA References ==
    ASSUME TypeOK
    PROVE  /\ \A c \in DOMAIN certifications : certifications[c].audit \in DOMAIN audits
           /\ \A o \in DOMAIN offerings : offerings[o].cert \in DOMAIN certifications
           /\ \A n \in DOMAIN holdings : /\ holdings[n].offering \in DOMAIN offerings
                                         /\ holdings[n].row \in DOMAIN investors
           /\ \A n \in DOMAIN transfers : transfers[n].offering \in DOMAIN offerings
<1>1. \A c \in DOMAIN certifications :
         certifications[c] \in [audit : DOMAIN audits, completion : 1 .. completions, critical : BOOLEAN,
                                certified : BOOLEAN]
  BY Elements DEF TypeOK, AuditTypeOK
<1>2. \A o \in DOMAIN offerings :
         offerings[o] \in [cert : DOMAIN certifications, accreditedOnly : BOOLEAN,
                           status : {"ready_for_issuance", "active"}]
  BY Elements DEF TypeOK
<1>3. \A n \in DOMAIN holdings : holdings[n] \in [offering : DOMAIN offerings, row : DOMAIN investors]
  BY Elements DEF TypeOK
<1>4. \A n \in DOMAIN transfers :
         transfers[n] \in [offering : DOMAIN offerings, from : DOMAIN investors, to : DOMAIN investors,
                           allowed : BOOLEAN]
  BY Elements DEF TypeOK
<1> QED BY <1>1, <1>2, <1>3, <1>4

\* What is held and allowed stays so.
LEMMA QualifiedStays ==
    ASSUME TypeOK, Qualified, Grows, UNCHANGED <<holdings, transfers>>
    PROVE  Qualified'
<1>1. ASSUME NEW n \in DOMAIN holdings
      PROVE  offerings'[holdings[n].offering].accreditedOnly =>
               investors'[holdings[n].row].user \in accredited'
  <2>1. holdings[n].offering \in DOMAIN offerings /\ holdings[n].row \in DOMAIN investors
    BY References
  <2> QED BY <2>1 DEF Qualified, Grows
<1>2. ASSUME NEW n \in DOMAIN transfers
      PROVE  offerings'[transfers[n].offering].accreditedOnly /\ transfers[n].allowed =>
               transfers[n].to \in accredited'
  BY References DEF Qualified, Grows
<1> QED BY <1>1, <1>2 DEF Qualified

\* A step that writes no table: a call moves to a label whose reads it has.
LEMMA Reads ==
    ASSUME IssuanceInv, NEW h \in Handlers, UNCHANGED <<limits, auditVars, issuanceVars>>,
           failures' \in Nat, left \subseteq left', left' \subseteq 1 .. completions,
           DOMAIN pc' = Handlers, DOMAIN job' = Handlers,
           \A g \in Handlers \ {h} : pc'[g] = pc[g] /\ job'[g] = job[g],
           Fits(job[h], pc[h])', pc'[h] \notin Auditing,
           pc[h] = "certify" => job[h].completion \in left',
           pc'[h] \in Inserts /\ job'[h].row = NewRow => RowsOf(job'[h].user) = {}
    PROVE  IssuanceInv'
<1>1. UNCHANGED <<limits, audits, certifications, required, completions, offerings, investors, holdings,
                  filings, transfers, accredited>>
  BY DEF auditVars, issuanceVars, records
<1>2. TypeOK'
  BY <1>1 DEF IssuanceInv, TypeOK, AuditTypeOK
<1>3. Grows
  BY <1>1, SameGrows
<1>4. Calls'
  BY <1>3, CallMoves DEF IssuanceInv
<1>5. Sound'
  BY <1>1 DEF IssuanceInv, Sound
<1>6. Qualified'
  BY <1>1 DEF IssuanceInv, Qualified
<1>7. RowsCounted'
  <2>1. \A u : RowsOf(u)' = RowsOf(u)
    BY <1>1 DEF RowsOf
  <2>2. ASSUME NEW u \in Ids, RowsOf(u) # {} PROVE Inserting(u)' \subseteq Inserting(u)
    BY <2>2 DEF Inserting
  <2> QED BY <2>1, <2>2, CountStays DEF IssuanceInv
<1>8. Recorded'
  BY <1>1, RecordStays DEF IssuanceInv
<1> QED BY <1>2, <1>4, <1>5, <1>6, <1>7, <1>8 DEF IssuanceInv

\* A step in which no call moves, no finding is recorded and no investor is inserted.
LEMMA Beside ==
    ASSUME IssuanceInv, TypeOK', Grows, Sound',
           UNCHANGED <<pc, job, left, certifications, investors, holdings, transfers>>,
           \A a \in DOMAIN audits' : \A n \in audits'[a].criticals :
              a \in DOMAIN audits /\ n \in audits[a].criticals
    PROVE  IssuanceInv'
<1>1. Calls'
  BY CallsStay DEF IssuanceInv
<1>2. Qualified'
  BY QualifiedStays DEF IssuanceInv
<1>3. RowsCounted'
  <2>1. \A u : RowsOf(u)' = RowsOf(u) /\ Inserting(u)' = Inserting(u)
    BY DEF RowsOf, Inserting
  <2> QED BY <2>1, CountStays DEF IssuanceInv
<1>4. Recorded'
  BY RecordStays DEF IssuanceInv
<1> QED BY <1>1, <1>2, <1>3, <1>4 DEF IssuanceInv

-----------------------------------------------------------------------------
\* A call goes to label l with job j, and writes no table.
LEMMA Arrives ==
    ASSUME IssuanceInv, NEW h \in Handlers, NEW j, NEW l \in Labels \ Auditing, Fits(j, l),
           pc' = [pc EXCEPT ![h] = l], job' = [job EXCEPT ![h] = j],
           failures' \in Nat, left \subseteq left', left' \subseteq 1 .. completions,
           pc[h] = "certify" => job[h].completion \in left',
           UNCHANGED <<limits, auditVars, issuanceVars>>,
           l \in Inserts /\ j.row = NewRow => RowsOf(j.user) = {}
    PROVE  IssuanceInv'
<1>1. UNCHANGED <<audits, certifications, completions, offerings, investors, accredited>>
  BY DEF auditVars, issuanceVars
<1>2. /\ DOMAIN pc' = Handlers /\ DOMAIN job' = Handlers /\ pc'[h] = l /\ job'[h] = j
      /\ \A g \in Handlers \ {h} : pc'[g] = pc[g] /\ job'[g] = job[g]
  BY DEF IssuanceInv, Calls
<1>3. Fits(j, l)'
  BY <1>1, SameGrows, FitsStays
<1>4. Fits(job[h], pc[h])'
  BY <1>2, <1>3 DEF Fits, Eligible, Found
<1> QED BY <1>2, <1>4, Reads

\* A call that does not wait to certify goes on, with the job it has.
LEMMA GoesOn ==
    ASSUME IssuanceInv, NEW h \in Handlers, pc[h] # "certify",
           NEW l \in Labels \ (Inserts \cup Auditing), Fits(job[h], l), Goto(h, l),
           UNCHANGED <<auditVars, issuanceVars>>
    PROVE  IssuanceInv'
<1>1. PICK j : j = job[h]
  OBVIOUS
<1>2. Fits(j, l)
  BY <1>1
<1>3. UNCHANGED <<limits, failures, left, audits, certifications, completions, offerings, investors,
                  accredited>>
  BY DEF Goto, auditVars, issuanceVars
<1>4. Fits(j, l)'
  BY <1>2, <1>3, SameGrows, FitsStays
<1>5. /\ DOMAIN pc' = Handlers /\ job' = job /\ DOMAIN job = Handlers /\ pc'[h] = l
      /\ \A g \in Handlers \ {h} : pc'[g] = pc[g] /\ job'[g] = job[g]
  BY DEF Goto, IssuanceInv, Calls
<1>6. Fits(job[h], pc[h])'
  BY <1>1, <1>4, <1>5 DEF Fits, Eligible, Found
<1>7. failures' \in Nat /\ left \subseteq left' /\ left' \subseteq 1 .. completions
  BY <1>3 DEF IssuanceInv, TypeOK, AuditTypeOK
<1> QED BY <1>3, <1>5, <1>6, <1>7, Reads

\* A call returns, or throws: a completion that has committed its findings and does not write
\* its certification is left.
LEMMA Ends ==
    ASSUME IssuanceInv, NEW h \in Handlers, Release(h), failures' \in Nat,
           left \subseteq left', left' \subseteq 1 .. completions,
           pc[h] = "certify" => job[h].completion \in left',
           UNCHANGED <<auditVars, issuanceVars>>
    PROVE  IssuanceInv'
<1>1. Fits(NoJob, "idle") /\ "idle" \in Labels \ Auditing
  BY DEF Fits, Labels, Auditing, Serving, Transferring, Inserts
<1> QED BY <1>1, Arrives DEF Release, Inserts

\* A call that is done, or finds nothing it may go on with.
LEMMA Returns ==
    ASSUME IssuanceInv, NEW h \in Handlers, pc[h] # "certify", Return(h), UNCHANGED <<auditVars, issuanceVars>>
    PROVE  IssuanceInv'
<1>1. failures' \in Nat /\ left \subseteq left' /\ left' \subseteq 1 .. completions
  BY DEF Return, IssuanceInv, TypeOK, AuditTypeOK
<1> QED BY <1>1, Ends DEF Return

\* A statement fails, or waits too long for a connection.
LEMMA Fails ==
    ASSUME IssuanceInv, NEW h \in Handlers, Fail(h)
    PROVE  IssuanceInv'
<1>1. failures' \in Nat
  BY DEF Fail, Abort, IssuanceInv, TypeOK, AuditTypeOK
<1>2. pc[h] = "certify" => job[h].completion \in 1 .. completions
  BY DEF IssuanceInv, Calls, Fits, Auditing
<1>3. /\ left \subseteq left' /\ left' \subseteq 1 .. completions
      /\ pc[h] = "certify" => job[h].completion \in left'
  BY <1>2 DEF Fail, Abort, Leaves, IssuanceInv, TypeOK, AuditTypeOK
<1> QED BY <1>1, <1>3, Ends DEF Fail, Abort

\* A call begins.
LEMMA Begins ==
    ASSUME IssuanceInv, NEW h \in Handlers, NEW j, NEW l \in Labels \ (Inserts \cup Auditing), Fits(j, l),
           Enter(h, l, j), UNCHANGED <<auditVars, issuanceVars>>
    PROVE  IssuanceInv'
<1>1. failures' \in Nat /\ left \subseteq left' /\ left' \subseteq 1 .. completions
  BY DEF Enter, IssuanceInv, TypeOK, AuditTypeOK
<1> QED BY <1>1, Arrives DEF Enter

\* The ids that clients know are ids.
LEMMA KnownIds ==
    ASSUME TypeOK
    PROVE  Known \subseteq Ids
<1>1. DOMAIN investors = 1 .. Len(investors) /\ Len(investors) \in Nat
  BY Elements DEF TypeOK
<1> QED BY <1>1 DEF Known, Ids, NewRow

\* createOffering takes whatever certification the request names.
LEMMA BeginOfferingKeeps ==
    ASSUME IssuanceInv, NEW h \in Handlers, NEW c \in 0 .. Len(certifications), NEW only \in BOOLEAN,
           BeginOffering(h, c, only)
    PROVE  IssuanceInv'
<1>1. PICK j : j = [kind |-> "offering", cert |-> c, accreditedOnly |-> only]
  OBVIOUS
<1>2. Fits(j, "verify")
  BY <1>1 DEF Fits, Labels, Auditing, Serving, Transferring, Inserts
<1> QED BY <1>1, <1>2, Begins DEF BeginOffering, Labels, Inserts, Auditing

\* verifyAccreditation takes an id of a user, with a row or without.
LEMMA BeginAccreditationKeeps ==
    ASSUME IssuanceInv, NEW h \in Handlers, NEW u \in Known, NEW m, BeginAccreditation(h, u, m)
    PROVE  IssuanceInv'
<1>1. PICK j : j = [kind |-> "accreditation", user |-> u, method |-> m]
  OBVIOUS
<1>2. Fits(j, "investor")
  BY <1>1, KnownIds DEF IssuanceInv, Fits, Labels, Auditing, Serving, Transferring, Inserts
<1> QED BY <1>1, <1>2, Begins DEF BeginAccreditation, Labels, Serving, Inserts, Auditing

\* mintTokens takes an offering on record and an id.
LEMMA BeginMintKeeps ==
    ASSUME IssuanceInv, NEW h \in Handlers, NEW o \in DOMAIN offerings, NEW u \in Known, BeginMint(h, o, u)
    PROVE  IssuanceInv'
<1>1. PICK j : j = [kind |-> "mint", offering |-> o, user |-> u]
  OBVIOUS
<1>2. Fits(j, "offering")
  BY <1>1, KnownIds DEF IssuanceInv, Fits, Labels, Auditing, Serving, Transferring, Inserts
<1> QED BY <1>1, <1>2, Begins DEF BeginMint, Labels, Serving, Inserts, Auditing

\* checkTransferRestrictions has found its offering, and takes a sender's row.
LEMMA BeginTransferKeeps ==
    ASSUME IssuanceInv, NEW h \in Handlers, NEW o \in DOMAIN offerings, NEW from \in DOMAIN investors,
           NEW to, BeginTransferCheck(h, o, from, to)
    PROVE  IssuanceInv'
<1>1. PICK j : j = [kind |-> "transfer", offering |-> o, from |-> from, to |-> to]
  OBVIOUS
<1>2. Fits(j, "lockup")
  BY <1>1 DEF Fits, Labels, Auditing, Serving, Transferring, Inserts
<1> QED BY <1>1, <1>2, Begins DEF BeginTransferCheck, Labels, Transferring, Inserts, Auditing

-----------------------------------------------------------------------------
\* What SELECTs return: the labels they lead to have what they need.
LEMMA CheckCertificationKeeps ==
    ASSUME IssuanceInv, NEW h \in Handlers, CheckCertification(h)
    PROVE  IssuanceInv'
<1>1. CASE ~VerifyCertification(job[h].cert)
  BY <1>1, Returns DEF CheckCertification, Pooled, At
<1>2. CASE VerifyCertification(job[h].cert)
  <2>1. Fits(job[h], "verify")
    BY DEF CheckCertification, Pooled, At, IssuanceInv, Calls
  <2>2. Fits(job[h], "offer")
    BY <1>2, <2>1 DEF VerifyCertification, Fits, Labels, Auditing, Serving, Transferring, Inserts
  <2> QED BY <1>2, <2>2, GoesOn DEF CheckCertification, Pooled, At, Labels, Inserts, Auditing
<1> QED BY <1>1, <1>2

\* The read after COMMIT writes nothing.
LEMMA RereadKeeps ==
    ASSUME IssuanceInv, NEW h \in Handlers, Reread(h)
    PROVE  IssuanceInv'
  BY Returns DEF Reread, Pooled, At

\* Only an active offering is minted.
LEMMA CheckOfferingKeeps ==
    ASSUME IssuanceInv, NEW h \in Handlers, CheckOffering(h)
    PROVE  IssuanceInv'
<1>1. CASE offerings[job[h].offering].status # "active"
  BY <1>1, Returns DEF CheckOffering, Pooled, At
<1>2. CASE offerings[job[h].offering].status = "active"
  <2>1. Fits(job[h], "offering")
    BY DEF CheckOffering, Pooled, At, IssuanceInv, Calls
  <2>2. Fits(job[h], "eligible")
    BY <2>1 DEF Fits, Labels, Auditing, Serving, Transferring, Inserts
  <2> QED BY <1>2, <2>2, GoesOn DEF CheckOffering, Pooled, At, Labels, Serving, Inserts, Auditing
<1> QED BY <1>1, <1>2

\* The rows a SELECT may answer with.
LEMMA SomeRows ==
    ASSUME TypeOK, NEW u, NEW i \in SomeRow(u)
    PROVE  \/ i = NewRow /\ RowsOf(u) = {}
           \/ i # NewRow /\ i \in DOMAIN investors /\ investors[i].user = u
<1>1. DOMAIN investors = 1 .. Len(investors)
  BY Elements DEF TypeOK
<1> QED BY <1>1 DEF SomeRow, RowsOf, NewRow

\* An offering only for accredited users goes on with one of them.
LEMMA CheckInvestorKeeps ==
    ASSUME IssuanceInv, NEW h \in Handlers, NEW i, CheckInvestor(h, i)
    PROVE  IssuanceInv'
<1> DEFINE bars == offerings[job[h].offering].accreditedOnly
                     /\ (i = NewRow \/ investors[i].status # "accredited")
<1>1. CASE bars
  BY <1>1, Returns DEF CheckInvestor, Pooled, At
<1>2. CASE ~bars
  <2>1. Fits(job[h], "eligible")
    BY DEF CheckInvestor, Pooled, At, IssuanceInv, Calls
  <2>2. offerings[job[h].offering].accreditedOnly => job[h].user \in accredited
    <3>1. SUFFICES ASSUME offerings[job[h].offering].accreditedOnly
                   PROVE  job[h].user \in accredited
      OBVIOUS
    <3>2. i # NewRow /\ investors[i].status = "accredited"
      BY <1>2, <3>1
    <3>3. i \in DOMAIN investors /\ investors[i].user = job[h].user
      BY <3>2, SomeRows DEF CheckInvestor, IssuanceInv
    <3> QED BY <3>2, <3>3 DEF IssuanceInv, Sound
  <2>3. Fits(job[h], "investor")
    BY <2>1, <2>2 DEF Fits, Eligible, Labels, Auditing, Serving, Transferring, Inserts
  <2>4. Goto(h, "investor")
    BY <1>2 DEF CheckInvestor
  <2> QED BY <2>3, <2>4, GoesOn DEF CheckInvestor, Pooled, At, Labels, Serving, Inserts, Auditing
<1> QED BY <1>1, <1>2

\* The row that is found, or that none is, stays with the call.
LEMMA FindInvestorKeeps ==
    ASSUME IssuanceInv, NEW h \in Handlers, NEW i, FindInvestor(h, i)
    PROVE  IssuanceInv'
<1>1. PICK r, j : r = job[h] /\ j = With(r, [row |-> i])
  OBVIOUS
<1>2. Fits(r, "investor")
  BY <1>1 DEF FindInvestor, Pooled, At, IssuanceInv, Calls
<1>3. j.row = i /\ j.user = r.user /\ "user" \in DOMAIN j
  BY <1>1, <1>2 DEF With, Fits, Serving
<1>4. /\ i = NewRow => RowsOf(r.user) = {}
      /\ i = NewRow \/ (i \in DOMAIN investors /\ investors[i].user = r.user)
  BY <1>1, SomeRows DEF FindInvestor, IssuanceInv
<1>5. PICK l \in Inserts : l = IF r.kind = "mint" THEN "hold" ELSE "accredit"
  BY DEF Inserts
<1>6. l = "hold" => Eligible(j)
  <2>1. l = "hold" => Eligible(r)
    BY <1>2, <1>5 DEF Fits
  <2>2. "offering" \in DOMAIN r => "offering" \in DOMAIN j /\ j.offering = r.offering
    BY <1>1 DEF With
  <2> QED BY <1>3, <2>1, <2>2 DEF Eligible
<1>7. Fits(j, l)
  BY <1>2, <1>3, <1>4, <1>5, <1>6 DEF Fits, Found, Labels, Auditing, Serving, Transferring, Inserts
<1>8. /\ pc[h] = "investor" /\ pc' = [pc EXCEPT ![h] = l] /\ job' = [job EXCEPT ![h] = j]
      /\ UNCHANGED <<limits, failures, left, auditVars, issuanceVars>>
  BY <1>1, <1>5 DEF FindInvestor, Pooled, At, Note
<1>9. failures' \in Nat /\ left \subseteq left' /\ left' \subseteq 1 .. completions
  BY <1>8 DEF IssuanceInv, TypeOK, AuditTypeOK
<1>10. l \in Labels \ Auditing
  BY DEF Labels, Serving, Inserts, Auditing
<1> QED BY <1>3, <1>4, <1>7, <1>8, <1>9, <1>10, Arrives

\* A transfer check goes on with one more fact, if its offering asks for it.
LEMMA TransferGoesOn ==
    ASSUME IssuanceInv, NEW h \in Handlers, At(h, "lockup") \/ At(h, "recipient"),
           NEW x \in BOOLEAN, NEW l \in {"recipient", "record"}, Note(h, [locked |-> x], l),
           l = "record" => (offerings[job[h].offering].accreditedOnly => x \/ job[h].to \in accredited),
           UNCHANGED <<auditVars, issuanceVars>>
    PROVE  IssuanceInv'
<1>1. PICK r, j : r = job[h] /\ j = With(r, [locked |-> x])
  OBVIOUS
<1>2. Fits(r, "lockup") \/ Fits(r, "recipient")
  BY <1>1 DEF At, IssuanceInv, Calls
<1>3. {"offering", "from", "to"} \subseteq DOMAIN r
  BY <1>2 DEF Fits, Transferring
<1>4. /\ j.locked = x /\ {"offering", "from", "to"} \subseteq DOMAIN j
      /\ j.offering = r.offering /\ j.from = r.from /\ j.to = r.to
  BY <1>1, <1>3 DEF With
<1>5. r.offering \in DOMAIN offerings /\ r.from \in DOMAIN investors
  BY <1>2 DEF Fits, Transferring
<1>6. l = "record" => (offerings[j.offering].accreditedOnly => j.locked \/ j.to \in accredited)
  BY <1>1, <1>4
<1>7. Fits(j, l)
  BY <1>4, <1>5, <1>6 DEF Fits, Labels, Auditing, Serving, Transferring, Inserts
<1>8. /\ pc' = [pc EXCEPT ![h] = l] /\ job' = [job EXCEPT ![h] = j] /\ pc[h] # "certify"
      /\ UNCHANGED <<limits, failures, left>> /\ l \notin Inserts /\ l \in Labels \ Auditing
  BY <1>1 DEF Note, At, Inserts, Auditing, Labels, Transferring
<1>9. failures' \in Nat /\ left \subseteq left' /\ left' \subseteq 1 .. completions
  BY <1>8 DEF IssuanceInv, TypeOK, AuditTypeOK
<1> QED BY <1>7, <1>8, <1>9, Arrives

\* Whether the sender's tokens are locked goes to the next label.
LEMMA CheckLockupKeeps ==
    ASSUME IssuanceInv, NEW h \in Handlers, NEW locked \in BOOLEAN, CheckLockup(h, locked)
    PROVE  IssuanceInv'
<1>1. CASE offerings[job[h].offering].accreditedOnly
  BY <1>1, TransferGoesOn DEF CheckLockup, Pooled
<1>2. CASE ~offerings[job[h].offering].accreditedOnly
  BY <1>2, TransferGoesOn DEF CheckLockup, Pooled
<1> QED BY <1>1, <1>2

\* The recipient's id goes for a user's, and the row found under it decides.
LEMMA CheckRecipientKeeps ==
    ASSUME IssuanceInv, NEW h \in Handlers, NEW i, CheckRecipient(h, i)
    PROVE  IssuanceInv'
<1>1. PICK x \in BOOLEAN : x = (job[h].locked \/ i = NewRow \/ investors[i].status # "accredited")
  OBVIOUS
<1>2. Note(h, [locked |-> x], "record")
  BY <1>1 DEF CheckRecipient
<1>3. x \/ job[h].to \in accredited
  <2>1. SUFFICES ASSUME i # NewRow, investors[i].status = "accredited"
                 PROVE  job[h].to \in accredited
    BY <1>1
  <2>2. i \in DOMAIN investors /\ investors[i].user = job[h].to
    BY <2>1, SomeRows DEF CheckRecipient, IssuanceInv
  <2> QED BY <2>1, <2>2 DEF IssuanceInv, Sound
<1> QED BY <1>2, <1>3, TransferGoesOn DEF CheckRecipient, Pooled

-----------------------------------------------------------------------------
\* A sequence over a set is one over any larger set.
LEMMA Widened ==
    ASSUME NEW S, NEW T, S \subseteq T, NEW s \in Seq(S)
    PROVE  s \in Seq(T)
  OBVIOUS

\* A sequence with one more element of its kind.
LEMMA Appended ==
    ASSUME NEW S, NEW s \in Seq(S), NEW e \in S
    PROVE  /\ Append(s, e) \in Seq(S) /\ Len(Append(s, e)) = Len(s) + 1 /\ Len(s) + 1 \notin DOMAIN s
           /\ DOMAIN s \subseteq DOMAIN Append(s, e) /\ DOMAIN Append(s, e) = DOMAIN s \cup {Len(s) + 1}
           /\ \A k \in DOMAIN s : Append(s, e)[k] = s[k]
           /\ Append(s, e)[Len(s) + 1] = e
  OBVIOUS

\* A sequence with one element replaced.
LEMMA Replaced ==
    ASSUME NEW S, NEW s \in Seq(S), NEW i \in DOMAIN s, NEW e \in S, NEW t, t = [s EXCEPT ![i] = e]
    PROVE  /\ t \in Seq(S) /\ DOMAIN t = DOMAIN s /\ t[i] = e
           /\ \A k \in DOMAIN s \ {i} : t[k] = s[k]
  OBVIOUS

\* Rows that refer to others keep their ranges while those are never fewer.
LEMMA RangesStay ==
    ASSUME TypeOK, Grows
    PROVE  /\ audits \in Seq([status : {"pending", "completed"}, criticals : SUBSET (1 .. completions')])
           /\ certifications \in Seq([audit : DOMAIN audits', completion : 1 .. completions',
                                      critical : BOOLEAN, certified : BOOLEAN])
           /\ left \subseteq 1 .. completions'
           /\ offerings \in Seq([cert : DOMAIN certifications', accreditedOnly : BOOLEAN,
                                 status : {"ready_for_issuance", "active"}])
           /\ holdings \in Seq([offering : DOMAIN offerings', row : DOMAIN investors'])
           /\ filings \in Seq([offering : DOMAIN offerings', status : {"draft", "submitted"}])
           /\ transfers \in Seq([offering : DOMAIN offerings', from : DOMAIN investors',
                                 to : DOMAIN investors', allowed : BOOLEAN])
<1>1. /\ DOMAIN audits \subseteq DOMAIN audits' /\ DOMAIN certifications \subseteq DOMAIN certifications'
      /\ DOMAIN offerings \subseteq DOMAIN offerings' /\ DOMAIN investors \subseteq DOMAIN investors'
      /\ 1 .. completions \subseteq 1 .. completions'
  BY DEF Grows
<1>2. certifications \in Seq([audit : DOMAIN audits', completion : 1 .. completions', critical : BOOLEAN,
                              certified : BOOLEAN])
  <2>1. [audit : DOMAIN audits, completion : 1 .. completions, critical : BOOLEAN, certified : BOOLEAN]
          \subseteq [audit : DOMAIN audits', completion : 1 .. completions', critical : BOOLEAN,
                     certified : BOOLEAN]
    BY <1>1
  <2> QED BY <2>1, Widened DEF TypeOK, AuditTypeOK
<1>3. offerings \in Seq([cert : DOMAIN certifications', accreditedOnly : BOOLEAN,
                         status : {"ready_for_issuance", "active"}])
  <2>1. [cert : DOMAIN certifications, accreditedOnly : BOOLEAN, status : {"ready_for_issuance", "active"}]
          \subseteq [cert : DOMAIN certifications', accreditedOnly : BOOLEAN,
                     status : {"ready_for_issuance", "active"}]
    BY <1>1
  <2> QED BY <2>1, Widened DEF TypeOK
<1>4. holdings \in Seq([offering : DOMAIN offerings', row : DOMAIN investors'])
  <2>1. [offering : DOMAIN offerings, row : DOMAIN investors]
          \subseteq [offering : DOMAIN offerings', row : DOMAIN investors']
    BY <1>1
  <2> QED BY <2>1, Widened DEF TypeOK
<1>5. filings \in Seq([offering : DOMAIN offerings', status : {"draft", "submitted"}])
  <2>1. [offering : DOMAIN offerings, status : {"draft", "submitted"}]
          \subseteq [offering : DOMAIN offerings', status : {"draft", "submitted"}]
    BY <1>1
  <2> QED BY <2>1, Widened DEF TypeOK
<1>6. transfers \in Seq([offering : DOMAIN offerings', from : DOMAIN investors',
                         to : DOMAIN investors', allowed : BOOLEAN])
  <2>1. [offering : DOMAIN offerings, from : DOMAIN investors, to : DOMAIN investors, allowed : BOOLEAN]
          \subseteq [offering : DOMAIN offerings', from : DOMAIN investors', to : DOMAIN investors',
                     allowed : BOOLEAN]
    BY <1>1
  <2> QED BY <2>1, Widened DEF TypeOK
<1>7. audits \in Seq([status : {"pending", "completed"}, criticals : SUBSET (1 .. completions')])
  <2>1. [status : {"pending", "completed"}, criticals : SUBSET (1 .. completions)]
          \subseteq [status : {"pending", "completed"}, criticals : SUBSET (1 .. completions')]
    BY <1>1
  <2> QED BY <2>1, Widened DEF TypeOK, AuditTypeOK
<1>8. left \subseteq 1 .. completions'
  BY <1>1 DEF TypeOK, AuditTypeOK
<1> QED BY <1>2, <1>3, <1>4, <1>5, <1>6, <1>7, <1>8

\* An audit, whatever handler asks for it, comes without findings.
LEMMA CreateAuditKeeps ==
    ASSUME IssuanceInv, CreateAuditRequest, required' \in Nat, UNCHANGED issuanceVars
    PROVE  IssuanceInv'
<1>1. UNCHANGED <<limits, pc, job, left, failures, completions, certifications, offerings, investors, holdings,
                  filings, transfers, accredited>>
  BY DEF CreateAuditRequest, callVars, issuanceVars, records
<1> DEFINE Row == [status : {"pending", "completed"}, criticals : SUBSET (1 .. completions)]
<1>2. audits \in Seq(Row)
  BY DEF IssuanceInv, TypeOK, AuditTypeOK
<1>3. PICK a \in Row : audits' = Append(audits, a) /\ a.criticals = {}
  <2>1. PICK a \in Row : a = [status |-> "pending", criticals |-> {}]
    OBVIOUS
  <2> QED BY <2>1 DEF CreateAuditRequest
<1>4. /\ audits' \in Seq(Row) /\ DOMAIN audits' = DOMAIN audits \cup {Len(audits) + 1}
      /\ \A k \in DOMAIN audits : audits'[k] = audits[k]
      /\ audits'[Len(audits) + 1] = a
  BY <1>2, <1>3, Appended
<1>5. Grows
  BY <1>1, <1>4 DEF Grows
<1>6. TypeOK'
  BY <1>1, <1>4, <1>5, RangesStay DEF IssuanceInv, TypeOK, AuditTypeOK
<1>7. Sound'
  BY <1>1, <1>4, References DEF IssuanceInv, Sound
<1>8. \A k \in DOMAIN audits' : \A n \in audits'[k].criticals :
         k \in DOMAIN audits /\ n \in audits[k].criticals
  BY <1>3, <1>4
<1> QED BY <1>1, <1>5, <1>6, <1>7, <1>8, Beside

\* An event that is not handled leaves no trace.
LEMMA DropAuditKeeps ==
    ASSUME IssuanceInv, DropAuditRequired, UNCHANGED issuanceVars
    PROVE  IssuanceInv'
<1>1. UNCHANGED <<limits, pc, job, left, audits, certifications, completions, offerings, investors, holdings,
                  filings, transfers, accredited>>
  BY DEF DropAuditRequired, issuanceVars, records
<1>2. failures' \in Nat /\ required' \in Nat
  BY DEF DropAuditRequired, IssuanceInv, TypeOK, AuditTypeOK
<1>3. TypeOK'
  BY <1>1, <1>2 DEF IssuanceInv, TypeOK, AuditTypeOK
<1>4. Sound'
  BY <1>1 DEF IssuanceInv, Sound
<1> QED BY <1>1, <1>3, <1>4, SameGrows, Beside

\* A step of one call that inserts no investor.
LEMMA Moves ==
    ASSUME IssuanceInv, TypeOK', Grows, Sound', Qualified', Recorded', NEW h \in Handlers,
           DOMAIN pc' = Handlers, DOMAIN job' = Handlers,
           \A g \in Handlers \ {h} : pc'[g] = pc[g] /\ job'[g] = job[g],
           Fits(job[h], pc[h])', pc'[h] \notin Inserts,
           Len(investors') = Len(investors)
    PROVE  IssuanceInv'
<1>1. Calls'
  BY CallMoves DEF IssuanceInv
<1>2. RowsCounted'
  <2>1. \A u : RowsOf(u)' = RowsOf(u)
    <3>1. DOMAIN investors' = DOMAIN investors
      BY Elements DEF IssuanceInv, TypeOK
    <3> QED BY <3>1 DEF RowsOf, Grows
  <2>2. \A u : Inserting(u)' \subseteq Inserting(u)
    BY DEF Inserting
  <2> QED BY <2>1, <2>2, CountStays DEF IssuanceInv
<1> QED BY <1>1, <1>2 DEF IssuanceInv

\* A call that is not of completeAudit writes no audit.
LEMMA RecordBeside ==
    ASSUME IssuanceInv, UNCHANGED <<audits, certifications, left>>, NEW h \in Handlers,
           pc[h] # "certify", pc'[h] \notin Auditing,
           \A g \in Handlers \ {h} : pc'[g] = pc[g] /\ job'[g] = job[g]
    PROVE  Recorded'
  BY RecordStays DEF IssuanceInv

\* completeAudit takes an audit on record, and is the next completion.
LEMMA BeginAuditKeeps ==
    ASSUME IssuanceInv, NEW h \in Handlers, NEW a \in DOMAIN audits, NEW critical \in BOOLEAN,
           NEW score \in Scores, BeginCompleteAudit(h, a, critical, score), UNCHANGED issuanceVars
    PROVE  IssuanceInv'
<1>1. PICK n : n = completions + 1
  OBVIOUS
<1>2. PICK j : j = [kind |-> "audit", audit |-> a, completion |-> n, critical |-> critical, score |-> score]
  OBVIOUS
<1>3. /\ UNCHANGED <<limits, left, failures, required, audits, certifications, offerings, investors, holdings,
                     filings, transfers, accredited>>
      /\ completions' = n /\ completions \in Nat /\ n \notin 1 .. completions
      /\ 1 .. completions \subseteq 1 .. completions' /\ n \in 1 .. completions'
  <2>1. completions \in Nat
    BY DEF IssuanceInv, TypeOK, AuditTypeOK
  <2> QED BY <1>1, <2>1 DEF BeginCompleteAudit, Enter, issuanceVars, records
<1>4. /\ DOMAIN pc' = Handlers /\ DOMAIN job' = Handlers
      /\ pc[h] = "idle" /\ pc'[h] = "findings" /\ job'[h] = j
      /\ \A g \in Handlers \ {h} : pc'[g] = pc[g] /\ job'[g] = job[g]
  BY <1>1, <1>2 DEF BeginCompleteAudit, Enter, IssuanceInv, Calls
<1>5. Grows
  BY <1>3 DEF Grows
<1>6. TypeOK'
  <2>1. completions' \in Nat /\ failures' \in Nat /\ required' \in Nat /\ limits' \in Limits
    BY <1>1, <1>3 DEF IssuanceInv, TypeOK, AuditTypeOK
  <2> QED BY <1>3, <1>5, <2>1, RangesStay DEF IssuanceInv, TypeOK, AuditTypeOK
<1>7. Sound' /\ Qualified'
  BY <1>3 DEF IssuanceInv, Sound, Qualified
<1>8. Fits(job[h], pc[h])'
  BY <1>2, <1>3, <1>4 DEF Fits, Labels, Auditing, Serving, Transferring, Inserts
<1>9. Recorded'
  <2>1. /\ \A k \in DOMAIN audits : audits[k].criticals \subseteq 1 .. completions
        /\ \A c \in DOMAIN certifications : certifications[c].completion \in 1 .. completions
        /\ \A g \in Handlers : pc[g] \in Auditing => job[g].completion \in 1 .. completions
    <3>1. \A k \in DOMAIN audits : audits[k].criticals \subseteq 1 .. completions
      <4>1. \A k \in DOMAIN audits :
               audits[k] \in [status : {"pending", "completed"}, criticals : SUBSET (1 .. completions)]
        BY Elements DEF IssuanceInv, TypeOK, AuditTypeOK
      <4> QED BY <4>1
    <3>2. \A c \in DOMAIN certifications : certifications[c].completion \in 1 .. completions
      <4>1. \A c \in DOMAIN certifications :
               certifications[c] \in [audit : DOMAIN audits, completion : 1 .. completions,
                                      critical : BOOLEAN, certified : BOOLEAN]
        BY Elements DEF IssuanceInv, TypeOK, AuditTypeOK
      <4> QED BY <4>1
    <3>3. \A g \in Handlers : pc[g] \in Auditing => job[g].completion \in 1 .. completions
      BY DEF IssuanceInv, Calls, Fits
    <3> QED BY <3>1, <3>2, <3>3
  <2>2. ASSUME NEW k PROVE OnRecord(k)' <=> OnRecord(k)
    BY <1>3 DEF OnRecord
  <2>3. ASSUME NEW k \in DOMAIN audits, NEW m \in audits[k].criticals PROVE Accounted(k, m)'
    <3>1. Accounted(k, m)
      BY DEF IssuanceInv, Recorded
    <3>2. CASE \E g \in Handlers : pc[g] = "certify" /\ job[g].audit = k /\ job[g].completion = m
      <4>1. PICK g \in Handlers : pc[g] = "certify" /\ job[g].audit = k /\ job[g].completion = m
        BY <3>2
      <4>2. g # h
        BY <1>4, <4>1
      <4>3. pc'[g] = "certify" /\ job'[g].audit = k /\ job'[g].completion = m
        BY <1>4, <4>1, <4>2
      <4> QED BY <4>3 DEF Accounted
    <3> QED BY <1>3, <3>1, <3>2 DEF Accounted
  <2>4. \A f, g \in Handlers : pc'[f] \in Auditing /\ pc'[g] \in Auditing
           /\ job'[f].completion = job'[g].completion => f = g
    BY <1>2, <1>3, <1>4, <2>1 DEF IssuanceInv, Recorded
  <2>5. ASSUME NEW g \in Handlers, pc'[g] \in Auditing
        PROVE  /\ \A c \in DOMAIN certifications : certifications[c].completion # job'[g].completion
               /\ OnRecord(job[g].completion)' => job'[g].critical
    <3>1. PICK m : m = job'[g].completion
      OBVIOUS
    <3>2. OnRecord(job[g].completion)' => OnRecord(m)
      BY <2>2, <3>1 DEF OnRecord
    <3>3. CASE g = h
      <4>1. m = n /\ ~OnRecord(n)
        BY <1>2, <1>3, <1>4, <2>1, <3>1, <3>3 DEF OnRecord
      <4> QED BY <1>3, <2>1, <3>1, <3>2, <4>1
    <3>4. CASE g # h
      <4>1. pc[g] \in Auditing /\ job'[g] = job[g]
        BY <1>4, <2>5, <3>4
      <4> QED BY <3>1, <3>2, <4>1 DEF IssuanceInv, Recorded
    <3> QED BY <3>3, <3>4
  <2>6. ASSUME NEW c \in DOMAIN certifications
        PROVE  OnRecord(certifications[c].completion)' => certifications[c].critical
    <3>1. PICK m : m = certifications[c].completion
      OBVIOUS
    <3>2. OnRecord(certifications[c].completion)' => OnRecord(m)
      BY <1>3, <2>2, <3>1 DEF OnRecord
    <3> QED BY <3>1, <3>2 DEF IssuanceInv, Recorded
  <2> QED BY <1>3, <2>3, <2>4, <2>5, <2>6 DEF Recorded
<1> QED BY <1>3, <1>4, <1>5, <1>6, <1>7, <1>8, <1>9, Moves DEF Inserts

\* The inner transaction of completeAudit: a critical finding is on record, and its call about to
\* certify.
LEMMA AddFindingsKeeps ==
    ASSUME IssuanceInv, NEW h \in Handlers, AddFindings(h), UNCHANGED issuanceVars
    PROVE  IssuanceInv'
<1>1. UNCHANGED <<limits, job, failures, left, required, completions, certifications, offerings, investors,
                  holdings, filings, transfers, accredited>>
  BY DEF AddFindings, Goto, issuanceVars, records
<1>2. Fits(job[h], "findings") /\ pc[h] = "findings"
  BY DEF AddFindings, Pooled, At, IssuanceInv, Calls
<1>3. PICK a \in DOMAIN audits, critical \in BOOLEAN, n \in 1 .. completions :
        a = job[h].audit /\ critical = job[h].critical /\ n = job[h].completion
  BY <1>2 DEF Fits, Auditing
<1> DEFINE Row == [status : {"pending", "completed"}, criticals : SUBSET (1 .. completions)]
<1>4. audits \in Seq(Row)
  BY DEF IssuanceInv, TypeOK, AuditTypeOK
<1>5. /\ audits' \in Seq(Row) /\ DOMAIN audits' = DOMAIN audits
      /\ \A k \in DOMAIN audits : audits'[k].status = audits[k].status
      /\ \A k \in DOMAIN audits \ {a} : audits'[k].criticals = audits[k].criticals
      /\ audits'[a].criticals = audits[a].criticals \cup (IF critical THEN {n} ELSE {})
  <2>1. CASE critical
    <3>1. audits' = [audits EXCEPT ![a].criticals = @ \cup {n}]
      BY <1>3, <2>1 DEF AddFindings
    <3>2. PICK x \in Row : x = [audits[a] EXCEPT !.criticals = @ \cup {n}]
      <4>1. audits[a] \in Row
        BY <1>4, Elements
      <4> QED BY <4>1
    <3>3. /\ audits' = [audits EXCEPT ![a] = x]
          /\ x.status = audits[a].status /\ x.criticals = audits[a].criticals \cup {n}
      <4>1. audits[a] \in Row
        BY <1>4, Elements
      <4> QED BY <1>4, <3>1, <3>2, <4>1
    <3>4. /\ audits' \in Seq(Row) /\ DOMAIN audits' = DOMAIN audits
          /\ audits'[a] = x /\ \A k \in DOMAIN audits \ {a} : audits'[k] = audits[k]
      BY <1>4, <3>2, <3>3
    <3> QED BY <2>1, <3>3, <3>4
  <2>2. CASE ~critical
    <3>1. audits' = audits
      BY <1>3, <2>2 DEF AddFindings
    <3> QED BY <1>4, <2>2, <3>1
  <2> QED BY <2>1, <2>2
<1>6. Grows
  BY <1>1, <1>5 DEF Grows
<1>7. TypeOK'
  BY <1>1, <1>5, <1>6, RangesStay DEF IssuanceInv, TypeOK, AuditTypeOK
<1>8. Sound'
  BY <1>1, <1>5, References DEF IssuanceInv, Sound
<1>9. Qualified'
  BY <1>1, <1>6, QualifiedStays DEF IssuanceInv
<1>10. /\ DOMAIN pc' = Handlers /\ DOMAIN job' = Handlers /\ pc'[h] = "certify"
       /\ \A g \in Handlers \ {h} : pc'[g] = pc[g] /\ job'[g] = job[g]
  BY <1>1 DEF AddFindings, Goto, IssuanceInv, Calls
<1>11. Fits(job[h], pc[h])'
  <2>1. /\ job'[h].audit \in DOMAIN audits' /\ job'[h].critical \in BOOLEAN
        /\ job'[h].completion \in 1 .. completions'
        /\ job'[h].critical => job'[h].completion \in audits'[job'[h].audit].criticals
    BY <1>1, <1>3, <1>5
  <2> QED BY <1>10, <2>1 DEF Fits, Labels, Auditing, Serving, Transferring, Inserts
<1>12. Recorded'
  <2>1. \A g \in Handlers : pc'[g] \in Auditing <=> pc[g] \in Auditing
    BY <1>2, <1>10 DEF Auditing
  <2>2. ASSUME NEW m, OnRecord(m)' PROVE OnRecord(m) \/ (critical /\ m = n)
    BY <1>5, <2>2 DEF OnRecord
  <2>3. ASSUME NEW k \in DOMAIN audits', NEW m \in audits'[k].criticals PROVE Accounted(k, m)'
    <3>1. CASE k \in DOMAIN audits /\ m \in audits[k].criticals
      <4>1. Accounted(k, m)
        BY <3>1 DEF IssuanceInv, Recorded
      <4>2. CASE \E g \in Handlers : pc[g] = "certify" /\ job[g].audit = k /\ job[g].completion = m
        <5>1. PICK g \in Handlers : pc[g] = "certify" /\ job[g].audit = k /\ job[g].completion = m
          BY <4>2
        <5>2. pc'[g] = "certify" /\ job'[g] = job[g]
          BY <1>1, <1>2, <1>10, <5>1
        <5> QED BY <5>1, <5>2 DEF Accounted
      <4> QED BY <1>1, <4>1, <4>2 DEF Accounted
    <3>2. CASE k = a /\ m = n
      BY <1>1, <1>3, <1>10, <3>2 DEF Accounted
    <3> QED BY <1>5, <3>1, <3>2
  <2>4. \A f, g \in Handlers : pc'[f] \in Auditing /\ pc'[g] \in Auditing
           /\ job'[f].completion = job'[g].completion => f = g
    BY <1>1, <2>1 DEF IssuanceInv, Recorded
  <2>5. ASSUME NEW g \in Handlers, pc'[g] \in Auditing
        PROVE  /\ \A c \in DOMAIN certifications : certifications[c].completion # job[g].completion
               /\ OnRecord(job[g].completion)' => job[g].critical
    <3>1. PICK m : m = job[g].completion
      OBVIOUS
    <3>2. OnRecord(job[g].completion)' => OnRecord(m) \/ (critical /\ m = n)
      BY <1>1, <2>2, <3>1 DEF OnRecord
    <3>3. pc[g] \in Auditing /\ pc[h] \in Auditing
      BY <1>2, <2>1, <2>5 DEF Auditing
    <3>4. m = n => g = h
      BY <1>3, <3>1, <3>3 DEF IssuanceInv, Recorded
    <3>5. OnRecord(m) => job[g].critical
      BY <3>1, <3>3 DEF IssuanceInv, Recorded
    <3> QED BY <1>3, <3>2, <3>3, <3>4, <3>5 DEF IssuanceInv, Recorded
  <2>6. ASSUME NEW c \in DOMAIN certifications
        PROVE  OnRecord(certifications[c].completion)' => certifications[c].critical
    <3>1. PICK m : m = certifications[c].completion
      OBVIOUS
    <3>2. OnRecord(certifications[c].completion)' => OnRecord(m) \/ (critical /\ m = n)
      BY <1>1, <2>2, <3>1 DEF OnRecord
    <3>3. m # n
      BY <1>2, <1>3, <3>1 DEF Auditing, IssuanceInv, Recorded
    <3> QED BY <3>1, <3>2, <3>3 DEF IssuanceInv, Recorded
  <2> QED BY <1>1, <2>3, <2>4, <2>5, <2>6 DEF Recorded
<1> QED BY <1>1, <1>6, <1>7, <1>8, <1>9, <1>10, <1>11, <1>12, Moves DEF Inserts

\* A call that returns has nothing left to fit.
LEMMA Returned ==
    ASSUME IssuanceInv, NEW h \in Handlers, Return(h)
    PROVE  /\ DOMAIN pc' = Handlers /\ DOMAIN job' = Handlers /\ pc'[h] \notin Inserts
           /\ \A g \in Handlers \ {h} : pc'[g] = pc[g] /\ job'[g] = job[g]
           /\ Fits(job[h], pc[h])' /\ pc'[h] \notin Auditing
           /\ failures' \in Nat /\ limits' = limits /\ left' = left
<1>1. /\ DOMAIN pc' = Handlers /\ DOMAIN job' = Handlers /\ pc'[h] = "idle"
      /\ \A g \in Handlers \ {h} : pc'[g] = pc[g] /\ job'[g] = job[g]
      /\ failures' \in Nat /\ limits' = limits /\ left' = left
  BY DEF Return, Release, IssuanceInv, Calls, TypeOK, AuditTypeOK
<1>2. Fits(job[h], pc[h])'
  BY <1>1 DEF Fits, Labels, Auditing, Serving, Transferring, Inserts
<1> QED BY <1>1, <1>2 DEF Inserts, Auditing

\* The outer transaction of completeAudit: the certification answers for what its completion has
\* put on record.
LEMMA CertifyKeeps ==
    ASSUME IssuanceInv, NEW h \in Handlers, Certify(h), UNCHANGED issuanceVars
    PROVE  IssuanceInv'
<1>1. UNCHANGED <<required, completions, offerings, investors, holdings, filings, transfers, accredited>>
  BY DEF Certify, issuanceVars, records
<1>2. Fits(job[h], "certify") /\ pc[h] = "certify" /\ Return(h)
  BY DEF Certify, At, IssuanceInv, Calls
<1>3. PICK a \in DOMAIN audits, critical \in BOOLEAN, n \in 1 .. completions :
        a = job[h].audit /\ critical = job[h].critical /\ n = job[h].completion
  BY <1>2 DEF Fits, Auditing
<1>4. PICK b \in BOOLEAN : b = Certified(critical, job[h].score) /\ (b => ~critical)
  BY DEF Certified
<1>5. PICK x : x = [audit |-> a, completion |-> n, critical |-> critical, certified |-> b]
  OBVIOUS
<1>6. certifications' = Append(certifications, x) /\ audits' = [audits EXCEPT ![a].status = "completed"]
  BY <1>3, <1>4, <1>5 DEF Certify
<1> DEFINE Row == [status : {"pending", "completed"}, criticals : SUBSET (1 .. completions)]
           Cert == [audit : DOMAIN audits, completion : 1 .. completions, critical : BOOLEAN,
                    certified : BOOLEAN]
           last == Len(certifications) + 1
<1>7. audits \in Seq(Row) /\ certifications \in Seq(Cert) /\ x \in Cert
  BY <1>5 DEF IssuanceInv, TypeOK, AuditTypeOK
<1>8. /\ audits' \in Seq(Row) /\ DOMAIN audits' = DOMAIN audits /\ audits'[a].status = "completed"
      /\ \A k \in DOMAIN audits : audits'[k].criticals = audits[k].criticals
      /\ \A k \in DOMAIN audits : audits[k].status = "completed" => audits'[k].status = "completed"
  <2>1. \A k \in DOMAIN audits : audits[k] \in Row
    BY <1>7, Elements
  <2>2. PICK y \in Row : y = [audits[a] EXCEPT !.status = "completed"]
    BY <2>1
  <2>3. y.status = "completed" /\ y.criticals = audits[a].criticals
    BY <2>1, <2>2
  <2>4. audits' = [audits EXCEPT ![a] = y]
    BY <1>6, <1>7, <2>2
  <2>5. /\ audits' \in Seq(Row) /\ DOMAIN audits' = DOMAIN audits
        /\ audits'[a] = y /\ \A k \in DOMAIN audits \ {a} : audits'[k] = audits[k]
    BY <1>7, <2>2, <2>4, Replaced
  <2> QED BY <2>3, <2>5
<1>9. /\ certifications' \in Seq(Cert)
      /\ DOMAIN certifications' = DOMAIN certifications \cup {last} /\ last \notin DOMAIN certifications
      /\ \A c \in DOMAIN certifications : certifications'[c] = certifications[c]
      /\ certifications'[last] = x
  <2> HIDE DEF Row, Cert
  <2> QED BY <1>6, <1>7, Appended
<1>10. Grows
  BY <1>1, <1>8, <1>9 DEF Grows
<1>11. /\ DOMAIN pc' = Handlers /\ DOMAIN job' = Handlers
       /\ pc'[h] \notin Inserts /\ pc'[h] \notin Auditing /\ Fits(job[h], pc[h])'
       /\ \A g \in Handlers \ {h} : pc'[g] = pc[g] /\ job'[g] = job[g]
       /\ failures' \in Nat /\ UNCHANGED <<limits, left>>
  BY <1>2, Returned
<1>12. TypeOK'
  BY <1>1, <1>8, <1>9, <1>10, <1>11, RangesStay DEF IssuanceInv, TypeOK, AuditTypeOK
<1>13. Sound'
  <2>1. ASSUME NEW c \in DOMAIN certifications'
        PROVE  /\ audits'[certifications'[c].audit].status = "completed"
               /\ certifications'[c].critical =>
                     certifications'[c].completion \in audits'[certifications'[c].audit].criticals
               /\ certifications'[c].certified => ~certifications'[c].critical
    <3>1. CASE c \in DOMAIN certifications
      BY <1>8, <1>9, <3>1, References DEF IssuanceInv, Sound
    <3>2. CASE c = last
      <4>1. critical => n \in audits[a].criticals
        BY <1>2, <1>3 DEF Fits
      <4>2. /\ certifications'[c] = x /\ x.audit = a /\ x.completion = n
            /\ (x.critical <=> critical) /\ (x.certified <=> b)
        BY <1>5, <1>9, <3>2
      <4> QED BY <1>4, <1>8, <4>1, <4>2
    <3> QED BY <1>9, <3>1, <3>2
  <2>2. \A o \in DOMAIN offerings : certifications'[offerings[o].cert].certified
    BY <1>9, References DEF IssuanceInv, Sound
  <2> QED BY <1>1, <2>1, <2>2 DEF IssuanceInv, Sound
<1>14. Qualified'
  BY <1>1, <1>10, QualifiedStays DEF IssuanceInv
<1>15. Recorded'
  <2>1. ASSUME NEW m PROVE OnRecord(m)' <=> OnRecord(m)
    BY <1>8 DEF OnRecord
  <2>2. OnRecord(n) => critical
    BY <1>2, <1>3 DEF Auditing, IssuanceInv, Recorded
  <2>3. /\ x.audit = a /\ x.completion = n /\ (x.critical <=> critical) /\ (x.certified <=> b)
    BY <1>5
  <2>4. ASSUME NEW k \in DOMAIN audits', NEW m \in audits'[k].criticals PROVE Accounted(k, m)'
    <3>1. k \in DOMAIN audits /\ m \in audits[k].criticals
      BY <1>8, <2>4
    <3>2. Accounted(k, m)
      BY <3>1 DEF IssuanceInv, Recorded
    <3>3. CASE \E g \in Handlers : pc[g] = "certify" /\ job[g].audit = k /\ job[g].completion = m
      <4>1. PICK g \in Handlers : pc[g] = "certify" /\ job[g].audit = k /\ job[g].completion = m
        BY <3>3
      <4>2. CASE g = h
        <5>1. k = a /\ m = n /\ critical
          BY <1>3, <2>2, <3>1, <4>1, <4>2 DEF OnRecord
        <5>2. /\ last \in DOMAIN certifications'
              /\ certifications'[last].audit = k /\ certifications'[last].completion = m
              /\ ~certifications'[last].certified
          BY <1>4, <1>9, <2>3, <5>1
        <5> QED BY <5>2 DEF Accounted
      <4>3. CASE g # h
        <5>1. pc'[g] = "certify" /\ job'[g] = job[g]
          BY <1>11, <4>1, <4>3
        <5> QED BY <4>1, <5>1 DEF Accounted
      <4> QED BY <4>2, <4>3
    <3>4. CASE \E c \in DOMAIN certifications : certifications[c].audit = k
                  /\ certifications[c].completion = m /\ ~certifications[c].certified
      <4>1. \E c \in DOMAIN certifications' : certifications'[c].audit = k
                  /\ certifications'[c].completion = m /\ ~certifications'[c].certified
        BY <1>9, <3>4
      <4> QED BY <4>1 DEF Accounted
    <3> QED BY <1>11, <3>2, <3>3, <3>4 DEF Accounted
  <2>5. \A f, g \in Handlers : pc'[f] \in Auditing /\ pc'[g] \in Auditing
           /\ job'[f].completion = job'[g].completion => f = g
    BY <1>11 DEF IssuanceInv, Recorded
  <2>6. ASSUME NEW g \in Handlers, pc'[g] \in Auditing
        PROVE  /\ \A c \in DOMAIN certifications' : certifications'[c].completion # job'[g].completion
               /\ OnRecord(job[g].completion)' => job'[g].critical
    <3>1. PICK m : m = job[g].completion
      OBVIOUS
    <3>2. g # h /\ pc[g] \in Auditing /\ job'[g] = job[g]
      BY <1>11, <2>6
    <3>3. OnRecord(job[g].completion)' => OnRecord(m)
      BY <2>1, <3>1, <3>2 DEF OnRecord
    <3>4. m # n
      BY <1>2, <1>3, <3>1, <3>2 DEF Auditing, IssuanceInv, Recorded
    <3>5. \A c \in DOMAIN certifications : certifications[c].completion # m
      BY <3>1, <3>2 DEF IssuanceInv, Recorded
    <3>6. \A c \in DOMAIN certifications' : certifications'[c].completion # m
      BY <1>9, <2>3, <3>4, <3>5
    <3>7. OnRecord(m) => job[g].critical
      BY <3>1, <3>2 DEF IssuanceInv, Recorded
    <3> QED BY <3>1, <3>2, <3>3, <3>6, <3>7
  <2>7. ASSUME NEW c \in DOMAIN certifications'
        PROVE  OnRecord(certifications[c].completion)' => certifications'[c].critical
    <3>1. PICK m : m = certifications'[c].completion
      OBVIOUS
    <3>2. OnRecord(certifications[c].completion)' => OnRecord(m)
      BY <2>1, <3>1 DEF OnRecord
    <3>3. CASE c \in DOMAIN certifications
      <4>1. certifications'[c] = certifications[c]
        BY <1>9, <3>3
      <4> QED BY <3>1, <3>2, <3>3, <4>1 DEF IssuanceInv, Recorded
    <3>4. CASE c = last
      BY <1>9, <2>2, <2>3, <3>1, <3>2, <3>4
    <3> QED BY <1>9, <3>3, <3>4
  <2> QED BY <2>4, <2>5, <2>6, <2>7 DEF Recorded
<1> QED BY <1>1, <1>10, <1>11, <1>12, <1>13, <1>14, <1>15, Moves

\* An offering is inserted for the certification that was found certified.
LEMMA InsertOfferingKeeps ==
    ASSUME IssuanceInv, NEW h \in Handlers, NEW code \in {0, 1}, InsertOffering(h, code)
    PROVE  IssuanceInv'
<1>1. UNCHANGED <<limits, left, audits, certifications, completions, investors, holdings, filings, transfers,
                  accredited>>
  BY DEF InsertOffering, Goto, records
<1>2. Fits(job[h], "offer") /\ pc[h] = "offer"
  BY DEF InsertOffering, At, IssuanceInv, Calls
<1> DEFINE Row == [cert : DOMAIN certifications, accreditedOnly : BOOLEAN,
                   status : {"ready_for_issuance", "active"}]
<1>3. PICK x \in Row : /\ offerings' = Append(offerings, x) /\ certifications[x.cert].certified
  <2>1. PICK c \in DOMAIN certifications, only \in BOOLEAN : c = job[h].cert /\ only = job[h].accreditedOnly
    BY <1>2 DEF Fits
  <2>2. PICK x : x = [cert |-> c, status |-> "ready_for_issuance", accreditedOnly |-> only]
    OBVIOUS
  <2>3. x \in Row /\ certifications[x.cert].certified
    BY <1>2, <2>1, <2>2 DEF Fits
  <2> QED BY <2>1, <2>2, <2>3 DEF InsertOffering
<1>4. offerings \in Seq(Row)
  BY DEF IssuanceInv, TypeOK
<1>5. /\ offerings' \in Seq(Row) /\ DOMAIN offerings' = DOMAIN offerings \cup {Len(offerings) + 1}
      /\ \A o \in DOMAIN offerings : offerings'[o] = offerings[o]
      /\ offerings'[Len(offerings) + 1] = x
  BY <1>3, <1>4, Appended
<1>6. Grows
  BY <1>1, <1>5 DEF Grows
<1>7. TypeOK'
  <2>1. required \in Nat /\ failures \in Nat
    BY DEF IssuanceInv, TypeOK, AuditTypeOK
  <2>2. required' = required + code /\ failures' = failures
    BY DEF InsertOffering, Goto
  <2>3. required' \in Nat /\ failures' \in Nat
    BY <2>1, <2>2
  <2> QED BY <1>1, <1>5, <1>6, <2>3, RangesStay DEF IssuanceInv, TypeOK, AuditTypeOK
<1>8. Sound'
  <2>1. \A o \in DOMAIN offerings' : certifications[offerings'[o].cert].certified
    BY <1>3, <1>5 DEF IssuanceInv, Sound
  <2> QED BY <1>1, <2>1 DEF IssuanceInv, Sound
<1>9. Qualified'
  BY <1>1, <1>6, QualifiedStays DEF IssuanceInv
<1>10. /\ DOMAIN pc' = Handlers /\ DOMAIN job' = Handlers /\ pc'[h] = "reread"
       /\ \A g \in Handlers \ {h} : pc'[g] = pc[g] /\ job'[g] = job[g]
  BY DEF InsertOffering, Goto, IssuanceInv, Calls
<1>11. Fits(job[h], pc[h])'
  BY <1>10 DEF Fits, Labels, Auditing, Serving, Transferring, Inserts
<1>12. Recorded'
  BY <1>1, <1>2, <1>10, RecordBeside DEF Auditing
<1> QED BY <1>1, <1>6, <1>7, <1>8, <1>9, <1>10, <1>11, <1>12, Moves DEF Inserts

\* An offering that is activated keeps its certification and its rule.
LEMMA ActivateKeeps ==
    ASSUME IssuanceInv, NEW o \in DOMAIN offerings, Activate(o)
    PROVE  IssuanceInv'
<1>1. UNCHANGED <<limits, pc, job, left, failures, required, audits, certifications, completions, investors,
                  holdings, filings, transfers, accredited>>
  BY DEF Activate, callVars, auditVars, records
<1> DEFINE Row == [cert : DOMAIN certifications, accreditedOnly : BOOLEAN,
                   status : {"ready_for_issuance", "active"}]
<1>2. offerings \in Seq(Row) /\ \A k \in DOMAIN offerings : offerings[k] \in Row
  BY Elements DEF IssuanceInv, TypeOK
<1>3. PICK x \in Row : x = [offerings[o] EXCEPT !.status = "active"]
  BY <1>2
<1>4. offerings' = [offerings EXCEPT ![o] = x]
  BY <1>2, <1>3 DEF Activate
<1>5. /\ offerings' \in Seq(Row) /\ DOMAIN offerings' = DOMAIN offerings
      /\ \A k \in DOMAIN offerings : /\ offerings'[k].cert = offerings[k].cert
                                     /\ offerings'[k].accreditedOnly = offerings[k].accreditedOnly
  BY <1>2, <1>3, <1>4
<1>6. Grows
  BY <1>1, <1>5 DEF Grows
<1>7. TypeOK'
  BY <1>1, <1>5, <1>6, RangesStay DEF IssuanceInv, TypeOK, AuditTypeOK
<1>8. Sound'
  BY <1>1, <1>5 DEF IssuanceInv, Sound
<1> QED BY <1>1, <1>6, <1>7, <1>8, Beside

\* A filing is of an offering on record.
LEMMA SubmitFilingKeeps ==
    ASSUME IssuanceInv, NEW o \in DOMAIN offerings, NEW autoSubmit \in BOOLEAN, SubmitFiling(o, autoSubmit)
    PROVE  IssuanceInv'
<1>1. UNCHANGED <<limits, pc, job, left, failures, required, audits, certifications, completions, offerings,
                  investors, holdings, transfers, accredited>>
  BY DEF SubmitFiling, callVars, auditVars
<1>2. filings' \in Seq([offering : DOMAIN offerings, status : {"draft", "submitted"}])
  BY Appended DEF SubmitFiling, IssuanceInv, TypeOK
<1>3. TypeOK'
  BY <1>1, <1>2 DEF IssuanceInv, TypeOK, AuditTypeOK
<1>4. Sound'
  BY <1>1 DEF IssuanceInv, Sound
<1> QED BY <1>1, <1>3, <1>4, SameGrows, Beside

\* What is logged as allowed of an offering only for accredited users is to an id that has been
\* accredited; to an id that is no row's nothing is logged.
LEMMA LogTransferKeeps ==
    ASSUME IssuanceInv, NEW h \in Handlers, LogTransferCheck(h)
    PROVE  IssuanceInv'
<1>1. UNCHANGED <<audits, certifications, required, completions, offerings, investors, holdings, filings,
                  accredited>>
  BY DEF LogTransferCheck, auditVars
<1>2. Return(h) /\ Fits(job[h], "record") /\ pc[h] = "record"
  BY DEF LogTransferCheck, Pooled, At, IssuanceInv, Calls
<1> DEFINE Row == [offering : DOMAIN offerings, from : DOMAIN investors, to : DOMAIN investors,
                   allowed : BOOLEAN]
           Passes(x) == offerings[x.offering].accreditedOnly /\ x.allowed => x.to \in accredited
<1>3. transfers \in Seq(Row) /\ \A n \in DOMAIN transfers : Passes(transfers[n])
  BY DEF IssuanceInv, TypeOK, Qualified
<1>4. transfers' \in Seq(Row) /\ \A n \in DOMAIN transfers' : Passes(transfers'[n])
  <2>1. CASE job[h].to \notin DOMAIN investors
    BY <1>3, <2>1 DEF LogTransferCheck
  <2>2. CASE job[h].to \in DOMAIN investors
    <3>1. PICK a \in BOOLEAN : a = ~job[h].locked
      OBVIOUS
    <3>2. PICK x : x = [offering |-> job[h].offering, from |-> job[h].from, to |-> job[h].to, allowed |-> a]
      OBVIOUS
    <3>3. x \in Row
      BY <1>2, <2>2, <3>2 DEF Fits, Transferring
    <3>4. Passes(x)
      BY <1>2, <2>2, <3>1, <3>2 DEF Fits
    <3>5. transfers' = Append(transfers, x)
      BY <2>2, <3>1, <3>2 DEF LogTransferCheck
    <3>6. /\ transfers' \in Seq(Row) /\ DOMAIN transfers' = DOMAIN transfers \cup {Len(transfers) + 1}
          /\ \A n \in DOMAIN transfers : transfers'[n] = transfers[n]
          /\ transfers'[Len(transfers) + 1] = x
      BY <1>3, <3>3, <3>5, Appended
    <3> QED BY <1>3, <3>4, <3>6
  <2> QED BY <2>1, <2>2
<1>5. TypeOK'
  <2>1. failures' \in Nat /\ UNCHANGED <<limits, left>>
    BY <1>2, Returned
  <2> QED BY <1>1, <1>4, <2>1 DEF IssuanceInv, TypeOK, AuditTypeOK
<1>6. Sound'
  BY <1>1 DEF IssuanceInv, Sound
<1>7. Qualified'
  BY <1>1, <1>4 DEF IssuanceInv, Qualified
<1>8. Recorded'
  BY <1>1, <1>2, Returned, RecordBeside
<1> QED BY <1>1, <1>2, <1>5, <1>6, <1>7, <1>8, SameGrows, Returned, Moves

-----------------------------------------------------------------------------
Statuses == {"accredited", "non-accredited", "unverified"}
Investor == [user : Ids, status : Statuses]

\* The row a call writes: the one it found, or a new one at the end.
RowOf(h, table) == IF job[h].row = NewRow THEN Len(table) ELSE job[h].row

\* The rows there are.
Kept(table) == \A i \in DOMAIN investors : table[i] = investors[i]

\* At most that row is added, and it is of the user of the call.
Written(h, status, table, row) ==
    /\ table \in Seq(Investor) /\ row \in DOMAIN table
    /\ table[row].user = job[h].user /\ job[h].user \in Ids
    /\ DOMAIN table = DOMAIN investors \cup {row} /\ Kept(table)
    /\ job[h].row = NewRow => row \notin DOMAIN investors /\ table[row].status = status
    /\ job[h].row # NewRow => row \in DOMAIN investors

\* That is what WithInvestor does.
LEMMA TableWith ==
    ASSUME IssuanceInv, NEW h \in Handlers, pc[h] \in Inserts, NEW status \in Statuses,
           NEW table, table = WithInvestor(h, status), NEW row, row = RowOf(h, table)
    PROVE  Written(h, status, table, row)
<1>1. job[h].user \in Ids /\ Found(job[h])
  BY DEF IssuanceInv, Calls, Fits, Serving, Inserts
<1>2. investors \in Seq(Investor)
  BY DEF IssuanceInv, TypeOK, Investor, Statuses
<1>3. CASE job[h].row = NewRow
  <2>1. PICK x \in Investor : x = [user |-> job[h].user, status |-> status]
    BY <1>1 DEF Investor
  <2>2. table = Append(investors, x)
    BY <1>3, <2>1 DEF WithInvestor
  <2>3. /\ table \in Seq(Investor) /\ Len(table) = Len(investors) + 1
        /\ DOMAIN table = DOMAIN investors \cup {Len(investors) + 1}
        /\ Len(investors) + 1 \notin DOMAIN investors
        /\ \A i \in DOMAIN investors : table[i] = investors[i]
        /\ table[Len(investors) + 1] = x
    BY <1>2, <2>1, <2>2, Appended
  <2>4. row = Len(investors) + 1
    BY <1>3, <2>3 DEF RowOf
  <2> QED BY <1>1, <1>3, <2>1, <2>3, <2>4 DEF Kept, Written
<1>4. CASE job[h].row # NewRow
  <2>1. row \in DOMAIN investors /\ investors[row].user = job[h].user
    BY <1>1, <1>4 DEF Found, RowOf
  <2>2. table = investors
    BY <1>4 DEF WithInvestor
  <2> QED BY <1>1, <1>2, <1>4, <2>1, <2>2 DEF Kept, Written
<1> QED BY <1>3, <1>4

\* When the table with that row is in place, the user has one row more and one call less
\* that will insert another, or as many as before.
LEMMA CountWritten ==
    ASSUME IssuanceInv, NEW h \in Handlers, pc[h] \in Inserts,
           NEW status \in Statuses,
           NEW table, table = WithInvestor(h, status),
           DOMAIN investors' = DOMAIN table,
           \A i \in DOMAIN table : investors'[i].user = table[i].user,
           pc'[h] \notin Inserts, \A g \in Handlers \ {h} : pc'[g] = pc[g] /\ job'[g] = job[g]
    PROVE  RowsCounted'
<1>1. PICK row : row = RowOf(h, table)
  OBVIOUS
<1>2. /\ row \in DOMAIN table /\ table[row].user = job[h].user /\ job[h].user \in Ids
      /\ DOMAIN table = DOMAIN investors \cup {row} /\ Kept(table)
      /\ job[h].row = NewRow => row \notin DOMAIN investors
      /\ job[h].row # NewRow => row \in DOMAIN investors
  <2>1. Written(h, status, table, row)
    BY <1>1, TableWith
  <2> QED BY <2>1 DEF Written
<1>3. \A u \in Ids : Inserting(u)' \subseteq Inserting(u) \ {h}
  BY DEF Inserting
<1>4. PICK v \in Ids : v = job[h].user
  BY <1>2
<1>5. ASSUME NEW u PROVE RowsOf(u)' = {i \in DOMAIN table : table[i].user = u}
  BY DEF RowsOf
<1>6. ASSUME NEW u, u # v \/ row \in DOMAIN investors PROVE RowsOf(u)' = RowsOf(u)
  <2>1. {i \in DOMAIN table : table[i].user = u} = {i \in DOMAIN investors : investors[i].user = u}
    BY <1>2, <1>4, <1>6 DEF Kept
  <2> QED BY <1>5, <2>1 DEF RowsOf
<1>7. CASE job[h].row = NewRow
  <2>1. h \in Inserting(v)
    BY <1>4, <1>7 DEF Inserting
  <2>2. row \notin RowsOf(v)
    BY <1>2, <1>7 DEF RowsOf
  <2>3. RowsOf(v)' = RowsOf(v) \cup {row}
    <3>1. {i \in DOMAIN table : table[i].user = v}
            = {i \in DOMAIN investors : investors[i].user = v} \cup {row}
      BY <1>2, <1>4 DEF Kept
    <3> QED BY <1>5, <3>1 DEF RowsOf
  <2>4. \A u \in Ids \ {v} : RowsOf(u)' = RowsOf(u)
    BY <1>6
  <2> QED BY <1>3, <2>1, <2>2, <2>3, <2>4, CountInserted DEF IssuanceInv
<1>8. CASE job[h].row # NewRow
  <2>1. \A u : RowsOf(u)' = RowsOf(u)
    BY <1>2, <1>6, <1>8
  <2>2. \A u : Inserting(u)' \subseteq Inserting(u)
    BY DEF Inserting
  <2> QED BY <2>1, <2>2, CountStays DEF IssuanceInv
<1> QED BY <1>7, <1>8

\* A row is marked as accredited for a user who is entered as such.
LEMMA WriteAccreditationKeeps ==
    ASSUME IssuanceInv, NEW h \in Handlers, WriteAccreditation(h)
    PROVE  IssuanceInv'
<1>1. UNCHANGED <<audits, certifications, required, completions, offerings, holdings, filings, transfers>>
  BY DEF WriteAccreditation, auditVars, records
<1>2. pc[h] \in Inserts /\ pc[h] # "certify" /\ Return(h)
  BY DEF WriteAccreditation, At, Inserts
<1>3. PICK status \in Statuses :
        status = IF Accredits(job[h].method) THEN "accredited" ELSE "non-accredited"
  BY DEF Statuses
<1>4. PICK table : table = WithInvestor(h, status)
  OBVIOUS
<1>5. PICK row : row = RowOf(h, table)
  OBVIOUS
<1>6. PICK v \in Ids : v = job[h].user
  <2>1. Written(h, status, table, row)
    BY <1>2, <1>4, <1>5, TableWith
  <2> QED BY <2>1 DEF Written
<1>7. /\ table \in Seq(Investor) /\ row \in DOMAIN table /\ table[row].user = v
      /\ DOMAIN table = DOMAIN investors \cup {row} /\ Kept(table)
  <2>1. Written(h, status, table, row)
    BY <1>2, <1>4, <1>5, TableWith
  <2> QED BY <1>6, <2>1 DEF Written
<1>8. /\ investors' = [table EXCEPT ![row].status = status]
      /\ accredited' = IF status = "accredited" THEN accredited \cup {v} ELSE accredited
  BY <1>3, <1>4, <1>5, <1>6 DEF WriteAccreditation, RowOf
<1>9. PICK x \in Investor : x = [table[row] EXCEPT !.status = status]
  <2>1. table[row] \in Investor
    BY <1>7, Elements
  <2> QED BY <2>1 DEF Investor
<1>10. x.user = v /\ x.status = status
  BY <1>7, <1>9, Elements DEF Investor
<1>11. /\ investors' \in Seq(Investor) /\ DOMAIN investors' = DOMAIN table
       /\ investors'[row] = x /\ \A i \in DOMAIN table \ {row} : investors'[i] = table[i]
  <2>1. investors' = [table EXCEPT ![row] = x]
    BY <1>7, <1>8, <1>9
  <2> QED BY <1>7, <1>9, <2>1, Replaced
<1>12. \A i \in DOMAIN investors : investors'[i].user = investors[i].user
  BY <1>7, <1>10, <1>11 DEF Kept
<1>13. Grows
  BY <1>1, <1>7, <1>8, <1>11, <1>12 DEF Grows
<1>14. TypeOK'
  <2>1. failures' \in Nat /\ UNCHANGED <<limits, left>> /\ accredited' \subseteq Ids
    BY <1>2, <1>8, Returned DEF IssuanceInv, TypeOK
  <2> QED BY <1>1, <1>11, <1>13, <2>1, RangesStay DEF IssuanceInv, TypeOK, AuditTypeOK, Investor, Statuses
<1>15. Sound'
  <2>1. ASSUME NEW i \in DOMAIN investors', investors'[i].status = "accredited"
        PROVE  investors'[i].user \in accredited'
    <3>1. CASE i = row
      BY <1>8, <1>10, <1>11, <2>1, <3>1
    <3>2. CASE i # row
      BY <1>7, <1>8, <1>11, <2>1, <3>2 DEF Kept, IssuanceInv, Sound
    <3> QED BY <3>1, <3>2
  <2> QED BY <1>1, <2>1 DEF IssuanceInv, Sound
<1>16. Qualified'
  BY <1>1, <1>13, QualifiedStays DEF IssuanceInv
<1>17. Calls'
  BY <1>2, <1>13, Returned, CallMoves DEF IssuanceInv
<1>18. RowsCounted'
  <2>1. \A i \in DOMAIN table : investors'[i].user = table[i].user
    BY <1>7, <1>10, <1>11
  <2> QED BY <1>2, <1>4, <1>11, <2>1, Returned, CountWritten
<1>19. Recorded'
  BY <1>1, <1>2, Returned, RecordBeside
<1> QED BY <1>14, <1>15, <1>16, <1>17, <1>18, <1>19 DEF IssuanceInv

\* A holding is of a row of the user mintTokens has found eligible.
LEMMA MintHoldingKeeps ==
    ASSUME IssuanceInv, NEW h \in Handlers, MintHolding(h)
    PROVE  IssuanceInv'
<1>1. UNCHANGED <<limits, left, failures, audits, certifications, required, completions, offerings, filings,
                  transfers, accredited>>
  BY DEF MintHolding, auditVars, records, Goto
<1>2. pc[h] \in Inserts /\ pc[h] # "certify" /\ Goto(h, "reread") /\ Fits(job[h], "hold")
  BY DEF MintHolding, At, Inserts, IssuanceInv, Calls
<1>3. PICK status \in Statuses : status = "unverified"
  BY DEF Statuses
<1>4. PICK table : table = WithInvestor(h, status)
  OBVIOUS
<1>5. PICK row : row = RowOf(h, table)
  OBVIOUS
<1>6. PICK v \in Ids, o \in DOMAIN offerings :
        /\ v = job[h].user /\ o = job[h].offering
        /\ offerings[o].accreditedOnly => v \in accredited
  BY <1>2 DEF Fits, Eligible, Serving
<1>7. /\ table \in Seq(Investor) /\ row \in DOMAIN table /\ table[row].user = v
      /\ DOMAIN table = DOMAIN investors \cup {row} /\ Kept(table)
      /\ row \notin DOMAIN investors => table[row].status = status
  <2>1. Written(h, status, table, row)
    BY <1>2, <1>4, <1>5, TableWith
  <2> QED BY <1>6, <2>1 DEF Written
<1>8. PICK x : x = [offering |-> o, row |-> row]
  OBVIOUS
<1>9. investors' = table /\ holdings' = Append(holdings, x)
  <2>1. investors' = table
    BY <1>3, <1>4 DEF MintHolding
  <2>2. row = IF job[h].row = NewRow THEN Len(table) ELSE job[h].row
    BY <1>5 DEF RowOf
  <2>3. holdings' = Append(holdings, [offering |-> job[h].offering, row |-> row])
    BY <1>3, <1>4, <2>2 DEF MintHolding
  <2> QED BY <1>6, <1>8, <2>1, <2>3
<1>10. Grows
  BY <1>1, <1>7, <1>9 DEF Grows, Kept
<1> DEFINE Row == [offering : DOMAIN offerings', row : DOMAIN investors']
<1>11. holdings \in Seq(Row) /\ x \in Row
  BY <1>1, <1>7, <1>8, <1>9, <1>10, RangesStay DEF IssuanceInv
<1>12. /\ holdings' \in Seq(Row) /\ DOMAIN holdings' = DOMAIN holdings \cup {Len(holdings) + 1}
       /\ \A n \in DOMAIN holdings : holdings'[n] = holdings[n]
       /\ holdings'[Len(holdings) + 1] = x
  BY <1>9, <1>11, Appended
<1>13. TypeOK'
  BY <1>1, <1>7, <1>9, <1>10, <1>12, RangesStay DEF IssuanceInv, TypeOK, AuditTypeOK, Investor, Statuses
<1>14. Sound'
  <2>1. ASSUME NEW i \in DOMAIN investors', investors'[i].status = "accredited"
        PROVE  investors'[i].user \in accredited
    BY <1>3, <1>7, <1>9, <2>1 DEF Kept, IssuanceInv, Sound
  <2> QED BY <1>1, <2>1 DEF IssuanceInv, Sound
<1>15. Qualified'
  <2>1. ASSUME NEW n \in DOMAIN holdings'
        PROVE  offerings[holdings'[n].offering].accreditedOnly =>
                  investors'[holdings'[n].row].user \in accredited
    <3>1. CASE n \in DOMAIN holdings
      <4>1. holdings'[n] = holdings[n] /\ holdings[n].row \in DOMAIN investors
        BY <1>12, <3>1, References DEF IssuanceInv
      <4>2. investors'[holdings[n].row] = investors[holdings[n].row]
        BY <1>7, <1>9, <4>1 DEF Kept
      <4> QED BY <3>1, <4>1, <4>2 DEF IssuanceInv, Qualified
    <3>2. CASE n = Len(holdings) + 1
      <4>1. holdings'[n].offering = o /\ investors'[holdings'[n].row].user = v
        BY <1>7, <1>8, <1>9, <1>12, <3>2
      <4> QED BY <1>6, <4>1
    <3> QED BY <1>12, <3>1, <3>2
  <2> QED BY <1>1, <2>1 DEF IssuanceInv, Qualified
<1>16. /\ DOMAIN pc' = Handlers /\ DOMAIN job' = Handlers /\ pc'[h] = "reread"
       /\ \A g \in Handlers \ {h} : pc'[g] = pc[g] /\ job'[g] = job[g]
  BY <1>2 DEF Goto, IssuanceInv, Calls
<1>17. Calls'
  <2>1. Fits(job[h], pc[h])'
    BY <1>16 DEF Fits, Labels, Auditing, Serving, Transferring, Inserts
  <2> QED BY <1>10, <1>16, <2>1, CallMoves DEF IssuanceInv
<1>18. RowsCounted'
  BY <1>2, <1>4, <1>9, <1>16, CountWritten DEF Inserts
<1>19. Recorded'
  BY <1>1, <1>2, <1>16, RecordBeside DEF Auditing
<1> QED BY <1>13, <1>14, <1>15, <1>17, <1>18, <1>19 DEF IssuanceInv

-----------------------------------------------------------------------------
\* The invariant holds, and every step keeps it.
LEMMA IssuanceAlways == Spec => []IssuanceInv
<1>1. Init => IssuanceInv
  <2> SUFFICES ASSUME Init PROVE IssuanceInv
    OBVIOUS
  <2>1. TypeOK
    BY DEF Init, AuditInit, TypeOK, AuditTypeOK
  <2>2. Calls
    BY DEF Init, AuditInit, Calls, Fits, Labels, Auditing, Serving, Transferring, Inserts
  <2>3. Sound /\ Qualified /\ Recorded
    BY DEF Init, AuditInit, Sound, Qualified, Recorded, OnRecord, Auditing
  <2>4. RowsCounted
    BY DEF Init, RowsCounted, RowsOf
  <2> QED BY <2>1, <2>2, <2>3, <2>4 DEF IssuanceInv
<1>2. IssuanceInv /\ [Next]_vars => IssuanceInv'
  <2> SUFFICES ASSUME IssuanceInv, [Next]_vars PROVE IssuanceInv'
    OBVIOUS
  <2>1. CASE AuditNext /\ UNCHANGED issuanceVars
    <3>1. CASE RequestAudit \/ HandleAuditRequired
      <4>1. CreateAuditRequest /\ required' \in Nat
        BY <3>1 DEF RequestAudit, HandleAuditRequired, IssuanceInv, TypeOK, AuditTypeOK
      <4> QED BY <2>1, <4>1, CreateAuditKeeps
    <3>2. CASE DropAuditRequired
      BY <2>1, <3>2, DropAuditKeeps
    <3>3. CASE \E h \in Handlers, a \in DOMAIN audits, critical \in BOOLEAN, s \in Scores :
                 BeginCompleteAudit(h, a, critical, s)
      BY <2>1, <3>3, BeginAuditKeeps
    <3>4. CASE \E h \in Handlers : AuditStep(h)
      BY <2>1, <3>4, AddFindingsKeeps, CertifyKeeps DEF AuditStep
    <3> QED BY <2>1, <3>1, <3>2, <3>3, <3>4 DEF AuditNext
  <2>2. CASE \E h \in Handlers : Step(h) \/ Fail(h)
    <3> SUFFICES ASSUME NEW h \in Handlers, Step(h) PROVE IssuanceInv'
      BY <2>2, Fails
    <3>1. CASE AuditStep(h) /\ UNCHANGED issuanceVars
      BY <3>1, AddFindingsKeeps, CertifyKeeps DEF AuditStep
    <3>2. CASE CheckCertification(h) \/ (\E code \in {0, 1} : InsertOffering(h, code)) \/ Reread(h)
      BY <3>2, CheckCertificationKeeps, InsertOfferingKeeps, RereadKeeps
    <3>3. CASE \E i \in 0 .. Len(investors) : FindInvestor(h, i) \/ CheckInvestor(h, i)
      BY <3>3, FindInvestorKeeps, CheckInvestorKeeps
    <3>4. CASE WriteAccreditation(h) \/ CheckOffering(h) \/ MintHolding(h)
      BY <3>4, WriteAccreditationKeeps, CheckOfferingKeeps, MintHoldingKeeps
    <3>5. CASE \/ \E locked \in BOOLEAN : CheckLockup(h, locked)
               \/ \E i \in 0 .. Len(investors) : CheckRecipient(h, i)
               \/ LogTransferCheck(h)
      BY <3>5, CheckLockupKeeps, CheckRecipientKeeps, LogTransferKeeps
    <3> QED BY <3>1, <3>2, <3>3, <3>4, <3>5 DEF Step
  <2>3. CASE \E h \in Handlers, c \in 0 .. Len(certifications), only \in BOOLEAN : BeginOffering(h, c, only)
    BY <2>3, BeginOfferingKeeps
  <2>4. CASE \E o \in DOMAIN offerings : Activate(o)
    BY <2>4, ActivateKeeps
  <2>5. CASE \E h \in Handlers, u \in Known, m \in {"automatic", "self-certified"} :
               BeginAccreditation(h, u, m)
    BY <2>5, BeginAccreditationKeeps
  <2>6. CASE \E h \in Handlers, o \in DOMAIN offerings, u \in Known : BeginMint(h, o, u)
    BY <2>6, BeginMintKeeps
  <2>7. CASE \E o \in DOMAIN offerings, autoSubmit \in BOOLEAN : SubmitFiling(o, autoSubmit)
    BY <2>7, SubmitFilingKeeps
  <2>8. CASE \E h \in Handlers, o \in DOMAIN offerings, from \in DOMAIN investors,
                to \in Known : BeginTransferCheck(h, o, from, to)
    BY <2>8, BeginTransferKeeps
  <2>9. CASE UNCHANGED vars
    <3>1. UNCHANGED <<limits, pc, job, left, failures, required, completions, audits, certifications,
                      offerings, investors, holdings, filings, transfers, accredited>>
      BY <2>9 DEF vars, callVars, auditVars, issuanceVars, records
    <3>2. TypeOK' /\ Sound'
      BY <3>1 DEF IssuanceInv, TypeOK, AuditTypeOK, Sound
    <3> QED BY <3>1, <3>2, SameGrows, Beside
  <2> QED BY <2>1, <2>2, <2>3, <2>4, <2>5, <2>6, <2>7, <2>8, <2>9 DEF Next
<1> QED BY <1>1, <1>2, PTL DEF Spec

\* completeAudit writes findings and certification in two transactions, on two connections, either
\* of which may fail: a critical finding on record is that of a completion that was refused for
\* it, failed in between or is about to certify, and no certification is without what it answers
\* for.
THEOREM CertificationsBacked == Spec => []CertificationBacked
<1>1. IssuanceInv => CertificationBacked
  <2> SUFFICES ASSUME IssuanceInv PROVE CertificationBacked
    OBVIOUS
  <2>1. \A c \in DOMAIN certifications :
          /\ audits[certifications[c].audit].status = "completed"
          /\ certifications[c].critical =>
                certifications[c].completion \in audits[certifications[c].audit].criticals
    BY DEF IssuanceInv, Sound
  <2>2. \A a \in DOMAIN audits : \A n \in audits[a].criticals : Accounted(a, n)
    BY DEF IssuanceInv, Recorded
  <2> QED BY <2>1, <2>2 DEF CertificationBacked, Accounted, At
<1> QED BY <1>1, IssuanceAlways, PTL

\* Tokens are held only of contracts with a certification whose completion has put no critical
\* finding on record, those of an accredited-only offering by users who were accredited, and a
\* check on record lets such tokens go only to an id that was, although each check is a read
\* outside the transaction that relies on it.
THEOREM HoldersQualify == Spec => []HoldingsQualified
<1>1. IssuanceInv => HoldingsQualified
  <2> SUFFICES ASSUME IssuanceInv PROVE HoldingsQualified
    OBVIOUS
  <2>1. ASSUME NEW n \in DOMAIN holdings
        PROVE  LET c == certifications[offerings[holdings[n].offering].cert] IN
               c.certified /\ c.completion \notin audits[c.audit].criticals
    <3>1. PICK k \in DOMAIN certifications :
            k = offerings[holdings[n].offering].cert /\ certifications[k].certified
      BY References DEF IssuanceInv, Sound
    <3>2. ~certifications[k].critical /\ certifications[k].audit \in DOMAIN audits
      BY <3>1, References DEF IssuanceInv, Sound
    <3>3. ~OnRecord(certifications[k].completion)
      BY <3>2 DEF IssuanceInv, Recorded
    <3> QED BY <3>1, <3>2, <3>3 DEF OnRecord
  <2>2. Qualified
    BY DEF IssuanceInv
  <2> QED BY <2>1, <2>2 DEF HoldingsQualified, Qualified
<1> QED BY <1>1, IssuanceAlways, PTL

\* With no unique index on the user of an investor row, racing calls insert at most one each;
\* rows keep their ranges and references.
THEOREM InvestorRowsAreBounded == Spec => []InvestorRowsBounded
<1>1. IssuanceInv => InvestorRowsBounded
  <2> SUFFICES ASSUME IssuanceInv, NEW i \in DOMAIN investors
               PROVE  Cardinality(RowsOf(investors[i].user)) <= Cardinality(Handlers)
    BY DEF InvestorRowsBounded, IssuanceInv
  <2>1. PICK u \in Ids : u = investors[i].user
    <3>1. investors[i] \in [user : Ids, status : {"accredited", "non-accredited", "unverified"}]
      BY Elements DEF IssuanceInv, TypeOK
    <3> QED BY <3>1
  <2>2. i \in RowsOf(u)
    BY <2>1 DEF RowsOf
  <2>3. Cardinality(RowsOf(u)) + Cardinality(Inserting(u)) <= Cardinality(Handlers)
    BY <2>2 DEF IssuanceInv, RowsCounted
  <2> QED BY <2>1, <2>3, Finite DEF IssuanceInv
<1> QED BY <1>1, IssuanceAlways, PTL
=============================================================================
