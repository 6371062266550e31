--------------------------- MODULE ComplianceDesk ---------------------------
(***************************************************************************)
(* What the compliance routes do besides payments, over one database: KYC  *)
(* submissions, uploads, sanctions and PEP screening, approvals, legal     *)
(* documents and consents, complaints.  Every call's statements commit one *)
(* by one, but for the two transactions of KycProfiles and LegalDocuments. *)
(***************************************************************************)
EXTENDS KycProfiles, LegalDocuments, Complaints

Lists == <<"ofac", "un", "eu", "uk", "pep">>

VARIABLES
    screenings,    \* sanctions_screening, as pairs of user and list; no list ever matches
    kyc_documents  \* the profile of each document uploaded, in order

deskVars == <<callVars, profiles, legalVars, complaints, screenings, kyc_documents, log>>

DeskInit ==
    /\ CallsInit /\ KycInit /\ LegalInit /\ ComplaintsInit
    /\ screenings = {} /\ kyc_documents = <<>>

NotKyc == UNCHANGED <<legalVars, complaints, log>>

-----------------------------------------------------------------------------
\* POST /kyc/screen; without a profile it answers 404.
BeginScreen(c, u) ==
    /\ ProfilesOf(u) # {}
    /\ Enter(c, "screen", [op |-> "screen", user |-> u, next |-> 1])
    /\ UNCHANGED <<profiles, screenings, kyc_documents>> /\ NotKyc

\* Mutant: the profile is marked before the lists are asked.
ScreenListMarked(c) ==
    /\ At(c, "screen") /\ req[c].next <= Len(Lists)
    /\ profiles' = [i \in DOMAIN profiles |->
                      [profiles[i] EXCEPT !.screened = @ \/ i \in ProfilesOf(req[c].user)]]
    /\ screenings' = screenings \cup {<<req[c].user, Lists[req[c].next]>>}
    /\ Note(c, [next |-> req[c].next + 1], "screen")
    /\ UNCHANGED kyc_documents /\ NotKyc

\* One list and its INSERT.
ScreenList(c) ==
    /\ At(c, "screen") /\ req[c].next <= Len(Lists)
    /\ screenings' = screenings \cup {<<req[c].user, Lists[req[c].next]>>}
    /\ Note(c, [next |-> req[c].next + 1], "screen")
    /\ UNCHANGED <<profiles, kyc_documents>> /\ NotKyc

\* UPDATE of every row of the user: sanctions_check_completed.
MarkScreened(c) ==
    /\ At(c, "screen") /\ req[c].next > Len(Lists)
    /\ profiles' = [i \in DOMAIN profiles |->
                      [profiles[i] EXCEPT !.screened = @ \/ i \in ProfilesOf(req[c].user)]]
    /\ Goto(c, "pep")
    /\ UNCHANGED <<screenings, kyc_documents>> /\ NotKyc

\* screenPEP, and the answer.
ScreenPEP(c) ==
    /\ At(c, "pep")
    /\ profiles' = [i \in DOMAIN profiles |->
                      [profiles[i] EXCEPT !.pep = @ \/ i \in ProfilesOf(req[c].user)]]
    /\ Finish(c)
    /\ UNCHANGED <<screenings, kyc_documents>> /\ NotKyc

\* POST /kyc/documents: getKYCProfile returns any row of the user.
BeginUpload(c, i) ==
    /\ Enter(c, "upload", [op |-> "upload", profile |-> i])
    /\ UNCHANGED <<profiles, screenings, kyc_documents>> /\ NotKyc

StoreUpload(c) ==
    /\ At(c, "upload")
    /\ kyc_documents' = Append(kyc_documents, req[c].profile)
    /\ Finish(c)
    /\ UNCHANGED <<profiles, screenings>> /\ NotKyc

-----------------------------------------------------------------------------
ScreenOrUpload ==
    \/ \E c \in Calls, u \in Users : BeginScreen(c, u)
    \/ \E c \in Calls : ScreenList(c) \/ MarkScreened(c) \/ ScreenPEP(c) \/ StoreUpload(c)
    \/ \E c \in Calls, i \in DOMAIN profiles : BeginUpload(c, i)

FailCall(c) == Fail(c) /\ UNCHANGED <<profiles, legalVars, complaints, screenings, kyc_documents, log>>

DeskNext ==
    \/ ScreenOrUpload
    \/ KycNext /\ UNCHANGED <<legalVars, complaints, screenings, kyc_documents>>
    \/ LegalNext /\ UNCHANGED <<profiles, complaints, screenings, kyc_documents>>
    \/ ComplaintsNext /\ UNCHANGED <<profiles, legalVars, screenings, kyc_documents>>
    \/ \E c \in Calls : FailCall(c)

DeskSpec == DeskInit /\ [][DeskNext]_deskVars

-----------------------------------------------------------------------------
\* Ranges; consents, accepted and kyc_documents refer to rows there are.
DeskTypeOK ==
    /\ KycTypeOK /\ LegalTypeOK /\ ComplaintsTypeOK
    /\ pc \in [Calls -> {"idle", "profile", "document", "required", "consented", "screen", "pep",
                         "upload"}]
    /\ failures \in 0 .. MaxFailures
    /\ screenings \subseteq Users \X {Lists[n] : n \in DOMAIN Lists}
    /\ \A n \in DOMAIN kyc_documents : kyc_documents[n] \in DOMAIN profiles

\* "Screen user against sanctions lists": a profile is never marked as checked, for sanctions or
\* as a politically exposed person, before every list is on record for its user, though the
\* inserts commit one by one, any may fail, and screenings of a user overlap.  Rows
\* keep their ranges and references.
ScreenedAgainstAll ==
    DeskTypeOK /\ \A i \in DOMAIN profiles : profiles[i].screened \/ profiles[i].pep =>
        \A n \in DOMAIN Lists : <<profiles[i].user, Lists[n]>> \in screenings
=============================================================================
