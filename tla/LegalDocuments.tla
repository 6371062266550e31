--------------------------- MODULE LegalDocuments ---------------------------
(***************************************************************************)
(* services/compliance/legalDocuments.ts.  A row's id is its place in the  *)
(* table and stands for its version too.  createLegalDocument has no route:*)
(* an operator calls it.                                                   *)
(***************************************************************************)
EXTENDS ServerCalls

CONSTANTS Types, Scopes   \* document types; jurisdictions of documents and of questions

Global == "global"        \* legal_documents.jurisdiction is NULL

ASSUME ScopesAssumption == Global \in Scopes

VARIABLES
    documents,   \* legal_documents, in order of insertion, all mandatory and active; seen is a
                 \* history: how many there were when the call that inserted the row began
    consents,    \* user_consents.consented, per user and document
    answers,     \* per user: the last answer of GET /legal-documents
    accepted     \* history: the documents each user has ever consented to

legalVars == <<documents, consents, answers, accepted>>

LegalInit ==
    /\ documents = <<>> /\ consents = << >>
    /\ answers = [u \in Users |-> [types |-> {}, cleared |-> FALSE]]
    /\ accepted = {}

Current == {d \in DOMAIN documents : documents[d].current}
Versions(type, scope) == {d \in DOMAIN documents : documents[d].type = type /\ documents[d].scope = scope}
InForce(scope) == {d \in Current : documents[d].scope \in {scope, Global}}

\* getCurrentDocument answers with one of these: NULLS LAST, and nothing tells two apart.
Shown(type, scope) ==
    LET local == Current \cap Versions(type, scope)
    IN IF local # {} THEN local ELSE Current \cap Versions(type, Global)

HasConsented(u, d) == <<u, d>> \in DOMAIN consents /\ consents[u, d]

-----------------------------------------------------------------------------
\* Mutant: jurisdiction = $2, which no NULL satisfies.
BeginCreateLocal(c, type, scope, reaccept) ==
    /\ Enter(c, "document", [op |-> "create", type |-> type, scope |-> scope, reaccept |-> reaccept,
                             seen |-> Len(documents),
                             unset |-> IF reaccept /\ scope # Global
                                       THEN Current \cap Versions(type, scope) ELSE {}])
    /\ UNCHANGED <<legalVars, log>>

\* BEGIN and the UPDATE of the versions before, which requires_reacceptance = false skips.
\* The rows it matches are those its snapshot holds; a row lock lets it wait, not see more.
BeginCreate(c, type, scope, reaccept) ==
    /\ Enter(c, "document", [op |-> "create", type |-> type, scope |-> scope, reaccept |-> reaccept,
                             seen |-> Len(documents),
                             unset |-> IF reaccept THEN Current \cap Versions(type, scope) ELSE {}])
    /\ UNCHANGED <<legalVars, log>>

NewDocument(c) == [type |-> req[c].type, scope |-> req[c].scope, current |-> TRUE,
                   requires_reacceptance |-> req[c].reaccept, seen |-> req[c].seen]

Unset(rows) == [d \in DOMAIN documents |->
                   IF d \in rows THEN [documents[d] EXCEPT !.current = FALSE] ELSE documents[d]]

\* Mutant: each statement commits for itself.
CreateDocumentInTwo(c) ==
    /\ At(c, "document")
    /\ IF \E d \in req[c].unset : documents[d].current
       THEN /\ documents' = Unset(req[c].unset)
            /\ UNCHANGED callVars
       ELSE /\ documents' = Append(documents, NewDocument(c))
            /\ Finish(c)
    /\ UNCHANGED <<consents, answers, accepted, log>>

\* INSERT and COMMIT.
CreateDocument(c) ==
    /\ At(c, "document")
    /\ documents' = Append(Unset(req[c].unset), NewDocument(c))
    /\ Finish(c)
    /\ UNCHANGED <<consents, answers, accepted, log>>

\* POST /legal-documents/:documentId/consent: an upsert, of any version there is.
RecordConsent(u, d, consented) ==
    /\ AtOnce("consent")
    /\ consents' = With(consents, [pair \in {<<u, d>>} |-> consented])
    /\ accepted' = IF consented THEN accepted \cup {<<u, d>>} ELSE accepted
    /\ UNCHANGED <<documents, answers, log>>

-----------------------------------------------------------------------------
\* GET /legal-documents: the jurisdiction is in the query or in user_jurisdictions.
BeginRequired(c, u, scope) ==
    /\ Enter(c, "required", [op |-> "required", user |-> u, scope |-> scope,
                             types |-> {t \in Types : Shown(t, scope) # {}}])
    /\ UNCHANGED <<legalVars, log>>

ListRequired(c) ==
    /\ At(c, "required")
    /\ Note(c, [listed |-> InForce(req[c].scope)], "consented")
    /\ UNCHANGED <<legalVars, log>>

\* hasUserConsented of each, and the answer.
AnswerRequired(c) ==
    /\ At(c, "consented")
    /\ answers' = [answers EXCEPT ![req[c].user] =
                     [types |-> req[c].types,
                      cleared |-> \A d \in req[c].listed : HasConsented(req[c].user, d)]]
    /\ Finish(c)
    /\ UNCHANGED <<documents, consents, accepted, log>>

LegalNext ==
    \/ \E c \in Calls, t \in Types, s \in Scopes, r \in BOOLEAN : BeginCreate(c, t, s, r)
    \/ \E c \in Calls : CreateDocument(c) \/ ListRequired(c) \/ AnswerRequired(c)
    \/ \E u \in Users, d \in DOMAIN documents, yes \in BOOLEAN : RecordConsent(u, d, yes)
    \/ \E c \in Calls, u \in Users, s \in Scopes : BeginRequired(c, u, s)

LegalTypeOK ==
    /\ documents \in Seq([type : Types, scope : Scopes, current : BOOLEAN,
                          requires_reacceptance : BOOLEAN, seen : Nat])
    /\ DOMAIN consents \subseteq Users \X DOMAIN documents
    /\ accepted \subseteq DOMAIN consents
    /\ answers \in [Users -> [types : SUBSET Types, cleared : BOOLEAN]]

-----------------------------------------------------------------------------
\* "Must be accepted to use service": when a user is told that nothing is left to accept,
\* every type of which a document was shown in the jurisdiction when the question came has been
\* accepted in some version, though list and consents are read apart while versions change.
ClearedMeansAccepted ==
    \A u \in Users : answers[u].cleared =>
        \A t \in answers[u].types : \E d \in DOMAIN documents :
            documents[d].type = t /\ <<u, d>> \in accepted

\* "Only one current version per type/jurisdiction" holds but for versions created without
\* reacceptance, which leave the one before in force, and for creations that ran together.
OneCurrentUnlessKeptOrRaced ==
    \A d, e \in Current :
        (d < e /\ documents[d].type = documents[e].type /\ documents[d].scope = documents[e].scope) =>
            \/ ~documents[e].requires_reacceptance
            \/ documents[e].seen < d
=============================================================================
