--------------------------- MODULE Jurisdictions ---------------------------
(***************************************************************************)
(* services/compliance/jurisdictionService.ts: at most one row per user    *)
(* (UNIQUE (user_id)).  geolocateIP answers "USA" for every address, which *)
(* needs a license nobody holds: a row that is detected is geo-blocked.    *)
(***************************************************************************)
EXTENDS ServerCalls

CONSTANT Countries   \* countries a user declares

NoRow == [country |-> "none"]
Detected == "USA"
LicenseRequired == {"USA", "GBR"}

VARIABLE jurisdictions   \* user_jurisdictions, per user

JurisdictionsInit == jurisdictions = [u \in Users |-> NoRow]

\* isGeoBlocked: a user without a row is let through.
IsGeoBlocked(u) == jurisdictions[u] # NoRow /\ jurisdictions[u].blocked

-----------------------------------------------------------------------------
\* GET /jurisdiction, when the user has no row.
BeginDetect(c, u) ==
    /\ jurisdictions[u] = NoRow
    /\ Enter(c, "detect", [op |-> "detect", user |-> u])
    /\ UNCHANGED <<jurisdictions, log>>

\* INSERT ... ON CONFLICT (user_id) DO UPDATE, which keeps the declaration.
DetectJurisdiction(c) ==
    LET u == req[c].user
        old == jurisdictions[u]
        detected == [country |-> Detected, blocked |-> Detected \in LicenseRequired] IN
    /\ At(c, "detect")
    /\ jurisdictions' = [jurisdictions EXCEPT ![u] =
                           With(IF old = NoRow THEN [declared |-> "none"] ELSE old, detected)]
    /\ Record("detect", u)
    /\ Finish(c)

\* POST /jurisdiction/declare: an UPDATE, of nothing when the user has no row.
DeclareJurisdiction(u, country) ==
    /\ jurisdictions[u] # NoRow /\ AtOnce("declare")
    /\ jurisdictions' = [jurisdictions EXCEPT ![u].declared = country]
    /\ UNCHANGED log

JurisdictionsNext ==
    \/ \E c \in Calls, u \in Users : BeginDetect(c, u)
    \/ \E c \in Calls : DetectJurisdiction(c)
    \/ \E u \in Users, country \in Countries : DeclareJurisdiction(u, country)

JurisdictionsTypeOK ==
    jurisdictions \in [Users -> {NoRow} \cup
        [country : {Detected}, blocked : BOOLEAN,
         declared : {"none"} \cup Countries]]
=============================================================================
