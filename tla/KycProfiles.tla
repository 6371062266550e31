---------------------------- MODULE KycProfiles ----------------------------
(***************************************************************************)
(* services/compliance/kycService.ts: the rows of kyc_profiles.  The table *)
(* has no unique index on user_id, so a user may have several rows, and a  *)
(* SELECT without ORDER BY answers with any of them.                       *)
(***************************************************************************)
EXTENDS ServerCalls

CONSTANT Tiers   \* tiers an administrator sends; the route refuses 0, and no other value

VARIABLE profiles   \* kyc_profiles, in order of insertion

KycInit == profiles = <<>>

\* The columns single_, daily_ and monthly_limit are functions of verification_tier.
TierLimits ==
    <<[single |-> 500, daily |-> 1000, monthly |-> 10000],
      [single |-> 5000, daily |-> 10000, monthly |-> 100000],
      [single |-> 50000, daily |-> 100000, monthly |-> 1000000],
      [single |-> 500000, daily |-> 1000000, monthly |-> 10000000]>>

Limits(tier) == IF tier \in DOMAIN TierLimits THEN TierLimits[tier]
                                              ELSE [single |-> 0, daily |-> 0, monthly |-> 0]

ProfilesOf(u) == {i \in DOMAIN profiles : profiles[i].user = u}

NewProfile(u) == [user |-> u, status |-> "pending", tier |-> 0, screened |-> FALSE, pep |-> FALSE]

-----------------------------------------------------------------------------
\* POST /kyc/submit: BEGIN and the SELECT of what there is.
BeginSubmit(c, u) ==
    /\ Enter(c, "profile", [op |-> "submit", user |-> u, known |-> ProfilesOf(u) # {}])
    /\ UNCHANGED <<profiles, log>>

\* Mutant: a new submission starts again from tier 0.
WriteProfileAnew(c) ==
    LET u == req[c].user IN
    /\ At(c, "profile")
    /\ \/ /\ req[c].known
          /\ profiles' = [i \in DOMAIN profiles |->
                            IF i \in ProfilesOf(u) THEN NewProfile(u) ELSE profiles[i]]
          /\ Record("resubmit", u)
       \/ /\ ~req[c].known
          /\ profiles' = Append(profiles, NewProfile(u))
          /\ UNCHANGED log
    /\ Finish(c)

\* UPDATE of every row of the user, or INSERT, and COMMIT: decided by the SELECT.
WriteProfile(c) ==
    LET u == req[c].user IN
    /\ At(c, "profile")
    /\ \/ /\ req[c].known
          /\ profiles' = [i \in DOMAIN profiles |->
                            IF i \in ProfilesOf(u) THEN [profiles[i] EXCEPT !.status = "pending"]
                                                   ELSE profiles[i]]
          /\ Record("resubmit", u)
       \/ /\ ~req[c].known
          /\ profiles' = Append(profiles, NewProfile(u))
          /\ UNCHANGED log
    /\ Finish(c)

\* POST /admin/kyc/verify: one row by its id, whatever its documents and screenings.
VerifyProfile(i, tier) ==
    /\ AtOnce("verify")
    /\ profiles' = [profiles EXCEPT ![i].status = "approved", ![i].tier = tier]
    /\ log' = Append(log, [op |-> "verify", user |-> profiles[i].user, tier |-> tier])

-----------------------------------------------------------------------------
\* isKYCRequired, of the row the SELECT happens to return.
KycRequired(i, amount) ==
    \/ profiles[i].status # "approved"
    \/ amount > Limits(profiles[i].tier).single

KycNext ==
    \/ \E c \in Calls, u \in Users : BeginSubmit(c, u)
    \/ \E c \in Calls : WriteProfile(c)
    \/ \E i \in DOMAIN profiles, t \in Tiers : VerifyProfile(i, t)

KycTypeOK ==
    /\ profiles \in Seq([user : Users, status : {"pending", "approved"}, tier : {0} \cup Tiers,
                         screened : BOOLEAN, pep : BOOLEAN])
=============================================================================
