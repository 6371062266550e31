----------------------------- MODULE Complaints -----------------------------
(***************************************************************************)
(* services/compliance/complaintsService.ts.  Days are counted from a      *)
(* Sunday.  Staff acknowledge, assign, resolve and escalate by id; each is *)
(* one UPDATE that does not look at the status.                            *)
(***************************************************************************)
EXTENDS ServerCalls

CONSTANTS
    FirstDays,     \* days complaints are submitted on
    ResponseDays   \* business days to respond; 15 in the code

ASSUME DaysAssumption == FirstDays \subseteq Nat /\ ResponseDays \in Nat \ {0}

Sunday == 0
Saturday == 6
Categories == {"security", "privacy", "compliance", "billing", "service_issue", "other"}

VARIABLE complaints   \* in order of insertion

ComplaintsInit == complaints = <<>>

Weekday(day) == day % 7
Business(day) == Weekday(day) \notin {Sunday, Saturday}

\* Mutant: the day of submission counts.
DueFromTheFirstDay(start, businessDays) ==
    CHOOSE day \in start .. start + 2 * businessDays + 2 :
        /\ Business(day)
        /\ Cardinality({d \in start .. day : Business(d)}) = businessDays

\* calculateBusinessDays: step by a day until businessDays of them were not on a weekend.
DueDate(start, businessDays) ==
    LET after[n \in 0 .. businessDays] ==
          IF n = 0 THEN start
          ELSE IF Business(after[n - 1] + 1) THEN after[n - 1] + 1
          ELSE IF Business(after[n - 1] + 2) THEN after[n - 1] + 2
          ELSE after[n - 1] + 3
    IN after[businessDays]

Priority(category) ==
    CASE category = "security" -> "urgent"
      [] category \in {"privacy", "compliance"} -> "high"
      [] category \in {"billing", "service_issue"} -> "normal"
      [] OTHER -> "low"

-----------------------------------------------------------------------------
\* POST /complaints
CreateComplaint(u, category, day) ==
    /\ AtOnce("complain")
    /\ complaints' = Append(complaints,
         [user |-> u, priority |-> Priority(category), submitted |-> day,
          due |-> DueDate(day, ResponseDays), status |-> "submitted", assigned |-> FALSE,
          notes |-> FALSE, regulator |-> FALSE])
    /\ UNCHANGED log

Update(i, changes) ==
    /\ AtOnce("handle")
    /\ complaints' = [complaints EXCEPT ![i] = With(@, changes)]
    /\ UNCHANGED log

AcknowledgeComplaint(i) == Update(i, [status |-> "acknowledged"])
AssignComplaint(i) == Update(i, [status |-> "under_review", assigned |-> TRUE])
ResolveComplaint(i) == Update(i, [status |-> "resolved", notes |-> TRUE])
EscalateToRegulator(i) == Update(i, [status |-> "escalated", regulator |-> TRUE])

\* getOverdueComplaints
Overdue(today) == {i \in DOMAIN complaints :
    complaints[i].due < today /\ complaints[i].status \notin {"resolved", "closed", "escalated"}}

ComplaintsNext ==
    \/ \E u \in Users, category \in Categories, day \in FirstDays : CreateComplaint(u, category, day)
    \/ \E i \in DOMAIN complaints :
          AcknowledgeComplaint(i) \/ AssignComplaint(i) \/ ResolveComplaint(i) \/ EscalateToRegulator(i)

ComplaintsTypeOK ==
    complaints \in Seq([user : Users, priority : {"low", "normal", "high", "urgent"},
                        submitted : FirstDays, due : Nat,
                        status : {"submitted", "acknowledged", "under_review", "resolved", "escalated"},
                        assigned : BOOLEAN, notes : BOOLEAN, regulator : BOOLEAN])

-----------------------------------------------------------------------------
\* "15 business days per MiCA": a complaint is listed as overdue on every day between which and the
\* day it was submitted that many business days lie, both excluded, unless staff closed it, and on
\* no day before.
OverdueAfterResponseDays ==
    \A i \in DOMAIN complaints : \A today \in complaints[i].submitted .. complaints[i].submitted + 30 :
        i \in Overdue(today) <=>
            /\ complaints[i].status \in {"submitted", "acknowledged", "under_review"}
            /\ Cardinality({d \in complaints[i].submitted + 1 .. today - 1 : Business(d)}) >= ResponseDays
=============================================================================
