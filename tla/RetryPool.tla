----------------------------- MODULE RetryPool -----------------------------
(***************************************************************************)
(* What a pool of retried jobs promises, whatever it is made of: a job is  *)
(* submitted once, runs in one of Slots slots, is tried at most            *)
(* MaxAttempts times, and never runs again once it is done.  The jobs of a *)
(* stopped pool are lost.                                                  *)
(***************************************************************************)
EXTENDS Integers, FiniteSets

CONSTANTS Jobs, Slots, MaxAttempts

VARIABLES
    state,  \* of each job: new, waiting, running, broken, done
    tries   \* of each job: how often it has been started

vars == <<state, tries>>

Init ==
    /\ state = [j \in Jobs |-> "new"]
    /\ tries = [j \in Jobs |-> 0]

Running(s) == {j \in Jobs : s[j] = "running"}

\* Job j goes to state `to`; of the jobs that wait then, those of S start.
Move(j, to, S) ==
    LET moved == [state EXCEPT ![j] = to] IN
    /\ \A k \in S : moved[k] = "waiting" /\ tries[k] < MaxAttempts
    /\ state' = [k \in Jobs |-> IF k \in S THEN "running" ELSE moved[k]]
    /\ tries' = [k \in Jobs |-> IF k \in S THEN tries[k] + 1 ELSE tries[k]]
    /\ S # {} => Cardinality(Running(state')) <= Slots

Submit(j) == state[j] = "new" /\ \E S \in SUBSET Jobs : Move(j, "waiting", S)
Finish(j) == state[j] = "running" /\ \E S \in SUBSET Jobs : Move(j, "done", S)
Break(j) == state[j] = "running" /\ Move(j, "broken", {})
Requeue(j) == state[j] = "broken" /\ tries[j] < MaxAttempts /\ Move(j, "waiting", {})
Abandon(j) == state[j] = "broken" /\ tries[j] = MaxAttempts /\ Move(j, "done", {})

Stop ==
    /\ state' = [j \in Jobs |-> IF state[j] = "new" THEN "new" ELSE "done"]
    /\ UNCHANGED tries

Next ==
    \/ \E j \in Jobs : Submit(j) \/ Finish(j) \/ Break(j) \/ Requeue(j) \/ Abandon(j)
    \/ Stop

Spec == Init /\ [][Next]_vars
=============================================================================
