---------------------------- MODULE ServerCalls ----------------------------
(***************************************************************************)
(* The calls under way in one server process over tables of its database.  *)
(* A call is idle or waits at a label for its next statement; statements   *)
(* go through the pool and commit one by one, unless the code holds a      *)
(* transaction open, whose COMMIT is then one step.  A call takes its      *)
(* first step when it enters: until then it has read nothing.              *)
(***************************************************************************)
EXTENDS Integers, Sequences, FiniteSets, TLC

CONSTANTS
    Calls,        \* calls in flight
    Users,
    Budgets,      \* bound: how many calls of each operation begin, in one of these mixes
    MaxFailures   \* bound: statements and requests to other services that fail

ASSUME CallsAssumption ==
    /\ IsFiniteSet(Calls) /\ Calls # {}
    /\ \A budget \in Budgets : \A op \in DOMAIN budget : budget[op] \in Nat
    /\ MaxFailures \in Nat

NoRequest == [op |-> "none"]

VARIABLES
    pc, req,      \* per call: where it waits; its arguments and what it has read
    left,         \* calls that may still begin, per operation
    failures,
    log           \* history: what has been written that later checks depend on

callVars == <<pc, req, left, failures>>

CallsInit ==
    /\ pc = [c \in Calls |-> "idle"] /\ req = [c \in Calls |-> NoRequest]
    /\ left \in Budgets /\ failures = 0 /\ log = <<>>

Begin(op) == left[op] > 0 /\ left' = [left EXCEPT ![op] = @ - 1]

Enter(c, l, r) ==
    /\ pc[c] = "idle" /\ Begin(r.op)
    /\ pc' = [pc EXCEPT ![c] = l]
    /\ req' = [req EXCEPT ![c] = r]
    /\ UNCHANGED failures

At(c, l) == pc[c] = l

Goto(c, l) == pc' = [pc EXCEPT ![c] = l] /\ UNCHANGED <<req, left, failures>>

\* r with the fields of facts.
With(r, facts) == [f \in DOMAIN r \cup DOMAIN facts |-> IF f \in DOMAIN facts THEN facts[f] ELSE r[f]]

Note(c, facts, l) ==
    /\ pc' = [pc EXCEPT ![c] = l]
    /\ req' = [req EXCEPT ![c] = With(@, facts)]
    /\ UNCHANGED <<left, failures>>

Finish(c) ==
    /\ pc' = [pc EXCEPT ![c] = "idle"] /\ req' = [req EXCEPT ![c] = NoRequest]
    /\ UNCHANGED <<left, failures>>

\* A handler that changes rows in a single statement: it begins and ends in one step.
AtOnce(op) == Begin(op) /\ UNCHANGED <<pc, req, failures>>

Record(op, u) == log' = Append(log, [op |-> op, user |-> u])

Failing == failures < MaxFailures /\ failures' = failures + 1

\* A statement fails: ROLLBACK of what is open, and the handler answers 500.
Fail(c) ==
    /\ pc[c] # "idle" /\ Failing
    /\ pc' = [pc EXCEPT ![c] = "idle"] /\ req' = [req EXCEPT ![c] = NoRequest]
    /\ UNCHANGED left
=============================================================================
