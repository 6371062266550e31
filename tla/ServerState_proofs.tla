------------------------ MODULE ServerState_proofs ------------------------
(***************************************************************************)
(* Proofs about the state a server keeps outside the database: TaskQueue in *)
(* its memory, for any tasks and limits, and ActivityStore in a file, for  *)
(* any servers, ids, caps, numbers of requests and faults.                 *)
(***************************************************************************)
EXTENDS TaskQueue, ActivityStore, FiniteSetTheorems, SequenceTheorems, TLAPS

-----------------------------------------------------------------------------
(***************************************************************************)
(* TaskQueue.                                                              *)
(***************************************************************************)
Distinct(q) == \A i, j \in DOMAIN q : q[i] = q[j] => i = j

\* Appending a task that does not wait keeps the entries distinct.
LEMMA Appended ==
  ASSUME NEW q \in Seq(Tasks), Distinct(q), NEW t \in Tasks, t \notin Elements(q)
  PROVE  /\ Append(q, t) \in Seq(Tasks)
         /\ Distinct(Append(q, t))
         /\ Elements(Append(q, t)) = Elements(q) \union {t}
<1> DEFINE r == Append(q, t)
<1>1. /\ r \in Seq(Tasks) /\ Len(r) = Len(q) + 1 /\ r[Len(q) + 1] = t
      /\ \A i \in 1 .. Len(q) : r[i] = q[i]
  BY AppendProperties
<1>2. DOMAIN q = 1 .. Len(q) /\ DOMAIN r = 1 .. Len(q) + 1 /\ Len(q) \in Nat
  BY <1>1, LenProperties
<1> HIDE DEF r
<1>3. Distinct(r)
  BY <1>1, <1>2 DEF Distinct, Elements
<1>4. Elements(r) = Elements(q) \union {t}
  BY <1>1, <1>2 DEF Elements
<1> QED BY <1>1, <1>3, <1>4 DEF r

\* Taking the first k entries off a queue leaves the others, distinct as before.
LEMMA Remainder ==
  ASSUME NEW q \in Seq(Tasks), Distinct(q), NEW k \in 0 .. Len(q)
  PROVE  /\ SubSeq(q, k + 1, Len(q)) \in Seq(Tasks)
         /\ Distinct(SubSeq(q, k + 1, Len(q)))
         /\ Elements(SubSeq(q, k + 1, Len(q))) = Elements(q) \ {q[i] : i \in 1 .. k}
<1> DEFINE r == SubSeq(q, k + 1, Len(q))
<1>1. PICK n \in Nat : n = Len(q)
  BY LenProperties
<1>2. DOMAIN q = 1 .. n /\ k \in 0 .. n /\ \A i \in 1 .. n : q[i] \in Tasks
  BY <1>1, LenProperties, ElementOfSeq
<1>3. /\ r \in Seq(Tasks)
      /\ Len(r) = IF k + 1 <= n THEN n - (k + 1) + 1 ELSE 0
      /\ \A i \in 1 .. n - (k + 1) + 1 : r[i] = q[k + 1 + i - 1]
  <2>1. \A i \in k + 1 .. n : q[i] \in Tasks
    BY <1>2
  <2> QED BY <2>1, <1>1, <1>2, SubSeqProperties
<1> HIDE DEF r
<1>4. Len(r) = n - k /\ DOMAIN r = 1 .. n - k
  <2>1. Len(r) = n - k
    BY <1>2, <1>3
  <2> QED BY <2>1, <1>3, LenProperties
<1>5. ASSUME NEW i \in 1 .. n - k PROVE r[i] = q[k + i] /\ k + i \in 1 .. n /\ k + i > k
  <2>1. i \in 1 .. n - (k + 1) + 1 /\ k + 1 + i - 1 = k + i /\ k + i \in 1 .. n /\ k + i > k
    BY <1>2
  <2> QED BY <2>1, <1>3
<1>6. Distinct(r)
  <2> SUFFICES ASSUME NEW i \in 1 .. n - k, NEW j \in 1 .. n - k, r[i] = r[j] PROVE i = j
    BY <1>4 DEF Distinct
  <2>1. k + i = k + j
    BY <1>2, <1>5 DEF Distinct
  <2> QED BY <2>1, <1>2
<1>7. ASSUME NEW i \in 1 .. n PROVE q[i] \in {q[j] : j \in 1 .. k} <=> i <= k
  BY <1>2 DEF Distinct
<1>8. Elements(r) = Elements(q) \ {q[i] : i \in 1 .. k}
  <2>1. ASSUME NEW x \in Elements(r) PROVE x \in Elements(q) \ {q[i] : i \in 1 .. k}
    <3>1. PICK i \in 1 .. n - k : x = r[i]
      BY <1>4 DEF Elements
    <3>2. x = q[k + i] /\ k + i \in 1 .. n /\ ~(k + i <= k)
      BY <3>1, <1>5, <1>2
    <3> QED BY <3>2, <1>7, <1>2 DEF Elements
  <2>2. ASSUME NEW x \in Elements(q) \ {q[i] : i \in 1 .. k} PROVE x \in Elements(r)
    <3>1. PICK i \in 1 .. n : x = q[i]
      BY <1>2 DEF Elements
    <3>2. ~(i <= k)
      BY <3>1, <1>7
    <3>3. i - k \in 1 .. n - k /\ k + (i - k) = i
      BY <3>2, <1>2
    <3>4. x = r[i - k]
      BY <3>1, <3>3, <1>5
    <3> QED BY <3>3, <3>4, <1>4 DEF Elements
  <2> QED BY <2>1, <2>2
<1> QED BY <1>3, <1>6, <1>8 DEF r

\* What processQueue starts and leaves: the tasks stay distinct, none is lost, and
\* the limit holds.
LEMMA Dispatched ==
  ASSUME NEW q \in Seq(Tasks), Distinct(q),
         NEW p, IsFiniteSet(p), Cardinality(p) <= MaxConcurrent,
         NEW r, r = SubSeq(q, Startable(q, p) + 1, Len(q))
  PROVE  /\ r \in Seq(Tasks) /\ Distinct(r)
         /\ Started(q, p) \subseteq Elements(q)
         /\ Elements(q) \subseteq Tasks
         /\ Elements(r) = Elements(q) \ Started(q, p)
         /\ IsFiniteSet(p \union Started(q, p))
         /\ Cardinality(p \union Started(q, p)) <= MaxConcurrent
<1>1. Len(q) \in Nat /\ DOMAIN q = 1 .. Len(q) /\ \A i \in 1 .. Len(q) : q[i] \in Tasks
  BY LenProperties, ElementOfSeq
<1>2. Cardinality(p) \in Nat
  BY FS_CardinalityType
<1>3. PICK k \in 0 .. Len(q) : k = Startable(q, p) /\ k <= MaxConcurrent - Cardinality(p)
  <2>1. Startable(q, p) \in 0 .. Len(q) /\ Startable(q, p) <= MaxConcurrent - Cardinality(p)
    BY <1>1, <1>2, LimitsAssumption DEF Startable
  <2> QED BY <2>1
<1>4. Started(q, p) = {q[i] : i \in 1 .. k}
  BY <1>3 DEF Started
<1>5. r \in Seq(Tasks) /\ Distinct(r) /\ Elements(r) = Elements(q) \ Started(q, p)
  <2>1. r = SubSeq(q, k + 1, Len(q))
    BY <1>3
  <2> QED BY <2>1, <1>4, Remainder
<1>6. Started(q, p) \subseteq Elements(q) /\ Elements(q) \subseteq Tasks
  BY <1>1, <1>3, <1>4 DEF Elements
<1>7. IsFiniteSet(Started(q, p)) /\ Cardinality(Started(q, p)) <= k
  <2>1. k \in Nat /\ IsFiniteSet(1 .. k) /\ Cardinality(1 .. k) = k
    <3>1. k \in Nat
      BY <1>1, <1>3
    <3> QED BY <3>1, FS_Interval
  <2>2. PICK f \in Surjection(1 .. k, Started(q, p)) : TRUE
    <3>1. [i \in 1 .. k |-> q[i]] \in Surjection(1 .. k, Started(q, p))
      BY <1>4 DEF Surjection
    <3> QED BY <3>1
  <2>3. /\ IsFiniteSet(Started(q, p))
        /\ Cardinality(Started(q, p)) <= Cardinality(1 .. k)
    BY <2>1, <2>2, FS_Surjection
  <2> QED BY <2>1, <2>3
<1>8. /\ IsFiniteSet(p \union Started(q, p))
      /\ Cardinality(p \union Started(q, p)) <= MaxConcurrent
  <2>1. /\ IsFiniteSet(p \union Started(q, p))
        /\ Cardinality(p \union Started(q, p))
             = Cardinality(p) + Cardinality(Started(q, p)) - Cardinality(p \cap Started(q, p))
    BY <1>7, FS_Union
  <2>2. Cardinality(p \cap Started(q, p)) \in Nat /\ Cardinality(Started(q, p)) \in Nat
    BY <1>7, FS_Intersection, FS_CardinalityType
  <2>3. MaxConcurrent \in Nat /\ k \in Nat
    BY <1>1, <1>3, LimitsAssumption
  <2> QED BY <2>1, <2>2, <2>3, <1>2, <1>3, <1>7
<1> QED BY <1>5, <1>6, <1>8

\* The step of processQueue as the actions take it.
LEMMA QueueProcessed ==
  ASSUME attempts \in [Tasks -> Nat],
         NEW q \in Seq(Tasks), Distinct(q),
         NEW p \in SUBSET Tasks, IsFiniteSet(p), Cardinality(p) <= MaxConcurrent,
         ProcessQueue(q, p)
  PROVE  /\ queue' \in Seq(Tasks) /\ Distinct(queue')
         /\ Started(q, p) \subseteq Elements(q) /\ Elements(q) \subseteq Tasks
         /\ Waiting' = Elements(q) \ Started(q, p)
         /\ processing' = p \union Started(q, p)
         /\ IsFiniteSet(processing') /\ Cardinality(processing') <= MaxConcurrent
         /\ attempts' \in [Tasks -> Nat]
         /\ \A u \in Tasks : attempts'[u]
                = IF u \in Started(q, p) THEN attempts[u] + 1 ELSE attempts[u]
<1>1. /\ queue' = SubSeq(q, Startable(q, p) + 1, Len(q))
      /\ processing' = p \union Started(q, p)
      /\ attempts' = [u \in Tasks |-> IF u \in Started(q, p) THEN attempts[u] + 1 ELSE attempts[u]]
  BY DEF ProcessQueue, Start
<1>2. /\ queue' \in Seq(Tasks) /\ Distinct(queue')
      /\ Started(q, p) \subseteq Elements(q) /\ Elements(q) \subseteq Tasks
      /\ Elements(queue') = Elements(q) \ Started(q, p)
      /\ IsFiniteSet(p \union Started(q, p))
      /\ Cardinality(p \union Started(q, p)) <= MaxConcurrent
  BY <1>1, Dispatched
<1> QED BY <1>1, <1>2 DEF Waiting

-----------------------------------------------------------------------------
\* What ties a task's attempts to its failures and to where it is.
Accounted(t) ==
    /\ t \in Waiting => attempts[t] = retries[t]
    /\ t \in processing \union thrown => attempts[t] = retries[t] + 1
    /\ attempts[t] <= MaxRetries + 1
    /\ crashes = 0 /\ tstatus[t] # "none" /\ t \notin Waiting => attempts[t] > retries[t]
    /\ tstatus[t] = "none" =>
          /\ attempts[t] = 0 /\ retries[t] = 0
          /\ t \notin Waiting \union processing \union thrown \union failing

QueueInv ==
    /\ TypeOK
    /\ QueuedOnce
    /\ IsFiniteSet(processing) /\ Cardinality(processing) <= MaxConcurrent
    /\ \A t \in Tasks : Accounted(t)

\* The empty queue of a started server satisfies the invariant.
LEMMA QueueInvInit == Init => QueueInv
<1> SUFFICES ASSUME Init PROVE QueueInv
  OBVIOUS
<1>1. queue = <<>> /\ Waiting = {} /\ queue \in Seq(Tasks)
  BY DEF Init, Waiting, Elements
<1>2. TypeOK
  BY <1>1, LimitsAssumption DEF Init, TypeOK
<1>3. QueuedOnce
  BY <1>1 DEF Init, QueuedOnce
<1>4. IsFiniteSet(processing) /\ Cardinality(processing) <= MaxConcurrent
  BY FS_EmptySet, LimitsAssumption DEF Init
<1>5. \A t \in Tasks : Accounted(t)
  BY <1>1, LimitsAssumption DEF Init, Accounted
<1> QED BY <1>2, <1>3, <1>4, <1>5 DEF QueueInv

\* The tasks S start, taken from those of W.
Starts(W, p, S) ==
    /\ S \subseteq W /\ W \subseteq Tasks
    /\ queue' \in Seq(Tasks) /\ Distinct(queue') /\ Waiting' = W \ S
    /\ processing' = p \union S
    /\ IsFiniteSet(processing') /\ Cardinality(processing') <= MaxConcurrent
    /\ attempts' \in [Tasks -> Nat]
    /\ \A u \in Tasks : attempts'[u] = IF u \in S THEN attempts[u] + 1 ELSE attempts[u]

\* What a request that enqueues t changes: t is appended, then some tasks start.
Enqueued(t, S) ==
    /\ t \notin Waiting \union processing \union thrown \union failing
    /\ tstatus[t] = "none" /\ attempts[t] = 0 /\ retries[t] = 0
    /\ Starts(Waiting \union {t}, processing, S)
    /\ tstatus' = [tstatus EXCEPT ![t] = "assigned"]
    /\ UNCHANGED <<thrown, retries, failing, crashes>>

\* What Enqueue does, in terms of sets instead of the array.
LEMMA EnqueueEffect ==
  ASSUME QueueInv, NEW t \in Tasks, Enqueue(t)
  PROVE  \E S \in SUBSET Tasks : Enqueued(t, S)
<1> DEFINE q == Append(queue, t)
           S == Started(q, processing)
<1>1. /\ t \notin Waiting \union processing \union thrown \union failing
      /\ tstatus[t] = "none" /\ attempts[t] = 0 /\ retries[t] = 0
  BY DEF QueueInv, Accounted, Enqueue
<1>2. q \in Seq(Tasks) /\ Distinct(q) /\ Elements(q) = Waiting \union {t}
  <2>1. queue \in Seq(Tasks) /\ Distinct(queue) /\ t \notin Elements(queue)
    BY <1>1 DEF QueueInv, TypeOK, QueuedOnce, Distinct, Waiting
  <2> QED BY <2>1, Appended DEF Waiting
<1>3. /\ queue' \in Seq(Tasks) /\ Distinct(queue')
      /\ S \subseteq Waiting \union {t} /\ Waiting \union {t} \subseteq Tasks
      /\ Waiting' = (Waiting \union {t}) \ S
      /\ processing' = processing \union S
      /\ IsFiniteSet(processing') /\ Cardinality(processing') <= MaxConcurrent
      /\ attempts' \in [Tasks -> Nat]
      /\ \A u \in Tasks : attempts'[u] = IF u \in S THEN attempts[u] + 1 ELSE attempts[u]
  <2>1. ProcessQueue(q, processing)
    BY DEF Enqueue
  <2>2. /\ attempts \in [Tasks -> Nat] /\ processing \in SUBSET Tasks
        /\ IsFiniteSet(processing) /\ Cardinality(processing) <= MaxConcurrent
    BY DEF QueueInv, TypeOK
  <2> HIDE DEF q
  <2> QED BY <2>1, <2>2, <1>2, QueueProcessed
<1>4. /\ tstatus' = [tstatus EXCEPT ![t] = "assigned"]
      /\ UNCHANGED <<thrown, retries, failing, crashes>>
  BY DEF Enqueue
<1> HIDE DEF S, q
<1>5. Enqueued(t, S)
  BY <1>1, <1>3, <1>4 DEF Enqueued, Starts
<1>6. S \in SUBSET Tasks
  BY <1>3
<1> QED BY <1>5, <1>6

\* A request keeps the invariant: the task is new, so it waits nowhere yet.
LEMMA EnqueueKeepsInv ==
  ASSUME QueueInv, NEW t \in Tasks, Enqueue(t)
  PROVE  QueueInv'
<1> USE LimitsAssumption DEF Enqueued, Starts
<1>1. PICK S \in SUBSET Tasks : Enqueued(t, S)
  BY EnqueueEffect
<1>2. TypeOK'
  BY <1>1 DEF QueueInv, TypeOK
<1>3. QueuedOnce'
  BY <1>1 DEF QueueInv, QueuedOnce, Distinct
<1>4. ASSUME NEW u \in Tasks PROVE Accounted(u)'
  <2>1. /\ attempts[u] \in Nat /\ retries[u] \in 0 .. MaxRetries
        /\ tstatus'[u] = IF u = t THEN "assigned" ELSE tstatus[u]
        /\ Accounted(u)
    BY <1>1 DEF QueueInv, TypeOK
  <2>2. attempts'[u] = IF u \in S THEN attempts[u] + 1 ELSE attempts[u]
    BY <1>1
  <2>3. u \in Waiting => u \notin processing \union thrown
    BY DEF QueueInv, QueuedOnce
  <2> QED BY <2>1, <2>2, <2>3, <1>1 DEF Accounted
<1> QED BY <1>1, <1>2, <1>3, <1>4 DEF QueueInv

\* What a task that returns changes: its slot is free, then some tasks start.
Returned(t, S) ==
    /\ t \in processing /\ attempts[t] = retries[t] + 1
    /\ t \notin Waiting \union thrown \union failing /\ tstatus[t] # "none"
    /\ Starts(Waiting, processing \ {t}, S)
    /\ \E s \in {tstatus[t], "completed", "failed"} : tstatus' = [tstatus EXCEPT ![t] = s]
    /\ UNCHANGED <<thrown, retries, failing, crashes>>

\* What Returns does, in terms of sets instead of the array.
LEMMA ReturnsEffect ==
  ASSUME QueueInv, NEW t \in Tasks, Returns(t)
  PROVE  \E S \in SUBSET Tasks : Returned(t, S)
<1> DEFINE p == processing \ {t}
           S == Started(queue, p)
<1>1. /\ t \in processing /\ attempts[t] = retries[t] + 1
      /\ t \notin Waiting \union thrown \union failing /\ tstatus[t] # "none"
  BY DEF QueueInv, QueuedOnce, Accounted, Returns
<1>2. /\ queue' \in Seq(Tasks) /\ Distinct(queue')
      /\ S \subseteq Waiting /\ Waiting \subseteq Tasks
      /\ Waiting' = Waiting \ S
      /\ processing' = (processing \ {t}) \union S
      /\ IsFiniteSet(processing') /\ Cardinality(processing') <= MaxConcurrent
      /\ attempts' \in [Tasks -> Nat]
      /\ \A u \in Tasks : attempts'[u] = IF u \in S THEN attempts[u] + 1 ELSE attempts[u]
  <2>1. ProcessQueue(queue, p)
    BY DEF Returns
  <2>2. /\ attempts \in [Tasks -> Nat] /\ p \in SUBSET Tasks
        /\ queue \in Seq(Tasks) /\ Distinct(queue)
    BY DEF QueueInv, TypeOK, QueuedOnce, Distinct
  <2>3. IsFiniteSet(p) /\ Cardinality(p) <= MaxConcurrent
    <3>1. /\ IsFiniteSet(p) /\ Cardinality(p) = Cardinality(processing) - 1
          /\ Cardinality(processing) \in Nat /\ Cardinality(processing) <= MaxConcurrent
      BY <1>1, FS_RemoveElement, FS_CardinalityType DEF QueueInv
    <3> QED BY <3>1, LimitsAssumption
  <2> HIDE DEF p
  <2>4. /\ queue' \in Seq(Tasks) /\ Distinct(queue')
        /\ S \subseteq Elements(queue) /\ Elements(queue) \subseteq Tasks
        /\ Waiting' = Elements(queue) \ S
        /\ processing' = p \union S
        /\ IsFiniteSet(processing') /\ Cardinality(processing') <= MaxConcurrent
        /\ attempts' \in [Tasks -> Nat]
        /\ \A u \in Tasks : attempts'[u] = IF u \in S THEN attempts[u] + 1 ELSE attempts[u]
    BY <2>1, <2>2, <2>3, QueueProcessed
  <2> QED BY <2>4 DEF Waiting, p
<1> HIDE DEF S, p
<1>3. Returned(t, S)
  BY <1>1, <1>2 DEF Returned, Starts, Returns
<1>4. S \in SUBSET Tasks
  BY <1>2
<1> QED BY <1>3, <1>4

\* A task that returns keeps the invariant: the tasks started fit its slot.
LEMMA ReturnsKeepsInv ==
  ASSUME QueueInv, NEW t \in Tasks, Returns(t)
  PROVE  QueueInv'
<1> USE LimitsAssumption DEF Returned, Starts
<1>1. PICK S \in SUBSET Tasks : Returned(t, S)
  BY ReturnsEffect
<1>2. TypeOK'
  <2>1. PICK s \in {tstatus[t], "completed", "failed"} : tstatus' = [tstatus EXCEPT ![t] = s]
    BY <1>1
  <2> QED BY <1>1, <2>1 DEF QueueInv, TypeOK
<1>3. QueuedOnce'
  BY <1>1 DEF QueueInv, QueuedOnce, Distinct
<1>4. ASSUME NEW u \in Tasks PROVE Accounted(u)'
  <2>1. /\ attempts[u] \in Nat /\ retries[u] \in 0 .. MaxRetries
        /\ (tstatus'[u] = "none") <=> (tstatus[u] = "none")
        /\ Accounted(u)
    BY <1>1 DEF QueueInv, TypeOK
  <2>2. attempts'[u] = IF u \in S THEN attempts[u] + 1 ELSE attempts[u]
    BY <1>1
  <2>3. u \in Waiting => u \notin processing \union thrown
    BY DEF QueueInv, QueuedOnce
  <2> QED BY <2>1, <2>2, <2>3, <1>1 DEF Accounted
<1> QED BY <1>1, <1>2, <1>3, <1>4 DEF QueueInv

\* The steps that start no task: a rejection, its .catch, the UPDATE after it.
LEMMA FailureKeepsInv ==
  ASSUME QueueInv, NEW t \in Tasks, Throws(t) \/ Settle(t)
  PROVE  QueueInv'
<1> USE LimitsAssumption
<1>1. IsFiniteSet(processing \ {t}) /\ Cardinality(processing \ {t}) <= MaxConcurrent
  <2>1. /\ IsFiniteSet(processing \ {t})
        /\ Cardinality(processing \ {t}) <= Cardinality(processing)
        /\ Cardinality(processing) \in Nat /\ Cardinality(processing \ {t}) \in Nat
        /\ Cardinality(processing) <= MaxConcurrent
    BY FS_RemoveElement, FS_CardinalityType DEF QueueInv
  <2> QED BY <2>1
<1>2. ASSUME NEW u \in Tasks
      PROVE  attempts[u] \in Nat /\ retries[u] \in 0 .. MaxRetries /\ Accounted(u)
  BY DEF QueueInv, TypeOK
<1>3. CASE Throws(t)
  <2>1. /\ t \in processing /\ t \notin Waiting \union thrown \union failing
        /\ tstatus[t] # "none"
    BY <1>3, <1>2 DEF QueueInv, QueuedOnce, Accounted, Throws
  <2>2. PICK s \in {tstatus[t], "completed"} : tstatus' = [tstatus EXCEPT ![t] = s]
    BY <1>3 DEF Throws
  <2>3. /\ processing' = processing \ {t} /\ thrown' = thrown \union {t}
        /\ UNCHANGED <<queue, retries, attempts, failing, crashes>> /\ Waiting' = Waiting
    BY <1>3 DEF Throws, Waiting
  <2>4. TypeOK'
    BY <2>2, <2>3 DEF QueueInv, TypeOK
  <2>5. QueuedOnce'
    BY <2>1, <2>3 DEF QueueInv, QueuedOnce
  <2>6. ASSUME NEW u \in Tasks PROVE Accounted(u)'
    <3>1. (tstatus'[u] = "none") <=> (tstatus[u] = "none")
      BY <2>1, <2>2 DEF QueueInv, TypeOK
    <3> QED BY <3>1, <1>2, <2>1, <2>3 DEF Accounted
  <2> QED BY <1>1, <2>3, <2>4, <2>5, <2>6 DEF QueueInv
<1>4. CASE Retry(t)
  <2>1. /\ t \in thrown /\ t \notin Waiting \union processing \union failing
        /\ tstatus[t] # "none" /\ retries[t] < MaxRetries
    BY <1>4, <1>2 DEF QueueInv, QueuedOnce, Accounted, Retry
  <2>2. /\ queue' \in Seq(Tasks) /\ Distinct(queue') /\ Waiting' = Waiting \union {t}
    <3>1. queue \in Seq(Tasks) /\ Distinct(queue) /\ t \notin Elements(queue)
      BY <2>1 DEF QueueInv, TypeOK, QueuedOnce, Distinct, Waiting
    <3>2. queue' = Append(queue, t)
      BY <1>4 DEF Retry
    <3> QED BY <3>1, <3>2, Appended DEF Waiting
  <2>3. /\ processing' = processing \ {t} /\ thrown' = thrown \ {t}
        /\ retries' = [retries EXCEPT ![t] = @ + 1]
        /\ UNCHANGED <<attempts, tstatus, failing, crashes>>
    BY <1>4 DEF Retry
  <2>4. TypeOK'
    BY <2>1, <2>2, <2>3 DEF QueueInv, TypeOK
  <2>5. QueuedOnce'
    BY <2>1, <2>2, <2>3 DEF QueueInv, QueuedOnce, Distinct
  <2>6. ASSUME NEW u \in Tasks PROVE Accounted(u)'
    <3>1. retries'[u] = IF u = t THEN retries[u] + 1 ELSE retries[u]
      BY <2>3 DEF QueueInv, TypeOK
    <3> QED BY <3>1, <1>2, <2>1, <2>2, <2>3 DEF Accounted
  <2> QED BY <1>1, <2>3, <2>4, <2>5, <2>6 DEF QueueInv
<1>5. CASE GiveUp(t) \/ MarkTaskFailed(t)
  <2>1. /\ t \in thrown \union failing /\ t \notin Waiting \union processing
        /\ tstatus[t] # "none"
    BY <1>5, <1>2 DEF QueueInv, QueuedOnce, Accounted, GiveUp, MarkTaskFailed
  <2>2. /\ processing' = processing
        /\ thrown' = thrown \ {t}
        /\ failing' \in {failing \union {t}, failing \ {t}}
        /\ UNCHANGED <<queue, retries, attempts, crashes>> /\ Waiting' = Waiting
    BY <1>5, <2>1 DEF GiveUp, MarkTaskFailed, Waiting, QueueInv, QueuedOnce
  <2>3. tstatus' \in {tstatus, [tstatus EXCEPT ![t] = "failed"]}
    BY <1>5 DEF GiveUp, MarkTaskFailed
  <2>4. TypeOK'
    BY <2>2, <2>3 DEF QueueInv, TypeOK
  <2>5. QueuedOnce'
    BY <2>1, <2>2 DEF QueueInv, QueuedOnce
  <2>6. ASSUME NEW u \in Tasks PROVE Accounted(u)'
    <3>1. (tstatus'[u] = "none") <=> (tstatus[u] = "none")
      BY <2>1, <2>3 DEF QueueInv, TypeOK
    <3> QED BY <3>1, <1>2, <2>1, <2>2 DEF Accounted
  <2> QED BY <1>1, <2>2, <2>4, <2>5, <2>6 DEF QueueInv
<1> QED BY <1>3, <1>4, <1>5 DEF Settle

\* A restart keeps the invariant: nothing waits or runs after it.
LEMMA CrashKeepsInv == QueueInv /\ Crash => QueueInv'
<1> SUFFICES ASSUME QueueInv, Crash PROVE QueueInv'
  OBVIOUS
<1>1. /\ queue' = <<>> /\ Waiting' = {} /\ queue' \in Seq(Tasks)
      /\ processing' = {} /\ thrown' = {} /\ failing' = {}
      /\ UNCHANGED <<retries, attempts, tstatus>>
  BY DEF Crash, Waiting, Elements
<1>2. crashes' # 0
  BY DEF Crash, QueueInv, TypeOK
<1>3. TypeOK'
  BY <1>1 DEF Crash, QueueInv, TypeOK
<1>4. QueuedOnce'
  BY <1>1 DEF QueuedOnce
<1>5. IsFiniteSet(processing') /\ Cardinality(processing') <= MaxConcurrent
  BY <1>1, FS_EmptySet, LimitsAssumption
<1>6. \A t \in Tasks : Accounted(t)'
  BY <1>1, <1>2 DEF QueueInv, Accounted
<1> QED BY <1>3, <1>4, <1>5, <1>6 DEF QueueInv

\* The invariant holds in every reachable state.
LEMMA QueueInvariant == Spec => []QueueInv
<1>1. QueueInv /\ [Next]_vars => QueueInv'
  <2> SUFFICES ASSUME QueueInv, [Next]_vars PROVE QueueInv'
    OBVIOUS
  <2>1. CASE Next
    BY <2>1, EnqueueKeepsInv, ReturnsKeepsInv, FailureKeepsInv, CrashKeepsInv DEF Next, Run
  <2>2. CASE UNCHANGED vars
    BY <2>2 DEF vars, QueueInv, TypeOK, QueuedOnce, Accounted, Waiting, Elements
  <2> QED BY <2>1, <2>2
<1> QED BY <1>1, QueueInvInit, PTL DEF Spec

\* Every variable of the queue keeps its range, for any number of tasks and limits.
THEOREM TypeCorrect == Spec => []TypeOK
<1>1. QueueInv => TypeOK
  BY DEF QueueInv
<1> QED BY <1>1, QueueInvariant, PTL

\* The `continue` of processQueue never drops a task: none is queued twice or while
\* it runs, although processTask and the .catch both take it out of `processing`.
THEOREM TasksQueuedOnce == Spec => []QueuedOnce
<1>1. QueueInv => QueuedOnce
  BY DEF QueueInv
<1> QED BY <1>1, QueueInvariant, PTL

\* maxConcurrent bounds the tasks that run, and maxRetries + 1 the attempts of each.
THEOREM TasksBounded == Spec => []Bounded
<1>1. QueueInv => Bounded
  BY DEF QueueInv, Accounted, Bounded
<1> QED BY <1>1, QueueInvariant, PTL

\* Until a restart, a task with attempts left waits: the loop, the returns and the
\* .catch callbacks together lose none.
THEOREM NoneForgotten == Spec => []NoTaskForgotten
<1>1. QueueInv => NoTaskForgotten
  <2> SUFFICES ASSUME QueueInv, crashes = 0, NEW t \in Tasks,
                      tstatus[t] # "none", attempts[t] <= retries[t]
               PROVE  t \in Waiting
    BY DEF NoTaskForgotten
  <2>1. Accounted(t) /\ attempts[t] \in Nat /\ retries[t] \in Int
    BY DEF QueueInv, TypeOK
  <2> QED BY <2>1 DEF Accounted
<1> QED BY <1>1, QueueInvariant, PTL

-----------------------------------------------------------------------------
\* PoolState, its guards being disjoint.
LEMMA PoolStates ==
  ASSUME QueueInv, NEW t \in Tasks
  PROVE  /\ PoolState(t) = "waiting" <=> t \in Waiting
         /\ PoolState(t) = "running" <=> t \in processing
         /\ PoolState(t) = "broken" <=> t \in thrown
         /\ PoolState(t) = "new" <=> tstatus[t] = "none"
         /\ PoolState(t) \in {"waiting", "running", "broken", "new", "done"}
<1>1. /\ t \in Waiting => t \notin processing \union thrown
      /\ t \in processing => t \notin thrown
      /\ tstatus[t] = "none" => t \notin Waiting \union processing \union thrown
  BY DEF QueueInv, QueuedOnce, Accounted
<1> QED BY <1>1 DEF PoolState

\* The same of the next state.
LEMMA PoolStatesNext ==
  ASSUME QueueInv', NEW t \in Tasks
  PROVE  /\ PoolState(t)' = "waiting" <=> t \in Waiting'
         /\ PoolState(t)' = "running" <=> t \in processing'
         /\ PoolState(t)' = "broken" <=> t \in thrown'
         /\ PoolState(t)' = "new" <=> tstatus'[t] = "none"
         /\ PoolState(t)' \in {"waiting", "running", "broken", "new", "done"}
<1>1. /\ t \in Waiting' => t \notin processing' \union thrown'
      /\ t \in processing' => t \notin thrown'
      /\ tstatus'[t] = "none" => t \notin Waiting' \union processing' \union thrown'
  BY DEF QueueInv, QueuedOnce, Accounted
<1> QED BY <1>1 DEF PoolState

PoolStateOf == [t \in Tasks |-> PoolState(t)]

\* The cardinality that the pool speaks of is the usual one.
LEMMA SameCardinality == \A S : Pool!Cardinality(S) = Cardinality(S)
  BY Zenon DEF Pool!Cardinality, Cardinality, Pool!IsFiniteSet, IsFiniteSet

\* What the steps have in common: t changes state, those of S start, the others stay.
LEMMA MoveStep ==
  ASSUME QueueInv, QueueInv', NEW t \in Tasks, NEW to \in {"waiting", "broken", "done"},
         NEW S \in SUBSET Tasks,
         \A u \in Tasks : attempts'[u] = IF u \in S THEN attempts[u] + 1 ELSE attempts[u],
         \A u \in Tasks : PoolState(u)' =
            IF u \in S THEN "running" ELSE IF u = t THEN to ELSE PoolState(u),
         \A u \in S : IF u = t THEN to = "waiting" ELSE u \in Waiting
  PROVE  Pool!Move(t, to, S)
<1> DEFINE moved == [PoolStateOf EXCEPT ![t] = to]
<1>1. ASSUME NEW u \in Tasks PROVE moved[u] = IF u = t THEN to ELSE PoolState(u)
  BY DEF PoolStateOf
<1>2. ASSUME NEW u \in S PROVE moved[u] = "waiting" /\ attempts[u] < MaxRetries + 1
  <2>1. moved[u] = "waiting"
    BY <1>1, PoolStates
  <2>2. /\ attempts'[u] = attempts[u] + 1 /\ attempts'[u] <= MaxRetries + 1
        /\ attempts[u] \in Nat
    BY DEF QueueInv, TypeOK, Accounted
  <2> QED BY <2>1, <2>2, LimitsAssumption
<1>3. PoolStateOf' = [u \in Tasks |-> IF u \in S THEN "running" ELSE moved[u]]
  BY <1>1 DEF PoolStateOf
<1>4. attempts' = [u \in Tasks |-> IF u \in S THEN attempts[u] + 1 ELSE attempts[u]]
  BY DEF QueueInv, TypeOK
<1>5. Cardinality({u \in Tasks : PoolStateOf'[u] = "running"}) <= MaxConcurrent
  <2>1. ASSUME NEW u \in Tasks PROVE PoolStateOf'[u] = "running" <=> u \in processing'
    <3>1. PoolState(u)' = "running" <=> u \in processing'
      BY PoolStatesNext
    <3> QED BY <3>1 DEF PoolStateOf
  <2>2. {u \in Tasks : PoolStateOf'[u] = "running"} = processing'
    BY <2>1 DEF QueueInv, TypeOK
  <2> QED BY <2>2 DEF QueueInv
<1>6. Pool!Cardinality(Pool!Running(PoolStateOf')) <= MaxConcurrent
  BY <1>5, SameCardinality DEF Pool!Running
<1> QED BY Zenon, <1>2, <1>3, <1>4, <1>6 DEF Pool!Move, PoolStateOf

\* A dispatching step submits or finishes a job, and starts those of S.
LEMMA EnqueueSubmits ==
  ASSUME QueueInv, QueueInv', NEW t \in Tasks, Enqueue(t)
  PROVE  Pool!Submit(t)
<1>1. PICK S \in SUBSET Tasks : Enqueued(t, S)
  BY EnqueueEffect
<1>2. ASSUME NEW u \in Tasks
      PROVE  PoolState(u)' = IF u \in S THEN "running" ELSE IF u = t THEN "waiting" ELSE PoolState(u)
  <2>1. tstatus'[u] = IF u = t THEN "assigned" ELSE tstatus[u]
    BY <1>1 DEF Enqueued, QueueInv, TypeOK
  <2>2. /\ u \in Waiting' <=> (u \in Waiting \/ u = t) /\ u \notin S
        /\ u \in processing' <=> u \in processing \/ u \in S
        /\ u \in thrown' <=> u \in thrown
        /\ u \in S => u \in Waiting \/ u = t
    BY <1>1 DEF Enqueued, Starts
  <2> QED BY <2>1, <2>2, <1>1, PoolStates, PoolStatesNext DEF Enqueued
<1>3. Pool!Move(t, "waiting", S)
  <2>1. \A u \in Tasks : attempts'[u] = IF u \in S THEN attempts[u] + 1 ELSE attempts[u]
    BY <1>1 DEF Enqueued, Starts
  <2>2. \A u \in S : u = t \/ u \in Waiting
    BY <1>1 DEF Enqueued, Starts
  <2> QED BY <2>1, <2>2, <1>2, MoveStep
<1>4. PoolState(t) = "new"
  BY <1>1, PoolStates DEF Enqueued
<1> QED BY <1>3, <1>4 DEF Pool!Submit

\* A task that returns finishes its job and starts those of S.
LEMMA ReturnsFinishes ==
  ASSUME QueueInv, QueueInv', NEW t \in Tasks, Returns(t)
  PROVE  Pool!Finish(t)
<1>1. PICK S \in SUBSET Tasks : Returned(t, S)
  BY ReturnsEffect
<1>2. ASSUME NEW u \in Tasks
      PROVE  PoolState(u)' = IF u \in S THEN "running" ELSE IF u = t THEN "done" ELSE PoolState(u)
  <2>1. (tstatus'[u] = "none") <=> (tstatus[u] = "none")
    BY <1>1 DEF Returned, QueueInv, TypeOK
  <2>2. /\ u \in Waiting' <=> u \in Waiting /\ u \notin S
        /\ u \in processing' <=> (u \in processing /\ u # t) \/ u \in S
        /\ u \in thrown' <=> u \in thrown
        /\ u \in S => u \in Waiting
    BY <1>1 DEF Returned, Starts
  <2> QED BY <2>1, <2>2, <1>1, PoolStates, PoolStatesNext DEF Returned
<1>3. Pool!Move(t, "done", S)
  <2>1. \A u \in Tasks : attempts'[u] = IF u \in S THEN attempts[u] + 1 ELSE attempts[u]
    BY <1>1 DEF Returned, Starts
  <2>2. \A u \in S : u # t /\ u \in Waiting
    BY <1>1 DEF Returned, Starts
  <2> QED BY <2>1, <2>2, <1>2, MoveStep
<1>4. PoolState(t) = "running"
  BY <1>1, PoolStates DEF Returned
<1> QED BY <1>3, <1>4 DEF Pool!Finish

\* A step that starts nothing, and moves t only.
LEMMA QuietStep ==
  ASSUME QueueInv, QueueInv', NEW t \in Tasks, NEW to \in {"waiting", "broken", "done"},
         attempts' = attempts,
         \A u \in Tasks : PoolState(u)' = IF u = t THEN to ELSE PoolState(u)
  PROVE  Pool!Move(t, to, {})
<1>1. \A u \in Tasks : attempts'[u] = IF u \in {} THEN attempts[u] + 1 ELSE attempts[u]
  OBVIOUS
<1>2. \A u \in Tasks : PoolState(u)' = IF u \in {} THEN "running" ELSE IF u = t THEN to ELSE PoolState(u)
  OBVIOUS
<1>3. \A u \in {} : IF u = t THEN to = "waiting" ELSE u \in Waiting
  OBVIOUS
<1> QED BY <1>1, <1>2, <1>3, MoveStep

\* The steps of a failed attempt are those of a broken job, or change nothing in the pool.
LEMMA FailureMoves ==
  ASSUME QueueInv, QueueInv', NEW t \in Tasks
  PROVE  /\ Throws(t) => Pool!Break(t)
         /\ Retry(t) => Pool!Requeue(t)
         /\ GiveUp(t) => Pool!Abandon(t)
         /\ MarkTaskFailed(t) => UNCHANGED Pool!vars
<1>t. attempts[t] \in Nat /\ retries[t] \in 0 .. MaxRetries /\ MaxRetries \in Nat /\ Accounted(t)
  BY LimitsAssumption DEF QueueInv, TypeOK
<1>1. ASSUME Throws(t) PROVE Pool!Break(t)
  <2>1. PoolState(t) = "running" /\ tstatus[t] # "none"
    BY <1>1, <1>t, PoolStates DEF Throws, Accounted
  <2>2. ASSUME NEW u \in Tasks PROVE PoolState(u)' = IF u = t THEN "broken" ELSE PoolState(u)
    <3>1. (tstatus'[u] = "none") <=> (tstatus[u] = "none")
      BY <1>1, <2>1 DEF Throws, QueueInv, TypeOK
    <3>2. /\ Waiting' = Waiting /\ thrown' = thrown \union {t}
          /\ processing' = processing \ {t}
      BY <1>1 DEF Throws, Waiting
    <3> QED BY <3>1, <3>2, <2>1, PoolStates, PoolStatesNext
  <2>3. Pool!Move(t, "broken", {})
    BY <1>1, <2>2, QuietStep DEF Throws
  <2> QED BY <2>1, <2>3 DEF Pool!Break
<1>2. ASSUME Retry(t) PROVE Pool!Requeue(t)
  <2>1. PoolState(t) = "broken" /\ attempts[t] < MaxRetries + 1
    BY <1>2, <1>t, PoolStates DEF Retry, Accounted
  <2>2. Waiting' = Waiting \union {t}
    <3>1. queue \in Seq(Tasks) /\ Distinct(queue) /\ t \notin Elements(queue)
      BY <1>2 DEF Retry, QueueInv, TypeOK, QueuedOnce, Distinct, Waiting
    <3> QED BY <3>1, <1>2, Appended DEF Waiting, Retry
  <2>3. ASSUME NEW u \in Tasks PROVE PoolState(u)' = IF u = t THEN "waiting" ELSE PoolState(u)
    BY <1>2, <2>1, <2>2, PoolStates, PoolStatesNext DEF Retry
  <2>4. Pool!Move(t, "waiting", {})
    BY <1>2, <2>3, QuietStep DEF Retry
  <2> QED BY <2>1, <2>4 DEF Pool!Requeue
<1>3. ASSUME GiveUp(t) PROVE Pool!Abandon(t)
  <2>1. PoolState(t) = "broken" /\ attempts[t] = MaxRetries + 1
    BY <1>3, <1>t, PoolStates DEF GiveUp, Accounted
  <2>2. Waiting' = Waiting
    BY <1>3 DEF GiveUp, Waiting
  <2>3. ASSUME NEW u \in Tasks PROVE PoolState(u)' = IF u = t THEN "done" ELSE PoolState(u)
    BY <1>3, <2>1, <2>2, PoolStates, PoolStatesNext DEF GiveUp
  <2>4. Pool!Move(t, "done", {})
    BY <1>3, <2>3, QuietStep DEF GiveUp
  <2> QED BY <2>1, <2>4 DEF Pool!Abandon
<1>4. ASSUME MarkTaskFailed(t) PROVE UNCHANGED Pool!vars
  <2>1. tstatus[t] # "none" /\ Waiting' = Waiting
    BY <1>4, <1>t DEF MarkTaskFailed, Accounted, Waiting
  <2>2. ASSUME NEW u \in Tasks PROVE PoolState(u)' = PoolState(u)
    <3>1. (tstatus'[u] = "none") <=> (tstatus[u] = "none")
      BY <1>4, <2>1 DEF MarkTaskFailed, QueueInv, TypeOK
    <3> QED BY <1>4, <2>1, <3>1, PoolStates, PoolStatesNext DEF MarkTaskFailed
  <2> QED BY <1>4, <2>2 DEF MarkTaskFailed, Pool!vars
<1> QED BY <1>1, <1>2, <1>3, <1>4

\* A restart stops the pool.
LEMMA CrashStops == QueueInv /\ QueueInv' /\ Crash => Pool!Stop
<1> SUFFICES ASSUME QueueInv, QueueInv', Crash PROVE Pool!Stop
  OBVIOUS
<1>1. Waiting' = {} /\ processing' = {} /\ thrown' = {} /\ tstatus' = tstatus /\ attempts' = attempts
  BY DEF Crash, Waiting, Elements
<1>2. ASSUME NEW u \in Tasks
      PROVE  PoolState(u)' = IF PoolState(u) = "new" THEN "new" ELSE "done"
  BY <1>1, PoolStates, PoolStatesNext
<1> QED BY <1>1, <1>2 DEF Pool!Stop

\* The array, the set and the promises of the queue implement a pool of retried
\* jobs: each started at most maxRetries + 1 times, never again once it is done,
\* and never beyond maxConcurrent at a time.
THEOREM QueueImplementsPool == Spec => ImplementsRetryPool
<1>1. Init => Pool!Init
  <2> SUFFICES ASSUME Init PROVE Pool!Init
    OBVIOUS
  <2>1. QueueInv
    BY QueueInvInit
  <2>2. ASSUME NEW u \in Tasks PROVE PoolState(u) = "new"
    BY <2>1, PoolStates DEF Init
  <2> QED BY <2>2 DEF Init, Pool!Init
<1>2. QueueInv /\ QueueInv' /\ [Next]_vars => [Pool!Next]_(Pool!vars)
  <2> SUFFICES ASSUME QueueInv, QueueInv', [Next]_vars PROVE [Pool!Next]_(Pool!vars)
    OBVIOUS
  <2>1. CASE Next
    BY <2>1, EnqueueSubmits, ReturnsFinishes, FailureMoves, CrashStops
       DEF Next, Run, Settle, Pool!Next
  <2>2. CASE UNCHANGED vars
    BY <2>2 DEF vars, Pool!vars, PoolState, Waiting, Elements
  <2> QED BY <2>1, <2>2
<1> QED BY <1>1, <1>2, QueueInvariant, PTL DEF Spec, Pool!Spec, ImplementsRetryPool

-----------------------------------------------------------------------------
(***************************************************************************)
(* ActivityStore.                                                          *)
(***************************************************************************)
(***************************************************************************)
(* Lists of entries.                                                       *)
(***************************************************************************)
\* Some of the numbers is the least.
LEMMA LeastElement ==
    ASSUME NEW S \in SUBSET Nat, S # {}
    PROVE  \E n \in S : \A m \in S : n <= m
<1>1. PICK n \in S : \A m \in S : ~(<<m, n>> \in OpToRel(<, Nat))
  BY WFMin, NatLessThanWellFounded
<1>2. \A m \in S : <<m, n>> \in OpToRel(<, Nat) <=> m < n
  BY DEF OpToRel
<1>3. \A m \in S : m \in Nat /\ n \in Nat /\ ~(m < n)
  BY <1>1, <1>2
<1>4. \A m \in S : n <= m
  BY <1>3
<1> QED BY <1>4

\* No two entries have one id.
DistinctIds(entries) == \A p, q \in DOMAIN entries : entries[p].id = entries[q].id => p = q

\* The place of an id among the entries, or the one behind the last.
IsPlace(p, entries, id) ==
    /\ p \in 1 .. Len(entries) + 1
    /\ \A n \in 1 .. Len(entries) : entries[n].id = id <=> n = p

\* It has one.
LEMMA PlaceExists ==
    ASSUME NEW S, NEW entries \in Seq(S), DistinctIds(entries), NEW id
    PROVE  \E p : IsPlace(p, entries, id)
<1>1. CASE \E p \in 1 .. Len(entries) : entries[p].id = id
  <2>1. PICK p \in 1 .. Len(entries) : entries[p].id = id
    BY <1>1
  <2>2. \A n \in 1 .. Len(entries) : entries[n].id = id <=> n = p
    BY <2>1 DEF DistinctIds
  <2>3. p \in 1 .. Len(entries) + 1
    BY <2>1
  <2> QED BY <2>2, <2>3 DEF IsPlace
<1>2. CASE ~ \E p \in 1 .. Len(entries) : entries[p].id = id
  <2>1. /\ Len(entries) + 1 \in 1 .. Len(entries) + 1
        /\ \A n \in 1 .. Len(entries) : n # Len(entries) + 1
    OBVIOUS
  <2> QED BY <1>2, <2>1 DEF IsPlace
<1> QED BY <1>1, <1>2

\* The first n entries without the one at a place.
Gap(entries, p, n) ==
    [m \in 1 .. (IF p <= n THEN n - 1 ELSE n) |-> IF m < p THEN entries[m] ELSE entries[m + 1]]

\* The loop of the filter.
Kept(g, entries, id) ==
    g = [n \in 0 .. Len(entries) |->
           IF n = 0 THEN <<>>
           ELSE IF entries[n].id = id THEN g[n - 1]
           ELSE Append(g[n - 1], entries[n])]

\* What the loop does with one more entry.
LEMMA GapGrows ==
    ASSUME NEW S, NEW entries \in Seq(S), NEW id, NEW p, IsPlace(p, entries, id),
           NEW n \in 1 .. Len(entries)
    PROVE  Gap(entries, p, n) = IF entries[n].id = id THEN Gap(entries, p, n - 1)
                                ELSE Append(Gap(entries, p, n - 1), entries[n])
<1>1. p \in 1 .. Len(entries) + 1 /\ (entries[n].id = id <=> n = p)
  BY DEF IsPlace
<1>2. Len(entries) \in Nat /\ \A m \in 1 .. Len(entries) : entries[m] \in S
  OBVIOUS
<1>3. CASE n = p
  BY <1>1, <1>2, <1>3 DEF Gap
<1>4. CASE n < p
  <2>1. PICK g : g = Gap(entries, p, n - 1)
    OBVIOUS
  <2>2. g = [m \in 1 .. n - 1 |-> entries[m]]
    BY <1>1, <1>2, <1>4, <2>1 DEF Gap
  <2>3. g \in Seq(S) /\ Len(g) = n - 1
    BY <1>2, <2>2
  <2>4. Append(g, entries[n]) = [m \in 1 .. n |-> entries[m]]
    BY <1>2, <2>2, <2>3
  <2>5. Gap(entries, p, n) = [m \in 1 .. n |-> entries[m]]
    BY <1>1, <1>2, <1>4 DEF Gap
  <2>6. entries[n].id # id
    BY <1>1, <1>4
  <2>7. Gap(entries, p, n) = Append(g, entries[n])
    BY <2>4, <2>5
  <2> QED BY <2>1, <2>6, <2>7
<1>5. CASE n > p
  <2>1. PICK g : g = Gap(entries, p, n - 1)
    OBVIOUS
  <2>2. g = [m \in 1 .. n - 2 |-> IF m < p THEN entries[m] ELSE entries[m + 1]]
    BY <1>1, <1>2, <1>5, <2>1 DEF Gap
  <2>3. g \in Seq(S) /\ Len(g) = n - 2
    <3>1. \A m \in 1 .. n - 2 : m \in 1 .. Len(entries) /\ m + 1 \in 1 .. Len(entries)
      BY <1>2
    <3> QED BY <1>1, <1>2, <1>5, <2>2, <3>1
  <2>4. Append(g, entries[n]) = [m \in 1 .. n - 1 |-> IF m < p THEN entries[m] ELSE entries[m + 1]]
    BY <1>1, <1>2, <1>5, <2>2, <2>3
  <2>5. Gap(entries, p, n) = [m \in 1 .. n - 1 |-> IF m < p THEN entries[m] ELSE entries[m + 1]]
    BY <1>1, <1>2, <1>5 DEF Gap
  <2>6. entries[n].id # id
    BY <1>1, <1>5
  <2>7. Gap(entries, p, n) = Append(g, entries[n])
    BY <2>4, <2>5
  <2> QED BY <2>1, <2>6, <2>7
<1> QED BY <1>1, <1>3, <1>4, <1>5

\* The filter takes out the entry at the place of the id.
LEMMA WithoutIsGap ==
    ASSUME NEW S, NEW entries \in Seq(S), NEW id, NEW p, IsPlace(p, entries, id)
    PROVE  Without(entries, id) = Gap(entries, p, Len(entries))
<1>1. PICK length \in Nat : length = Len(entries)
  OBVIOUS
<1>2. PICK f : f = [n \in 0 .. length |-> Gap(entries, p, n)]
  OBVIOUS
<1>3. f[0] = <<>>
  <2>1. p >= 1 /\ p \in Int
    BY <1>1 DEF IsPlace
  <2> QED BY <1>1, <1>2, <2>1 DEF Gap
<1>4. \A n \in 1 .. length :
         f[n] = IF entries[n].id = id THEN f[n - 1] ELSE Append(f[n - 1], entries[n])
  <2> SUFFICES ASSUME NEW n \in 1 .. length
               PROVE  f[n] = IF entries[n].id = id THEN f[n - 1] ELSE Append(f[n - 1], entries[n])
    OBVIOUS
  <2>1. f[n] = Gap(entries, p, n) /\ f[n - 1] = Gap(entries, p, n - 1)
    BY <1>1, <1>2
  <2> QED BY <1>1, <2>1, GapGrows
<1>5. Kept(f, entries, id)
  <2>1. f = [n \in 0 .. length |-> f[n]]
    BY <1>2
  <2>2. \A n \in 0 .. length : f[n] = IF n = 0 THEN <<>>
                                      ELSE IF entries[n].id = id THEN f[n - 1]
                                      ELSE Append(f[n - 1], entries[n])
    BY <1>1, <1>3, <1>4
  <2> QED BY <1>1, <2>1, <2>2 DEF Kept
<1>6. PICK g : g = CHOOSE h : Kept(h, entries, id)
  OBVIOUS
<1>7. Kept(g, entries, id)
  BY <1>5, <1>6
<1>8. \A n \in 0 .. length : g[n] = IF n = 0 THEN <<>>
                                    ELSE IF entries[n].id = id THEN g[n - 1]
                                    ELSE Append(g[n - 1], entries[n])
  BY <1>1, <1>7 DEF Kept
<1>9. \A n \in 0 .. length : g[n] = f[n]
  <2> SUFFICES ASSUME {n \in 0 .. length : g[n] # f[n]} # {} PROVE FALSE
    OBVIOUS
  <2>1. PICK n \in {n \in 0 .. length : g[n] # f[n]} :
           \A m \in {m \in 0 .. length : g[m] # f[m]} : n <= m
    <3>1. {n \in 0 .. length : g[n] # f[n]} \in SUBSET Nat
      BY <1>1
    <3> QED BY <3>1, LeastElement
  <2>2. n # 0
    BY <1>3, <1>8, <2>1
  <2>3. n - 1 \in 0 .. length /\ ~(n <= n - 1) /\ n \in 1 .. length
    BY <1>1, <2>1, <2>2
  <2>4. g[n - 1] = f[n - 1]
    BY <2>1, <2>3
  <2>5. g[n] = f[n]
    BY <1>4, <1>8, <2>2, <2>3, <2>4
  <2> QED BY <2>1, <2>5
<1>10. Without(entries, id) = g[Len(entries)]
  BY <1>6 DEF Without, Kept
<1> QED BY <1>1, <1>2, <1>9, <1>10

\* The list after a new entry has come first, from the place of its id.
Moved(entries, entry, max, p) ==
    LET length == IF p <= Len(entries) THEN Len(entries) ELSE Len(entries) + 1 IN
    [n \in 1 .. (IF length <= max THEN length ELSE max) |->
        IF n = 1 THEN entry ELSE IF n <= p THEN entries[n - 1] ELSE entries[n]]

\* That is what the assignment of appendActivity and upsertJob computes.
LEMMA PutMoves ==
    ASSUME NEW S, NEW entries \in Seq(S), NEW entry \in S, NEW max \in Nat \ {0}, NEW p,
           IsPlace(p, entries, entry.id)
    PROVE  Put(entries, entry, max) = Moved(entries, entry, max, p)
<1>1. PICK length \in Nat : length = Len(entries)
  OBVIOUS
<1>2. p \in 1 .. length + 1
  BY <1>1 DEF IsPlace
<1>3. PICK rest : rest = Without(entries, entry.id)
  OBVIOUS
<1>4. PICK short \in Nat : short = IF p <= length THEN length - 1 ELSE length
  <2>1. p <= length => length - 1 \in Nat
    BY <1>2
  <2> QED BY <2>1
<1>5. rest = [m \in 1 .. short |-> IF m < p THEN entries[m] ELSE entries[m + 1]]
  BY <1>1, <1>3, <1>4, WithoutIsGap DEF Gap
<1>6. rest \in Seq(S) /\ Len(rest) = short
  <2>1. \A m \in 1 .. short : m \in 1 .. length /\ (m >= p => m + 1 \in 1 .. length)
    BY <1>1, <1>2, <1>4
  <2>2. \A m \in 1 .. length : entries[m] \in S
    BY <1>1
  <2>3. ASSUME NEW m \in 1 .. short PROVE rest[m] \in S
    <3>1. CASE m < p
      BY <1>5, <2>1, <2>2, <3>1
    <3>2. CASE ~(m < p)
      <4>1. m >= p
        BY <1>2, <3>2
      <4>2. m + 1 \in 1 .. length
        BY <2>1, <4>1
      <4>3. rest[m] = entries[m + 1]
        BY <1>5, <3>2
      <4> QED BY <2>2, <4>2, <4>3
    <3> QED BY <3>1, <3>2
  <2> QED BY <1>5, <2>3
<1>7. PICK all : all = <<entry>> \o rest
  OBVIOUS
<1>8. /\ all \in Seq(S) /\ Len(all) = short + 1 /\ all[1] = entry
      /\ \A n \in 2 .. short + 1 : all[n] = rest[n - 1]
  BY <1>6, <1>7
<1>9. \A n \in 2 .. short + 1 : all[n] = IF n <= p THEN entries[n - 1] ELSE entries[n]
  <2> SUFFICES ASSUME NEW n \in 2 .. short + 1
               PROVE  all[n] = IF n <= p THEN entries[n - 1] ELSE entries[n]
    OBVIOUS
  <2>1. n - 1 \in 1 .. short /\ n - 1 + 1 = n /\ (n - 1 < p <=> n <= p)
    BY <1>2
  <2>2. all[n] = rest[n - 1]
    BY <1>8
  <2>3. rest[n - 1] = IF n - 1 < p THEN entries[n - 1] ELSE entries[n - 1 + 1]
    BY <1>5, <2>1
  <2> QED BY <2>1, <2>2, <2>3
<1>10. PICK size \in 1 .. short + 1 : size = IF Len(all) <= max THEN Len(all) ELSE max
  BY <1>8
<1>11. Put(entries, entry, max) = [n \in 1 .. size |-> all[n]]
  <2>1. Put(entries, entry, max) = SubSeq(all, 1, size)
    BY <1>3, <1>7, <1>10 DEF Put
  <2>2. SubSeq(all, 1, size) = [n \in 1 .. size |-> all[n]]
    BY <1>8, <1>10
  <2> QED BY <2>1, <2>2
<1>12. \A n \in 1 .. size : all[n] = IF n = 1 THEN entry
                                     ELSE IF n <= p THEN entries[n - 1] ELSE entries[n]
  <2>1. \A n \in 1 .. size : n = 1 \/ n \in 2 .. short + 1
    BY <1>10
  <2> QED BY <1>8, <1>9, <2>1
<1>13. size = IF (IF p <= length THEN length ELSE length + 1) <= max
              THEN IF p <= length THEN length ELSE length + 1 ELSE max
  BY <1>1, <1>2, <1>4, <1>8, <1>10
<1>14. Moved(entries, entry, max, p) =
          [n \in 1 .. size |-> IF n = 1 THEN entry ELSE IF n <= p THEN entries[n - 1] ELSE entries[n]]
  BY <1>1, <1>13 DEF Moved
<1> QED BY <1>11, <1>12, <1>14

\* Neither order nor ids suffer: the list stays within the cap, and no id comes twice.
LEMMA MovedIsSound ==
    ASSUME NEW S, NEW entries \in Seq(S), NEW entry \in S, NEW max \in Nat \ {0}, NEW p,
           IsPlace(p, entries, entry.id), DistinctIds(entries)
    PROVE  /\ Moved(entries, entry, max, p) \in Seq(S) /\ Len(Moved(entries, entry, max, p)) <= max
           /\ Moved(entries, entry, max, p)[1] = entry
           /\ 1 \in DOMAIN Moved(entries, entry, max, p)
           /\ DistinctIds(Moved(entries, entry, max, p))
           /\ \A n \in DOMAIN Moved(entries, entry, max, p) :
                 \/ Moved(entries, entry, max, p)[n] = entry
                 \/ \E m \in DOMAIN entries : Moved(entries, entry, max, p)[n] = entries[m]
<1>1. PICK length \in Nat : length = Len(entries)
  OBVIOUS
<1>2. p \in 1 .. length + 1 /\ \A n \in 1 .. length : entries[n].id = entry.id <=> n = p
  BY <1>1 DEF IsPlace
<1>3. PICK full \in Nat : /\ full = IF p <= length THEN length ELSE length + 1
                          /\ full >= 1 /\ full <= length + 1 /\ (full = length + 1 => p = length + 1)
  BY <1>2
<1>4. PICK size \in Nat : /\ size = IF full <= max THEN full ELSE max
                          /\ size >= 1 /\ size <= full /\ size <= max
  BY <1>3
<1>5. PICK r : r = Moved(entries, entry, max, p)
  OBVIOUS
<1>6. r = [n \in 1 .. size |-> IF n = 1 THEN entry ELSE IF n <= p THEN entries[n - 1] ELSE entries[n]]
  BY <1>1, <1>3, <1>4, <1>5 DEF Moved
<1>7. PICK from : from = [n \in 2 .. size |-> IF n <= p THEN n - 1 ELSE n]
  OBVIOUS
<1>8. \A n \in 2 .. size : from[n] \in 1 .. length /\ from[n] # p /\ r[n] = entries[from[n]]
  <2> SUFFICES ASSUME NEW n \in 2 .. size
               PROVE  from[n] \in 1 .. length /\ from[n] # p /\ r[n] = entries[from[n]]
    OBVIOUS
  <2>1. n <= full /\ n \in Int
    BY <1>4
  <2>2. CASE n <= p
    BY <1>2, <1>3, <1>6, <1>7, <2>1, <2>2
  <2>3. CASE ~(n <= p)
    BY <1>2, <1>3, <1>6, <1>7, <2>1, <2>3
  <2> QED BY <2>2, <2>3
<1>9. \A n, m \in 2 .. size : from[n] = from[m] => n = m
  <2> SUFFICES ASSUME NEW n \in 2 .. size, NEW m \in 2 .. size, from[n] = from[m] PROVE n = m
    OBVIOUS
  <2>1. /\ n <= p => from[n] = n - 1
        /\ m <= p => from[m] = m - 1
        /\ ~(n <= p) => from[n] = n
        /\ ~(m <= p) => from[m] = m
    BY <1>7
  <2>2. n \in Int /\ m \in Int /\ p \in Int
    BY <1>2
  <2>3. CASE n <= p /\ m <= p
    BY <2>1, <2>2, <2>3
  <2>4. CASE n <= p /\ ~(m <= p)
    BY <2>1, <2>2, <2>4
  <2>5. CASE ~(n <= p) /\ m <= p
    BY <2>1, <2>2, <2>5
  <2>6. CASE ~(n <= p) /\ ~(m <= p)
    BY <2>1, <2>2, <2>6
  <2> QED BY <2>3, <2>4, <2>5, <2>6
<1>10. \A n \in 1 .. size : n = 1 \/ n \in 2 .. size
  BY <1>4
<1>11. DOMAIN r = 1 .. size /\ r[1] = entry /\ 1 \in 1 .. size
  BY <1>4, <1>6
<1>12. DOMAIN entries = 1 .. length /\ \A m \in 1 .. length : entries[m] \in S
  BY <1>1
<1>13. \A n \in 1 .. size : r[n] = entry \/ \E m \in 1 .. length : r[n] = entries[m]
  BY <1>8, <1>10, <1>11
<1>14. r \in Seq(S) /\ Len(r) = size
  <2>1. \A n \in 1 .. size : r[n] \in S
    BY <1>12, <1>13
  <2>2. r = [n \in 1 .. size |-> r[n]]
    BY <1>6
  <2> QED BY <2>1, <2>2
<1>15. DistinctIds(r)
  <2> SUFFICES ASSUME NEW n \in 1 .. size, NEW m \in 1 .. size, r[n].id = r[m].id PROVE n = m
    BY <1>11 DEF DistinctIds
  <2>1. \A k \in 2 .. size : r[k].id # entry.id
    BY <1>2, <1>8
  <2>2. CASE n = 1 \/ m = 1
    BY <1>10, <1>11, <2>1, <2>2
  <2>3. CASE n \in 2 .. size /\ m \in 2 .. size
    <3>1. entries[from[n]].id = entries[from[m]].id
      BY <1>8, <2>3
    <3>2. from[n] = from[m]
      BY <1>8, <1>12, <2>3, <3>1 DEF DistinctIds
    <3> QED BY <1>9, <2>3, <3>2
  <2> QED BY <1>10, <2>2, <2>3
<1> QED BY <1>4, <1>5, <1>11, <1>12, <1>13, <1>14, <1>15

\* An entry of another id stays, behind what was before it and the new one, or max others are
\* before it.
LEMMA MovedKeeps ==
    ASSUME NEW S, NEW entries \in Seq(S), NEW entry \in S, NEW max \in Nat \ {0}, NEW p,
           IsPlace(p, entries, entry.id), Len(entries) <= max,
           NEW q \in 1 .. Len(entries), entries[q].id # entry.id
    PROVE  LET r == Moved(entries, entry, max, p) IN
           \/ \E k \in 1 .. Len(r) :
                 /\ r[k] = entries[q]
                 /\ \A m \in 1 .. k - 1 : r[m] = entry \/ \E n \in 1 .. q - 1 : r[m] = entries[n]
           \/ /\ Len(r) = max
              /\ \A m \in 1 .. max : r[m] = entry \/ \E n \in 1 .. q - 1 : r[m] = entries[n]
<1>1. PICK length \in Nat : length = Len(entries)
  OBVIOUS
<1>2. p \in 1 .. length + 1 /\ \A n \in 1 .. length : entries[n].id = entry.id <=> n = p
  BY <1>1 DEF IsPlace
<1>3. PICK full \in Nat : full = IF p <= length THEN length ELSE length + 1
  BY <1>2
<1>4. PICK size \in Nat : size = IF full <= max THEN full ELSE max
  OBVIOUS
<1>5. PICK r : r = Moved(entries, entry, max, p)
  OBVIOUS
<1>6. r = [n \in 1 .. size |-> IF n = 1 THEN entry ELSE IF n <= p THEN entries[n - 1] ELSE entries[n]]
  BY <1>1, <1>3, <1>4, <1>5 DEF Moved
<1>7. Len(r) = size
  BY <1>6
<1>8. q \in 1 .. length /\ q # p /\ length <= max
  BY <1>1, <1>2
<1>9. CASE q > p
  <2>1. size = length /\ q \in 1 .. size /\ q # 1
    BY <1>2, <1>3, <1>4, <1>8, <1>9
  <2>2. r[q] = entries[q]
    BY <1>2, <1>6, <1>9, <2>1
  <2>3. ASSUME NEW m \in 1 .. q - 1 PROVE r[m] = entry \/ \E n \in 1 .. q - 1 : r[m] = entries[n]
    <3>1. m \in 1 .. size /\ m \in Int
      BY <2>1
    <3>2. CASE m = 1
      BY <1>6, <3>1, <3>2
    <3>3. CASE m # 1 /\ m <= p
      <4>1. r[m] = entries[m - 1] /\ m - 1 \in 1 .. q - 1
        BY <1>6, <3>1, <3>3
      <4> QED BY <4>1
    <3>4. CASE m # 1 /\ ~(m <= p)
      BY <1>6, <3>1, <3>4
    <3> QED BY <3>2, <3>3, <3>4
  <2> QED BY <1>5, <1>7, <2>1, <2>2, <2>3
<1>10. CASE q < p
  <2>1. q + 1 <= p /\ q + 1 # 1 /\ q + 1 - 1 = q /\ q + 1 \in Nat
    BY <1>2, <1>8, <1>10
  <2>2. \A m \in 1 .. q + 1 : m <= p
    BY <1>2, <2>1
  <2>3. ASSUME NEW m \in 1 .. q, m <= size
        PROVE  r[m] = entry \/ \E n \in 1 .. q - 1 : r[m] = entries[n]
    <3>1. m \in 1 .. size
      BY <2>3
    <3>2. CASE m = 1
      BY <1>6, <3>1, <3>2
    <3>3. CASE m # 1
      <4>1. r[m] = entries[m - 1] /\ m - 1 \in 1 .. q - 1
        BY <1>6, <2>1, <2>2, <3>1, <3>3
      <4> QED BY <4>1
    <3> QED BY <3>2, <3>3
  <2>4. CASE q + 1 <= size
    <3>1. q + 1 \in 1 .. size
      BY <2>1, <2>4
    <3>2. r[q + 1] = entries[q]
      BY <1>6, <2>1, <3>1
    <3>3. \A m \in 1 .. q + 1 - 1 : r[m] = entry \/ \E n \in 1 .. q - 1 : r[m] = entries[n]
      BY <2>1, <2>3, <2>4
    <3> QED BY <1>5, <1>7, <3>1, <3>2, <3>3
  <2>5. CASE ~(q + 1 <= size)
    <3>1. size = max /\ size <= q
      BY <1>2, <1>3, <1>4, <1>8, <1>10, <2>5
    <3>2. \A m \in 1 .. max : r[m] = entry \/ \E n \in 1 .. q - 1 : r[m] = entries[n]
      BY <2>3, <3>1
    <3> QED BY <1>5, <1>7, <3>1, <3>2
  <2> QED BY <2>4, <2>5
<1> QED BY <1>2, <1>8, <1>9, <1>10

-----------------------------------------------------------------------------
(***************************************************************************)
(* Stores, and the history of their updates.                               *)
(***************************************************************************)
ActivityEntries == [id : Events, job : {NoJob} \cup JobIds]
JobEntries == [id : JobIds, job : JobIds]
Updates == [part : {"activity"}, entry : ActivityEntries, sent : BOOLEAN] \cup
           [part : {"jobs"}, entry : JobEntries, sent : BOOLEAN]

\* A store that neither part of has outgrown its cap or holds an id twice.
Sound(store) ==
    /\ store \in Stores
    /\ Len(store.activity) <= MaxActivity /\ Len(store.jobs) <= MaxJobs
    /\ DistinctIds(store.activity) /\ DistinctIds(store.jobs)

\* The ids of the updates of its part that came after the n-th one.
NewerIn(w, n) == {w[k].entry.id : k \in {k \in n + 1 .. Len(w) : w[k].part = w[n].part}}

\* The n-th update is in the store, and what stands before it came after it.
PlacedIn(store, w, n) ==
    \E p \in DOMAIN store[w[n].part] :
        /\ store[w[n].part][p].id = w[n].entry.id
        /\ \A q \in 1 .. p - 1 : store[w[n].part][q].id \in NewerIn(w, n)

DisplacedIn(w, n) == Cardinality(NewerIn(w, n) \ {w[n].entry.id}) >= MaxOf(w[n].part)

\* The entry is what the n-th update made it: the last event of this id.
LastOf(w, n, entry) ==
    n \in DOMAIN w /\ w[n].part = "activity" /\ w[n].entry = entry /\ entry.id \notin NewerIn(w, n)

\* The store holds the newest updates, and of each id the last one.
HistoryFits(w, store) ==
    /\ \A n \in DOMAIN w : DisplacedIn(w, n) \/ PlacedIn(store, w, n)
    /\ \A k \in DOMAIN store.activity : \E n : LastOf(w, n, store.activity[k])

\* What an update does to the parts of a store.
LEMMA ApplyFacts ==
    ASSUME NEW store, Sound(store), NEW u \in Updates
    PROVE  \E p : /\ IsPlace(p, store[u.part], u.entry.id)
                  /\ Apply(u, store)[u.part] = Moved(store[u.part], u.entry, MaxOf(u.part), p)
                  /\ \A part \in {"activity", "jobs"} \ {u.part} : Apply(u, store)[part] = store[part]
                  /\ Sound(Apply(u, store))
<1>1. store \in Stores /\ DOMAIN store = {"activity", "jobs"}
  BY DEF Sound, Stores
<1>2. /\ store.activity \in Seq(ActivityEntries) /\ Len(store.activity) <= MaxActivity
      /\ DistinctIds(store.activity)
      /\ store.jobs \in Seq(JobEntries) /\ Len(store.jobs) <= MaxJobs /\ DistinctIds(store.jobs)
  BY DEF Sound, Stores, ActivityEntries, JobEntries
<1>3. PICK e : e = u.entry
  OBVIOUS
<1>4. MaxActivity \in Nat \ {0} /\ MaxJobs \in Nat \ {0}
  BY CapsAssumption
<1>5. CASE u.part = "activity"
  <2>1. e \in ActivityEntries
    BY <1>3, <1>5 DEF Updates
  <2>2. PICK p : IsPlace(p, store.activity, e.id)
    BY <1>2, PlaceExists
  <2>3. PICK r : r = Moved(store.activity, e, MaxActivity, p)
    OBVIOUS
  <2>4. Put(store.activity, e, MaxActivity) = r
    BY <1>2, <1>4, <2>1, <2>2, <2>3, PutMoves
  <2>5. r \in Seq(ActivityEntries) /\ Len(r) <= MaxActivity /\ DistinctIds(r)
    BY <1>2, <1>4, <2>1, <2>2, <2>3, MovedIsSound
  <2>6. PICK after : after = Apply(u, store)
    OBVIOUS
  <2>7. after = [store EXCEPT !.activity = r]
    BY <1>1, <1>3, <1>5, <2>4, <2>6 DEF Apply
  <2>8. after.activity = r /\ after.jobs = store.jobs
    BY <1>1, <2>7
  <2>9. after \in Stores
    BY <1>1, <2>5, <2>7 DEF Stores, ActivityEntries
  <2>10. Sound(after)
    BY <1>2, <2>5, <2>8, <2>9 DEF Sound
  <2>11. MaxOf(u.part) = MaxActivity
    BY <1>5 DEF MaxOf
  <2> QED BY <1>3, <1>5, <2>2, <2>3, <2>6, <2>8, <2>10, <2>11
<1>6. CASE u.part = "jobs"
  <2>1. e \in JobEntries
    BY <1>3, <1>6 DEF Updates
  <2>2. PICK p : IsPlace(p, store.jobs, e.id)
    BY <1>2, PlaceExists
  <2>3. PICK r : r = Moved(store.jobs, e, MaxJobs, p)
    OBVIOUS
  <2>4. Put(store.jobs, e, MaxJobs) = r
    BY <1>2, <1>4, <2>1, <2>2, <2>3, PutMoves
  <2>5. r \in Seq(JobEntries) /\ Len(r) <= MaxJobs /\ DistinctIds(r)
    BY <1>2, <1>4, <2>1, <2>2, <2>3, MovedIsSound
  <2>6. PICK after : after = Apply(u, store)
    OBVIOUS
  <2>7. after = [store EXCEPT !.jobs = r]
    BY <1>1, <1>3, <1>6, <2>4, <2>6 DEF Apply
  <2>8. after.jobs = r /\ after.activity = store.activity
    BY <1>1, <2>7
  <2>9. after \in Stores
    BY <1>1, <2>5, <2>7 DEF Stores, JobEntries
  <2>10. Sound(after)
    BY <1>2, <2>5, <2>8, <2>9 DEF Sound
  <2>11. MaxOf(u.part) = MaxJobs
    BY <1>6 DEF MaxOf
  <2> QED BY <1>3, <1>6, <2>2, <2>3, <2>6, <2>8, <2>10, <2>11
<1> QED BY <1>5, <1>6 DEF Updates

\* Only newer ones come after an update, and finitely many.
LEMMA NewerGrows ==
    ASSUME NEW w \in Seq(Updates), NEW u \in Updates, NEW n \in DOMAIN w
    PROVE  /\ NewerIn(Append(w, u), n) =
                 NewerIn(w, n) \cup (IF u.part = w[n].part THEN {u.entry.id} ELSE {})
           /\ Append(w, u)[n] = w[n] /\ n \in DOMAIN Append(w, u)
           /\ IsFiniteSet(NewerIn(w, n)) /\ IsFiniteSet(NewerIn(Append(w, u), n))
<1>1. PICK length \in Nat : length = Len(w)
  OBVIOUS
<1>2. PICK x : x = Append(w, u)
  OBVIOUS
<1>3. /\ Len(x) = length + 1 /\ x[length + 1] = u /\ DOMAIN w = 1 .. length
      /\ DOMAIN x = 1 .. length + 1 /\ \A k \in 1 .. length : x[k] = w[k]
  BY <1>1, <1>2
<1>4. x[n] = w[n] /\ n \in 1 .. length /\ n \in DOMAIN x
  BY <1>3
<1>5. NewerIn(x, n) = NewerIn(w, n) \cup (IF u.part = w[n].part THEN {u.entry.id} ELSE {})
  <2>1. \A k \in n + 1 .. length + 1 : k \in n + 1 .. length \/ k = length + 1
    BY <1>4
  <2>2. \A k \in n + 1 .. length : k \in 1 .. length /\ k \in n + 1 .. length + 1
    BY <1>4
  <2>3. length + 1 \in n + 1 .. length + 1
    BY <1>4
  <2> QED BY <1>1, <1>3, <1>4, <2>1, <2>2, <2>3 DEF NewerIn
<1>6. IsFiniteSet(NewerIn(w, n))
  <2>1. PICK later : later = {k \in n + 1 .. Len(w) : w[k].part = w[n].part}
    OBVIOUS
  <2>2. IsFiniteSet(later)
    <3>1. n + 1 \in Int /\ Len(w) \in Int
      BY <1>1, <1>4
    <3>2. IsFiniteSet(n + 1 .. Len(w))
      BY <3>1, FS_Interval
    <3>3. later \in SUBSET (n + 1 .. Len(w))
      BY <2>1
    <3> QED BY <3>2, <3>3, FS_Subset
  <2>3. PICK f : f = [k \in later |-> w[k].entry.id]
    OBVIOUS
  <2>4. NewerIn(w, n) = {f[k] : k \in later}
    BY <2>1, <2>3 DEF NewerIn
  <2>5. IsFiniteSet({f[k] : k \in later})
    <3>1. f \in Surjection(later, {f[k] : k \in later})
      BY <2>3 DEF Surjection
    <3> QED BY <2>2, <3>1, FS_Surjection
  <2> QED BY <2>4, <2>5
<1>7. IsFiniteSet(NewerIn(x, n))
  <2>1. IsFiniteSet(NewerIn(w, n) \cup {u.entry.id})
    BY <1>6, FS_AddElement
  <2>2. NewerIn(x, n) \in SUBSET (NewerIn(w, n) \cup {u.entry.id})
    BY <1>5
  <2> QED BY <2>1, <2>2, FS_Subset
<1> QED BY <1>2, <1>4, <1>5, <1>6, <1>7

\* An update puts its entry first; whatever was there stays, or is displaced by as many newer ones
\* as the cap allows.
LEMMA HistoryGoesOn ==
    ASSUME NEW w \in Seq(Updates), NEW u \in Updates, NEW store, Sound(store), HistoryFits(w, store)
    PROVE  HistoryFits(Append(w, u), Apply(u, store))
<1>1. PICK x, after : x = Append(w, u) /\ after = Apply(u, store)
  OBVIOUS
<1>2. PICK part, e, max : part = u.part /\ e = u.entry /\ max = MaxOf(part)
  OBVIOUS
<1>3. part \in {"activity", "jobs"} /\ max \in Nat \ {0}
  BY <1>2, CapsAssumption DEF Updates, MaxOf
<1>4. PICK p : /\ IsPlace(p, store[part], e.id)
               /\ after[part] = Moved(store[part], e, max, p)
               /\ \A other \in {"activity", "jobs"} \ {part} : after[other] = store[other]
  BY <1>1, <1>2, ApplyFacts
<1>5. PICK S, entries, r : /\ entries \in Seq(S) /\ e \in S /\ entries = store[part]
                           /\ r = after[part] /\ DistinctIds(entries) /\ Len(entries) <= max
  <2>1. CASE part = "activity"
    <3>1. store.activity \in Seq(ActivityEntries) /\ e \in ActivityEntries
      BY <1>2, <2>1 DEF Sound, Stores, ActivityEntries, Updates
    <3>2. DistinctIds(store.activity) /\ Len(store.activity) <= max
      BY <1>2, <2>1 DEF Sound, MaxOf
    <3> QED BY <2>1, <3>1, <3>2
  <2>2. CASE part = "jobs"
    <3>1. store.jobs \in Seq(JobEntries) /\ e \in JobEntries
      BY <1>2, <2>2 DEF Sound, Stores, JobEntries, Updates
    <3>2. DistinctIds(store.jobs) /\ Len(store.jobs) <= max
      BY <1>2, <2>2 DEF Sound, MaxOf
    <3> QED BY <2>2, <3>1, <3>2
  <2> QED BY <1>3, <2>1, <2>2
<1>6. PICK length \in Nat : length = Len(w)
  OBVIOUS
<1>7. /\ DOMAIN w = 1 .. length /\ DOMAIN x = 1 .. length + 1 /\ x[length + 1] = u
      /\ \A n \in 1 .. length : x[n] = w[n] /\ w[n] \in Updates
  BY <1>1, <1>6
<1>8. /\ r \in Seq(S) /\ Len(r) <= max /\ r[1] = e /\ 1 \in DOMAIN r /\ DistinctIds(r)
      /\ DOMAIN r = 1 .. Len(r) /\ DOMAIN entries = 1 .. Len(entries)
      /\ \A k \in DOMAIN r : r[k] = e \/ \E m \in DOMAIN entries : r[k] = entries[m]
  BY <1>3, <1>4, <1>5, MovedIsSound
<1>9. PlacedIn(after, x, length + 1)
  <2>1. after[x[length + 1].part] = r
    BY <1>2, <1>5, <1>7
  <2>2. r[1].id = x[length + 1].entry.id /\ 1 \in DOMAIN r
    BY <1>2, <1>7, <1>8
  <2>3. \A q \in 1 .. 1 - 1 : FALSE
    OBVIOUS
  <2> QED BY <2>1, <2>2, <2>3 DEF PlacedIn
<1>10. ASSUME NEW n \in 1 .. length PROVE DisplacedIn(x, n) \/ PlacedIn(after, x, n)
  <2>1. /\ NewerIn(x, n) = NewerIn(w, n) \cup (IF part = w[n].part THEN {e.id} ELSE {})
        /\ x[n] = w[n] /\ IsFiniteSet(NewerIn(w, n)) /\ IsFiniteSet(NewerIn(x, n))
    BY <1>1, <1>2, <1>7, NewerGrows
  <2>2. PICK id, own : id = w[n].entry.id /\ own = w[n].part
    OBVIOUS
  <2>3. PICK older, newer : older = NewerIn(w, n) \ {id} /\ newer = NewerIn(x, n) \ {id}
    OBVIOUS
  <2>4. /\ IsFiniteSet(older) /\ IsFiniteSet(newer) /\ older \in SUBSET newer
        /\ Cardinality(older) \in Nat /\ Cardinality(newer) \in Nat
        /\ Cardinality(older) <= Cardinality(newer)
    <3>1. older \in SUBSET NewerIn(w, n) /\ newer \in SUBSET NewerIn(x, n) /\ older \in SUBSET newer
      BY <2>1, <2>3
    <3>2. IsFiniteSet(older) /\ IsFiniteSet(newer)
      BY <2>1, <3>1, FS_Subset
    <3> QED BY <3>1, <3>2, FS_Subset, FS_CardinalityType
  <2>5. MaxOf(own) \in Nat
    BY CapsAssumption DEF MaxOf
  <2>6. CASE DisplacedIn(w, n)
    <3>1. Cardinality(older) >= MaxOf(own)
      BY <2>2, <2>3, <2>6 DEF DisplacedIn
    <3>2. Cardinality(newer) >= MaxOf(own)
      BY <2>4, <2>5, <3>1
    <3> QED BY <2>1, <2>2, <2>3, <3>2 DEF DisplacedIn
  <2>7. CASE own # part /\ PlacedIn(store, w, n)
    <3>1. after[own] = store[own]
      BY <1>3, <1>4, <1>7, <2>2, <2>7 DEF Updates
    <3>2. NewerIn(x, n) = NewerIn(w, n)
      BY <2>1, <2>2, <2>7
    <3> QED BY <2>1, <2>2, <2>7, <3>1, <3>2 DEF PlacedIn
  <2>8. CASE own = part /\ id = e.id
    <3>1. after[x[n].part] = r /\ r[1].id = x[n].entry.id /\ 1 \in DOMAIN r
      BY <1>5, <1>8, <2>1, <2>2, <2>8
    <3>2. \A q \in 1 .. 1 - 1 : FALSE
      OBVIOUS
    <3> QED BY <3>1, <3>2 DEF PlacedIn
  <2>9. CASE own = part /\ id # e.id /\ PlacedIn(store, w, n)
    <3>1. PICK q \in 1 .. Len(entries) : /\ entries[q].id = id
                                         /\ \A k \in 1 .. q - 1 : entries[k].id \in NewerIn(w, n)
      <4>1. store[w[n].part] = entries /\ w[n].entry.id = id
        BY <1>5, <2>2, <2>9
      <4>2. \E q \in DOMAIN entries : /\ entries[q].id = id
                                      /\ \A k \in 1 .. q - 1 : entries[k].id \in NewerIn(w, n)
        BY <2>9, <4>1 DEF PlacedIn
      <4> QED BY <1>8, <4>2
    <3>2. NewerIn(x, n) = NewerIn(w, n) \cup {e.id}
      BY <2>1, <2>2, <2>9
    <3>3. \/ \E k \in 1 .. Len(r) :
                /\ r[k] = entries[q]
                /\ \A m \in 1 .. k - 1 : r[m] = e \/ \E j \in 1 .. q - 1 : r[m] = entries[j]
          \/ /\ Len(r) = max
             /\ \A m \in 1 .. max : r[m] = e \/ \E j \in 1 .. q - 1 : r[m] = entries[j]
      <4>1. /\ IsPlace(p, entries, e.id) /\ r = Moved(entries, e, max, p)
            /\ entries[q].id # e.id /\ Len(entries) <= max /\ entries \in Seq(S) /\ e \in S
        BY <1>4, <1>5, <2>9, <3>1
      <4> QED BY <1>3, <4>1, MovedKeeps
    <3>4. ASSUME NEW k \in 1 .. Len(r), r[k] = entries[q],
                 \A m \in 1 .. k - 1 : r[m] = e \/ \E j \in 1 .. q - 1 : r[m] = entries[j]
          PROVE  PlacedIn(after, x, n)
      <4>1. after[x[n].part] = r /\ k \in DOMAIN r /\ r[k].id = x[n].entry.id
        BY <1>5, <1>8, <2>1, <2>2, <2>9, <3>1, <3>4
      <4>2. \A m \in 1 .. k - 1 : r[m].id \in NewerIn(x, n)
        BY <3>1, <3>2, <3>4
      <4> QED BY <4>1, <4>2 DEF PlacedIn
    <3>5. ASSUME Len(r) = max,
                 \A m \in 1 .. max : r[m] = e \/ \E j \in 1 .. q - 1 : r[m] = entries[j]
          PROVE  DisplacedIn(x, n)
      <4>1. \A j \in 1 .. q - 1 : j \in DOMAIN entries /\ j # q
        BY <1>8, <3>1
      <4>2. \A j \in 1 .. q - 1 : entries[j].id \in NewerIn(w, n) /\ entries[j].id # id
        BY <1>5, <1>8, <3>1, <4>1 DEF DistinctIds
      <4>3. \A m \in 1 .. max : r[m].id \in newer
        BY <2>3, <2>9, <3>2, <3>5, <4>2
      <4>4. PICK f : f = [m \in 1 .. max |-> r[m].id]
        OBVIOUS
      <4>5. f \in Injection(1 .. max, newer)
        <5>1. f \in [1 .. max -> newer]
          BY <4>3, <4>4
        <5>2. \A a, b \in 1 .. max : f[a] = f[b] => a = b
          BY <1>8, <3>5, <4>4 DEF DistinctIds
        <5> QED BY <5>1, <5>2 DEF Injection, IsInjective
      <4>6. Cardinality(1 .. max) = max
        <5>1. 1 \in Int /\ max \in Int /\ ~(1 > max) /\ max - 1 + 1 = max
          BY <1>3
        <5>2. Cardinality(1 .. max) = IF 1 > max THEN 0 ELSE max - 1 + 1
          BY <5>1, FS_Interval
        <5> QED BY <5>1, <5>2
      <4>7. max <= Cardinality(newer)
        <5>1. Cardinality(1 .. max) <= Cardinality(newer)
          BY <2>4, <4>5, FS_Injection
        <5> QED BY <4>6, <5>1
      <4>8. Cardinality(newer) >= MaxOf(own)
        BY <1>2, <1>3, <2>4, <2>9, <4>7
      <4> QED BY <2>1, <2>2, <2>3, <4>8 DEF DisplacedIn
    <3> QED BY <3>3, <3>4, <3>5
  <2>10. DisplacedIn(w, n) \/ PlacedIn(store, w, n)
    BY <1>7 DEF HistoryFits
  <2> QED BY <2>6, <2>7, <2>8, <2>9, <2>10
<1>11. \A n \in DOMAIN x : DisplacedIn(x, n) \/ PlacedIn(after, x, n)
  <2>1. \A n \in DOMAIN x : n \in 1 .. length \/ n = length + 1
    BY <1>7
  <2> QED BY <1>9, <1>10, <2>1
<1>12. ASSUME NEW k \in DOMAIN after.activity
       PROVE  \E n : LastOf(x, n, after.activity[k])
  <2>1. ASSUME NEW m \in DOMAIN store.activity, after.activity[k] = store.activity[m],
               part = "activity" => store.activity[m].id # e.id
        PROVE  \E n : LastOf(x, n, after.activity[k])
    <3>1. PICK n : LastOf(w, n, store.activity[m])
      BY DEF HistoryFits
    <3>2. n \in 1 .. length /\ w[n].part = "activity"
      BY <1>7, <3>1 DEF LastOf
    <3>3. /\ NewerIn(x, n) = NewerIn(w, n) \cup (IF part = w[n].part THEN {e.id} ELSE {})
          /\ x[n] = w[n] /\ n \in DOMAIN x
      BY <1>1, <1>2, <1>7, <3>2, NewerGrows
    <3>4. store.activity[m].id \notin NewerIn(x, n)
      BY <2>1, <3>1, <3>2, <3>3 DEF LastOf
    <3>5. LastOf(x, n, store.activity[m])
      BY <3>1, <3>3, <3>4 DEF LastOf
    <3> QED BY <2>1, <3>5
  <2>2. CASE part = "activity"
    <3>1. r = after.activity /\ entries = store.activity
      BY <1>5, <2>2
    <3>2. CASE k = 1
      <4>1. length + 1 \in DOMAIN x /\ x[length + 1].part = "activity" /\ x[length + 1].entry = e
        BY <1>2, <1>7, <2>2
      <4>2. NewerIn(x, length + 1) = {}
        <5>1. Len(x) = length + 1
          BY <1>1, <1>6
        <5>2. length + 1 + 1 .. Len(x) = {}
          BY <5>1
        <5> QED BY <5>2 DEF NewerIn
      <4>3. LastOf(x, length + 1, e)
        BY <4>1, <4>2 DEF LastOf
      <4> QED BY <1>8, <3>1, <3>2, <4>3
    <3>3. CASE k # 1
      <4>1. r[k].id # e.id
        BY <1>8, <3>1, <3>3 DEF DistinctIds
      <4>2. PICK m \in DOMAIN entries : r[k] = entries[m]
        BY <1>8, <3>1, <4>1
      <4> QED BY <2>1, <3>1, <4>1, <4>2
    <3> QED BY <3>2, <3>3
  <2>3. CASE part = "jobs"
    <3>1. after.activity = store.activity
      BY <1>4, <2>3
    <3> QED BY <2>1, <2>3, <3>1
  <2> QED BY <1>3, <2>2, <2>3
<1> QED BY <1>1, <1>11, <1>12 DEF HistoryFits

-----------------------------------------------------------------------------
(***************************************************************************)
(* The invariant.                                                          *)
(***************************************************************************)
Places == {"idle", "read", "open", "write", "rename", "answer"}

CallRecords == [at : Places, updates : Seq(Updates), next : Nat \ {0},
                opened : {"none", "tmp", "file"}, store : Stores]

\* An event that names a job, under an id the server has made up.
Announces(update, job) == update.part = "activity" /\ update.entry.job = job /\ ~update.sent

\* A call goes through its updates in order; a job among them comes with an event.
CallFits(c, w) ==
    /\ c.at = "idle" => c = Idle
    /\ c.at # "idle" => c.next \in DOMAIN c.updates
    /\ c.at = "answer" => c.next = Len(c.updates)
    /\ \A m \in DOMAIN c.updates :
          (m < c.next \/ c.at = "answer") => \E n \in DOMAIN w : w[n] = c.updates[m]
    /\ \A m \in DOMAIN c.updates : c.updates[m].part = "jobs" =>
          \E k \in DOMAIN c.updates : Announces(c.updates[k], c.updates[m].entry.id)
    /\ Sound(c.store)

\* What a call alone on the file holds of it and of the temporary file.
Calm(c, store, temporary) ==
    /\ c.opened # "file"
    /\ c.at \in {"open", "write", "rename"} => c.store = Apply(c.updates[c.next], store)
    /\ c.at = "write" => c.opened = "tmp" /\ temporary = [exists |-> TRUE, store |-> EmptyStore]
    /\ c.at = "rename" => temporary = [exists |-> TRUE, store |-> c.store]

\* The updates there have been, and those of calls under way.
Issued ==
    {written[n] : n \in DOMAIN written} \cup
    UNION {{call[s].updates[m] : m \in DOMAIN call[s].updates} : s \in Servers}

\* Those of them with an id that a server made up for them.
NewlyNamed == {u \in Issued : u.part = "activity" /\ ~u.sent}

FilesFit ==
    /\ running \subseteq Servers /\ requests \in 0 .. MaxRequests /\ faults \in 0 .. MaxFaults
    /\ Sound(file) /\ tmp \in [exists : BOOLEAN, store : Stores] /\ Sound(tmp.store)
    /\ written \in Seq(Updates) /\ harmed \in BOOLEAN

CallsFit == call \in [Servers -> CallRecords] /\ \A s \in Servers : CallFits(call[s], written)

AnswersFit ==
    \A u \in answered :
        /\ \E n \in DOMAIN written : written[n] = u
        /\ u.part = "jobs" => \E n \in DOMAIN written : Announces(written[n], u.entry.id)

\* Each is of one update.
IdsFit ==
    /\ \A u \in NewlyNamed : u.entry.id \in 1 .. requests
    /\ \A u, v \in NewlyNamed : u.entry.id = v.entry.id => u = v

\* Until something was harmed: one call at a time, and the file is what the updates have made it.
Harmless ==
    ~harmed =>
        /\ \A s, o \in Servers : call[s] # Idle /\ call[o] # Idle => s = o
        /\ \A s \in Servers : Calm(call[s], file, tmp)
        /\ HistoryFits(written, file)

StoreInv == FilesFit /\ CallsFit /\ AnswersFit /\ IdsFit /\ Harmless

-----------------------------------------------------------------------------
(***************************************************************************)
(* The steps.                                                              *)
(***************************************************************************)
\* A call that does nothing is calm, and in order.
LEMMA IdleFits ==
    /\ Idle \in CallRecords /\ Idle.at = "idle" /\ Idle.updates = <<>> /\ Idle.opened = "none"
    /\ Sound(EmptyStore)
    /\ \A w : CallFits(Idle, w)
    /\ \A store, temporary : Calm(Idle, store, temporary)
<1>1. Sound(EmptyStore)
  BY CapsAssumption DEF Sound, EmptyStore, Stores, DistinctIds
<1>2. /\ Idle.at = "idle" /\ Idle.updates = <<>> /\ Idle.opened = "none" /\ Idle.next = 1
      /\ Idle.store = EmptyStore
  BY DEF Idle
<1>3. Idle \in CallRecords
  BY <1>1 DEF Idle, CallRecords, Places, Sound
<1>4. \A w : CallFits(Idle, w)
  BY <1>1, <1>2 DEF CallFits
<1>5. \A store, temporary : Calm(Idle, store, temporary)
  BY <1>2 DEF Calm
<1> QED BY <1>1, <1>2, <1>3, <1>4, <1>5

\* What was written stays written.
LEMMA CallFitsStays ==
    ASSUME NEW w, NEW x, \A n \in DOMAIN w : n \in DOMAIN x /\ x[n] = w[n], NEW c, CallFits(c, w)
    PROVE  CallFits(c, x)
BY DEF CallFits

\* Until something is harmed, no call goes on beside another.
LEMMA Alone ==
    ASSUME StoreInv, ~harmed, NEW s \in Servers, call[s].at # "idle"
    PROVE  (\A o \in Servers \ {s} : call[o] = Idle) /\ Calm(call[s], file, tmp)
BY IdleFits DEF StoreInv, Harmless

\* A step issues no update: ids stay with their updates.
LEMMA IdsStay ==
    ASSUME IdsFit, requests' = requests, Issued' \subseteq Issued
    PROVE  IdsFit'
<1>1. NewlyNamed' \subseteq NewlyNamed
  BY DEF NewlyNamed
<1> QED BY <1>1 DEF IdsFit

\* A step of one call that does not replace the file.
LEMMA OneMoves ==
    ASSUME StoreInv, NEW s \in Servers, call[s].at # "idle", NEW c \in CallRecords,
           call' = [call EXCEPT ![s] = c], c.updates = call[s].updates \/ c = Idle,
           CallFits(c, written), UNCHANGED <<running, written, requests>>,
           faults' \in 0 .. MaxFaults, Sound(file'), Sound(tmp'.store),
           tmp' \in [exists : BOOLEAN, store : Stores], harmed' \in BOOLEAN,
           AnswersFit', ~harmed' => ~harmed /\ file' = file /\ Calm(c, file', tmp')
    PROVE  StoreInv'
<1>1. call \in [Servers -> CallRecords] /\ \A o \in Servers : CallFits(call[o], written)
  BY DEF StoreInv, CallsFit
<1>2. /\ call' \in [Servers -> CallRecords] /\ call'[s] = c
      /\ \A o \in Servers \ {s} : call'[o] = call[o]
  BY <1>1
<1>3. CallsFit'
  <2>1. \A o \in Servers : CallFits(call'[o], written)
    BY <1>1, <1>2
  <2> QED BY <1>2, <2>1 DEF CallsFit, CallFits
<1>4. FilesFit'
  BY DEF StoreInv, FilesFit
<1>5. Issued' \subseteq Issued
  <2>1. \A o \in Servers : \A m \in DOMAIN call'[o].updates :
           m \in DOMAIN call[o].updates /\ call'[o].updates[m] = call[o].updates[m]
    BY <1>2, IdleFits
  <2> QED BY <2>1 DEF Issued
<1>6. IdsFit'
  BY <1>5, IdsStay DEF StoreInv
<1>7. Harmless'
  <2> SUFFICES ASSUME ~harmed'
               PROVE  /\ \A p, o \in Servers : call'[p] # Idle /\ call'[o] # Idle => p = o
                      /\ \A o \in Servers : Calm(call'[o], file', tmp')
                      /\ HistoryFits(written', file')
    BY DEF Harmless, HistoryFits, LastOf, DisplacedIn, PlacedIn, NewerIn, MaxOf, Calm, Idle, EmptyStore,
           Apply, Put, Without
  <2>1. \A o \in Servers \ {s} : call[o] = Idle
    BY Alone
  <2>2. \A o \in Servers \ {s} : call'[o] = Idle
    BY <1>2, <2>1
  <2>3. \A o \in Servers : Calm(call'[o], file', tmp')
    BY <1>2, <2>2, IdleFits
  <2>4. HistoryFits(written', file')
    BY DEF StoreInv, Harmless
  <2> QED BY <2>2, <2>3, <2>4
<1> QED BY <1>3, <1>4, <1>6, <1>7 DEF StoreInv

\* Answers are of what has been written.
LEMMA AnswersStay ==
    ASSUME AnswersFit, answered' = answered,
           \A n \in DOMAIN written : n \in DOMAIN written' /\ written'[n] = written[n]
    PROVE  AnswersFit'
BY DEF AnswersFit, Announces

\* A request comes in: with it come an update or two, and one new id at most.
LEMMA RequestFits ==
    ASSUME StoreInv, NEW s \in Servers, NEW updates \in Seq(Updates), updates # <<>>,
           Request(s, updates),
           \A m, k \in DOMAIN updates :
              (/\ updates[m].part = "activity" /\ ~updates[m].sent
               /\ updates[k].part = "activity" /\ ~updates[k].sent) =>
                 updates[m] = updates[k] /\ updates[m].entry.id = requests + 1,
           \A m \in DOMAIN updates : updates[m].part = "jobs" =>
              \E k \in DOMAIN updates : Announces(updates[k], updates[m].entry.id)
    PROVE  StoreInv'
<1>1. call \in [Servers -> CallRecords] /\ \A o \in Servers : CallFits(call[o], written)
  BY DEF StoreInv, CallsFit
<1>2. PICK c : c = [Idle EXCEPT !.at = "read", !.updates = updates]
  OBVIOUS
<1>3. /\ c.at = "read" /\ c.updates = updates /\ c.next = 1 /\ c.opened = "none"
      /\ c.store = EmptyStore /\ c \in CallRecords
  <2>1. Idle \in CallRecords
    BY IdleFits
  <2>2. c.at = "read" /\ c.updates = updates /\ c.next = 1 /\ c.opened = "none"
        /\ c.store = EmptyStore
    BY <1>2 DEF Idle
  <2>3. c \in CallRecords
    BY <1>2, <2>1 DEF CallRecords, Places
  <2> QED BY <2>2, <2>3
<1>4. /\ call[s] = Idle /\ call' = [call EXCEPT ![s] = c]
      /\ requests < MaxRequests /\ requests' = requests + 1
      /\ UNCHANGED <<running, file, tmp, faults, written, answered>>
      /\ harmed' = (harmed \/ \E other \in Servers : call[other] # Idle)
  BY <1>1, <1>2 DEF Request
<1>5. /\ call' \in [Servers -> CallRecords] /\ call'[s] = c
      /\ \A o \in Servers \ {s} : call'[o] = call[o]
  BY <1>1, <1>3, <1>4
<1>6. CallFits(c, written)
  <2>1. 1 \in DOMAIN updates /\ \A m \in DOMAIN updates : m \in 1 .. Len(updates) /\ ~(m < 1)
    OBVIOUS
  <2> QED BY <1>3, <2>1, IdleFits DEF CallFits
<1>7. CallsFit'
  <2>1. \A o \in Servers : CallFits(call'[o], written)
    BY <1>1, <1>5, <1>6
  <2> QED BY <1>4, <1>5, <2>1 DEF CallsFit, CallFits
<1>8. requests \in Nat /\ MaxRequests \in Nat /\ requests' \in 0 .. MaxRequests
      /\ requests <= requests'
  BY <1>4, CapsAssumption DEF StoreInv, FilesFit
<1>9. FilesFit'
  <2>1. harmed' \in BOOLEAN
    BY <1>4 DEF StoreInv, FilesFit
  <2> QED BY <1>4, <1>8, <2>1 DEF StoreInv, FilesFit
<1>10. AnswersFit'
  <2>1. AnswersFit /\ \A n \in DOMAIN written : n \in DOMAIN written' /\ written'[n] = written[n]
    BY <1>4 DEF StoreInv
  <2> QED BY <1>4, <2>1, AnswersStay
<1>11. IdsFit'
  <2>1. ASSUME NEW u \in NewlyNamed' PROVE u \in NewlyNamed \/ \E m \in DOMAIN updates : u = updates[m]
    <3>1. u \in Issued' /\ u.part = "activity" /\ ~u.sent
      BY DEF NewlyNamed
    <3>2. CASE \E n \in DOMAIN written : written[n] = u
      BY <3>1, <3>2 DEF NewlyNamed, Issued
    <3>3. ASSUME NEW o \in Servers, NEW m \in DOMAIN call'[o].updates, call'[o].updates[m] = u
          PROVE  u \in NewlyNamed \/ \E k \in DOMAIN updates : u = updates[k]
      <4>1. CASE o = s
        BY <1>3, <1>5, <3>3, <4>1
      <4>2. CASE o # s
        <5>1. m \in DOMAIN call[o].updates /\ call[o].updates[m] = u
          BY <1>5, <3>3, <4>2
        <5> QED BY <3>1, <5>1 DEF NewlyNamed, Issued
      <4> QED BY <4>1, <4>2
    <3> QED BY <1>4, <3>1, <3>2, <3>3 DEF Issued
  <2>2. \A u \in NewlyNamed : u.entry.id \in 1 .. requests
    BY DEF StoreInv, IdsFit
  <2>3. \A u \in NewlyNamed' : u.part = "activity" /\ ~u.sent
    BY DEF NewlyNamed
  <2>4. ASSUME NEW u \in NewlyNamed', NEW m \in DOMAIN updates, u = updates[m]
        PROVE  u.entry.id = requests + 1
    BY <2>3, <2>4
  <2>5. \A u \in NewlyNamed' : u.entry.id \in 1 .. requests'
    BY <1>4, <1>8, <2>1, <2>2, <2>4
  <2>6. ASSUME NEW u \in NewlyNamed', NEW v \in NewlyNamed', u.entry.id = v.entry.id
        PROVE  u = v
    <3>1. CASE u \in NewlyNamed /\ v \in NewlyNamed
      BY <2>6, <3>1 DEF StoreInv, IdsFit
    <3>2. CASE (\E m \in DOMAIN updates : u = updates[m]) /\ (\E m \in DOMAIN updates : v = updates[m])
      BY <2>3, <3>2
    <3>3. CASE u \in NewlyNamed /\ \E m \in DOMAIN updates : v = updates[m]
      BY <1>8, <2>2, <2>4, <2>6, <3>3
    <3>4. CASE v \in NewlyNamed /\ \E m \in DOMAIN updates : u = updates[m]
      BY <1>8, <2>2, <2>4, <2>6, <3>4
    <3> QED BY <2>1, <3>1, <3>2, <3>3, <3>4
  <2> QED BY <2>5, <2>6 DEF IdsFit
<1>12. Harmless'
  <2> SUFFICES ASSUME ~harmed'
               PROVE  /\ \A p, o \in Servers : call'[p] # Idle /\ call'[o] # Idle => p = o
                      /\ \A o \in Servers : Calm(call'[o], file', tmp')
                      /\ HistoryFits(written', file')
    BY DEF Harmless, HistoryFits, LastOf, DisplacedIn, PlacedIn, NewerIn, MaxOf, Calm, Idle, EmptyStore,
           Apply, Put, Without
  <2>1. ~harmed /\ \A o \in Servers \ {s} : call'[o] = Idle
    BY <1>4, <1>5
  <2>2. Calm(c, file, tmp)
    BY <1>3 DEF Calm
  <2>3. \A o \in Servers : Calm(call'[o], file', tmp')
    BY <1>4, <1>5, <2>1, <2>2, IdleFits
  <2>4. HistoryFits(written', file')
    BY <1>4, <2>1 DEF StoreInv, Harmless
  <2> QED BY <2>1, <2>3, <2>4
<1> QED BY <1>7, <1>9, <1>10, <1>11, <1>12 DEF StoreInv

\* An event's id is the client's, who may have been told it, or new.
LEMMA PostEventFits ==
    ASSUME StoreInv, NEW s \in Servers, NEW job \in {NoJob} \cup JobIds, PostEvent(s, job)
    PROVE  StoreInv'
<1>1. requests \in Nat /\ requests < MaxRequests
  <2>1. requests \in 0 .. MaxRequests
    BY DEF StoreInv, FilesFit
  <2>2. requests < MaxRequests
    BY DEF PostEvent, Request
  <2> QED BY <2>1, <2>2, CapsAssumption
<1>2. 1 .. requests + 1 \subseteq NewIds
  BY <1>1, CapsAssumption DEF NewIds
<1>3. PICK id \in EventIds \cup 1 .. requests + 1, sent \in BOOLEAN :
         Request(s, <<Event(id, job, sent)>>) /\ (~sent => id = requests + 1)
  <2>1. ASSUME NEW id \in EventIds \cup 1 .. requests, Request(s, <<Event(id, job, TRUE)>>)
        PROVE  id \in EventIds \cup 1 .. requests + 1
    BY <1>1
  <2>2. requests + 1 \in 1 .. requests + 1
    BY <1>1
  <2>3. CASE Request(s, <<Event(requests + 1, job, FALSE)>>)
    BY <2>2, <2>3
  <2>4. CASE \E id \in EventIds \cup 1 .. requests : Request(s, <<Event(id, job, TRUE)>>)
    BY <2>1, <2>4
  <2> QED BY <2>3, <2>4 DEF PostEvent
<1>4. PICK e, updates : e = Event(id, job, sent) /\ updates = <<e>>
  OBVIOUS
<1>5. e \in Updates /\ e.part = "activity" /\ e.entry.id = id /\ e.sent = sent
  BY <1>2, <1>3, <1>4 DEF Event, Updates, ActivityEntries, Events
<1>6. /\ updates \in Seq(Updates) /\ updates # <<>> /\ Request(s, updates)
      /\ \A m \in DOMAIN updates : updates[m] = e
  BY <1>3, <1>4, <1>5
<1> QED BY <1>3, <1>5, <1>6, RequestFits

\* A job comes with an event under a new id.
LEMMA PostJobFits ==
    ASSUME StoreInv, NEW s \in Servers, NEW id \in JobIds, PostJob(s, id)
    PROVE  StoreInv'
<1>1. PICK j, e, updates : j = Job(id) /\ e = Event(requests + 1, id, FALSE) /\ updates = <<j, e>>
  OBVIOUS
<1>2. requests \in Nat /\ requests < MaxRequests /\ Request(s, updates)
  BY <1>1 DEF PostJob, Request, StoreInv, FilesFit
<1>3. requests + 1 \in NewIds
  BY <1>2, CapsAssumption DEF NewIds
<1>4. /\ e \in Updates /\ e.part = "activity" /\ e.entry.id = requests + 1 /\ e.entry.job = id
      /\ ~e.sent
  BY <1>1, <1>3 DEF Event, Updates, ActivityEntries, Events
<1>5. j \in Updates /\ j.part = "jobs" /\ j.entry.id = id
  BY <1>1 DEF Job, Updates, JobEntries
<1>6. /\ updates \in Seq(Updates) /\ updates # <<>> /\ DOMAIN updates = {1, 2}
      /\ updates[1] = j /\ updates[2] = e
  <2>1. updates = <<j, e>> /\ j \in Updates /\ e \in Updates
    BY <1>1, <1>4, <1>5
  <2> QED BY <2>1
<1>7. Announces(e, id)
  BY <1>4 DEF Announces
<1>8. \A m \in DOMAIN updates : updates[m] = j \/ updates[m] = e
  BY <1>6
<1>9. \A m \in DOMAIN updates : updates[m].part = "activity" => updates[m] = e
  BY <1>5, <1>8
<1>10. \A m \in DOMAIN updates : updates[m].part = "jobs" =>
          \E k \in DOMAIN updates : Announces(updates[k], updates[m].entry.id)
  BY <1>4, <1>5, <1>6, <1>7, <1>8
<1> QED BY <1>2, <1>4, <1>6, <1>9, <1>10, RequestFits

\* A server reads the file, or what it takes for one, and makes its update.
LEMMA ReadStoreFits ==
    ASSUME StoreInv, NEW s \in Servers, NEW readable \in BOOLEAN, ReadStore(s, readable)
    PROVE  StoreInv'
<1>1. PICK c \in CallRecords : c = call[s]
  BY DEF StoreInv, CallsFit
<1>2. CallFits(c, written) /\ c.at = "read"
  BY <1>1 DEF ReadStore, StoreInv, CallsFit
<1>3. PICK found : found = IF readable THEN file ELSE EmptyStore
  OBVIOUS
<1>4. Sound(found)
  BY <1>3, IdleFits DEF StoreInv, FilesFit
<1>5. PICK u \in Updates : u = c.updates[c.next]
  BY <1>2 DEF CallFits, CallRecords
<1>6. PICK store : store = Apply(u, found)
  OBVIOUS
<1>7. Sound(store)
  BY <1>4, <1>6, ApplyFacts
<1>8. PICK d : d = [c EXCEPT !.at = "open", !.store = store]
  OBVIOUS
<1>9. /\ d \in CallRecords /\ d.at = "open" /\ d.store = store /\ d.updates = c.updates
      /\ d.next = c.next /\ d.opened = c.opened
  BY <1>7, <1>8 DEF CallRecords, Places, Sound
<1>10. /\ call' = [call EXCEPT ![s] = d] /\ UNCHANGED <<running, file, tmp, requests, written, answered>>
       /\ readable => UNCHANGED <<faults, harmed>>
       /\ ~readable => Faulty /\ harmed' = TRUE
  BY <1>1, <1>3, <1>5, <1>6, <1>8 DEF ReadStore, Pending, CallRecords, StoreInv, CallsFit
<1>11. CallFits(d, written)
  BY <1>2, <1>7, <1>9 DEF CallFits
<1>12. faults' \in 0 .. MaxFaults /\ harmed' \in BOOLEAN
  <2>1. faults \in 0 .. MaxFaults /\ harmed \in BOOLEAN
    BY DEF StoreInv, FilesFit
  <2>2. CASE readable
    BY <1>10, <2>1, <2>2
  <2>3. CASE ~readable
    BY <1>10, <2>1, <2>3, CapsAssumption DEF Faulty
  <2> QED BY <2>2, <2>3
<1>13. ~harmed' => ~harmed /\ file' = file /\ Calm(d, file', tmp')
  <2> SUFFICES ASSUME ~harmed' PROVE ~harmed /\ file' = file /\ Calm(d, file', tmp')
    OBVIOUS
  <2>1. readable /\ ~harmed /\ file' = file /\ tmp' = tmp
    BY <1>10
  <2>2. Calm(c, file, tmp)
    BY <1>1, <2>1 DEF StoreInv, Harmless
  <2>3. d.store = Apply(d.updates[d.next], file)
    BY <1>3, <1>5, <1>6, <1>9, <2>1
  <2>4. Calm(d, file, tmp)
    BY <1>9, <2>2, <2>3 DEF Calm
  <2> QED BY <2>1, <2>4
<1>14. AnswersFit'
  BY <1>10, AnswersStay DEF StoreInv
<1>15. Sound(file') /\ Sound(tmp'.store) /\ tmp' \in [exists : BOOLEAN, store : Stores]
  BY <1>10 DEF StoreInv, FilesFit
<1>16. call[s].at # "idle"
  BY <1>1, <1>2
<1> QED BY <1>1, <1>9, <1>10, <1>11, <1>12, <1>13, <1>14, <1>15, <1>16, OneMoves

\* A server opens the temporary file.
LEMMA OpenTmpFits ==
    ASSUME StoreInv, NEW s \in Servers, OpenTmp(s)
    PROVE  StoreInv'
<1>1. PICK c \in CallRecords : c = call[s]
  BY DEF StoreInv, CallsFit
<1>2. CallFits(c, written) /\ c.at = "open"
  BY <1>1 DEF OpenTmp, StoreInv, CallsFit
<1>3. PICK d : d = [c EXCEPT !.at = "write", !.opened = "tmp"]
  OBVIOUS
<1>4. /\ d \in CallRecords /\ d.at = "write" /\ d.store = c.store /\ d.updates = c.updates
      /\ d.next = c.next /\ d.opened = "tmp"
  BY <1>3 DEF CallRecords, Places
<1>5. /\ call' = [call EXCEPT ![s] = d] /\ tmp' = [exists |-> TRUE, store |-> EmptyStore]
      /\ UNCHANGED <<running, file, requests, faults, written, answered, harmed>>
  BY <1>1, <1>3 DEF OpenTmp, CallRecords, StoreInv, CallsFit
<1>6. CallFits(d, written)
  BY <1>2, <1>4 DEF CallFits
<1>7. ~harmed' => ~harmed /\ file' = file /\ Calm(d, file', tmp')
  <2> SUFFICES ASSUME ~harmed' PROVE Calm(d, file', tmp')
    BY <1>5
  <2>1. Calm(c, file, tmp)
    BY <1>1, <1>5 DEF StoreInv, Harmless
  <2>2. d.store = Apply(d.updates[d.next], file)
    BY <1>2, <1>4, <2>1 DEF Calm
  <2>3. Calm(d, file, [exists |-> TRUE, store |-> EmptyStore])
    BY <1>4, <2>2 DEF Calm
  <2> QED BY <1>5, <2>3
<1>8. AnswersFit'
  BY <1>5, AnswersStay DEF StoreInv
<1>9. Sound(file') /\ Sound(tmp'.store) /\ tmp' \in [exists : BOOLEAN, store : Stores]
      /\ faults' \in 0 .. MaxFaults /\ harmed' \in BOOLEAN
  BY <1>5, IdleFits DEF StoreInv, FilesFit, Sound
<1>10. call[s].at # "idle"
  BY <1>1, <1>2
<1> QED BY <1>1, <1>4, <1>5, <1>6, <1>7, <1>8, <1>9, <1>10, OneMoves

\* A server fills what it has opened.
LEMMA WriteTmpFits ==
    ASSUME StoreInv, NEW s \in Servers, NEW torn \in BOOLEAN, WriteTmp(s, torn)
    PROVE  StoreInv'
<1>1. PICK c \in CallRecords : c = call[s]
  BY DEF StoreInv, CallsFit
<1>2. CallFits(c, written) /\ c.at = "write"
  BY <1>1 DEF WriteTmp, StoreInv, CallsFit
<1>3. PICK contents : contents = IF torn THEN EmptyStore ELSE c.store
  OBVIOUS
<1>4. Sound(contents)
  BY <1>2, <1>3, IdleFits DEF CallFits
<1>5. PICK d : d = [c EXCEPT !.at = "rename"]
  OBVIOUS
<1>6. /\ d \in CallRecords /\ d.at = "rename" /\ d.store = c.store /\ d.updates = c.updates
      /\ d.next = c.next /\ d.opened = c.opened
  BY <1>5 DEF CallRecords, Places
<1>7. /\ call' = [call EXCEPT ![s] = d]
      /\ tmp' = IF c.opened = "tmp" THEN [tmp EXCEPT !.store = contents] ELSE tmp
      /\ file' = IF c.opened = "file" THEN contents ELSE file
      /\ UNCHANGED <<running, requests, faults, written, answered, harmed>>
      /\ (torn /\ c.opened = "tmp") => tmp.store # EmptyStore
  BY <1>1, <1>3, <1>5 DEF WriteTmp, CallRecords, StoreInv, CallsFit
<1>8. CallFits(d, written)
  BY <1>2, <1>6 DEF CallFits
<1>9. ~harmed' => ~harmed /\ file' = file /\ Calm(d, file', tmp')
  <2> SUFFICES ASSUME ~harmed' PROVE file' = file /\ Calm(d, file', tmp')
    BY <1>7
  <2>1. Calm(c, file, tmp)
    BY <1>1, <1>7 DEF StoreInv, Harmless
  <2>2. c.opened = "tmp" /\ tmp = [exists |-> TRUE, store |-> EmptyStore]
    BY <1>2, <2>1 DEF Calm
  <2>3. ~torn
    BY <1>7, <2>2
  <2>4. tmp' = [exists |-> TRUE, store |-> c.store] /\ file' = file
    BY <1>3, <1>7, <2>2, <2>3
  <2>5. d.store = Apply(d.updates[d.next], file)
    BY <1>2, <1>6, <2>1 DEF Calm
  <2>6. Calm(d, file, [exists |-> TRUE, store |-> c.store])
    BY <1>6, <2>2, <2>5 DEF Calm
  <2> QED BY <2>4, <2>6
<1>10. AnswersFit'
  BY <1>7, AnswersStay DEF StoreInv
<1>11. Sound(file') /\ Sound(tmp'.store) /\ tmp' \in [exists : BOOLEAN, store : Stores]
  <2>1. Sound(file) /\ Sound(tmp.store) /\ tmp \in [exists : BOOLEAN, store : Stores]
    BY DEF StoreInv, FilesFit
  <2>2. Sound(file')
    BY <1>4, <1>7, <2>1
  <2>3. CASE c.opened = "tmp"
    <3>1. contents \in Stores
      BY <1>4 DEF Sound
    <3>2. tmp' = [tmp EXCEPT !.store = contents]
      BY <1>7, <2>3
    <3>3. tmp'.store = contents /\ tmp' \in [exists : BOOLEAN, store : Stores]
      BY <2>1, <3>1, <3>2
    <3> QED BY <1>4, <2>2, <3>3
  <2> QED BY <1>7, <2>1, <2>2, <2>3
<1>12. faults' \in 0 .. MaxFaults /\ harmed' \in BOOLEAN
  BY <1>7 DEF StoreInv, FilesFit
<1>13. call[s].at # "idle"
  BY <1>1, <1>2
<1> QED BY <1>1, <1>6, <1>7, <1>8, <1>9, <1>10, <1>11, <1>12, <1>13, OneMoves

\* A call ends with an error, or its process does.
LEMMA EndsFit ==
    ASSUME StoreInv, NEW s \in Servers, RenameFails(s) \/ Restart(s)
    PROVE  StoreInv'
<1>1. /\ call' = [call EXCEPT ![s] = Idle]
      /\ UNCHANGED <<running, file, tmp, requests, written, answered, harmed>>
      /\ Faulty \/ faults' = faults
  BY DEF RenameFails, Restart
<1>2. call[s].at # "idle"
  <2>1. CallFits(call[s], written)
    BY DEF StoreInv, CallsFit
  <2> QED BY <2>1 DEF RenameFails, Restart, CallFits
<1>3. faults' \in 0 .. MaxFaults
  <2>1. faults \in 0 .. MaxFaults
    BY DEF StoreInv, FilesFit
  <2> QED BY <1>1, <2>1, CapsAssumption DEF Faulty
<1>4. AnswersFit'
  BY <1>1, AnswersStay DEF StoreInv
<1>5. Sound(file') /\ Sound(tmp'.store) /\ tmp' \in [exists : BOOLEAN, store : Stores]
      /\ harmed' \in BOOLEAN
  BY <1>1 DEF StoreInv, FilesFit
<1>6. ~harmed' => ~harmed /\ file' = file /\ Calm(Idle, file', tmp')
  BY <1>1, IdleFits
<1> QED BY <1>1, <1>2, <1>3, <1>4, <1>5, <1>6, IdleFits, OneMoves

\* A call is answered when all of its updates have been written.
LEMMA AnswerFits ==
    ASSUME StoreInv, NEW s \in Servers, Answer(s)
    PROVE  StoreInv'
<1>1. PICK c \in CallRecords : c = call[s]
  BY DEF StoreInv, CallsFit
<1>2. CallFits(c, written) /\ c.at = "answer"
  BY <1>1 DEF Answer, StoreInv, CallsFit
<1>3. /\ call' = [call EXCEPT ![s] = Idle]
      /\ answered' = answered \cup {c.updates[n] : n \in DOMAIN c.updates}
      /\ UNCHANGED <<running, file, tmp, requests, faults, written, harmed>>
  BY <1>1 DEF Answer
<1>4. ASSUME NEW m \in DOMAIN c.updates
      PROVE  /\ \E n \in DOMAIN written : written[n] = c.updates[m]
             /\ c.updates[m].part = "jobs" =>
                   \E n \in DOMAIN written : Announces(written[n], c.updates[m].entry.id)
  <2>1. \A k \in DOMAIN c.updates : \E n \in DOMAIN written : written[n] = c.updates[k]
    BY <1>2 DEF CallFits
  <2>2. c.updates[m].part = "jobs" =>
           \E k \in DOMAIN c.updates : Announces(c.updates[k], c.updates[m].entry.id)
    BY <1>2 DEF CallFits
  <2> QED BY <2>1, <2>2
<1>5. AnswersFit'
  <2>1. \A u \in answered' : u \in answered \/ \E m \in DOMAIN c.updates : u = c.updates[m]
    BY <1>3
  <2>2. \A u, id : Announces(u, id) => Announces(u, id)'
    BY DEF Announces
  <2> QED BY <1>3, <1>4, <2>1, <2>2 DEF StoreInv, AnswersFit
<1>6. Sound(file') /\ Sound(tmp'.store) /\ tmp' \in [exists : BOOLEAN, store : Stores]
      /\ harmed' \in BOOLEAN /\ faults' \in 0 .. MaxFaults
  BY <1>3 DEF StoreInv, FilesFit
<1>7. ~harmed' => ~harmed /\ file' = file /\ Calm(Idle, file', tmp')
  BY <1>3, IdleFits
<1>8. call[s].at # "idle"
  BY <1>1, <1>2
<1> QED BY <1>3, <1>5, <1>6, <1>7, <1>8, IdleFits, OneMoves

\* The temporary file becomes the file, and what servers have opened under its name with it.
LEMMA RenameTmpFits ==
    ASSUME StoreInv, NEW s \in Servers, RenameTmp(s)
    PROVE  /\ StoreInv'
           /\ \E u \in Updates : written' = Append(written, u) /\ (~harmed => file' = Apply(u, file))
           /\ harmed' = harmed
<1>1. PICK c \in CallRecords : c = call[s]
  BY DEF StoreInv, CallsFit
<1>2. CallFits(c, written) /\ c.at = "rename"
  BY <1>1 DEF RenameTmp, StoreInv, CallsFit
<1>3. PICK length \in Nat : length = Len(c.updates) /\ DOMAIN c.updates = 1 .. length
  BY DEF CallRecords
<1>4. c.next \in 1 .. length /\ \A m \in 1 .. length : c.updates[m] \in Updates
  BY <1>2, <1>3 DEF CallFits, CallRecords
<1>5. PICK u \in Updates : u = c.updates[c.next]
  BY <1>4
<1>6. PICK x : x = Append(written, u)
  OBVIOUS
<1>7. /\ file' = tmp.store /\ tmp' = NoFile /\ written' = x
      /\ UNCHANGED <<running, requests, faults, answered, harmed>>
  BY <1>1, <1>5, <1>6 DEF RenameTmp, Pending
<1>8. /\ x \in Seq(Updates) /\ \A n \in DOMAIN written : n \in DOMAIN x /\ x[n] = written[n]
      /\ \E n \in DOMAIN x : x[n] = u
      /\ \A n \in DOMAIN x : x[n] = u \/ \E k \in DOMAIN written : x[n] = written[k]
  <2>1. written \in Seq(Updates)
    BY DEF StoreInv, FilesFit
  <2>2. PICK size \in Nat : size = Len(written)
    BY <2>1
  <2>3. /\ DOMAIN written = 1 .. size /\ DOMAIN x = 1 .. size + 1 /\ x[size + 1] = u
        /\ \A n \in 1 .. size : x[n] = written[n]
    BY <1>6, <2>1, <2>2
  <2>4. x \in Seq(Updates)
    BY <1>6, <2>1
  <2>5. size + 1 \in 1 .. size + 1 /\ \A n \in 1 .. size + 1 : n \in 1 .. size \/ n = size + 1
    BY <2>2
  <2> QED BY <2>3, <2>4, <2>5
<1>9. PICK over : over = (c.next = length)
  OBVIOUS
<1>10. PICK at, next : /\ at = IF c.next = length THEN "answer" ELSE "read"
                       /\ next = IF c.next = length THEN c.next ELSE c.next + 1
  OBVIOUS
<1>11. PICK d : d = [c EXCEPT !.at = at, !.opened = "none", !.next = next, !.store = EmptyStore]
  OBVIOUS
<1>12. next \in 1 .. length /\ (at = "answer" => next = length) /\ at \in {"answer", "read"}
  BY <1>3, <1>4, <1>10
<1>13. /\ d \in CallRecords /\ d.at = at /\ d.store = EmptyStore /\ d.updates = c.updates
       /\ d.next = next /\ d.opened = "none"
  <2>1. next \in Nat \ {0} /\ at \in Places /\ EmptyStore \in Stores
    BY <1>12, IdleFits DEF Places, Sound
  <2> QED BY <1>11, <2>1 DEF CallRecords
<1>14. /\ DOMAIN call' = Servers /\ call' = [o \in Servers |-> call'[o]] /\ call'[s] = d
       /\ \A o \in Servers \ {s} :
             call'[o] = [call[o] EXCEPT !.opened = IF call[o].opened = "tmp" THEN "file" ELSE "none"]
  BY <1>1, <1>3, <1>10, <1>11 DEF RenameTmp
<1>15. CallFits(d, x)
  <2>1. \A m \in 1 .. length : m < c.next => \E n \in DOMAIN written : written[n] = c.updates[m]
    BY <1>2, <1>3 DEF CallFits
  <2>2. \A m \in 1 .. length : (m < next \/ at = "answer") => m < c.next \/ m = c.next
    BY <1>3, <1>4, <1>10
  <2>3. \A m \in 1 .. length : (m < next \/ at = "answer") => \E n \in DOMAIN x : x[n] = c.updates[m]
    BY <1>5, <1>8, <2>1, <2>2
  <2> QED BY <1>2, <1>3, <1>12, <1>13, <2>3, IdleFits DEF CallFits
<1>16. ASSUME NEW o \in Servers \ {s}
       PROVE  /\ call'[o] \in CallRecords /\ CallFits(call'[o], x)
              /\ call'[o].updates = call[o].updates /\ (call[o] = Idle => call'[o] = Idle)
  <2>1. PICK a \in CallRecords : a = call[o]
    BY DEF StoreInv, CallsFit
  <2>2. PICK opened \in {"none", "file"} : opened = IF a.opened = "tmp" THEN "file" ELSE "none"
    OBVIOUS
  <2>3. PICK b : b = [a EXCEPT !.opened = opened]
    OBVIOUS
  <2>4. call'[o] = b
    BY <1>14, <2>1, <2>2, <2>3
  <2>5. /\ b \in CallRecords /\ b.at = a.at /\ b.updates = a.updates /\ b.next = a.next
        /\ b.store = a.store /\ b.opened = opened
    BY <2>3 DEF CallRecords
  <2>6. a = Idle => b = Idle
    <3>1. ASSUME a = Idle PROVE b = Idle
      <4>1. opened = "none"
        BY <2>2, <3>1, IdleFits
      <4>2. a.opened = "none"
        BY <3>1, IdleFits
      <4>3. b = a
        BY <2>3, <4>1, <4>2 DEF CallRecords
      <4> QED BY <3>1, <4>3
    <3> QED BY <3>1
  <2>7. CallFits(a, x)
    BY <1>8, <2>1, CallFitsStays DEF StoreInv, CallsFit
  <2>8. CallFits(b, x)
    BY <2>5, <2>6, <2>7 DEF CallFits
  <2> QED BY <2>1, <2>4, <2>5, <2>6, <2>8
<1>17. CallsFit'
  <2>1. \A o \in Servers : call'[o] \in CallRecords /\ CallFits(call'[o], x)
    BY <1>13, <1>14, <1>15, <1>16
  <2>2. call' \in [Servers -> CallRecords]
    BY <1>14, <2>1
  <2> QED BY <1>7, <2>1, <2>2 DEF CallsFit, CallFits
<1>18. FilesFit'
  <2>1. NoFile \in [exists : BOOLEAN, store : Stores] /\ Sound(NoFile.store)
    BY IdleFits DEF NoFile, Sound
  <2> QED BY <1>7, <1>8, <2>1 DEF StoreInv, FilesFit
<1>19. AnswersFit'
  BY <1>7, <1>8, AnswersStay DEF StoreInv
<1>20. IdsFit'
  <2>1. u \in Issued
    BY <1>1, <1>3, <1>4, <1>5 DEF Issued
  <2>2. \A o \in Servers : call'[o].updates = call[o].updates
    BY <1>1, <1>13, <1>14, <1>16
  <2>3. Issued' \subseteq Issued
    BY <1>7, <1>8, <2>1, <2>2 DEF Issued
  <2> QED BY <1>7, <2>3, IdsStay DEF StoreInv
<1>21. ~harmed => file' = Apply(u, file) /\ \A o \in Servers \ {s} : call'[o] = Idle
  <2> SUFFICES ASSUME ~harmed
               PROVE  file' = Apply(u, file) /\ \A o \in Servers \ {s} : call'[o] = Idle
    OBVIOUS
  <2>1. (\A o \in Servers \ {s} : call[o] = Idle) /\ Calm(c, file, tmp)
    BY <1>1, <1>2, Alone
  <2>2. tmp = [exists |-> TRUE, store |-> c.store] /\ c.store = Apply(u, file)
    BY <1>2, <1>5, <2>1 DEF Calm
  <2> QED BY <1>7, <1>16, <2>1, <2>2
<1>22. Harmless'
  <2> SUFFICES ASSUME ~harmed'
               PROVE  /\ \A p, o \in Servers : call'[p] # Idle /\ call'[o] # Idle => p = o
                      /\ \A o \in Servers : Calm(call'[o], file', tmp')
                      /\ HistoryFits(written', file')
    BY DEF Harmless, HistoryFits, LastOf, DisplacedIn, PlacedIn, NewerIn, MaxOf, Calm, Idle, EmptyStore,
           Apply, Put, Without
  <2>1. ~harmed /\ Sound(file) /\ HistoryFits(written, file) /\ written \in Seq(Updates)
    BY <1>7 DEF StoreInv, FilesFit, Harmless
  <2>2. HistoryFits(x, Apply(u, file))
    BY <1>6, <2>1, HistoryGoesOn
  <2>3. HistoryFits(written', file')
    BY <1>7, <1>21, <2>1, <2>2
  <2>4. \A store, temporary : Calm(d, store, temporary)
    BY <1>12, <1>13 DEF Calm
  <2>5. \A o \in Servers : Calm(call'[o], file', tmp')
    BY <1>14, <1>21, <2>1, <2>4, IdleFits
  <2> QED BY <1>21, <2>1, <2>3, <2>5
<1> QED BY <1>6, <1>7, <1>17, <1>18, <1>19, <1>20, <1>21, <1>22 DEF StoreInv

\* Before the first request there is no file.
LEMMA StoreStarts ==
    ASSUME StoreInit PROVE StoreInv
<1>1. /\ file = EmptyStore /\ tmp = NoFile /\ call = [s \in Servers |-> Idle]
      /\ requests = 0 /\ faults = 0 /\ written = <<>> /\ answered = {} /\ harmed = FALSE
      /\ running \subseteq Servers
  BY DEF StoreInit
<1>2. FilesFit
  <2>1. NoFile \in [exists : BOOLEAN, store : Stores] /\ Sound(NoFile.store)
    BY IdleFits DEF NoFile, Sound
  <2>2. written \in Seq(Updates)
    BY <1>1
  <2>3. requests \in 0 .. MaxRequests /\ faults \in 0 .. MaxFaults
    BY <1>1, CapsAssumption
  <2>4. Sound(file) /\ Sound(tmp.store) /\ tmp \in [exists : BOOLEAN, store : Stores]
    BY <1>1, <2>1, IdleFits
  <2>5. running \subseteq Servers /\ harmed \in BOOLEAN
    BY <1>1
  <2> QED BY <2>2, <2>3, <2>4, <2>5 DEF FilesFit
<1>3. CallsFit
  BY <1>1, IdleFits DEF CallsFit
<1>4. AnswersFit
  BY <1>1 DEF AnswersFit
<1>5. IdsFit
  <2>1. Issued = {}
    <3>1. DOMAIN written = {} /\ \A s \in Servers : DOMAIN call[s].updates = {}
      BY <1>1, IdleFits
    <3> QED BY <3>1 DEF Issued
  <2> QED BY <2>1 DEF IdsFit, NewlyNamed
<1>6. Harmless
  <2>1. HistoryFits(written, file)
    <3>1. DOMAIN written = {} /\ DOMAIN file.activity = {}
      BY <1>1 DEF EmptyStore
    <3> QED BY <3>1 DEF HistoryFits
  <2> QED BY <1>1, <2>1, IdleFits DEF Harmless
<1> QED BY <1>2, <1>3, <1>4, <1>5, <1>6 DEF StoreInv

\* Every step keeps the invariant; only a rename replaces the file until something is harmed.
LEMMA StoreSteps ==
    ASSUME StoreInv, [StoreNext]_storeVars
    PROVE  /\ StoreInv'
           /\ ~harmed' => ~harmed /\ \/ file' = file
                                     \/ \E u \in Updates : file' = Apply(u, file)
<1>1. ASSUME NEW s \in Servers, NEW job \in {NoJob} \cup JobIds, PostEvent(s, job)
      PROVE  StoreInv' /\ file' = file /\ (~harmed' => ~harmed)
  BY <1>1, PostEventFits DEF PostEvent, Request
<1>2. ASSUME NEW s \in Servers, NEW id \in JobIds, PostJob(s, id)
      PROVE  StoreInv' /\ file' = file /\ (~harmed' => ~harmed)
  BY <1>2, PostJobFits DEF PostJob, Request
<1>3. ASSUME NEW s \in Servers, NEW readable \in BOOLEAN, ReadStore(s, readable)
      PROVE  StoreInv' /\ file' = file /\ (~harmed' => ~harmed)
  BY <1>3, ReadStoreFits DEF ReadStore
<1>4. ASSUME NEW s \in Servers, NEW torn \in BOOLEAN, WriteTmp(s, torn)
      PROVE  StoreInv' /\ (~harmed' => ~harmed /\ file' = file)
  <2>1. ASSUME ~harmed PROVE file' = file
    <3>1. call[s].at = "write"
      BY <1>4 DEF WriteTmp
    <3>2. call[s].opened # "file"
      BY <2>1 DEF StoreInv, Harmless, Calm
    <3> QED BY <1>4, <3>2 DEF WriteTmp
  <2> QED BY <1>4, <2>1, WriteTmpFits DEF WriteTmp
<1>5. ASSUME NEW s \in Servers, OpenTmp(s) \/ RenameFails(s) \/ Answer(s) \/ Restart(s)
      PROVE  StoreInv' /\ file' = file /\ (~harmed' => ~harmed)
  <2>1. StoreInv'
    BY <1>5, OpenTmpFits, EndsFit, AnswerFits
  <2>2. file' = file /\ harmed' = harmed
    BY <1>5 DEF OpenTmp, RenameFails, Answer, Restart
  <2> QED BY <2>1, <2>2
<1>6. ASSUME NEW s \in Servers, RenameTmp(s)
      PROVE  StoreInv' /\ (~harmed' => ~harmed /\ \E u \in Updates : file' = Apply(u, file))
  BY <1>6, RenameTmpFits
<1>7. CASE UNCHANGED storeVars
  <2>1. UNCHANGED <<running, file, tmp, call, requests, faults, written, answered, harmed>>
    BY <1>7 DEF storeVars
  <2>2. FilesFit' /\ CallsFit'
    <3>1. FilesFit'
      BY <2>1 DEF StoreInv, FilesFit
    <3>2. CallsFit'
      BY <2>1 DEF StoreInv, CallsFit, CallFits
    <3> QED BY <3>1, <3>2
  <2>3. AnswersFit'
    BY <2>1, AnswersStay DEF StoreInv
  <2>4. Issued' \subseteq Issued
    BY <2>1 DEF Issued
  <2>5. IdsFit'
    BY <2>1, <2>4, IdsStay DEF StoreInv
  <2>6. Harmless'
    <3> SUFFICES ASSUME ~harmed'
                 PROVE  /\ \A p, o \in Servers : call'[p] # Idle /\ call'[o] # Idle => p = o
                        /\ \A o \in Servers : Calm(call'[o], file', tmp')
                        /\ HistoryFits(written', file')
      BY DEF Harmless, HistoryFits, LastOf, DisplacedIn, PlacedIn, NewerIn, MaxOf, Calm, Idle, EmptyStore,
             Apply, Put, Without
    <3> QED BY <2>1 DEF StoreInv, Harmless
  <2>7. StoreInv'
    BY <2>2, <2>3, <2>5, <2>6 DEF StoreInv
  <2> QED BY <2>1, <2>7
<1> QED BY <1>1, <1>2, <1>3, <1>4, <1>5, <1>6, <1>7 DEF StoreNext, Step

\* The invariant is one.
LEMMA StoreAlways == StoreSpec => []StoreInv
<1>1. StoreInit => StoreInv
  BY StoreStarts
<1>2. StoreInv /\ [StoreNext]_storeVars => StoreInv'
  BY StoreSteps
<1> QED BY <1>1, <1>2, PTL DEF StoreSpec

-----------------------------------------------------------------------------
(***************************************************************************)
(* The theorems.                                                           *)
(***************************************************************************)
\* Of the file as it is, the module's own words mean what the invariant says.
LEMMA SameWords ==
    ASSUME NEW n \in DOMAIN written
    PROVE  Displaced(n) <=> DisplacedIn(written, n)
BY DEF Displaced, DisplacedIn, NewerIn

\* What the file holds of the n-th update, it lists.
LEMMA PlacedIsListed ==
    ASSUME NEW n \in DOMAIN written, PlacedIn(file, written, n)
    PROVE  Listed(written[n])
BY DEF PlacedIn, Listed

\* What a server answered for is listed until newer entries displace it.
THEOREM AnsweredStaysListed == StoreSpec => []AnsweredKept
<1>1. StoreInv => AnsweredKept
  <2> SUFFICES ASSUME StoreInv PROVE AnsweredKept
    OBVIOUS
  <2>1. StoreTypeOK
    <3>1. Sound(file) /\ file \in Stores
      BY DEF StoreInv, FilesFit, Sound
    <3>2. \A s \in Servers : call[s].store \in Stores
      BY DEF StoreInv, CallsFit, CallRecords
    <3> QED BY <3>1, <3>2 DEF StoreInv, FilesFit, Sound, StoreTypeOK
  <2>2. ASSUME ~harmed, NEW u \in answered
        PROVE  \E n \in DOMAIN written : written[n] = u /\ (Listed(u) \/ Displaced(n))
    <3>1. PICK n \in DOMAIN written : written[n] = u
      BY DEF StoreInv, AnswersFit
    <3>2. DisplacedIn(written, n) \/ PlacedIn(file, written, n)
      BY <2>2 DEF StoreInv, Harmless, HistoryFits
    <3>3. Displaced(n) \/ Listed(written[n])
      BY <3>2, SameWords, PlacedIsListed
    <3> QED BY <3>1, <3>3
  <2> QED BY <2>1, <2>2 DEF AnsweredKept
<1> QED BY <1>1, StoreAlways, PTL

\* A job a server answered for keeps the event that names it, until newer events displace that or
\* a client sends its id with another event: of each id the file holds the last event, and no
\* two events have an id that a server made up.
THEOREM AnsweredJobsAnnounced == StoreSpec => []JobsAnnounced
<1>1. StoreInv => JobsAnnounced
  <2> SUFFICES ASSUME StoreInv, ~harmed, NEW u \in answered, u.part = "jobs"
               PROVE  \E n \in DOMAIN written :
                         /\ written[n].part = "activity" /\ ~written[n].sent
                         /\ written[n].entry.job = u.entry.id
                         /\ \/ Displaced(n) \/ Replaced(n)
                            \/ \E k \in DOMAIN file.activity : file.activity[k] = written[n].entry
    BY DEF JobsAnnounced
  <2>1. PICK n \in DOMAIN written : Announces(written[n], u.entry.id)
    BY DEF StoreInv, AnswersFit
  <2>2. DisplacedIn(written, n) \/ PlacedIn(file, written, n)
    BY DEF StoreInv, Harmless, HistoryFits
  <2>3. CASE DisplacedIn(written, n)
    BY <2>1, <2>3, SameWords DEF Announces
  <2>4. CASE PlacedIn(file, written, n)
    <3>1. PICK k \in DOMAIN file.activity : file.activity[k].id = written[n].entry.id
      BY <2>1, <2>4 DEF PlacedIn, Announces
    <3>2. PICK m : LastOf(written, m, file.activity[k])
      BY DEF StoreInv, Harmless, HistoryFits
    <3>3. /\ m \in DOMAIN written /\ written[m].part = "activity" /\ written[m].entry = file.activity[k]
          /\ written[n].entry.id \notin NewerIn(written, m)
      BY <3>1, <3>2 DEF LastOf
    <3>4. written \in Seq(Updates) /\ DOMAIN written = 1 .. Len(written) /\ Len(written) \in Nat
      BY DEF StoreInv, FilesFit
    <3>5. ~(n > m)
      <4>1. ASSUME n > m PROVE n \in m + 1 .. Len(written) /\ written[n].part = written[m].part
        BY <2>1, <3>3, <3>4, <4>1 DEF Announces
      <4> QED BY <3>3, <4>1 DEF NewerIn
    <3>6. CASE written[m] = written[n]
      BY <2>1, <3>3, <3>6 DEF Announces
    <3>7. CASE written[m] # written[n] /\ written[m].sent
      <4>1. m \in n + 1 .. Len(written)
        BY <3>3, <3>4, <3>5, <3>7
      <4>2. Replaced(n)
        BY <2>1, <3>1, <3>3, <3>7, <4>1 DEF Replaced, Announces
      <4> QED BY <2>1, <4>2 DEF Announces
    <3>8. CASE written[m] # written[n] /\ ~written[m].sent
      <4>1. written[n] \in NewlyNamed /\ written[m] \in NewlyNamed
        BY <2>1, <3>3, <3>8 DEF NewlyNamed, Issued, Announces
      <4> QED BY <3>1, <3>3, <3>8, <4>1 DEF StoreInv, IdsFit
    <3> QED BY <3>6, <3>7, <3>8
  <2> QED BY <2>2, <2>3, <2>4
<1> QED BY <1>1, StoreAlways, PTL

\* The ids of the moved list are the moved ids.
LEMMA IdsMove ==
    ASSUME NEW S, NEW entries \in Seq(S), NEW entry, NEW max \in Nat \ {0}, NEW p,
           IsPlace(p, entries, entry.id), NEW old, old = IdsOf(entries), NEW after,
           after = IdsOf(Moved(entries, entry, max, p)), NEW longer,
           longer = IF p <= Len(old) THEN Len(old) ELSE Len(old) + 1
    PROVE  /\ p \in 1 .. Len(old) + 1
           /\ \A n \in 1 .. Len(old) : old[n] = entry.id <=> n = p
           /\ after = [n \in 1 .. (IF longer <= max THEN longer ELSE max) |->
                         IF n = 1 THEN entry.id ELSE IF n <= p THEN old[n - 1] ELSE old[n]]
<1>1. PICK size \in Nat : size = Len(entries) /\ DOMAIN entries = 1 .. size
  OBVIOUS
<1>2. PICK ids : ids = IdsOf(entries)
  OBVIOUS
<1>3. ids = [n \in 1 .. size |-> entries[n].id] /\ Len(ids) = size
  BY <1>1, <1>2 DEF IdsOf
<1>4. p \in 1 .. size + 1 /\ \A n \in 1 .. size : ids[n] = entry.id <=> n = p
  BY <1>1, <1>3 DEF IsPlace
<1>5. PICK length \in Nat : length = IF p <= size THEN size ELSE size + 1
  OBVIOUS
<1>6. PICK new \in Nat : new = IF length <= max THEN length ELSE max
  OBVIOUS
<1>7. PICK r : r = Moved(entries, entry, max, p)
  OBVIOUS
<1>8. r = [n \in 1 .. new |-> IF n = 1 THEN entry ELSE IF n <= p THEN entries[n - 1] ELSE entries[n]]
  BY <1>1, <1>5, <1>6, <1>7 DEF Moved
<1>9. ASSUME NEW n \in 1 .. new
      PROVE  r[n].id = IF n = 1 THEN entry.id ELSE IF n <= p THEN ids[n - 1] ELSE ids[n]
  <2>1. CASE n = 1
    BY <1>8, <2>1
  <2>2. CASE n # 1 /\ n <= p
    <3>1. n - 1 \in 1 .. size
      BY <1>4, <2>2
    <3>2. r[n] = entries[n - 1]
      BY <1>8, <2>2
    <3> QED BY <1>3, <2>2, <3>1, <3>2
  <2>3. CASE n # 1 /\ ~(n <= p)
    <3>1. n \in 1 .. size
      BY <1>4, <1>5, <1>6, <2>3
    <3>2. r[n] = entries[n]
      BY <1>8, <2>3
    <3> QED BY <1>3, <2>3, <3>1, <3>2
  <2> QED BY <2>1, <2>2, <2>3
<1>10. IdsOf(r) = [n \in 1 .. new |-> r[n].id]
  BY <1>8 DEF IdsOf
<1>11. IdsOf(r) = [n \in 1 .. new |-> IF n = 1 THEN entry.id ELSE IF n <= p THEN ids[n - 1] ELSE ids[n]]
  BY <1>9, <1>10
<1>12. old = ids /\ longer = length /\ after = IdsOf(r)
  BY <1>2, <1>3, <1>5, <1>7
<1> QED BY <1>3, <1>4, <1>6, <1>11, <1>12

\* An update is a Put of the log it is of, and leaves the other as it was.
LEMMA UpdateIsPut ==
    ASSUME Sound(file), NEW u \in Updates, file' = Apply(u, file)
    PROVE  [ActivityLog!Next]_(IdsOf(file.activity)) /\ [JobLog!Next]_(IdsOf(file.jobs))
<1>1. PICK p : /\ IsPlace(p, file[u.part], u.entry.id)
               /\ file'[u.part] = Moved(file[u.part], u.entry, MaxOf(u.part), p)
               /\ \A part \in {"activity", "jobs"} \ {u.part} : file'[part] = file[part]
  BY ApplyFacts
<1>2. MaxActivity \in Nat \ {0} /\ MaxJobs \in Nat \ {0}
  BY CapsAssumption
<1>3. file.activity \in Seq(ActivityEntries) /\ file.jobs \in Seq(JobEntries)
  BY DEF Sound, Stores, ActivityEntries, JobEntries
<1>4. CASE u.part = "activity"
  <2>1. u.entry.id \in Events /\ MaxOf(u.part) = MaxActivity
    BY <1>4 DEF Updates, ActivityEntries, MaxOf
  <2>2. IsPlace(p, file.activity, u.entry.id) /\ file'.activity = Moved(file.activity, u.entry, MaxActivity, p)
    BY <1>1, <1>4, <2>1
  <2>3. ActivityLog!Put(u.entry.id)
    <3>1. PICK l, r, ids, after : /\ l = file.activity /\ r = file'.activity
                                  /\ ids = IdsOf(l) /\ after = IdsOf(r)
      OBVIOUS
    <3>2. PICK length : length = IF p <= Len(ids) THEN Len(ids) ELSE Len(ids) + 1
      OBVIOUS
    <3>3. /\ p \in 1 .. Len(ids) + 1 /\ \A n \in 1 .. Len(ids) : ids[n] = u.entry.id <=> n = p
          /\ after = [n \in 1 .. (IF length <= MaxActivity THEN length ELSE MaxActivity) |->
                        IF n = 1 THEN u.entry.id ELSE IF n <= p THEN ids[n - 1] ELSE ids[n]]
      <4>1. PICK e, max : e = u.entry /\ max = MaxActivity
        OBVIOUS
      <4>2. l \in Seq(ActivityEntries) /\ IsPlace(p, l, e.id) /\ r = Moved(l, e, max, p)
        BY <1>3, <2>2, <3>1, <4>1
      <4>3. ids = IdsOf(l) /\ after = IdsOf(Moved(l, e, max, p)) /\ max \in Nat \ {0}
        BY <1>2, <3>1, <4>1, <4>2
      <4>4. /\ p \in 1 .. Len(ids) + 1 /\ \A n \in 1 .. Len(ids) : ids[n] = e.id <=> n = p
            /\ after = [n \in 1 .. (IF length <= max THEN length ELSE max) |->
                          IF n = 1 THEN e.id ELSE IF n <= p THEN ids[n - 1] ELSE ids[n]]
        BY <3>2, <4>2, <4>3, IdsMove
      <4> QED BY <4>1, <4>4
    <3>4. IdsOf(file.activity)' = after
      BY <3>1 DEF IdsOf
    <3> QED BY <3>1, <3>2, <3>3, <3>4 DEF ActivityLog!Put
  <2>4. file'.jobs = file.jobs
    BY <1>1, <1>4
  <2> QED BY <2>1, <2>3, <2>4 DEF ActivityLog!Next, IdsOf
<1>5. CASE u.part = "jobs"
  <2>1. u.entry.id \in JobIds /\ MaxOf(u.part) = MaxJobs
    BY <1>5 DEF Updates, JobEntries, MaxOf
  <2>2. IsPlace(p, file.jobs, u.entry.id) /\ file'.jobs = Moved(file.jobs, u.entry, MaxJobs, p)
    BY <1>1, <1>5, <2>1
  <2>3. JobLog!Put(u.entry.id)
    <3>1. PICK l, r, ids, after : /\ l = file.jobs /\ r = file'.jobs
                                  /\ ids = IdsOf(l) /\ after = IdsOf(r)
      OBVIOUS
    <3>2. PICK length : length = IF p <= Len(ids) THEN Len(ids) ELSE Len(ids) + 1
      OBVIOUS
    <3>3. /\ p \in 1 .. Len(ids) + 1 /\ \A n \in 1 .. Len(ids) : ids[n] = u.entry.id <=> n = p
          /\ after = [n \in 1 .. (IF length <= MaxJobs THEN length ELSE MaxJobs) |->
                        IF n = 1 THEN u.entry.id ELSE IF n <= p THEN ids[n - 1] ELSE ids[n]]
      <4>1. PICK e, max : e = u.entry /\ max = MaxJobs
        OBVIOUS
      <4>2. l \in Seq(JobEntries) /\ IsPlace(p, l, e.id) /\ r = Moved(l, e, max, p)
        BY <1>3, <2>2, <3>1, <4>1
      <4>3. ids = IdsOf(l) /\ after = IdsOf(Moved(l, e, max, p)) /\ max \in Nat \ {0}
        BY <1>2, <3>1, <4>1, <4>2
      <4>4. /\ p \in 1 .. Len(ids) + 1 /\ \A n \in 1 .. Len(ids) : ids[n] = e.id <=> n = p
            /\ after = [n \in 1 .. (IF length <= max THEN length ELSE max) |->
                          IF n = 1 THEN e.id ELSE IF n <= p THEN ids[n - 1] ELSE ids[n]]
        BY <3>2, <4>2, <4>3, IdsMove
      <4> QED BY <4>1, <4>4
    <3>4. IdsOf(file.jobs)' = after
      BY <3>1 DEF IdsOf
    <3> QED BY <3>1, <3>2, <3>3, <3>4 DEF JobLog!Put
  <2>4. file'.activity = file.activity
    BY <1>1, <1>5
  <2> QED BY <2>1, <2>3, <2>4 DEF JobLog!Next, IdsOf
<1> QED BY <1>4, <1>5 DEF Updates

\* Each part of the file implements a capped log of the newest ids, until something is harmed.
THEOREM PartsAreLogs == StoreSpec => PartsAreRecentLogs
<1>1. StoreInit => ActivityLog!Init /\ JobLog!Init
  <2> SUFFICES ASSUME StoreInit PROVE ActivityLog!Init /\ JobLog!Init
    OBVIOUS
  <2>1. file.activity = <<>> /\ file.jobs = <<>>
    BY DEF StoreInit, EmptyStore
  <2>2. IdsOf(<<>>) = <<>>
    BY DEF IdsOf
  <2> QED BY <2>1, <2>2 DEF ActivityLog!Init, JobLog!Init
<1>2. ASSUME StoreInv, [StoreNext]_storeVars
      PROVE  /\ [~harmed' => ActivityLog!Next]_(IdsOf(file.activity))
             /\ [~harmed' => JobLog!Next]_(IdsOf(file.jobs))
  <2>1. CASE harmed'
    BY <2>1
  <2>2. CASE ~harmed' /\ file' = file
    BY <2>2 DEF IdsOf
  <2>3. CASE ~harmed' /\ \E u \in Updates : file' = Apply(u, file)
    <3>1. PICK u \in Updates : file' = Apply(u, file)
      BY <2>3
    <3>2. Sound(file)
      BY <1>2 DEF StoreInv, FilesFit
    <3>3. [ActivityLog!Next]_(IdsOf(file.activity)) /\ [JobLog!Next]_(IdsOf(file.jobs))
      BY <3>1, <3>2, UpdateIsPut
    <3> QED BY <3>3
  <2> QED BY <1>2, <2>1, <2>2, <2>3, StoreSteps
<1>3. StoreSpec => [][~harmed' => ActivityLog!Next]_(IdsOf(file.activity))
  BY <1>2, StoreAlways, PTL DEF StoreSpec
<1>4. StoreSpec => [][~harmed' => JobLog!Next]_(IdsOf(file.jobs))
  BY <1>2, StoreAlways, PTL DEF StoreSpec
<1> QED BY <1>1, <1>3, <1>4 DEF StoreSpec, PartsAreRecentLogs
=============================================================================
