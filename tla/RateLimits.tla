----------------------------- MODULE RateLimits -----------------------------
(***************************************************************************)
(* The limiters of infra/memoryRateLimit.ts, middleware/auth.ts and        *)
(* routes/activity.ts, each for one key, which decide in one synchronous   *)
(* call and forget with the process; and infra/rateLimitDistributed.ts,    *)
(* which asks Redis, in one or two requests, about buckets of many keys.   *)
(***************************************************************************)
EXTENDS ServerCalls

CONSTANTS
    Limit,     \* requests per window
    Window,    \* length of a window
    MaxTime    \* bound: instants

ASSUME WindowAssumption == Limit \in Nat \ {0} /\ Window \in Nat \ {0} /\ MaxTime \in Nat

\* Routes that write are allowed half, which is something.
ASSUME HalfAssumption == Limit \div 2 > 0

VARIABLES
    now,
    limiting,   \* Redis is configured; it is not; it is not, but is required
    memory,     \* checkMemoryRateLimit: the entry of the key
    perKey,     \* rateLimit: the record of the API key
    recent,     \* limit: the arrivals whose times are kept for the address
    redis,      \* the buckets that exist: count, and when they expire
    life,       \* how often the process has been started
    arrivals    \* history: the requests limited

limitVars == <<now, limiting, memory, perKey, recent, redis, life, arrivals>>

Never == MaxTime + 1     \* no EXPIRE has been sent
NoEntry == [count |-> 0, resetAt |-> -1]

LimitsInit ==
    /\ now = 0 /\ limiting \in {"distributed", "local", "required"}
    /\ memory = NoEntry /\ perKey = NoEntry /\ recent = {}
    /\ redis = <<>> /\ life = 1 /\ arrivals = <<>>

\* The limiters of the process are modelled for one key.
Arrival(limiter, key, answer) ==
    arrivals' = Append(arrivals, [limiter |-> limiter, key |-> key, at |-> now, decided |-> now,
                                  life |-> life, answer |-> answer])

Answer(allowed) == IF allowed THEN "allowed" ELSE "refused"

-----------------------------------------------------------------------------
\* checkMemoryRateLimit: refused requests count.
MemoryEntry == IF memory.resetAt <= now THEN [count |-> 0, resetAt |-> now + Window] ELSE memory

MemoryAllows == MemoryEntry.count + 1 <= Limit

CountMemory ==
    /\ limiting = "local"
    /\ memory' = [MemoryEntry EXCEPT !.count = @ + 1]
    /\ Arrival("memory", <<>>, Answer(MemoryAllows))
    /\ UNCHANGED <<now, limiting, perKey, recent, redis, life>>

\* Mutant: an off-by-one in the comparison with the limit.
PerKeyFullLate == perKey.count > Limit
PerKeyFull == perKey.count >= Limit

\* rateLimit: the window is over once resetAt has passed; refused requests do not count.
CountPerKey ==
    LET over == now > perKey.resetAt IN
    /\ perKey' = CASE over -> [count |-> 1, resetAt |-> now + Window]
                   [] ~over /\ PerKeyFull -> perKey
                   [] OTHER -> [perKey EXCEPT !.count = @ + 1]
    /\ Arrival("perKey", <<>>, Answer(over \/ ~PerKeyFull))
    /\ UNCHANGED <<now, limiting, memory, recent, redis, life>>

\* limit of routes/activity.ts: at most max requests among those of the last Window.  Routes that
\* write have half the max of routes that read, of the same list.
CountRecent ==
    \E max \in {Limit, Limit \div 2} :
    LET kept == {n \in recent : now - arrivals[n].at < Window}
        allowed == Cardinality(kept) < max IN
    /\ recent' = IF allowed THEN kept \cup {Len(arrivals) + 1} ELSE recent
    /\ Arrival("recent", <<>>, Answer(allowed))
    /\ UNCHANGED <<now, limiting, memory, perKey, redis, life>>

-----------------------------------------------------------------------------
\* A call that is limited under a key, and goes on at label then if it is allowed.
AskRedis(c, key, then, r) ==
    /\ limiting = "distributed"
    /\ Enter(c, "incr", With(r, [key |-> key, then |-> then, nth |-> Len(arrivals) + 1]))
    /\ Arrival("redis", key, "pending")
    /\ UNCHANGED <<now, limiting, memory, perKey, recent, redis, life>>

AskedAt(c) == arrivals[req[c].nth].at

\* The Window instants a bucket is named by.
Slot(time) == time \div Window

\* Mutant: the name of a bucket does not hold the window.
BucketWithoutWindow(c) == <<req[c].key, 0>>
Bucket(c) == <<req[c].key, Slot(AskedAt(c))>>

Decide(c, answer) ==
    arrivals' = [arrivals EXCEPT ![req[c].nth].decided = now, ![req[c].nth].answer = answer]

\* Refused requests end with 429; those of Ping end here in any case.
Proceed(c, allowed) ==
    /\ Decide(c, Answer(allowed))
    /\ IF allowed /\ req[c].then # "idle" THEN Goto(c, req[c].then) ELSE Finish(c)

\* INCR, and the decision unless it has made the bucket.
Incr(c) ==
    LET b == Bucket(c)
        old == IF b \in DOMAIN redis THEN redis[b] ELSE [count |-> 0, expires |-> Never] IN
    /\ At(c, "incr")
    /\ redis' = With(redis, [x \in {b} |-> [old EXCEPT !.count = @ + 1]])
    /\ IF old.count = 0
       THEN Goto(c, "expire") /\ UNCHANGED arrivals
       ELSE Proceed(c, old.count + 1 <= Limit)
    /\ UNCHANGED <<now, limiting, memory, perKey, recent, life>>

\* INCR is answered by an error: the code takes the count for 1.
IncrUncounted(c) ==
    /\ At(c, "incr") /\ Failing
    /\ pc' = [pc EXCEPT ![c] = "expire"]
    /\ UNCHANGED <<req, left>> /\ UNCHANGED limitVars

\* EXPIRE; a bucket that is gone meanwhile stays so.
Expire(c) ==
    LET b == Bucket(c) IN
    /\ At(c, "expire")
    /\ redis' = IF b \in DOMAIN redis THEN [redis EXCEPT ![b].expires = now + Window] ELSE redis
    /\ Proceed(c, TRUE)
    /\ UNCHANGED <<now, limiting, memory, perKey, recent, life>>

\* Redis cannot be reached: refused, and without EXPIRE the bucket stays for ever.
LimiterFails(c) ==
    /\ pc[c] \in {"incr", "expire"}
    /\ Fail(c)
    /\ Decide(c, "down")
    /\ UNCHANGED <<now, limiting, memory, perKey, recent, redis, life>>

Tick ==
    /\ now < MaxTime /\ AtOnce("tick")
    /\ now' = now + 1
    /\ redis' = [b \in {x \in DOMAIN redis : redis[x].expires > now'} |-> redis[b]]
    /\ UNCHANGED <<limiting, memory, perKey, recent, life, arrivals>>

\* What the process kept in memory is gone.
Forget ==
    /\ memory' = NoEntry /\ perKey' = NoEntry /\ recent' = {}
    /\ life' = life + 1
    /\ UNCHANGED <<now, limiting, redis, arrivals>>

\* A request to a route that only reads: the limiter decides, and that is all.
Ping(c) ==
    \/ AtOnce("memory") /\ CountMemory
    \/ AtOnce("perKey") /\ CountPerKey
    \/ AtOnce("recent") /\ CountRecent
    \/ AskRedis(c, <<"read">>, "idle", [op |-> "redis"])

LimitsNext ==
    \/ \E c \in Calls : Ping(c) \/ Incr(c) \/ IncrUncounted(c) \/ Expire(c) \/ LimiterFails(c)
    \/ Tick

LimitsTypeOK ==
    /\ now \in 0 .. MaxTime
    /\ memory.count \in Nat /\ perKey.count \in 0 .. Limit /\ Cardinality(recent) <= Limit
    /\ \A b \in DOMAIN redis : redis[b].count \in Nat \ {0}

-----------------------------------------------------------------------------
Same(m, n) ==
    /\ arrivals[m].limiter = arrivals[n].limiter /\ arrivals[m].key = arrivals[n].key
    /\ arrivals[n].limiter # "redis" => arrivals[m].life = arrivals[n].life

\* Requests of the Window instants after n arrived that its limiter has let through.  A bucket
\* lives through its slot: a request decided later may be counted in one that has expired.
Within(n) ==
    {m \in DOMAIN arrivals :
        /\ Same(m, n) /\ arrivals[m].answer = "allowed"
        /\ arrivals[m].at \in arrivals[n].at .. arrivals[n].at + Window - 1
        /\ Slot(arrivals[m].decided) = Slot(arrivals[m].at)}

\* "Maximum requests per window": among the requests of any Window instants that one process
\* answers, a limiter allows Limit if its window slides, and less than two windows' worth if
\* windows start with a request.  Redis allows, for all processes and within the slot, two,
\* but for requests it has answered with an error.
WindowBound ==
    \A n \in DOMAIN arrivals :
        Cardinality(Within(n)) <= CASE arrivals[n].limiter = "recent" -> Limit
                                    [] arrivals[n].limiter = "redis" -> 2 * Limit + failures
                                    [] OTHER -> 2 * Limit - 1

\* "Too many requests": a request is refused only for others within a window of it, in auth.ts
\* one instant more, whatever had been refused, lost or left without EXPIRE before.
WaitingHelps ==
    \A n \in DOMAIN arrivals : arrivals[n].answer = "refused" =>
        LET span == IF arrivals[n].limiter = "perKey" THEN Window ELSE Window - 1 IN
        \E m \in DOMAIN arrivals \ {n} :
            Same(m, n) /\ arrivals[n].at - arrivals[m].at \in -span .. span
=============================================================================
