------------------------ MODULE TenantAccess_proofs ------------------------
(***************************************************************************)
(* Proofs about TenantAccess, for any calls, connections, users, budgets   *)
(* and deployments, and any limit and window.                              *)
(***************************************************************************)
EXTENDS TenantAccess, FiniteSetTheorems, TLAPS

\* The tables and the history are lists, of whatever.
IsList(s) == \E S : s \in Seq(S)

\* The labels at which a call holds a connection, and those at which it has been authenticated.
Holding == {"bootstrap", "transaction"}
Known == {"tenant", "transaction", "credential", "revoke"}
Asking == {"incr", "expire"}
Labels == {"idle", "organization", "event"} \cup Holding \cup Known \cup Asking

\* What a request has when its call waits at label l.
Fits(r, l) ==
    /\ l \in Labels
    /\ l \in {"organization", "bootstrap"} \cup Known => "op" \in DOMAIN r
    /\ l \in Known => {"org", "target"} \subseteq DOMAIN r /\ r.org \in DOMAIN orgs
    /\ l = "event" \/ (l = "credential" /\ r.op = "signup") => r.deed \in DOMAIN deeds

\* A limited call goes on at a label where it has what it needs, and needs no connection yet.
Waits(r) ==
    /\ r.then \notin Holding \cup Asking \cup {"event"} /\ Fits(r, r.then)
    /\ r.then = "credential" => r.op # "signup"

Ready(c) == Fits(req[c], pc[c]) /\ (pc[c] \in Asking => Waits(req[c]))

Requests ==
    /\ DOMAIN pc = Calls /\ DOMAIN req = Calls
    /\ \A c \in Calls : Ready(c)

\* The limiters: what LimitsTypeOK needs.
Limiters ==
    /\ LimitsTypeOK
    /\ memory \in [count : Nat, resetAt : Int] /\ perKey \in [count : 0 .. Limit, resetAt : Int]
    /\ IsFiniteSet(recent)
    /\ \A b \in DOMAIN redis : redis[b].count \in Nat \ {0}
    /\ \A b \in DOMAIN redis : {"count", "expires"} = DOMAIN redis[b]

Tables ==
    /\ IsList(orgs) /\ IsList(projects) /\ IsList(creds) /\ IsList(deeds)
    /\ \A o \in DOMAIN orgs : DOMAIN orgs[o] = {"active", "signup"}
    /\ \A m \in members : DOMAIN m = {"org", "user", "role", "active"} /\ m.org \in DOMAIN orgs
    /\ \A n \in DOMAIN creds : DOMAIN creds[n] = {"org", "scopes", "active"} /\ creds[n].org \in DOMAIN orgs
    /\ \A p \in DOMAIN projects : projects[p] \in DOMAIN orgs
    /\ audit \subseteq DOMAIN deeds

\* A connection that is out belongs to one call with a transaction open, which has no other.
Held(k) ==
    LET conn == conns[k] IN
    /\ conn.call \in Calls /\ pc[conn.call] \in Holding
    /\ IF pc[conn.call] = "bootstrap" THEN conn.bootstrap
       ELSE conn.org = req[conn.call].org /\ ~conn.bootstrap

Pool ==
    /\ DOMAIN conns = Conns
    /\ \A k \in Conns : IF Free(k) THEN conns[k] = Blank ELSE Held(k)
    /\ \A c \in Calls : pc[c] \in Holding => \E k \in Conns : conns[k].call = c
    /\ \A j, k \in Conns : conns[j].call = conns[k].call /\ ~Free(j) => j = k

\* The joint invariant.
AccessInv == Limiters /\ Tables /\ Requests /\ Pool

\* What calls under way still owe: a key for the organization, an event for the deed.
Keying == {c \in Calls : pc[c] = "credential" /\ req[c].op = "signup"}
Telling == {c \in Calls : pc[c] = "event" \/ (pc[c] = "credential" /\ req[c].op = "signup")}
Keyed == {creds[n].org : n \in DOMAIN creds}
Keyless == {o \in DOMAIN orgs \ Keyed : orgs[o].signup}
KeysOwed == {req[c].org : c \in Keying}
EventsOwed == {req[c].deed : c \in Telling}

Unkeyed == Keyless \ KeysOwed
Untold == (DOMAIN deeds \ audit) \ EventsOwed

\* Only failures and restarts lose what is owed.
Losses ==
    /\ failures \in Nat /\ life \in Nat \ {0}
    /\ enforced \/ /\ Cardinality(Unkeyed) <= failures + Interrupted
                   /\ Cardinality(Untold) <= failures + Interrupted

-----------------------------------------------------------------------------
\* A list with one more element.
LEMMA Appended ==
    ASSUME NEW s, IsList(s), NEW e
    PROVE  /\ IsList(Append(s, e))
           /\ DOMAIN Append(s, e) = DOMAIN s \cup {Len(s) + 1} /\ Len(s) + 1 \notin DOMAIN s
           /\ \A k \in DOMAIN s : Append(s, e)[k] = s[k]
           /\ Append(s, e)[Len(s) + 1] = e
<1>1. PICK S : s \in Seq(S)
  BY DEF IsList
<1>2. Append(s, e) \in Seq(S \cup {e})
  BY <1>1
<1>3. IsList(Append(s, e))
  BY <1>2 DEF IsList
<1> QED BY <1>1, <1>3

\* A list with one element changed.
LEMMA Changed ==
    ASSUME NEW s, IsList(s), NEW k \in DOMAIN s, NEW x
    PROVE  /\ IsList([s EXCEPT ![k] = x]) /\ DOMAIN [s EXCEPT ![k] = x] = DOMAIN s
           /\ [s EXCEPT ![k] = x][k] = x
           /\ \A j \in DOMAIN s \ {k} : [s EXCEPT ![k] = x][j] = s[j]
<1>1. PICK S : s \in Seq(S)
  BY DEF IsList
<1>2. s \in Seq(S \cup {x})
  BY <1>1
<1>3. [s EXCEPT ![k] = x] \in Seq(S \cup {x})
  BY <1>2
<1>4. IsList([s EXCEPT ![k] = x])
  BY <1>3 DEF IsList
<1> QED BY <1>1, <1>4

\* The indices of a list.
LEMMA Indices ==
    ASSUME NEW s, IsList(s)
    PROVE  Len(s) \in Nat /\ DOMAIN s = 1 .. Len(s)
  BY DEF IsList

\* Organizations and deeds are never fewer.
Grow == DOMAIN orgs \subseteq DOMAIN orgs' /\ DOMAIN deeds \subseteq DOMAIN deeds'

\* What a request has, it keeps.
LEMMA FitsStays ==
    ASSUME NEW r, NEW l, Fits(r, l), Grow
    PROVE  Fits(r, l)'
  BY DEF Fits, Grow

\* And so does one that waits for Redis.
LEMMA WaitsStays ==
    ASSUME NEW r, Waits(r), Grow
    PROVE  Waits(r)'
  BY FitsStays DEF Waits

\* A call that stays where it is, or all of them.
LEMMA ReadyStays ==
    ASSUME NEW c, Ready(c), Grow, pc'[c] = pc[c], req'[c] = req[c]
    PROVE  Ready(c)'
<1>1. Fits(req[c], pc[c])' /\ (pc'[c] \in Asking => Waits(req[c])')
  BY FitsStays, WaitsStays DEF Ready
<1> QED BY <1>1 DEF Ready

\* At most one call moves.
Alone(c) ==
    /\ DOMAIN pc' = Calls /\ DOMAIN req' = Calls
    /\ \A d \in Calls \ {c} : pc'[d] = pc[d] /\ req'[d] = req[d]

\* The other calls keep what they have.
LEMMA RequestsKept ==
    ASSUME Requests, Grow, NEW c \in Calls, Ready(c)', Alone(c)
    PROVE  Requests'
<1>1. ASSUME NEW d \in Calls PROVE Ready(d)'
  <2>1. CASE d # c
    BY <2>1, ReadyStays DEF Requests, Alone
  <2> QED BY <2>1
<1> QED BY <1>1 DEF Requests, Alone

\* No call moves.
LEMMA RequestsStay ==
    ASSUME Requests, Grow, UNCHANGED <<pc, req>>
    PROVE  Requests'
  BY ReadyStays DEF Requests

\* Every request fits the label idle.
LEMMA IdleFits == \A r : Fits(r, "idle")' /\ Fits(r, "idle") /\ "idle" \notin Asking \cup Holding
  BY DEF Fits, Labels, Holding, Known, Asking

-----------------------------------------------------------------------------
\* Steps that leave the connections alone: no call comes to hold one, none leaves its own.
LEMMA PoolStays ==
    ASSUME Pool, UNCHANGED conns,
           \A c \in Calls : pc[c] \in Holding \/ pc'[c] \in Holding =>
               pc'[c] = pc[c] /\ req'[c].org = req[c].org
    PROVE  Pool'
  BY DEF Pool, Held, Free, At

\* A call takes a free connection.
LEMMA PoolTaken ==
    ASSUME Pool, NEW c \in Calls, NEW k \in Conns, Free(k), NEW l \in Holding, NEW org, NEW bootstrap,
           DOMAIN pc = Calls, pc[c] \notin Holding, UNCHANGED req,
           Take(c, k, org, bootstrap), pc' = [pc EXCEPT ![c] = l],
           IF l = "bootstrap" THEN bootstrap ELSE org = req[c].org /\ ~bootstrap
    PROVE  Pool'
<1>1. c # NoCall
  BY ConnsAssumption
<1>2. /\ conns'[k] = [call |-> c, org |-> org, bootstrap |-> bootstrap]
      /\ \A j \in Conns \ {k} : conns'[j] = conns[j]
      /\ DOMAIN conns' = Conns
  BY DEF Pool, Take
<1>3. pc'[c] = l /\ \A d \in Calls \ {c} : pc'[d] = pc[d]
  OBVIOUS
<1>4. \A j \in Conns : conns[j].call # c
  BY <1>1 DEF Pool, Held, Free
<1>5. ASSUME NEW j \in Conns PROVE (IF Free(j) THEN conns[j] = Blank ELSE Held(j))'
  <2>1. CASE j = k
    BY <1>1, <1>2, <1>3, <2>1 DEF Free, Held
  <2>2. CASE j # k
    <3>1. conns'[j] = conns[j] /\ conns[j].call # c
      BY <1>2, <1>4, <2>2
    <3>2. CASE Free(j)
      BY <3>1, <3>2 DEF Pool, Free, Blank
    <3>3. CASE ~Free(j)
      <4>1. Held(j)
        BY <3>3 DEF Pool
      <4>2. pc'[conns[j].call] = pc[conns[j].call]
        BY <3>1, <4>1, <1>3 DEF Held
      <4> QED BY <3>1, <3>3, <4>1, <4>2 DEF Held, Free
    <3> QED BY <3>2, <3>3
  <2> QED BY <2>1, <2>2
<1>6. (\A d \in Calls : pc[d] \in Holding => \E j \in Conns : conns[j].call = d)'
  <2> SUFFICES ASSUME NEW d \in Calls, pc'[d] \in Holding
               PROVE  \E j \in Conns : conns'[j].call = d
    OBVIOUS
  <2>1. CASE d = c
    BY <1>2, <2>1
  <2>2. CASE d # c
    <3>1. PICK j \in Conns : conns[j].call = d
      BY <1>3, <2>2 DEF Pool
    <3>2. j # k
      BY <3>1, ConnsAssumption DEF Free
    <3> QED BY <1>2, <3>1, <3>2
  <2> QED BY <2>1, <2>2
<1>7. (\A i, j \in Conns : conns[i].call = conns[j].call /\ ~Free(i) => i = j)'
  BY <1>1, <1>2, <1>4 DEF Pool, Free
<1> QED BY <1>2, <1>5, <1>6, <1>7 DEF Pool

\* A call gives back what it holds, if anything.
LEMMA PoolReleased ==
    ASSUME Pool, NEW c \in Calls, Release(c),
           pc'[c] \notin Holding, \A d \in Calls \ {c} : pc'[d] = pc[d] /\ req'[d] = req[d]
    PROVE  Pool'
<1>1. c # NoCall /\ Blank.call = NoCall
  BY ConnsAssumption DEF Blank
<1>2. /\ DOMAIN conns' = Conns
      /\ \A k \in Conns : conns'[k] = IF conns[k].call = c THEN Blank ELSE conns[k]
  BY DEF Release, AfterTransaction
<1>3. ASSUME NEW k \in Conns PROVE (IF Free(k) THEN conns[k] = Blank ELSE Held(k))'
  <2>1. CASE conns[k].call = c
    BY <1>1, <1>2, <2>1 DEF Free, Blank
  <2>2. CASE conns[k].call # c
    <3>1. conns'[k] = conns[k]
      BY <1>2, <2>2
    <3>2. CASE Free(k)
      BY <3>1, <3>2 DEF Pool, Free, Blank
    <3>3. CASE ~Free(k)
      <4>1. Held(k)
        BY <3>3 DEF Pool
      <4>2. pc'[conns[k].call] = pc[conns[k].call] /\ req'[conns[k].call] = req[conns[k].call]
        BY <2>2, <4>1 DEF Held
      <4> QED BY <3>1, <3>3, <4>1, <4>2 DEF Held, Free
    <3> QED BY <3>2, <3>3
  <2> QED BY <2>1, <2>2
<1>4. (\A d \in Calls : pc[d] \in Holding => \E k \in Conns : conns[k].call = d)'
  <2> SUFFICES ASSUME NEW d \in Calls, pc'[d] \in Holding
               PROVE  \E k \in Conns : conns'[k].call = d
    OBVIOUS
  <2>1. d # c /\ pc[d] \in Holding
    OBVIOUS
  <2>2. PICK k \in Conns : conns[k].call = d
    BY <2>1 DEF Pool
  <2> QED BY <1>2, <2>1, <2>2
<1>5. (\A j, k \in Conns : conns[j].call = conns[k].call /\ ~Free(j) => j = k)'
  BY <1>1, <1>2 DEF Pool, Free
<1> QED BY <1>2, <1>3, <1>4, <1>5 DEF Pool

-----------------------------------------------------------------------------
\* The limiters that decide in one step.
LEMMA MemoryKeeps ==
    ASSUME Limiters, CountMemory PROVE Limiters'
<1>1. MemoryEntry \in [count : Nat, resetAt : Int]
  BY WindowAssumption DEF Limiters, LimitsTypeOK, MemoryEntry
<1>2. memory' \in [count : Nat, resetAt : Int]
  BY <1>1 DEF CountMemory
<1> QED BY <1>2 DEF Limiters, LimitsTypeOK, CountMemory

\* The limiter of API keys: its window starts anew, it is full, or it counts.
LEMMA PerKeyKeeps ==
    ASSUME Limiters, CountPerKey PROVE Limiters'
<1> DEFINE over == now > perKey.resetAt
<1>1. perKey \in [count : 0 .. Limit, resetAt : Int] /\ Limit \in Nat \ {0} /\ now \in Int /\ Window \in Nat
  BY WindowAssumption DEF Limiters, LimitsTypeOK
<1>2. CASE over
  <2>1. perKey' = [count |-> 1, resetAt |-> now + Window]
    BY <1>2 DEF CountPerKey
  <2>2. perKey' \in [count : 0 .. Limit, resetAt : Int]
    BY <2>1, <1>1
  <2> QED BY <2>2 DEF Limiters, LimitsTypeOK, CountPerKey
<1>3. CASE ~over /\ PerKeyFull
  <2>1. perKey' = perKey
    BY <1>3 DEF CountPerKey
  <2> QED BY <2>1 DEF Limiters, LimitsTypeOK, CountPerKey
<1>4. CASE ~over /\ ~PerKeyFull
  <2>1. perKey' = [perKey EXCEPT !.count = @ + 1]
    BY <1>4 DEF CountPerKey
  <2>2. perKey' \in [count : 0 .. Limit, resetAt : Int]
    BY <2>1, <1>1, <1>4 DEF PerKeyFull
  <2> QED BY <2>2 DEF Limiters, LimitsTypeOK, CountPerKey
<1> QED BY <1>2, <1>3, <1>4

\* The limiter of addresses: it keeps the arrivals of a window, and one more if there is room.
LEMMA RecentKeeps ==
    ASSUME Limiters, CountRecent PROVE Limiters'
<1>1. PICK max \in {Limit, Limit \div 2} :
        LET kept == {n \in recent : now - arrivals[n].at < Window}
            allowed == Cardinality(kept) < max IN
        recent' = IF allowed THEN kept \cup {Len(arrivals) + 1} ELSE recent
  BY DEF CountRecent
<1> DEFINE kept == {n \in recent : now - arrivals[n].at < Window}
<1>2. max \in Nat /\ max <= Limit
  BY WindowAssumption
<1>3. IsFiniteSet(kept) /\ Cardinality(kept) \in Nat
  BY FS_Subset, FS_CardinalityType DEF Limiters
<1>4. IsFiniteSet(recent') /\ Cardinality(recent') <= Limit
  <2>1. CASE Cardinality(kept) < max
    <3>1. recent' = kept \cup {Len(arrivals) + 1}
      BY <1>1, <2>1
    <3>2. IsFiniteSet(recent') /\ Cardinality(recent') \in {Cardinality(kept), Cardinality(kept) + 1}
      <4> HIDE DEF kept
      <4> QED BY <1>3, <3>1, FS_AddElement
    <3> QED BY <1>2, <1>3, <2>1, <3>2, WindowAssumption
  <2>2. CASE ~(Cardinality(kept) < max)
    BY <1>1, <2>2 DEF Limiters, LimitsTypeOK
  <2> QED BY <2>1, <2>2
<1> QED BY <1>4 DEF Limiters, LimitsTypeOK, CountRecent

\* Redis: INCR, EXPIRE, and what expires.
LEMMA IncrKeeps ==
    ASSUME Limiters, NEW c \in Calls, Incr(c) PROVE Limiters'
<1> DEFINE b == Bucket(c)
           old == IF b \in DOMAIN redis THEN redis[b] ELSE [count |-> 0, expires |-> Never]
           one == [x \in {b} |-> [old EXCEPT !.count = @ + 1]]
<1>1. redis' = With(redis, one)
  BY DEF Incr
<1>2. old.count \in Nat /\ DOMAIN old = {"count", "expires"}
  BY DEF Limiters
<1>3. one[b].count \in Nat \ {0} /\ DOMAIN one[b] = {"count", "expires"} /\ DOMAIN one = {b}
  BY <1>2
<1>4. \A x \in DOMAIN redis' : redis'[x].count \in Nat \ {0} /\ DOMAIN redis'[x] = {"count", "expires"}
  <2> HIDE DEF one, old, b
  <2> SUFFICES ASSUME NEW x \in DOMAIN redis'
               PROVE  redis'[x].count \in Nat \ {0} /\ DOMAIN redis'[x] = {"count", "expires"}
    OBVIOUS
  <2>0. /\ DOMAIN redis' = DOMAIN redis \cup DOMAIN one
        /\ \A f \in DOMAIN one : redis'[f] = one[f]
        /\ \A f \in DOMAIN redis \ DOMAIN one : redis'[f] = redis[f]
    BY <1>1 DEF With
  <2>1. x \in DOMAIN redis \cup {b}
    BY <1>3, <2>0
  <2>2. CASE x = b
    BY <1>3, <2>0, <2>2
  <2>3. CASE x # b
    <3>1. redis'[x] = redis[x] /\ x \in DOMAIN redis
      BY <1>3, <2>0, <2>1, <2>3
    <3> QED BY <3>1 DEF Limiters
  <2> QED BY <2>2, <2>3
<1> QED BY <1>4 DEF Limiters, LimitsTypeOK, Incr

\* EXPIRE changes when a bucket expires, not what it counts.
LEMMA ExpireKeeps ==
    ASSUME Limiters, NEW c \in Calls, Expire(c) PROVE Limiters'
<1> DEFINE b == Bucket(c)
<1>1. \A x \in DOMAIN redis' : redis'[x].count \in Nat \ {0} /\ DOMAIN redis'[x] = {"count", "expires"}
  <2>1. CASE b \notin DOMAIN redis
    BY <2>1 DEF Expire, Limiters
  <2>2. CASE b \in DOMAIN redis
    <3>1. redis' = [redis EXCEPT ![b].expires = now + Window]
      BY <2>2 DEF Expire
    <3>2. DOMAIN redis[b] = {"count", "expires"} /\ redis[b].count \in Nat \ {0}
      BY <2>2 DEF Limiters
    <3>3. redis'[b].count = redis[b].count /\ DOMAIN redis'[b] = {"count", "expires"}
      BY <2>2, <3>1, <3>2
    <3>4. DOMAIN redis' = DOMAIN redis /\ \A x \in DOMAIN redis \ {b} : redis'[x] = redis[x]
      BY <3>1
    <3> QED BY <3>2, <3>3, <3>4 DEF Limiters
  <2> QED BY <2>1, <2>2
<1> QED BY <1>1 DEF Limiters, LimitsTypeOK, Expire

\* Time passes; buckets expire.
LEMMA TickKeeps ==
    ASSUME Limiters, Tick PROVE Limiters'
<1>1. \A x \in DOMAIN redis' : x \in DOMAIN redis /\ redis'[x] = redis[x]
  BY DEF Tick
<1>2. now' \in 0 .. MaxTime
  BY WindowAssumption DEF Tick, Limiters, LimitsTypeOK
<1> QED BY <1>1, <1>2 DEF Limiters, LimitsTypeOK, Tick

\* A new process remembers nothing.
LEMMA ForgetKeeps ==
    ASSUME Limiters, Forget PROVE Limiters'
<1>1. IsFiniteSet({}) /\ Cardinality({}) = 0
  BY FS_EmptySet
<1> QED BY <1>1, WindowAssumption DEF Limiters, LimitsTypeOK, Forget, NoEntry

\* Steps that do not count.
LEMMA LimitersStay ==
    ASSUME Limiters, UNCHANGED <<now, memory, perKey, recent, redis>> PROVE Limiters'
  BY DEF Limiters, LimitsTypeOK

-----------------------------------------------------------------------------
USE DEF At, Goto, Note, Finish, Enter, AtOnce, Begin, Fail, callVars, limitVars, rest, rows

\* Calls move among the limiters; the tables and the connections are as they were.
Aside == UNCHANGED <<rest, rows, conns, deeds, audit>>

\* No organization and no deed is lost by them.
LEMMA AsideGrows == Aside => Grow /\ (Tables => Tables')
  BY DEF Aside, Grow, Tables

\* A call that holds no connection, before and after, moves.
LEMMA AsideKeeps ==
    ASSUME AccessInv, Aside, Limiters', NEW c \in Calls, Ready(c)',
           pc[c] \notin Holding, pc'[c] \notin Holding, Alone(c)
    PROVE  AccessInv'
<1>1. Requests'
  BY AsideGrows, RequestsKept DEF AccessInv
<1>2. Pool'
  <2>1. UNCHANGED conns
    BY DEF Aside
  <2>2. \A d \in Calls : pc[d] \in Holding \/ pc'[d] \in Holding =>
            pc'[d] = pc[d] /\ req'[d].org = req[d].org
    BY DEF Alone
  <2> QED BY <2>1, <2>2, PoolStays DEF AccessInv
<1> QED BY <1>1, <1>2, AsideGrows DEF AccessInv

\* A request with some more fields fits the label it fitted.
LEMMA FitsWith ==
    ASSUME NEW r, NEW q, NEW l \in {"idle", "organization", "tenant", "credential"}, Fits(r, l),
           DOMAIN r \subseteq DOMAIN q, UNCHANGED <<orgs, deeds>>,
           "op" \in DOMAIN r => q.op = r.op, "org" \in DOMAIN r => q.org = r.org,
           l = "credential" => r.op # "signup"
    PROVE  Fits(q, l)'
<1>1. l \in Labels /\ l # "event" /\ l # "bootstrap" /\ ("idle" \notin Known) /\ ("organization" \notin Known)
  BY DEF Labels, Known
<1>2. CASE l = "idle"
  BY <1>2, IdleFits
<1>3. CASE l = "organization"
  BY <1>1, <1>3 DEF Fits, Labels
<1>4. CASE l \in {"tenant", "credential"}
  <2>1. "op" \in DOMAIN r /\ {"org", "target"} \subseteq DOMAIN r /\ r.org \in DOMAIN orgs
    BY <1>4 DEF Fits, Known
  <2>2. q.op = r.op /\ q.org = r.org /\ {"op", "org", "target"} \subseteq DOMAIN q
    BY <2>1
  <2> QED BY <1>1, <2>1, <2>2 DEF Fits
<1> QED BY <1>2, <1>3, <1>4

\* What waits for Redis needs nothing by itself.
LEMMA WaitingReady ==
    ASSUME NEW c, pc'[c] \in Asking, Waits(req[c])'
    PROVE  Ready(c)'
<1>1. \A l \in Asking : l \in Labels /\ l \notin Known \cup {"organization", "bootstrap", "event", "credential"}
  BY DEF Asking, Labels, Known, Holding
<1>2. Fits(req[c], pc[c])'
  BY <1>1 DEF Fits
<1> QED BY <1>2 DEF Ready

\* A call asks Redis first, and goes on at label then.
LEMMA AskKeeps ==
    ASSUME AccessInv, Aside, NEW c \in Calls, NEW key, NEW r,
           NEW then \in {"idle", "organization", "tenant", "credential"},
           AskRedis(c, key, then, r), Fits(r, then), then = "credential" => r.op # "signup"
    PROVE  AccessInv'
<1>1. PICK q : q = With(r, [key |-> key, then |-> then, nth |-> Len(arrivals) + 1])
  OBVIOUS
<1>2. /\ DOMAIN r \subseteq DOMAIN q /\ q.then = then
      /\ \A f \in DOMAIN r \cap {"op", "org", "target"} : q[f] = r[f]
  BY <1>1 DEF With
<1>3. Fits(q, then)'
  <2>1. UNCHANGED <<orgs, deeds>>
    BY DEF Aside
  <2>2. ("op" \in DOMAIN r => q.op = r.op) /\ ("org" \in DOMAIN r => q.org = r.org)
    BY <1>2
  <2> QED BY <1>2, <2>1, <2>2, FitsWith
<1>4. pc' = [pc EXCEPT ![c] = "incr"] /\ req' = [req EXCEPT ![c] = q] /\ pc[c] = "idle"
  BY <1>1 DEF AskRedis
<1>5. pc'[c] = "incr" /\ req'[c] = q
  BY <1>4 DEF AccessInv, Requests
<1>6. Ready(c)'
  <2>1. then = "credential" => q.op = r.op
    BY <1>2 DEF Fits, Known
  <2>2. Waits(req[c])'
    BY <1>2, <1>3, <1>5, <2>1 DEF Waits, Holding, Asking
  <2> QED BY <1>5, <2>2, WaitingReady DEF Asking
<1>7. Limiters'
  BY LimitersStay DEF AccessInv, AskRedis
<1>8. Alone(c)
  BY <1>4 DEF AccessInv, Requests, Alone
<1>9. pc[c] \notin Holding /\ pc'[c] \notin Holding
  BY <1>4, <1>5 DEF Holding
<1> QED BY <1>6, <1>7, <1>8, <1>9, AsideKeeps

\* A call that has asked goes on, or ends.
LEMMA ProceedKeeps ==
    ASSUME AccessInv, Aside, Limiters', NEW c \in Calls, pc[c] \in Asking, NEW allowed, Proceed(c, allowed)
    PROVE  AccessInv'
<1>1. Waits(req[c]) /\ pc[c] \notin Holding
  BY DEF AccessInv, Requests, Ready, Holding, Asking
<1>2. Alone(c)
  BY DEF AccessInv, Requests, Proceed, Alone
<1>3. Ready(c)' /\ pc'[c] \notin Holding
  <2>1. CASE allowed /\ req[c].then # "idle"
    <3>1. pc'[c] = req[c].then /\ req'[c] = req[c]
      BY <2>1 DEF Proceed, AccessInv, Requests
    <3>2. pc'[c] \notin Holding \cup Asking
      BY <1>1, <3>1 DEF Waits
    <3>3. Fits(req[c], pc[c])'
      BY <1>1, <3>1, AsideGrows, FitsStays DEF Waits
    <3> QED BY <3>2, <3>3 DEF Ready
  <2>2. CASE ~(allowed /\ req[c].then # "idle")
    <3>1. pc'[c] = "idle"
      BY <2>2 DEF Proceed, AccessInv, Requests
    <3> QED BY <3>1, IdleFits DEF Ready, Holding, Asking
  <2> QED BY <2>1, <2>2
<1> QED BY <1>1, <1>2, <1>3, AsideKeeps

\* The handlers of the limiters.
LEMMA LimitsKeep ==
    ASSUME AccessInv, LimitsNext, Aside
    PROVE  AccessInv'
<1>1. ASSUME UNCHANGED <<pc, req>>, Limiters' PROVE AccessInv'
  <2>1. Pool'
    BY <1>1, PoolStays DEF AccessInv, Aside
  <2> QED BY <1>1, <2>1, AsideGrows, RequestsStay DEF AccessInv
<1>2. CASE \E c \in Calls : Ping(c)
  <2>1. PICK c \in Calls : Ping(c)
    BY <1>2
  <2>2. CASE AtOnce("memory") /\ CountMemory
    BY <1>1, <2>2, MemoryKeeps DEF AccessInv
  <2>3. CASE AtOnce("perKey") /\ CountPerKey
    BY <1>1, <2>3, PerKeyKeeps DEF AccessInv
  <2>4. CASE AtOnce("recent") /\ CountRecent
    BY <1>1, <2>4, RecentKeeps DEF AccessInv
  <2>5. CASE AskRedis(c, <<"read">>, "idle", [op |-> "redis"])
    <3>1. Fits([op |-> "redis"], "idle")
      BY IdleFits
    <3> QED BY <2>5, <3>1, AskKeeps
  <2> QED BY <2>1, <2>2, <2>3, <2>4, <2>5 DEF Ping
<1>3. CASE \E c \in Calls : Incr(c)
  <2>1. PICK c \in Calls : Incr(c)
    BY <1>3
  <2>2. Limiters'
    BY <2>1, IncrKeeps DEF AccessInv
  <2>3. pc[c] \in Asking /\ pc[c] \notin Holding
    BY <2>1 DEF Incr, Asking, Holding
  <2>4. CASE \E allowed : Proceed(c, allowed)
    BY <2>2, <2>3, <2>4, ProceedKeeps
  <2>5. CASE pc' = [pc EXCEPT ![c] = "expire"] /\ UNCHANGED req
    <3>1. pc'[c] = "expire" /\ req'[c] = req[c] /\ Alone(c)
      BY <2>5 DEF AccessInv, Requests, Alone
    <3>2. Waits(req[c])
      BY <2>3 DEF AccessInv, Requests, Ready
    <3>3. Waits(req[c])'
      BY <3>1, <3>2, WaitsStays, AsideGrows
    <3> QED BY <2>2, <2>3, <3>1, <3>3, AsideKeeps, WaitingReady DEF Holding, Asking
  <2> QED BY <2>1, <2>4, <2>5 DEF Incr
<1>4. CASE \E c \in Calls : IncrUncounted(c)
  <2>1. PICK c \in Calls : IncrUncounted(c)
    BY <1>4
  <2>2. Limiters'
    BY <2>1, LimitersStay DEF AccessInv, IncrUncounted
  <2>3. pc[c] \in Asking /\ pc[c] \notin Holding
    BY <2>1 DEF IncrUncounted, Asking, Holding
  <2>4. pc'[c] = "expire" /\ req'[c] = req[c] /\ Alone(c)
    BY <2>1 DEF AccessInv, Requests, Alone, IncrUncounted
  <2>5. Waits(req[c])
    BY <2>3 DEF AccessInv, Requests, Ready
  <2>6. Waits(req[c])'
    BY <2>4, <2>5, WaitsStays, AsideGrows
  <2> QED BY <2>2, <2>3, <2>4, <2>6, AsideKeeps, WaitingReady DEF Holding, Asking
<1>5. CASE \E c \in Calls : Expire(c)
  <2>1. PICK c \in Calls : Expire(c)
    BY <1>5
  <2>2. Limiters' /\ pc[c] \in Asking /\ Proceed(c, TRUE)
    BY <2>1, ExpireKeeps DEF AccessInv, Expire, Asking
  <2> QED BY <2>2, ProceedKeeps
<1>6. CASE \E c \in Calls : LimiterFails(c)
  <2>1. PICK c \in Calls : LimiterFails(c)
    BY <1>6
  <2>2. Limiters'
    BY <2>1, LimitersStay DEF AccessInv, LimiterFails
  <2>3. pc[c] \notin Holding /\ pc'[c] = "idle" /\ Alone(c)
    BY <2>1 DEF LimiterFails, AccessInv, Requests, Alone, Holding
  <2>4. Ready(c)' /\ pc'[c] \notin Holding
    BY <2>3, IdleFits DEF Ready
  <2> QED BY <2>2, <2>3, <2>4, AsideKeeps
<1>7. CASE Tick
  BY <1>1, <1>7, TickKeeps DEF AccessInv, Tick
<1> QED BY <1>2, <1>3, <1>4, <1>5, <1>6, <1>7 DEF LimitsNext

\* The limiter of free signup.
LEMMA SignupKeeps ==
    ASSUME AccessInv, NEW c \in Calls, BeginSignup(c)
    PROVE  AccessInv'
<1>1. Aside
  BY DEF BeginSignup, Aside
<1>2. Fits([op |-> "signup"], "organization")
  BY DEF Fits, Labels, Known
<1>3. CASE AskRedis(c, <<"signup">>, "organization", [op |-> "signup"])
  BY <1>1, <1>2, <1>3, AskKeeps
<1>4. CASE Enter(c, "organization", [op |-> "signup"]) /\ CountMemory
  <2>1. pc[c] = "idle" /\ pc'[c] = "organization" /\ req'[c] = [op |-> "signup"] /\ Alone(c)
    BY <1>4 DEF AccessInv, Requests, Alone
  <2>2. Ready(c)' /\ pc[c] \notin Holding /\ pc'[c] \notin Holding
    BY <1>1, <1>2, <2>1, FitsStays, AsideGrows DEF Ready, Holding, Asking
  <2> QED BY <1>1, <1>4, <2>1, <2>2, AsideKeeps, MemoryKeeps DEF AccessInv
<1>5. CASE AtOnce("signup") /\ CountMemory
  <2>1. Pool'
    BY <1>1, <1>5, PoolStays DEF AccessInv, Aside
  <2> QED BY <1>1, <1>5, <2>1, AsideGrows, RequestsStay, MemoryKeeps DEF AccessInv
<1> QED BY <1>3, <1>4, <1>5 DEF BeginSignup

-----------------------------------------------------------------------------
\* What is left to show of a step that leaves the limiters alone.
LEMMA StepKeeps ==
    ASSUME AccessInv, UNCHANGED limitVars, Grow, Tables', Pool', NEW c \in Calls, Alone(c), Ready(c)'
    PROVE  AccessInv'
  BY LimitersStay, RequestsKept DEF AccessInv

\* An authenticated caller is known by an organization that exists.
LEMMA CallerKnown ==
    ASSUME Tables, NEW who \in Key \cup Membership \cup Headers
    PROVE  {"org", "role", "scopes"} = DOMAIN who /\ who.org \in DOMAIN orgs
<1>1. CASE who \in Key
  BY <1>1 DEF Key, Tables
<1>2. CASE who \in Membership
  BY <1>2 DEF Membership, Tables
<1>3. CASE who \in Headers
  BY <1>3 DEF Headers
<1> QED BY <1>1, <1>2, <1>3

\* An authenticated request waits where it has what it needs.
LEMMA BeginTenantKeeps ==
    ASSUME AccessInv, NEW c \in Calls, NEW op \in TenantOps, BeginTenant(c, op)
    PROVE  AccessInv'
<1>1. Aside
  BY DEF BeginTenant, Aside
<1>2. PICK who \in Key \cup Membership \cup Headers, target \in Targets(op) :
        LET r == With(who, [op |-> op, target |-> target]) IN
        IF op \in Limited
        THEN \/ AskRedis(c, IF op = "key" THEN <<"cred", who.org>> ELSE <<"read", who.org>>, Entry(op), r)
             \/ limiting = "local" /\ Enter(c, Entry(op), r) /\ UNCHANGED limitVars
        ELSE Enter(c, Entry(op), r) /\ UNCHANGED limitVars
  BY DEF BeginTenant
<1>3. PICK r : r = With(who, [op |-> op, target |-> target])
  OBVIOUS
<1>4. DOMAIN r = {"org", "role", "scopes", "op", "target"} /\ r.org \in DOMAIN orgs /\ r.op = op
  <2>1. {"org", "role", "scopes"} = DOMAIN who /\ who.org \in DOMAIN orgs
    BY CallerKnown DEF AccessInv
  <2>2. DOMAIN [op |-> op, target |-> target] = {"op", "target"}
    OBVIOUS
  <2>3. r.org = who.org /\ r.op = op
    BY <1>3, <2>1, <2>2 DEF With
  <2> QED BY <1>3, <2>1, <2>2, <2>3 DEF With
<1>5. Entry(op) \in {"tenant", "credential", "revoke"} /\ (Entry(op) = "credential" => op = "key")
  BY DEF Entry
<1>6. Fits(r, Entry(op)) /\ (Entry(op) = "credential" => r.op # "signup")
  <2>1. Entry(op) = "credential" => r.op # "signup"
    BY <1>4, <1>5
  <2>2. Entry(op) \in Labels /\ Entry(op) # "event"
    BY <1>5 DEF Labels, Known
  <2> QED BY <1>4, <2>1, <2>2 DEF Fits
<1>7. CASE Enter(c, Entry(op), r) /\ UNCHANGED limitVars
  <2>1. pc[c] = "idle" /\ pc'[c] = Entry(op) /\ req'[c] = r /\ Alone(c)
    BY <1>7 DEF AccessInv, Requests, Alone
  <2>2. pc[c] \notin Holding /\ pc'[c] \notin Holding \cup Asking
    BY <1>5, <2>1 DEF Holding, Asking
  <2>3. Fits(r, Entry(op))'
    <3>1. \A l : Fits(r, l) => Fits(r, l)'
      BY <1>1, AsideGrows, FitsStays
    <3>2. Entry(op)' = Entry(op)
      BY DEF Entry
    <3> QED BY <1>6, <3>1, <3>2
  <2>4. Ready(c)'
    BY <2>1, <2>2, <2>3 DEF Ready, Entry
  <2> QED BY <1>1, <1>7, <2>1, <2>2, <2>4, AsideKeeps, LimitersStay DEF AccessInv
<1>8. CASE /\ op \in Limited
           /\ AskRedis(c, IF op = "key" THEN <<"cred", who.org>> ELSE <<"read", who.org>>, Entry(op), r)
  <2>1. Entry(op) \in {"idle", "organization", "tenant", "credential"}
    BY <1>8 DEF Entry, Limited
  <2> QED BY <1>1, <1>6, <1>8, <2>1, AskKeeps
<1> QED BY <1>2, <1>3, <1>7, <1>8

\* A request for an organization in development.
LEMMA BeginOrganizationKeeps ==
    ASSUME AccessInv, NEW c \in Calls, BeginOrganization(c)
    PROVE  AccessInv'
<1>1. Aside /\ Limiters'
  BY LimitersStay DEF BeginOrganization, Aside, AccessInv
<1>2. pc[c] = "idle" /\ pc'[c] = "organization" /\ req'[c] = [op |-> "found"] /\ Alone(c)
  BY DEF BeginOrganization, AccessInv, Requests, Alone
<1>3. Fits([op |-> "found"], "organization")
  BY DEF Fits, Labels, Known
<1>4. Ready(c)' /\ pc[c] \notin Holding /\ pc'[c] \notin Holding
  BY <1>1, <1>2, <1>3, FitsStays, AsideGrows DEF Ready, Holding, Asking
<1> QED BY <1>1, <1>2, <1>4, AsideKeeps

\* A transaction is opened.
LEMMA OpenBootstrapKeeps ==
    ASSUME AccessInv, NEW c \in Calls, OpenBootstrap(c)
    PROVE  AccessInv'
<1>1. PICK k \in Conns : Free(k) /\ Take(c, k, None, TRUE)
  BY DEF OpenBootstrap
<1>2. pc' = [pc EXCEPT ![c] = "bootstrap"] /\ UNCHANGED req /\ pc[c] = "organization"
  BY DEF OpenBootstrap
<1>3. Grow /\ Tables' /\ UNCHANGED limitVars
  BY DEF OpenBootstrap, Grow, Tables, AccessInv
<1>4. Pool'
  BY <1>1, <1>2, PoolTaken DEF AccessInv, Requests, Holding
<1>5. pc'[c] = "bootstrap" /\ req'[c] = req[c] /\ Alone(c)
  BY <1>2 DEF AccessInv, Requests, Alone
<1>6. Ready(c)'
  BY <1>2, <1>5 DEF AccessInv, Requests, Ready, Fits, Labels, Holding, Known, Asking
<1> QED BY <1>3, <1>4, <1>5, <1>6, StepKeeps

\* withTenantTransaction takes a connection for the organization of its call.
LEMMA OpenTenantKeeps ==
    ASSUME AccessInv, NEW c \in Calls, OpenTenant(c)
    PROVE  AccessInv'
<1>1. PICK k \in Conns : Free(k) /\ Take(c, k, req[c].org, FALSE)
  BY DEF OpenTenant
<1>2. pc' = [pc EXCEPT ![c] = "transaction"] /\ UNCHANGED req /\ pc[c] = "tenant"
  BY DEF OpenTenant
<1>3. Grow /\ Tables' /\ UNCHANGED limitVars
  BY DEF OpenTenant, Grow, Tables, AccessInv
<1>4. Pool'
  BY <1>1, <1>2, PoolTaken DEF AccessInv, Requests, Holding
<1>5. pc'[c] = "transaction" /\ req'[c] = req[c] /\ Alone(c)
  BY <1>2 DEF AccessInv, Requests, Alone
<1>6. Ready(c)'
  <2>1. Fits(req[c], "tenant")
    BY <1>2 DEF AccessInv, Requests, Ready
  <2>2. Fits(req[c], "tenant")'
    BY <1>3, <2>1, <1>5, FitsStays
  <2> QED BY <1>5, <2>2 DEF Ready, Fits, Labels, Holding, Known, Asking
<1> QED BY <1>3, <1>4, <1>5, <1>6, StepKeeps

-----------------------------------------------------------------------------
\* A transaction is committed; the organization is the last of the list.
LEMMA CommitOrganizationKeeps ==
    ASSUME AccessInv, NEW c \in Calls, CommitOrganization(c)
    PROVE  AccessInv'
<1>1. PICK org, n, l : /\ org = Len(orgs) + 1 /\ n = Len(deeds) + 1
                       /\ l = IF req[c].op = "signup" THEN "credential" ELSE "event"
  OBVIOUS
<1>2. PICK facts : facts = [org |-> org, target |-> SignupScopes, deed |-> n]
  OBVIOUS
<1>3. /\ orgs' = Append(orgs, [active |-> TRUE, signup |-> req[c].op = "signup"])
      /\ deeds' = Append(deeds, [op |-> req[c].op, org |-> org, late |-> Disabled(org)])
      /\ pc[c] = "bootstrap" /\ pc' = [pc EXCEPT ![c] = l]
      /\ req' = [req EXCEPT ![c] = With(req[c], facts)]
      /\ Release(c) /\ UNCHANGED <<projects, creds, audit>> /\ UNCHANGED limitVars
  BY <1>1, <1>2 DEF CommitOrganization, Deed
<1>4. PICK u \in Users : members' = members \cup {[org |-> org, user |-> u, role |-> "OWNER", active |-> TRUE]}
  BY <1>1 DEF CommitOrganization
<1>5. /\ IsList(orgs') /\ DOMAIN orgs' = DOMAIN orgs \cup {org}
      /\ \A o \in DOMAIN orgs : orgs'[o] = orgs[o]
      /\ orgs'[org] = [active |-> TRUE, signup |-> req[c].op = "signup"]
  BY <1>1, <1>3, Appended DEF AccessInv, Tables
<1>6. IsList(deeds') /\ DOMAIN deeds' = DOMAIN deeds \cup {n}
  BY <1>1, <1>3, Appended DEF AccessInv, Tables
<1>7. Grow
  BY <1>5, <1>6 DEF Grow
<1>8. Tables'
  <2>1. \A o \in DOMAIN orgs' : DOMAIN orgs'[o] = {"active", "signup"}
    BY <1>5 DEF AccessInv, Tables
  <2>2. \A m \in members' : DOMAIN m = {"org", "user", "role", "active"} /\ m.org \in DOMAIN orgs'
    BY <1>4, <1>5 DEF AccessInv, Tables
  <2> QED BY <1>3, <1>5, <1>6, <2>1, <2>2 DEF AccessInv, Tables
<1>9. pc'[c] = l /\ req'[c] = With(req[c], facts) /\ Alone(c)
  BY <1>3 DEF AccessInv, Requests, Alone
<1>10. Ready(c)'
  <2>1. "op" \in DOMAIN req[c]
    BY <1>3 DEF AccessInv, Requests, Ready, Fits
  <2>2. {"op", "org", "target"} \subseteq DOMAIN req'[c] /\ req'[c].org = org /\ req'[c].deed = n
    BY <1>2, <1>9, <2>1 DEF With
  <2>3. l \in {"credential", "event"}
    BY <1>1
  <2> QED BY <1>5, <1>6, <1>9, <2>2, <2>3 DEF Ready, Fits, Labels, Holding, Known, Asking
<1>11. Pool'
  <2>1. pc'[c] \notin Holding
    BY <1>1, <1>9 DEF Holding
  <2> QED BY <1>3, <1>9, <2>1, PoolReleased DEF AccessInv, Alone
<1> QED BY <1>3, <1>7, <1>8, <1>9, <1>10, <1>11, StepKeeps

\* A project is committed; its deed is the last of the list.
LEMMA CommitProjectKeeps ==
    ASSUME AccessInv, NEW c \in Calls, CommitProject(c)
    PROVE  AccessInv'
<1>1. PICK n : n = Len(deeds) + 1
  OBVIOUS
<1>2. PICK facts : facts = [deed |-> n]
  OBVIOUS
<1>3. /\ projects' = Append(projects, req[c].org)
      /\ deeds' = Append(deeds, [op |-> "create", org |-> req[c].org, late |-> Disabled(req[c].org)])
      /\ pc[c] = "transaction" /\ pc' = [pc EXCEPT ![c] = "event"]
      /\ req' = [req EXCEPT ![c] = With(req[c], facts)]
      /\ Release(c) /\ UNCHANGED <<orgs, members, creds, audit>> /\ UNCHANGED limitVars
  BY <1>1, <1>2 DEF CommitProject, Deed
<1>4. req[c].org \in DOMAIN orgs
  BY <1>3 DEF AccessInv, Requests, Ready, Fits, Known
<1>5. /\ IsList(projects') /\ DOMAIN projects' = DOMAIN projects \cup {Len(projects) + 1}
      /\ \A p \in DOMAIN projects : projects'[p] = projects[p]
      /\ projects'[Len(projects) + 1] = req[c].org
  BY <1>3, Appended DEF AccessInv, Tables
<1>6. IsList(deeds') /\ DOMAIN deeds' = DOMAIN deeds \cup {n}
  BY <1>1, <1>3, Appended DEF AccessInv, Tables
<1>7. Grow
  BY <1>3, <1>6 DEF Grow
<1>8. Tables'
  <2>1. \A p \in DOMAIN projects' : projects'[p] \in DOMAIN orgs'
    BY <1>3, <1>4, <1>5 DEF AccessInv, Tables
  <2> QED BY <1>3, <1>5, <1>6, <2>1 DEF AccessInv, Tables
<1>9. pc'[c] = "event" /\ req'[c] = With(req[c], facts) /\ Alone(c)
  BY <1>3 DEF AccessInv, Requests, Alone
<1>10. Ready(c)'
  <2>1. req'[c].deed = n
    BY <1>2, <1>9 DEF With
  <2> QED BY <1>6, <1>9, <2>1 DEF Ready, Fits, Labels, Holding, Known, Asking
<1>11. Pool'
  <2>1. pc'[c] \notin Holding
    BY <1>9 DEF Holding
  <2> QED BY <1>3, <1>9, <2>1, PoolReleased DEF AccessInv, Alone
<1> QED BY <1>3, <1>7, <1>8, <1>9, <1>10, <1>11, StepKeeps

\* A call ends, and gives back what it holds.
LEMMA EndKeeps ==
    ASSUME AccessInv, NEW c \in Calls, pc'[c] = "idle", Alone(c), UNCHANGED limitVars,
           Release(c) \/ (UNCHANGED conns /\ pc[c] \notin Holding),
           UNCHANGED <<rows, deeds>>, audit' \subseteq DOMAIN deeds
    PROVE  AccessInv'
<1>1. Grow /\ Tables'
  BY DEF Grow, AccessInv, Tables
<1>2. Ready(c)' /\ pc'[c] \notin Holding
  BY IdleFits DEF Ready
<1>3. Pool'
  <2>1. CASE Release(c)
    BY <1>2, <2>1, PoolReleased DEF AccessInv, Alone
  <2>2. CASE UNCHANGED conns /\ pc[c] \notin Holding
    BY <1>2, <2>2, PoolStays DEF AccessInv, Alone
  <2> QED BY <2>1, <2>2
<1> QED BY <1>1, <1>2, <1>3, StepKeeps

\* The steps that end a call.
LEMMA EndingsKeep ==
    ASSUME AccessInv, NEW c \in Calls,
           Refuse(c) \/ ReadTenant(c) \/ AppendAudit(c) \/ Unseen(c) \/ StatementFails(c)
    PROVE  AccessInv'
<1>1. Refuse(c) \/ ReadTenant(c) \/ AppendAudit(c) \/ Unseen(c) \/ StatementFails(c) =>
        pc' = [pc EXCEPT ![c] = "idle"] /\ req' = [req EXCEPT ![c] = NoRequest]
  BY DEF Refuse, ReadTenant, AppendAudit, Unseen, StatementFails
<1>2. pc'[c] = "idle" /\ Alone(c)
  BY <1>1 DEF AccessInv, Requests, Alone
<1>3. audit \subseteq DOMAIN deeds
  BY DEF AccessInv, Tables
<1>4. CASE Refuse(c) \/ Unseen(c)
  BY <1>2, <1>3, <1>4, EndKeeps DEF Refuse, Unseen, Holding
<1>5. CASE ReadTenant(c)
  BY <1>2, <1>3, <1>5, EndKeeps DEF ReadTenant
<1>6. CASE StatementFails(c)
  BY <1>2, <1>3, <1>6, EndKeeps DEF StatementFails
<1>7. CASE AppendAudit(c)
  <2>1. req[c].deed \in DOMAIN deeds
    BY <1>7 DEF AppendAudit, AccessInv, Requests, Ready, Fits
  <2> QED BY <1>2, <1>3, <1>7, <2>1, EndKeeps DEF AppendAudit, Holding
<1> QED BY <1>4, <1>5, <1>6, <1>7

-----------------------------------------------------------------------------
\* A key is made.
LEMMA InsertKeeps ==
    ASSUME AccessInv, NEW c \in Calls, InsertCredential(c)
    PROVE  AccessInv'
<1>1. /\ pc[c] = "credential" /\ UNCHANGED <<orgs, members, projects, audit, conns>> /\ UNCHANGED limitVars
      /\ creds' = Append(creds, [org |-> req[c].org, scopes |-> req[c].target, active |-> TRUE])
  BY DEF InsertCredential
<1>2. Fits(req[c], "credential") /\ req[c].org \in DOMAIN orgs /\ "op" \in DOMAIN req[c]
  BY <1>1 DEF AccessInv, Requests, Ready, Fits, Known
<1>3. /\ IsList(creds') /\ DOMAIN creds' = DOMAIN creds \cup {Len(creds) + 1}
      /\ \A n \in DOMAIN creds : creds'[n] = creds[n]
      /\ creds'[Len(creds) + 1] = [org |-> req[c].org, scopes |-> req[c].target, active |-> TRUE]
  BY <1>1, Appended DEF AccessInv, Tables
<1>4. \A n \in DOMAIN creds' : DOMAIN creds'[n] = {"org", "scopes", "active"} /\ creds'[n].org \in DOMAIN orgs
  BY <1>2, <1>3 DEF AccessInv, Tables
<1>5. pc[c] \notin Holding
  BY <1>1 DEF Holding
<1>6. CASE req[c].op = "signup" /\ Goto(c, "event") /\ UNCHANGED deeds
  <2>1. Grow /\ Tables'
    BY <1>1, <1>3, <1>4, <1>6 DEF Grow, AccessInv, Tables
  <2>2. pc'[c] = "event" /\ req'[c] = req[c] /\ Alone(c)
    BY <1>6 DEF AccessInv, Requests, Alone
  <2>3. Ready(c)'
    BY <1>2, <1>6, <2>2 DEF Ready, Fits, Labels, Known, Holding, Asking
  <2>4. Pool'
    BY <1>1, <1>5, <2>2, PoolStays DEF AccessInv, Alone, Holding
  <2> QED BY <1>1, <2>1, <2>2, <2>3, <2>4, StepKeeps
<1>7. CASE Deed("key", req[c].org) /\ Note(c, [deed |-> Len(deeds) + 1], "event")
  <2>1. PICK n : n = Len(deeds) + 1
    OBVIOUS
  <2>2. PICK facts : facts = [deed |-> n]
    OBVIOUS
  <2>3. IsList(deeds') /\ DOMAIN deeds' = DOMAIN deeds \cup {n}
    BY <1>7, <2>1, Appended DEF AccessInv, Tables, Deed
  <2>4. Grow /\ Tables'
    BY <1>1, <1>3, <1>4, <2>3 DEF Grow, AccessInv, Tables
  <2>5. pc'[c] = "event" /\ req'[c] = With(req[c], facts) /\ Alone(c)
    BY <1>7, <2>1, <2>2 DEF AccessInv, Requests, Alone
  <2>6. Ready(c)'
    <3>1. req'[c].deed = n
      BY <2>2, <2>5 DEF With
    <3> QED BY <2>3, <2>5, <3>1 DEF Ready, Fits, Labels, Known, Holding, Asking
  <2>7. Pool'
    BY <1>1, <1>5, <2>5, PoolStays DEF AccessInv, Alone, Holding
  <2> QED BY <1>1, <2>4, <2>5, <2>6, <2>7, StepKeeps
<1> QED BY <1>6, <1>7 DEF InsertCredential

\* A key is revoked.
LEMMA RevokeKeeps ==
    ASSUME AccessInv, NEW c \in Calls, Revoke(c)
    PROVE  AccessInv'
<1>1. PICK n, k : n = Len(deeds) + 1 /\ k = req[c].target
  OBVIOUS
<1>2. PICK facts : facts = [deed |-> n]
  OBVIOUS
<1>3. /\ pc[c] = "revoke" /\ UNCHANGED <<orgs, members, projects, audit, conns>> /\ UNCHANGED limitVars
      /\ creds' = [creds EXCEPT ![k].active = FALSE]
      /\ deeds' = Append(deeds, [op |-> "revoke", org |-> creds[k].org, late |-> Disabled(creds[k].org)])
      /\ pc' = [pc EXCEPT ![c] = "event"] /\ req' = [req EXCEPT ![c] = With(req[c], facts)]
  BY <1>1, <1>2 DEF Revoke, Deed
<1>4. IsList(creds') /\ \A j \in DOMAIN creds' : DOMAIN creds'[j] = {"org", "scopes", "active"} /\ creds'[j].org \in DOMAIN orgs
  <2>1. CASE k \in DOMAIN creds
    <3>1. PICK x : x = [creds[k] EXCEPT !.active = FALSE]
      OBVIOUS
    <3>2. creds' = [creds EXCEPT ![k] = x]
      BY <1>3, <3>1
    <3>3. DOMAIN x = {"org", "scopes", "active"} /\ x.org \in DOMAIN orgs
      BY <2>1, <3>1 DEF AccessInv, Tables
    <3>4. /\ IsList(creds') /\ DOMAIN creds' = DOMAIN creds /\ creds'[k] = x
          /\ \A j \in DOMAIN creds \ {k} : creds'[j] = creds[j]
      BY <2>1, <3>2, Changed DEF AccessInv, Tables
    <3> QED BY <3>3, <3>4 DEF AccessInv, Tables
  <2>2. CASE k \notin DOMAIN creds
    <3>1. creds' = creds
      <4>1. PICK S : creds \in Seq(S)
        BY DEF AccessInv, Tables, IsList
      <4> QED BY <1>3, <2>2, <4>1
    <3> QED BY <3>1 DEF AccessInv, Tables
  <2> QED BY <2>1, <2>2
<1>5. IsList(deeds') /\ DOMAIN deeds' = DOMAIN deeds \cup {n}
  BY <1>1, <1>3, Appended DEF AccessInv, Tables
<1>6. Grow /\ Tables'
  BY <1>3, <1>4, <1>5 DEF Grow, AccessInv, Tables
<1>7. pc'[c] = "event" /\ req'[c] = With(req[c], facts) /\ Alone(c)
  BY <1>3 DEF AccessInv, Requests, Alone
<1>8. Ready(c)'
  <2>1. req'[c].deed = n
    BY <1>2, <1>7 DEF With
  <2> QED BY <1>5, <1>7, <2>1 DEF Ready, Fits, Labels, Known, Holding, Asking
<1>9. Pool'
  BY <1>3, <1>7, PoolStays DEF AccessInv, Alone, Holding
<1> QED BY <1>3, <1>6, <1>7, <1>8, <1>9, StepKeeps

\* An operator's change.
LEMMA OperateKeeps ==
    ASSUME AccessInv, Operate
    PROVE  AccessInv'
<1>1. /\ UNCHANGED <<pc, req, conns, projects, creds, deeds, audit>> /\ UNCHANGED limitVars
  BY DEF Operate
<1>2. IsList(orgs') /\ DOMAIN orgs' = DOMAIN orgs /\ \A o \in DOMAIN orgs : DOMAIN orgs'[o] = {"active", "signup"}
  <2>1. CASE \E o \in DOMAIN orgs : orgs' = [orgs EXCEPT ![o].active = FALSE]
    <3>1. PICK o \in DOMAIN orgs : orgs' = [orgs EXCEPT ![o].active = FALSE]
      BY <2>1
    <3>2. PICK x : x = [orgs[o] EXCEPT !.active = FALSE]
      OBVIOUS
    <3>3. orgs' = [orgs EXCEPT ![o] = x] /\ DOMAIN x = {"active", "signup"}
      BY <3>1, <3>2 DEF AccessInv, Tables
    <3> QED BY <3>3, Changed DEF AccessInv, Tables
  <2>2. CASE UNCHANGED orgs
    BY <2>2 DEF AccessInv, Tables
  <2> QED BY <2>1, <2>2 DEF Operate
<1>3. \A m \in members' : DOMAIN m = {"org", "user", "role", "active"} /\ m.org \in DOMAIN orgs
  <2>1. CASE \E o \in DOMAIN orgs, u \in Users, a \in {"DEVELOPER", "VIEWER"} :
               members' = members \cup {[org |-> o, user |-> u, role |-> a, active |-> TRUE]}
    BY <2>1 DEF AccessInv, Tables
  <2>2. CASE \E m \in members : members' = (members \ {m}) \cup {[m EXCEPT !.active = FALSE]}
    <3>1. PICK m \in members : members' = (members \ {m}) \cup {[m EXCEPT !.active = FALSE]}
      BY <2>2
    <3>2. DOMAIN m = {"org", "user", "role", "active"} /\ m.org \in DOMAIN orgs
      BY DEF AccessInv, Tables
    <3>3. /\ DOMAIN [m EXCEPT !.active = FALSE] = {"org", "user", "role", "active"}
          /\ [m EXCEPT !.active = FALSE].org \in DOMAIN orgs
      BY <3>2
    <3> QED BY <3>1, <3>3 DEF AccessInv, Tables
  <2>3. CASE UNCHANGED members
    BY <2>3 DEF AccessInv, Tables
  <2> QED BY <2>1, <2>2, <2>3 DEF Operate
<1>4. Grow /\ Tables'
  BY <1>1, <1>2, <1>3 DEF Grow, AccessInv, Tables
<1>5. Pool'
  BY <1>1, PoolStays DEF AccessInv
<1> QED BY <1>1, <1>4, <1>5, RequestsStay, LimitersStay DEF AccessInv

\* The process stops.
LEMMA RestartKeeps ==
    ASSUME AccessInv, Restart
    PROVE  AccessInv'
<1>1. /\ pc' = [c \in Calls |-> "idle"] /\ req' = [c \in Calls |-> NoRequest]
      /\ conns' = [k \in Conns |-> Blank] /\ UNCHANGED <<orgs, members, projects, creds, deeds, audit>>
  BY DEF Restart
<1>2. Limiters'
  BY ForgetKeeps DEF Restart, AccessInv
<1>3. Tables'
  BY <1>1 DEF AccessInv, Tables
<1>4. Requests'
  BY <1>1, IdleFits DEF Requests, Ready
<1>5. Pool'
  BY <1>1 DEF Pool, Free, Blank, Holding
<1> QED BY <1>2, <1>3, <1>4, <1>5 DEF AccessInv

-----------------------------------------------------------------------------
\* At the start.
LEMMA AccessStarts == AccessInit => AccessInv
<1> SUFFICES ASSUME AccessInit PROVE AccessInv
  OBVIOUS
<1>1. IsFiniteSet({}) /\ Cardinality({}) = 0
  BY FS_EmptySet
<1>2. Limiters
  BY <1>1, WindowAssumption DEF AccessInit, LimitsInit, Limiters, LimitsTypeOK, NoEntry
<1>3. IsList(<<>>)
  BY DEF IsList
<1>4. Tables
  BY <1>3 DEF AccessInit, Tables
<1>5. Requests
  BY IdleFits DEF AccessInit, CallsInit, Requests, Ready
<1>6. Pool
  BY DEF AccessInit, CallsInit, Pool, Free, Blank, Holding
<1> QED BY <1>2, <1>4, <1>5, <1>6 DEF AccessInv

\* Every step.
LEMMA AccessStep == AccessInv /\ [Next]_vars => AccessInv'
<1> SUFFICES ASSUME AccessInv, [Next]_vars PROVE AccessInv'
  OBVIOUS
<1>1. CASE UNCHANGED vars
  <2>1. Grow /\ UNCHANGED limitVars /\ UNCHANGED <<pc, req, conns>> /\ Tables'
    BY <1>1 DEF vars, Grow, AccessInv, Tables
  <2> QED BY <2>1, RequestsStay, LimitersStay, PoolStays DEF AccessInv
<1>2. ASSUME NEW c \in Calls,
             BeginSignup(c) \/ BeginOrganization(c) \/ OpenBootstrap(c) \/ CommitOrganization(c)
      PROVE  AccessInv'
  BY <1>2, SignupKeeps, BeginOrganizationKeeps, OpenBootstrapKeeps, CommitOrganizationKeeps
<1>3. ASSUME NEW c \in Calls, NEW op \in TenantOps, BeginTenant(c, op) PROVE AccessInv'
  BY <1>3, BeginTenantKeeps
<1>4. ASSUME NEW c \in Calls,
             OpenTenant(c) \/ CommitProject(c) \/ InsertCredential(c) \/ Revoke(c)
      PROVE  AccessInv'
  BY <1>4, OpenTenantKeeps, CommitProjectKeeps, InsertKeeps, RevokeKeeps
<1>5. ASSUME NEW c \in Calls,
             Refuse(c) \/ ReadTenant(c) \/ AppendAudit(c) \/ Unseen(c) \/ StatementFails(c)
      PROVE  AccessInv'
  BY <1>5, EndingsKeep
<1>6. CASE LimitsNext /\ UNCHANGED <<rest, rows, conns, deeds, audit>>
  BY <1>6, LimitsKeep DEF Aside
<1> QED BY <1>1, <1>2, <1>3, <1>4, <1>5, <1>6, OperateKeeps, RestartKeeps DEF Next

\* The joint invariant: tables refer to rows that exist, requests have what the label they wait
\* at needs, and a connection is out exactly while its one holder has a transaction open.
LEMMA AccessAlways == Spec => []AccessInv
  BY AccessStarts, AccessStep, PTL DEF Spec

\* TypeOK, from the joint invariant.
LEMMA Typed == AccessInv => TypeOK
<1> SUFFICES ASSUME AccessInv PROVE TypeOK
  OBVIOUS
<1>1. ASSUME NEW c \in Calls
      PROVE  Cardinality({k \in Conns : conns[k].call = c}) =
                 IF pc[c] \in {"bootstrap", "transaction"} THEN 1 ELSE 0
  <2>0. c # NoCall
    BY ConnsAssumption
  <2>1. CASE pc[c] \in Holding
    <3>1. PICK k \in Conns : conns[k].call = c
      BY <2>1 DEF AccessInv, Pool
    <3>2. {j \in Conns : conns[j].call = c} = {k}
      BY <2>0, <3>1 DEF AccessInv, Pool, Free
    <3>3. Cardinality({k}) = 1
      BY FS_Singleton
    <3> QED BY <2>1, <3>2, <3>3 DEF Holding
  <2>2. CASE pc[c] \notin Holding
    <3>1. {j \in Conns : conns[j].call = c} = {}
      BY <2>0, <2>2 DEF AccessInv, Pool, Free, Held
    <3>2. Cardinality({}) = 0
      BY FS_EmptySet
    <3> QED BY <2>2, <3>1, <3>2 DEF Holding
  <2> QED BY <2>1, <2>2
<1> QED BY <1>1 DEF AccessInv, Limiters, Tables, TypeOK

\* For any calls and connections: a free connection carries no tenant, and one that is out
\* carries what its holder was authenticated for; references and ranges are as TypeOK says.
\* withTenantTransaction, withBootstrapTransaction and their ROLLBACKs.
THEOREM PoolIsClean == Spec => []PoolCarriesNoTenant
<1>1. AccessInv => PoolCarriesNoTenant
  BY Typed DEF AccessInv, Pool, PoolCarriesNoTenant, Held, Holding
<1> QED BY <1>1, AccessAlways, PTL

-----------------------------------------------------------------------------
\* What is owed is finite, and no more than there are calls.
LEMMA ImageSize ==
    ASSUME NEW S, IsFiniteSet(S), NEW g
    PROVE  IsFiniteSet({g[x] : x \in S}) /\ Cardinality({g[x] : x \in S}) <= Cardinality(S)
<1> DEFINE h == [x \in S |-> g[x]]
<1>1. h \in Surjection(S, {g[x] : x \in S})
  BY DEF Surjection
<1> QED BY <1>1, FS_Surjection

\* What is lost is finite: organizations and deeds are.
LEMMA OwedFinite ==
    ASSUME AccessInv
    PROVE  /\ IsFiniteSet(Unkeyed) /\ Cardinality(Unkeyed) \in Nat
           /\ IsFiniteSet(Untold) /\ Cardinality(Untold) \in Nat
<1>1. IsFiniteSet(DOMAIN orgs) /\ IsFiniteSet(DOMAIN deeds)
  <2>1. \A s : IsList(s) => IsFiniteSet(DOMAIN s)
    <3> SUFFICES ASSUME NEW s, IsList(s) PROVE IsFiniteSet(DOMAIN s)
      OBVIOUS
    <3>1. Len(s) \in Int /\ DOMAIN s = 1 .. Len(s) /\ 1 \in Int
      BY Indices
    <3> QED BY <3>1, FS_Interval
  <2> QED BY <2>1 DEF AccessInv, Tables
<1>2. Unkeyed \in SUBSET (DOMAIN orgs) /\ Untold \in SUBSET (DOMAIN deeds)
  BY DEF Unkeyed, Keyless, Untold
<1>3. IsFiniteSet(Unkeyed) /\ IsFiniteSet(Untold)
  BY <1>1, <1>2, FS_Subset
<1> QED BY <1>3, FS_CardinalityType

\* There are finitely many calls.
LEMMA CallCount ==
    ASSUME NEW S \in SUBSET Calls
    PROVE  /\ IsFiniteSet(S) /\ Cardinality(S) \in Nat /\ Cardinality(Calls) \in Nat
           /\ Cardinality(S) <= Cardinality(Calls)
<1>1. IsFiniteSet(S) /\ IsFiniteSet(Calls) /\ Cardinality(S) <= Cardinality(Calls)
  BY CallsAssumption, FS_Subset
<1> QED BY <1>1, FS_CardinalityType

\* What restarts can have interrupted, one life later.
LEMMA OneLifeLater ==
    ASSUME life \in Nat \ {0}
    PROVE  /\ Interrupted \in Nat
           /\ life' = life + 1 => Interrupted' = Interrupted + Cardinality(Calls)
           /\ life' = life => Interrupted' = Interrupted
<1>1. Cardinality(Calls) \in Nat
  BY CallCount
<1>2. \A m, n \in Nat : (m * n) \in Nat /\ (m + 1) * n = m * n + n
  OBVIOUS
<1>3. life - 1 \in Nat
  OBVIOUS
<1>4. (life - 1) * Cardinality(Calls) \in Nat
  BY <1>1, <1>2, <1>3
<1>5. life' = life + 1 => life' - 1 = (life - 1) + 1
  OBVIOUS
<1>6. ((life - 1) + 1) * Cardinality(Calls) = (life - 1) * Cardinality(Calls) + Cardinality(Calls)
  BY <1>1, <1>2, <1>3
<1> QED BY <1>4, <1>5, <1>6 DEF Interrupted

\* What is owed is at most one for each call that owes it.
LEMMA OwedSizes ==
    /\ IsFiniteSet(KeysOwed) /\ Cardinality(KeysOwed) \in Nat
    /\ IsFiniteSet(EventsOwed) /\ Cardinality(EventsOwed) \in Nat
    /\ Cardinality(KeysOwed) <= Cardinality(Keying) /\ Cardinality(EventsOwed) <= Cardinality(Telling)
<1>1. Keying \in SUBSET Calls /\ Telling \in SUBSET Calls
  BY DEF Keying, Telling
<1>2. IsFiniteSet(Keying) /\ IsFiniteSet(Telling)
  BY <1>1, CallCount
<1>3. PICK g, h : g = [c \in Calls |-> req[c].org] /\ h = [c \in Calls |-> req[c].deed]
  OBVIOUS
<1>4. KeysOwed = {g[c] : c \in Keying} /\ EventsOwed = {h[c] : c \in Telling}
  BY <1>1, <1>3 DEF KeysOwed, EventsOwed
<1>5. /\ IsFiniteSet({g[c] : c \in Keying}) /\ Cardinality({g[c] : c \in Keying}) <= Cardinality(Keying)
      /\ IsFiniteSet({h[c] : c \in Telling}) /\ Cardinality({h[c] : c \in Telling}) <= Cardinality(Telling)
  BY <1>2, ImageSize
<1>6. IsFiniteSet(KeysOwed) /\ IsFiniteSet(EventsOwed)
  BY <1>4, <1>5
<1> QED BY <1>4, <1>5, <1>6, FS_CardinalityType

\* A set that is lost is no larger than what it is added from.
LEMMA AddedSize ==
    ASSUME NEW S, IsFiniteSet(S), NEW T, IsFiniteSet(T), NEW U, U \subseteq S \cup T
    PROVE  Cardinality(U) <= Cardinality(S) + Cardinality(T)
<1>1. IsFiniteSet(S \cup T) /\ Cardinality(S \cup T) = Cardinality(S) + Cardinality(T) - Cardinality(S \cap T)
  BY FS_Union
<1>2. IsFiniteSet(S \cap T)
  BY FS_Intersection
<1>3. Cardinality(S) \in Nat /\ Cardinality(T) \in Nat /\ Cardinality(S \cap T) \in Nat
  BY <1>2, FS_CardinalityType
<1>4. IsFiniteSet(U) /\ Cardinality(U) <= Cardinality(S \cup T)
  BY <1>1, FS_Subset
<1>5. Cardinality(U) \in Nat
  BY <1>4, FS_CardinalityType
<1> QED BY <1>1, <1>3, <1>4, <1>5

-----------------------------------------------------------------------------
\* A step that loses nothing, whether a request fails in it or not.
LEMMA LossesStay ==
    ASSUME AccessInv, AccessInv', Losses, UNCHANGED <<enforced, life>>, failures' \in {failures, failures + 1},
           ~enforced => Unkeyed' \subseteq Unkeyed /\ Untold' \subseteq Untold
    PROVE  Losses'
<1>1. failures \in Nat /\ life \in Nat \ {0} /\ Interrupted \in Nat /\ Interrupted' = Interrupted
  BY OneLifeLater DEF Losses
<1>2. CASE enforced
  BY <1>1, <1>2 DEF Losses
<1>3. CASE ~enforced
  <2>1. Unkeyed' \in SUBSET Unkeyed /\ Untold' \in SUBSET Untold
    BY <1>3
  <2>2. /\ IsFiniteSet(Unkeyed) /\ Cardinality(Unkeyed) \in Nat
        /\ IsFiniteSet(Untold) /\ Cardinality(Untold) \in Nat
    BY OwedFinite
  <2>3. /\ IsFiniteSet(Unkeyed') /\ Cardinality(Unkeyed') <= Cardinality(Unkeyed)
        /\ IsFiniteSet(Untold') /\ Cardinality(Untold') <= Cardinality(Untold)
    BY <2>1, <2>2, FS_Subset
  <2>4. Cardinality(Unkeyed') \in Nat /\ Cardinality(Untold') \in Nat
    BY <2>3, FS_CardinalityType
  <2>5. Cardinality(Unkeyed)' = Cardinality(Unkeyed') /\ Cardinality(Untold)' = Cardinality(Untold')
    OBVIOUS
  <2>6. Cardinality(Unkeyed) <= failures + Interrupted /\ Cardinality(Untold) <= failures + Interrupted
    BY <1>3 DEF Losses
  <2>7. Cardinality(Unkeyed)' <= failures' + Interrupted' /\ Cardinality(Untold)' <= failures' + Interrupted'
    BY <1>1, <2>2, <2>3, <2>4, <2>5, <2>6
  <2> QED BY <1>1, <2>7 DEF Losses
<1> QED BY <1>2, <1>3

\* A step that adds to what is lost: one failure, or one restart.
LEMMA LossesAdd ==
    ASSUME AccessInv, AccessInv', Losses, UNCHANGED enforced, NEW n \in Nat,
           failures' \in Nat, life' \in Nat \ {0}, failures' + Interrupted' = failures + Interrupted + n,
           NEW S, IsFiniteSet(S), Cardinality(S) <= n, Unkeyed' \subseteq Unkeyed \cup S,
           NEW T, IsFiniteSet(T), Cardinality(T) <= n, Untold' \subseteq Untold \cup T
    PROVE  Losses'
<1>1. failures \in Nat /\ Interrupted \in Nat
  BY OneLifeLater DEF Losses
<1>2. CASE enforced
  BY <1>2 DEF Losses
<1>3. CASE ~enforced
  <2>1. /\ IsFiniteSet(Unkeyed) /\ Cardinality(Unkeyed) \in Nat
        /\ IsFiniteSet(Untold) /\ Cardinality(Untold) \in Nat
    BY OwedFinite
  <2>2. /\ IsFiniteSet(Unkeyed') /\ Cardinality(Unkeyed') \in Nat
        /\ IsFiniteSet(Untold') /\ Cardinality(Untold') \in Nat
    <3>1. IsFiniteSet(Unkeyed \cup S) /\ IsFiniteSet(Untold \cup T)
      BY <2>1, FS_Union
    <3>2. IsFiniteSet(Unkeyed') /\ IsFiniteSet(Untold')
      BY <3>1, FS_Subset
    <3> QED BY <3>2, FS_CardinalityType
  <2>3. /\ Cardinality(Unkeyed') <= Cardinality(Unkeyed) + Cardinality(S)
        /\ Cardinality(Untold') <= Cardinality(Untold) + Cardinality(T)
    BY <2>1, AddedSize
  <2>4. Cardinality(S) \in Nat /\ Cardinality(T) \in Nat
    BY FS_CardinalityType
  <2>5. Cardinality(Unkeyed) <= failures + Interrupted /\ Cardinality(Untold) <= failures + Interrupted
    BY <1>3 DEF Losses
  <2>6. /\ Cardinality(Unkeyed') <= failures + Interrupted + n
        /\ Cardinality(Untold') <= failures + Interrupted + n
    BY <1>1, <2>1, <2>2, <2>3, <2>4, <2>5
  <2> QED BY <2>6 DEF Losses
<1> QED BY <1>2, <1>3

\* A call moves that owes nothing, before and after.
LEMMA NothingOwed ==
    ASSUME NEW c \in Calls, Alone(c), c \notin Telling,
           pc'[c] # "event" /\ (pc'[c] = "credential" => req'[c].op # "signup"),
           UNCHANGED <<orgs, creds, deeds, audit>>
    PROVE  Unkeyed' \subseteq Unkeyed /\ Untold' \subseteq Untold
<1>1. Keying' = Keying /\ Telling' = Telling
  BY DEF Keying, Telling, Alone
<1>2. \A d \in Telling : req'[d] = req[d]
  BY DEF Telling, Alone
<1>3. KeysOwed' = KeysOwed /\ EventsOwed' = EventsOwed
  BY <1>1, <1>2 DEF KeysOwed, EventsOwed, Keying, Telling
<1> QED BY <1>3 DEF Unkeyed, Untold, Keyless, Keyed

\* What the calls other than c owe, they owe still.
LEMMA OthersOwe ==
    ASSUME NEW c \in Calls, Alone(c)
    PROVE  /\ \A d \in Keying \ {c} : req[d].org \in KeysOwed'
           /\ \A d \in Telling \ {c} : req[d].deed \in EventsOwed'
<1>1. \A d \in Keying \ {c} : d \in Keying' /\ req'[d] = req[d]
  BY DEF Keying, Alone
<1>2. \A d \in Telling \ {c} : d \in Telling' /\ req'[d] = req[d]
  BY DEF Telling, Alone
<1> QED BY <1>1, <1>2 DEF KeysOwed, EventsOwed

\* A call's deed is new, and it owes its event.
LEMMA DeedOwed ==
    ASSUME NEW c \in Calls, Alone(c), c \notin Telling, c \in Telling',
           DOMAIN deeds' = DOMAIN deeds \cup {req'[c].deed}, UNCHANGED audit
    PROVE  Untold' \subseteq Untold
<1>1. req'[c].deed \in EventsOwed'
  BY DEF EventsOwed
<1>2. EventsOwed \subseteq EventsOwed'
  BY OthersOwe DEF EventsOwed
<1> QED BY <1>1, <1>2 DEF Untold

\* The organizations and the keys are as they were, and so is what is owed of keys.
LEMMA SameKeys ==
    ASSUME DOMAIN orgs' = DOMAIN orgs, \A o \in DOMAIN orgs : orgs'[o].signup = orgs[o].signup,
           DOMAIN creds' = DOMAIN creds, \A n \in DOMAIN creds : creds'[n].org = creds[n].org,
           KeysOwed \subseteq KeysOwed'
    PROVE  Unkeyed' \subseteq Unkeyed
<1>1. Keyed' = Keyed
  BY DEF Keyed
<1> QED BY <1>1 DEF Unkeyed, Keyless

-----------------------------------------------------------------------------
\* A call moves that owes nothing: what is lost is as it was.
LEMMA MoveLoses ==
    ASSUME AccessInv, AccessInv', Losses, NEW c \in Calls, Alone(c), c \notin Telling,
           pc'[c] # "event" /\ (pc'[c] = "credential" => req'[c].op # "signup"),
           UNCHANGED <<orgs, creds, deeds, audit, enforced, life>>, failures' \in {failures, failures + 1}
    PROVE  Losses'
  BY NothingOwed, LossesStay

\* No call moves.
LEMMA RestLoses ==
    ASSUME AccessInv, AccessInv', Losses, UNCHANGED <<pc, req, failures, orgs, creds, deeds, audit, enforced, life>>
    PROVE  Losses'
<1>1. Unkeyed' \subseteq Unkeyed /\ Untold' \subseteq Untold
  BY DEF Unkeyed, Untold, Keyless, Keyed, KeysOwed, EventsOwed, Keying, Telling
<1> QED BY <1>1, LossesStay

\* A call that asks Redis owes nothing yet.
LEMMA AskLoses ==
    ASSUME AccessInv, AccessInv', Losses, Aside, NEW c \in Calls, NEW key, NEW then, NEW r, AskRedis(c, key, then, r)
    PROVE  Losses'
<1>1. pc[c] = "idle" /\ pc'[c] = "incr" /\ Alone(c)
  BY DEF AskRedis, AccessInv, Requests, Alone
<1>2. c \notin Telling
  BY <1>1 DEF Telling
<1>3. UNCHANGED <<orgs, creds, deeds, audit, enforced, life>> /\ failures' = failures
  BY DEF AskRedis, Aside
<1> QED BY <1>1, <1>2, <1>3, MoveLoses

\* The limiters move calls that owe nothing.
LEMMA LimitsLose ==
    ASSUME AccessInv, AccessInv', Losses, LimitsNext, Aside
    PROVE  Losses'
<1>1. UNCHANGED <<orgs, creds, deeds, audit, enforced>>
  BY DEF Aside
<1>2. CASE \E c \in Calls : Ping(c)
  <2>1. PICK c \in Calls : Ping(c)
    BY <1>2
  <2>2. CASE AskRedis(c, <<"read">>, "idle", [op |-> "redis"])
    BY <2>2, AskLoses
  <2>3. CASE UNCHANGED <<pc, req, failures, life>>
    BY <1>1, <2>3, RestLoses
  <2> QED BY <2>1, <2>2, <2>3 DEF Ping, CountMemory, CountPerKey, CountRecent
<1>3. ASSUME NEW c \in Calls, pc[c] \in Asking, UNCHANGED life, failures' \in {failures, failures + 1},
             \/ pc' = [pc EXCEPT ![c] = "expire"] /\ UNCHANGED req
             \/ pc' = [pc EXCEPT ![c] = req[c].then] /\ UNCHANGED req
             \/ pc' = [pc EXCEPT ![c] = "idle"] /\ req' = [req EXCEPT ![c] = NoRequest]
      PROVE  Losses'
  <2>1. Alone(c) /\ c \notin Telling
    BY <1>3 DEF AccessInv, Requests, Alone, Telling, Asking
  <2>2. Waits(req[c])
    BY <1>3 DEF AccessInv, Requests, Ready
  <2>3. \/ pc'[c] \in {"expire", "idle"}
        \/ pc'[c] = req[c].then /\ req'[c] = req[c]
    BY <1>3 DEF AccessInv, Requests
  <2>4. pc'[c] # "event" /\ (pc'[c] = "credential" => req'[c].op # "signup")
    BY <2>2, <2>3 DEF Waits
  <2> QED BY <1>1, <1>3, <2>1, <2>4, MoveLoses
<1>4. ASSUME NEW c \in Calls, Incr(c) \/ Expire(c) \/ IncrUncounted(c) \/ LimiterFails(c) PROVE Losses'
  <2>1. pc[c] \in Asking /\ UNCHANGED life
    BY <1>4 DEF Incr, Expire, IncrUncounted, LimiterFails, Asking
  <2>2. failures' \in {failures, failures + 1}
    BY <1>4 DEF Incr, Expire, IncrUncounted, LimiterFails, Failing, Proceed
  <2>3. \/ pc' = [pc EXCEPT ![c] = "expire"] /\ UNCHANGED req
        \/ pc' = [pc EXCEPT ![c] = req[c].then] /\ UNCHANGED req
        \/ pc' = [pc EXCEPT ![c] = "idle"] /\ req' = [req EXCEPT ![c] = NoRequest]
    BY <1>4 DEF Incr, Expire, IncrUncounted, LimiterFails, Proceed
  <2> QED BY <1>3, <2>1, <2>2, <2>3
<1>5. CASE Tick
  BY <1>1, <1>5, RestLoses DEF Tick
<1> QED BY <1>2, <1>4, <1>5 DEF LimitsNext

\* Requests that enter owe nothing.
LEMMA BeginningsLose ==
    ASSUME AccessInv, AccessInv', Losses, NEW c \in Calls,
           BeginSignup(c) \/ BeginOrganization(c) \/ \E op \in TenantOps : BeginTenant(c, op)
    PROVE  Losses'
<1>1. Aside
  <2>1. CASE BeginSignup(c)
    BY <2>1 DEF BeginSignup, Aside
  <2>2. CASE BeginOrganization(c)
    BY <2>2 DEF BeginOrganization, Aside
  <2>3. ASSUME NEW op \in TenantOps, BeginTenant(c, op) PROVE Aside
    BY <2>3 DEF BeginTenant, Aside
  <2> QED BY <2>1, <2>2, <2>3
<1>2. UNCHANGED <<orgs, creds, deeds, audit, enforced>>
  BY <1>1 DEF Aside
<1>3. ASSUME NEW l, NEW r, Enter(c, l, r), UNCHANGED life, l # "event", l = "credential" => r.op # "signup"
      PROVE  Losses'
  <2>1. Alone(c) /\ c \notin Telling /\ pc'[c] = l /\ req'[c] = r /\ failures' = failures
    BY <1>3 DEF AccessInv, Requests, Alone, Telling
  <2> QED BY <1>2, <1>3, <2>1, MoveLoses
<1>4. CASE BeginOrganization(c)
  BY <1>3, <1>4 DEF BeginOrganization
<1>5. CASE BeginSignup(c)
  <2>1. CASE Enter(c, "organization", [op |-> "signup"]) /\ CountMemory
    <3>1. UNCHANGED life
      BY <2>1 DEF CountMemory
    <3>2. Enter(c, "organization", [op |-> "signup"])
      BY <2>1
    <3> QED BY <1>3, <3>1, <3>2
  <2>2. CASE AtOnce("signup") /\ CountMemory
    BY <1>2, <2>2, RestLoses DEF CountMemory
  <2>3. CASE AskRedis(c, <<"signup">>, "organization", [op |-> "signup"])
    BY <1>1, <2>3, AskLoses
  <2> QED BY <1>5, <2>1, <2>2, <2>3 DEF BeginSignup
<1>6. ASSUME NEW op \in TenantOps, BeginTenant(c, op) PROVE Losses'
  <2>1. PICK who \in Key \cup Membership \cup Headers, target \in Targets(op) :
          LET r == With(who, [op |-> op, target |-> target]) IN
          IF op \in Limited
          THEN \/ AskRedis(c, IF op = "key" THEN <<"cred", who.org>> ELSE <<"read", who.org>>, Entry(op), r)
               \/ limiting = "local" /\ Enter(c, Entry(op), r) /\ UNCHANGED limitVars
          ELSE Enter(c, Entry(op), r) /\ UNCHANGED limitVars
    BY <1>6 DEF BeginTenant
  <2>2. PICK r : r = With(who, [op |-> op, target |-> target])
    OBVIOUS
  <2>3. r.op = op
    BY <2>2 DEF With
  <2>4. Entry(op) # "event" /\ (Entry(op) = "credential" => r.op # "signup")
    BY <2>3 DEF Entry
  <2>5. CASE Enter(c, Entry(op), r) /\ UNCHANGED limitVars
    <3>1. Enter(c, Entry(op), r) /\ UNCHANGED life
      BY <2>5
    <3> QED BY <1>3, <2>4, <3>1
  <2>6. CASE AskRedis(c, IF op = "key" THEN <<"cred", who.org>> ELSE <<"read", who.org>>, Entry(op), r)
    BY <1>1, <2>6, AskLoses
  <2> QED BY <2>1, <2>2, <2>5, <2>6
<1> QED BY <1>4, <1>5, <1>6

\* The steps of calls that owe nothing and will owe nothing.
LEMMA OpeningsLose ==
    ASSUME AccessInv, AccessInv', Losses, NEW c \in Calls,
           OpenBootstrap(c) \/ OpenTenant(c) \/ Refuse(c) \/ ReadTenant(c)
    PROVE  Losses'
<1>1. /\ pc[c] \in {"organization", "tenant", "transaction"}
      /\ \/ pc' = [pc EXCEPT ![c] = "bootstrap"] /\ UNCHANGED req
         \/ pc' = [pc EXCEPT ![c] = "transaction"] /\ UNCHANGED req
         \/ pc' = [pc EXCEPT ![c] = "idle"] /\ req' = [req EXCEPT ![c] = NoRequest]
      /\ UNCHANGED <<orgs, creds, deeds, audit, enforced, life, failures>>
  BY DEF OpenBootstrap, OpenTenant, Refuse, ReadTenant
<1>2. Alone(c) /\ c \notin Telling /\ pc'[c] \in {"bootstrap", "transaction", "idle"}
  BY <1>1 DEF AccessInv, Requests, Alone, Telling
<1> QED BY <1>1, <1>2, MoveLoses

\* A new organization has no key and no event, and its call owes both.
LEMMA OrganizationOwes ==
    ASSUME AccessInv, AccessInv', Losses, NEW c \in Calls, CommitOrganization(c)
    PROVE  Losses'
<1>1. PICK org, n, l : /\ org = Len(orgs) + 1 /\ n = Len(deeds) + 1
                       /\ l = IF req[c].op = "signup" THEN "credential" ELSE "event"
  OBVIOUS
<1>2. PICK facts : facts = [org |-> org, target |-> SignupScopes, deed |-> n]
  OBVIOUS
<1>3. /\ orgs' = Append(orgs, [active |-> TRUE, signup |-> req[c].op = "signup"])
      /\ deeds' = Append(deeds, [op |-> req[c].op, org |-> org, late |-> Disabled(org)])
      /\ pc[c] = "bootstrap" /\ pc' = [pc EXCEPT ![c] = l]
      /\ req' = [req EXCEPT ![c] = With(req[c], facts)]
      /\ UNCHANGED <<creds, audit, enforced, life, failures>>
  BY <1>1, <1>2 DEF CommitOrganization, Deed
<1>4. /\ DOMAIN orgs' = DOMAIN orgs \cup {org} /\ \A o \in DOMAIN orgs : orgs'[o] = orgs[o]
      /\ orgs'[org] = [active |-> TRUE, signup |-> req[c].op = "signup"]
      /\ DOMAIN deeds' = DOMAIN deeds \cup {n}
  BY <1>1, <1>3, Appended DEF AccessInv, Tables
<1>5. pc'[c] = l /\ req'[c] = With(req[c], facts) /\ Alone(c) /\ c \notin Telling
  BY <1>3 DEF AccessInv, Requests, Alone, Telling
<1>6. req'[c].op = req[c].op /\ req'[c].org = org /\ req'[c].deed = n
  <2>1. "op" \in DOMAIN req[c]
    BY <1>3 DEF AccessInv, Requests, Ready, Fits
  <2> QED BY <1>2, <1>5, <2>1 DEF With
<1>7. c \in Telling' /\ (req[c].op = "signup" => c \in Keying')
  BY <1>1, <1>5, <1>6 DEF Telling, Keying
<1>8. Untold' \subseteq Untold
  BY <1>3, <1>4, <1>5, <1>6, <1>7, DeedOwed
<1>9. Unkeyed' \subseteq Unkeyed
  <2>1. Keyed' = Keyed
    BY <1>3 DEF Keyed
  <2>2. KeysOwed \subseteq KeysOwed'
    BY <1>5, OthersOwe DEF KeysOwed, Keying, Telling
  <2>3. req[c].op = "signup" => org \in KeysOwed'
    BY <1>6, <1>7 DEF KeysOwed
  <2>4. ASSUME NEW o \in Unkeyed' PROVE o \in Unkeyed
    <3>1. o \in DOMAIN orgs' /\ o \notin Keyed /\ orgs'[o].signup /\ o \notin KeysOwed'
      BY <2>1 DEF Unkeyed, Keyless
    <3>2. CASE o = org
      <4>1. orgs'[org].signup = (req[c].op = "signup")
        BY <1>4
      <4>2. org \notin KeysOwed' /\ orgs'[org].signup
        BY <3>1, <3>2
      <4>3. req[c].op = "signup"
        BY <4>1, <4>2, Zenon
      <4> QED BY <2>3, <4>2, <4>3
    <3>3. CASE o # org
      <4>1. o \in DOMAIN orgs /\ orgs'[o] = orgs[o]
        BY <1>4, <3>1, <3>3
      <4>2. orgs[o].signup /\ o \notin KeysOwed
        BY <2>2, <3>1, <4>1
      <4> QED BY <3>1, <4>1, <4>2 DEF Unkeyed, Keyless
    <3> QED BY <3>2, <3>3
  <2> QED BY <2>4
<1> QED BY <1>3, <1>8, <1>9, LossesStay

\* A new project has no event, and its call owes it.
LEMMA ProjectOwes ==
    ASSUME AccessInv, AccessInv', Losses, NEW c \in Calls, CommitProject(c)
    PROVE  Losses'
<1>1. PICK n : n = Len(deeds) + 1
  OBVIOUS
<1>2. /\ deeds' = Append(deeds, [op |-> "create", org |-> req[c].org, late |-> Disabled(req[c].org)])
      /\ pc[c] = "transaction" /\ pc' = [pc EXCEPT ![c] = "event"]
      /\ req' = [req EXCEPT ![c] = With(req[c], [deed |-> n])]
      /\ UNCHANGED <<orgs, creds, audit, enforced, life, failures>>
  BY <1>1 DEF CommitProject, Deed
<1>3. DOMAIN deeds' = DOMAIN deeds \cup {n}
  BY <1>1, <1>2, Appended DEF AccessInv, Tables
<1>4. Alone(c) /\ c \notin Telling /\ pc'[c] = "event" /\ req'[c] = With(req[c], [deed |-> n])
  BY <1>2 DEF AccessInv, Requests, Alone, Telling
<1>5. c \in Telling' /\ req'[c].deed = n
  BY <1>4 DEF Telling, With
<1>6. Untold' \subseteq Untold
  BY <1>2, <1>3, <1>4, <1>5, DeedOwed
<1>7. Unkeyed' \subseteq Unkeyed
  <2>1. KeysOwed \subseteq KeysOwed'
    BY <1>4, OthersOwe DEF KeysOwed, Keying, Telling
  <2> QED BY <1>2, <2>1, SameKeys
<1> QED BY <1>2, <1>6, <1>7, LossesStay

\* A key is what signup owed; a key of its own is a deed whose event is owed.
LEMMA KeyPays ==
    ASSUME AccessInv, AccessInv', Losses, NEW c \in Calls, InsertCredential(c)
    PROVE  Losses'
<1>1. /\ pc[c] = "credential" /\ UNCHANGED <<orgs, audit, enforced, life, failures>>
      /\ creds' = Append(creds, [org |-> req[c].org, scopes |-> req[c].target, active |-> TRUE])
  BY DEF InsertCredential
<1>2. Keyed' = Keyed \cup {req[c].org}
  <2>1. /\ DOMAIN creds' = DOMAIN creds \cup {Len(creds) + 1}
        /\ \A n \in DOMAIN creds : creds'[n] = creds[n]
        /\ creds'[Len(creds) + 1] = [org |-> req[c].org, scopes |-> req[c].target, active |-> TRUE]
    BY <1>1, Appended DEF AccessInv, Tables
  <2>2. \A n \in DOMAIN creds : creds'[n].org = creds[n].org
    BY <2>1
  <2> QED BY <2>1, <2>2 DEF Keyed
<1>3. pc'[c] = "event" /\ Alone(c)
  BY DEF InsertCredential, AccessInv, Requests, Alone
<1>4. Unkeyed' \subseteq Unkeyed
  <2>1. \A d \in Keying \ {c} : req[d].org \in KeysOwed'
    BY <1>3, OthersOwe
  <2>2. KeysOwed \subseteq KeysOwed' \cup {req[c].org}
    BY <2>1 DEF KeysOwed
  <2> QED BY <1>1, <1>2, <2>2 DEF Unkeyed, Keyless
<1>5. Untold' \subseteq Untold
  <2>1. CASE req[c].op = "signup" /\ Goto(c, "event") /\ UNCHANGED deeds
    <3>1. c \in Telling' /\ req'[c] = req[c]
      BY <1>3, <2>1 DEF Telling
    <3>2. EventsOwed \subseteq EventsOwed'
      BY <1>3, <3>1, OthersOwe DEF EventsOwed
    <3> QED BY <1>1, <2>1, <3>2 DEF Untold
  <2>2. CASE req[c].op # "signup" /\ Deed("key", req[c].org) /\ Note(c, [deed |-> Len(deeds) + 1], "event")
    <3>1. PICK n : n = Len(deeds) + 1
      OBVIOUS
    <3>2. DOMAIN deeds' = DOMAIN deeds \cup {n}
      BY <2>2, <3>1, Appended DEF AccessInv, Tables, Deed
    <3>3. req'[c] = With(req[c], [deed |-> n])
      BY <2>2, <3>1 DEF AccessInv, Requests
    <3>4. c \notin Telling /\ c \in Telling' /\ req'[c].deed = n
      BY <1>1, <1>3, <2>2, <3>3 DEF Telling, With
    <3> QED BY <1>1, <1>3, <3>2, <3>4, DeedOwed
  <2> QED BY <2>1, <2>2 DEF InsertCredential
<1> QED BY <1>1, <1>4, <1>5, LossesStay

\* A key that is revoked is still its organization's.
LEMMA RevokeOwes ==
    ASSUME AccessInv, AccessInv', Losses, NEW c \in Calls, Revoke(c)
    PROVE  Losses'
<1>1. PICK n, k : n = Len(deeds) + 1 /\ k = req[c].target
  OBVIOUS
<1>2. /\ pc[c] = "revoke" /\ UNCHANGED <<orgs, audit, enforced, life, failures>>
      /\ creds' = [creds EXCEPT ![k].active = FALSE]
      /\ deeds' = Append(deeds, [op |-> "revoke", org |-> creds[k].org, late |-> Disabled(creds[k].org)])
      /\ pc' = [pc EXCEPT ![c] = "event"] /\ req' = [req EXCEPT ![c] = With(req[c], [deed |-> n])]
  BY <1>1 DEF Revoke, Deed
<1>3. DOMAIN creds' = DOMAIN creds /\ \A j \in DOMAIN creds : creds'[j].org = creds[j].org
  <2>1. DOMAIN creds' = DOMAIN creds
    BY <1>2
  <2>2. ASSUME NEW j \in DOMAIN creds PROVE creds'[j].org = creds[j].org
    <3>1. "org" \in DOMAIN creds[j]
      BY DEF AccessInv, Tables
    <3> QED BY <1>2, <3>1
  <2> QED BY <2>1, <2>2
<1>4. DOMAIN deeds' = DOMAIN deeds \cup {n}
  BY <1>1, <1>2, Appended DEF AccessInv, Tables
<1>5. Alone(c) /\ c \notin Telling /\ pc'[c] = "event" /\ req'[c] = With(req[c], [deed |-> n])
  BY <1>2 DEF AccessInv, Requests, Alone, Telling
<1>6. c \in Telling' /\ req'[c].deed = n
  BY <1>5 DEF Telling, With
<1>7. Untold' \subseteq Untold
  BY <1>2, <1>4, <1>5, <1>6, DeedOwed
<1>8. Unkeyed' \subseteq Unkeyed
  <2>1. KeysOwed \subseteq KeysOwed'
    BY <1>5, OthersOwe DEF KeysOwed, Keying, Telling
  <2> QED BY <1>2, <1>3, <2>1, SameKeys
<1> QED BY <1>2, <1>7, <1>8, LossesStay

\* An event is appended, or the call ends otherwise.
LEMMA EventPays ==
    ASSUME AccessInv, AccessInv', Losses, NEW c \in Calls, AppendAudit(c)
    PROVE  Losses'
<1>1. /\ pc[c] = "event" /\ UNCHANGED <<orgs, creds, deeds, enforced, life, failures>>
      /\ audit' = audit \cup {req[c].deed} /\ Alone(c)
  BY DEF AppendAudit, AccessInv, Requests, Alone
<1>2. EventsOwed \subseteq EventsOwed' \cup {req[c].deed}
  BY <1>1, OthersOwe DEF EventsOwed
<1>3. KeysOwed \subseteq KeysOwed'
  BY <1>1, OthersOwe DEF KeysOwed, Keying
<1>4. Untold' \subseteq Untold
  BY <1>1, <1>2 DEF Untold
<1>5. Unkeyed' \subseteq Unkeyed
  BY <1>1, <1>3, SameKeys
<1> QED BY <1>1, <1>4, <1>5, LossesStay

\* The policies refuse statements only where they are enforced.
LEMMA UnseenLoses ==
    ASSUME AccessInv, AccessInv', Losses, NEW c \in Calls, Unseen(c)
    PROVE  Losses'
<1>1. /\ pc'[c] = "idle" /\ Alone(c)
      /\ UNCHANGED <<orgs, creds, deeds, audit, enforced, life, failures>>
  BY DEF Unseen, AccessInv, Requests, Alone
<1>2. CASE enforced
  BY <1>1, <1>2, LossesStay
<1>3. CASE ~enforced
  <2>1. \A org : ~OnPool(org, FALSE)
    BY <1>3 DEF OnPool, Visible
  <2>2. c \notin Telling
    BY <2>1 DEF Unseen, Telling
  <2> QED BY <1>1, <2>2, MoveLoses
<1> QED BY <1>2, <1>3

\* A failed statement loses what its call owed, one key and one event at most.
LEMMA FailureLoses ==
    ASSUME AccessInv, AccessInv', Losses, NEW c \in Calls, StatementFails(c)
    PROVE  Losses'
<1>1. /\ failures' = failures + 1 /\ UNCHANGED <<orgs, creds, deeds, audit, enforced, life>> /\ Alone(c)
  BY DEF StatementFails, Failing, AccessInv, Requests, Alone
<1>2. failures \in Nat /\ life \in Nat \ {0} /\ Interrupted \in Nat /\ Interrupted' = Interrupted
  BY <1>1, OneLifeLater DEF Losses
<1>3. PICK x, y : x = req[c].org /\ y = req[c].deed
  OBVIOUS
<1>4. Unkeyed' \subseteq Unkeyed \cup {x}
  <2>1. KeysOwed \subseteq KeysOwed' \cup {x}
    BY <1>1, <1>3, OthersOwe DEF KeysOwed
  <2> QED BY <1>1, <2>1 DEF Unkeyed, Keyless, Keyed
<1>5. Untold' \subseteq Untold \cup {y}
  <2>1. EventsOwed \subseteq EventsOwed' \cup {y}
    BY <1>1, <1>3, OthersOwe DEF EventsOwed
  <2> QED BY <1>1, <2>1 DEF Untold
<1>6. /\ IsFiniteSet({x}) /\ Cardinality({x}) <= 1 /\ IsFiniteSet({y}) /\ Cardinality({y}) <= 1
  <2>1. IsFiniteSet({x}) /\ Cardinality({x}) = 1 /\ IsFiniteSet({y}) /\ Cardinality({y}) = 1
    BY FS_Singleton
  <2>2. \A n : n = 1 => n <= 1
    OBVIOUS
  <2> QED BY <2>1, <2>2
<1>7. failures' \in Nat /\ life' \in Nat \ {0} /\ failures' + Interrupted' = failures + Interrupted + 1 /\ 1 \in Nat
  BY <1>1, <1>2
<1> QED BY <1>1, <1>4, <1>5, <1>6, <1>7, LossesAdd

\* An operator makes no organization and no key.
LEMMA OperateLoses ==
    ASSUME AccessInv, AccessInv', Losses, Operate
    PROVE  Losses'
<1>1. UNCHANGED <<pc, req, creds, deeds, audit, enforced, life, failures>>
  BY DEF Operate
<1>2. DOMAIN orgs' = DOMAIN orgs /\ \A o \in DOMAIN orgs : orgs'[o].signup = orgs[o].signup
  <2>1. CASE UNCHANGED orgs
    BY <2>1
  <2>2. CASE \E o \in DOMAIN orgs : orgs' = [orgs EXCEPT ![o].active = FALSE]
    <3>1. \A o \in DOMAIN orgs : "signup" \in DOMAIN orgs[o]
      BY DEF AccessInv, Tables
    <3> QED BY <2>2, <3>1
  <2> QED BY <2>1, <2>2 DEF Operate
<1>3. KeysOwed' = KeysOwed /\ EventsOwed' = EventsOwed
  BY <1>1 DEF KeysOwed, EventsOwed, Keying, Telling
<1>4. Unkeyed' \subseteq Unkeyed
  BY <1>1, <1>2, <1>3, SameKeys
<1>5. Untold' \subseteq Untold
  BY <1>1, <1>3 DEF Untold
<1> QED BY <1>1, <1>4, <1>5, LossesStay

\* A restart loses what all calls owed.
LEMMA RestartLoses ==
    ASSUME AccessInv, AccessInv', Losses, Restart
    PROVE  Losses'
<1>1. life' = life + 1 /\ UNCHANGED <<orgs, creds, deeds, audit, enforced, failures>>
  BY DEF Restart, Forget
<1>2. /\ failures \in Nat /\ life \in Nat \ {0} /\ Interrupted \in Nat
      /\ Interrupted' = Interrupted + Cardinality(Calls)
  BY <1>1, OneLifeLater DEF Losses
<1>3. PICK S, T : S = KeysOwed /\ T = EventsOwed
  OBVIOUS
<1>4. Unkeyed' \subseteq Unkeyed \cup S /\ Untold' \subseteq Untold \cup T
  BY <1>1, <1>3 DEF Unkeyed, Untold, Keyless, Keyed
<1>5. /\ IsFiniteSet(S) /\ Cardinality(S) \in Nat /\ Cardinality(S) <= Cardinality(Keying)
      /\ IsFiniteSet(T) /\ Cardinality(T) \in Nat /\ Cardinality(T) <= Cardinality(Telling)
  BY <1>3, OwedSizes
<1>6. /\ Cardinality(Keying) \in Nat /\ Cardinality(Keying) <= Cardinality(Calls)
      /\ Cardinality(Telling) \in Nat /\ Cardinality(Telling) <= Cardinality(Calls) /\ Cardinality(Calls) \in Nat
  <2>1. Keying \in SUBSET Calls /\ Telling \in SUBSET Calls
    BY DEF Keying, Telling
  <2> QED BY <2>1, CallCount
<1>7. PICK n \in Nat : n = Cardinality(Calls)
  BY <1>6
<1>8. Cardinality(S) <= n /\ Cardinality(T) <= n
  BY <1>5, <1>6, <1>7
<1>9. failures' \in Nat /\ life' \in Nat \ {0} /\ failures' + Interrupted' = failures + Interrupted + n
  BY <1>1, <1>2, <1>7
<1> QED BY <1>1, <1>4, <1>5, <1>8, <1>9, LossesAdd

\* The joint invariant with what has been lost.
LEMMA LossesStart == AccessInit => Losses
<1> SUFFICES ASSUME AccessInit PROVE Losses
  OBVIOUS
<1>1. failures = 0 /\ life = 1
  BY DEF AccessInit, CallsInit, LimitsInit
<1>2. Unkeyed = {} /\ Untold = {}
  BY DEF AccessInit, Unkeyed, Keyless, Untold
<1>3. Cardinality({}) = 0
  BY FS_EmptySet
<1>4. Interrupted \in Nat
  BY <1>1, OneLifeLater
<1> QED BY <1>1, <1>2, <1>3, <1>4 DEF Losses

\* Every step.
LEMMA LossesStep == AccessInv /\ AccessInv' /\ Losses /\ [Next]_vars => Losses'
<1> SUFFICES ASSUME AccessInv, AccessInv', Losses, [Next]_vars PROVE Losses'
  OBVIOUS
<1>1. CASE UNCHANGED vars
  BY <1>1, RestLoses DEF vars
<1>2. ASSUME NEW c \in Calls,
             BeginSignup(c) \/ BeginOrganization(c) \/ \E op \in TenantOps : BeginTenant(c, op)
      PROVE  Losses'
  BY <1>2, BeginningsLose
<1>3. ASSUME NEW c \in Calls, OpenBootstrap(c) \/ OpenTenant(c) \/ Refuse(c) \/ ReadTenant(c)
      PROVE  Losses'
  BY <1>3, OpeningsLose
<1>4. ASSUME NEW c \in Calls,
             \/ CommitOrganization(c) \/ CommitProject(c) \/ InsertCredential(c) \/ Revoke(c)
             \/ AppendAudit(c) \/ Unseen(c) \/ StatementFails(c)
      PROVE  Losses'
  BY <1>4, OrganizationOwes, ProjectOwes, KeyPays, RevokeOwes, EventPays, UnseenLoses, FailureLoses
<1>5. CASE LimitsNext /\ UNCHANGED <<rest, rows, conns, deeds, audit>>
  BY <1>5, LimitsLose DEF Aside
<1> QED BY <1>1, <1>2, <1>3, <1>4, <1>5, OperateLoses, RestartLoses DEF Next

\* Organizations without a key and changes without an event are calls under way, or were lost to
\* a failed statement or a restart: free signup and the routes that commit before they append
\* their event, wherever the policies refuse nothing.
THEOREM PartialIsBounded == Spec => []PartialOnlyByFailure
<1>1. AccessInv /\ Losses => PartialOnlyByFailure
  <2> SUFFICES ASSUME AccessInv, Losses, ~enforced PROVE PartialOnlyByFailure
    BY DEF PartialOnlyByFailure
  <2>1. PICK at, told : /\ at = {c \in Calls : At(c, "credential")}
                        /\ told = {c \in Calls : pc[c] \in {"credential", "event"}}
    OBVIOUS
  <2>2. /\ Cardinality(at) \in Nat /\ Cardinality(Keying) \in Nat /\ Cardinality(Keying) <= Cardinality(at)
        /\ Cardinality(told) \in Nat /\ Cardinality(Telling) \in Nat /\ Cardinality(Telling) <= Cardinality(told)
    <3>1. Keying \in SUBSET at /\ at \in SUBSET Calls /\ Telling \in SUBSET told /\ told \in SUBSET Calls
      BY <2>1 DEF Keying, Telling
    <3>2. IsFiniteSet(at) /\ IsFiniteSet(told)
      BY <3>1, CallCount
    <3>3. /\ IsFiniteSet(Keying) /\ Cardinality(Keying) <= Cardinality(at)
          /\ IsFiniteSet(Telling) /\ Cardinality(Telling) <= Cardinality(told)
      BY <3>1, <3>2, FS_Subset
    <3> QED BY <3>2, <3>3, FS_CardinalityType
  <2>3. /\ Cardinality(Keyless) <= Cardinality(Unkeyed) + Cardinality(KeysOwed)
        /\ Cardinality(DOMAIN deeds \ audit) <= Cardinality(Untold) + Cardinality(EventsOwed)
    <3>1. Keyless \subseteq Unkeyed \cup KeysOwed /\ DOMAIN deeds \ audit \subseteq Untold \cup EventsOwed
      BY DEF Unkeyed, Untold
    <3>2. IsFiniteSet(Unkeyed) /\ IsFiniteSet(Untold) /\ IsFiniteSet(KeysOwed) /\ IsFiniteSet(EventsOwed)
      BY OwedFinite, OwedSizes
    <3> QED BY <3>1, <3>2, AddedSize
  <2>4. Cardinality(Keyless) \in Nat /\ Cardinality(DOMAIN deeds \ audit) \in Nat
    <3>1. \A s : IsList(s) => IsFiniteSet(DOMAIN s)
      <4> SUFFICES ASSUME NEW s, IsList(s) PROVE IsFiniteSet(DOMAIN s)
        OBVIOUS
      <4>1. Len(s) \in Int /\ DOMAIN s = 1 .. Len(s) /\ 1 \in Int
        BY Indices
      <4> QED BY <4>1, FS_Interval
    <3>2. IsFiniteSet(DOMAIN orgs) /\ IsFiniteSet(DOMAIN deeds)
      BY <3>1 DEF AccessInv, Tables
    <3>3. Keyless \in SUBSET (DOMAIN orgs) /\ DOMAIN deeds \ audit \in SUBSET (DOMAIN deeds)
      BY DEF Keyless
    <3>4. IsFiniteSet(Keyless) /\ IsFiniteSet(DOMAIN deeds \ audit)
      BY <3>2, <3>3, FS_Subset
    <3> QED BY <3>4, FS_CardinalityType
  <2>5. /\ Cardinality(Unkeyed) \in Nat /\ Cardinality(Untold) \in Nat
        /\ Cardinality(KeysOwed) \in Nat /\ Cardinality(KeysOwed) <= Cardinality(Keying)
        /\ Cardinality(EventsOwed) \in Nat /\ Cardinality(EventsOwed) <= Cardinality(Telling)
    BY OwedFinite, OwedSizes
  <2>6. /\ failures + Interrupted \in Nat
        /\ Cardinality(Unkeyed) <= failures + Interrupted /\ Cardinality(Untold) <= failures + Interrupted
    BY OneLifeLater DEF Losses
  <2>7. /\ Cardinality(Keyless) <= Cardinality(at) + (failures + Interrupted)
        /\ Cardinality(DOMAIN deeds \ audit) <= Cardinality(told) + (failures + Interrupted)
    BY <2>2, <2>3, <2>4, <2>5, <2>6
  <2> QED BY <2>1, <2>7 DEF PartialOnlyByFailure, Keyless, Keyed
<1> QED BY <1>1, AccessStarts, AccessStep, LossesStart, LossesStep, PTL DEF Spec

-----------------------------------------------------------------------------
\* What has been changed in a disabled organization, and the calls authenticated for it that may
\* still change something.
Late(o) == {n \in DOMAIN deeds : deeds[n].org = o /\ deeds[n].late}
Able(o) == {c \in Calls : pc[c] \in Known \cup Asking /\ "org" \in DOMAIN req[c] /\ req[c].org = o}

\* A call that may still change a disabled organization takes the place of a change.
LateInv ==
    /\ \A n \in DOMAIN deeds : deeds[n].late => deeds[n].org \in DOMAIN orgs
    /\ \A o \in DOMAIN orgs :
        IF orgs[o].active THEN Late(o) = {}
        ELSE Cardinality(Late(o)) + Cardinality(Able(o)) <= Cardinality(Calls)

\* Changes are finitely many.
LEMMA LateFinite ==
    ASSUME Tables, NEW o
    PROVE  IsFiniteSet(Late(o)) /\ Cardinality(Late(o)) \in Nat
<1>1. Len(deeds) \in Int /\ DOMAIN deeds = 1 .. Len(deeds) /\ 1 \in Int
  BY Indices DEF Tables
<1>2. IsFiniteSet(DOMAIN deeds)
  BY <1>1, FS_Interval
<1>3. Late(o) \in SUBSET (DOMAIN deeds)
  BY DEF Late
<1>4. IsFiniteSet(Late(o))
  BY <1>2, <1>3, FS_Subset
<1> QED BY <1>4, FS_CardinalityType

\* No change, and no more calls that may change a disabled organization.
LEMMA LateStays ==
    ASSUME AccessInv, LateInv, UNCHANGED deeds, UNCHANGED orgs,
           \A o \in DOMAIN orgs : ~orgs[o].active => Able(o)' \subseteq Able(o)
    PROVE  LateInv'
<1>1. \A o : Late(o)' = Late(o)
  BY DEF Late
<1>2. ASSUME NEW o \in DOMAIN orgs, ~orgs[o].active
      PROVE  Cardinality(Late(o)') + Cardinality(Able(o)') <= Cardinality(Calls)
  <2>1. Able(o) \in SUBSET Calls /\ Able(o)' \in SUBSET Able(o)
    BY <1>2 DEF Able
  <2>2. /\ IsFiniteSet(Able(o)) /\ Cardinality(Able(o)) \in Nat /\ Cardinality(Calls) \in Nat
    BY <2>1, CallCount
  <2>3. IsFiniteSet(Able(o)') /\ Cardinality(Able(o)') <= Cardinality(Able(o))
    BY <2>1, <2>2, FS_Subset
  <2>4. Cardinality(Able(o)') \in Nat
    BY <2>3, FS_CardinalityType
  <2>5. Cardinality(Late(o)) \in Nat
    BY LateFinite DEF AccessInv
  <2>6. Cardinality(Late(o)) + Cardinality(Able(o)) <= Cardinality(Calls)
    BY <1>2 DEF LateInv
  <2> QED BY <1>1, <2>2, <2>3, <2>4, <2>5, <2>6
<1> QED BY <1>1, <1>2 DEF LateInv

\* One call moves: no longer able to change anything, or as able as it was.
LEMMA MoveLate ==
    ASSUME AccessInv, LateInv, UNCHANGED deeds, UNCHANGED orgs, NEW c \in Calls, Alone(c),
           \/ pc'[c] \notin Known \cup Asking
           \/ "org" \notin DOMAIN req'[c]
           \/ pc[c] \in Known \cup Asking /\ req'[c] = req[c]
           \/ req'[c].org \in DOMAIN orgs /\ orgs[req'[c].org].active
    PROVE  LateInv'
<1>1. \A o \in DOMAIN orgs : ~orgs[o].active => Able(o)' \subseteq Able(o)
  BY DEF Able, Alone
<1> QED BY <1>1, LateStays

\* No call moves.
LEMMA RestLate ==
    ASSUME AccessInv, LateInv, UNCHANGED <<pc, req, orgs, deeds>>
    PROVE  LateInv'
<1>1. \A o : Able(o)' = Able(o)
  BY DEF Able
<1> QED BY <1>1, LateStays

\* The call that makes a change can make no other.
LEMMA ChangeLate ==
    ASSUME AccessInv, LateInv, UNCHANGED orgs, NEW c \in Calls, Alone(c),
           pc[c] \in Known, pc'[c] = "event", NEW op,
           deeds' = Append(deeds, [op |-> op, org |-> req[c].org, late |-> Disabled(req[c].org)])
    PROVE  LateInv'
<1>1. PICK n, x, d : n = Len(deeds) + 1 /\ x = req[c].org /\ d = [op |-> op, org |-> x, late |-> Disabled(x)]
  OBVIOUS
<1>2. /\ DOMAIN deeds' = DOMAIN deeds \cup {n} /\ n \notin DOMAIN deeds
      /\ \A k \in DOMAIN deeds : deeds'[k] = deeds[k]
      /\ deeds'[n] = d
  BY <1>1, Appended DEF AccessInv, Tables
<1>3. d.org = x /\ d.late = Disabled(x)
  BY <1>1
<1>4. "org" \in DOMAIN req[c] /\ x \in DOMAIN orgs
  BY <1>1 DEF AccessInv, Requests, Ready, Fits
<1>5. Disabled(x) <=> ~orgs[x].active
  BY <1>4 DEF Disabled
<1>6. \A k \in DOMAIN deeds' : deeds'[k].late => deeds'[k].org \in DOMAIN orgs'
  BY <1>2, <1>3, <1>4 DEF LateInv
<1>7. c \in Able(x) /\ \A o : c \notin Able(o)' /\ Able(o)' \subseteq Able(o) \ {c}
  <2>1. "event" \notin Known \cup Asking
    BY DEF Known, Asking
  <2>2. \A o : c \notin Able(o)' /\ Able(o)' \subseteq Able(o) \ {c}
    BY <2>1 DEF Able, Alone
  <2> QED BY <1>1, <1>4, <2>2 DEF Able
<1>8. \A o : Late(o)' = IF o = x /\ Disabled(x) THEN Late(o) \cup {n} ELSE Late(o)
  <2>1. SUFFICES ASSUME NEW o PROVE Late(o)' = IF o = x /\ Disabled(x) THEN Late(o) \cup {n} ELSE Late(o)
    OBVIOUS
  <2>2. \A k : k \in Late(o)' <=> k \in DOMAIN deeds' /\ deeds'[k].org = o /\ deeds'[k].late
    BY DEF Late
  <2>3. n \in Late(o)' <=> o = x /\ Disabled(x)
    BY <1>2, <1>3, <2>2
  <2>4. \A k \in DOMAIN deeds : k \in Late(o)' <=> k \in Late(o)
    BY <1>2, <2>2 DEF Late
  <2>5. Late(o)' \subseteq DOMAIN deeds \cup {n} /\ Late(o) \subseteq DOMAIN deeds
    BY <1>2 DEF Late
  <2>6. CASE o = x /\ Disabled(x)
    <3>1. n \in Late(o)'
      BY <2>3, <2>6
    <3>2. Late(o)' = Late(o) \cup {n}
      BY <1>2, <2>4, <2>5, <3>1
    <3> QED BY <2>6, <3>2
  <2>7. CASE ~(o = x /\ Disabled(x))
    <3>1. n \notin Late(o)'
      BY <2>3, <2>7
    <3>2. Late(o)' = Late(o)
      BY <1>2, <2>4, <2>5, <3>1
    <3> QED BY <2>7, <3>2
  <2> QED BY <2>6, <2>7
<1>9. ASSUME NEW o \in DOMAIN orgs, orgs[o].active PROVE Late(o)' = {}
  BY <1>5, <1>8, <1>9 DEF LateInv
<1>10. ASSUME NEW o \in DOMAIN orgs, ~orgs[o].active
       PROVE  Cardinality(Late(o)') + Cardinality(Able(o)') <= Cardinality(Calls)
  <2>1. Able(o) \in SUBSET Calls
    BY DEF Able
  <2>2. IsFiniteSet(Able(o)) /\ Cardinality(Able(o)) \in Nat /\ Cardinality(Calls) \in Nat
    BY <2>1, CallCount
  <2>3. IsFiniteSet(Late(o)) /\ Cardinality(Late(o)) \in Nat
    BY LateFinite DEF AccessInv
  <2>4. Cardinality(Late(o)) + Cardinality(Able(o)) <= Cardinality(Calls)
    BY <1>10 DEF LateInv
  <2>5. IsFiniteSet(Able(o) \ {c}) /\ Cardinality(Able(o) \ {c}) = IF c \in Able(o) THEN Cardinality(Able(o)) - 1 ELSE Cardinality(Able(o))
    BY <2>2, FS_RemoveElement
  <2>6. IsFiniteSet(Able(o)') /\ Cardinality(Able(o)') <= Cardinality(Able(o) \ {c})
    BY <1>7, <2>5, FS_Subset
  <2>7. Cardinality(Able(o)') \in Nat
    BY <2>6, FS_CardinalityType
  <2>8. CASE o = x
    <3>1. c \in Able(o) /\ Late(o)' = Late(o) \cup {n} /\ n \notin Late(o)
      BY <1>2, <1>5, <1>7, <1>8, <1>10, <2>8 DEF Late
    <3>2. Cardinality(Late(o)') = Cardinality(Late(o)) + 1
      BY <2>3, <3>1, FS_AddElement
    <3>3. Cardinality(Able(o)') <= Cardinality(Able(o)) - 1
      BY <2>2, <2>5, <2>6, <2>7, <3>1
    <3> QED BY <2>2, <2>3, <2>4, <2>7, <3>2, <3>3
  <2>9. CASE o # x
    <3>1. Late(o)' = Late(o)
      BY <1>8, <2>9
    <3>2. Cardinality(Able(o)') <= Cardinality(Able(o))
      BY <2>2, <2>5, <2>6, <2>7
    <3> QED BY <2>2, <2>3, <2>4, <2>7, <3>1, <3>2
  <2> QED BY <2>8, <2>9
<1> QED BY <1>6, <1>9, <1>10 DEF LateInv

\* A new organization is active, and nothing has been changed in it.
LEMMA FoundingLate ==
    ASSUME AccessInv, LateInv, NEW c \in Calls, CommitOrganization(c)
    PROVE  LateInv'
<1>1. PICK x, n, l, d : /\ x = Len(orgs) + 1 /\ n = Len(deeds) + 1
                        /\ l = IF req[c].op = "signup" THEN "credential" ELSE "event"
                        /\ d = [op |-> req[c].op, org |-> x, late |-> Disabled(x)]
  OBVIOUS
<1>2. PICK facts : facts = [org |-> x, target |-> SignupScopes, deed |-> n]
  OBVIOUS
<1>3. /\ orgs' = Append(orgs, [active |-> TRUE, signup |-> req[c].op = "signup"])
      /\ deeds' = Append(deeds, d)
      /\ pc[c] = "bootstrap" /\ pc' = [pc EXCEPT ![c] = l]
      /\ req' = [req EXCEPT ![c] = With(req[c], facts)]
  BY <1>1, <1>2 DEF CommitOrganization, Deed
<1>4. /\ DOMAIN orgs' = DOMAIN orgs \cup {x} /\ x \notin DOMAIN orgs
      /\ \A o \in DOMAIN orgs : orgs'[o] = orgs[o]
      /\ orgs'[x].active
  BY <1>1, <1>3, Appended DEF AccessInv, Tables
<1>5. /\ DOMAIN deeds' = DOMAIN deeds \cup {n} /\ n \notin DOMAIN deeds
      /\ \A k \in DOMAIN deeds : deeds'[k] = deeds[k]
      /\ deeds'[n] = d
  BY <1>1, <1>3, Appended DEF AccessInv, Tables
<1>6. ~d.late
  BY <1>1, <1>4 DEF Disabled
<1>7. \A o : Late(o)' = Late(o)
  BY <1>5, <1>6 DEF Late
<1>8. Late(x) = {}
  BY <1>4 DEF Late, LateInv
<1>9. Alone(c) /\ req'[c].org = x
  <2>1. Alone(c) /\ req'[c] = With(req[c], facts)
    BY <1>3 DEF AccessInv, Requests, Alone
  <2> QED BY <1>2, <2>1 DEF With
<1>10. ASSUME NEW o \in DOMAIN orgs, ~orgs[o].active
       PROVE  Cardinality(Late(o)') + Cardinality(Able(o)') <= Cardinality(Calls)
  <2>1. Able(o) \in SUBSET Calls /\ Able(o)' \in SUBSET Able(o)
    BY <1>4, <1>9 DEF Able, Alone
  <2>2. /\ IsFiniteSet(Able(o)) /\ Cardinality(Able(o)) \in Nat /\ Cardinality(Calls) \in Nat
    BY <2>1, CallCount
  <2>3. IsFiniteSet(Able(o)') /\ Cardinality(Able(o)') <= Cardinality(Able(o))
    BY <2>1, <2>2, FS_Subset
  <2>4. Cardinality(Able(o)') \in Nat
    BY <2>3, FS_CardinalityType
  <2>5. Cardinality(Late(o)) \in Nat
    BY LateFinite DEF AccessInv
  <2>6. Cardinality(Late(o)) + Cardinality(Able(o)) <= Cardinality(Calls)
    BY <1>10 DEF LateInv
  <2> QED BY <1>7, <2>2, <2>3, <2>4, <2>5, <2>6
<1>11. \A k \in DOMAIN deeds' : deeds'[k].late => deeds'[k].org \in DOMAIN orgs'
  BY <1>4, <1>5, <1>6 DEF LateInv
<1> QED BY <1>4, <1>7, <1>8, <1>10, <1>11 DEF LateInv

\* Requests are let in for active organizations only, unless the deployment is for development.
LEMMA BeginningsLate ==
    ASSUME AccessInv, LateInv, ~dev, NEW c \in Calls,
           BeginSignup(c) \/ BeginOrganization(c) \/ \E op \in TenantOps : BeginTenant(c, op)
    PROVE  LateInv'
<1>1. ASSUME NEW l, NEW r, Enter(c, l, r), UNCHANGED <<orgs, deeds>>,
             "org" \in DOMAIN r => r.org \in DOMAIN orgs /\ orgs[r.org].active
      PROVE  LateInv'
  <2>1. Alone(c) /\ req'[c] = r
    BY <1>1 DEF AccessInv, Requests, Alone
  <2> QED BY <1>1, <2>1, MoveLate
<1>2. ASSUME NEW key, NEW then, NEW r, AskRedis(c, key, then, r), UNCHANGED <<orgs, deeds>>,
             "org" \in DOMAIN r => r.org \in DOMAIN orgs /\ orgs[r.org].active
      PROVE  LateInv'
  <2>1. PICK q : q = With(r, [key |-> key, then |-> then, nth |-> Len(arrivals) + 1])
    OBVIOUS
  <2>2. Enter(c, "incr", q)
    BY <1>2, <2>1 DEF AskRedis
  <2>3. "org" \in DOMAIN q => "org" \in DOMAIN r /\ q.org = r.org
    BY <2>1 DEF With
  <2> QED BY <1>1, <1>2, <2>2, <2>3
<1>3. CASE BeginSignup(c)
  <2>1. UNCHANGED <<orgs, deeds>>
    BY <1>3 DEF BeginSignup
  <2>2. CASE AskRedis(c, <<"signup">>, "organization", [op |-> "signup"])
    BY <1>2, <2>1, <2>2
  <2>3. CASE Enter(c, "organization", [op |-> "signup"])
    BY <1>1, <2>1, <2>3
  <2>4. CASE AtOnce("signup")
    BY <2>1, <2>4, RestLate
  <2> QED BY <1>3, <2>2, <2>3, <2>4 DEF BeginSignup
<1>4. CASE BeginOrganization(c)
  BY <1>4 DEF BeginOrganization
<1>5. ASSUME NEW op \in TenantOps, BeginTenant(c, op) PROVE LateInv'
  <2>1. PICK who \in Key \cup Membership \cup Headers, target \in Targets(op) :
          LET r == With(who, [op |-> op, target |-> target]) IN
          IF op \in Limited
          THEN \/ AskRedis(c, IF op = "key" THEN <<"cred", who.org>> ELSE <<"read", who.org>>, Entry(op), r)
               \/ limiting = "local" /\ Enter(c, Entry(op), r) /\ UNCHANGED limitVars
          ELSE Enter(c, Entry(op), r) /\ UNCHANGED limitVars
    BY <1>5 DEF BeginTenant
  <2>2. PICK r : r = With(who, [op |-> op, target |-> target])
    OBVIOUS
  <2>3. UNCHANGED <<orgs, deeds>>
    BY <1>5 DEF BeginTenant
  <2>4. who.org \in DOMAIN orgs /\ orgs[who.org].active
    <3>1. Headers = {}
      BY DEF Headers
    <3>2. CASE who \in Key
      BY <3>2, CallerKnown DEF Key, AccessInv
    <3>3. CASE who \in Membership
      BY <3>3, CallerKnown DEF Membership, AccessInv
    <3> QED BY <3>1, <3>2, <3>3
  <2>5. r.org = who.org
    <3>1. {"org", "role", "scopes"} = DOMAIN who
      BY CallerKnown DEF AccessInv
    <3> QED BY <2>2, <3>1 DEF With
  <2>6. CASE Enter(c, Entry(op), r)
    BY <1>1, <2>3, <2>4, <2>5, <2>6
  <2>7. CASE AskRedis(c, IF op = "key" THEN <<"cred", who.org>> ELSE <<"read", who.org>>, Entry(op), r)
    BY <1>2, <2>3, <2>4, <2>5, <2>7
  <2> QED BY <2>1, <2>2, <2>6, <2>7
<1> QED BY <1>3, <1>4, <1>5

\* The limiters move calls that go on as able as they were, or end.
LEMMA LimitsLate ==
    ASSUME AccessInv, LateInv, LimitsNext, Aside
    PROVE  LateInv'
<1>1. UNCHANGED orgs /\ UNCHANGED deeds
  BY DEF Aside
<1>2. ASSUME NEW c \in Calls, Ping(c) PROVE LateInv'
  <2>1. CASE AskRedis(c, <<"read">>, "idle", [op |-> "redis"])
    <3>1. PICK q : q = With([op |-> "redis"], [key |-> <<"read">>, then |-> "idle", nth |-> Len(arrivals) + 1])
      OBVIOUS
    <3>2. "org" \notin DOMAIN q
      BY <3>1 DEF With
    <3>3. Alone(c) /\ req'[c] = q
      BY <2>1, <3>1 DEF AskRedis, AccessInv, Requests, Alone
    <3> QED BY <1>1, <3>2, <3>3, MoveLate
  <2>2. CASE UNCHANGED <<pc, req>>
    BY <1>1, <2>2, RestLate
  <2> QED BY <1>2, <2>1, <2>2 DEF Ping
<1>3. ASSUME NEW c \in Calls, Incr(c) \/ Expire(c) \/ IncrUncounted(c) \/ LimiterFails(c) PROVE LateInv'
  <2>1. pc[c] \in Asking
    BY <1>3 DEF Incr, Expire, IncrUncounted, LimiterFails, Asking
  <2>2. \/ pc' = [pc EXCEPT ![c] = "expire"] /\ UNCHANGED req
        \/ pc' = [pc EXCEPT ![c] = req[c].then] /\ UNCHANGED req
        \/ pc' = [pc EXCEPT ![c] = "idle"] /\ req' = [req EXCEPT ![c] = NoRequest]
    BY <1>3 DEF Incr, Expire, IncrUncounted, LimiterFails, Proceed
  <2>3. Alone(c) /\ (pc'[c] = "idle" \/ req'[c] = req[c]) /\ "idle" \notin Known \cup Asking
    BY <2>2 DEF AccessInv, Requests, Alone, Known, Asking
  <2> QED BY <1>1, <2>1, <2>3, MoveLate
<1>4. CASE Tick
  BY <1>1, <1>4, RestLate DEF Tick
<1> QED BY <1>2, <1>3, <1>4 DEF LimitsNext

\* The other steps of a call.
LEMMA StepsLate ==
    ASSUME AccessInv, LateInv, NEW c \in Calls,
           \/ OpenBootstrap(c) \/ OpenTenant(c) \/ Refuse(c) \/ ReadTenant(c) \/ CommitProject(c)
           \/ InsertCredential(c) \/ Revoke(c) \/ AppendAudit(c) \/ Unseen(c) \/ StatementFails(c)
    PROVE  LateInv'
<1>1. CASE OpenBootstrap(c) \/ OpenTenant(c)
  <2>1. /\ UNCHANGED orgs /\ UNCHANGED deeds /\ UNCHANGED req
        /\ \/ pc' = [pc EXCEPT ![c] = "bootstrap"]
           \/ pc[c] = "tenant" /\ pc' = [pc EXCEPT ![c] = "transaction"]
    BY <1>1 DEF OpenBootstrap, OpenTenant
  <2>2. Alone(c) /\ req'[c] = req[c] /\ (pc'[c] = "bootstrap" \/ pc[c] = "tenant")
    BY <2>1 DEF AccessInv, Requests, Alone
  <2>3. "bootstrap" \notin Known \cup Asking /\ "tenant" \in Known
    BY DEF Known, Asking
  <2> QED BY <2>1, <2>2, <2>3, MoveLate
<1>2. CASE Refuse(c) \/ ReadTenant(c) \/ AppendAudit(c) \/ Unseen(c) \/ StatementFails(c)
  <2>1. /\ UNCHANGED orgs /\ UNCHANGED deeds
        /\ pc' = [pc EXCEPT ![c] = "idle"] /\ req' = [req EXCEPT ![c] = NoRequest]
    BY <1>2 DEF Refuse, ReadTenant, AppendAudit, Unseen, StatementFails
  <2>2. Alone(c) /\ pc'[c] = "idle" /\ "idle" \notin Known \cup Asking
    BY <2>1 DEF AccessInv, Requests, Alone, Known, Asking
  <2> QED BY <2>1, <2>2, MoveLate
<1>3. ASSUME NEW op, Deed(op, req[c].org), pc[c] \in Known, pc' = [pc EXCEPT ![c] = "event"],
             NEW r, req' = [req EXCEPT ![c] = r], UNCHANGED orgs
      PROVE  LateInv'
  <2>1. Alone(c) /\ pc'[c] = "event"
    BY <1>3 DEF AccessInv, Requests, Alone
  <2>2. deeds' = Append(deeds, [op |-> op, org |-> req[c].org, late |-> Disabled(req[c].org)])
    BY <1>3 DEF Deed
  <2> QED BY <1>3, <2>1, <2>2, ChangeLate
<1>4. CASE CommitProject(c)
  <2>1. pc[c] \in Known
    BY <1>4 DEF CommitProject, Known
  <2> QED BY <1>3, <1>4, <2>1 DEF CommitProject
<1>5. CASE InsertCredential(c)
  <2>1. pc[c] \in Known /\ UNCHANGED orgs
    BY <1>5 DEF InsertCredential, Known
  <2>2. CASE Goto(c, "event") /\ UNCHANGED deeds
    <3>1. Alone(c) /\ pc'[c] = "event" /\ "event" \notin Known \cup Asking
      BY <2>2 DEF AccessInv, Requests, Alone, Known, Asking
    <3> QED BY <2>1, <2>2, <3>1, MoveLate
  <2>3. CASE Deed("key", req[c].org) /\ Note(c, [deed |-> Len(deeds) + 1], "event")
    BY <1>3, <2>1, <2>3
  <2> QED BY <1>5, <2>2, <2>3 DEF InsertCredential
<1>6. CASE Revoke(c)
  <2>1. pc[c] \in Known /\ UNCHANGED orgs
    BY <1>6 DEF Revoke, Known
  <2>2. Deed("revoke", req[c].org)
    BY <1>6 DEF Revoke
  <2> QED BY <1>3, <1>6, <2>1, <2>2 DEF Revoke
<1> QED BY <1>1, <1>2, <1>4, <1>5, <1>6

\* An organization that is disabled has as many calls under way as there can be, and no late change.
LEMMA OperateLate ==
    ASSUME AccessInv, LateInv, Operate
    PROVE  LateInv'
<1>1. UNCHANGED <<pc, req, deeds>>
  BY DEF Operate
<1>2. CASE UNCHANGED orgs
  BY <1>1, <1>2, RestLate
<1>3. CASE \E o \in DOMAIN orgs : orgs' = [orgs EXCEPT ![o].active = FALSE]
  <2>1. PICK x \in DOMAIN orgs : orgs' = [orgs EXCEPT ![x].active = FALSE]
    BY <1>3
  <2>2. /\ DOMAIN orgs' = DOMAIN orgs
        /\ \A o \in DOMAIN orgs \ {x} : orgs'[o] = orgs[o]
    BY <2>1
  <2>3. \A o : Late(o)' = Late(o) /\ Able(o)' = Able(o)
    BY <1>1 DEF Late, Able
  <2>4. ASSUME NEW o \in DOMAIN orgs, ~orgs'[o].active
        PROVE  Cardinality(Late(o)') + Cardinality(Able(o)') <= Cardinality(Calls)
    <3>1. CASE orgs[o].active
      <4>1. Late(o) = {}
        BY <3>1 DEF LateInv
      <4>2. Able(o) \in SUBSET Calls
        BY DEF Able
      <4>3. Cardinality(Able(o)) \in Nat /\ Cardinality(Calls) \in Nat /\ Cardinality(Able(o)) <= Cardinality(Calls)
        BY <4>2, CallCount
      <4>4. Cardinality({}) = 0
        BY FS_EmptySet
      <4> QED BY <2>3, <4>1, <4>3, <4>4
    <3>2. CASE ~orgs[o].active
      BY <2>3, <3>2 DEF LateInv
    <3> QED BY <3>1, <3>2
  <2>5. ASSUME NEW o \in DOMAIN orgs, orgs'[o].active PROVE Late(o)' = {}
    <3>1. CASE o = x
      <4>1. ~orgs'[o].active
        BY <2>1, <3>1 DEF AccessInv, Tables
      <4> QED BY <2>5, <4>1
    <3>2. CASE o # x
      BY <2>2, <2>3, <2>5, <3>2 DEF LateInv
    <3> QED BY <3>1, <3>2
  <2>6. \A n \in DOMAIN deeds' : deeds'[n].late => deeds'[n].org \in DOMAIN orgs'
    BY <1>1, <2>2 DEF LateInv
  <2> QED BY <2>2, <2>4, <2>5, <2>6 DEF LateInv
<1> QED BY <1>2, <1>3 DEF Operate

\* Nothing is under way after a restart.
LEMMA RestartLate ==
    ASSUME AccessInv, LateInv, Restart
    PROVE  LateInv'
<1>1. UNCHANGED orgs /\ UNCHANGED deeds /\ pc' = [c \in Calls |-> "idle"]
  BY DEF Restart
<1>2. \A o : Able(o)' = {}
  BY <1>1 DEF Able, Known, Asking
<1> QED BY <1>1, <1>2, LateStays

\* A disabled organization is changed by no more requests than were under way: requireAuth asks for
\* its status once, and whatever happens between that and the statements of a handler, for any
\* number of calls, connections, organizations and keys, a request makes one change at most.
THEOREM LateIsBounded == Spec => []LateChangesBounded
<1>1. AccessInit => (dev \/ LateInv)
  <2>1. AccessInit => DOMAIN deeds = {} /\ DOMAIN orgs = {}
    BY DEF AccessInit
  <2> QED BY <2>1 DEF LateInv
<1>2. AccessInv /\ (dev \/ LateInv) /\ [Next]_vars => (dev \/ LateInv)'
  <2> SUFFICES ASSUME AccessInv, dev \/ LateInv, [Next]_vars, ~dev' PROVE LateInv'
    OBVIOUS
  <2>1. dev' = dev
    <3>1. ASSUME NEW c \in Calls,
                 \/ BeginSignup(c) \/ BeginOrganization(c) \/ OpenBootstrap(c) \/ CommitOrganization(c)
                 \/ OpenTenant(c) \/ Refuse(c) \/ ReadTenant(c) \/ CommitProject(c) \/ InsertCredential(c)
                 \/ Revoke(c) \/ AppendAudit(c) \/ Unseen(c) \/ StatementFails(c)
          PROVE  dev' = dev
      BY <3>1 DEF BeginSignup, BeginOrganization, OpenBootstrap, CommitOrganization, OpenTenant, Refuse,
                  ReadTenant, CommitProject, InsertCredential, Revoke, AppendAudit, Unseen, StatementFails
    <3>2. ASSUME NEW c \in Calls, NEW op \in TenantOps, BeginTenant(c, op) PROVE dev' = dev
      BY <3>2 DEF BeginTenant
    <3> QED BY <3>1, <3>2 DEF Next, Operate, Restart, vars
  <2>2. LateInv /\ ~dev
    BY <2>1
  <2>3. CASE UNCHANGED vars
    BY <2>2, <2>3, RestLate DEF vars
  <2>4. ASSUME NEW c \in Calls,
               BeginSignup(c) \/ BeginOrganization(c) \/ \E op \in TenantOps : BeginTenant(c, op)
        PROVE  LateInv'
    BY <2>2, <2>4, BeginningsLate
  <2>5. ASSUME NEW c \in Calls,
               \/ OpenBootstrap(c) \/ OpenTenant(c) \/ Refuse(c) \/ ReadTenant(c) \/ CommitProject(c)
               \/ InsertCredential(c) \/ Revoke(c) \/ AppendAudit(c) \/ Unseen(c) \/ StatementFails(c)
        PROVE  LateInv'
    BY <2>2, <2>5, StepsLate
  <2>6. CASE LimitsNext /\ UNCHANGED <<rest, rows, conns, deeds, audit>>
    BY <2>2, <2>6, LimitsLate DEF Aside
  <2> QED BY <2>2, <2>3, <2>4, <2>5, <2>6, FoundingLate, OperateLate, RestartLate DEF Next
<1>3. AccessInv /\ (dev \/ LateInv) => LateChangesBounded
  <2> SUFFICES ASSUME AccessInv, LateInv, NEW o \in DOMAIN orgs
               PROVE  Cardinality(Late(o)) <= Cardinality(Calls)
    BY DEF LateChangesBounded, Late
  <2>1. Able(o) \in SUBSET Calls
    BY DEF Able
  <2>2. Cardinality(Able(o)) \in Nat /\ Cardinality(Calls) \in Nat
    BY <2>1, CallCount
  <2>3. Cardinality(Late(o)) \in Nat
    BY LateFinite DEF AccessInv
  <2>4. Cardinality({}) = 0
    BY FS_EmptySet
  <2> QED BY <2>2, <2>3, <2>4 DEF LateInv
<1> QED BY <1>1, <1>2, <1>3, AccessAlways, PTL DEF Spec

-----------------------------------------------------------------------------
\* The slot of an instant starts no later and ends after it.
LEMMA SlotEnds == \A t \in Nat : Slot(t) \in Nat /\ Window * Slot(t) <= t /\ t < Window * Slot(t) + Window
<1> SUFFICES ASSUME NEW t \in Nat
             PROVE  Slot(t) \in Nat /\ Window * Slot(t) <= t /\ t < Window * Slot(t) + Window
  OBVIOUS
<1>1. Window \in Nat /\ Window > 0
  BY WindowAssumption
<1>2. t \div Window \in Int /\ Window * (t \div Window) <= t /\ t < Window * (t \div Window) + Window
  BY <1>1
<1>3. t \div Window >= 0
  BY <1>1, <1>2
<1> QED BY <1>2, <1>3 DEF Slot

\* Later instants are in later slots, those of one window in the same slot or the next.
LEMMA SlotsFollow ==
    ASSUME NEW s \in Nat, NEW t \in Nat, s <= t
    PROVE  Slot(s) <= Slot(t) /\ (t < s + Window => Slot(t) <= Slot(s) + 1)
<1>1. PICK p \in Nat, q \in Nat, W \in Nat : p = Slot(s) /\ q = Slot(t) /\ W = Window
  BY SlotEnds, WindowAssumption
<1>2. W > 0 /\ W * p <= s /\ s < W * p + W /\ W * q <= t /\ t < W * q + W
  BY <1>1, SlotEnds, WindowAssumption
<1>3. ASSUME p > q PROVE FALSE
  <2>1. PICK d \in Nat : p = q + 1 + d
    BY <1>3
  <2>2. W * p = W * q + W + W * d /\ W * d \in Nat
    BY <2>1
  <2> QED BY <1>2, <2>2
<1>4. ASSUME t < s + W, q > p + 1 PROVE FALSE
  <2>1. PICK d \in Nat : q = p + 2 + d
    BY <1>4
  <2>2. W * q = W * p + W + W + W * d /\ W * d \in Nat
    BY <2>1
  <2> QED BY <1>2, <1>4, <2>2
<1> QED BY <1>1, <1>3, <1>4

-----------------------------------------------------------------------------
\* An arrival as a limiter records it, by instant t and life p; those of the process have one key.
Recorded(a, t, p) ==
    /\ DOMAIN a = {"limiter", "key", "at", "decided", "life", "answer"}
    /\ a.at \in Nat /\ a.decided \in Nat /\ a.at <= a.decided /\ a.decided <= t
    /\ a.life \in Nat /\ a.life <= p /\ (a.limiter # "redis" => a.key = <<>>)

\* What a call that waits for Redis has recorded.
Asked(c) ==
    LET n == req[c].nth IN
    /\ n \in DOMAIN arrivals /\ req[c].key = arrivals[n].key
    /\ arrivals[n].limiter = "redis" /\ arrivals[n].answer = "pending"

\* The history of the limiters; no two calls wait for the same answer.
Arrivals ==
    /\ IsList(arrivals) /\ life \in Nat /\ now \in Nat /\ failures \in Nat
    /\ \A n \in DOMAIN arrivals : Recorded(arrivals[n], now, life)
    /\ \A c \in Calls : pc[c] \in Asking => Asked(c)
    /\ \A c, d \in Calls : pc[c] \in Asking /\ pc[d] \in Asking /\ req[c].nth = req[d].nth => c = d

\* The arrivals of a history as they are stamped, no later than t.
Stamped(arr, t) ==
    IsList(arr) /\ t \in Nat /\ \A n \in DOMAIN arr : arr[n].at \in Nat /\ arr[n].at <= t

\* The requests a limiter has let through in one life of the process, and those of them of the
\* instants from a to b.
Allowed(arr, p, l) == {m \in DOMAIN arr : arr[m].limiter = l /\ arr[m].life = p /\ arr[m].answer = "allowed"}
Between(arr, p, l, a, b) == {m \in Allowed(arr, p, l) : a <= arr[m].at /\ arr[m].at <= b}

\* A window that starts with a request and has its last instant.  What it has counted is Limit at
\* most, and what was let through before it less than Limit for any Window instants that reach
\* into it.
Fixed(arr, p, t, l, entry, last) ==
    LET start == entry.resetAt - Window IN
    IF entry.count = 0 THEN entry = NoEntry /\ Allowed(arr, p, l) = {}
    ELSE /\ start \in Nat /\ start <= t
         /\ last \in Nat /\ start + Window <= last + 1
         /\ \A m \in Allowed(arr, p, l) : arr[m].at <= last
         /\ \E f \in Allowed(arr, p, l) : arr[f].at = start
         /\ Cardinality(Between(arr, p, l, start, t)) <= entry.count
         /\ Cardinality(Between(arr, p, l, start, t)) <= Limit
         /\ \A a \in Nat : a + Window > start => Cardinality(Between(arr, p, l, a, start - 1)) <= Limit - 1

\* A window that slides: what is kept is what it has let through, and all that still counts.
Sliding(arr, p, t, kept) ==
    /\ kept \subseteq Allowed(arr, p, "recent")
    /\ \A m \in Allowed(arr, p, "recent") : t - arr[m].at < Window => m \in kept

\* What the code lets through in Window instants, for the limiters of a process.
Most(l) == IF l = "recent" THEN Limit ELSE 2 * Limit - 1

\* From any instant less than a window ago, a limiter has let through no more.
Lately(arr, p, t, l) == \A a \in Nat : t - a < Window => Cardinality(Between(arr, p, l, a, t)) <= Most(l)

-----------------------------------------------------------------------------
\* Sets of arrivals are finite.
LEMMA SomeArrivals ==
    ASSUME NEW arr, IsList(arr), NEW S \in SUBSET DOMAIN arr
    PROVE  IsFiniteSet(S) /\ Cardinality(S) \in Nat
<1>1. IsFiniteSet(DOMAIN arr)
  <2>1. Len(arr) \in Int /\ 1 \in Int /\ DOMAIN arr = 1 .. Len(arr)
    BY Indices
  <2> QED BY <2>1, FS_Interval
<1> QED BY <1>1, FS_Subset, FS_CardinalityType

\* A subset of arrivals has no more of them.
LEMMA FewerArrivals ==
    ASSUME NEW arr, IsList(arr), NEW S \in SUBSET DOMAIN arr, NEW T \in SUBSET S
    PROVE  Cardinality(T) <= Cardinality(S)
  BY SomeArrivals, FS_Subset

\* What a limiter has let through are arrivals.
LEMMA AllowedArrived ==
    \A arr, p, l, a, b :
        /\ Allowed(arr, p, l) \in SUBSET DOMAIN arr /\ Between(arr, p, l, a, b) \in SUBSET DOMAIN arr
        /\ Between(arr, p, l, a, b) \subseteq Allowed(arr, p, l)
  BY DEF Allowed, Between

\* Nobody at all is less than one.
LEMMA NobodyFits == \A S : S = {} => Cardinality(S) = 0
  BY FS_EmptySet

\* Windows that start with a request let through less than two windows' worth.
LEMMA FixedLately ==
    ASSUME NEW arr, NEW p, NEW t, Stamped(arr, t), NEW l, l # "recent", NEW entry, NEW last,
           Fixed(arr, p, t, l, entry, last), entry.count \in Nat, entry.resetAt \in Int
    PROVE  Lately(arr, p, t, l)
<1> SUFFICES ASSUME NEW a \in Nat, t - a < Window
             PROVE  Cardinality(Between(arr, p, l, a, t)) <= 2 * Limit - 1
  BY DEF Lately, Most
<1>0. Limit \in Nat \ {0} /\ Window \in Nat \ {0} /\ t \in Nat
  BY WindowAssumption DEF Stamped
<1>1. CASE entry.count = 0
  <2>1. Between(arr, p, l, a, t) = {}
    BY <1>1 DEF Fixed, Between
  <2>2. Cardinality(Between(arr, p, l, a, t)) = 0
    BY <2>1, NobodyFits
  <2> QED BY <1>0, <2>2
<1>2. CASE entry.count # 0
  <2>1. PICK start \in Nat :
            /\ start <= t /\ Cardinality(Between(arr, p, l, start, t)) <= Limit
            /\ \A b \in Nat : b + Window > start => Cardinality(Between(arr, p, l, b, start - 1)) <= Limit - 1
    BY <1>2 DEF Fixed
  <2>2. Cardinality(Between(arr, p, l, a, start - 1)) <= Limit - 1
    BY <1>0, <2>1
  <2>3. Between(arr, p, l, a, t) \subseteq Between(arr, p, l, a, start - 1) \cup Between(arr, p, l, start, t)
    BY <1>0, <2>1, AllowedArrived DEF Between, Stamped
  <2>4. /\ IsFiniteSet(Between(arr, p, l, a, start - 1)) /\ IsFiniteSet(Between(arr, p, l, start, t))
        /\ Cardinality(Between(arr, p, l, a, start - 1)) \in Nat
        /\ Cardinality(Between(arr, p, l, start, t)) \in Nat
        /\ Cardinality(Between(arr, p, l, a, t)) \in Nat
    BY SomeArrivals, AllowedArrived DEF Stamped
  <2>5. Cardinality(Between(arr, p, l, a, t)) <=
            Cardinality(Between(arr, p, l, a, start - 1)) + Cardinality(Between(arr, p, l, start, t))
    BY <2>3, <2>4, AddedSize
  <2> QED BY <1>0, <2>1, <2>2, <2>4, <2>5
<1> QED BY <1>1, <1>2

\* A window that slides lets through what it keeps.
LEMMA SlidingLately ==
    ASSUME NEW arr, NEW p, NEW t, Stamped(arr, t), NEW kept, IsFiniteSet(kept), Cardinality(kept) <= Limit,
           Sliding(arr, p, t, kept)
    PROVE  Lately(arr, p, t, "recent")
<1> SUFFICES ASSUME NEW a \in Nat, t - a < Window
             PROVE  Cardinality(Between(arr, p, "recent", a, t)) <= Limit
  BY DEF Lately, Most
<1>1. Between(arr, p, "recent", a, t) \subseteq kept
  BY WindowAssumption, AllowedArrived DEF Between, Sliding, Stamped
<1>2. Cardinality(Between(arr, p, "recent", a, t)) <= Cardinality(kept)
  BY <1>1, FS_Subset
<1>3. Cardinality(Between(arr, p, "recent", a, t)) \in Nat /\ Cardinality(kept) \in Nat /\ Limit \in Nat
  BY SomeArrivals, AllowedArrived, FS_CardinalityType, WindowAssumption DEF Stamped
<1> QED BY <1>2, <1>3

-----------------------------------------------------------------------------
\* One more arrival: the others are as they were.
LEMMA OneMore ==
    ASSUME NEW arr, NEW t, Stamped(arr, t), NEW x, x.at = t
    PROVE  /\ Stamped(Append(arr, x), t)
           /\ DOMAIN Append(arr, x) = DOMAIN arr \cup {Len(arr) + 1} /\ Len(arr) + 1 \notin DOMAIN arr
           /\ \A m \in DOMAIN arr : Append(arr, x)[m] = arr[m]
           /\ Append(arr, x)[Len(arr) + 1] = x
  BY Appended DEF Stamped

\* Let through: its limiter has one more; of all others, and if it is not, no limiter has.
LEMMA LetThrough ==
    ASSUME NEW arr, NEW t, Stamped(arr, t), NEW x, x.at = t
    PROVE  \A p, l : Allowed(Append(arr, x), p, l) =
               IF x.limiter = l /\ x.life = p /\ x.answer = "allowed"
               THEN Allowed(arr, p, l) \cup {Len(arr) + 1} ELSE Allowed(arr, p, l)
  BY OneMore DEF Allowed

\* The same of the instants up to an earlier one, and up to this one.
LEMMA LetThroughNow ==
    ASSUME NEW arr, NEW t, Stamped(arr, t), NEW x, x.at = t, NEW p, NEW l
    PROVE  /\ \A a, b \in Int : b < t => Between(Append(arr, x), p, l, a, b) = Between(arr, p, l, a, b)
           /\ \A a \in Int : Between(Append(arr, x), p, l, a, t) \subseteq Between(arr, p, l, a, t) \cup {Len(arr) + 1}
           /\ x.answer # "allowed" =>
                  \A a \in Int : Between(Append(arr, x), p, l, a, t) = Between(arr, p, l, a, t)
<1>1. t \in Nat
  BY DEF Stamped
<1>2. PICK arrs, k : arrs = Append(arr, x) /\ k = Len(arr) + 1
  OBVIOUS
<1>3. k \notin DOMAIN arr /\ arrs[k] = x /\ \A m \in DOMAIN arr : arrs[m] = arr[m]
  BY <1>2, OneMore
<1>4. PICK A, B : A = Allowed(arr, p, l) /\ B = Allowed(arrs, p, l)
  OBVIOUS
<1>5. A \subseteq B /\ B \subseteq A \cup {k} /\ (x.answer # "allowed" => B = A)
  BY <1>2, <1>4, LetThrough
<1>6. A \subseteq DOMAIN arr
  BY <1>4, AllowedArrived
<1>7. ASSUME NEW a \in Int, NEW b \in Int, b < t PROVE Between(arrs, p, l, a, b) = Between(arr, p, l, a, b)
  <2>1. ~(arrs[k].at <= b)
    BY <1>1, <1>3, <1>7
  <2> QED BY <1>3, <1>4, <1>5, <1>6, <2>1 DEF Between
<1>8. ASSUME NEW a \in Int
      PROVE  /\ Between(arrs, p, l, a, t) \subseteq Between(arr, p, l, a, t) \cup {k}
             /\ x.answer # "allowed" => Between(arrs, p, l, a, t) = Between(arr, p, l, a, t)
  BY <1>3, <1>4, <1>5, <1>6 DEF Between
<1> QED BY <1>2, <1>7, <1>8

\* A window is opened once the one before is over.
LEMMA WindowOpens ==
    ASSUME NEW arr, NEW p, NEW t, Stamped(arr, t), NEW l, NEW entry, NEW last, Fixed(arr, p, t, l, entry, last),
           entry.count \in Nat, entry.resetAt \in Int, entry.count # 0 => last < t,
           NEW x, x.at = t, x.limiter = l, x.life = p, x.answer = "allowed",
           NEW until \in {t + Window, t + Window - 1}
    PROVE  Fixed(Append(arr, x), p, t, l, [count |-> 1, resetAt |-> t + Window], until)
<1>0. Limit \in Nat \ {0} /\ Window \in Nat \ {0} /\ t \in Nat
  BY WindowAssumption DEF Stamped
<1>1. \A m \in Allowed(arr, p, l) : m \in DOMAIN arr /\ arr[m].at \in Nat /\ arr[m].at < t
  <2>1. \A m \in Allowed(arr, p, l) : entry.count # 0 /\ arr[m].at <= last /\ last \in Nat
    BY DEF Fixed
  <2>2. \A m \in Allowed(arr, p, l) : m \in DOMAIN arr /\ arr[m].at \in Nat
    BY AllowedArrived DEF Stamped
  <2> QED BY <1>0, <2>1, <2>2
<1>k. PICK arrs, k : arrs = Append(arr, x) /\ k = Len(arr) + 1
  OBVIOUS
<1>2. Allowed(arrs, p, l) = Allowed(arr, p, l) \cup {k}
  BY <1>k, LetThrough
<1>3. arrs[k].at = t /\ \A m \in Allowed(arr, p, l) : arrs[m] = arr[m]
  BY <1>1, <1>k, OneMore
<1>4. Between(arrs, p, l, t, t) \subseteq {k}
  <2> SUFFICES ASSUME NEW m \in Allowed(arr, p, l), t <= arrs[m].at PROVE FALSE
    BY <1>2 DEF Between
  <2> QED BY <1>0, <1>1, <1>3
<1>5. Cardinality(Between(arrs, p, l, t, t)) <= 1
  <2>1. IsFiniteSet({k}) /\ Cardinality({k}) = 1
    BY FS_Singleton
  <2>2. Cardinality(Between(arrs, p, l, t, t)) <= Cardinality({k})
    BY <1>4, <2>1, FS_Subset
  <2> QED BY <2>1, <2>2
<1>6. ASSUME NEW a \in Nat, a + Window > t
      PROVE  Cardinality(Between(arrs, p, l, a, t - 1)) <= Limit - 1
  <2>1. Between(arrs, p, l, a, t - 1) = Between(arr, p, l, a, t - 1)
    <3>1. a \in Int /\ t - 1 \in Int /\ t - 1 < t
      BY <1>0
    <3>2. Between(Append(arr, x), p, l, a, t - 1) = Between(arr, p, l, a, t - 1)
      BY <3>1, LetThroughNow
    <3> QED BY <1>k, <3>2
  <2>2. CASE entry.count = 0
    <3>1. Between(arr, p, l, a, t - 1) = {}
      BY <2>2 DEF Fixed, Between
    <3>2. Cardinality(Between(arr, p, l, a, t - 1)) = 0
      BY <3>1, NobodyFits
    <3> QED BY <1>0, <2>1, <3>2
  <2>3. CASE entry.count # 0
    <3>1. PICK start \in Nat, f \in Allowed(arr, p, l) :
              /\ start <= t /\ last \in Nat /\ start + Window <= last + 1 /\ arr[f].at = start
              /\ Cardinality(Between(arr, p, l, start, t)) <= Limit
      BY <2>3 DEF Fixed
    <3>2. a > start
      BY <1>0, <1>6, <2>3, <3>1
    <3>3. f \in Between(arr, p, l, start, t) /\ Between(arr, p, l, a, t - 1) \subseteq Between(arr, p, l, start, t) \ {f}
      <4>1. f \in Between(arr, p, l, start, t) /\ f \notin Between(arr, p, l, a, t - 1)
        BY <1>0, <3>1, <3>2 DEF Between
      <4>2. Between(arr, p, l, a, t - 1) \subseteq Between(arr, p, l, start, t)
        BY <1>0, <1>1, <3>1, <3>2 DEF Between
      <4> QED BY <4>1, <4>2
    <3>4. PICK S : S = Between(arr, p, l, start, t)
      OBVIOUS
    <3>5. IsFiniteSet(S) /\ Cardinality(S) \in Nat
      BY <3>4, SomeArrivals, AllowedArrived DEF Stamped
    <3>6. IsFiniteSet(S \ {f}) /\ Cardinality(S \ {f}) = Cardinality(S) - 1
      BY <3>3, <3>4, <3>5, FS_RemoveElement
    <3>7. Cardinality(Between(arr, p, l, a, t - 1)) <= Cardinality(S \ {f})
      BY <3>3, <3>4, <3>6, FS_Subset
    <3>8. Cardinality(Between(arr, p, l, a, t - 1)) \in Nat
      BY SomeArrivals, AllowedArrived DEF Stamped
    <3> QED BY <1>0, <2>1, <3>1, <3>4, <3>5, <3>6, <3>7, <3>8
  <2> QED BY <2>2, <2>3
<1>7. PICK e : e = [count |-> 1, resetAt |-> t + Window]
  OBVIOUS
<1>8. e.count = 1 /\ e.resetAt - Window = t
  BY <1>0, <1>7
<1>9. k \in Allowed(arrs, p, l) /\ \A m \in Allowed(arrs, p, l) : arrs[m].at <= t
  <2>1. \A m \in Allowed(arr, p, l) : arrs[m].at <= t
    BY <1>0, <1>1, <1>3
  <2> QED BY <1>0, <1>2, <1>3, <2>1
<1>10. until \in Nat /\ t + Window <= until + 1 /\ \A m \in Allowed(arrs, p, l) : arrs[m].at <= until
  <2>1. until \in Nat /\ t <= until /\ t + Window <= until + 1
    <3>1. CASE until = t + Window
      BY <1>0, <3>1
    <3>2. CASE until = t + Window - 1
      BY <1>0, <3>2
    <3> QED BY <3>1, <3>2
  <2>2. \A m \in Allowed(arrs, p, l) : arrs[m].at \in Nat
    BY <1>0, <1>1, <1>2, <1>3
  <2> QED BY <1>0, <1>9, <2>1, <2>2
<1>11. Fixed(arrs, p, t, l, e, until)
  <2>1. Cardinality(Between(arrs, p, l, t, t)) <= Limit
    <3>1. Cardinality(Between(arrs, p, l, t, t)) \in Nat
      BY <1>k, SomeArrivals, AllowedArrived, OneMore DEF Stamped
    <3> QED BY <1>0, <1>5, <3>1
  <2> QED BY <1>0, <1>3, <1>5, <1>6, <1>8, <1>9, <1>10, <2>1 DEF Fixed
<1> QED BY <1>k, <1>7, <1>11

\* A window counts one more.
LEMMA WindowCounts ==
    ASSUME NEW arr, NEW p, NEW t, Stamped(arr, t), NEW l, NEW entry, NEW last, Fixed(arr, p, t, l, entry, last),
           entry.count \in Nat \ {0}, entry.count < Limit, entry.resetAt \in Int, t <= last,
           NEW x, x.at = t, x.limiter = l, x.life = p, x.answer = "allowed",
           NEW e, e.count = entry.count + 1, e.resetAt = entry.resetAt
    PROVE  Fixed(Append(arr, x), p, t, l, e, last)
<1>0. Limit \in Nat \ {0} /\ Window \in Nat \ {0} /\ t \in Nat
  BY WindowAssumption DEF Stamped
<1>1. PICK arrs, k : arrs = Append(arr, x) /\ k = Len(arr) + 1
  OBVIOUS
<1>2. Allowed(arrs, p, l) = Allowed(arr, p, l) \cup {k} /\ k \notin Allowed(arr, p, l)
  <2>1. k \notin DOMAIN arr
    BY <1>1, OneMore
  <2>2. Allowed(arrs, p, l) = Allowed(arr, p, l) \cup {k}
    BY <1>1, LetThrough
  <2>3. Allowed(arr, p, l) \subseteq DOMAIN arr
    BY AllowedArrived
  <2> QED BY <2>1, <2>2, <2>3
<1>3. arrs[k].at = t /\ \A m \in DOMAIN arr : arrs[m] = arr[m]
  BY <1>1, OneMore
<1>4. PICK start \in Nat : start = entry.resetAt - Window
  BY <1>0 DEF Fixed
<1>5. /\ start <= t /\ last \in Nat /\ start + Window <= last + 1
      /\ \A m \in Allowed(arr, p, l) : arr[m].at <= last
      /\ \E f \in Allowed(arr, p, l) : arr[f].at = start
      /\ Cardinality(Between(arr, p, l, start, t)) <= entry.count
      /\ \A a \in Nat : a + Window > start => Cardinality(Between(arr, p, l, a, start - 1)) <= Limit - 1
  BY <1>4 DEF Fixed
<1>6. \A m \in Allowed(arrs, p, l) : arrs[m].at <= last
  BY <1>2, <1>3, <1>5, AllowedArrived
<1>7. \E f \in Allowed(arrs, p, l) : arrs[f].at = start
  BY <1>2, <1>3, <1>5, AllowedArrived
<1>8. /\ Cardinality(Between(arrs, p, l, start, t)) <= e.count
      /\ Cardinality(Between(arrs, p, l, start, t)) <= Limit
  <2>1. PICK S, T : S = Between(arr, p, l, start, t) /\ T = Between(arrs, p, l, start, t)
    OBVIOUS
  <2>2. T \subseteq S \cup {k}
    BY <1>1, <2>1, LetThroughNow
  <2>3. IsFiniteSet(S) /\ Cardinality(S) \in Nat
    BY <2>1, SomeArrivals, AllowedArrived DEF Stamped
  <2>4. IsFiniteSet({k}) /\ Cardinality({k}) = 1
    BY FS_Singleton
  <2>5. Cardinality(T) <= Cardinality(S) + Cardinality({k})
    BY <2>2, <2>3, <2>4, AddedSize
  <2>6. Cardinality(T) \in Nat
    <3>1. IsFiniteSet(S \cup {k})
      BY <2>3, FS_AddElement
    <3> QED BY <2>2, <3>1, FS_Subset, FS_CardinalityType
  <2> QED BY <1>0, <1>5, <2>1, <2>3, <2>4, <2>5, <2>6
<1>9. ASSUME NEW a \in Nat, a + Window > start PROVE Cardinality(Between(arrs, p, l, a, start - 1)) <= Limit - 1
  <2>1. a \in Int /\ start - 1 \in Int /\ start - 1 < t
    BY <1>0, <1>5
  <2>2. Between(Append(arr, x), p, l, a, start - 1) = Between(arr, p, l, a, start - 1)
    BY <2>1, LetThroughNow
  <2> QED BY <1>1, <1>5, <1>9, <2>2
<1>10. Fixed(arrs, p, t, l, e, last)
  BY <1>0, <1>4, <1>5, <1>6, <1>7, <1>8, <1>9 DEF Fixed
<1> QED BY <1>1, <1>10

\* Histories that agree on what a limiter has let through in a life.
Agree(arr, brr, p, l) ==
    /\ Allowed(brr, p, l) = Allowed(arr, p, l)
    /\ \A m \in Allowed(arr, p, l) : brr[m].at = arr[m].at

\* A window stays as it is while nothing is let through, and counts whatever else it counts.
LEMMA WindowStays ==
    ASSUME NEW arr, NEW p, NEW t, Stamped(arr, t), NEW l, NEW entry, NEW last, Fixed(arr, p, t, l, entry, last),
           NEW brr, Agree(arr, brr, p, l), NEW u \in Nat, t <= u,
           NEW e, e = entry \/ (entry.count # 0 /\ e.count >= entry.count /\ e.resetAt = entry.resetAt),
           entry.count \in Nat, e.count \in Nat, entry.resetAt \in Int
    PROVE  Fixed(brr, p, u, l, e, last)
<1>0. Limit \in Nat \ {0} /\ Window \in Nat \ {0} /\ t \in Nat
  BY WindowAssumption DEF Stamped
<1>1. Allowed(brr, p, l) = Allowed(arr, p, l) /\ \A m \in Allowed(arr, p, l) : brr[m].at = arr[m].at
  BY DEF Agree
<1>2. CASE entry.count = 0
  BY <1>1, <1>2 DEF Fixed
<1>3. CASE entry.count # 0
  <2>1. PICK start \in Nat : start = entry.resetAt - Window
    BY <1>0, <1>3 DEF Fixed
  <2>2. /\ start <= t /\ last \in Nat /\ start + Window <= last + 1
        /\ \A m \in Allowed(arr, p, l) : arr[m].at <= last
        /\ \E f \in Allowed(arr, p, l) : arr[f].at = start
        /\ Cardinality(Between(arr, p, l, start, t)) <= entry.count
        /\ Cardinality(Between(arr, p, l, start, t)) <= Limit
        /\ \A a \in Nat : a + Window > start => Cardinality(Between(arr, p, l, a, start - 1)) <= Limit - 1
    BY <1>3, <2>1 DEF Fixed
  <2>3. \A a, b : Between(brr, p, l, a, b) = Between(arr, p, l, a, b)
    BY <1>1 DEF Between
  <2>4. Between(brr, p, l, start, u) = Between(arr, p, l, start, t)
    <3>1. \A m \in Allowed(arr, p, l) : arr[m].at \in Nat /\ arr[m].at <= t
      BY AllowedArrived DEF Stamped
    <3>2. \A m \in Allowed(arr, p, l) : arr[m].at <= u
      BY <1>0, <3>1
    <3> QED BY <1>1, <3>1, <3>2 DEF Between
  <2>5. Cardinality(Between(arr, p, l, start, t)) \in Nat
    BY SomeArrivals, AllowedArrived DEF Stamped
  <2>6. e.count # 0 /\ e.resetAt - Window = start /\ Cardinality(Between(brr, p, l, start, u)) <= e.count
    BY <1>3, <2>1, <2>2, <2>4, <2>5
  <2>7. start <= u
    BY <1>0, <2>2
  <2> QED BY <1>1, <2>1, <2>2, <2>3, <2>4, <2>6, <2>7 DEF Fixed
<1> QED BY <1>2, <1>3

\* A window that slides forgets what is over, and keeps what it lets through.
LEMMA SlidingCounts ==
    ASSUME NEW arr, NEW p, NEW t, Stamped(arr, t), NEW kept, Sliding(arr, p, t, kept),
           NEW x, x.at = t, x.limiter = "recent", x.life = p, x.answer = "allowed"
    PROVE  Sliding(Append(arr, x), p, t, {n \in kept : t - arr[n].at < Window} \cup {Len(arr) + 1})
<1>1. PICK arrs, k : arrs = Append(arr, x) /\ k = Len(arr) + 1
  OBVIOUS
<1>2. Allowed(arrs, p, "recent") = Allowed(arr, p, "recent") \cup {k}
  BY <1>1, LetThrough
<1>3. \A m \in DOMAIN arr : arrs[m] = arr[m]
  BY <1>1, OneMore
<1> QED BY <1>1, <1>2, <1>3, AllowedArrived DEF Sliding

\* It stays as it is while nothing is let through.
LEMMA SlidingStays ==
    ASSUME NEW arr, NEW p, NEW t, Stamped(arr, t), NEW kept, Sliding(arr, p, t, kept),
           NEW brr, Agree(arr, brr, p, "recent"), NEW u \in Nat, t <= u
    PROVE  Sliding(brr, p, u, kept)
<1>1. \A m \in Allowed(arr, p, "recent") : arr[m].at \in Nat
  BY AllowedArrived DEF Stamped
<1> QED BY <1>1, WindowAssumption DEF Sliding, Agree, Stamped

-----------------------------------------------------------------------------
\* The bound for the limiters of a process, and what it rests on.
ProcessBound ==
    \A n \in DOMAIN arrivals :
        arrivals[n].limiter # "redis" => Cardinality(Within(n)) <= Most(arrivals[n].limiter)

\* Limiters other than the one at work: whatever is recorded is recorded by Redis.
Beside ==
    /\ DOMAIN arrivals \subseteq DOMAIN arrivals'
    /\ \A n \in DOMAIN arrivals : arrivals[n].limiter # "redis" => arrivals'[n] = arrivals[n]
    /\ \A n \in DOMAIN arrivals : arrivals'[n].limiter = arrivals[n].limiter
    /\ \A n \in DOMAIN arrivals' \ DOMAIN arrivals : arrivals'[n].limiter = "redis"

\* The bound stays where the limiters of the process are not at work.
LEMMA BoundBeside ==
    ASSUME ProcessBound, Beside
    PROVE  ProcessBound'
<1> SUFFICES ASSUME NEW n \in DOMAIN arrivals', arrivals'[n].limiter # "redis"
             PROVE  Cardinality(Within(n)') <= Most(arrivals'[n].limiter)
  BY DEF ProcessBound, Most
<1>1. n \in DOMAIN arrivals /\ arrivals'[n] = arrivals[n]
  BY DEF Beside
<1>2. Within(n)' = Within(n)
  <2>1. \A m \in DOMAIN arrivals' : arrivals'[m].limiter = arrivals[n].limiter =>
            m \in DOMAIN arrivals /\ arrivals'[m] = arrivals[m]
    BY <1>1 DEF Beside
  <2>2. \A m \in DOMAIN arrivals : arrivals[m].limiter = arrivals[n].limiter =>
            m \in DOMAIN arrivals' /\ arrivals'[m] = arrivals[m]
    BY <1>1 DEF Beside
  <2> QED BY <1>1, <2>1, <2>2 DEF Within, Same, Slot
<1> QED BY <1>1, <1>2 DEF ProcessBound

\* And where one is: a new request counts only for the last window, and there it fits.
LEMMA BoundAtWork ==
    ASSUME ProcessBound, Stamped(arrivals, now), NEW x, arrivals' = Append(arrivals, x),
           x.at = now, x.life = life, x.limiter # "redis", Lately(arrivals', life, now, x.limiter)
    PROVE  ProcessBound'
<1>1. PICK arrs, k, t, p, l : arrs = arrivals' /\ k = Len(arrivals) + 1 /\ t = now /\ p = life /\ l = x.limiter
  OBVIOUS
<1>2. /\ Stamped(arrs, t) /\ DOMAIN arrs = DOMAIN arrivals \cup {k} /\ k \notin DOMAIN arrivals
      /\ \A m \in DOMAIN arrivals : arrs[m] = arrivals[m]
      /\ arrs[k] = x
  BY <1>1, OneMore
<1>3. t \in Nat /\ Window \in Nat \ {0} /\ \A m \in DOMAIN arrs : arrs[m].at \in Nat /\ arrs[m].at <= t
  BY <1>2, WindowAssumption DEF Stamped
<1> SUFFICES ASSUME NEW n \in DOMAIN arrs, arrs[n].limiter # "redis"
             PROVE  Cardinality(Within(n)') <= Most(arrs[n].limiter)
  BY <1>1 DEF ProcessBound, Most
<1>4. PICK a : a = arrs[n].at
  OBVIOUS
<1>5. Within(n)' \subseteq DOMAIN arrs
  BY <1>1 DEF Within
<1>6. CASE n = k \/ k \in Within(n)'
  <2>1. arrs[n].limiter = l /\ arrs[n].life = p /\ t - a < Window
    <3>1. arrs[k].at = t /\ arrs[k].life = p /\ arrs[k].limiter = l
      BY <1>1, <1>2
    <3>2. CASE n = k
      BY <1>3, <1>4, <3>1, <3>2
    <3>3. CASE k \in Within(n)'
      <4>1. /\ arrs[k].limiter = arrs[n].limiter /\ arrs[k].life = arrs[n].life
            /\ arrs[k].at \in arrs[n].at .. arrs[n].at + Window - 1
        BY <1>1, <3>3 DEF Within, Same
      <4> QED BY <1>3, <1>4, <3>1, <4>1
    <3> QED BY <1>6, <3>2, <3>3
  <2>2. Within(n)' \subseteq Between(arrs, p, l, a, t)
    <3> SUFFICES ASSUME NEW m \in Within(n)' PROVE m \in Between(arrs, p, l, a, t)
      OBVIOUS
    <3>1. /\ m \in DOMAIN arrs /\ arrs[m].limiter = l /\ arrs[m].life = p /\ arrs[m].answer = "allowed"
          /\ arrs[m].at \in a .. a + Window - 1
      <4>1. arrs[n].limiter # "redis"
        OBVIOUS
      <4> QED BY <1>1, <1>4, <2>1, <4>1 DEF Within, Same
    <3> QED BY <1>3, <3>1 DEF Between, Allowed
  <2>3. Cardinality(Between(arrs, p, l, a, t)) <= Most(l)
    BY <1>1, <1>3, <1>4, <2>1 DEF Lately
  <2>4. Cardinality(Within(n)') <= Cardinality(Between(arrs, p, l, a, t))
    BY <1>2, <2>2, FewerArrivals, AllowedArrived DEF Stamped
  <2>5. /\ Cardinality(Within(n)') \in Nat /\ Cardinality(Between(arrs, p, l, a, t)) \in Nat
        /\ Most(l) \in Nat
    <3>1. IsList(arrs)
      BY <1>2 DEF Stamped
    <3> QED BY <1>5, <3>1, SomeArrivals, AllowedArrived, WindowAssumption DEF Most
  <2> QED BY <2>1, <2>3, <2>4, <2>5
<1>7. CASE n # k /\ k \notin Within(n)'
  <2>1. n \in DOMAIN arrivals /\ arrs[n] = arrivals[n]
    BY <1>2, <1>7
  <2>2. Within(n)' \subseteq Within(n)
    <3> SUFFICES ASSUME NEW m \in Within(n)' PROVE m \in Within(n)
      OBVIOUS
    <3>1. m \in DOMAIN arrivals /\ arrs[m] = arrivals[m]
      BY <1>2, <1>5, <1>7
    <3> QED BY <1>1, <2>1, <3>1 DEF Within, Same, Slot
  <2>3. Within(n) \subseteq DOMAIN arrivals /\ IsList(arrivals)
    BY DEF Within, Stamped
  <2>4. Cardinality(Within(n)') <= Cardinality(Within(n))
    BY <2>2, <2>3, FewerArrivals
  <2>5. Cardinality(Within(n)') \in Nat /\ Cardinality(Within(n)) \in Nat /\ Most(arrs[n].limiter) \in Nat
    BY <2>2, <2>3, SomeArrivals, WindowAssumption DEF Most
  <2>6. Cardinality(Within(n)) <= Most(arrs[n].limiter)
    BY <2>1 DEF ProcessBound
  <2> QED BY <2>4, <2>5, <2>6
<1> QED BY <1>6, <1>7

\* The limiters of a process, and the bound.
Counters ==
    /\ Fixed(arrivals, life, now, "memory", memory, memory.resetAt - 1)
    /\ Fixed(arrivals, life, now, "perKey", perKey, perKey.resetAt)
    /\ Sliding(arrivals, life, now, recent)
    /\ ProcessBound

\* What WaitingHelps says of one request.
Helped(n) ==
    LET span == IF arrivals[n].limiter = "perKey" THEN Window ELSE Window - 1 IN
    \E m \in DOMAIN arrivals \ {n} :
        Same(m, n) /\ arrivals[n].at - arrivals[m].at \in -span .. span

\* Requests are never unmade.
Remembered ==
    \A n \in DOMAIN arrivals :
        /\ n \in DOMAIN arrivals'
        /\ arrivals'[n].limiter = arrivals[n].limiter /\ arrivals'[n].key = arrivals[n].key
        /\ arrivals'[n].at = arrivals[n].at /\ arrivals'[n].life = arrivals[n].life

\* What a request was refused for stays what it was.
LEMMA HelpStays ==
    ASSUME WaitingHelps, Remembered,
           \A n \in DOMAIN arrivals' : arrivals'[n].answer = "refused" =>
               (n \in DOMAIN arrivals /\ arrivals[n].answer = "refused") \/ Helped(n)'
    PROVE  WaitingHelps'
<1> SUFFICES ASSUME NEW n \in DOMAIN arrivals', arrivals'[n].answer = "refused" PROVE Helped(n)'
  BY DEF WaitingHelps, Helped
<1>1. CASE n \in DOMAIN arrivals /\ arrivals[n].answer = "refused"
  <2>0. PICK span : span = IF arrivals[n].limiter = "perKey" THEN Window ELSE Window - 1
    OBVIOUS
  <2>1. PICK m \in DOMAIN arrivals \ {n} : Same(m, n) /\ arrivals[n].at - arrivals[m].at \in -span .. span
    BY <1>1, <2>0 DEF WaitingHelps
  <2>2. m \in DOMAIN arrivals' \ {n} /\ Same(m, n)'
    BY <1>1, <2>1 DEF Remembered, Same
  <2>3. /\ arrivals'[n].limiter = arrivals[n].limiter
        /\ arrivals'[n].at = arrivals[n].at /\ arrivals'[m].at = arrivals[m].at
    BY <1>1, <2>1 DEF Remembered
  <2> QED BY <2>0, <2>1, <2>2, <2>3 DEF Helped
<1> QED BY <1>1

-----------------------------------------------------------------------------
\* A limiter of the process at work: its request, and what it leaves as it is.
Works(x) ==
    /\ arrivals' = Append(arrivals, x) /\ UNCHANGED <<now, life>>
    /\ DOMAIN x = {"limiter", "key", "at", "decided", "life", "answer"}
    /\ x.limiter \in {"memory", "perKey", "recent"} /\ x.key = <<>> /\ x.at = now /\ x.decided = now
    /\ x.life = life /\ x.answer \in {"allowed", "refused"}

\* The other limiters agree on what they have let through; if it lets nothing through, so does this.
LEMMA WorkAgrees ==
    ASSUME NEW x, Works(x), Stamped(arrivals, now), NEW l, x.limiter # l \/ x.answer # "allowed"
    PROVE  Agree(arrivals, arrivals', life, l)
<1>1. Allowed(arrivals', life, l) = Allowed(arrivals, life, l)
  BY LetThrough DEF Works
<1>2. \A m \in DOMAIN arrivals : arrivals'[m] = arrivals[m]
  BY OneMore DEF Works
<1> QED BY <1>1, <1>2, AllowedArrived DEF Agree

\* All that is left to show of a limiter at work.
LEMMA WorkHelps ==
    ASSUME NEW x, Works(x), Stamped(arrivals, now), WaitingHelps,
           x.answer = "refused" =>
               \E m \in DOMAIN arrivals :
                   /\ arrivals[m].limiter = x.limiter /\ arrivals[m].life = life /\ arrivals[m].key = <<>>
                   /\ now - arrivals[m].at <= IF x.limiter = "perKey" THEN Window ELSE Window - 1
    PROVE  WaitingHelps'
<1>1. PICK k : k = Len(arrivals) + 1
  OBVIOUS
<1>2. /\ DOMAIN arrivals' = DOMAIN arrivals \cup {k} /\ k \notin DOMAIN arrivals
      /\ \A m \in DOMAIN arrivals : arrivals'[m] = arrivals[m]
      /\ arrivals'[k] = x
  BY <1>1, OneMore DEF Works
<1>3. Remembered
  BY <1>2 DEF Remembered
<1>4. ASSUME x.answer = "refused" PROVE Helped(k)'
  <2>0. PICK span : span = IF x.limiter = "perKey" THEN Window ELSE Window - 1
    OBVIOUS
  <2>1. PICK m \in DOMAIN arrivals :
            /\ arrivals[m].limiter = x.limiter /\ arrivals[m].life = life /\ arrivals[m].key = <<>>
            /\ now - arrivals[m].at <= span
    BY <1>4, <2>0
  <2>2. m \in DOMAIN arrivals' \ {k} /\ arrivals'[m] = arrivals[m]
    BY <1>2
  <2>3. Same(m, k)'
    BY <1>2, <2>1, <2>2 DEF Same, Works
  <2>4. arrivals'[k].at - arrivals'[m].at \in -span .. span
    <3>1. arrivals[m].at \in Nat /\ arrivals[m].at <= now /\ now \in Nat /\ span \in Nat
      BY <2>0, WindowAssumption DEF Stamped
    <3>2. arrivals'[k].at = now /\ arrivals'[m].at = arrivals[m].at
      BY <1>2, <2>2 DEF Works
    <3> QED BY <2>1, <3>1, <3>2
  <2>5. arrivals'[k].limiter = x.limiter
    BY <1>2
  <2> QED BY <2>0, <2>2, <2>3, <2>4, <2>5 DEF Helped
<1> QED BY <1>2, <1>3, <1>4, HelpStays

-----------------------------------------------------------------------------
\* What Arrivals says of the stamps.
LEMMA ArrivalsStamped == Arrivals => Stamped(arrivals, now)
<1> SUFFICES ASSUME Arrivals PROVE Stamped(arrivals, now)
  OBVIOUS
<1>1. ASSUME NEW n \in DOMAIN arrivals PROVE arrivals[n].at \in Nat /\ arrivals[n].at <= now
  <2>1. Recorded(arrivals[n], now, life) /\ now \in Nat
    BY DEF Arrivals
  <2> QED BY <2>1 DEF Recorded
<1> QED BY <1>1 DEF Arrivals, Stamped

\* checkMemoryRateLimit.
LEMMA MemoryCounts ==
    ASSUME Arrivals, Limiters, Counters, WaitingHelps, CountMemory
    PROVE  Counters' /\ WaitingHelps' /\ \E x : Works(x)
<1>1. PICK x : x = [limiter |-> "memory", key |-> <<>>, at |-> now, decided |-> now,
                    life |-> life, answer |-> Answer(MemoryAllows)]
  OBVIOUS
<1>2. Works(x) /\ UNCHANGED <<perKey, recent>> /\ x.limiter = "memory" /\ x.at = now /\ x.life = life
  BY <1>1 DEF CountMemory, Arrival, Works, Answer
<1>3. Stamped(arrivals, now)
  BY ArrivalsStamped
<1>4. /\ Limit \in Nat \ {0} /\ Window \in Nat \ {0} /\ now \in Nat
      /\ memory.count \in Nat /\ memory.resetAt \in Int
  BY WindowAssumption DEF Limiters, Arrivals
<1>5. Fixed(arrivals, life, now, "memory", memory, memory.resetAt - 1)
  BY DEF Counters
<1>6. memory.resetAt > now => memory.count # 0
  BY <1>4, <1>5 DEF Fixed, NoEntry
<1>7. /\ Fixed(arrivals', life, now, "memory", memory', memory'.resetAt - 1)
      /\ x.answer = "refused" => memory.resetAt > now
  <2>1. CASE memory.resetAt <= now
    <3>1. MemoryEntry = [count |-> 0, resetAt |-> now + Window]
      BY <2>1 DEF MemoryEntry
    <3>2. memory' = [count |-> 1, resetAt |-> now + Window] /\ memory'.resetAt - 1 = now + Window - 1
      BY <1>4, <3>1 DEF CountMemory
    <3>3. x.answer = "allowed"
      BY <1>1, <1>4, <3>1 DEF MemoryAllows, Answer
    <3>4. memory.count # 0 => memory.resetAt - 1 < now
      BY <1>4, <2>1
    <3>5. Fixed(Append(arrivals, x), life, now, "memory", [count |-> 1, resetAt |-> now + Window], now + Window - 1)
      BY <1>2, <1>3, <1>4, <1>5, <3>3, <3>4, WindowOpens
    <3> QED BY <1>2, <3>2, <3>3, <3>5 DEF Works
  <2>2. CASE memory.resetAt > now
    <3>1. MemoryEntry = memory /\ memory.count \in Nat \ {0}
      BY <1>4, <1>6, <2>2 DEF MemoryEntry
    <3>2. memory' = [memory EXCEPT !.count = @ + 1]
      BY <3>1 DEF CountMemory
    <3>3. memory'.count = memory.count + 1 /\ memory'.resetAt = memory.resetAt
      BY <3>2 DEF Limiters
    <3>4. CASE x.answer = "allowed"
      <4>1. memory.count < Limit /\ now <= memory.resetAt - 1
        BY <1>1, <1>4, <2>2, <3>1, <3>4 DEF MemoryAllows, Answer
      <4>2. Fixed(Append(arrivals, x), life, now, "memory", memory', memory.resetAt - 1)
        BY <1>2, <1>3, <1>4, <1>5, <3>1, <3>3, <3>4, <4>1, WindowCounts
      <4> QED BY <1>2, <2>2, <3>3, <4>2 DEF Works
    <3>5. CASE x.answer # "allowed"
      <4>1. Agree(arrivals, arrivals', life, "memory")
        BY <1>2, <1>3, <3>5, WorkAgrees
      <4>2. memory.count # 0 /\ memory'.count >= memory.count /\ memory'.count \in Nat /\ now <= now
        BY <1>4, <3>1, <3>3
      <4>3. Fixed(arrivals', life, now, "memory", memory', memory.resetAt - 1)
        BY <1>3, <1>4, <1>5, <3>3, <4>1, <4>2, WindowStays
      <4> QED BY <2>2, <3>3, <4>3
    <3> QED BY <3>4, <3>5
  <2> QED BY <1>4, <2>1, <2>2
<1>8. memory'.count \in Nat /\ memory'.resetAt \in Int
  BY MemoryKeeps DEF Limiters
<1>9. ProcessBound'
  <2>1. Stamped(arrivals', now)
    BY <1>2, <1>3, OneMore DEF Works
  <2>2. Lately(arrivals', life, now, "memory")
    BY <1>7, <1>8, <2>1, FixedLately
  <2> QED BY <1>2, <1>3, <2>2, BoundAtWork DEF Counters, Works
<1>10. Counters'
  <2>1. Agree(arrivals, arrivals', life, "perKey") /\ Agree(arrivals, arrivals', life, "recent")
    BY <1>2, <1>3, WorkAgrees
  <2>2. Fixed(arrivals', life, now, "perKey", perKey, perKey.resetAt)
    <3>1. perKey.count \in Nat /\ perKey.resetAt \in Int /\ now <= now
      BY <1>4 DEF Limiters
    <3>2. Fixed(arrivals, life, now, "perKey", perKey, perKey.resetAt)
      BY DEF Counters
    <3> QED BY <1>3, <1>4, <2>1, <3>1, <3>2, WindowStays
  <2>3. Sliding(arrivals', life, now, recent)
    <3>1. now <= now /\ Sliding(arrivals, life, now, recent)
      BY <1>4 DEF Counters
    <3> QED BY <1>3, <1>4, <2>1, <3>1, SlidingStays
  <2> QED BY <1>2, <1>7, <1>9, <2>2, <2>3 DEF Counters, Works
<1>11. WaitingHelps'
  <2>1. ASSUME x.answer = "refused"
        PROVE  \E m \in DOMAIN arrivals :
                   /\ arrivals[m].limiter = "memory" /\ arrivals[m].life = life /\ arrivals[m].key = <<>>
                   /\ now - arrivals[m].at <= Window - 1
    <3>1. PICK f \in Allowed(arrivals, life, "memory") : arrivals[f].at = memory.resetAt - Window
      BY <1>5, <1>6, <1>7, <2>1 DEF Fixed
    <3>2. f \in DOMAIN arrivals /\ arrivals[f].limiter = "memory" /\ arrivals[f].life = life
      BY DEF Allowed
    <3>3. arrivals[f].key = <<>>
      BY <3>2 DEF Arrivals, Recorded
    <3>4. now - arrivals[f].at <= Window - 1
      BY <1>4, <1>7, <2>1, <3>1
    <3> QED BY <3>2, <3>3, <3>4
  <2> QED BY <1>2, <1>3, <2>1, WorkHelps
<1> QED BY <1>2, <1>10, <1>11

\* rateLimit of auth.ts.
LEMMA PerKeyCounts ==
    ASSUME Arrivals, Limiters, Counters, WaitingHelps, CountPerKey
    PROVE  Counters' /\ WaitingHelps' /\ \E x : Works(x)
<1>1. PICK x : x = [limiter |-> "perKey", key |-> <<>>, at |-> now, decided |-> now,
                    life |-> life, answer |-> Answer(now > perKey.resetAt \/ ~PerKeyFull)]
  OBVIOUS
<1>2. Works(x) /\ UNCHANGED <<memory, recent>> /\ x.limiter = "perKey" /\ x.at = now /\ x.life = life
  BY <1>1 DEF CountPerKey, Arrival, Works, Answer
<1>3. Stamped(arrivals, now)
  BY ArrivalsStamped
<1>4. /\ Limit \in Nat \ {0} /\ Window \in Nat \ {0} /\ now \in Nat
      /\ perKey.count \in Nat /\ perKey.resetAt \in Int
  BY WindowAssumption DEF Limiters, Arrivals
<1>5. Fixed(arrivals, life, now, "perKey", perKey, perKey.resetAt)
  BY DEF Counters
<1>6. perKey.resetAt >= now => perKey.count # 0
  BY <1>4, <1>5 DEF Fixed, NoEntry
<1>7. /\ Fixed(arrivals', life, now, "perKey", perKey', perKey'.resetAt)
      /\ x.answer = "refused" => perKey.resetAt >= now
  <2>1. CASE now > perKey.resetAt
    <3>1. perKey' = [count |-> 1, resetAt |-> now + Window] /\ perKey'.resetAt = now + Window
      BY <2>1 DEF CountPerKey
    <3>2. x.answer = "allowed"
      BY <1>1, <2>1 DEF Answer
    <3>3. perKey.count # 0 => perKey.resetAt < now
      BY <1>4, <2>1
    <3>4. Fixed(Append(arrivals, x), life, now, "perKey", [count |-> 1, resetAt |-> now + Window], now + Window)
      BY <1>2, <1>3, <1>4, <1>5, <3>2, <3>3, WindowOpens
    <3> QED BY <1>2, <3>1, <3>2, <3>4 DEF Works
  <2>2. CASE ~(now > perKey.resetAt) /\ ~PerKeyFull
    <3>1. perKey' = [perKey EXCEPT !.count = @ + 1]
      BY <2>2 DEF CountPerKey
    <3>2. perKey'.count = perKey.count + 1 /\ perKey'.resetAt = perKey.resetAt
      BY <3>1 DEF Limiters
    <3>3. x.answer = "allowed"
      BY <1>1, <2>2 DEF Answer
    <3>4. perKey.count \in Nat \ {0} /\ perKey.count < Limit /\ now <= perKey.resetAt
      BY <1>4, <1>6, <2>2 DEF PerKeyFull
    <3>5. Fixed(Append(arrivals, x), life, now, "perKey", perKey', perKey.resetAt)
      BY <1>2, <1>3, <1>4, <1>5, <3>2, <3>3, <3>4, WindowCounts
    <3> QED BY <1>2, <3>2, <3>3, <3>5 DEF Works
  <2>3. CASE ~(now > perKey.resetAt) /\ PerKeyFull
    <3>1. perKey' = perKey /\ now <= now /\ perKey.resetAt >= now
      BY <1>4, <2>3 DEF CountPerKey
    <3>2. x.answer = "refused"
      BY <1>1, <2>3 DEF Answer
    <3>3. Agree(arrivals, arrivals', life, "perKey")
      BY <1>2, <1>3, <3>2, WorkAgrees
    <3>4. Fixed(arrivals', life, now, "perKey", perKey, perKey.resetAt)
      BY <1>3, <1>4, <1>5, <3>1, <3>3, WindowStays
    <3> QED BY <3>1, <3>4
  <2> QED BY <2>1, <2>2, <2>3
<1>8. perKey'.count \in Nat /\ perKey'.resetAt \in Int
  <2>1. Limiters'
    BY PerKeyKeeps
  <2> QED BY <1>4, <2>1 DEF Limiters
<1>9. ProcessBound'
  <2>1. Stamped(arrivals', now)
    BY <1>2, <1>3, OneMore DEF Works
  <2>2. Lately(arrivals', life, now, "perKey")
    BY <1>7, <1>8, <2>1, FixedLately
  <2> QED BY <1>2, <1>3, <2>2, BoundAtWork DEF Counters, Works
<1>10. Counters'
  <2>1. Agree(arrivals, arrivals', life, "memory") /\ Agree(arrivals, arrivals', life, "recent")
    BY <1>2, <1>3, WorkAgrees
  <2>2. Fixed(arrivals', life, now, "memory", memory, memory.resetAt - 1)
    <3>1. memory.count \in Nat /\ memory.resetAt \in Int /\ now <= now
      BY <1>4 DEF Limiters
    <3>2. Fixed(arrivals, life, now, "memory", memory, memory.resetAt - 1)
      BY DEF Counters
    <3> QED BY <1>3, <1>4, <2>1, <3>1, <3>2, WindowStays
  <2>3. Sliding(arrivals', life, now, recent)
    <3>1. now <= now /\ Sliding(arrivals, life, now, recent)
      BY <1>4 DEF Counters
    <3> QED BY <1>3, <1>4, <2>1, <3>1, SlidingStays
  <2> QED BY <1>2, <1>7, <1>9, <2>2, <2>3 DEF Counters, Works
<1>11. WaitingHelps'
  <2>1. ASSUME x.answer = "refused"
        PROVE  \E m \in DOMAIN arrivals :
                   /\ arrivals[m].limiter = "perKey" /\ arrivals[m].life = life /\ arrivals[m].key = <<>>
                   /\ now - arrivals[m].at <= Window
    <3>1. PICK f \in Allowed(arrivals, life, "perKey") : arrivals[f].at = perKey.resetAt - Window
      BY <1>5, <1>6, <1>7, <2>1 DEF Fixed
    <3>2. f \in DOMAIN arrivals /\ arrivals[f].limiter = "perKey" /\ arrivals[f].life = life
      BY DEF Allowed
    <3>3. arrivals[f].key = <<>>
      BY <3>2 DEF Arrivals, Recorded
    <3>4. now - arrivals[f].at <= Window
      BY <1>4, <1>7, <2>1, <3>1
    <3> QED BY <3>2, <3>3, <3>4
  <2> QED BY <1>2, <1>3, <2>1, WorkHelps
<1> QED BY <1>2, <1>10, <1>11

\* limit of routes/activity.ts.
LEMMA RecentCounts ==
    ASSUME Arrivals, Limiters, Counters, WaitingHelps, CountRecent
    PROVE  Counters' /\ WaitingHelps' /\ \E x : Works(x)
<1>0. PICK max \in {Limit, Limit \div 2} :
          LET kept == {n \in recent : now - arrivals[n].at < Window}
              allowed == Cardinality(kept) < max IN
          /\ recent' = IF allowed THEN kept \cup {Len(arrivals) + 1} ELSE recent
          /\ arrivals' = Append(arrivals, [limiter |-> "recent", key |-> <<>>, at |-> now, decided |-> now,
                                          life |-> life, answer |-> Answer(allowed)])
  BY DEF CountRecent, Arrival
<1>1. PICK kept, x :
          /\ kept = {n \in recent : now - arrivals[n].at < Window}
          /\ x = [limiter |-> "recent", key |-> <<>>, at |-> now, decided |-> now,
                  life |-> life, answer |-> Answer(Cardinality(kept) < max)]
          /\ recent' = IF Cardinality(kept) < max THEN kept \cup {Len(arrivals) + 1} ELSE recent
          /\ arrivals' = Append(arrivals, x)
  BY <1>0
<1>2. /\ Works(x) /\ UNCHANGED <<memory, perKey>> /\ x.limiter = "recent" /\ x.at = now /\ x.life = life
  BY <1>1 DEF CountRecent, Works, Answer
<1>3. Stamped(arrivals, now)
  BY ArrivalsStamped
<1>4. Limit \in Nat \ {0} /\ Window \in Nat \ {0} /\ now \in Nat /\ now <= now
  BY WindowAssumption DEF Arrivals
<1>5. Sliding(arrivals, life, now, recent)
  BY DEF Counters
<1>6. Sliding(arrivals', life, now, recent')
  <2>1. CASE Cardinality(kept) < max
    <3>1. x.answer = "allowed" /\ recent' = {n \in recent : now - arrivals[n].at < Window} \cup {Len(arrivals) + 1}
      BY <1>1, <2>1 DEF Answer
    <3>2. Sliding(Append(arrivals, x), life, now, {n \in recent : now - arrivals[n].at < Window} \cup {Len(arrivals) + 1})
      BY <1>2, <1>3, <1>5, <3>1, SlidingCounts
    <3> QED BY <1>1, <3>1, <3>2
  <2>2. CASE ~(Cardinality(kept) < max)
    <3>1. x.answer = "refused" /\ recent' = recent
      BY <1>1, <2>2 DEF Answer
    <3>2. Agree(arrivals, arrivals', life, "recent")
      BY <1>2, <1>3, <3>1, WorkAgrees
    <3> QED BY <1>3, <1>4, <1>5, <3>1, <3>2, SlidingStays
  <2> QED BY <2>1, <2>2
<1>7. ProcessBound'
  <2>1. Stamped(arrivals', now)
    BY <1>2, <1>3, OneMore DEF Works
  <2>2. IsFiniteSet(recent') /\ Cardinality(recent') <= Limit
    <3>1. Limiters'
      BY RecentKeeps
    <3> QED BY <3>1 DEF Limiters, LimitsTypeOK
  <2>3. Lately(arrivals', life, now, "recent")
    BY <1>6, <2>1, <2>2, SlidingLately
  <2> QED BY <1>2, <1>3, <2>3, BoundAtWork DEF Counters, Works
<1>8. Counters'
  <2>1. Agree(arrivals, arrivals', life, "memory") /\ Agree(arrivals, arrivals', life, "perKey")
    BY <1>2, <1>3, WorkAgrees
  <2>2. /\ memory.count \in Nat /\ memory.resetAt \in Int
        /\ perKey.count \in Nat /\ perKey.resetAt \in Int
    BY <1>4 DEF Limiters
  <2>3. Fixed(arrivals', life, now, "memory", memory, memory.resetAt - 1)
    <3>1. Fixed(arrivals, life, now, "memory", memory, memory.resetAt - 1)
      BY DEF Counters
    <3> QED BY <1>3, <1>4, <2>1, <2>2, <3>1, WindowStays
  <2>4. Fixed(arrivals', life, now, "perKey", perKey, perKey.resetAt)
    <3>1. Fixed(arrivals, life, now, "perKey", perKey, perKey.resetAt)
      BY DEF Counters
    <3> QED BY <1>3, <1>4, <2>1, <2>2, <3>1, WindowStays
  <2> QED BY <1>2, <1>6, <1>7, <2>3, <2>4 DEF Counters, Works
<1>9. WaitingHelps'
  <2>1. ASSUME x.answer = "refused"
        PROVE  \E m \in DOMAIN arrivals :
                   /\ arrivals[m].limiter = "recent" /\ arrivals[m].life = life /\ arrivals[m].key = <<>>
                   /\ now - arrivals[m].at <= Window - 1
    <3>1. ~(Cardinality(kept) < max)
      BY <1>1, <2>1 DEF Answer
    <3>2. max > 0
      BY <1>4, HalfAssumption
    <3>3. kept # {}
      BY <3>1, <3>2, NobodyFits
    <3>4. PICK f \in recent : now - arrivals[f].at < Window
      BY <1>1, <3>3
    <3>5. f \in DOMAIN arrivals /\ arrivals[f].limiter = "recent" /\ arrivals[f].life = life
      BY <1>5 DEF Sliding, Allowed
    <3>6. arrivals[f].key = <<>> /\ arrivals[f].at \in Nat
      BY <3>5 DEF Arrivals, Recorded
    <3> QED BY <1>4, <3>4, <3>5, <3>6
  <2> QED BY <1>2, <1>3, <2>1, WorkHelps
<1> QED BY <1>2, <1>8, <1>9

-----------------------------------------------------------------------------
\* Redis: every bucket was made by a request of its name that no call is about to count again, and
\* unless its EXPIRE was lost it lives through its slot.
Made(b) ==
    /\ redis[b].expires \in Int
    /\ \E m \in DOMAIN arrivals :
           /\ arrivals[m].limiter = "redis" /\ b = <<arrivals[m].key, Slot(arrivals[m].at)>>
           /\ \A c \in Calls : pc[c] = "incr" => req[c].nth # m
           /\ redis[b].expires = Never \/ redis[b].expires >= Window * Slot(arrivals[m].at) + Window

Buckets == \A b \in DOMAIN redis : Made(b)

\* The requests of a slot let through within it, with those that will be after EXPIRE.
Granted(key, w) ==
    {m \in DOMAIN arrivals :
        /\ arrivals[m].limiter = "redis" /\ arrivals[m].key = key /\ Slot(arrivals[m].at) = w
        /\ \/ arrivals[m].answer = "allowed" /\ Slot(arrivals[m].decided) = w
           \/ Slot(now) = w /\ \E c \in Calls : pc[c] = "expire" /\ req[c].nth = m}

\* What has been counted of what is allowed; of a slot that is over, all.
Room(key, w) ==
    IF w < Slot(now) THEN Limit
    ELSE IF <<key, w>> \notin DOMAIN redis THEN 0
    ELSE IF redis[<<key, w>>].count < Limit THEN redis[<<key, w>>].count ELSE Limit

\* Two slots share the errors of INCR.
Shared(key, v, w) ==
    Cardinality(Granted(key, v)) + Cardinality(Granted(key, w)) <= Room(key, v) + Room(key, w) + failures

Slots == \A key : \A v, w \in Nat : v # w => Shared(key, v, w)

\* Numbers.
LEMMA GrantedSize ==
    ASSUME IsList(arrivals)
    PROVE  \A key, w : /\ Granted(key, w) \in SUBSET DOMAIN arrivals
                       /\ IsFiniteSet(Granted(key, w)) /\ Cardinality(Granted(key, w)) \in Nat
  BY SomeArrivals DEF Granted
\* Room is a number, and Limit at most.
LEMMA RoomSize ==
    ASSUME Limiters
    PROVE  \A key, w : Room(key, w) \in Nat /\ Room(key, w) <= Limit
  BY WindowAssumption DEF Room, Limiters

\* A step that grants nothing and takes away no room.
Shrinks ==
    \A key : \A w \in Nat : Granted(key, w)' \subseteq Granted(key, w) /\ Room(key, w) <= Room(key, w)'

\* Such a step keeps what two slots grant within what is counted.
LEMMA SlotsKept ==
    ASSUME Slots, Shrinks, Limiters, Limiters', IsList(arrivals), failures \in Nat, failures' \in Nat,
           failures <= failures'
    PROVE  Slots'
<1> SUFFICES ASSUME NEW key, NEW v \in Nat, NEW w \in Nat, v # w
             PROVE  Shared(key, v, w)'
  BY DEF Slots
<1>1. /\ Cardinality(Granted(key, v)') <= Cardinality(Granted(key, v)) /\ Cardinality(Granted(key, v)') \in Nat
      /\ Cardinality(Granted(key, w)') <= Cardinality(Granted(key, w)) /\ Cardinality(Granted(key, w)') \in Nat
  <2>1. Granted(key, v)' \subseteq Granted(key, v) /\ Granted(key, w)' \subseteq Granted(key, w)
    BY DEF Shrinks
  <2>2. IsFiniteSet(Granted(key, v)) /\ IsFiniteSet(Granted(key, w))
    BY GrantedSize
  <2> QED BY <2>1, <2>2, FS_Subset, FS_CardinalityType
<1>2. Cardinality(Granted(key, v)) \in Nat /\ Cardinality(Granted(key, w)) \in Nat
  BY GrantedSize
<1>3. Room(key, v) <= Room(key, v)' /\ Room(key, w) <= Room(key, w)'
  BY DEF Shrinks
<1>4. Room(key, v) \in Nat /\ Room(key, w) \in Nat
  BY RoomSize
<1>5. Room(key, v)' \in Nat /\ Room(key, w)' \in Nat
  BY WindowAssumption DEF Room, Limiters
<1>6. Cardinality(Granted(key, v)) + Cardinality(Granted(key, w)) <= Room(key, v) + Room(key, w) + failures
  BY DEF Slots, Shared
<1>7. Cardinality(Granted(key, v)') + Cardinality(Granted(key, w)') <= Room(key, v)' + Room(key, w)' + failures'
  BY <1>1, <1>2, <1>3, <1>4, <1>5, <1>6
<1> QED BY <1>7 DEF Shared

\* A step that grants one request, for which there is one more counted, or one more error.
Grants(k, s, n) ==
    \A key : \A w \in Nat :
        /\ Granted(key, w)' \subseteq Granted(key, w) \cup {n}
        /\ (key # k \/ w # s) => Granted(key, w)' \subseteq Granted(key, w)
        /\ Room(key, w) <= Room(key, w)'

\* And so does this one.
LEMMA SlotsGrant ==
    ASSUME Slots, NEW k, NEW s, NEW n, Grants(k, s, n), Limiters, Limiters', IsList(arrivals),
           failures \in Nat, failures' \in Nat, failures <= failures',
           s \in Nat => Room(k, s) + failures + 1 <= Room(k, s)' + failures'
    PROVE  Slots'
<1> SUFFICES ASSUME NEW key, NEW v \in Nat, NEW w \in Nat, v # w
             PROVE  Shared(key, v, w)'
  BY DEF Slots
<1>1. \A u \in Nat :
          /\ Cardinality(Granted(key, u)) \in Nat /\ Cardinality(Granted(key, u)') \in Nat
          /\ Cardinality(Granted(key, u)') <= Cardinality(Granted(key, u)) + 1
          /\ (key # k \/ u # s) => Cardinality(Granted(key, u)') <= Cardinality(Granted(key, u))
  <2> SUFFICES ASSUME NEW u \in Nat
               PROVE  /\ Cardinality(Granted(key, u)) \in Nat /\ Cardinality(Granted(key, u)') \in Nat
                      /\ Cardinality(Granted(key, u)') <= Cardinality(Granted(key, u)) + 1
                      /\ (key # k \/ u # s) => Cardinality(Granted(key, u)') <= Cardinality(Granted(key, u))
    OBVIOUS
  <2>1. PICK S, T : S = Granted(key, u) /\ T = Granted(key, u)'
    OBVIOUS
  <2>2. T \subseteq S \cup {n} /\ ((key # k \/ u # s) => T \subseteq S)
    BY <2>1 DEF Grants
  <2>3. IsFiniteSet(S) /\ Cardinality(S) \in Nat
    BY <2>1, GrantedSize
  <2>4. IsFiniteSet({n}) /\ Cardinality({n}) = 1 /\ IsFiniteSet(S \cup {n})
    BY <2>3, FS_Singleton, FS_AddElement
  <2>5. IsFiniteSet(T) /\ Cardinality(T) \in Nat
    BY <2>2, <2>4, FS_Subset, FS_CardinalityType
  <2>6. Cardinality(T) <= Cardinality(S) + Cardinality({n})
    BY <2>2, <2>3, <2>4, AddedSize
  <2>7. (key # k \/ u # s) => Cardinality(T) <= Cardinality(S)
    BY <2>2, <2>3, FS_Subset
  <2> QED BY <2>1, <2>3, <2>4, <2>5, <2>6, <2>7
<1>2. \A u \in Nat : Room(key, u) \in Nat /\ Room(key, u)' \in Nat /\ Room(key, u) <= Room(key, u)'
  <2>1. \A u \in Nat : Room(key, u) \in Nat
    BY RoomSize
  <2>2. \A u \in Nat : Room(key, u)' \in Nat
    BY WindowAssumption DEF Room, Limiters
  <2> QED BY <2>1, <2>2 DEF Grants
<1>3. PICK gv \in Nat, gw \in Nat, rv \in Nat, rw \in Nat, hv \in Nat, hw \in Nat, qv \in Nat, qw \in Nat :
          /\ gv = Cardinality(Granted(key, v)) /\ gw = Cardinality(Granted(key, w))
          /\ rv = Room(key, v) /\ rw = Room(key, w)
          /\ hv = Cardinality(Granted(key, v)') /\ hw = Cardinality(Granted(key, w)')
          /\ qv = Room(key, v)' /\ qw = Room(key, w)'
  BY <1>1, <1>2
<1>f. PICK f \in Nat, e \in Nat : f = failures /\ e = failures' /\ f <= e
  OBVIOUS
<1>4. gv + gw <= rv + rw + f
  BY <1>3, <1>f DEF Slots, Shared
<1>5. rv <= qv /\ rw <= qw /\ hv <= gv + 1 /\ hw <= gw + 1
  BY <1>1, <1>2, <1>3
<1>6. PICK dv \in 0 .. 1, dw \in 0 .. 1 :
          hv <= gv + dv /\ hw <= gw + dw /\ rv + rw + f + dv + dw <= qv + qw + e
  <2>1. CASE key = k /\ v = s
    <3>1. hw <= gw + 0 /\ rv + f + 1 <= qv + e
      BY <1>1, <1>3, <1>f, <2>1
    <3>2. rv + rw + f + 1 + 0 <= qv + qw + e
      BY <1>5, <3>1
    <3> QED BY <1>5, <3>1, <3>2
  <2>2. CASE key = k /\ w = s
    <3>1. hv <= gv + 0 /\ rw + f + 1 <= qw + e
      BY <1>1, <1>3, <1>f, <2>2
    <3>2. rv + rw + f + 0 + 1 <= qv + qw + e
      BY <1>5, <3>1
    <3> QED BY <1>5, <3>1, <3>2
  <2>3. CASE key # k \/ (v # s /\ w # s)
    <3>1. hv <= gv + 0 /\ hw <= gw + 0
      BY <1>1, <1>3, <2>3
    <3>2. rv + rw + f + 0 + 0 <= qv + qw + e
      <4>1. PICK a \in Nat, b \in Nat : a = rv + rw /\ b = qv + qw
        OBVIOUS
      <4>2. a <= b
        BY <1>5, <4>1
      <4>3. f <= e
        BY <1>f
      <4>4. a + f <= b + e
        BY <4>2, <4>3
      <4> QED BY <4>1, <4>4
    <3> QED BY <3>1, <3>2
  <2> QED BY <2>1, <2>2, <2>3
<1>7. hv + hw <= qv + qw + e
  <2>1. PICK a \in Nat, b \in Nat, c \in Nat : a = gv + dv + gw + dw /\ b = rv + rw + f + dv + dw /\ c = qv + qw + e
    OBVIOUS
  <2>2. a <= b
    BY <1>4, <2>1
  <2>3. b <= c
    BY <1>6, <2>1
  <2>4. hv + hw <= a
    BY <1>6, <2>1
  <2> QED BY <2>1, <2>2, <2>3, <2>4
<1> QED BY <1>3, <1>f, <1>7 DEF Shared

\* Calls that wait for Redis do so before and after, for the same.
Still ==
    \A c \in Calls : pc[c] \in Asking \/ pc'[c] \in Asking => pc'[c] = pc[c] /\ req'[c] = req[c]

\* The limiters' joint invariant.
LimitInv == Arrivals /\ Counters /\ WaitingHelps /\ Buckets /\ Slots

-----------------------------------------------------------------------------
\* No call comes to wait for Redis, and who waits on has what it had.
Asks ==
    \A c \in Calls : pc'[c] \in Asking =>
        pc[c] \in Asking /\ req'[c] = req[c] /\ arrivals'[req[c].nth] = arrivals[req[c].nth]

\* The history after a step that makes no call wait.
LEMMA ArrivalsKept ==
    ASSUME Arrivals, Asks, IsList(arrivals'), DOMAIN arrivals \subseteq DOMAIN arrivals',
           life' \in Nat, now' \in Nat, failures' \in Nat, now <= now', life <= life',
           \A n \in DOMAIN arrivals' :
               (n \in DOMAIN arrivals /\ arrivals'[n] = arrivals[n]) \/ Recorded(arrivals'[n], now', life')
    PROVE  Arrivals'
<1>1. ASSUME NEW n \in DOMAIN arrivals' PROVE Recorded(arrivals'[n], now', life')
  <2>1. CASE n \in DOMAIN arrivals /\ arrivals'[n] = arrivals[n]
    <3>1. PICK a : a = arrivals[n]
      OBVIOUS
    <3>2. Recorded(a, now, life) /\ now \in Nat /\ life \in Nat
      BY <2>1, <3>1 DEF Arrivals
    <3>3. Recorded(a, now', life')
      BY <3>2 DEF Recorded
    <3> QED BY <2>1, <3>1, <3>3
  <2> QED BY <2>1
<1>2. ASSUME NEW c \in Calls, pc'[c] \in Asking PROVE Asked(c)'
  <2>1. Asked(c) /\ req'[c] = req[c] /\ arrivals'[req[c].nth] = arrivals[req[c].nth]
    BY <1>2 DEF Arrivals, Asks
  <2> QED BY <2>1 DEF Asked
<1>3. ASSUME NEW c \in Calls, NEW d \in Calls, pc'[c] \in Asking, pc'[d] \in Asking, req'[c].nth = req'[d].nth
      PROVE  c = d
  BY <1>3 DEF Arrivals, Asks
<1> QED BY <1>1, <1>2, <1>3 DEF Arrivals

\* The limiters of a process that is not at work.
LEMMA CountersBeside ==
    ASSUME Arrivals, Limiters, Counters, Beside, UNCHANGED <<memory, perKey, recent, life>>,
           now' \in Nat, now <= now'
    PROVE  Counters'
<1>1. Stamped(arrivals, now) /\ Window \in Nat
  BY ArrivalsStamped, WindowAssumption
<1>2. ASSUME NEW l, l # "redis" PROVE Agree(arrivals, arrivals', life, l)
  <2>1. \A m : m \in DOMAIN arrivals' /\ arrivals'[m].limiter = l => m \in DOMAIN arrivals /\ arrivals'[m] = arrivals[m]
    BY <1>2 DEF Beside
  <2>2. \A m : m \in DOMAIN arrivals /\ arrivals[m].limiter = l => m \in DOMAIN arrivals' /\ arrivals'[m] = arrivals[m]
    BY <1>2 DEF Beside
  <2> QED BY <2>1, <2>2 DEF Agree, Allowed
<1>3. /\ memory.count \in Nat /\ memory.resetAt \in Int
      /\ perKey.count \in Nat /\ perKey.resetAt \in Int
  BY WindowAssumption DEF Limiters
<1>4. Fixed(arrivals', life, now', "memory", memory, memory.resetAt - 1)
  <2>1. Agree(arrivals, arrivals', life, "memory") /\ Fixed(arrivals, life, now, "memory", memory, memory.resetAt - 1)
    BY <1>2 DEF Counters
  <2> QED BY <1>1, <1>3, <2>1, WindowStays
<1>5. Fixed(arrivals', life, now', "perKey", perKey, perKey.resetAt)
  <2>1. Agree(arrivals, arrivals', life, "perKey") /\ Fixed(arrivals, life, now, "perKey", perKey, perKey.resetAt)
    BY <1>2 DEF Counters
  <2> QED BY <1>1, <1>3, <2>1, WindowStays
<1>6. Sliding(arrivals', life, now', recent)
  <2>1. Agree(arrivals, arrivals', life, "recent") /\ Sliding(arrivals, life, now, recent)
    BY <1>2 DEF Counters
  <2> QED BY <1>1, <2>1, SlidingStays
<1>7. ProcessBound'
  BY BoundBeside DEF Counters
<1> QED BY <1>4, <1>5, <1>6, <1>7 DEF Counters

\* Buckets that expire when they did, and the others.
LEMMA BucketsKept ==
    ASSUME Buckets, Remembered,
           \A c \in Calls : pc'[c] = "incr" =>
               (pc[c] = "incr" /\ req'[c].nth = req[c].nth) \/ req'[c].nth \notin DOMAIN arrivals,
           \A b \in DOMAIN redis' :
               (b \in DOMAIN redis /\ redis'[b].expires = redis[b].expires) \/ Made(b)'
    PROVE  Buckets'
<1> SUFFICES ASSUME NEW b \in DOMAIN redis', b \in DOMAIN redis, redis'[b].expires = redis[b].expires
             PROVE  Made(b)'
  BY DEF Buckets
<1>1. PICK m \in DOMAIN arrivals :
          /\ arrivals[m].limiter = "redis" /\ b = <<arrivals[m].key, Slot(arrivals[m].at)>>
          /\ \A c \in Calls : pc[c] = "incr" => req[c].nth # m
          /\ redis[b].expires = Never \/ redis[b].expires >= Window * Slot(arrivals[m].at) + Window
          /\ redis[b].expires \in Int
  BY DEF Buckets, Made
<1>2. /\ m \in DOMAIN arrivals' /\ arrivals'[m].limiter = arrivals[m].limiter
      /\ arrivals'[m].key = arrivals[m].key /\ arrivals'[m].at = arrivals[m].at
  BY DEF Remembered
<1>3. \A c \in Calls : pc'[c] = "incr" => req'[c].nth # m
  BY <1>1
<1> QED BY <1>1, <1>2, <1>3 DEF Made, Slot, Never

\* A limiter of the process at work.
LEMMA WorkKeeps ==
    ASSUME Limiters, Limiters', LimitInv, Still, UNCHANGED failures, CountMemory \/ CountPerKey \/ CountRecent
    PROVE  LimitInv'
<1>1. Counters' /\ WaitingHelps'
  BY MemoryCounts, PerKeyCounts, RecentCounts DEF LimitInv
<1>2. PICK x : Works(x)
  BY MemoryCounts, PerKeyCounts, RecentCounts DEF LimitInv
<1>3. UNCHANGED <<now, life, redis>>
  BY DEF CountMemory, CountPerKey, CountRecent
<1>4. PICK k : k = Len(arrivals) + 1
  OBVIOUS
<1>5. Arrivals /\ Stamped(arrivals, now) /\ now \in Nat /\ life \in Nat
  BY ArrivalsStamped DEF LimitInv, Arrivals
<1>6. /\ Stamped(arrivals', now) /\ DOMAIN arrivals' = DOMAIN arrivals \cup {k} /\ k \notin DOMAIN arrivals
      /\ \A m \in DOMAIN arrivals : arrivals'[m] = arrivals[m]
      /\ arrivals'[k] = x
  BY <1>2, <1>4, <1>5, OneMore DEF Works
<1>7. Arrivals'
  <2>1. Asks
    <3> SUFFICES ASSUME NEW c \in Calls, pc'[c] \in Asking
                 PROVE  pc[c] \in Asking /\ req'[c] = req[c] /\ arrivals'[req[c].nth] = arrivals[req[c].nth]
      BY DEF Asks
    <3>1. pc[c] \in Asking /\ req'[c] = req[c]
      BY DEF Still
    <3>2. req[c].nth \in DOMAIN arrivals
      BY <1>5, <3>1 DEF Arrivals, Asked
    <3> QED BY <1>6, <3>1, <3>2
  <2>2. Recorded(x, now, life)
    BY <1>2, <1>5 DEF Works, Recorded
  <2>3. IsList(arrivals') /\ failures \in Nat /\ now <= now' /\ life <= life'
    BY <1>3, <1>5, <1>6 DEF Stamped, Arrivals
  <2> QED BY <1>3, <1>5, <1>6, <2>1, <2>2, <2>3, ArrivalsKept
<1>8. Buckets'
  <2>1. Remembered
    BY <1>6 DEF Remembered
  <2>2. \A c \in Calls : pc'[c] = "incr" => pc[c] = "incr" /\ req'[c].nth = req[c].nth
    BY DEF Still, Asking
  <2> QED BY <1>3, <2>1, <2>2, BucketsKept DEF LimitInv
<1>9. Slots'
  <2>1. Shrinks
    <3> SUFFICES ASSUME NEW key, NEW w \in Nat
                 PROVE  Granted(key, w)' \subseteq Granted(key, w) /\ Room(key, w) <= Room(key, w)'
      BY DEF Shrinks
    <3>1. Room(key, w)' = Room(key, w)
      BY <1>3 DEF Room, Slot
    <3>2. Room(key, w) \in Nat
      BY RoomSize
    <3>3. x.limiter # "redis"
      BY <1>2 DEF Works
    <3>4. \A m \in DOMAIN arrivals : (\E c \in Calls : pc'[c] = "expire" /\ req'[c].nth = m)
                                     => \E c \in Calls : pc[c] = "expire" /\ req[c].nth = m
      BY DEF Still, Asking
    <3>5. Granted(key, w)' \subseteq Granted(key, w)
      BY <1>3, <1>6, <3>3, <3>4 DEF Granted, Slot
    <3> QED BY <3>1, <3>2, <3>5
  <2>2. failures \in Nat /\ failures' \in Nat /\ failures <= failures' /\ IsList(arrivals)
    BY <1>5 DEF Arrivals
  <2> QED BY <2>1, <2>2, SlotsKept DEF LimitInv
<1> QED BY <1>1, <1>7, <1>8, <1>9 DEF LimitInv

\* No limiter at work; the process may have forgotten.
LEMMA IdleKeeps ==
    ASSUME Limiters, Limiters', LimitInv, Still, UNCHANGED limitVars, failures' \in {failures, failures + 1}
    PROVE  LimitInv'
<1>1. UNCHANGED <<now, life, redis, arrivals, memory, perKey, recent>>
  OBVIOUS
<1>2. Arrivals /\ now \in Nat /\ life \in Nat /\ failures \in Nat /\ IsList(arrivals)
  BY DEF LimitInv, Arrivals
<1>3. failures' \in Nat /\ failures <= failures' /\ now <= now' /\ life <= life'
  BY <1>1, <1>2
<1>4. Arrivals'
  <2>1. Asks
    BY <1>1 DEF Still, Asks
  <2> QED BY <1>1, <1>2, <1>3, <2>1, ArrivalsKept
<1>5. Counters'
  <2>1. Beside
    BY <1>1 DEF Beside
  <2> QED BY <1>1, <1>2, <1>3, <2>1, CountersBeside DEF LimitInv
<1>6. Remembered
  BY <1>1 DEF Remembered
<1>7. WaitingHelps'
  BY <1>1, <1>6, HelpStays DEF LimitInv
<1>8. Buckets'
  <2>1. \A c \in Calls : pc'[c] = "incr" => pc[c] = "incr" /\ req'[c].nth = req[c].nth
    BY DEF Still, Asking
  <2> QED BY <1>1, <1>6, <2>1, BucketsKept DEF LimitInv
<1>9. Slots'
  <2>1. Shrinks
    <3> SUFFICES ASSUME NEW key, NEW w \in Nat
                 PROVE  Granted(key, w)' \subseteq Granted(key, w) /\ Room(key, w) <= Room(key, w)'
      BY DEF Shrinks
    <3>1. Room(key, w)' = Room(key, w) /\ Room(key, w) \in Nat
      BY <1>1, RoomSize DEF Room, Slot
    <3>2. \A m \in DOMAIN arrivals : (\E c \in Calls : pc'[c] = "expire" /\ req'[c].nth = m)
                                     => \E c \in Calls : pc[c] = "expire" /\ req[c].nth = m
      BY DEF Still, Asking
    <3>3. Granted(key, w)' \subseteq Granted(key, w)
      BY <1>1, <3>2 DEF Granted, Slot
    <3> QED BY <3>1, <3>3
  <2> QED BY <1>2, <1>3, <2>1, SlotsKept DEF LimitInv
<1> QED BY <1>4, <1>5, <1>7, <1>8, <1>9 DEF LimitInv

-----------------------------------------------------------------------------
\* A request is recorded, and its call waits for Redis.
LEMMA AskingKeeps ==
    ASSUME AccessInv, Limiters', LimitInv, NEW c \in Calls, NEW key, NEW then, NEW r, AskRedis(c, key, then, r)
    PROVE  LimitInv'
<1>1. PICK n, q, x : /\ n = Len(arrivals) + 1 /\ q = With(r, [key |-> key, then |-> then, nth |-> n])
                     /\ x = [limiter |-> "redis", key |-> key, at |-> now, decided |-> now,
                             life |-> life, answer |-> "pending"]
  OBVIOUS
<1>2. /\ arrivals' = Append(arrivals, x) /\ pc[c] = "idle"
      /\ pc' = [pc EXCEPT ![c] = "incr"] /\ req' = [req EXCEPT ![c] = q]
      /\ UNCHANGED <<now, life, redis, memory, perKey, recent, failures>>
  BY <1>1 DEF AskRedis, Arrival
<1>3. q.nth = n /\ q.key = key
  BY <1>1 DEF With
<1>4. /\ pc'[c] = "incr" /\ req'[c] = q
      /\ \A d \in Calls \ {c} : pc'[d] = pc[d] /\ req'[d] = req[d]
  BY <1>2 DEF AccessInv, Requests
<1>5. Arrivals /\ Stamped(arrivals, now) /\ now \in Nat /\ life \in Nat /\ failures \in Nat
  BY ArrivalsStamped DEF LimitInv, Arrivals
<1>6. /\ Stamped(arrivals', now) /\ DOMAIN arrivals' = DOMAIN arrivals \cup {n} /\ n \notin DOMAIN arrivals
      /\ \A m \in DOMAIN arrivals : arrivals'[m] = arrivals[m]
      /\ arrivals'[n] = x /\ x.at = now /\ x.limiter = "redis" /\ x.key = key /\ x.answer = "pending"
  <2>1. x.at = now
    BY <1>1
  <2> QED BY <1>1, <1>2, <1>5, <2>1, OneMore
<1>7. Arrivals'
  <2>1. ASSUME NEW m \in DOMAIN arrivals' PROVE Recorded(arrivals'[m], now', life')
    <3>1. CASE m = n
      BY <1>1, <1>2, <1>5, <1>6, <3>1 DEF Recorded
    <3>2. CASE m # n
      BY <1>2, <1>5, <1>6, <3>2 DEF Arrivals
    <3> QED BY <3>1, <3>2
  <2>2. ASSUME NEW d \in Calls, d # c, pc'[d] \in Asking PROVE Asked(d)' /\ req'[d].nth \in DOMAIN arrivals
    <3>1. Asked(d) /\ req'[d] = req[d]
      BY <1>4, <1>5, <2>2 DEF Arrivals
    <3> QED BY <1>6, <3>1 DEF Asked
  <2>3. Asked(c)' /\ req'[c].nth = n
    BY <1>3, <1>4, <1>6 DEF Asked
  <2>4. ASSUME NEW d \in Calls, NEW e \in Calls, pc'[d] \in Asking, pc'[e] \in Asking, req'[d].nth = req'[e].nth
        PROVE  d = e
    <3>1. CASE d # c /\ e # c
      BY <1>4, <1>5, <2>4, <3>1 DEF Arrivals
    <3>2. CASE d = c \/ e = c
      BY <1>6, <2>2, <2>3, <2>4, <3>2
    <3> QED BY <3>1, <3>2
  <2>5. IsList(arrivals')
    BY <1>6 DEF Stamped
  <2>6. \A d \in Calls : pc'[d] \in Asking => Asked(d)'
    BY <2>2, <2>3
  <2> QED BY <1>2, <1>5, <2>1, <2>4, <2>5, <2>6 DEF Arrivals
<1>8. Remembered /\ Beside
  BY <1>6 DEF Remembered, Beside
<1>9. Counters'
  <2>1. now <= now' /\ now' \in Nat
    BY <1>2, <1>5
  <2> QED BY <1>2, <1>5, <1>8, <2>1, CountersBeside DEF LimitInv, AccessInv
<1>10. WaitingHelps'
  BY <1>6, <1>8, HelpStays DEF LimitInv
<1>11. Buckets'
  <2>1. \A d \in Calls : pc'[d] = "incr" =>
            (pc[d] = "incr" /\ req'[d].nth = req[d].nth) \/ req'[d].nth \notin DOMAIN arrivals
    BY <1>3, <1>4, <1>6
  <2> QED BY <1>2, <1>8, <2>1, BucketsKept DEF LimitInv, AccessInv
<1>12. Slots'
  <2>1. Shrinks
    <3> SUFFICES ASSUME NEW k, NEW w \in Nat
                 PROVE  Granted(k, w)' \subseteq Granted(k, w) /\ Room(k, w) <= Room(k, w)'
      BY DEF Shrinks
    <3>1. Room(k, w)' = Room(k, w) /\ Room(k, w) \in Nat
      BY <1>2, RoomSize DEF Room, Slot, AccessInv
    <3>2. \A m : (\E d \in Calls : pc'[d] = "expire" /\ req'[d].nth = m)
                 => \E d \in Calls : pc[d] = "expire" /\ req[d].nth = m
      BY <1>4
    <3>3. n \notin Granted(k, w)'
      <4>1. ASSUME NEW d \in Calls, pc[d] = "expire" PROVE req[d].nth # n
        BY <1>5, <1>6, <4>1 DEF Arrivals, Asked, Asking
      <4> QED BY <1>6, <3>2, <4>1 DEF Granted
    <3>4. Granted(k, w)' \subseteq Granted(k, w)
      BY <1>2, <1>6, <3>2, <3>3 DEF Granted, Slot
    <3> QED BY <3>1, <3>4
  <2>2. failures' \in Nat /\ failures <= failures' /\ IsList(arrivals)
    BY <1>2, <1>5 DEF Arrivals
  <2> QED BY <1>5, <2>1, <2>2, SlotsKept DEF LimitInv, AccessInv
<1> QED BY <1>7, <1>9, <1>10, <1>11, <1>12 DEF LimitInv

-----------------------------------------------------------------------------
\* The answer to request n is recorded.
Decided(n, answer) ==
    /\ IsList(arrivals') /\ DOMAIN arrivals' = DOMAIN arrivals
    /\ \A m \in DOMAIN arrivals \ {n} : arrivals'[m] = arrivals[m]
    /\ DOMAIN arrivals'[n] = {"limiter", "key", "at", "decided", "life", "answer"}
    /\ arrivals'[n].limiter = arrivals[n].limiter /\ arrivals'[n].key = arrivals[n].key
    /\ arrivals'[n].at = arrivals[n].at /\ arrivals'[n].life = arrivals[n].life
    /\ arrivals'[n].decided = now /\ arrivals'[n].answer = answer

\* What Decide does to the history.
LEMMA Decides ==
    ASSUME Arrivals, NEW c \in Calls, pc[c] \in Asking, NEW answer, Decide(c, answer)
    PROVE  Decided(req[c].nth, answer)
<1>1. PICK n, a, x : /\ n = req[c].nth /\ a = arrivals[n]
                     /\ x = [[a EXCEPT !.decided = now] EXCEPT !.answer = answer]
  OBVIOUS
<1>2. n \in DOMAIN arrivals /\ IsList(arrivals) /\ Recorded(a, now, life)
  BY <1>1 DEF Arrivals, Asked
<1>3. /\ DOMAIN x = {"limiter", "key", "at", "decided", "life", "answer"}
      /\ x.limiter = a.limiter /\ x.key = a.key /\ x.at = a.at /\ x.life = a.life
      /\ x.decided = now /\ x.answer = answer
  BY <1>1, <1>2 DEF Recorded
<1>4. arrivals' = [arrivals EXCEPT ![n] = x]
  BY <1>1, <1>2 DEF Decide
<1>5. /\ IsList(arrivals') /\ DOMAIN arrivals' = DOMAIN arrivals /\ arrivals'[n] = x
      /\ \A m \in DOMAIN arrivals \ {n} : arrivals'[m] = arrivals[m]
  BY <1>2, <1>4, Changed
<1> QED BY <1>1, <1>3, <1>5 DEF Decided

\* The limiters of the process after a step of Redis.
LeavesRest == Arrivals' /\ Counters' /\ WaitingHelps' /\ Remembered

\* A call that goes on from Redis with an answer.
LEMMA DecisionKeeps ==
    ASSUME Limiters, LimitInv, NEW c \in Calls, pc[c] \in Asking, NEW n, n = req[c].nth,
           NEW answer, Decided(n, answer), Alone(c), pc'[c] \notin Asking,
           UNCHANGED <<now, life, memory, perKey, recent>>, failures' \in Nat,
           answer = "refused" => Helped(n)'
    PROVE  LeavesRest
<1>1. Arrivals /\ n \in DOMAIN arrivals /\ arrivals[n].limiter = "redis" /\ now \in Nat /\ life \in Nat
  BY DEF LimitInv, Arrivals, Asked
<1>2. Remembered /\ Beside
  BY <1>1 DEF Decided, Remembered, Beside
<1>3. Arrivals'
  <2>1. Asks
    <3> SUFFICES ASSUME NEW d \in Calls, pc'[d] \in Asking
                 PROVE  pc[d] \in Asking /\ req'[d] = req[d] /\ arrivals'[req[d].nth] = arrivals[req[d].nth]
      BY DEF Asks
    <3>1. d # c /\ pc'[d] = pc[d] /\ req'[d] = req[d]
      BY DEF Alone
    <3>2. Asked(d) /\ req[d].nth # n
      BY <1>1, <3>1 DEF Arrivals
    <3> QED BY <3>1, <3>2 DEF Decided, Asked
  <2>2. Recorded(arrivals'[n], now', life')
    <3>1. PICK a : a = arrivals[n] /\ Recorded(a, now, life)
      BY <1>1 DEF Arrivals
    <3> QED BY <1>1, <3>1 DEF Recorded, Decided
  <2>3. \A m \in DOMAIN arrivals' :
            (m \in DOMAIN arrivals /\ arrivals'[m] = arrivals[m]) \/ Recorded(arrivals'[m], now', life')
    BY <2>2 DEF Decided
  <2> QED BY <1>1, <2>1, <2>3, ArrivalsKept DEF Decided
<1>4. Counters'
  <2>1. now' \in Nat /\ now <= now'
    BY <1>1
  <2> QED BY <1>1, <1>2, <2>1, CountersBeside DEF LimitInv
<1>5. WaitingHelps'
  <2>1. \A m \in DOMAIN arrivals' : arrivals'[m].answer = "refused" =>
               (m \in DOMAIN arrivals /\ arrivals[m].answer = "refused") \/ Helped(m)'
    <3> SUFFICES ASSUME NEW m \in DOMAIN arrivals', arrivals'[m].answer = "refused", m = n
                 PROVE  Helped(m)'
      BY DEF Decided
    <3> QED BY DEF Decided
  <2> QED BY <1>2, <2>1, HelpStays DEF LimitInv
<1> QED BY <1>2, <1>3, <1>4, <1>5 DEF LeavesRest

\* A call that has INCR behind it, and EXPIRE before it.
LEMMA MoveKeeps ==
    ASSUME Limiters, LimitInv, Asks, failures' \in Nat,
           UNCHANGED <<arrivals, now, life, memory, perKey, recent>>
    PROVE  LeavesRest
<1>1. Arrivals /\ now \in Nat /\ life \in Nat /\ IsList(arrivals)
  BY DEF LimitInv, Arrivals
<1>2. Remembered /\ Beside
  BY DEF Remembered, Beside
<1>3. now' \in Nat /\ now <= now' /\ life' \in Nat /\ life <= life'
  BY <1>1
<1>4. Arrivals'
  BY <1>1, <1>3, ArrivalsKept
<1>5. Counters'
  BY <1>1, <1>2, <1>3, CountersBeside DEF LimitInv
<1>6. WaitingHelps'
  BY <1>2, HelpStays DEF LimitInv
<1> QED BY <1>2, <1>4, <1>5, <1>6 DEF LeavesRest

-----------------------------------------------------------------------------
\* The request of a call that waits for Redis, its slot and its bucket.
Waiting(c, n, s) ==
    /\ n = req[c].nth /\ n \in DOMAIN arrivals /\ arrivals[n].limiter = "redis"
    /\ arrivals[n].answer = "pending" /\ arrivals[n].key = req[c].key
    /\ arrivals[n].at \in Nat /\ arrivals[n].at <= now /\ now \in Nat
    /\ s = Slot(arrivals[n].at) /\ s \in Nat /\ s <= Slot(now) /\ Slot(now) \in Nat
    /\ Bucket(c) = <<arrivals[n].key, s>>
    /\ \A d \in Calls \ {c} : pc[d] \in Asking => req[d].nth # n

\* Whoever waits for Redis has them.
LEMMA AskedSlot ==
    ASSUME Arrivals, NEW c \in Calls, pc[c] \in Asking
    PROVE  \E n, s : Waiting(c, n, s)
<1>1. PICK n, s : n = req[c].nth /\ s = Slot(arrivals[n].at)
  OBVIOUS
<1>2. Asked(c) /\ \A d \in Calls \ {c} : pc[d] \in Asking => req[d].nth # n
  BY <1>1 DEF Arrivals
<1>3. arrivals[n].at \in Nat /\ arrivals[n].at <= now /\ now \in Nat
  <2>1. PICK a : a = arrivals[n]
    OBVIOUS
  <2>2. Recorded(a, now, life) /\ now \in Nat
    BY <1>1, <1>2, <2>1 DEF Arrivals, Asked
  <2> QED BY <2>1, <2>2 DEF Recorded
<1>4. s \in Nat /\ s <= Slot(now) /\ Slot(now) \in Nat
  BY <1>1, <1>3, SlotEnds, SlotsFollow
<1>5. Bucket(c) = <<arrivals[n].key, s>>
  BY <1>1, <1>2 DEF Bucket, AskedAt, Asked
<1>6. Waiting(c, n, s)
  BY <1>1, <1>2, <1>3, <1>4, <1>5 DEF Waiting, Asked
<1> QED BY <1>6

\* Redis cannot be reached.
LEMMA FailingKeeps ==
    ASSUME Limiters, Limiters', Requests, LimitInv, NEW c \in Calls, LimiterFails(c)
    PROVE  LimitInv'
<1>1. /\ pc[c] \in Asking /\ pc' = [pc EXCEPT ![c] = "idle"] /\ req' = [req EXCEPT ![c] = NoRequest]
      /\ failures' = failures + 1 /\ Decide(c, "down")
      /\ UNCHANGED <<now, life, memory, perKey, recent, redis>>
  BY DEF LimiterFails, Failing, Asking
<1>2. /\ Arrivals /\ failures \in Nat /\ failures' \in Nat /\ failures <= failures' /\ IsList(arrivals)
  BY <1>1 DEF LimitInv, Arrivals
<1>3. PICK n, s : Waiting(c, n, s)
  BY <1>1, <1>2, AskedSlot
<1>4. Decided(n, "down")
  BY <1>1, <1>2, <1>3, Decides DEF Waiting
<1>5. Alone(c) /\ pc'[c] = "idle"
  BY <1>1 DEF Alone, Requests
<1>6. LeavesRest
  <2>1. "idle" \notin Asking /\ n = req[c].nth
    BY <1>3 DEF Asking, Waiting
  <2> QED BY <1>1, <1>2, <1>4, <1>5, <2>1, DecisionKeeps
<1>7. Buckets'
  <2>1. \A d \in Calls : pc'[d] = "incr" => pc[d] = "incr" /\ req'[d].nth = req[d].nth
    BY <1>5 DEF Alone
  <2> QED BY <1>1, <1>6, <2>1, BucketsKept DEF LimitInv, LeavesRest
<1>8. Slots'
  <2>1. Shrinks
    <3> SUFFICES ASSUME NEW key, NEW w \in Nat
                 PROVE  Granted(key, w)' \subseteq Granted(key, w) /\ Room(key, w) <= Room(key, w)'
      BY DEF Shrinks
    <3>1. Room(key, w)' = Room(key, w) /\ Room(key, w) \in Nat
      BY <1>1, RoomSize DEF Room, Slot
    <3>2. \A m : (\E d \in Calls : pc'[d] = "expire" /\ req'[d].nth = m)
                 => \E d \in Calls : pc[d] = "expire" /\ req[d].nth = m
      BY <1>5 DEF Alone
    <3>3. Granted(key, w)' \subseteq Granted(key, w)
      <4> SUFFICES ASSUME NEW m \in DOMAIN arrivals, m \in Granted(key, w)'
                   PROVE  m \in Granted(key, w)
        BY <1>4 DEF Granted, Decided
      <4>1. CASE m = n
        BY <1>1, <1>4, <3>2, <4>1 DEF Granted, Decided, Slot
      <4>2. CASE m # n
        BY <1>1, <1>4, <3>2, <4>2 DEF Granted, Decided, Slot
      <4> QED BY <4>1, <4>2
    <3> QED BY <3>1, <3>3
  <2> QED BY <1>2, <2>1, SlotsKept DEF LimitInv
<1> QED BY <1>6, <1>7, <1>8 DEF LimitInv, LeavesRest

\* INCR is answered by an error.
LEMMA UncountedKeeps ==
    ASSUME Limiters, Limiters', Requests, LimitInv, NEW c \in Calls, IncrUncounted(c)
    PROVE  LimitInv'
<1>1. /\ pc[c] = "incr" /\ pc' = [pc EXCEPT ![c] = "expire"] /\ UNCHANGED req
      /\ failures' = failures + 1
      /\ UNCHANGED <<now, life, memory, perKey, recent, redis, arrivals>>
  BY DEF IncrUncounted, Failing
<1>2. /\ Arrivals /\ failures \in Nat /\ failures' \in Nat /\ failures <= failures' /\ IsList(arrivals)
  BY <1>1 DEF LimitInv, Arrivals
<1>3. PICK n, s : Waiting(c, n, s)
  BY <1>1, <1>2, AskedSlot DEF Asking
<1>4. pc'[c] = "expire" /\ \A d \in Calls \ {c} : pc'[d] = pc[d]
  BY <1>1 DEF Requests
<1>5. LeavesRest
  <2>1. Asks
    BY <1>1, <1>4 DEF Asks, Asking
  <2> QED BY <1>1, <1>2, <2>1, MoveKeeps
<1>6. Buckets'
  <2>1. \A d \in Calls : pc'[d] = "incr" => pc[d] = "incr" /\ req'[d].nth = req[d].nth
    BY <1>1, <1>4
  <2> QED BY <1>1, <1>5, <2>1, BucketsKept DEF LimitInv, LeavesRest
<1>7. Slots'
  <2>1. PICK k : k = arrivals[n].key
    OBVIOUS
  <2>2. \A key, w : Room(key, w)' = Room(key, w) /\ Room(key, w) \in Nat
    BY <1>1, RoomSize DEF Room, Slot
  <2>3. Grants(k, s, n)
    <3> SUFFICES ASSUME NEW key, NEW w \in Nat
                 PROVE  /\ Granted(key, w)' \subseteq Granted(key, w) \cup {n}
                        /\ (key # k \/ w # s) => Granted(key, w)' \subseteq Granted(key, w)
                        /\ Room(key, w) <= Room(key, w)'
      BY DEF Grants
    <3>1. \A m : (\E d \in Calls : pc'[d] = "expire" /\ req'[d].nth = m)
                 => m = n \/ \E d \in Calls : pc[d] = "expire" /\ req[d].nth = m
      BY <1>1, <1>3, <1>4 DEF Waiting
    <3>2. Granted(key, w)' \subseteq Granted(key, w) \cup {n}
      BY <1>1, <3>1 DEF Granted, Slot
    <3>3. (key # k \/ w # s) => n \notin Granted(key, w)'
      BY <1>1, <1>3, <2>1 DEF Granted, Waiting, Slot
    <3>4. Room(key, w) <= Room(key, w)'
      BY <2>2
    <3> QED BY <3>2, <3>3, <3>4
  <2>4. Room(k, s) + failures + 1 <= Room(k, s)' + failures'
    BY <1>1, <1>2, <2>2
  <2> QED BY <1>2, <2>3, <2>4, SlotsGrant DEF LimitInv
<1> QED BY <1>5, <1>6, <1>7 DEF LimitInv, LeavesRest

\* A call goes on as it has been answered, or ends.
LEMMA Proceeds ==
    ASSUME Requests, Arrivals, NEW c \in Calls, pc[c] \in Asking, NEW allowed, Proceed(c, allowed)
    PROVE  /\ Decided(req[c].nth, Answer(allowed))
           /\ Alone(c) /\ pc'[c] \notin Asking /\ UNCHANGED failures
<1>1. Decided(req[c].nth, Answer(allowed))
  BY Decides DEF Proceed
<1>2. req[c].then \notin Asking /\ "idle" \notin Asking
  BY DEF Requests, Ready, Waits, Asking
<1>3. CASE allowed /\ req[c].then # "idle"
  BY <1>1, <1>2, <1>3 DEF Proceed, Requests, Alone
<1>4. CASE ~(allowed /\ req[c].then # "idle")
  BY <1>1, <1>2, <1>4 DEF Proceed, Requests, Alone
<1> QED BY <1>3, <1>4

\* EXPIRE is answered.
LEMMA ExpiringKeeps ==
    ASSUME Limiters, Limiters', Requests, LimitInv, NEW c \in Calls, Expire(c)
    PROVE  LimitInv'
<1>1. /\ pc[c] = "expire" /\ Proceed(c, TRUE) /\ UNCHANGED <<now, life, memory, perKey, recent>>
      /\ redis' = IF Bucket(c) \in DOMAIN redis THEN [redis EXCEPT ![Bucket(c)].expires = now + Window] ELSE redis
  BY DEF Expire
<1>2. Arrivals /\ failures \in Nat /\ IsList(arrivals)
  BY <1>1 DEF LimitInv, Arrivals
<1>3. PICK n, s : Waiting(c, n, s)
  BY <1>1, <1>2, AskedSlot DEF Asking
<1>4. PICK b : b = Bucket(c) /\ b = <<arrivals[n].key, s>>
  BY <1>3 DEF Waiting
<1>5. /\ Decided(n, "allowed") /\ Alone(c) /\ pc'[c] \notin Asking /\ UNCHANGED failures
      /\ pc[c] \in Asking /\ n = req[c].nth
  <2>1. pc[c] \in Asking /\ n = req[c].nth /\ Answer(TRUE) = "allowed"
    BY <1>1, <1>3 DEF Asking, Waiting, Answer
  <2> QED BY <1>1, <1>2, <2>1, Proceeds
<1>6. LeavesRest
  <2>1. failures' \in Nat /\ "allowed" # "refused"
    BY <1>2, <1>5
  <2> QED BY <1>1, <1>5, <2>1, DecisionKeeps
<1>7. /\ DOMAIN redis' = DOMAIN redis
      /\ \A x \in DOMAIN redis : redis'[x].count = redis[x].count
      /\ \A x \in DOMAIN redis \ {b} : redis'[x] = redis[x]
      /\ b \in DOMAIN redis => redis'[b].expires = now + Window
  <2>1. CASE b \in DOMAIN redis
    <3>1. redis' = [redis EXCEPT ![b] = [redis[b] EXCEPT !.expires = now + Window]]
      BY <1>1, <1>4, <2>1
    <3>2. {"count", "expires"} = DOMAIN redis[b]
      BY <2>1 DEF Limiters
    <3> QED BY <2>1, <3>1, <3>2
  <2>2. CASE b \notin DOMAIN redis
    BY <1>1, <1>4, <2>2
  <2> QED BY <2>1, <2>2
<1>8. Buckets'
  <2>1. \A d \in Calls : pc'[d] = "incr" => pc[d] = "incr" /\ req'[d].nth = req[d].nth
    BY <1>5 DEF Alone, Asking
  <2>2. ASSUME b \in DOMAIN redis PROVE Made(b)'
    <3>1. PICK m \in DOMAIN arrivals :
              /\ arrivals[m].limiter = "redis" /\ b = <<arrivals[m].key, Slot(arrivals[m].at)>>
              /\ \A d \in Calls : pc[d] = "incr" => req[d].nth # m
      BY <2>2 DEF LimitInv, Buckets, Made
    <3>2. Slot(arrivals[m].at) = s
      BY <1>4, <3>1
    <3>3. now + Window \in Int /\ now + Window >= Window * s + Window
      <4>1. Window \in Nat /\ s \in Nat /\ Window * s <= arrivals[n].at
        BY <1>3, SlotEnds, WindowAssumption DEF Waiting
      <4>2. PICK p \in Nat : p = Window * s
        BY <4>1
      <4> QED BY <1>3, <4>1, <4>2 DEF Waiting
    <3>4. /\ m \in DOMAIN arrivals' /\ arrivals'[m].limiter = arrivals[m].limiter
          /\ arrivals'[m].key = arrivals[m].key /\ arrivals'[m].at = arrivals[m].at
      BY <1>6 DEF LeavesRest, Remembered
    <3>5. redis'[b].expires = now + Window
      BY <1>7, <2>2
    <3>6. \A d \in Calls : pc'[d] = "incr" => req'[d].nth # m
      BY <2>1, <3>1
    <3> QED BY <3>1, <3>2, <3>3, <3>4, <3>5, <3>6 DEF Made, Slot
  <2> QED BY <1>6, <1>7, <2>1, <2>2, BucketsKept DEF LimitInv, LeavesRest
<1>9. Slots'
  <2>1. Shrinks
    <3> SUFFICES ASSUME NEW key, NEW w \in Nat
                 PROVE  Granted(key, w)' \subseteq Granted(key, w) /\ Room(key, w) <= Room(key, w)'
      BY DEF Shrinks
    <3>1. Room(key, w)' = Room(key, w) /\ Room(key, w) \in Nat
      BY <1>1, <1>7, RoomSize DEF Room, Slot
    <3>2. \A m : (\E d \in Calls : pc'[d] = "expire" /\ req'[d].nth = m)
                 => \E d \in Calls : pc[d] = "expire" /\ req[d].nth = m
      BY <1>5 DEF Alone, Asking
    <3>3. Granted(key, w)' \subseteq Granted(key, w)
      <4> SUFFICES ASSUME NEW m \in DOMAIN arrivals, m \in Granted(key, w)'
                   PROVE  m \in Granted(key, w)
        BY <1>5 DEF Granted, Decided
      <4>1. CASE m = n
        BY <1>1, <1>5, <3>2, <4>1 DEF Granted, Decided, Slot
      <4>2. CASE m # n
        BY <1>1, <1>5, <3>2, <4>2 DEF Granted, Decided, Slot
      <4> QED BY <4>1, <4>2
    <3> QED BY <3>1, <3>3
  <2>2. failures' \in Nat /\ failures <= failures'
    BY <1>2, <1>5
  <2> QED BY <1>2, <2>1, <2>2, SlotsKept DEF LimitInv
<1> QED BY <1>6, <1>8, <1>9 DEF LimitInv, LeavesRest

-----------------------------------------------------------------------------
\* Bucket b counts one more, or is made.
Counted(b) ==
    /\ DOMAIN redis' = DOMAIN redis \cup {b}
    /\ \A x \in DOMAIN redis \ {b} : redis'[x] = redis[x]
    /\ IF b \in DOMAIN redis THEN redis'[b].count = redis[b].count + 1 /\ redis'[b].expires = redis[b].expires
                             ELSE redis'[b].count = 1 /\ redis'[b].expires = Never

\* INCR, as it finds the bucket.
LEMMA IncrCounts ==
    ASSUME Limiters, NEW c \in Calls, Incr(c), NEW b, b = Bucket(c)
    PROVE  /\ Counted(b)
           /\ b \notin DOMAIN redis => pc' = [pc EXCEPT ![c] = "expire"] /\ UNCHANGED <<req, failures, arrivals>>
           /\ b \in DOMAIN redis => Proceed(c, redis[b].count + 1 <= Limit)
<1>1. PICK old, one : /\ old = IF b \in DOMAIN redis THEN redis[b] ELSE [count |-> 0, expires |-> Never]
                      /\ one = [x \in {b} |-> [old EXCEPT !.count = @ + 1]]
  OBVIOUS
<1>2. /\ redis' = With(redis, one)
      /\ IF old.count = 0 THEN Goto(c, "expire") /\ UNCHANGED arrivals ELSE Proceed(c, old.count + 1 <= Limit)
  BY <1>1 DEF Incr
<1>3. old.count \in Nat /\ DOMAIN old = {"count", "expires"} /\ (old.count = 0 <=> b \notin DOMAIN redis)
  BY <1>1 DEF Limiters
<1>4. DOMAIN one = {b} /\ one[b].count = old.count + 1 /\ one[b].expires = old.expires
  BY <1>1, <1>3
<1>5. /\ DOMAIN redis' = DOMAIN redis \cup {b} /\ redis'[b] = one[b]
      /\ \A x \in DOMAIN redis \ {b} : redis'[x] = redis[x]
  BY <1>2, <1>4 DEF With
<1>6. Counted(b)
  <2>1. CASE b \in DOMAIN redis
    BY <1>1, <1>4, <1>5, <2>1 DEF Counted
  <2>2. CASE b \notin DOMAIN redis
    BY <1>1, <1>4, <1>5, <2>2 DEF Counted
  <2> QED BY <2>1, <2>2
<1>7. b \notin DOMAIN redis => pc' = [pc EXCEPT ![c] = "expire"] /\ UNCHANGED <<req, failures, arrivals>>
  BY <1>2, <1>3
<1>8. b \in DOMAIN redis => Proceed(c, redis[b].count + 1 <= Limit)
  BY <1>1, <1>2, <1>3
<1> QED BY <1>6, <1>7, <1>8

\* The room there is once a bucket has counted one more.
Fitting(b) == b \in DOMAIN redis => redis[b].count + 1 <= Limit
Widens(k, s, b) ==
    /\ \A key : \A w \in Nat : Room(key, w) <= Room(key, w)'
    /\ s = Slot(now) /\ Fitting(b) => Room(k, s) + 1 <= Room(k, s)'

\* INCR takes no room away, and makes room for a request that fits in this slot.
LEMMA RoomCounted ==
    ASSUME Limiters, Limiters', NEW k, NEW s \in Nat, NEW b, b = <<k, s>>, Counted(b), UNCHANGED now
    PROVE  Widens(k, s, b)
<1>0. Limit \in Nat \ {0} /\ Slot(now)' = Slot(now)
  BY WindowAssumption DEF Slot
<1>1. ASSUME NEW key, NEW w \in Nat PROVE Room(key, w) <= Room(key, w)'
  <2>1. CASE <<key, w>> \in DOMAIN redis
    <3>1. /\ <<key, w>> \in DOMAIN redis' /\ redis[<<key, w>>].count \in Nat /\ redis'[<<key, w>>].count \in Nat
          /\ redis[<<key, w>>].count <= redis'[<<key, w>>].count
      <4>1. PICK x : x = <<key, w>>
        OBVIOUS
      <4>2. CASE x = b
        BY <2>1, <4>1, <4>2 DEF Limiters, Counted
      <4>3. CASE x # b
        BY <2>1, <4>1, <4>3 DEF Limiters, Counted
      <4> QED BY <4>1, <4>2, <4>3
    <3> QED BY <1>0, <2>1, <3>1 DEF Room
  <2>2. CASE <<key, w>> \notin DOMAIN redis
    <3>1. Room(key, w)' \in Nat /\ (w < Slot(now) => Room(key, w)' = Limit)
      BY <1>0 DEF Room, Limiters
    <3> QED BY <1>0, <2>2, <3>1 DEF Room
  <2> QED BY <2>1, <2>2
<1>2. ASSUME s = Slot(now), Fitting(b) PROVE Room(k, s) + 1 <= Room(k, s)'
  <2>1. ~(s < Slot(now)) /\ ~(s < Slot(now)')
    BY <1>0, <1>2
  <2>2. CASE b \in DOMAIN redis
    <3>1. /\ redis[b].count \in Nat /\ redis[b].count + 1 <= Limit
          /\ b \in DOMAIN redis' /\ redis'[b].count = redis[b].count + 1
      BY <1>2, <2>2 DEF Fitting, Counted, Limiters
    <3>2. Room(k, s) = redis[b].count
      BY <1>0, <2>1, <2>2, <3>1 DEF Room
    <3>3. Room(k, s)' = redis[b].count + 1
      BY <1>0, <2>1, <2>2, <3>1 DEF Room
    <3> QED BY <3>1, <3>2, <3>3
  <2>3. CASE b \notin DOMAIN redis
    <3>1. b \in DOMAIN redis' /\ redis'[b].count = 1
      BY <2>3 DEF Counted
    <3>2. Room(k, s) = 0
      BY <2>1, <2>3 DEF Room
    <3>3. Room(k, s)' = 1
      BY <1>0, <2>1, <3>1 DEF Room
    <3> QED BY <3>2, <3>3
  <2> QED BY <2>2, <2>3
<1> QED BY <1>1, <1>2 DEF Widens

\* At most request n is granted, where there is room for it.
Gains(n, k, s, b) ==
    \A key : \A w \in Nat :
        /\ Granted(key, w)' \subseteq Granted(key, w) \cup {n}
        /\ n \in Granted(key, w)' => n \in Granted(key, w) \/ (key = k /\ w = s /\ s = Slot(now) /\ Fitting(b))

\* So INCR keeps what two slots grant within what is counted.
LEMMA SlotsCounted ==
    ASSUME Limiters, Limiters', Slots, NEW n, NEW k, NEW s \in Nat, NEW b, Widens(k, s, b), Gains(n, k, s, b),
           IsList(arrivals), failures \in Nat, UNCHANGED failures
    PROVE  Slots'
<1>1. failures' \in Nat /\ failures <= failures'
  OBVIOUS
<1>2. CASE s = Slot(now) /\ Fitting(b)
  <2>1. Grants(k, s, n)
    <3> SUFFICES ASSUME NEW key, NEW w \in Nat
                 PROVE  /\ Granted(key, w)' \subseteq Granted(key, w) \cup {n}
                        /\ (key # k \/ w # s) => Granted(key, w)' \subseteq Granted(key, w)
                        /\ Room(key, w) <= Room(key, w)'
      BY DEF Grants
    <3> QED BY DEF Gains, Widens
  <2>2. Room(k, s) + failures + 1 <= Room(k, s)' + failures'
    <3>1. PICK p, q : p = Room(k, s) /\ q = Room(k, s)'
      OBVIOUS
    <3>2. p \in Nat
      BY <3>1, RoomSize
    <3>3. q \in Nat
      BY <3>1, WindowAssumption DEF Room, Limiters
    <3>4. p + 1 <= q
      BY <1>2, <3>1 DEF Widens
    <3> QED BY <3>1, <3>2, <3>3, <3>4
  <2> QED BY <1>1, <2>1, <2>2, SlotsGrant
<1>3. CASE ~(s = Slot(now) /\ Fitting(b))
  <2>1. Shrinks
    <3> SUFFICES ASSUME NEW key, NEW w \in Nat
                 PROVE  Granted(key, w)' \subseteq Granted(key, w) /\ Room(key, w) <= Room(key, w)'
      BY DEF Shrinks
    <3> QED BY <1>3 DEF Gains, Widens
  <2> QED BY <1>1, <2>1, SlotsKept
<1> QED BY <1>2, <1>3

\* A bucket that is there was made by another request, less than a window before or after.
LEMMA BucketHelps ==
    ASSUME LimitInv, NEW c \in Calls, pc[c] = "incr", NEW n, NEW s, Waiting(c, n, s), Bucket(c) \in DOMAIN redis,
           NEW answer, Decided(n, answer)
    PROVE  Helped(n)'
<1>1. PICK m \in DOMAIN arrivals :
          /\ arrivals[m].limiter = "redis" /\ Bucket(c) = <<arrivals[m].key, Slot(arrivals[m].at)>>
          /\ req[c].nth # m
  BY DEF LimitInv, Buckets, Made
<1>2. m # n /\ arrivals[m].key = arrivals[n].key /\ Slot(arrivals[m].at) = s /\ Slot(arrivals[n].at) = s
  BY <1>1 DEF Waiting
<1>3. arrivals[n].at \in Nat /\ arrivals[m].at \in Nat /\ Window \in Nat \ {0} /\ s \in Nat
  BY ArrivalsStamped, WindowAssumption DEF LimitInv, Stamped, Waiting
<1>4. PICK p \in Nat : p = Window * s
  BY <1>3
<1>5. arrivals[n].at - arrivals[m].at \in -(Window - 1) .. Window - 1
  <2>1. /\ p <= arrivals[n].at /\ arrivals[n].at < p + Window
        /\ p <= arrivals[m].at /\ arrivals[m].at < p + Window
    BY <1>2, <1>3, <1>4, SlotEnds
  <2> QED BY <1>3, <2>1
<1>6. m \in DOMAIN arrivals' \ {n} /\ arrivals'[m] = arrivals[m]
  BY <1>1, <1>2 DEF Decided
<1>7. /\ arrivals'[n].limiter = "redis" /\ arrivals'[n].key = arrivals[n].key
      /\ arrivals'[n].at = arrivals[n].at
  BY DEF Decided, Waiting
<1>8. Same(m, n)'
  BY <1>1, <1>2, <1>6, <1>7 DEF Same
<1> QED BY <1>5, <1>6, <1>7, <1>8 DEF Helped

\* The buckets after INCR.
LEMMA BucketsCounted ==
    ASSUME LimitInv, LeavesRest, NEW c \in Calls, pc[c] = "incr", NEW n, NEW s, Waiting(c, n, s),
           NEW b, b = Bucket(c), Counted(b),
           pc'[c] # "incr", \A d \in Calls \ {c} : pc'[d] = pc[d] /\ req'[d] = req[d]
    PROVE  Buckets'
<1>1. \A d \in Calls : pc'[d] = "incr" => pc[d] = "incr" /\ req'[d].nth = req[d].nth /\ req'[d].nth # n
  BY DEF Waiting, Asking
<1>2. ASSUME b \notin DOMAIN redis PROVE Made(b)'
  <2>1. redis'[b].expires = Never /\ Never \in Int
    BY <1>2, WindowAssumption DEF Counted, Never
  <2>2. /\ n \in DOMAIN arrivals' /\ arrivals'[n].limiter = "redis" /\ b = <<arrivals'[n].key, s>>
        /\ Slot(arrivals'[n].at) = s
    BY DEF LeavesRest, Remembered, Waiting
  <2> QED BY <1>1, <2>1, <2>2 DEF Made, Never, Slot
<1>3. \A x \in DOMAIN redis' : (x \in DOMAIN redis /\ redis'[x].expires = redis[x].expires) \/ Made(x)'
  BY <1>2 DEF Counted
<1> QED BY <1>1, <1>3, BucketsKept DEF LimitInv, LeavesRest

\* INCR.
LEMMA IncrementKeeps ==
    ASSUME Limiters, Limiters', Requests, LimitInv, NEW c \in Calls, Incr(c)
    PROVE  LimitInv'
<1>1. pc[c] = "incr" /\ pc[c] \in Asking /\ UNCHANGED <<now, life, memory, perKey, recent>>
  BY DEF Incr, Asking
<1>2. Arrivals /\ failures \in Nat /\ IsList(arrivals)
  BY DEF LimitInv, Arrivals
<1>3. PICK n, s : Waiting(c, n, s)
  BY <1>1, <1>2, AskedSlot
<1>4. PICK b, k : b = Bucket(c) /\ k = arrivals[n].key /\ b = <<k, s>>
  BY <1>3 DEF Waiting
<1>5. /\ Counted(b)
      /\ b \notin DOMAIN redis => pc' = [pc EXCEPT ![c] = "expire"] /\ UNCHANGED <<req, failures, arrivals>>
      /\ b \in DOMAIN redis => Proceed(c, redis[b].count + 1 <= Limit)
  BY <1>4, IncrCounts
<1>6. /\ n = req[c].nth /\ n \in DOMAIN arrivals /\ arrivals[n].limiter = "redis" /\ s \in Nat
      /\ arrivals[n].answer = "pending" /\ Slot(arrivals[n].at) = s
  BY <1>3 DEF Waiting
<1>7. Widens(k, s, b)
  BY <1>1, <1>4, <1>5, <1>6, RoomCounted
<1>8. CASE b \notin DOMAIN redis
  <2>1. pc'[c] = "expire" /\ \A d \in Calls \ {c} : pc'[d] = pc[d] /\ req'[d] = req[d]
    BY <1>5, <1>8 DEF Requests
  <2>2. LeavesRest
    <3>1. Asks /\ failures' \in Nat
      BY <1>1, <1>2, <1>5, <1>8, <2>1 DEF Asks, Asking
    <3> QED BY <1>1, <1>5, <1>8, <3>1, MoveKeeps
  <2>3. Buckets'
    BY <1>1, <1>3, <1>4, <1>5, <2>1, <2>2, BucketsCounted
  <2>4. Gains(n, k, s, b)
    <3> SUFFICES ASSUME NEW key, NEW w \in Nat
                 PROVE  /\ Granted(key, w)' \subseteq Granted(key, w) \cup {n}
                        /\ n \in Granted(key, w)' => key = k /\ w = s /\ s = Slot(now)
      BY <1>8 DEF Gains, Fitting
    <3>1. \A m : (\E d \in Calls : pc'[d] = "expire" /\ req'[d].nth = m)
                 => m = n \/ \E d \in Calls : pc[d] = "expire" /\ req[d].nth = m
      BY <1>5, <1>6, <1>8, <2>1
    <3>2. Granted(key, w)' \subseteq Granted(key, w) \cup {n}
      BY <1>1, <1>5, <1>8, <3>1 DEF Granted, Slot
    <3>3. n \in Granted(key, w)' => key = k /\ w = s /\ s = Slot(now)
      BY <1>1, <1>4, <1>5, <1>6, <1>8 DEF Granted, Slot
    <3> QED BY <3>2, <3>3
  <2>5. UNCHANGED failures
    BY <1>5, <1>8
  <2>6. Slots'
    BY <1>2, <1>6, <1>7, <2>4, <2>5, SlotsCounted DEF LimitInv
  <2> QED BY <2>2, <2>3, <2>6 DEF LimitInv, LeavesRest
<1>9. CASE b \in DOMAIN redis
  <2>1. PICK answer : /\ Decided(n, answer) /\ Alone(c) /\ pc'[c] \notin Asking /\ UNCHANGED failures
                      /\ answer = Answer(redis[b].count + 1 <= Limit)
    BY <1>1, <1>2, <1>5, <1>6, <1>9, Proceeds
  <2>2. pc'[c] # "incr" /\ \A d \in Calls \ {c} : pc'[d] = pc[d] /\ req'[d] = req[d]
    BY <2>1 DEF Alone, Asking
  <2>3. Helped(n)'
    BY <1>1, <1>3, <1>4, <1>9, <2>1, BucketHelps
  <2>4. LeavesRest
    <3>1. failures' \in Nat
      BY <1>2, <2>1
    <3> QED BY <1>1, <1>6, <2>1, <2>3, <3>1, DecisionKeeps
  <2>5. Buckets'
    BY <1>1, <1>3, <1>4, <1>5, <2>2, <2>4, BucketsCounted
  <2>6. Gains(n, k, s, b)
    <3> SUFFICES ASSUME NEW key, NEW w \in Nat
                 PROVE  /\ Granted(key, w)' \subseteq Granted(key, w) \cup {n}
                        /\ n \in Granted(key, w)' => key = k /\ w = s /\ s = Slot(now) /\ Fitting(b)
      BY DEF Gains
    <3>1. \A m : (\E d \in Calls : pc'[d] = "expire" /\ req'[d].nth = m)
                 => m # n /\ \E d \in Calls : pc[d] = "expire" /\ req[d].nth = m
      BY <1>3, <2>1, <2>2 DEF Waiting, Asking
    <3>2. Granted(key, w)' \subseteq Granted(key, w) \cup {n}
      BY <1>1, <2>1, <3>1 DEF Granted, Slot, Decided
    <3>3. n \in Granted(key, w)' => key = k /\ w = s /\ s = Slot(now) /\ answer = "allowed"
      BY <1>1, <1>4, <1>6, <2>1, <3>1 DEF Granted, Slot, Decided
    <3>4. answer = "allowed" => Fitting(b)
      BY <2>1 DEF Fitting, Answer
    <3> QED BY <3>2, <3>3, <3>4
  <2>7. Slots'
    <3>1. UNCHANGED failures
      BY <2>1
    <3> QED BY <1>2, <1>6, <1>7, <2>6, <3>1, SlotsCounted DEF LimitInv
  <2> QED BY <2>4, <2>5, <2>7 DEF LimitInv, LeavesRest
<1> QED BY <1>8, <1>9

-----------------------------------------------------------------------------
\* Time passes; buckets of this slot and later ones stay.
LEMMA PassingKeeps ==
    ASSUME Limiters, Limiters', LimitInv, Tick
    PROVE  LimitInv'
<1>1. /\ now < MaxTime /\ now' = now + 1
      /\ redis' = [b \in {x \in DOMAIN redis : redis[x].expires > now'} |-> redis[b]]
      /\ UNCHANGED <<memory, perKey, recent, life, arrivals, pc, req, failures>>
  BY DEF Tick
<1>2. /\ Arrivals /\ failures \in Nat /\ IsList(arrivals) /\ life \in Nat
      /\ now \in Nat /\ now' \in Nat /\ now <= now' /\ MaxTime \in Nat /\ now' <= MaxTime
  <2>1. Arrivals /\ failures \in Nat /\ IsList(arrivals) /\ life \in Nat /\ now \in Nat
    BY DEF LimitInv, Arrivals
  <2> QED BY <1>1, <2>1, WindowAssumption
<1>3. Remembered /\ Beside /\ Asks
  BY <1>1 DEF Remembered, Beside, Asks
<1>4. Arrivals'
  BY <1>1, <1>2, <1>3, ArrivalsKept
<1>5. Counters'
  BY <1>1, <1>2, <1>3, CountersBeside DEF LimitInv
<1>6. WaitingHelps'
  BY <1>1, <1>3, HelpStays DEF LimitInv
<1>7. Buckets'
  BY <1>1, <1>3, BucketsKept DEF LimitInv
<1>8. PICK s \in Nat, t \in Nat : s = Slot(now) /\ t = Slot(now') /\ s <= t
  BY <1>2, SlotEnds, SlotsFollow
<1>9. ASSUME NEW key, NEW w \in Nat, t <= w, <<key, w>> \in DOMAIN redis PROVE <<key, w>> \in DOMAIN redis'
  <2>1. PICK x : x = <<key, w>>
    OBVIOUS
  <2>2. PICK m \in DOMAIN arrivals :
            /\ x = <<arrivals[m].key, Slot(arrivals[m].at)>>
            /\ redis[x].expires = Never \/ redis[x].expires >= Window * Slot(arrivals[m].at) + Window
            /\ redis[x].expires \in Int
    BY <1>9, <2>1 DEF LimitInv, Buckets, Made
  <2>3. Slot(arrivals[m].at) = w
    BY <2>1, <2>2
  <2>4. redis[x].expires > now'
    <3>1. PICK e \in Int, p \in Nat, q \in Nat, v \in Nat :
              e = redis[x].expires /\ p = Window * t /\ q = Window * w /\ v = Window
      BY <2>2, WindowAssumption
    <3>2. now' < p + v
      BY <1>2, <1>8, <3>1, SlotEnds
    <3>3. p <= q
      <4>1. PICK d \in Nat : w = t + d
        <5>1. w - t \in Nat /\ w = t + (w - t)
          BY <1>8, <1>9
        <5> QED BY <5>1
      <4>2. v * w = v * t + v * d /\ v * d \in Nat
        BY <4>1
      <4> QED BY <3>1, <4>2
    <3>4. CASE e = MaxTime + 1
      BY <1>2, <3>1, <3>4
    <3>5. CASE e >= q + v
      BY <1>2, <3>1, <3>2, <3>3, <3>5
    <3> QED BY <2>2, <2>3, <3>1, <3>4, <3>5 DEF Never
  <2> QED BY <1>1, <1>9, <2>1, <2>4
<1>10. Shrinks
  <2> SUFFICES ASSUME NEW key, NEW w \in Nat
               PROVE  Granted(key, w)' \subseteq Granted(key, w) /\ Room(key, w) <= Room(key, w)'
    BY DEF Shrinks
  <2>1. Slot(now)' = t
    BY <1>8 DEF Slot
  <2>2. Granted(key, w)' \subseteq Granted(key, w)
    <3>1. ASSUME NEW m \in DOMAIN arrivals, t = w, Slot(arrivals[m].at) = w PROVE s = w
      <4>1. arrivals[m].at \in Nat /\ arrivals[m].at <= now
        BY <1>2, ArrivalsStamped DEF Stamped
      <4>2. Slot(arrivals[m].at) <= s
        BY <1>2, <1>8, <4>1, SlotsFollow
      <4> QED BY <1>8, <3>1, <4>2
    <3> QED BY <1>1, <1>8, <2>1, <3>1 DEF Granted, Slot
  <2>3. Room(key, w) <= Room(key, w)'
    <3>1. Room(key, w) \in Nat /\ Room(key, w) <= Limit
      BY RoomSize
    <3>2. CASE w < t
      BY <2>1, <3>1, <3>2 DEF Room
    <3>3. CASE ~(w < t)
      <4>1. ~(w < s) /\ ~(w < Slot(now)')
        BY <1>8, <2>1, <3>3
      <4>2. CASE <<key, w>> \in DOMAIN redis
        <5>1. <<key, w>> \in DOMAIN redis' /\ redis'[<<key, w>>] = redis[<<key, w>>]
          BY <1>1, <1>8, <1>9, <3>3, <4>2
        <5>2. Room(key, w)' = Room(key, w)
          BY <1>8, <4>1, <4>2, <5>1 DEF Room
        <5> QED BY <3>1, <5>2
      <4>3. CASE <<key, w>> \notin DOMAIN redis
        <5>1. Room(key, w) = 0 /\ <<key, w>> \notin DOMAIN redis'
          BY <1>1, <1>8, <4>1, <4>3 DEF Room
        <5>2. Room(key, w)' = 0
          BY <4>1, <5>1 DEF Room
        <5> QED BY <5>1, <5>2
      <4> QED BY <4>2, <4>3
    <3> QED BY <3>2, <3>3
  <2> QED BY <2>2, <2>3
<1>11. Slots'
  <2>1. failures' \in Nat /\ failures <= failures'
    BY <1>1, <1>2
  <2> QED BY <1>2, <1>10, <2>1, SlotsKept DEF LimitInv
<1> QED BY <1>4, <1>5, <1>6, <1>7, <1>11 DEF LimitInv

\* A new process has counted nothing, and Redis what it had.
LEMMA AnewKeeps ==
    ASSUME Limiters, Limiters', LimitInv, Restart
    PROVE  LimitInv'
<1>1. /\ memory' = NoEntry /\ perKey' = NoEntry /\ recent' = {} /\ life' = life + 1
      /\ UNCHANGED <<now, redis, arrivals, failures>>
      /\ \A c \in Calls : pc'[c] = "idle"
  BY DEF Restart, Forget
<1>2. /\ Arrivals /\ failures \in Nat /\ IsList(arrivals) /\ life \in Nat /\ now \in Nat
      /\ life' \in Nat /\ life <= life' /\ now' \in Nat /\ now <= now'
  <2>1. Arrivals /\ failures \in Nat /\ IsList(arrivals) /\ life \in Nat /\ now \in Nat
    BY DEF LimitInv, Arrivals
  <2> QED BY <1>1, <2>1
<1>3. Remembered /\ Beside /\ Asks
  BY <1>1 DEF Remembered, Beside, Asks, Asking
<1>4. Arrivals'
  BY <1>1, <1>2, <1>3, ArrivalsKept
<1>5. Counters'
  <2>1. \A l : Allowed(arrivals, life', l) = {}
    <3>1. \A m \in DOMAIN arrivals : arrivals[m].life # life'
      BY <1>1, <1>2 DEF Arrivals, Recorded
    <3> QED BY <3>1 DEF Allowed
  <2>2. \A l, last : Fixed(arrivals, life', now, l, NoEntry, last)
    BY <2>1 DEF Fixed, NoEntry
  <2>3. Sliding(arrivals, life', now, {})
    BY <2>1 DEF Sliding
  <2>4. ProcessBound'
    BY <1>3, BoundBeside DEF LimitInv, Counters, Arrivals
  <2> QED BY <1>1, <2>2, <2>3, <2>4 DEF Counters
<1>6. WaitingHelps'
  BY <1>1, <1>3, HelpStays DEF LimitInv
<1>7. Buckets'
  BY <1>1, <1>3, BucketsKept DEF LimitInv
<1>8. Slots'
  <2>1. Shrinks
    <3> SUFFICES ASSUME NEW key, NEW w \in Nat
                 PROVE  Granted(key, w)' \subseteq Granted(key, w) /\ Room(key, w) <= Room(key, w)'
      BY DEF Shrinks
    <3>1. Room(key, w)' = Room(key, w) /\ Room(key, w) \in Nat
      BY <1>1, RoomSize DEF Room, Slot
    <3>2. Granted(key, w)' \subseteq Granted(key, w)
      BY <1>1 DEF Granted, Slot
    <3> QED BY <3>1, <3>2
  <2>2. failures' \in Nat /\ failures <= failures'
    BY <1>1, <1>2
  <2> QED BY <1>2, <2>1, <2>2, SlotsKept DEF LimitInv
<1> QED BY <1>4, <1>5, <1>6, <1>7, <1>8 DEF LimitInv

-----------------------------------------------------------------------------
\* One call moves that neither waits for Redis nor comes to.
LEMMA StillElsewhere ==
    ASSUME Requests, NEW c \in Calls, NEW l, pc' = [pc EXCEPT ![c] = l],
           pc[c] \notin Asking, l \notin Asking, \A d \in Calls \ {c} : req'[d] = req[d]
    PROVE  Still
  BY DEF Still, Requests

\* The labels calls go on to.
LEMMA NoneAsks ==
    /\ \A l \in {"idle", "organization", "bootstrap", "credential", "event", "tenant", "transaction", "revoke"} :
           l \notin Asking
    /\ \A op : Entry(op) \notin Asking
  BY DEF Asking, Entry

\* The steps of the handlers that limit nothing.
LEMMA HandlersStill ==
    ASSUME Requests, NEW c \in Calls,
           \/ BeginOrganization(c) \/ OpenBootstrap(c) \/ CommitOrganization(c) \/ OpenTenant(c) \/ Refuse(c)
           \/ ReadTenant(c) \/ CommitProject(c) \/ InsertCredential(c) \/ Revoke(c) \/ AppendAudit(c) \/ Unseen(c)
    PROVE  Still /\ UNCHANGED limitVars /\ UNCHANGED failures
<1>1. CASE BeginOrganization(c)
  BY <1>1, StillElsewhere, NoneAsks DEF BeginOrganization, Requests
<1>2. CASE OpenBootstrap(c) \/ OpenTenant(c)
  BY <1>2, StillElsewhere, NoneAsks DEF OpenBootstrap, OpenTenant
<1>3. CASE CommitOrganization(c)
  <2>1. PICK l \in {"credential", "event"} :
            /\ pc' = [pc EXCEPT ![c] = l] /\ \A d \in Calls \ {c} : req'[d] = req[d]
    BY <1>3 DEF CommitOrganization, Requests
  <2> QED BY <1>3, <2>1, StillElsewhere, NoneAsks DEF CommitOrganization
<1>4. CASE Refuse(c) \/ ReadTenant(c) \/ AppendAudit(c)
  BY <1>4, StillElsewhere, NoneAsks DEF Refuse, ReadTenant, AppendAudit, Requests
<1>5. CASE CommitProject(c) \/ Revoke(c)
  <2>1. pc' = [pc EXCEPT ![c] = "event"] /\ \A d \in Calls \ {c} : req'[d] = req[d]
    BY <1>5 DEF CommitProject, Revoke, Requests
  <2> QED BY <1>5, <2>1, StillElsewhere, NoneAsks DEF CommitProject, Revoke
<1>6. CASE InsertCredential(c)
  <2>1. /\ pc' = [pc EXCEPT ![c] = "event"] /\ \A d \in Calls \ {c} : req'[d] = req[d]
        /\ UNCHANGED limitVars /\ UNCHANGED failures
    BY <1>6 DEF InsertCredential, Requests
  <2>2. pc[c] = "credential"
    BY <1>6 DEF InsertCredential
  <2> QED BY <2>1, <2>2, StillElsewhere, NoneAsks
<1>7. CASE Unseen(c)
  <2>1. pc[c] \in {"credential", "event", "revoke"}
    BY <1>7 DEF Unseen
  <2> QED BY <1>7, <2>1, StillElsewhere, NoneAsks DEF Unseen, Requests
<1> QED BY <1>1, <1>2, <1>3, <1>4, <1>5, <1>6, <1>7

\* The limiter of free signup.
LEMMA SignupLimits ==
    ASSUME AccessInv, AccessInv', LimitInv, NEW c \in Calls, BeginSignup(c)
    PROVE  LimitInv'
<1>1. CASE AskRedis(c, <<"signup">>, "organization", [op |-> "signup"])
  BY <1>1, AskingKeeps DEF AccessInv
<1>2. CASE Enter(c, "organization", [op |-> "signup"]) /\ CountMemory
  <2>1. Still
    BY <1>2, StillElsewhere, NoneAsks DEF AccessInv, Requests
  <2> QED BY <1>2, <2>1, WorkKeeps DEF AccessInv
<1>3. CASE AtOnce("signup") /\ CountMemory
  <2>1. Still
    BY <1>3 DEF Still
  <2> QED BY <1>3, <2>1, WorkKeeps DEF AccessInv
<1> QED BY <1>1, <1>2, <1>3 DEF BeginSignup

\* The limiters of an organization.
LEMMA TenantLimits ==
    ASSUME AccessInv, AccessInv', LimitInv, NEW c \in Calls, NEW op, BeginTenant(c, op)
    PROVE  LimitInv'
<1>1. PICK key, r : \/ AskRedis(c, key, Entry(op), r)
                    \/ Enter(c, Entry(op), r) /\ UNCHANGED limitVars
  BY DEF BeginTenant
<1>2. CASE AskRedis(c, key, Entry(op), r)
  BY <1>2, AskingKeeps DEF AccessInv
<1>3. CASE Enter(c, Entry(op), r) /\ UNCHANGED limitVars
  <2>1. Still
    BY <1>3, StillElsewhere, NoneAsks DEF AccessInv, Requests
  <2> QED BY <1>3, <2>1, IdleKeeps DEF AccessInv
<1> QED BY <1>1, <1>2, <1>3

\* The handlers of the limiters.
LEMMA LimitersLimit ==
    ASSUME AccessInv, AccessInv', LimitInv, LimitsNext
    PROVE  LimitInv'
<1>1. CASE \E c \in Calls : Ping(c)
  <2>1. PICK c \in Calls : Ping(c)
    BY <1>1
  <2>2. CASE UNCHANGED <<pc, req, failures>> /\ (CountMemory \/ CountPerKey \/ CountRecent)
    <3>1. Still
      BY <2>2 DEF Still
    <3> QED BY <2>2, <3>1, WorkKeeps DEF AccessInv
  <2>3. CASE AskRedis(c, <<"read">>, "idle", [op |-> "redis"])
    BY <2>3, AskingKeeps DEF AccessInv
  <2> QED BY <2>1, <2>2, <2>3 DEF Ping
<1>2. ASSUME NEW c \in Calls, Incr(c) \/ IncrUncounted(c) \/ Expire(c) \/ LimiterFails(c)
      PROVE  LimitInv'
  BY <1>2, IncrementKeeps, UncountedKeeps, ExpiringKeeps, FailingKeeps DEF AccessInv
<1>3. CASE Tick
  BY <1>3, PassingKeeps DEF AccessInv
<1> QED BY <1>1, <1>2, <1>3 DEF LimitsNext

\* Every step.
LEMMA LimitStep == AccessInv /\ AccessInv' /\ LimitInv /\ [Next]_vars => LimitInv'
<1> SUFFICES ASSUME AccessInv, AccessInv', LimitInv, [Next]_vars PROVE LimitInv'
  OBVIOUS
<1>1. ASSUME Still, UNCHANGED limitVars, failures' \in {failures, failures + 1} PROVE LimitInv'
  BY <1>1, IdleKeeps DEF AccessInv
<1>2. CASE UNCHANGED vars
  BY <1>1, <1>2 DEF vars, Still
<1>3. ASSUME NEW c \in Calls, BeginSignup(c) \/ \E op \in TenantOps : BeginTenant(c, op)
      PROVE  LimitInv'
  BY <1>3, SignupLimits, TenantLimits
<1>4. ASSUME NEW c \in Calls,
             \/ BeginOrganization(c) \/ OpenBootstrap(c) \/ CommitOrganization(c) \/ OpenTenant(c) \/ Refuse(c)
             \/ ReadTenant(c) \/ CommitProject(c) \/ InsertCredential(c) \/ Revoke(c) \/ AppendAudit(c) \/ Unseen(c)
      PROVE  LimitInv'
  BY <1>1, <1>4, HandlersStill DEF AccessInv
<1>5. ASSUME NEW c \in Calls, StatementFails(c) PROVE LimitInv'
  <2>1. pc[c] \notin Asking /\ pc' = [pc EXCEPT ![c] = "idle"] /\ req' = [req EXCEPT ![c] = NoRequest]
        /\ failures' = failures + 1 /\ UNCHANGED limitVars
    BY <1>5 DEF StatementFails, Failing, Asking
  <2>2. Still
    BY <2>1, StillElsewhere, NoneAsks DEF AccessInv, Requests
  <2> QED BY <1>1, <2>1, <2>2
<1>6. CASE LimitsNext
  BY <1>6, LimitersLimit
<1>7. CASE Operate
  BY <1>1, <1>7 DEF Operate, Still
<1>8. CASE Restart
  BY <1>8, AnewKeeps DEF AccessInv
<1> QED BY <1>2, <1>3, <1>4, <1>5, <1>6, <1>7, <1>8 DEF Next

\* Nothing has been limited.
LEMMA LimitStarts == AccessInit => LimitInv
<1> SUFFICES ASSUME AccessInit PROVE LimitInv
  OBVIOUS
<1>1. /\ arrivals = <<>> /\ DOMAIN arrivals = {} /\ life = 1 /\ now = 0 /\ failures = 0
      /\ memory = NoEntry /\ perKey = NoEntry /\ recent = {} /\ DOMAIN redis = {}
      /\ \A c \in Calls : pc[c] = "idle"
  BY DEF AccessInit, LimitsInit, CallsInit
<1>2. Arrivals
  <2>1. IsList(arrivals)
    BY <1>1 DEF IsList
  <2>2. \A c \in Calls : pc[c] \notin Asking
    BY <1>1 DEF Asking
  <2> QED BY <1>1, <2>1, <2>2 DEF Arrivals
<1>3. Counters
  <2>1. \A l : Allowed(arrivals, life, l) = {}
    BY <1>1 DEF Allowed
  <2>2. \A l, last : Fixed(arrivals, life, now, l, NoEntry, last)
    BY <2>1 DEF Fixed, NoEntry
  <2>3. Sliding(arrivals, life, now, recent)
    BY <1>1, <2>1 DEF Sliding
  <2> QED BY <1>1, <2>2, <2>3 DEF Counters, ProcessBound
<1>4. WaitingHelps /\ Buckets
  BY <1>1 DEF WaitingHelps, Buckets
<1>5. Slots
  <2> SUFFICES ASSUME NEW key, NEW v \in Nat, NEW w \in Nat PROVE Shared(key, v, w)
    BY DEF Slots
  <2>1. Granted(key, v) = {} /\ Granted(key, w) = {}
    BY <1>1 DEF Granted
  <2>2. Cardinality(Granted(key, v)) = 0 /\ Cardinality(Granted(key, w)) = 0
    BY <2>1, NobodyFits
  <2>3. Room(key, v) \in Nat /\ Room(key, w) \in Nat
    BY RoomSize, AccessStarts DEF AccessInv
  <2> QED BY <1>1, <2>2, <2>3 DEF Shared
<1> QED BY <1>2, <1>3, <1>4, <1>5 DEF LimitInv

\* "Too many requests", for any limit, window and budget: a request any of the limiters refuses has
\* another of the same limiter and key within a window of it, in rateLimit of auth.ts one instant
\* more; what was refused earlier, was lost or was left without EXPIRE keeps nobody out.
THEOREM RefusalsAreForOthers == Spec => []WaitingHelps
<1>1. AccessInv /\ LimitInv => WaitingHelps
  BY DEF LimitInv
<1> QED BY <1>1, AccessStarts, AccessStep, LimitStarts, LimitStep, PTL DEF Spec

\* "Maximum requests per window", for any limit, window and budget: what the limiters of a process
\* and of Redis let through in any Window instants.
THEOREM WindowsAreBounded == Spec => []WindowBound
<1>1. AccessInv /\ LimitInv => WindowBound
  <2> SUFFICES ASSUME AccessInv, LimitInv, NEW n \in DOMAIN arrivals
               PROVE  Cardinality(Within(n)) <= CASE arrivals[n].limiter = "recent" -> Limit
                                                  [] arrivals[n].limiter = "redis" -> 2 * Limit + failures
                                                  [] OTHER -> 2 * Limit - 1
    BY DEF WindowBound
  <2>1. CASE arrivals[n].limiter # "redis"
    BY <2>1 DEF LimitInv, Counters, ProcessBound, Most
  <2>2. CASE arrivals[n].limiter = "redis"
    <3>0. PICK key : key = arrivals[n].key
      OBVIOUS
    <3>1. PICK t \in Nat, w \in Nat : t = arrivals[n].at /\ w = Slot(t)
      BY ArrivalsStamped, SlotEnds DEF LimitInv, Stamped
    <3>2. Within(n) \subseteq Granted(key, w) \cup Granted(key, w + 1)
      <4> SUFFICES ASSUME NEW m \in Within(n) PROVE m \in Granted(key, w) \cup Granted(key, w + 1)
        OBVIOUS
      <4>1. /\ m \in DOMAIN arrivals /\ arrivals[m].limiter = "redis" /\ arrivals[m].key = key
            /\ arrivals[m].answer = "allowed" /\ arrivals[m].at \in t .. t + Window - 1
            /\ Slot(arrivals[m].decided) = Slot(arrivals[m].at)
        BY <2>2, <3>0, <3>1 DEF Within, Same
      <4>2. PICK u \in Nat : u = arrivals[m].at /\ t <= u /\ u < t + Window
        <5>1. arrivals[m].at \in Nat /\ Window \in Nat
          BY <4>1, ArrivalsStamped, WindowAssumption DEF LimitInv, Stamped
        <5> QED BY <4>1, <5>1
      <4>3. Slot(u) \in Nat /\ w <= Slot(u) /\ Slot(u) <= w + 1
        BY <3>1, <4>2, SlotEnds, SlotsFollow
      <4>4. Slot(u) = w \/ Slot(u) = w + 1
        BY <4>3
      <4> QED BY <4>1, <4>2, <4>4 DEF Granted
    <3>3. PICK g \in Nat, h \in Nat, p \in Nat, q \in Nat, f \in Nat :
              /\ g = Cardinality(Granted(key, w)) /\ h = Cardinality(Granted(key, w + 1))
              /\ p = Room(key, w) /\ q = Room(key, w + 1) /\ f = failures
      BY GrantedSize, RoomSize DEF AccessInv, LimitInv, Arrivals
    <3>4. g + h <= p + q + f
      <4>1. w + 1 \in Nat /\ w # w + 1
        OBVIOUS
      <4>2. Shared(key, w, w + 1)
        BY <4>1 DEF LimitInv, Slots
      <4> QED BY <3>3, <4>2 DEF Shared
    <3>5. p <= Limit /\ q <= Limit /\ Limit \in Nat
      BY <3>3, RoomSize, WindowAssumption DEF AccessInv
    <3>6. Cardinality(Within(n)) \in Nat /\ Cardinality(Within(n)) <= g + h
      <4>1. /\ IsFiniteSet(Granted(key, w)) /\ IsFiniteSet(Granted(key, w + 1))
            /\ IsList(arrivals) /\ Within(n) \in SUBSET DOMAIN arrivals
        BY GrantedSize DEF LimitInv, Arrivals, Within
      <4>2. Cardinality(Within(n)) \in Nat
        BY <4>1, SomeArrivals
      <4>3. Cardinality(Within(n)) <= Cardinality(Granted(key, w)) + Cardinality(Granted(key, w + 1))
        BY <3>2, <4>1, AddedSize
      <4> QED BY <3>3, <4>2, <4>3
    <3>7. Cardinality(Within(n)) <= 2 * Limit + f
      <4>1. PICK a \in Nat, b \in Nat, d \in Nat : a = Cardinality(Within(n)) /\ b = g + h /\ d = p + q
        BY <3>6
      <4>2. d <= 2 * Limit
        BY <3>5, <4>1
      <4>3. a <= d + f
        BY <3>4, <3>6, <4>1
      <4> QED BY <3>5, <4>1, <4>2, <4>3
    <3> QED BY <2>2, <3>3, <3>7
  <2> QED BY <2>1, <2>2
<1> QED BY <1>1, AccessStarts, AccessStep, LimitStarts, LimitStep, PTL DEF Spec
=============================================================================
