--------------------------- MODULE ActivityStore ---------------------------
(***************************************************************************)
(* services/activityStore.ts and the POST handlers of routes/activity.ts:  *)
(* a JSON file that every update reads, changes and replaces through a     *)
(* temporary file.  The calls are synchronous, so one server's updates do  *)
(* not interleave; a process may stop between two of them, and the         *)
(* deployment guide runs two servers on one directory.                     *)
(***************************************************************************)
EXTENDS Integers, Sequences, FiniteSets, TLC

CONSTANTS
    Servers,
    EventIds,      \* ids clients send with events, besides those they have been told
    JobIds,        \* ids clients send with jobs
    MaxActivity,   \* 500
    MaxJobs,       \* 200
    MaxRequests,   \* bound: requests
    MaxFaults      \* bound: stopped processes and unreadable files

ASSUME CapsAssumption ==
    /\ MaxActivity \in Nat \ {0} /\ MaxJobs \in Nat \ {0}
    /\ MaxRequests \in Nat /\ MaxFaults \in Nat

NewIds == 1 .. MaxRequests          \* newId: no id is given out twice
Events == EventIds \cup NewIds
NoJob == 0

VARIABLES
    running,   \* the servers of this deployment
    file,      \* DATA_FILE
    tmp,       \* the temporary file beside it
    call,      \* per server: the request it serves
    requests, faults,
    written,   \* history: the updates that have become the file, in order
    answered,  \* history: the updates of requests answered with 201
    harmed     \* history: two requests overlapped, or the file could not be read

storeVars == <<running, file, tmp, call, requests, faults, written, answered, harmed>>

\* A file that is absent or torn reads as the empty store.
EmptyStore == [activity |-> <<>>, jobs |-> <<>>]
NoFile == [exists |-> FALSE, store |-> EmptyStore]
Idle == [at |-> "idle", updates |-> <<>>, next |-> 1, opened |-> "none", store |-> EmptyStore]

StoreInit ==
    /\ running \in SUBSET Servers \ {{}}
    /\ file = EmptyStore /\ tmp = NoFile
    /\ call = [s \in Servers |-> Idle]
    /\ requests = 0 /\ faults = 0 /\ written = <<>> /\ answered = {} /\ harmed = FALSE

Faulty == faults < MaxFaults /\ faults' = faults + 1

-----------------------------------------------------------------------------
Request(s, updates) ==
    /\ s \in running /\ call[s] = Idle /\ requests < MaxRequests
    /\ call' = [call EXCEPT ![s].at = "read", ![s].updates = updates]
    /\ requests' = requests + 1
    /\ harmed' = (harmed \/ \E other \in Servers : call[other] # Idle)
    /\ UNCHANGED <<running, file, tmp, faults, written, answered>>

\* An update, and whether its id was sent by the client.
Event(id, job, sent) == [part |-> "activity", entry |-> [id |-> id, job |-> job], sent |-> sent]
Job(id) == [part |-> "jobs", entry |-> [id |-> id, job |-> id], sent |-> TRUE]

\* POST /v1/activity: with any id, also one that GET has published, or with a new one; the refs
\* may name a job.
PostEvent(s, job) ==
    \/ \E id \in EventIds \cup 1 .. requests : Request(s, <<Event(id, job, TRUE)>>)
    \/ Request(s, <<Event(requests + 1, job, FALSE)>>)

\* Mutant: newId without its random part, within one millisecond.
PostJobSameId(s, id) == Request(s, <<Job(id), Event(1, id, FALSE)>>)

\* POST /v1/activity/jobs: upsertJob, then an event of its own with a new id.
PostJob(s, id) == Request(s, <<Job(id), Event(requests + 1, id, FALSE)>>)

-----------------------------------------------------------------------------
\* entries.filter(e => e.id !== id)
Without(entries, id) ==
    LET kept[n \in 0 .. Len(entries)] ==
          IF n = 0 THEN <<>>
          ELSE IF entries[n].id = id THEN kept[n - 1]
          ELSE Append(kept[n - 1], entries[n])
    IN kept[Len(entries)]

\* Mutant: the cap is applied before the older entry of the id is taken out.
PutTruncatesFirst(entries, entry, max) ==
    LET kept == SubSeq(entries, 1, IF Len(entries) < max THEN Len(entries) ELSE max - 1)
    IN <<entry>> \o Without(kept, entry.id)

\* [entry, ...entries.filter(e => e.id !== entry.id)].slice(0, max)
Put(entries, entry, max) ==
    LET all == <<entry>> \o Without(entries, entry.id)
    IN SubSeq(all, 1, IF Len(all) <= max THEN Len(all) ELSE max)

\* appendActivity or upsertJob, of the fields that tell entries apart.
Apply(update, store) ==
    IF update.part = "activity"
    THEN [store EXCEPT !.activity = Put(@, update.entry, MaxActivity)]
    ELSE [store EXCEPT !.jobs = Put(@, update.entry, MaxJobs)]

Pending(s) == call[s].updates[call[s].next]

\* readStore: whatever goes wrong, the answer is a store.
ReadStore(s, readable) ==
    /\ call[s].at = "read"
    /\ call' = [call EXCEPT ![s].at = "open",
                            ![s].store = Apply(Pending(s), IF readable THEN file ELSE EmptyStore)]
    /\ IF readable THEN UNCHANGED <<faults, harmed>> ELSE Faulty /\ harmed' = TRUE
    /\ UNCHANGED <<running, file, tmp, requests, written, answered>>

\* writeStore: writeFileSync creates or truncates the temporary file,
OpenTmp(s) ==
    /\ call[s].at = "open"
    /\ tmp' = [exists |-> TRUE, store |-> EmptyStore]
    /\ call' = [call EXCEPT ![s].at = "write", ![s].opened = "tmp"]
    /\ UNCHANGED <<running, file, requests, faults, written, answered, harmed>>

\* Mutant: the file is written in place.
WriteInPlace(s, torn) ==
    /\ call[s].at = "write" /\ ~torn
    /\ tmp' = [tmp EXCEPT !.store = call[s].store] /\ file' = EmptyStore
    /\ call' = [call EXCEPT ![s].at = "rename"]
    /\ UNCHANGED <<running, requests, faults, written, answered, harmed>>

\* and fills what it has opened, which by then may have become the file.  What another
\* server has put there since may stick out behind.
WriteTmp(s, torn) ==
    LET there == CASE call[s].opened = "tmp" -> tmp.store
                   [] call[s].opened = "file" -> file
                   [] OTHER -> EmptyStore
        contents == IF torn THEN EmptyStore ELSE call[s].store IN
    /\ call[s].at = "write" /\ (torn => there # EmptyStore)
    /\ tmp' = IF call[s].opened = "tmp" THEN [tmp EXCEPT !.store = contents] ELSE tmp
    /\ file' = IF call[s].opened = "file" THEN contents ELSE file
    /\ call' = [call EXCEPT ![s].at = "rename"]
    /\ UNCHANGED <<running, requests, faults, written, answered, harmed>>

\* renameSync; then the next update of the request, or the answer.
RenameTmp(s) ==
    LET over == call[s].next = Len(call[s].updates)
        opened(o) == IF call[o].opened = "tmp" THEN "file" ELSE "none" IN
    /\ call[s].at = "rename" /\ tmp.exists
    /\ file' = tmp.store /\ tmp' = NoFile
    /\ written' = Append(written, Pending(s))
    /\ call' = [o \in Servers |->
                  IF o = s
                  THEN [call[s] EXCEPT !.at = IF over THEN "answer" ELSE "read", !.opened = "none",
                                       !.next = IF over THEN @ ELSE @ + 1, !.store = EmptyStore]
                  ELSE [call[o] EXCEPT !.opened = opened(o)]]
    /\ UNCHANGED <<running, requests, faults, answered, harmed>>

\* The other server has renamed it: ENOENT, and the answer is 500.
RenameFails(s) ==
    /\ call[s].at = "rename" /\ ~tmp.exists
    /\ call' = [call EXCEPT ![s] = Idle]
    /\ UNCHANGED <<running, file, tmp, requests, faults, written, answered, harmed>>

Answer(s) ==
    /\ call[s].at = "answer"
    /\ answered' = answered \cup {call[s].updates[n] : n \in DOMAIN call[s].updates}
    /\ call' = [call EXCEPT ![s] = Idle]
    /\ UNCHANGED <<running, file, tmp, requests, faults, written, harmed>>

\* The process stops wherever it is, and starts again.
Restart(s) ==
    /\ call[s] # Idle /\ Faulty
    /\ call' = [call EXCEPT ![s] = Idle]
    /\ UNCHANGED <<running, file, tmp, requests, written, answered, harmed>>

-----------------------------------------------------------------------------
Step(s) ==
    \/ \E readable \in BOOLEAN : ReadStore(s, readable)
    \/ \E torn \in BOOLEAN : WriteTmp(s, torn)
    \/ OpenTmp(s) \/ RenameTmp(s) \/ RenameFails(s) \/ Answer(s)

StoreNext ==
    \E s \in Servers :
        \/ \E job \in {NoJob} \cup JobIds : PostEvent(s, job)
        \/ \E id \in JobIds : PostJob(s, id)
        \/ Step(s) \/ Restart(s)

StoreSpec == StoreInit /\ [][StoreNext]_storeVars

-----------------------------------------------------------------------------
Stores == [activity : Seq([id : Events, job : {NoJob} \cup JobIds]),
           jobs : Seq([id : JobIds, job : JobIds])]

\* Ranges; neither part of a store outgrows its cap.
StoreTypeOK ==
    /\ running \subseteq Servers
    /\ file \in Stores /\ tmp \in [exists : BOOLEAN, store : Stores]
    /\ \A s \in Servers : call[s].store \in Stores
    /\ Len(file.activity) <= MaxActivity /\ Len(file.jobs) <= MaxJobs
    /\ requests \in 0 .. MaxRequests /\ faults \in 0 .. MaxFaults

IdsOf(entries) == [n \in DOMAIN entries |-> entries[n].id]

\* MaxOf newer entries have come after the n-th update.
MaxOf(part) == IF part = "activity" THEN MaxActivity ELSE MaxJobs
Displaced(n) ==
    LET newer == {written[k].entry.id : k \in {k \in n + 1 .. Len(written) : written[k].part = written[n].part}}
    IN Cardinality(newer \ {written[n].entry.id}) >= MaxOf(written[n].part)

Listed(update) == \E n \in DOMAIN file[update.part] : file[update.part][n].id = update.entry.id

\* "Survives api-server restarts": what a server has answered for is in the file until as many
\* newer entries as the cap allows have displaced it, whichever server wrote them and wherever
\* one stopped, unless requests to two servers overlapped or the file was unreadable once.
\* Neither part outgrows its cap.
AnsweredKept ==
    /\ StoreTypeOK
    /\ ~harmed => \A update \in answered :
         \E n \in DOMAIN written : written[n] = update /\ (Listed(update) \/ Displaced(n))

\* A client has sent the id of the n-th update with an event of its own since.
Replaced(n) ==
    \E m \in n + 1 .. Len(written) :
        /\ written[m].part = written[n].part /\ written[m].sent
        /\ written[m].entry.id = written[n].entry.id

\* A job that was answered for keeps the event that announces it until newer events displace
\* that or a client sends its id, which GET publishes, with another event: two updates make one
\* request, clients choose ids, and no announcement of another job takes the place of this one.
JobsAnnounced ==
    ~harmed => \A update \in answered : update.part = "jobs" =>
        \E n \in DOMAIN written :
            /\ written[n].part = "activity" /\ ~written[n].sent /\ written[n].entry.job = update.entry.id
            /\ Displaced(n) \/ Replaced(n) \/ \E k \in DOMAIN file.activity : file.activity[k] = written[n].entry

ActivityLog == INSTANCE RecentLog WITH Ids <- Events, Max <- MaxActivity, recent <- IdsOf(file.activity)
JobLog == INSTANCE RecentLog WITH Ids <- JobIds, Max <- MaxJobs, recent <- IdsOf(file.jobs)

\* As long as nothing was harmed, each part of the file is a capped log of the newest entries.
PartsAreRecentLogs ==
    /\ ActivityLog!Init /\ JobLog!Init
    /\ [][~harmed' => ActivityLog!Next]_(IdsOf(file.activity))
    /\ [][~harmed' => JobLog!Next]_(IdsOf(file.jobs))
=============================================================================
