------------------------------- MODULE Resolver -------------------------------
(***************************************************************************)
(* Route resolution and reconciliation: internal/resolver, the handlers of *)
(* internal/httpapi that call it, and the goroutines of cmd/parparchik.    *)
(*                                                                         *)
(* The processes are the request goroutines (Workers), the periodic sync   *)
(* (Syncer) and the bootstrap (Booter).  They share the catalog, which is  *)
(* the abstract Registry that module Catalog implements, and the object    *)
(* storage.  A process takes one step per storage call and one per         *)
(* critical section of the catalog, because everything else may run in     *)
(* between.  Storage is changed by others too (uploads, deletes, moves     *)
(* done as a copy and a delete), a storage call may fail, and the process  *)
(* may be killed and restarted.                                            *)
(*                                                                         *)
(* Buckets with storage are numbered in configuration order, so a bucket   *)
(* is its own rank.  Sizes, timestamps and bodies are left out, and so are *)
(* the fields of the relocate response that only describe what happened.   *)
(***************************************************************************)
EXTENDS Naturals, FiniteSets

CONSTANTS
    Keys,        \* the object keys
    NBuckets,    \* the number of buckets with storage
    Public,      \* the public ones
    Workers,     \* request goroutines
    Syncer,      \* the periodicSync goroutine
    Booter,      \* the bootstrap goroutine
    SyncOn,      \* cfg.SyncInterval > 0
    Ops,         \* the endpoints clients use
    MaxChanges,  \* bound: changes of storage made by others
    MaxErrors,   \* bound: storage calls that fail
    MaxCrashes   \* bound: restarts of the process

Bucket == 1 .. NBuckets
NoBucket == 0
Objects == Bucket \X Keys
Procs == Workers \cup {Syncer, Booter}

ASSUME ResolverAssumption ==
    /\ NBuckets \in Nat \ {0}
    /\ Public \subseteq Bucket
    /\ Syncer # Booter
    /\ {Syncer, Booter} \cap Workers = {}
    /\ SyncOn \in BOOLEAN
    /\ Ops \subseteq {"route", "type", "update", "relocate"}
    /\ {MaxChanges, MaxErrors, MaxCrashes} \subseteq Nat
    /\ IsFiniteSet(Keys)

VARIABLES
    where,       \* the catalog: key -> owning bucket, or NoBucket
    objs,        \* storage: the <<bucket, key>> of every file object
    manifest,    \* storage: bucket -> keys in its manifest object
    ready,       \* API.ready
    dupCount,    \* Resolver.duplicateCount
    t,           \* the local state of each process
    changes, errors, crashes,   \* counters for the bounds
    \* History, read by the properties only:
    steady,      \* objects present ever since the process started
    fresh,       \* processes whose operation began after the last change
    calm,        \* workers whose request began with only fresh ones active
    taken        \* keys last placed by a search of some of the buckets only

storage == <<objs, manifest>>
counters == <<changes, errors, crashes>>
history == <<steady, fresh, calm, taken>>
vars == <<where, objs, manifest, ready, dupCount, t, counters, history>>

Cat == INSTANCE Registry WITH
           Buckets <- Bucket, Priority <- [b \in Bucket |-> b]

Least(S) == CHOOSE b \in S : \A c \in S : b <= c

Holders(k) == {b \in Bucket : <<b, k>> \in objs}

\* A GET /<bucket>/<key>, a GET /public|private/<key>, a GET /update and a
\* POST /relocate.
Requests ==
    {r \in [op : {"route"}, key : Keys, at : Bucket]
           \cup [op : {"type"}, key : Keys, at : BOOLEAN]
           \cup [op : {"update", "relocate"}, key : Keys] : r.op \in Ops}

\* The buckets a request searches: resolveMissingFileByType only those of the
\* requested visibility, the others all of them.
Searched(r) ==
    IF r.op = "type" THEN {b \in Bucket : (b \in Public) = r.at} ELSE Bucket

NoRequest == [op |-> "none"]

Answers == [kind : {"none", "found", "missing", "failed"},
            bucket : Bucket \cup {NoBucket}]
Found(b) == [kind |-> "found", bucket |-> b]
Missing == [kind |-> "missing", bucket |-> NoBucket]
Failed == [kind |-> "failed", bucket |-> NoBucket]
NoAnswer == [kind |-> "none", bucket |-> NoBucket]

(***************************************************************************)
(* The local state: where the process is, its request, the buckets its     *)
(* current loop has still to visit, the first bucket found, the keys or    *)
(* objects it read last, the keys a sync has seen and seen twice, whether a *)
(* manifest could not be written, and the answer.                          *)
(***************************************************************************)
At(pc, r, a) ==
    [pc |-> pc, req |-> r, todo |-> {}, hit |-> NoBucket, got |-> {},
     seen |-> {}, dups |-> {}, perr |-> FALSE, ans |-> a]

Idle(p) == t[p].pc = "idle"
Busy == {p \in Procs : t[p].pc \notin {"idle", "up", "down"}}

\* p goes to the state x.
Step(p, x) == t' = [t EXCEPT ![p] = x]

\* p answers a and is idle again, remembering what was asked.
Reply(p, a) == Step(p, At("idle", t[p].req, a))

\* p starts PersistManifests.
ToPersist(x) == [x EXCEPT !.pc = "read", !.todo = Bucket]

\* A storage call fails.
CallFails == errors < MaxErrors /\ errors' = errors + 1
-----------------------------------------------------------------------------
(***************************************************************************)
(* Requests.                                                               *)
(***************************************************************************)

\* Before the bootstrap is over every request is turned away.
requireReady == ready

\* A request arrives and its goroutine begins in the local state x.
Arrives(w, x) ==
    /\ requireReady
    /\ Idle(w)
    /\ Step(w, x)
    /\ fresh' = fresh \cup {w}
    /\ calm' = IF Busy \subseteq fresh THEN calm \cup {w} ELSE calm \ {w}
    /\ UNCHANGED <<where, storage, ready, dupCount, counters, steady, taken>>

\* A search through the buckets, and a check of the bucket that the catalog
\* names.
Search(r) == [At("scan", r, NoAnswer) EXCEPT !.todo = Searched(r)]
Check(r) == [Search(r) EXCEPT !.pc = "exists", !.hit = where[r.key]]

\* A route that LookupByRoute knows is checked, any other is searched for: the
\* route of a bucket in all buckets, /public and /private by visibility.
ResolveRoute(r) ==
    IF r.op = "route" /\ where[r.key] = r.at THEN Check(r) ELSE Search(r)

handleDownload(w, r) ==
    r.op \in {"route", "type"} /\ Arrives(w, ResolveRoute(r))

handleUpdate(w, r) ==
    /\ r.op = "update"
    /\ Arrives(w, IF Cat!Registered(r.key) THEN Check(r) ELSE Search(r))

handleRelocate(w, r) ==
    r.op = "relocate" /\ Arrives(w, Search(r))

Request(w, r) ==
    handleDownload(w, r) \/ handleUpdate(w, r) \/ handleRelocate(w, r)

\* Resolver.Exists on the bucket the catalog named: a hit is the answer; a
\* miss, and an error just the same, starts the search.
\* (TrustCatalog, and every other definition marked "faulty", is a variant
\* that the properties must reject.)
TrustCatalog(w) ==
    /\ t[w].pc = "exists"
    /\ Reply(w, Found(t[w].hit))
    /\ UNCHANGED <<where, storage, ready, dupCount, counters, history>>
CheckExists(w) ==
    /\ t[w].pc = "exists"
    /\ \/ /\ <<t[w].hit, t[w].req.key>> \in objs
          /\ Reply(w, Found(t[w].hit))
          /\ UNCHANGED errors
       \/ /\ \/ <<t[w].hit, t[w].req.key>> \notin objs /\ UNCHANGED errors
             \/ CallFails
          /\ Step(w, [t[w] EXCEPT !.pc = "scan", !.hit = NoBucket])
    /\ UNCHANGED <<where, storage, ready, dupCount, changes, crashes, history>>

\* The searches stop at the first hit; Relocate asks every bucket.
Stops(w) == t[w].req.op # "relocate"

\* One HEAD of ResolveMissingFile, resolveMissingFileByType or Relocate.
ScanLast(w) ==   \* faulty
    LET b == Least(t[w].todo)
        here == <<b, t[w].req.key>> \in objs
    IN  /\ t[w].pc = "scan"
        /\ t[w].todo # {}
        /\ \/ /\ Step(w, [t[w] EXCEPT !.todo = @ \ {b}, !.hit = IF here THEN b ELSE @])
              /\ UNCHANGED errors
           \/ /\ CallFails
              /\ Reply(w, Failed)
        /\ UNCHANGED <<where, storage, ready, dupCount, changes, crashes, history>>
Scan(w) ==
    LET b == Least(t[w].todo)
        here == <<b, t[w].req.key>> \in objs
    IN  /\ t[w].pc = "scan"
        /\ t[w].todo # {}
        /\ \/ /\ Step(w, [t[w] EXCEPT
                              !.todo = IF here /\ Stops(w) THEN {} ELSE @ \ {b},
                              !.hit = IF here /\ @ = NoBucket THEN b ELSE @])
              /\ UNCHANGED errors
           \/ /\ CallFails
              /\ Reply(w, Failed)
        /\ UNCHANGED <<where, storage, ready, dupCount, changes, crashes, history>>

\* The search found the file: Catalog.Set, whatever the catalog says by now.
PlaceByRegister(w) ==   \* faulty
    /\ t[w].pc = "scan"
    /\ t[w].todo = {}
    /\ t[w].hit # NoBucket
    /\ Cat!Claim(t[w].req.key, t[w].hit)
    /\ Step(w, ToPersist(t[w]))
    /\ UNCHANGED <<storage, ready, dupCount, counters, history>>
PlaceHit(w) ==
    /\ t[w].pc = "scan"
    /\ t[w].todo = {}
    /\ t[w].hit # NoBucket
    /\ Cat!Place(t[w].req.key, t[w].hit)
    /\ Step(w, ToPersist(t[w]))
    /\ taken' = IF t[w].req.op = "type" THEN taken \cup {t[w].req.key}
                                       ELSE taken \ {t[w].req.key}
    /\ UNCHANGED <<storage, ready, dupCount, counters, steady, fresh, calm>>

\* The search found nothing: a search by visibility just says so, the others
\* remove the key first.
DropAlways(w) ==   \* faulty
    /\ t[w].pc = "scan"
    /\ t[w].todo = {}
    /\ t[w].hit = NoBucket
    /\ Cat!Drop(t[w].req.key) /\ Step(w, ToPersist(t[w]))
    /\ UNCHANGED <<storage, ready, dupCount, counters, history>>
DropKey(w) ==
    /\ t[w].pc = "scan"
    /\ t[w].todo = {}
    /\ t[w].hit = NoBucket
    /\ IF t[w].req.op = "type"
       THEN Reply(w, Missing) /\ UNCHANGED where
       ELSE Cat!Drop(t[w].req.key) /\ Step(w, ToPersist(t[w]))
    /\ UNCHANGED <<storage, ready, dupCount, counters, history>>

\* The last lookup and the answer.  A persist failure matters to a relocate
\* that found the file only.  ResolveRoute gives nothing away unless the entry
\* has the requested route; the others return what Lookup returned, and that
\* is the zero entry (NoBucket) if the key has been removed meanwhile.
AnswerIgnoringPersist(w) ==   \* faulty
    LET r == t[w].req
    IN  /\ t[w].pc = "persisted"
        /\ Reply(w, IF t[w].hit = NoBucket THEN Missing
                    ELSE IF r.op = "route" /\ where[r.key] # r.at THEN Missing
                    ELSE Found(where[r.key]))
        /\ UNCHANGED <<where, storage, ready, dupCount, counters, history>>
Answer(w) ==
    LET r == t[w].req
    IN  /\ t[w].pc = "persisted"
        /\ Reply(w, IF t[w].hit = NoBucket THEN Missing
                    ELSE IF r.op = "relocate" /\ t[w].perr THEN Failed
                    ELSE IF r.op = "route" /\ where[r.key] # r.at THEN Missing
                    ELSE Found(where[r.key]))
        /\ UNCHANGED <<where, storage, ready, dupCount, counters, history>>
-----------------------------------------------------------------------------
(***************************************************************************)
(* PersistManifests: for each bucket in turn, read its manifest off the    *)
(* catalog, then write it.  A failed write does not stop the loop.         *)
(***************************************************************************)
ReadManifest(p) ==
    /\ t[p].pc = "read"
    /\ Step(p, [t[p] EXCEPT
                    !.pc = "put",
                    !.got = {k \in Keys : where[k] = Least(t[p].todo)}])
    /\ UNCHANGED <<where, storage, ready, dupCount, counters, history>>

\* The loop goes on, or it ends: a sync of the ticker is then over, the others
\* have something left to do.
Written(p, failed) ==
    LET rest == t[p].todo \ {Least(t[p].todo)}
        x == [t[p] EXCEPT !.todo = rest, !.got = {}, !.perr = @ \/ failed]
    IN  IF rest # {} THEN [x EXCEPT !.pc = "read"]
        ELSE IF p = Syncer THEN At("idle", NoRequest, NoAnswer)
        ELSE [x EXCEPT !.pc = "persisted"]

PutManifest(p) ==
    /\ t[p].pc = "put"
    /\ \/ /\ manifest' = [manifest EXCEPT ![Least(t[p].todo)] = t[p].got]
          /\ Step(p, Written(p, FALSE))
          /\ UNCHANGED errors
       \/ /\ CallFails
          /\ Step(p, Written(p, TRUE))
          /\ UNCHANGED manifest
    /\ UNCHANGED <<where, objs, ready, dupCount, changes, crashes, history>>
-----------------------------------------------------------------------------
(***************************************************************************)
(* SyncRegistry, run by the ticker and by the bootstrap.                   *)
(***************************************************************************)
ToSync == [At("list", NoRequest, NoAnswer) EXCEPT !.todo = Bucket]

TickWhenReady ==   \* faulty
    /\ SyncOn
    /\ ready
    /\ Idle(Syncer)
    /\ Step(Syncer, ToSync)
    /\ fresh' = fresh \cup {Syncer}
    /\ UNCHANGED <<where, storage, ready, dupCount, counters, steady, calm, taken>>
Tick ==
    /\ SyncOn
    /\ Idle(Syncer)
    /\ Step(Syncer, ToSync)
    /\ fresh' = fresh \cup {Syncer}
    /\ UNCHANGED <<where, storage, ready, dupCount, counters, steady, calm, taken>>

\* The loop goes on with the listing x.got, or with the next bucket, or ends.
OnwardsPastEnd(x) ==   \* faulty
    IF x.got # {} THEN [x EXCEPT !.pc = "register"]
    ELSE [x EXCEPT !.pc = "list", !.todo = @ \ {Least(@)}]
Onwards(x) ==
    LET rest == x.todo \ {Least(x.todo)}
    IN  IF x.got # {} THEN [x EXCEPT !.pc = "register"]
        ELSE IF rest # {} THEN [x EXCEPT !.pc = "list", !.todo = rest]
        ELSE [x EXCEPT !.pc = "count", !.todo = {}]

\* ListObjects of the next bucket; an error ends the sync, with what was
\* registered so far left in place and nothing persisted.
ListObjects(p) ==
    LET b == Least(t[p].todo)
    IN  /\ t[p].pc = "list"
        /\ \/ /\ Step(p, Onwards([t[p] EXCEPT
                                      !.got = {k \in Keys : <<b, k>> \in objs}]))
              /\ UNCHANGED errors
           \/ /\ CallFails
              /\ Step(p, At(IF p = Booter THEN "down" ELSE "idle",
                            NoRequest, NoAnswer))
        /\ UNCHANGED <<where, storage, ready, dupCount, changes, crashes, history>>

\* One object of the listing: a key seen in an earlier bucket is a duplicate,
\* any other is registered.
RegisterListed(p) ==
    /\ t[p].pc = "register"
    /\ \E k \in t[p].got :
           LET again == k \in t[p].seen
           IN  /\ IF again THEN UNCHANGED where ELSE Cat!Claim(k, Least(t[p].todo))
               /\ Step(p, Onwards([t[p] EXCEPT
                              !.got = @ \ {k},
                              !.seen = @ \cup {k},
                              !.dups = IF again THEN @ \cup {k} ELSE @]))
               /\ taken' = IF again THEN taken ELSE taken \ {k}
    /\ UNCHANGED <<storage, ready, dupCount, counters, steady, fresh, calm>>

\* After the last bucket: setDuplicateCount, then PersistManifests.
CountWithoutPersist(p) ==   \* faulty
    /\ t[p].pc = "count"
    /\ dupCount' = Cardinality(t[p].dups)
    /\ Step(p, At(IF p = Syncer THEN "idle" ELSE "persisted", NoRequest, NoAnswer))
    /\ UNCHANGED <<where, storage, ready, counters, history>>
CountOnlyIfAny(p) ==   \* faulty
    /\ t[p].pc = "count"
    /\ dupCount' = IF t[p].dups = {} THEN dupCount ELSE Cardinality(t[p].dups)
    /\ Step(p, ToPersist([t[p] EXCEPT !.seen = {}, !.dups = {}]))
    /\ UNCHANGED <<where, storage, ready, counters, history>>
CountDuplicates(p) ==
    /\ t[p].pc = "count"
    /\ dupCount' = Cardinality(t[p].dups)
    /\ Step(p, ToPersist([t[p] EXCEPT !.seen = {}, !.dups = {}]))
    /\ UNCHANGED <<where, storage, ready, counters, history>>
-----------------------------------------------------------------------------
(***************************************************************************)
(* Bootstrap: fetch every manifest, LoadManifests, SyncRegistry, ready.    *)
(***************************************************************************)
Starting(x) == [x EXCEPT ![Booter] =
                    [At("fetch", NoRequest, NoAnswer) EXCEPT !.todo = Bucket]]

\* GetObject of the next manifest (a missing one is empty).  An error is
\* final: bootstrap is not retried.
FetchManifest ==
    LET b == Least(t[Booter].todo)
        rest == t[Booter].todo \ {b}
    IN  /\ t[Booter].pc = "fetch"
        /\ \/ /\ Step(Booter, [t[Booter] EXCEPT
                                   !.pc = IF rest = {} THEN "clear" ELSE @,
                                   !.todo = rest,
                                   !.got = @ \cup ({b} \X manifest[b])])
              /\ UNCHANGED errors
           \/ /\ CallFails
              /\ Step(Booter, At("down", NoRequest, NoAnswer))
        /\ UNCHANGED <<where, storage, ready, dupCount, changes, crashes, history>>

\* Items are left to load, or the initial SyncRegistry begins.
LoadingWithoutSync(items) ==   \* faulty
    [At(IF items = {} THEN "persisted" ELSE "load", NoRequest, NoAnswer)
        EXCEPT !.got = items]
Loading(items) ==
    IF items = {} THEN ToSync
    ELSE [At("load", NoRequest, NoAnswer) EXCEPT !.got = items]

\* LoadManifests starts with a Clear, though a periodic sync may be running.
ClearCatalog ==
    /\ t[Booter].pc = "clear"
    /\ Cat!Reset
    /\ Step(Booter, Loading(t[Booter].got))
    /\ UNCHANGED <<storage, ready, dupCount, counters, history>>

\* One Register of LoadManifests, manifests in configuration order.
LoadItem ==
    /\ t[Booter].pc = "load"
    /\ \E o \in t[Booter].got :
           /\ \A q \in t[Booter].got : o[1] <= q[1]
           /\ Cat!Claim(o[2], o[1])
           /\ Step(Booter, Loading(t[Booter].got \ {o}))
    /\ UNCHANGED <<storage, ready, dupCount, counters, history>>

SetReady ==
    /\ t[Booter].pc = "persisted"
    /\ ready' = TRUE
    /\ Step(Booter, At("up", NoRequest, NoAnswer))
    /\ UNCHANGED <<where, storage, dupCount, counters, history>>
-----------------------------------------------------------------------------
(***************************************************************************)
(* The world around the process.                                           *)
(***************************************************************************)

\* Others upload or delete a file; a move is a copy and a delete.
Changed(o) ==
    /\ changes < MaxChanges
    /\ changes' = changes + 1
    /\ objs' = o
    /\ steady' = steady \cap o
    /\ fresh' = {}
    /\ calm' = {}
    /\ UNCHANGED <<where, manifest, ready, dupCount, t, errors, crashes, taken>>

Upload(o) == o \notin objs /\ Changed(objs \cup {o})

Delete(o) == o \in objs /\ Changed(objs \ {o})

\* The process dies, with everything it had in memory, and starts again.
Crash ==
    /\ crashes < MaxCrashes
    /\ crashes' = crashes + 1
    /\ where' = [k \in Keys |-> NoBucket]
    /\ ready' = FALSE
    /\ dupCount' = 0
    /\ t' = Starting([p \in Procs |-> At("idle", NoRequest, NoAnswer)])
    /\ steady' = objs
    /\ fresh' = {Booter}
    /\ calm' = {}
    /\ taken' = {}
    /\ UNCHANGED <<storage, changes, errors>>
-----------------------------------------------------------------------------
\* The process starts on whatever files and manifests earlier runs and other
\* writers left in storage.
Init ==
    /\ where = [k \in Keys |-> NoBucket]
    /\ objs \in SUBSET Objects
    /\ manifest \in [Bucket -> SUBSET Keys]
    /\ ready = FALSE
    /\ dupCount = 0
    /\ t = Starting([p \in Procs |-> At("idle", NoRequest, NoAnswer)])
    /\ changes = 0
    /\ errors = 0
    /\ crashes = 0
    /\ steady = objs
    /\ fresh = {Booter}
    /\ calm = {}
    /\ taken = {}

WorkerStep(w) ==
    \/ CheckExists(w) \/ Scan(w) \/ PlaceHit(w) \/ DropKey(w)
    \/ ReadManifest(w) \/ PutManifest(w) \/ Answer(w)

SyncStep(p) ==
    \/ ListObjects(p) \/ RegisterListed(p) \/ CountDuplicates(p)
    \/ ReadManifest(p) \/ PutManifest(p)

SyncerStep == Tick \/ SyncStep(Syncer)

BooterStep ==
    \/ FetchManifest \/ ClearCatalog \/ LoadItem
    \/ SyncStep(Booter) \/ SetReady

Environment ==
    \/ \E o \in Objects : Upload(o) \/ Delete(o)
    \/ Crash

Next ==
    \/ \E w \in Workers, r \in Requests : Request(w, r)
    \/ \E w \in Workers : WorkerStep(w)
    \/ SyncerStep
    \/ BooterStep
    \/ Environment

Spec == Init /\ [][Next]_vars

(***************************************************************************)
(* Goroutines are scheduled, storage calls return, and the ticker fires:   *)
(* weak fairness of each process.  Nothing is assumed of clients, of other *)
(* writers of the storage or of crashes.                                   *)
(***************************************************************************)
FairSpec ==
    /\ Spec
    /\ \A w \in Workers : WF_vars(WorkerStep(w))
    /\ WF_vars(SyncerStep)
    /\ WF_vars(BooterStep)
-----------------------------------------------------------------------------
(***************************************************************************)
(* Safety.                                                                 *)
(***************************************************************************)

\* Every variable has its type, and a process that is to visit a bucket has
\* one left to visit.
TypeOK ==
    /\ where \in [Keys -> Bucket \cup {NoBucket}]
    /\ objs \subseteq Objects
    /\ manifest \in [Bucket -> SUBSET Keys]
    /\ ready \in BOOLEAN
    /\ dupCount \in Nat
    /\ \A p \in Procs :
           /\ t[p].pc \in {"idle", "exists", "scan", "read", "put", "persisted",
                           "list", "register", "count", "fetch", "clear", "load",
                           "up", "down"}
           /\ t[p].req \in Requests \cup {NoRequest}
           /\ t[p].todo \subseteq Bucket
           /\ t[p].hit \in Bucket \cup {NoBucket}
           /\ t[p].seen \subseteq Keys
           /\ t[p].dups \subseteq t[p].seen
           /\ t[p].ans \in Answers
           /\ t[p].pc \in {"read", "put", "list", "register", "fetch"} =>
                  t[p].todo # {}
    /\ steady \subseteq objs
    /\ fresh \subseteq Procs
    /\ calm \subseteq Workers

\* The last request of w was op and has been answered.
Answered(w, op) == Idle(w) /\ t[w].req # NoRequest /\ t[w].req.op = op

\* "route/priority mismatch = 404, never serve the wrong bucket's content": when a
\* route is answered, it is with a file of its own bucket or not at all, and a file
\* that has been in the bucket since the process started is refused only while the
\* catalog gives the key to a bucket of better rank, or a search by visibility took
\* it.  Requests, syncs, failed calls and changes of other files between the search,
\* the Set and the last lookup neither expose a shadowed file nor hide this one.
RouteRule ==
    [][\A w \in Workers :
           LET r == t[w].req
               a == t'[w].ans
           IN  ~Idle(w) /\ Idle(w)' /\ r.op = "route" =>
                   /\ a.kind = "found" => a.bucket = r.at
                   /\ a.kind = "missing" /\ <<r.at, r.key>> \in steady =>
                          \/ where[r.key] # NoBucket /\ where[r.key] < r.at
                          \/ r.key \in taken]_vars

\* The conflict rule, in the presence of storage: a file that has been there
\* since the process started is never unknown once the service is ready, nor
\* does its key rank below its bucket, whatever requests, syncs, failed calls,
\* changes of other files and restarts there are.  Bootstrap's Clear is made up
\* for, and no search that removes or places a key can have missed the file.
\* The exception is a GET /private/<key> (or /public): it looks at some of the
\* buckets only and yet places the key there, until a sync or a search of all
\* buckets puts that right.
SteadyWins ==
    ready => \A o \in steady :
                 /\ where[o[2]] # NoBucket
                 /\ where[o[2]] <= o[1] \/ o[2] \in taken

\* A request that overlaps no change of storage, and no operation begun before
\* the last change, is answered rightly, although other requests and a sync
\* work on the same key and the catalog may start out stale: what is found is
\* there; an update or relocate is told "missing" only if no bucket has the
\* file; a route only if its bucket is not the first that has it.
CalmAnswer ==
    \A w \in calm :
        LET k == t[w].req.key
            a == t[w].ans
        IN  Idle(w) =>
                /\ a.kind = "found" => <<a.bucket, k>> \in objs
                /\ a.kind = "missing" =>
                       IF t[w].req.op = "route"
                       THEN \A b \in Bucket :
                                b = t[w].req.at /\ b \in Holders(k) =>
                                    Least(Holders(k)) # b
                       ELSE Searched(t[w].req) \cap Holders(k) = {}

\* A relocate that reports success is durable: as long as the catalog still
\* says what it answered, the manifest in storage does too, and a restart
\* finds it.
RelocateDurable ==
    \A w \in Workers :
        Answered(w, "relocate") /\ t[w].ans.kind = "found" =>
            LET k == t[w].req.key
                b == t[w].ans.bucket
            IN  where[k] = b /\ b # NoBucket => k \in manifest[b]

\* A file that was found is returned, not the zero entry.
FoundIsReal ==
    \A w \in Workers : t[w].ans.kind = "found" => t[w].ans.bucket # NoBucket

-----------------------------------------------------------------------------
(***************************************************************************)
(* Liveness, under FairSpec.  The changes and the failures are bounded, so  *)
(* in every behaviour storage is eventually quiet and reachable.           *)
(***************************************************************************)

\* Files uploaded directly to storage are discovered without any request, by
\* the periodic sync alone, even if the bootstrap failed: eventually every
\* stored key is and stays registered, in the first bucket that has it or in
\* a better-ranked one.
Discovered ==
    <>[](\A k \in Keys :
             Holders(k) # {} =>
                 where[k] # NoBucket /\ where[k] <= Least(Holders(k)))

\* A failed or overtaken manifest write is repaired: eventually the manifests
\* in storage are, and stay, those of the catalog.
ManifestsConverge ==
    <>[](\A b \in Bucket : manifest[b] = {k \in Keys : where[k] = b})

\* The duplicate count converges to the number of keys in several buckets,
\* although the bootstrap's sync and the periodic one overwrite each other's.
DuplicatesConverge ==
    <>[](dupCount = Cardinality({k \in Keys : Cardinality(Holders(k)) > 1}))
=============================================================================
