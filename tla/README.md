# A TLA+ verification of parparchik

parparchik is a routing service in front of S3 buckets. It keeps an in-memory
catalog that says which bucket owns which key, answers requests with a redirect
to the owning bucket, and reconciles the catalog with the storage: at startup,
by a periodic sync, and whenever a request meets an unknown or stale route. The
catalog is persisted as one JSON manifest per bucket.

This directory models the Go implementation (`golang/`). All paths below are
relative to `golang/`.

## Inventory

| Component | State | Operations | Correct when |
|---|---|---|---|
| `internal/catalog` | `byKey`, `byRoute` under one RWMutex | Register, Set, Remove, Clear, LoadManifests, lookups | both maps agree; the best-ranked claim owns a key; a load loses no item |
| `internal/resolver` | `duplicateCount`; shares catalog and storage | Bootstrap, SyncRegistry, PersistManifests, ResolveRoute, ResolveMissingFile, resolveMissingFileByType, Relocate, proxy and virtual routes | a present file is found; an answer names the right bucket; the conflict rule holds; manifests and counts converge |
| `internal/proxycache` | none | Fetch | body, not found and error are told apart |
| `cmd/parparchik` | goroutines, context | run, bootstrap, periodicSync | becomes ready after the first sync; syncing never stops |
| `internal/httpapi` | `ready`, rate limiters | handlers, middleware, eviction loop | no route is served before ready, nothing but a probe without a key; no client exceeds its budget; idle clients are forgotten |
| `internal/objectstore` | the S3 client | HEAD, list, get, put, delete, URLs | errors and absence are told apart |
| `internal/config` | immutable `Config` | Load, lookups | ranks are total; virtual members exist; a malformed token never weakens what was configured |
| `internal/metricsapi` | gauges | Update, Handler | a scrape shows one state of the catalog, or what overlapping scrapes computed |
| `internal/cleanup` | none | Plan, Execute | the budget is met, the newest survive, and nothing else is deleted |
| `internal/snapshot` | none | Capture, Marshal, Unmarshal, Restore | Restore(Capture(c)) is c |
| `internal/replication` | none | Pull | pulled, skipped and failed partition the remote's keys |
| `internal/webhook` | subscribers | Register, Fire | the report covers every subscriber; Fire returns; a cancelled Fire winds down |
| `internal/policy`, `scan` | audit log | Evaluate, Record, Entries | nothing forbidden is allowed without a waiver, and the log tells why for ever |
| `internal/authz` | none after construction | role checks | a pure function of principal and action |
| `internal/reporting`, `license`, `sbom`, `format/*` | none | parsing, formatting | pure functions of one document |

How they interact. A request goroutine, the bootstrap goroutine and the
periodic sync goroutine call the resolver concurrently. The resolver takes the
catalog's lock once per catalog call and none across calls, and makes storage
calls in between; the storage is also written by others. Nothing serialises two
`PersistManifests`. Cleanup, snapshot and replication are library jobs over the
same catalog and the same storage, with the same locking. Webhooks, the policy
engine, the retention rule, the request gateway and the configuration share no
state with the catalog; a scrape of the metrics only reads it. A kill loses catalog, counters and running requests; the
manifests and the files stay.

What is hard, and a test hardly reaches: a key that moves between a HEAD, the
`Set`, the manifest writes and the last `Lookup`; a search that asks bucket
after bucket while the file moves; a sync that runs through the bootstrap's
`Clear`; one failed call among many; manifests written out of order; a restart
on stale manifests; a catalog entry that outlives its object; a job that works on
a plan, a document or a remote listing that has been overtaken; a rate limiter
used after it was evicted; a subscriber that times out while the caller gives up. `PROJECT.json`
lists every one of these with its line and the properties that watch it.

## Modules

| Module | Models | On top of |
|---|---|---|
| `Registry` | what the catalog promises: one owner per key | |
| `Catalog` | `catalog.go` method by method, `LoadManifests` step by step | implements `Registry` |
| `Resolver` | `resolver.go` for hosted buckets, the handlers, `main.go` | `Registry` as its catalog |
| `ProxyRoutes` | proxy and virtual repositories | `Resolver` |
| `Maintenance` | `cleanup.Execute`, `snapshot.Capture`, `snapshot.Restore` beside requests and sync | `Registry` as its catalog |
| `Replication` | `Puller.Pull`, its client and the remote | `Maintenance` |
| `Retention` | `cleanup.Rule.Plan` | |
| `Gateway` | authentication, rate limiter, readiness, `cleanupLoop` | |
| `Webhook` | the subscriber registry and `Dispatcher.Fire` | |
| `Policy` | `policy` and `scan`: ruleset, waivers, engine, audit log | |
| `Configuration` | `config.Load` and the lookups | |
| `Metrics` | `handleMetrics` and `Metrics.Update` | |
| `CatalogProofs`, `ResolverProofs`, `ReplicationProofs`, `MetricsProofs`, `ConfigurationProofs` | theorems about the module named | that module |
| `ProxyProofs` | theorems about `ProxyRoutes` | `ResolverProofs` |
| `EdgeProofs` | theorems about `Gateway` and `Webhook` | both |
| `RuleProofs` | theorems about `Policy` and `Retention` | both |
| `MCCatalog`, `MCResolver`, `MCProxyRoutes`, `MCReplication`, `MCComponents` | small instances | |

The layering is what makes the checks affordable and sound: `Resolver` uses the
owner of a key only, and `Catalog` is proved to implement exactly that view
(`CatalogImplementsRegistry`), for the routes that `LookupByRoute` serves.

A definition marked "faulty" in a comment is not part of any specification: it
is a plausible bug of the definition that follows it, and the property it is
paired with in `PROJECT.json` rejects it.

### Catalog

Variables `byKey` and `byRoute` are the two maps. Each method is one action, as
each holds the lock throughout; only `LoadManifests` is split, into its `Clear`
(action `LoadManifests`), one `LoadItem` per item, `NextManifest` and
`LoadDone`, since it releases the lock between them. `claims`, `wanted` and
`touched` are history variables that only the properties read: who registered a
key since it was last placed, removed or cleared; the items of the running
load; the keys other methods touched during it.

Abstractions: a route is the pair of bucket and key (bucket names have no
slash); size, timestamp and bucket type are left out, since no method decides on
them; a manifest's content is one of four forms, of which only the two JSON
shapes `decodeManifestFiles` accepts yield items.

### Resolver

`where` is the catalog, `objs` and `manifest` are the storage, `t` gives each
process its program counter and locals. There is one step per storage call and
one per critical section of the catalog:

| Code | Actions |
|---|---|
| `handleDownload`, `handleUpdate`, `handleRelocate` and the catalog lookup they begin with | `Request` |
| `Exists` | `CheckExists` (an error counts as absence) |
| the HEAD loops of the three searches | `Scan` (an error ends the request) |
| `Set` after a hit; `Remove` after none | `PlaceHit`, `DropKey` |
| `PersistManifests`: `ManifestForBucket`, `PutObject`, per bucket | `ReadManifest`, `PutManifest` |
| the last `Lookup`, route comparison and answer | `Answer` |
| `SyncRegistry` | `Tick`, `ListObjects`, `RegisterListed`, `CountDuplicates`, then the persist steps |
| `Bootstrap` | `FetchManifest`, `ClearCatalog`, `LoadItem`, then the sync steps, `SetReady` |
| process killed and started again | `Crash` |
| other writers of the storage | `Upload`, `Delete` |

Abstractions: buckets with storage are numbered in configuration order; the
listing of one bucket is atomic (S3 pages are not told apart); a cancelled
context is a failed storage call; the fields `relocated_from`, `relocated_to`
and `duplicate` of the relocate response are left out; manifests name their own
bucket only, as `PersistManifests` writes them (`Catalog` covers the others); no
bucket is literally named `public` or `private`; key validation and URL signing
happen before and after, without state.

History variables: `steady` (objects present since the process started),
`fresh` and `calm` (requests that overlap no change of storage and no operation
begun before one), `taken` (keys last placed by a request by visibility).

### ProxyRoutes

Adds `expired` (cached objects older than the TTL), `upstream` (keys it has) and
`member` (the position in the virtual repository). Cache buckets are ordinary
buckets to sync, bootstrap and searches, as in the code. `HeadCache`,
`FetchUpstream`, `StoreCache`, `ClaimResolved` and `ServeMember` are
`resolveProxyRoute`, `resolveHostedMemberRoute`, `registerResolvedObject` and the
member loop of `resolveVirtualRoute`; `KnownOrHosted` is the branch of
`ResolveRoute` that comes first and never reaches them.

### Maintenance and Replication

Here an entry of the catalog has a time as well as an owner (`stamp`), because
`alreadyUpToDate` decides on it; an object has a content and the time of its last
PUT. `exec`, `snap` and `pull` are the running jobs, with one step per storage or
HTTP call and per critical section:

| Code | Actions |
|---|---|
| `Execute`: `DeleteObject`, then `cat.Remove`, per victim | `PlanCleanup`, `DeleteVictim`, `RemoveVictim`, `ExecuteDone` |
| `Capture`: `ListAll`, then `ManifestForBucket` per bucket | `Capture`, `CaptureBucket`, `CaptureDone` |
| `Restore`: `Clear`, then one `Register` per item | `Restore`, `RestoreItem`, `RestoreDone` |
| `Pull`: `FetchManifest`, then per entry the check, the two requests of `FetchObject`, `PutObject`, `Register` | `FetchManifest`, `CheckEntry`, `GetRoute`, `fetchRedirectTarget`, `PutPulled`, `RegisterPulled`, `PullDone` |
| the effects of requests and sync on the catalog; other writers | `RegisterListed`, `PlaceFound`, `DropMissing`, `Upload` |
| the remote instance and its own sync (external) | `RemoteUpload`, `RemoteDelete`, `RemoteSync` |

Which victims `Execute` gets is left open (any set of entries), so its properties
hold for every rule; what `Plan` picks is the matter of `Retention`. The content
of a remote object is the time of its upload, so that "as new as listed" is a
comparison of contents. History: `before` (catalog and storage when a job began),
`touched` (keys others changed while it ran), `asked`, `deleted` and `restamped`
(see `PullDelivers`). Abstractions: encoding a snapshot as JSON and reading it
back keeps every field a restore uses, so the document is passed on as it is; the
size limits of the client are among its errors.

### Gateway

`clientEntries` and `tokens` are `ipRateLimiter.clients` and the limiters, kept
apart because a request holds a limiter beyond its entry. `allow` is two steps,
`Lookup` under the lock and `Take` after it; `Sweep` is one turn of `cleanupLoop`,
whose cutoff is older than its lock by up to `Gap`. `Arrive`, `Authenticate`,
`requireReady` and `Handle` are the order in which `Routes` composes the
middlewares. There are three kinds of paths: the probes, outside of all of them;
the routes, each wrapped in `requireReady`; and whatever matches no route, which
passes authentication and the limiter and then goes to `handleNotFound` without
`requireReady`. Only the inner mux, behind the middlewares, tells the last two
apart, so the model chooses between them there. Time is discrete and an entry holds its age
(capped once it no longer matters). `ideal`, a history variable, is what would be
left in a limiter that had existed from the start. How a client address is read
off a request is left out.

`GatewayAssumption` requires `Burst <= Rate * (Idle - Gap)`: a limiter refills
within the idle timeout. The shipped defaults satisfy it by far; see Known limits
for what happens otherwise.

### Webhook

`subscribers` is the registry, `fire` a call of `Fire` (the actions `Fire`,
`Collect`, `Return`), `delivery` its goroutines (`attempt`, `CheckAndBackoff`). An
attempt fails with or without effect at the subscriber, which `got` records.
Signing, headers and the length of the back-off are left out.

### Retention

`Plan` marks what is too old and begins the walk of `MaxTotalSize`; `Visit` is one
turn of a loop over sorted keys, `NextGroup` the next package group of
`MaxVersionCount`, `PlanReturns` the result. Both budgets are met by the same loop:
`walk` holds the keys still to visit, the total of what is not evicted and its
limit; a walk over all keys counts bytes, one over a group counts entries. The order
of keys without a time and of the groups is left open, as `sort.Slice` and Go's
maps leave it. A threshold of 0 or less disables its rule. `PlanExact` compares the
result with what each rule means for one entry.

### Policy

`Evaluate` is a call up to `Record`, which is a step of its own because calls
overlap. Reasons are references into `arrays`, so that a caller or reader who
writes to a slice (`Scribble`) writes to whatever shares it. A name stands for
ecosystem and name, a reason for its rule and decision; the OSV answer is its
severities or the way it is unusable.

### Configuration

A variable is the sequence of its tokens, a token the record of its parts; a
number either parses or does not. A parser that skips tokens keeps those at some of
the indices, in order (`Kept`). `Load` applies the checks, and the lookups
(`FirstNamed`, `BucketPriority`, `IsPublic`) are the ones requests use. The
properties compare these lookups with the environment itself: `StorageNames` is the
names of hosted buckets and proxies in the order in which the variables list them.

### Metrics

`volumeFiles` and `scalars` are the gauges, `scrape` the scrapes in flight. One
step per catalog read and per operation on a gauge: `ListAll`, `DuplicateCount`,
`Reset`, then `WithLabelValues` (a new label begins at 0) and `SetVolume` per
volume, `SetScalar`, and `Gather`, which renders the volumes and the other gauges
in either order. A label that another scrape resets before it is set is detached:
the value is lost. `Relist` stands for everything that changes the catalog. The
gauges are the Prometheus library's, external and modelled by what they do.

## Runs

Passing runs (states are distinct states):

| Run | Instance | Shows |
|---|---|---|
| `Catalog` | 2 keys, 4 buckets (two tied), 4 manifest lists; 23 thousand | `TypeOK`, `RouteIndex`, `BestClaimOwns`, `LoadComplete`, `ImplementsRegistry` |
| `ResolverRequests` | 2 requests, 2 changes of storage (a move); 453 thousand | `RouteRule`, `CalmAnswer` |
| `ResolverRestart` | 1 request on any endpoint, the sync, one change, one failed call, one restart; 1.2 million | `TypeOK`, `SteadyWins`, `CalmAnswer` |
| `ResolverLive` | fairness; 1 request, the sync, one change, one failed call; 323 thousand | `Discovered`, `ManifestsConverge`, `DuplicatesConverge` |
| `ProxyRoutes` | hosted, proxy and virtual repositories; 1 request, change, failed call and restart; 647 thousand | `VirtualServesFresh`, `SteadyWins`, `RelocateDurable`, `ServedExists` |
| `ProxyPair` | the same with 2 requests on quiet storage; 671 thousand | `NeverShadowed`, `ServedExists` |
| `Maintenance` | 2 keys, 2 buckets, 2 jobs of any kind, 1 change, 1 failed call, a remote that changes; 1.4 million | `TypeOK`, `ExecuteExact`, `RoundTrip`, `PullDelivers` |
| `Components` | one component per behaviour, see below; 573 thousand | `GatewayTypeOK`, `WithinBudget`, `Guarded`, `IdleEvicted`; `WebhookTypeOK`, `ReportComplete`, `CancelBounded`, `FireReturns`; `PlanExact`, `BudgetMet`; `AuditTruthful`, `BinaryLikeScan`; `MembersServe`, `RanksAsConfigured`, `TTLEffective`, `PrivateStays`; `ScrapeTruthful` |

Every resolver run starts from every set of files and every content of the manifests, so
stale, missing and contradicting manifests need no history to arise.

Bounds and why they are enough. The resolver runs have one key: processes
interact through the entry and the objects of one key, and a manifest is written
as a whole from the catalog, so a second key adds no new conflict to these
properties (`Catalog`, where keys share the route index, has two). Two buckets
give a better and a worse one; the proxy runs have a middle one between hosted
buckets. Two changes are a move (copy and delete), the shortest thing a search
can miss. One failed call and one restart may happen at every point. Two
concurrent requests, and a request with the sync and the bootstrap, cover the
pairs of actors that share a catalog entry. Workers are interchangeable, and so
are keys (the symmetry sets, used in safety runs only).

`Maintenance` has two keys, one that begins in every state and one pulled before,
so that a job has an item before and an item after the one that goes wrong. Two
jobs overlap in every pair, also with themselves one after the other; two times
are an old and a new remote object; bucket 2 outranks the bucket pulled into, and
one key is listed without a time.

`Components` composes the six modules that share no state: `topic` says which
one a behaviour exercises, and the others rest. Only the gateway's clock and its
eviction loop also run beside the webhooks, as they do in the process. The
instances: one client with two requests in flight (two first requests, or one
that outlives its entry), rate 1, burst 2, idle timeout 3 and delays of 1, which
is the smallest burst above one that the timeout refills; one `Fire` with two
subscribers and two attempts, and two event types; three entries with sizes and
times 0 to 2, so that they tie, weigh nothing or have no time, under every
combination of rules (one package group, since groups do not influence each other;
the theorems are about any number); two overlapping evaluations, with waivers that are expired,
about to expire and unlimited; lists of up to two tokens that reuse names, lack
parts and name virtual members; two scrapes, overlapping or not, around one
change of a catalog with two files.

`CHECK_DEADLOCK FALSE` is set where the service may really come to rest: without
a sync interval, a bootstrap that failed is never retried and every request is
turned away; all jobs of `Maintenance` end; a plan, an evaluation and a load
return, and scrapes are bounded. The runs in which that cannot happen check deadlock.

Violated runs, each a place where the code and its documentation disagree; the
findings in `PROJECT.json` quote both:

| Run | Property | What happens |
|---|---|---|
| `ZeroEntry` | `FoundIsReal` | a found file is answered with an empty entry |
| `RelocateLost` | `RelocateDurable` | with two requests, an older manifest overwrites a relocate's |
| `ExpiredServed` | `ExpiredNotServed` | the TTL is not looked at on a known proxy route |
| `ReplicaSkipped` | `SkipsUnchanged` | a pulled object that the sync registers with its local time hides a newer remote one from every later pull |

`RelocateDurable` holds for one request at a time without the periodic sync and is
violated for two;
`VirtualServesFresh` and `ExpiredNotServed` are the same demand on the two ways
to a cached object; `PullDelivers` is `SkipsUnchanged` without the keys that a
sync or a request restamped. The passing and the violated run of each mark the limit.

## Known limits

Behaviours of the code that follow from the modelled steps and that a reader of
its documentation might not expect, or that its documentation denies; no property
claims the contrary.

- A sync never removes an entry or moves it to a worse bucket, so an entry whose
  object is gone or was moved down stays until a request asks for it, although
  `main.go` says that the sync "keeps the catalog reconciled".
- A file that is moved against the search order while a request looks for it is
  reported missing, although it "genuinely does not exist" at no moment.
- `GET /private/<key>` (or `/public`) searches some of the buckets and yet
  overwrites the owner (`resolveMissingFileByType`, `Set`), so for a while the
  key belongs to a worse bucket than the best that holds it. `SteadyWins` names
  this exception, and shows that there is no other and that it ends with the
  next sync or full search.
- The answer to such a request is what `Lookup` says last, which may by then be
  a bucket of the other visibility.
- Bootstrap keeps manifest records whose objects do not exist, until a request
  asks for them.
- A proxy route that the catalog knows and whose object is gone is answered 404
  once; the upstream is asked by the next request.
- A stale entry of better rank hides a file from a virtual repository, because
  `registerResolvedObject` does not check the owner it finds.
- `Execute` removes by key: a victim that moved to another bucket after the plan
  is deleted in the old one and forgotten in the new one, until the next sync.
- A snapshot is taken bucket by bucket: a key that moves meanwhile may be in it
  twice or not at all. `RoundTrip` is about the other keys.
- After a cancellation a subscriber may contribute fewer than `MaxAttempts`
  entries to the report of `Fire`; a failed attempt may have been processed.
- Audit entries are appended in the order of `Record`, not of their times, when
  evaluations overlap.
- Findings of unknown severity never deny or quarantine.
- A scrape that overlaps another may miss volumes, or show them as 0.
- With a burst above what the rate refills in ten minutes, an evicted client
  comes back with a full limiter; a burst of 0 refuses everything. `Load` accepts
  both, and zero or negative rates and intervals.
- `PARPARCHIK_BUCKETS=","` is accepted as a service without buckets.
- A virtual repository or proxy with the name of an earlier bucket is accepted
  and never reached; its ttl and visibility have no effect. `TTLEffective` is about
  the proxies that are the first of their name.
- A request that matches no route is answered 404 although the service is not ready:
  `Routes` registers `handleNotFound` without `requireReady` (`api.go:94`), while the
  comment on `SetReady` (`api.go:70`) says that readiness is "required by every other
  handler". `Guarded` is about the routes and makes this exception.
- `GET /<bucket>/<key>` for a file that the search finds in another bucket only
  registers the file there and is answered 404 (`resolver.go:222` and `:250`). The
  comment at `resolver.go:442` wants this ("route/priority mismatch = 404, never serve
  the wrong bucket's content"), and `RouteRule` states it in both directions. The
  documentation says the contrary: `docs/index.md:141`, "checks buckets in priority
  order, serves the found route", and the flowchart above it (`docs/index.md:99`),
  which leads from "Found in any bucket?" through "Register file" to the redirect. So
  a file that two buckets hold is served by the route of the better one only.

## Fairness

`Resolver`'s `FairSpec` assumes weak fairness of every process: goroutines are scheduled,
storage calls return (S3 clients have timeouts, and the bootstrap context has
one), and the ticker keeps firing. Nothing is assumed of clients, other writers
or crashes. The bounds on changes and failures make the storage eventually quiet
and reachable, which is the premise of every convergence claim.

`GatewayFairness`: time passes, the eviction goroutine is scheduled, and a request
in flight is served. Nothing makes clients stop or come back, and `Close` may end
the loop. `WebhookFairness`: the goroutines of `Fire` are scheduled, and each
attempt and each sleep ends (the HTTP client has a timeout and the back-off is
bounded). No subscriber is assumed to answer. The jobs of `Maintenance` are
started by a caller, so nothing is assumed of them.

## Proofs

`CatalogProofs` proves, for every set of keys and buckets, every ranking (ties
included) and every list of manifests, from `CatalogAssumption` alone:

- `TypeCorrect`, `RoutesConsistent`, `PriorityWins`, `LoadIsComplete`: the four
  invariants of run `Catalog`;
- `CatalogImplementsRegistry`: `Catalog` implements `Registry` under the mapping
  `RouteOwner`.

The inductive invariant `IndInv` is `TypeOK`, `RouteIndex`, `BestClaimOwns` and
`LoadInv`. `RouteIndex` needs the types to know that the route deleted by a move
is that of the entry replaced, and no other. `LoadComplete` is about the end of a
load only and is not inductive; `LoadInv` says of every moment that a wanted item
is still pending, or touched, or already registered at its bucket or a better
one. Lemmas about `Pending` say that taking an item off the list removes that
item and no other. There is one lemma per action. For the refinement,
`RouteOwnerIsOwner` shows that under the invariant the owner read off the routes
is that of the entries, which turns every method into its abstract action.

`ResolverProofs` is about `Spec` of `Resolver`, for every number of buckets, keys,
requests, changes, failed calls and restarts; the keys are finitely many.

- `ResolverTypeCorrect`: `TypeOK`. Its invariant `TypeInv` says for each program
  counter what the locals of a process can be: that a loop has a bucket left when it
  takes a turn, that a hit is among the buckets the request searches, that an answer
  for a route names its bucket.
- `SteadyFilesWin`: `SteadyWins`. The property speaks of the ready service only
  and is far from inductive. `SteadyInv` adds what makes it so: a search has not
  passed a bucket that holds a steady object (`SearchOK`), a sync has registered
  the steady objects of the buckets it is done with (`SyncOK`), the keys a process
  has promised are settled, nobody serves before the service is ready, and a ready
  service has finished its bootstrap. Each restart makes all of it begin again.
- `RoutesAreRuled`: `RouteRule`, a property of the step that answers. `TypeInv` gives
  its first half. For the second, `HitInv` says that a search which is over, also
  while the manifests are written, has missed no steady file; so a route with a
  steady file is refused for what the catalog says and not for what the search did
  not see, and by `SteadyInv` the catalog then names a better-ranked bucket.
- `CalmAnswersAreRight`: `CalmAnswer`. `CalmInv` relates each search and each
  listing of a calm process to the present storage (`FreshSearch`, `FreshListing`),
  and then the placed owner and the answer. The theorem assumes `OneByOne`: either
  there are no searches by visibility, or one request at a time. Without it the
  property is false: an overlapping `GET /private/<key>` gives the key to a worse
  bucket between `Set` and `Lookup` (see Known limits); TLC finds that behaviour.

`ProxyProofs` is about `ProxySpec` of `ProxyRoutes`, for every choice of proxies and
members as well. A process of that module takes steps of `Resolver` and steps of its
own, so the step lemmas of `ResolverProofs` allow the program counters and requests
of both, and each new action gets one such lemma here.

- `VirtualIsFresh`: `VirtualServesFresh`. `ProxyInv` is `TypeInv` with three
  additions: only cached objects that exist are expired, and what is old for a
  request has expired (`ExpiryInv`); a request on its way to a cache knows its
  bucket (`CacheOK`); and what a virtual request is about to claim, persist or
  serve is not old for it (`YoungInv`), which its `HEAD` established and no later
  step undoes. `ExpiredNotServed`, the same demand on the route of a proxy, is
  violated: a known route takes `CheckExists`, which does not ask for the age.
- `SteadyFilesWinOverCaches`: `SteadyWins` with the proxy steps. `SteadyInv` is
  inductive here too, because `registerResolvedObject` claims and never places.
- `ServedIsNeverShadowed`: `NeverShadowed`. `RankInv` follows the bucket under
  check and the one in the answer, and rests on `SteadyInv`. It assumes that there
  are no searches by visibility, whose placing of a key in a worse bucket is
  the exception `SteadyWins` makes.
- `ServedFilesExist`: `ServedExists`. `RealInv` says that what a request or the
  sync has found is in storage, and what the catalog may say of a key between `Set`
  and `Lookup`: any bucket that has the file, or, for a route only, none. It assumes
  `RoutesOrOneByOne`: only routes and virtual requests overlap. Otherwise TLC finds
  a relocate that is answered with the zero entry on unchanged storage, because
  another one looked before a cache was filled and removes the key afterwards.
- `RelocatesAreDurable`: `RelocateDurable`. `DurableInv` says that a relocate which
  persists has written the buckets it is done with, unless a write failed. It
  assumes one request at a time and no periodic sync. Both are needed: either of
  them may write an older manifest over the relocate's (run `RelocateLost`).

`ReplicationProofs` is about `ReplicationSpec`, the puller with the jobs of
`Maintenance` beside it, for all keys, buckets, ranks, numbers of jobs, changes
and failures (`MaxTime` is positive). It proves `ReplicationTypeCorrect`,
`ExecuteIsExact` (`ExecuteExact`), `RestoreBringsBack` (`RoundTrip`) and
`PullsDeliver` (`PullDelivers`). These properties compare the end of a job with
its beginning, so the invariant says for each key, at every moment of a job, in
which of its stages it is: `ExecInv` (not yet deleted, deleted and not yet
forgotten, done), `SnapInv` (captured or still to capture; restored or still in
the document), `PullInv` (listed and still to do, in one of the steps of
`FetchObject`, stored, or accounted for), on top of types and the facts that times
only grow (`DataInv`, `JobInv`, `RemoteInv`). TLC checked the whole invariant
before it was proved, on the instance of run `Maintenance` (1.4 million states) and
on a larger one (8.8 million).

`EdgeProofs`, on `Gateway`, from `GatewayAssumption`: `GatewayTypeCorrect`, `BudgetIsKept`
(`WithinBudget`) and `HandlersAreGuarded` (`Guarded`), for finitely many clients
and requests in flight. `WithinBudget` needs to know that an eviction gives nothing
away: `ClientInv` bounds the tokens of a limiter by the ideal ones, and the ideal
ones from below by the age of the entry, so that an entry old enough to be evicted
belongs to a client whose budget is full. `RequestInv` says that a request between
`Lookup` and `Take` holds the limiter its client still has, and what a request at a
handler has passed: nothing for a probe, the key for an unmatched path, the key and
the readiness check for a route.

`EdgeProofs`, on `Webhook`: `WebhookTypeCorrect`, `ReportIsComplete` (`ReportComplete`) and
`CancelIsBounded` (`CancelBounded`), for every number of callers, subscribers and
attempts and every nonempty set of event types. The invariant ties the deliveries
of a call to the subscribers that were known when it began and want the event, and
each delivery's outcome to its attempts and to the cancellation.

`RuleProofs`, on `Policy`, from `PolicyAssumption`: `AuditIsTruthful` (`AuditTruthful`) and
`RulesetIsBinary` (`BinaryLikeScan`), for every ruleset, waiver list and number of
overlapping evaluations. That no caller can rewrite history is a matter of
aliasing: the invariant says that each entry of the log refers to an array of its
own, which no call and no other entry shares, and that this array tells the whole
story of the decision.

`RuleProofs`, on `Retention`: `PlanAlwaysExact` (`PlanExact`) and `BudgetsAlwaysMet`
(`BudgetMet`), for every finite catalog, every rule and any number of groups.
`RetentionAssumption` says that keys and times are naturals and thresholds integers.
`PlanExact` is about the end only. `RetentionInv` adds what holds during a walk
(`WalkOK`: its total is the weight of all that it has not evicted, what it has visited
is older than what it has not, and each entry it evicted was over the limit at its
turn), of the groups not yet ranged over (`GroupsOK`), and of the entries marked so far
(`MarkedOK`: those that are too old, those of the finished walks and those of the
present one). The walk is over for an entry exactly if what is left without the older
ones fits, which is the declarative rule. Sums of sizes are the difficulty: a lemma
shows, by a minimal counterexample among the subsets of the catalog, that the total is
the number of bytes in a set, so that facts about cardinalities apply. `BudgetMet`
follows from `PlanExact` by looking at the oldest survivor. TLC checked `RetentionInv`
before it was proved, on 3 keys, 2 groups and thresholds that include -1 and 0 (1.25
million states).

`ConfigurationProofs`: `MembersAlwaysServe`, `RanksAlwaysAsConfigured`,
`TTLAlwaysEffective` and `PrivateAlwaysStays` (`MembersServe`, `RanksAsConfigured`,
`TTLEffective`, `PrivateStays`), for every environment; `EnvironmentAssumption` says
that the variables are sequences of tokens. `ConfigurationInv` says of an accepted
configuration that it is the hosted buckets, the proxies and the virtual repositories,
in this order, and that the members passed the check. `KeptFacts` shows that `Kept`
lists the elements it keeps, each once and in order. `MembersServe` is where the
argument is: the check finds the last bucket of a name and requests find the first. If
the last one has storage, the first one comes no later, and virtual repositories come
after all others, so the first one has storage too. For ranks and ttls, `Place` maps
each bucket with storage to the token that lists it; it is increasing and misses no
token that counts (`PlaceFacts`), so the first bucket of a name is the one of the
token that lists the name first (`FirstListed`).

`MetricsProofs`: `ScrapesAreTruthful` (`ScrapeTruthful`), for every number of
overlapping scrapes of a finite catalog. The gauges are shared, so the invariant
says of every value on them that a scrape in the company of each rendering scrape
computed it, and of a scrape that is alone that what is set so far is its own.

Only model-checked: liveness under fairness (`Discovered`, `ManifestsConverge`,
`DuplicatesConverge`, `IdleEvicted`, `FireReturns`), which is out of the prover's
reach. Every invariant of a passing run has a theorem; where a theorem has a
hypothesis (`OneByOne`, `RoutesOrOneByOne`, no searches by visibility, no periodic
sync), the paragraph above says why it is needed.

## Plan

1. Done: `Registry`, `Catalog` and its proofs, `Resolver`, `ProxyRoutes`.
2. Done: `Maintenance`, `Replication`, `Retention`, `Gateway`, `Webhook`, `Policy`,
   `Configuration`, `Metrics`.
3. Done: proofs for every value of the constants about `Webhook`, `Gateway`,
   `Metrics`, `Policy`, `Resolver`, `Maintenance` and `Replication`.
4. Done: proofs about `ProxyRoutes`, on top of those about `Resolver`.
5. Done: proofs about `Retention` and `Configuration`.

## Not modelled

Authorisation compares a principal's roles with a policy that is fixed at
construction: no operation changes state, and the function is its own
specification. Reporting, licence detection, SBOM export and the package
formats parse and format single documents and keep no state. URL signing, metrics
exposition, the shell scripts and the documentation server are I/O. A graceful
shutdown is not told apart from a crash that happens between requests.
