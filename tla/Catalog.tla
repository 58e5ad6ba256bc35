------------------------------- MODULE Catalog -------------------------------
(***************************************************************************)
(* The in-memory file registry, internal/catalog/catalog.go: two maps      *)
(* under one RWMutex, byKey (key -> entry) and byRoute (route -> key).     *)
(* Every method holds the lock for its whole body, so every method is one  *)
(* action, except LoadManifests: it calls Clear and then Register once per *)
(* item, releasing the lock in between, so other methods may run between   *)
(* its steps.                                                              *)
(*                                                                         *)
(* A route "/" + bucket + "/" + key is the pair <<bucket, key>>: a bucket  *)
(* name has no slash, so the pair can be read back from the string.  The   *)
(* size, the timestamp and the bucket type of an entry are left out: no    *)
(* method decides anything on them.                                        *)
(***************************************************************************)
EXTENDS Naturals, Sequences

CONSTANTS
    Keys,           \* the object keys
    Buckets,        \* the bucket names, configured or found in a manifest
    Priority,       \* bucket -> rank: config.BucketPriority
    NoKey,          \* the empty key of a malformed manifest item
    NoBucket,       \* the empty bucket of a manifest item; no owner
    ManifestLists   \* the arguments LoadManifests may be called with

Routes == Buckets \X Keys

Items == [key : Keys \cup {NoKey}, bucket : Buckets \cup {NoBucket}]

\* The content of a manifest object: absent or empty, not JSON, the
\* {"files": [...]} envelope, or the older bare array.
Forms == {"absent", "garbled", "envelope", "array"}

BucketManifest == [bucket : Buckets, form : Forms, files : Seq(Items)]

ASSUME CatalogAssumption ==
    /\ Priority \in [Buckets -> Nat]
    /\ NoKey \notin Keys
    /\ NoBucket \notin Buckets
    /\ ManifestLists \subseteq Seq(BucketManifest)

VARIABLES
    byKey,      \* partial function: key -> [key, bucket, route]
    byRoute,    \* partial function: route -> key
    loading,    \* a LoadManifests call is between its Clear and its return
    load,       \* the manifests that call has still to apply
    \* History, read by the properties only:
    claims,     \* per key, the buckets registered since it was last reset
    wanted,     \* <<key, bucket>> of every valid item of the last load
    touched     \* keys Set, Removed or Cleared since the last load began

index == <<byKey, byRoute>>
history == <<claims, wanted, touched>>
vars == <<byKey, byRoute, loading, load, claims, wanted, touched>>

Entry == [key : Keys, bucket : Buckets, route : Routes]

\* f with x mapped to v, and f without the arguments in S: a map
\* assignment and a delete.
With(f, x, v) == [y \in DOMAIN f \cup {x} |-> IF y = x THEN v ELSE f[y]]
Without(f, S) == [y \in DOMAIN f \ S |-> f[y]]

routeFor(b, k) == <<b, k>>

EntryFor(k, b) == [key |-> k, bucket |-> b, route |-> routeFor(b, k)]

\* The route a new entry of k replaces, if k is registered.
OldRoute(k) == {byKey[x].route : x \in DOMAIN byKey \cap {k}}
-----------------------------------------------------------------------------
(***************************************************************************)
(* LookupByRoute goes from the route to the key and from there to the      *)
(* entry, for a route that is indexed.  (Lookup is byKey[k].)              *)
(***************************************************************************)
LookupByRoute(r) == byKey[byRoute[r]]

-----------------------------------------------------------------------------
(***************************************************************************)
(* The state changes the methods are made of.                              *)
(***************************************************************************)

\* Delete the route of the old entry, then write the entry and its route.
\* (EnterNoDelete is a faulty variant that the properties must reject, and so
\* is every other definition marked "faulty".)
EnterNoDelete(k, b) ==
    /\ byKey' = With(byKey, k, EntryFor(k, b))
    /\ byRoute' = With(byRoute, routeFor(b, k), k)
Enter(k, b) ==
    /\ byKey' = With(byKey, k, EntryFor(k, b))
    /\ byRoute' = With(Without(byRoute, OldRoute(k)), routeFor(b, k), k)

\* The existing entry of k ranks strictly better than b.  (KeepsReversed:
\* faulty.)
KeepsReversed(k, b) ==
    /\ k \in DOMAIN byKey
    /\ Priority[b] < Priority[byKey[k].bucket]
Keeps(k, b) ==
    /\ k \in DOMAIN byKey
    /\ Priority[byKey[k].bucket] < Priority[b]

RegisterEntry(k, b) ==
    /\ IF Keeps(k, b) THEN UNCHANGED index ELSE Enter(k, b)
    /\ claims' = [claims EXCEPT ![k] = @ \cup {b}]

Empty == [x \in {} |-> x]

ClearIndex == byKey' = Empty /\ byRoute' = Empty
-----------------------------------------------------------------------------
(***************************************************************************)
(* The methods that change the registry, one action each.                  *)
(***************************************************************************)
Register(k, b) ==
    /\ RegisterEntry(k, b)
    /\ UNCHANGED <<loading, load, wanted, touched>>

Set(k, b) ==
    /\ Enter(k, b)
    /\ claims' = [claims EXCEPT ![k] = {b}]
    /\ touched' = touched \cup {k}
    /\ UNCHANGED <<loading, load, wanted>>

RemoveEntryOnly(k) ==   \* faulty
    /\ byKey' = Without(byKey, {k})
    /\ UNCHANGED byRoute
    /\ claims' = [claims EXCEPT ![k] = {}]
    /\ touched' = touched \cup {k}
    /\ UNCHANGED <<loading, load, wanted>>
Remove(k) ==
    /\ byKey' = Without(byKey, {k})
    /\ byRoute' = Without(byRoute, OldRoute(k))
    /\ claims' = [claims EXCEPT ![k] = {}]
    /\ touched' = touched \cup {k}
    /\ UNCHANGED <<loading, load, wanted>>

Clear ==
    /\ ClearIndex
    /\ claims' = [k \in Keys |-> {}]
    /\ touched' = Keys
    /\ UNCHANGED <<loading, load, wanted>>
-----------------------------------------------------------------------------
(***************************************************************************)
(* LoadManifests.                                                          *)
(***************************************************************************)
decodeManifestFiles(m) ==
    IF m.form \in {"envelope", "array"} THEN m.files ELSE <<>>

\* An item without a bucket belongs to the bucket its manifest is read from.
\* (ItemBucketRaw: faulty.)
ItemBucketRaw(m, it) == it.bucket
ItemBucket(m, it) == IF it.bucket = NoBucket THEN m.bucket ELSE it.bucket

\* The <<key, bucket>> pairs the list ms still has to register.
Pending(ms) ==
    UNION {{<<it.key, ItemBucket(m, it)>> :
                it \in {x \in {decodeManifestFiles(m)[j] :
                                   j \in DOMAIN decodeManifestFiles(m)} :
                            x.key # NoKey}} :
           m \in {ms[i] : i \in DOMAIN ms}}

LoadManifests(ms) ==
    /\ ~loading
    /\ ClearIndex
    /\ loading' = TRUE
    /\ load' = ms
    /\ claims' = [k \in Keys |-> {}]
    /\ wanted' = Pending(ms)
    /\ touched' = {}

\* One turn of the outer loop ends: the manifest at the head of the list has
\* no (more) files.
NextManifest ==
    /\ loading
    /\ load # <<>>
    /\ decodeManifestFiles(Head(load)) = <<>>
    /\ load' = Tail(load)
    /\ UNCHANGED <<index, loading, history>>

\* One turn of the inner loop: an item without a key is skipped, any other
\* is registered.  (BreakOnEmptyKey: faulty.)
BreakOnEmptyKey ==
    /\ loading
    /\ load # <<>>
    /\ LET m == Head(load)
           files == decodeManifestFiles(m)
       IN  /\ files # <<>>
           /\ LET it == Head(files)
              IN  IF it.key = NoKey
                  THEN /\ load' = Tail(load)
                       /\ UNCHANGED <<index, claims>>
                  ELSE /\ load' = [load EXCEPT ![1].files = Tail(files)]
                       /\ RegisterEntry(it.key, ItemBucket(m, it))
    /\ UNCHANGED <<loading, wanted, touched>>
LoadItem ==
    /\ loading
    /\ load # <<>>
    /\ LET m == Head(load)
           files == decodeManifestFiles(m)
       IN  /\ files # <<>>
           /\ load' = [load EXCEPT ![1].files = Tail(files)]
           /\ LET it == Head(files)
              IN  IF it.key = NoKey
                  THEN UNCHANGED <<index, claims>>
                  ELSE RegisterEntry(it.key, ItemBucket(m, it))
    /\ UNCHANGED <<loading, wanted, touched>>

LoadDone ==
    /\ loading
    /\ load = <<>>
    /\ loading' = FALSE
    /\ UNCHANGED <<index, load, history>>
-----------------------------------------------------------------------------
\* catalog.New.
Init ==
    /\ byKey = Empty
    /\ byRoute = Empty
    /\ loading = FALSE
    /\ load = <<>>
    /\ claims = [k \in Keys |-> {}]
    /\ wanted = {}
    /\ touched = {}

LoadStep == NextManifest \/ LoadItem \/ LoadDone

Next ==
    \/ \E k \in Keys, b \in Buckets : Register(k, b)
    \/ \E k \in Keys, b \in Buckets : Set(k, b)
    \/ \E k \in Keys : Remove(k)
    \/ Clear
    \/ \E ms \in ManifestLists : LoadManifests(ms)
    \/ LoadStep

Spec == Init /\ [][Next]_vars
-----------------------------------------------------------------------------
(***************************************************************************)
(* Properties.                                                             *)
(***************************************************************************)

\* Every variable has its type: the two maps are partial functions of the
\* declared ranges, and the loader holds a list of manifests.
TypeOK ==
    /\ DOMAIN byKey \subseteq Keys
    /\ \A k \in DOMAIN byKey : byKey[k] \in Entry
    /\ byKey = [k \in DOMAIN byKey |-> byKey[k]]
    /\ DOMAIN byRoute \subseteq Routes
    /\ \A r \in DOMAIN byRoute : byRoute[r] \in Keys
    /\ byRoute = [r \in DOMAIN byRoute |-> byRoute[r]]
    /\ loading \in BOOLEAN
    /\ load \in Seq(BucketManifest)
    /\ claims \in [Keys -> SUBSET Buckets]
    /\ wanted \subseteq Keys \X Buckets
    /\ touched \subseteq Keys

\* The two maps describe the same registry, after any sequence of methods:
\* a route leads to the one entry that carries it (LookupByRoute never
\* returns an entry of another route, nor the zero entry), and every entry
\* is reachable by its route.  A route left behind by a move between buckets
\* would break it.
RouteIndex ==
    /\ \A r \in DOMAIN byRoute :
           byRoute[r] \in DOMAIN byKey /\ LookupByRoute(r).route = r
    /\ \A k \in DOMAIN byKey :
           /\ byKey[k] = EntryFor(k, byKey[k].bucket)
           /\ byKey[k].route \in DOMAIN byRoute
           /\ byRoute[byKey[k].route] = k

\* The conflict rule: whatever the order in which buckets register a key,
\* in bulk or one by one, the owner is a best-ranked one of those that did
\* since the key was last placed, removed or cleared.
BestClaimOwns ==
    \A k \in Keys :
        /\ k \in DOMAIN byKey <=> claims[k] # {}
        /\ k \in DOMAIN byKey =>
               /\ byKey[k].bucket \in claims[k]
               /\ \A b \in claims[k] :
                      Priority[byKey[k].bucket] <= Priority[b]

\* When LoadManifests returns, every valid item of its manifests has had its
\* effect, though other methods ran between its steps: its key is registered
\* at that item's bucket or a better one.  Only keys that were explicitly
\* placed, removed or cleared meanwhile are exempt.  An item that is skipped
\* takes no other item with it.
LoadComplete ==
    ~loading =>
        \A w \in wanted :
            w[1] \notin touched =>
                /\ w[1] \in DOMAIN byKey
                /\ Priority[byKey[w[1]].bucket] <= Priority[w[2]]

(***************************************************************************)
(* The registry as the routes show it: k belongs to b if the route of b    *)
(* and k is the only route of k that is indexed.  Seen this way the        *)
(* catalog implements Registry: it never shows a key in two buckets (the   *)
(* set of both is no bucket), and it never changes two keys in one step    *)
(* unless it clears everything.                                            *)
(***************************************************************************)
RouteBuckets(k) == {b \in Buckets : routeFor(b, k) \in DOMAIN byRoute}

RouteOwner ==
    [k \in Keys |->
        LET S == RouteBuckets(k)
        IN  IF S = {} THEN NoBucket
            ELSE LET b == CHOOSE x \in S : TRUE
                 IN  IF S = {b} THEN b ELSE S]

Reg == INSTANCE Registry WITH where <- RouteOwner

\* The catalog implements the abstract registry, seen through its routes.
ImplementsRegistry == Reg!Spec
=============================================================================
