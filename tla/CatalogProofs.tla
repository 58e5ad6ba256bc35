---------------------------- MODULE CatalogProofs ----------------------------
(***************************************************************************)
(* Proofs about module Catalog, for any set of keys, any buckets with any  *)
(* ranks and any lists of manifests.                                       *)
(***************************************************************************)
EXTENDS Catalog, TLAPS

\* The part of TypeOK about the two maps.
IndexOK ==
    /\ DOMAIN byKey \subseteq Keys
    /\ \A k \in DOMAIN byKey : byKey[k] \in Entry
    /\ byKey = [k \in DOMAIN byKey |-> byKey[k]]
    /\ DOMAIN byRoute \subseteq Routes
    /\ \A r \in DOMAIN byRoute : byRoute[r] \in Keys
    /\ byRoute = [r \in DOMAIN byRoute |-> byRoute[r]]

\* An entry is well typed and carries the route of its bucket and key.
LEMMA EntryForFacts ==
    ASSUME NEW k \in Keys, NEW b \in Buckets
    PROVE  /\ EntryFor(k, b) \in Entry
           /\ EntryFor(k, b).key = k
           /\ EntryFor(k, b).bucket = b
           /\ EntryFor(k, b).route = <<b, k>>
           /\ <<b, k>> \in Routes
  BY DEF EntryFor, Entry, routeFor, Routes

\* The route of a registered key is the pair of its bucket and the key; an
\* unregistered key has none.
LEMMA OldRouteFacts ==
    ASSUME NEW k \in Keys, IndexOK, RouteIndex
    PROVE  /\ k \in DOMAIN byKey => OldRoute(k) = {<<byKey[k].bucket, k>>}
           /\ k \notin DOMAIN byKey => OldRoute(k) = {}
           /\ \A r \in OldRoute(k) : k \in DOMAIN byKey /\ r = byKey[k].route
  <1>1. CASE k \in DOMAIN byKey
    <2>1. OldRoute(k) = {byKey[k].route}
      BY <1>1 DEF OldRoute
    <2>2. byKey[k].route = <<byKey[k].bucket, k>>
      BY <1>1 DEF RouteIndex, EntryFor, routeFor
    <2> QED BY <1>1, <2>1, <2>2
  <1>2. CASE k \notin DOMAIN byKey
    BY <1>2 DEF OldRoute
  <1> QED BY <1>1, <1>2

\* Writing an entry keeps the two maps well typed and consistent: the route
\* of the entry it replaces is the only one that has to go.
LEMMA EnterKeepsIndex ==
    ASSUME NEW k \in Keys, NEW b \in Buckets, IndexOK, RouteIndex, Enter(k, b)
    PROVE  /\ IndexOK' /\ RouteIndex'
           /\ DOMAIN byKey' = DOMAIN byKey \cup {k}
           /\ byKey'[k] = EntryFor(k, b)
           /\ \A x \in DOMAIN byKey : x # k => byKey'[x] = byKey[x]
  <1> DEFINE left == Without(byRoute, OldRoute(k))
  <1>1. /\ byKey' = With(byKey, k, EntryFor(k, b))
        /\ byRoute' = With(left, <<b, k>>, k)
    BY DEF Enter, routeFor
  <1>2. /\ DOMAIN byKey' = DOMAIN byKey \cup {k}
        /\ byKey'[k] = EntryFor(k, b)
        /\ \A x \in DOMAIN byKey : x # k => byKey'[x] = byKey[x]
        /\ byKey' = [x \in DOMAIN byKey' |-> byKey'[x]]
    BY <1>1 DEF With
  <1>3. /\ DOMAIN byRoute' = (DOMAIN byRoute \ OldRoute(k)) \cup {<<b, k>>}
        /\ byRoute'[<<b, k>>] = k
        /\ \A r \in DOMAIN byRoute \ OldRoute(k) :
               r # <<b, k>> => byRoute'[r] = byRoute[r]
        /\ byRoute' = [r \in DOMAIN byRoute' |-> byRoute'[r]]
    <2>1. /\ DOMAIN left = DOMAIN byRoute \ OldRoute(k)
          /\ \A r \in DOMAIN byRoute \ OldRoute(k) : left[r] = byRoute[r]
      BY DEF Without
    <2> HIDE DEF left
    <2>2. /\ DOMAIN byRoute' = DOMAIN left \cup {<<b, k>>}
          /\ byRoute'[<<b, k>>] = k
          /\ \A r \in DOMAIN left : r # <<b, k>> => byRoute'[r] = left[r]
          /\ byRoute' = [r \in DOMAIN byRoute' |-> byRoute'[r]]
      BY <1>1 DEF With
    <2> QED BY <2>1, <2>2
  <1>4. IndexOK'
    BY <1>2, <1>3, EntryForFacts DEF IndexOK
  <1>5. \A r \in DOMAIN byRoute' :
            byRoute'[r] \in DOMAIN byKey' /\ byKey'[byRoute'[r]].route = r
    <2> TAKE r \in DOMAIN byRoute'
    <2>1. CASE r = <<b, k>>
      BY <2>1, <1>2, <1>3, EntryForFacts
    <2>2. CASE r # <<b, k>>
      <3>1. r \in DOMAIN byRoute /\ r \notin OldRoute(k)
            /\ byRoute'[r] = byRoute[r]
        BY <2>2, <1>3
      <3>2. byRoute[r] \in DOMAIN byKey /\ byKey[byRoute[r]].route = r
        BY <3>1 DEF RouteIndex, LookupByRoute
      <3>3. byRoute[r] # k
        BY <3>1, <3>2 DEF OldRoute
      <3> QED BY <3>1, <3>2, <3>3, <1>2
    <2> QED BY <2>1, <2>2
  <1>6. \A x \in DOMAIN byKey' :
            /\ byKey'[x] = EntryFor(x, byKey'[x].bucket)
            /\ byKey'[x].route \in DOMAIN byRoute'
            /\ byRoute'[byKey'[x].route] = x
    <2> TAKE x \in DOMAIN byKey'
    <2>1. CASE x = k
      BY <2>1, <1>2, <1>3, EntryForFacts
    <2>2. CASE x # k
      <3>1. x \in DOMAIN byKey /\ byKey'[x] = byKey[x]
        BY <2>2, <1>2
      <3>2. /\ byKey[x] = EntryFor(x, byKey[x].bucket)
            /\ byKey[x].route \in DOMAIN byRoute
            /\ byRoute[byKey[x].route] = x
        BY <3>1 DEF RouteIndex
      <3>3. byKey[x].route = <<byKey[x].bucket, x>>
        BY <3>2 DEF EntryFor, routeFor
      <3>4. byKey[x].route # <<b, k>>
        BY <3>3, <2>2
      <3>5. byKey[x].route \notin OldRoute(k)
        BY <3>3, <2>2, OldRouteFacts
      <3> QED BY <3>1, <3>2, <3>4, <3>5, <1>3
    <2> QED BY <2>1, <2>2
  <1>7. RouteIndex'
    BY <1>5, <1>6 DEF RouteIndex, LookupByRoute, EntryFor, routeFor
  <1> QED BY <1>2, <1>4, <1>7

\* Removing a key deletes its entry and its route, and nothing else.
LEMMA RemoveKeepsIndex ==
    ASSUME NEW k \in Keys, IndexOK, RouteIndex, Remove(k)
    PROVE  /\ IndexOK' /\ RouteIndex'
           /\ DOMAIN byKey' = DOMAIN byKey \ {k}
           /\ \A x \in DOMAIN byKey \ {k} : byKey'[x] = byKey[x]
  <1>1. /\ DOMAIN byKey' = DOMAIN byKey \ {k}
        /\ \A x \in DOMAIN byKey \ {k} : byKey'[x] = byKey[x]
        /\ byKey' = [x \in DOMAIN byKey' |-> byKey'[x]]
    BY DEF Remove, Without
  <1>2. /\ DOMAIN byRoute' = DOMAIN byRoute \ OldRoute(k)
        /\ \A r \in DOMAIN byRoute \ OldRoute(k) : byRoute'[r] = byRoute[r]
        /\ byRoute' = [r \in DOMAIN byRoute' |-> byRoute'[r]]
    BY DEF Remove, Without
  <1>3. IndexOK'
    BY <1>1, <1>2 DEF IndexOK
  <1>4. \A r \in DOMAIN byRoute' :
            byRoute'[r] \in DOMAIN byKey' /\ byKey'[byRoute'[r]].route = r
    <2> TAKE r \in DOMAIN byRoute'
    <2>1. byRoute[r] \in DOMAIN byKey /\ byKey[byRoute[r]].route = r
      BY <1>2 DEF RouteIndex, LookupByRoute
    <2>2. byRoute[r] # k
      BY <2>1, <1>2 DEF OldRoute
    <2> QED BY <2>1, <2>2, <1>1, <1>2
  <1>5. \A x \in DOMAIN byKey' :
            /\ byKey'[x] = EntryFor(x, byKey'[x].bucket)
            /\ byKey'[x].route \in DOMAIN byRoute'
            /\ byRoute'[byKey'[x].route] = x
    <2> TAKE x \in DOMAIN byKey'
    <2>1. /\ x \in DOMAIN byKey /\ x # k /\ byKey'[x] = byKey[x]
          /\ byKey[x] = EntryFor(x, byKey[x].bucket)
          /\ byKey[x].route \in DOMAIN byRoute
          /\ byRoute[byKey[x].route] = x
      BY <1>1 DEF RouteIndex
    <2>2. byKey[x].route = <<byKey[x].bucket, x>>
      BY <2>1 DEF EntryFor, routeFor
    <2>3. byKey[x].route \notin OldRoute(k)
      BY <2>1, <2>2, OldRouteFacts
    <2> QED BY <2>1, <2>3, <1>2
  <1>6. RouteIndex'
    BY <1>4, <1>5 DEF RouteIndex, LookupByRoute, EntryFor, routeFor
  <1> QED BY <1>1, <1>3, <1>6

\* Clearing both maps leaves them consistent.
LEMMA ClearKeepsIndex ==
    ASSUME ClearIndex
    PROVE  IndexOK' /\ RouteIndex' /\ DOMAIN byKey' = {}
  <1>1. DOMAIN byKey' = {} /\ DOMAIN byRoute' = {}
    BY DEF ClearIndex, Empty
  <1>2. /\ byKey' = [x \in DOMAIN byKey' |-> byKey'[x]]
        /\ byRoute' = [x \in DOMAIN byRoute' |-> byRoute'[x]]
    BY DEF ClearIndex, Empty
  <1> QED BY <1>1, <1>2 DEF IndexOK, RouteIndex

\* The two maps and the claims after one registration, in bulk or not.
LEMMA RegisterKeepsIndex ==
    ASSUME NEW k \in Keys, NEW b \in Buckets,
           IndexOK, RouteIndex, RegisterEntry(k, b)
    PROVE  IndexOK' /\ RouteIndex'
  <1>1. CASE Keeps(k, b)
    BY <1>1 DEF RegisterEntry, index, IndexOK, RouteIndex, LookupByRoute,
                EntryFor, routeFor
  <1>2. CASE ~Keeps(k, b)
    BY <1>2, EnterKeepsIndex DEF RegisterEntry
  <1> QED BY <1>1, <1>2

\* A registration leaves the best-ranked bucket that claimed the key as its
\* owner: the old owner when it ranks strictly better, the new one when not.
LEMMA RegisterKeepsBest ==
    ASSUME NEW k \in Keys, NEW b \in Buckets, IndexOK, RouteIndex,
           claims \in [Keys -> SUBSET Buckets], BestClaimOwns,
           RegisterEntry(k, b)
    PROVE  BestClaimOwns'
  <1>1. /\ claims'[k] = claims[k] \cup {b}
        /\ \A x \in Keys : x # k => claims'[x] = claims[x]
    BY DEF RegisterEntry
  <1>2. \A x \in DOMAIN byKey : byKey[x].bucket \in Buckets
    BY DEF IndexOK, Entry
  <1>3. CASE Keeps(k, b)
    <2>1. byKey' = byKey
      BY <1>3 DEF RegisterEntry, index
    <2> SUFFICES ASSUME NEW x \in Keys
                 PROVE  /\ x \in DOMAIN byKey <=> claims'[x] # {}
                        /\ x \in DOMAIN byKey =>
                             /\ byKey[x].bucket \in claims'[x]
                             /\ \A c \in claims'[x] :
                                    Priority[byKey[x].bucket] <= Priority[c]
      BY <2>1 DEF BestClaimOwns
    <2>2. CASE x = k
      BY <2>2, <1>1, <1>2, <1>3, CatalogAssumption DEF BestClaimOwns, Keeps
    <2>3. CASE x # k
      BY <2>3, <1>1 DEF BestClaimOwns
    <2> QED BY <2>2, <2>3
  <1>4. CASE ~Keeps(k, b)
    <2>1. /\ DOMAIN byKey' = DOMAIN byKey \cup {k}
          /\ byKey'[k].bucket = b
          /\ \A x \in DOMAIN byKey : x # k => byKey'[x] = byKey[x]
      <3>1. Enter(k, b)
        BY <1>4 DEF RegisterEntry
      <3>2. /\ DOMAIN byKey' = DOMAIN byKey \cup {k}
            /\ byKey'[k] = EntryFor(k, b)
            /\ \A x \in DOMAIN byKey : x # k => byKey'[x] = byKey[x]
        BY <3>1, EnterKeepsIndex
      <3>3. EntryFor(k, b).bucket = b
        BY DEF EntryFor
      <3> QED BY <3>2, <3>3, Zenon
    <2> SUFFICES ASSUME NEW x \in Keys
                 PROVE  /\ x \in DOMAIN byKey' <=> claims'[x] # {}
                        /\ x \in DOMAIN byKey' =>
                             /\ byKey'[x].bucket \in claims'[x]
                             /\ \A c \in claims'[x] :
                                    Priority[byKey'[x].bucket] <= Priority[c]
      BY DEF BestClaimOwns
    <2>2. CASE x = k
      <3>1. \A c \in claims[k] : Priority[b] <= Priority[c]
        <4> TAKE c \in claims[k]
        <4>1. k \in DOMAIN byKey /\ Priority[byKey[k].bucket] <= Priority[c]
          BY DEF BestClaimOwns
        <4>2. ~(Priority[byKey[k].bucket] < Priority[b])
          BY <4>1, <1>4 DEF Keeps
        <4>3. /\ Priority[byKey[k].bucket] \in Nat
              /\ Priority[b] \in Nat /\ Priority[c] \in Nat
          BY <4>1, <1>2, CatalogAssumption
        <4> QED BY <4>1, <4>2, <4>3
      <3>2. Priority[b] \in Nat
        BY CatalogAssumption
      <3> QED BY <3>1, <3>2, <2>1, <2>2, <1>1
    <2>3. CASE x # k
      BY <2>1, <2>3, <1>1 DEF BestClaimOwns
    <2> QED BY <2>2, <2>3
  <1> QED BY <1>3, <1>4
-----------------------------------------------------------------------------
(***************************************************************************)
(* The loader.  An item is still pending, or it has made its claim, or its *)
(* key was touched by someone else.                                        *)
(***************************************************************************)
LoadInv ==
    /\ ~loading => load = <<>>
    /\ \A w \in wanted :
           w[1] \notin touched =>
               w \in Pending(load) \/ w[2] \in claims[w[1]]

\* Item j of the decoded files of manifest i of the list is valid and is w.
IsItem(ms, i, j, w) ==
    /\ decodeManifestFiles(ms[i])[j].key # NoKey
    /\ w = << decodeManifestFiles(ms[i])[j].key,
              ItemBucket(ms[i], decodeManifestFiles(ms[i])[j]) >>

\* Pending, item by item.
LEMMA PendingItems ==
    ASSUME NEW ms, NEW w
    PROVE  w \in Pending(ms) <=>
               \E i \in DOMAIN ms :
                   \E j \in DOMAIN decodeManifestFiles(ms[i]) :
                       IsItem(ms, i, j, w)
  BY DEF Pending, IsItem

\* The decoded files of a manifest are a sequence of items.
LEMMA DecodeType ==
    ASSUME NEW m \in BucketManifest
    PROVE  decodeManifestFiles(m) \in Seq(Items)
  BY DEF decodeManifestFiles, BucketManifest

\* The bucket of an item is a bucket.
LEMMA ItemBucketType ==
    ASSUME NEW m \in BucketManifest, NEW it \in Items
    PROVE  ItemBucket(m, it) \in Buckets
  BY DEF ItemBucket, BucketManifest, Items

\* What is pending is a set of pairs of a key and a bucket.
LEMMA PendingType ==
    ASSUME NEW ms \in Seq(BucketManifest)
    PROVE  Pending(ms) \subseteq Keys \X Buckets
  <1> SUFFICES ASSUME NEW w \in Pending(ms)
               PROVE  w \in Keys \X Buckets
    OBVIOUS
  <1>1. PICK i \in DOMAIN ms :
            \E j \in DOMAIN decodeManifestFiles(ms[i]) : IsItem(ms, i, j, w)
    BY PendingItems
  <1>2. PICK j \in DOMAIN decodeManifestFiles(ms[i]) : IsItem(ms, i, j, w)
    BY <1>1
  <1>3. ms[i] \in BucketManifest
    OBVIOUS
  <1>4. decodeManifestFiles(ms[i])[j] \in Items
    BY <1>3, DecodeType
  <1>5. ItemBucket(ms[i], decodeManifestFiles(ms[i])[j]) \in Buckets
    BY <1>3, <1>4, ItemBucketType
  <1> QED BY <1>2, <1>4, <1>5 DEF IsItem, Items

\* Nothing is pending of an empty list.
LEMMA PendingEmpty == Pending(<<>>) = {}
  BY DEF Pending

\* Dropping a manifest without files drops no item.
LEMMA PendingNextManifest ==
    ASSUME NEW ms \in Seq(BucketManifest), ms # <<>>,
           decodeManifestFiles(Head(ms)) = <<>>
    PROVE  Pending(ms) \subseteq Pending(Tail(ms))
  <1> SUFFICES ASSUME NEW w \in Pending(ms)
               PROVE  w \in Pending(Tail(ms))
    OBVIOUS
  <1>1. PICK i \in DOMAIN ms :
            \E j \in DOMAIN decodeManifestFiles(ms[i]) : IsItem(ms, i, j, w)
    BY PendingItems
  <1>2. PICK j \in DOMAIN decodeManifestFiles(ms[i]) : IsItem(ms, i, j, w)
    BY <1>1
  <1>3. i # 1
    BY <1>2
  <1>4. i - 1 \in DOMAIN Tail(ms) /\ Tail(ms)[i - 1] = ms[i]
    BY <1>3
  <1>5. IsItem(Tail(ms), i - 1, j, w)
    BY <1>2, <1>4 DEF IsItem
  <1> QED BY <1>2, <1>4, <1>5, PendingItems

\* Dropping the first item of the first manifest leaves a list of manifests.
LEMMA LoadItemType ==
    ASSUME NEW ms \in Seq(BucketManifest), ms # <<>>,
           decodeManifestFiles(Head(ms)) # <<>>,
           NEW ns,
           ns = [ms EXCEPT ![1].files = Tail(decodeManifestFiles(Head(ms)))]
    PROVE  /\ ns \in Seq(BucketManifest)
           /\ DOMAIN ns = DOMAIN ms /\ 1 \in DOMAIN ms
           /\ \A i \in DOMAIN ms : i # 1 => ns[i] = ms[i]
           /\ ns[1].bucket = ms[1].bucket
           /\ decodeManifestFiles(ns[1]) = Tail(decodeManifestFiles(ms[1]))
  <1> DEFINE m == Head(ms)
             files == decodeManifestFiles(m)
  <1>1. m \in BucketManifest /\ m = ms[1] /\ 1 \in DOMAIN ms
    OBVIOUS
  <1>2. files \in Seq(Items) /\ files # <<>> /\ files = m.files
        /\ m.form \in {"envelope", "array"}
    BY <1>1, DecodeType DEF decodeManifestFiles, BucketManifest
  <1>3. ns[1] = [m EXCEPT !.files = Tail(files)] /\ DOMAIN ns = DOMAIN ms
        /\ \A i \in DOMAIN ms : i # 1 => ns[i] = ms[i]
    BY <1>1
  <1>4. ns[1] \in BucketManifest
    <2>1. Tail(files) \in Seq(Items)
      BY <1>2
    <2> HIDE DEF files, m
    <2> QED BY <1>1, <1>3, <2>1 DEF BucketManifest
  <1>5. ns \in Seq(BucketManifest)
    BY <1>3, <1>4
  <1>6. decodeManifestFiles(ns[1]) = Tail(files) /\ ns[1].bucket = m.bucket
    BY <1>1, <1>2, <1>3 DEF decodeManifestFiles, BucketManifest
  <1> QED BY <1>1, <1>3, <1>5, <1>6

\* It drops that item only.
LEMMA PendingLoadItem ==
    ASSUME NEW ms \in Seq(BucketManifest), ms # <<>>,
           decodeManifestFiles(Head(ms)) # <<>>,
           NEW ns,
           ns = [ms EXCEPT ![1].files = Tail(decodeManifestFiles(Head(ms)))],
           NEW w \in Pending(ms)
    PROVE  w \in Pending(ns) \/ IsItem(ms, 1, 1, w)
  <1> DEFINE files == decodeManifestFiles(ms[1])
  <1>1. /\ DOMAIN ns = DOMAIN ms /\ 1 \in DOMAIN ms
        /\ \A i \in DOMAIN ms : i # 1 => ns[i] = ms[i]
        /\ ns[1].bucket = ms[1].bucket
        /\ decodeManifestFiles(ns[1]) = Tail(files)
    BY LoadItemType
  <1>2. files \in Seq(Items) /\ files # <<>>
    BY <1>1, DecodeType
  <1>7. PICK i \in DOMAIN ms :
            \E j \in DOMAIN decodeManifestFiles(ms[i]) : IsItem(ms, i, j, w)
    BY PendingItems
  <1>8. PICK j \in DOMAIN decodeManifestFiles(ms[i]) : IsItem(ms, i, j, w)
    BY <1>7
  <1>9. CASE i # 1
    <2>1. i \in DOMAIN ns /\ IsItem(ns, i, j, w)
          /\ j \in DOMAIN decodeManifestFiles(ns[i])
      BY <1>1, <1>8, <1>9 DEF IsItem
    <2> QED BY <2>1, PendingItems
  <1>10. CASE i = 1 /\ j # 1
    <2>1. j \in DOMAIN files
      BY <1>8, <1>10
    <2>2. j - 1 \in DOMAIN Tail(files) /\ Tail(files)[j - 1] = files[j]
      BY <1>2, <1>10, <2>1
    <2>3. IsItem(ns, 1, j - 1, w)
      BY <1>1, <1>8, <1>10, <2>2 DEF IsItem, ItemBucket
    <2> QED BY <2>2, <2>3, <1>1, PendingItems
  <1>11. CASE i = 1 /\ j = 1
    BY <1>8, <1>11
  <1> QED BY <1>9, <1>10, <1>11
-----------------------------------------------------------------------------
(***************************************************************************)
(* The inductive invariant, and one lemma per action.                      *)
(***************************************************************************)
IndInv == TypeOK /\ RouteIndex /\ BestClaimOwns /\ LoadInv

\* The part of TypeOK that is not about the two maps.
RestOK ==
    /\ loading \in BOOLEAN
    /\ load \in Seq(BucketManifest)
    /\ claims \in [Keys -> SUBSET Buckets]
    /\ wanted \subseteq Keys \X Buckets
    /\ touched \subseteq Keys

\* The type invariant, split into the part about the maps and the rest.
LEMMA TypeOKParts == TypeOK <=> IndexOK /\ RestOK
  BY DEF TypeOK, IndexOK, RestOK

\* A claim made for one key only adds to the claims.
LEMMA RegisterClaims ==
    ASSUME NEW k \in Keys, NEW b \in Buckets,
           claims \in [Keys -> SUBSET Buckets], RegisterEntry(k, b)
    PROVE  /\ claims' \in [Keys -> SUBSET Buckets]
           /\ b \in claims'[k]
           /\ \A x \in Keys : claims[x] \subseteq claims'[x]
  BY DEF RegisterEntry

\* The invariant holds of the empty catalog.
LEMMA InitInv == Init => IndInv
  <1> SUFFICES ASSUME Init PROVE IndInv
    OBVIOUS
  <1>1. DOMAIN byKey = {} /\ DOMAIN byRoute = {}
    BY DEF Init, Empty
  <1>2. /\ byKey = [x \in DOMAIN byKey |-> byKey[x]]
        /\ byRoute = [x \in DOMAIN byRoute |-> byRoute[x]]
    BY DEF Init, Empty
  <1>3. TypeOK
    <2>1. IndexOK
      BY <1>1, <1>2 DEF IndexOK
    <2>2. load \in Seq(BucketManifest) /\ claims \in [Keys -> SUBSET Buckets]
      BY DEF Init
    <2>3. RestOK
      BY <2>2 DEF RestOK, Init
    <2> QED BY <2>1, <2>3, TypeOKParts
  <1>4. RouteIndex
    BY <1>1 DEF RouteIndex
  <1>5. BestClaimOwns
    BY <1>1 DEF BestClaimOwns, Init
  <1>6. LoadInv
    BY DEF LoadInv, Init
  <1> QED BY <1>3, <1>4, <1>5, <1>6 DEF IndInv

\* The steps of the catalog preserve it, one lemma each.  Register.
LEMMA RegisterInv ==
    ASSUME NEW k \in Keys, NEW b \in Buckets, IndInv, Register(k, b)
    PROVE  IndInv'
  <1>1. IndexOK /\ RestOK /\ RouteIndex /\ BestClaimOwns /\ LoadInv
        /\ RegisterEntry(k, b)
    BY TypeOKParts DEF IndInv, Register
  <1>2. IndexOK' /\ RouteIndex'
    BY <1>1, RegisterKeepsIndex
  <1>3. BestClaimOwns'
    BY <1>1, RegisterKeepsBest DEF RestOK
  <1>4. RestOK'
    BY <1>1, RegisterClaims DEF RestOK, Register
  <1>5. LoadInv'
    BY <1>1, RegisterClaims DEF RestOK, LoadInv, Register
  <1> QED BY <1>2, <1>3, <1>4, <1>5, TypeOKParts DEF IndInv, TypeOK, IndexOK, RestOK

\* Set: the key is touched, and the bucket is its only claim.
LEMMA SetInv ==
    ASSUME NEW k \in Keys, NEW b \in Buckets, IndInv, Set(k, b)
    PROVE  IndInv'
  <1>1. IndexOK /\ RestOK /\ RouteIndex /\ BestClaimOwns /\ LoadInv
        /\ Enter(k, b)
    BY TypeOKParts DEF IndInv, Set
  <1>2. IndexOK' /\ RouteIndex'
    BY <1>1, EnterKeepsIndex
  <1>3. RestOK'
    BY <1>1 DEF RestOK, Set
  <1>4. BestClaimOwns'
    <2>1. /\ DOMAIN byKey' = DOMAIN byKey \cup {k}
          /\ byKey'[k] = EntryFor(k, b)
          /\ \A x \in DOMAIN byKey : x # k => byKey'[x] = byKey[x]
      BY <1>1, EnterKeepsIndex
    <2>2. EntryFor(k, b).bucket = b /\ Priority[b] \in Nat
      BY CatalogAssumption DEF EntryFor
    <2>3. claims'[k] = {b} /\ \A x \in Keys : x # k => claims'[x] = claims[x]
      BY <1>1 DEF Set, RestOK
    <2> QED BY <1>1, <2>1, <2>2, <2>3 DEF BestClaimOwns
  <1>5. LoadInv'
    BY <1>1 DEF RestOK, LoadInv, Set
  <1> QED BY <1>2, <1>3, <1>4, <1>5 DEF IndInv, TypeOK, IndexOK, RestOK

\* Remove: the key is touched, and it has no claim left.
LEMMA RemoveInv ==
    ASSUME NEW k \in Keys, IndInv, Remove(k)
    PROVE  IndInv'
  <1>1. IndexOK /\ RestOK /\ RouteIndex /\ BestClaimOwns /\ LoadInv
    BY TypeOKParts DEF IndInv
  <1>2. IndexOK' /\ RouteIndex'
    BY <1>1, RemoveKeepsIndex
  <1>3. RestOK'
    BY <1>1 DEF RestOK, Remove
  <1>4. BestClaimOwns'
    <2>1. /\ DOMAIN byKey' = DOMAIN byKey \ {k}
          /\ \A x \in DOMAIN byKey \ {k} : byKey'[x] = byKey[x]
      BY <1>1, RemoveKeepsIndex
    <2>2. claims'[k] = {} /\ \A x \in Keys : x # k => claims'[x] = claims[x]
      BY <1>1 DEF Remove, RestOK
    <2> QED BY <1>1, <2>1, <2>2 DEF BestClaimOwns
  <1>5. LoadInv'
    BY <1>1 DEF RestOK, LoadInv, Remove
  <1> QED BY <1>2, <1>3, <1>4, <1>5 DEF IndInv, TypeOK, IndexOK, RestOK

\* Clear: every key is touched, so nothing is promised of any load.
LEMMA ClearInv ==
    ASSUME IndInv, Clear
    PROVE  IndInv'
  <1>1. IndexOK /\ RestOK /\ RouteIndex /\ BestClaimOwns /\ LoadInv
    BY TypeOKParts DEF IndInv
  <1>2. IndexOK' /\ RouteIndex' /\ DOMAIN byKey' = {}
    BY ClearKeepsIndex DEF Clear
  <1>3. RestOK'
    BY <1>1 DEF RestOK, Clear
  <1>4. BestClaimOwns'
    BY <1>2 DEF BestClaimOwns, Clear
  <1>5. LoadInv'
    BY <1>1 DEF RestOK, LoadInv, Clear
  <1> QED BY <1>2, <1>3, <1>4, <1>5 DEF IndInv, TypeOK, IndexOK, RestOK

\* The start of LoadManifests: all that is wanted is pending.
LEMMA LoadManifestsInv ==
    ASSUME NEW ms \in ManifestLists, IndInv, LoadManifests(ms)
    PROVE  IndInv'
  <1>1. IndexOK /\ RestOK /\ RouteIndex /\ BestClaimOwns /\ LoadInv
    BY TypeOKParts DEF IndInv
  <1>2. IndexOK' /\ RouteIndex' /\ DOMAIN byKey' = {}
    BY ClearKeepsIndex DEF LoadManifests
  <1>3. RestOK'
    <2>1. ms \in Seq(BucketManifest)
      BY CatalogAssumption
    <2> QED BY <1>1, <2>1, PendingType DEF RestOK, LoadManifests
  <1>4. BestClaimOwns'
    BY <1>2 DEF BestClaimOwns, LoadManifests
  <1>5. LoadInv'
    BY DEF LoadInv, LoadManifests
  <1> QED BY <1>2, <1>3, <1>4, <1>5 DEF IndInv, TypeOK, IndexOK, RestOK

\* The end of a manifest: what is pending stays so.
LEMMA NextManifestInv ==
    ASSUME IndInv, NextManifest
    PROVE  IndInv'
  <1>1. IndexOK /\ RestOK /\ RouteIndex /\ BestClaimOwns /\ LoadInv
    BY TypeOKParts DEF IndInv
  <1>2. IndexOK' /\ RouteIndex' /\ BestClaimOwns'
    BY <1>1 DEF IndexOK, RouteIndex, BestClaimOwns, NextManifest, index, history,
                LookupByRoute, EntryFor, routeFor
  <1>3. RestOK'
    BY <1>1 DEF RestOK, NextManifest, history
  <1>4. LoadInv'
    <2>1. Pending(load) \subseteq Pending(load')
      BY <1>1, PendingNextManifest DEF RestOK, NextManifest
    <2> QED BY <1>1, <2>1 DEF LoadInv, NextManifest, history
  <1> QED BY <1>2, <1>3, <1>4 DEF IndInv, TypeOK, IndexOK, RestOK

\* One item of LoadManifests: it is no longer pending, but registered.
LEMMA LoadItemInv ==
    ASSUME IndInv, LoadItem
    PROVE  IndInv'
  <1> DEFINE m == Head(load)
             files == decodeManifestFiles(m)
             it == Head(files)
  <1>1. IndexOK /\ RestOK /\ RouteIndex /\ BestClaimOwns /\ LoadInv
    BY TypeOKParts DEF IndInv
  <1>2. /\ loading /\ load # <<>> /\ files # <<>>
        /\ load' = [load EXCEPT ![1].files = Tail(files)]
        /\ it.key = NoKey => UNCHANGED <<index, claims>>
        /\ it.key # NoKey => RegisterEntry(it.key, ItemBucket(m, it))
        /\ UNCHANGED <<loading, wanted, touched>>
    BY DEF LoadItem
  <1>3. m \in BucketManifest /\ m = load[1]
    BY <1>1, <1>2 DEF RestOK
  <1>4. it \in Items /\ it = decodeManifestFiles(load[1])[1]
    BY <1>2, <1>3, DecodeType
  <1>5. ItemBucket(m, it) \in Buckets /\ (it.key # NoKey => it.key \in Keys)
    BY <1>3, <1>4, ItemBucketType DEF Items
  <1> HIDE DEF m, files, it
  <1>6. IndexOK' /\ RouteIndex' /\ BestClaimOwns'
    <2>1. CASE it.key = NoKey
      BY <1>1, <1>2, <2>1 DEF IndexOK, RouteIndex, BestClaimOwns, index,
                              LookupByRoute, EntryFor, routeFor
    <2>2. CASE it.key # NoKey
      BY <1>1, <1>2, <1>5, <2>2, RegisterKeepsIndex, RegisterKeepsBest
         DEF RestOK
    <2> QED BY <2>1, <2>2
  <1>7. /\ claims' \in [Keys -> SUBSET Buckets]
        /\ \A x \in Keys : claims[x] \subseteq claims'[x]
        /\ it.key # NoKey => ItemBucket(m, it) \in claims'[it.key]
    BY <1>1, <1>2, <1>5, RegisterClaims DEF RestOK
  <1>8. load' \in Seq(BucketManifest)
    BY <1>1, <1>2, LoadItemType DEF RestOK, m, files
  <1>9. RestOK'
    BY <1>1, <1>2, <1>7, <1>8 DEF RestOK
  <1>10. LoadInv'
    <2> SUFFICES ASSUME NEW w \in wanted, w[1] \notin touched
                 PROVE  w \in Pending(load') \/ w[2] \in claims'[w[1]]
      BY <1>2 DEF LoadInv
    <2>1. w \in Keys \X Buckets
      BY <1>1 DEF RestOK
    <2>2. CASE w[2] \in claims[w[1]]
      BY <1>7, <2>1, <2>2
    <2>3. CASE w \in Pending(load)
      <3>1. w \in Pending(load') \/ IsItem(load, 1, 1, w)
        BY <1>1, <1>2, <2>3, PendingLoadItem DEF RestOK, m, files
      <3>2. CASE IsItem(load, 1, 1, w)
        BY <1>3, <1>4, <1>7, <3>2 DEF IsItem
      <3> QED BY <3>1, <3>2
    <2> QED BY <1>1, <2>2, <2>3 DEF LoadInv
  <1> QED BY <1>6, <1>9, <1>10 DEF IndInv, TypeOK, IndexOK, RestOK

\* The end of LoadManifests: nothing is pending.
LEMMA LoadDoneInv ==
    ASSUME IndInv, LoadDone
    PROVE  IndInv'
  BY DEF IndInv, LoadDone, TypeOK, RouteIndex, BestClaimOwns, LoadInv, index,
         history, LookupByRoute, EntryFor, routeFor

\* The invariant is preserved by every step of the catalog.
LEMMA NextInv == IndInv /\ [Next]_vars => IndInv'
  <1> SUFFICES ASSUME IndInv, [Next]_vars PROVE IndInv'
    OBVIOUS
  <1>1. CASE UNCHANGED vars
    BY <1>1 DEF IndInv, vars, TypeOK, RouteIndex, BestClaimOwns, LoadInv,
                LookupByRoute, EntryFor, routeFor
  <1>2. CASE \E k \in Keys, b \in Buckets : Register(k, b)
    BY <1>2, RegisterInv
  <1>3. CASE \E k \in Keys, b \in Buckets : Set(k, b)
    BY <1>3, SetInv
  <1>4. CASE \E k \in Keys : Remove(k)
    BY <1>4, RemoveInv
  <1>5. CASE Clear
    BY <1>5, ClearInv
  <1>6. CASE \E ms \in ManifestLists : LoadManifests(ms)
    BY <1>6, LoadManifestsInv
  <1>7. CASE LoadStep
    BY <1>7, NextManifestInv, LoadItemInv, LoadDoneInv DEF LoadStep
  <1> QED BY <1>1, <1>2, <1>3, <1>4, <1>5, <1>6, <1>7 DEF Next

\* The invariant holds in every reachable state.
LEMMA CatalogInv == Spec => []IndInv
  BY InitInv, NextInv, PTL DEF Spec
-----------------------------------------------------------------------------
(***************************************************************************)
(* The theorems.                                                           *)
(***************************************************************************)

\* Every reachable state of the catalog is well typed.
THEOREM TypeCorrect == Spec => []TypeOK
  <1>1. IndInv => TypeOK
    BY DEF IndInv
  <1> QED BY CatalogInv, <1>1, PTL

\* byKey and byRoute agree in every reachable state, whatever methods were
\* called in whatever order, also in the middle of a LoadManifests call.
THEOREM RoutesConsistent == Spec => []RouteIndex
  <1>1. IndInv => RouteIndex
    BY DEF IndInv
  <1> QED BY CatalogInv, <1>1, PTL

\* The conflict rule holds in every reachable state: the owner of a key is a
\* best-ranked one of the buckets that registered it, in any order.
THEOREM PriorityWins == Spec => []BestClaimOwns
  <1>1. IndInv => BestClaimOwns
    BY DEF IndInv
  <1> QED BY CatalogInv, <1>1, PTL

\* A finished LoadManifests call has applied every valid item, for all
\* manifests and all interleavings with the other methods.
THEOREM LoadIsComplete == Spec => []LoadComplete
  <1>1. IndInv => LoadComplete
    <2> SUFFICES ASSUME IndInv, ~loading,
                        NEW w \in wanted, w[1] \notin touched
                 PROVE  /\ w[1] \in DOMAIN byKey
                        /\ Priority[byKey[w[1]].bucket] <= Priority[w[2]]
      BY DEF LoadComplete
    <2>1. w \in Keys \X Buckets
      BY DEF IndInv, TypeOK
    <2>2. w[2] \in claims[w[1]]
      BY PendingEmpty DEF IndInv, LoadInv
    <2> QED BY <2>1, <2>2 DEF IndInv, BestClaimOwns
  <1> QED BY CatalogInv, <1>1, PTL

\* The owner of a key, read from byKey.
Owner == [k \in Keys |-> IF k \in DOMAIN byKey THEN byKey[k].bucket ELSE NoBucket]

\* The routes and the entries show the same owner.
LEMMA RouteOwnerIsOwner == IndInv => RouteOwner = Owner
  <1> SUFFICES ASSUME IndInv, NEW k \in Keys
               PROVE  RouteOwner[k] = Owner[k]
    BY DEF RouteOwner, Owner
  <1>1. ASSUME NEW b \in Buckets, <<b, k>> \in DOMAIN byRoute
        PROVE  k \in DOMAIN byKey /\ byKey[k].bucket = b
    <2>1. PICK x \in DOMAIN byKey : byKey[x].route = <<b, k>>
      BY <1>1 DEF IndInv, RouteIndex, LookupByRoute
    <2>2. byKey[x].route = <<byKey[x].bucket, x>>
      BY DEF IndInv, RouteIndex, EntryFor, routeFor
    <2> QED BY <2>1, <2>2
  <1>2. CASE k \in DOMAIN byKey
    <2>1. byKey[k].bucket \in Buckets
      BY <1>2 DEF IndInv, TypeOK, Entry
    <2>2. <<byKey[k].bucket, k>> \in DOMAIN byRoute
      BY <1>2 DEF IndInv, RouteIndex, EntryFor, routeFor
    <2>3. RouteBuckets(k) = {byKey[k].bucket}
      BY <1>1, <2>1, <2>2 DEF RouteBuckets, routeFor
    <2> QED BY <1>2, <2>1, <2>3 DEF RouteOwner, Owner
  <1>3. CASE k \notin DOMAIN byKey
    <2>1. RouteBuckets(k) = {}
      BY <1>1, <1>3 DEF RouteBuckets, routeFor
    <2> QED BY <1>3, <2>1 DEF RouteOwner, Owner
  <1> QED BY <1>2, <1>3

\* Writing an entry changes the owner of its key and of no other.
LEMMA EnterOwner ==
    ASSUME NEW k \in Keys, NEW b \in Buckets, IndInv, Enter(k, b)
    PROVE  Owner' = [Owner EXCEPT ![k] = b]
  <1>1. IndexOK /\ RouteIndex
    BY TypeOKParts DEF IndInv
  <1>2. /\ DOMAIN byKey' = DOMAIN byKey \cup {k}
        /\ byKey'[k] = EntryFor(k, b)
        /\ \A x \in DOMAIN byKey : x # k => byKey'[x] = byKey[x]
    BY <1>1, EnterKeepsIndex
  <1>3. EntryFor(k, b).bucket = b
    BY DEF EntryFor
  <1> QED BY <1>2, <1>3 DEF Owner

\* A registration is a claim in the sense of the abstract registry.
LEMMA RegisterOwner ==
    ASSUME NEW k \in Keys, NEW b \in Buckets, IndInv, RegisterEntry(k, b)
    PROVE  Owner' = IF Owner[k] # NoBucket /\ Priority[Owner[k]] < Priority[b]
                    THEN Owner
                    ELSE [Owner EXCEPT ![k] = b]
  <1>1. CASE Keeps(k, b)
    <2>1. Owner' = Owner
      BY <1>1 DEF RegisterEntry, index, Owner
    <2>2. byKey[k].bucket \in Buckets
      BY <1>1 DEF Keeps, IndInv, TypeOK, Entry
    <2> QED BY <1>1, <2>1, <2>2, CatalogAssumption DEF Keeps, Owner
  <1>2. CASE ~Keeps(k, b)
    <2>1. Owner' = [Owner EXCEPT ![k] = b]
      BY <1>2, EnterOwner DEF RegisterEntry
    <2> QED BY <1>2, <2>1 DEF Keeps, Owner
  <1> QED BY <1>1, <1>2

\* The catalog, seen through its routes, implements the abstract registry:
\* a registration is a claim, a Set places the key, a Remove drops it, a Clear
\* or the start of a load resets, and the loader's other steps show nothing.
THEOREM CatalogImplementsRegistry == Spec => ImplementsRegistry
  <1>1. Init /\ RouteOwner = Owner => Reg!Init
    BY DEF Init, Empty, Owner, Reg!Init
  <1>2. ASSUME IndInv, RouteOwner = Owner, (RouteOwner = Owner)', [Next]_vars
        PROVE  [Reg!Next]_RouteOwner
    <2>1. ASSUME NEW k \in Keys, NEW b \in Buckets, RegisterEntry(k, b)
          PROVE  Reg!Next
      BY <1>2, <2>1, RegisterOwner DEF Reg!Next, Reg!Claim, Reg!Registered
    <2>2. ASSUME NEW k \in Keys, NEW b \in Buckets, Set(k, b)
          PROVE  Reg!Next
      BY <1>2, <2>2, EnterOwner DEF Set, Reg!Next, Reg!Place
    <2>3. ASSUME NEW k \in Keys, Remove(k)
          PROVE  Reg!Next
      <3>1. Owner' = [Owner EXCEPT ![k] = NoBucket]
        BY <2>3 DEF Remove, Without, Owner
      <3> QED BY <1>2, <3>1 DEF Reg!Next, Reg!Drop
    <2>4. ASSUME ClearIndex
          PROVE  Reg!Next
      <3>1. Owner' = [k \in Keys |-> NoBucket]
        BY <2>4 DEF ClearIndex, Empty, Owner
      <3> QED BY <1>2, <3>1 DEF Reg!Next, Reg!Reset
    <2>5. ASSUME UNCHANGED index
          PROVE  UNCHANGED RouteOwner
      BY <2>5 DEF index, RouteOwner, RouteBuckets
    <2>6. CASE LoadItem
      <3> DEFINE m == Head(load)
                 it == Head(decodeManifestFiles(m))
      <3>1. \/ UNCHANGED index
            \/ it.key # NoKey /\ RegisterEntry(it.key, ItemBucket(m, it))
        BY <2>6 DEF LoadItem
      <3>2. m \in BucketManifest
        BY <1>2, <2>6 DEF IndInv, TypeOK, LoadItem
      <3>3. it \in Items
        BY <3>2, <2>6, DecodeType DEF LoadItem
      <3>4. ItemBucket(m, it) \in Buckets /\ (it.key # NoKey => it.key \in Keys)
        BY <3>2, <3>3, ItemBucketType DEF Items
      <3> HIDE DEF m, it
      <3> QED BY <3>1, <3>4, <2>1, <2>5
    <2>7. CASE NextManifest \/ LoadDone \/ UNCHANGED vars
      BY <2>5, <2>7 DEF NextManifest, LoadDone, vars, index
    <2>8. CASE Clear \/ \E ms \in ManifestLists : LoadManifests(ms)
      BY <2>4, <2>8 DEF Clear, LoadManifests
    <2>9. CASE \E k \in Keys, b \in Buckets : Register(k, b)
      BY <2>1, <2>9 DEF Register
    <2> QED BY <1>2, <2>2, <2>3, <2>6, <2>7, <2>8, <2>9 DEF Next, LoadStep
  <1> QED BY <1>1, <1>2, RouteOwnerIsOwner, CatalogInv, PTL
          DEF Spec, ImplementsRegistry, Reg!Spec
=============================================================================
