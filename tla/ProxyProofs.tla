----------------------------- MODULE ProxyProofs -----------------------------
(***************************************************************************)
(* Proofs about module ProxyRoutes, for any buckets, proxies and members,  *)
(* any number of keys, requests, changes, failed calls and restarts.  What *)
(* the steps of module Resolver do is taken from ResolverProofs.           *)
(***************************************************************************)
EXTENDS ProxyRoutes, ResolverProofs

\* A request that has gone on to PersistManifests.
Persists(x) == x.pc \in {"read", "put", "persisted"}

\* What a request to a repository is working on, and for whom.
CacheOK(x) ==
    /\ x.pc \in CacheSteps =>
          /\ x.hit \in Bucket
          /\ x.req.op \in {"route", "virtual"}
          /\ x.req.op = "route" => x.hit = x.req.at
    /\ x.req.op = "virtual" /\ Persists(x) => x.hit \in Bucket

\* Only cached objects expire; what is old for a request has expired.
ExpiryInv ==
    /\ \A o \in expired : o \in objs /\ o[1] \in Proxies
    /\ \A x \in old : x[2] \in expired

\* What a virtual request is about to serve, or has served, is not old for it.
Young(w, o) == <<w, o>> \notin old \/ ~TTLSet
YoungInv(w) ==
    t[w].req.op = "virtual" =>
        /\ t[w].pc = "claim" \/ Persists(t[w]) => Young(w, Cached(w))
        /\ t[w].pc = "idle" /\ t[w].ans.kind = "found" =>
              Young(w, <<t[w].ans.bucket, t[w].req.key>>)

ProxyInv ==
    /\ TypeInv
    /\ member \in [Workers -> Nat \ {0}]
    /\ ExpiryInv
    /\ \A w \in Workers : CacheOK(t[w]) /\ YoungInv(w)

\* No steady file of the key is in a bucket of better rank than b.
Foremost(b, k) == \A o \in steady : o[2] = k => b <= o[1]

\* NeverShadowed, and the check that leads to an answer.
RankOK(w) ==
    /\ t[w].pc = "exists" => Foremost(t[w].hit, t[w].req.key)
    /\ t[w].pc = "idle" /\ t[w].ans.kind = "found" /\ t[w].ans.bucket # NoBucket =>
          Foremost(t[w].ans.bucket, t[w].req.key)
RankInv == taken = {} /\ \A w \in Workers : RankOK(w)

\* As long as nobody else changes the storage, what a request or the sync has
\* found is there, and so is what the catalog says of a key that was searched for.
Real(k) == <<where[k], k>> \in objs
RealOK(x) ==
    /\ x.pc \in {"scan", "claim", "read", "put", "persisted"} /\ x.hit # NoBucket =>
          <<x.hit, x.req.key>> \in objs
    /\ Persists(x) /\ x.hit # NoBucket =>
          IF x.req.op \in {"route", "virtual"}
          THEN \/ x.req.op = "virtual" \/ x.hit = x.req.at
               \/ where[x.req.key] = NoBucket \/ Real(x.req.key)
          ELSE Real(x.req.key)
    /\ x.pc = "idle" /\ x.ans.kind = "found" => <<x.ans.bucket, x.req.key>> \in objs
RealInv ==
    /\ changes \in Nat
    /\ changes = 0 => FreshListing(t[Syncer]) /\ \A w \in Workers : RealOK(t[w])

\* A relocate that persists has written the buckets it is done with, unless a
\* write has failed, and reads what it is about to write off the catalog.
DurableOK(x) ==
    x.req.op = "relocate" =>
        /\ x.pc # "exists"
        /\ x.pc \in {"read", "put"} => \A b \in Bucket \ x.todo :
              where[x.req.key] = b /\ ~x.perr => x.req.key \in manifest[b]
        /\ x.pc = "put" => x.got = {k \in Keys : where[k] = Least(x.todo)}
        /\ x.pc = "persisted" => \A b \in Bucket :
              where[x.req.key] = b /\ ~x.perr => x.req.key \in manifest[b]
        /\ x.pc = "idle" /\ x.ans.kind = "found" => \A b \in Bucket :
              where[x.req.key] = b => x.req.key \in manifest[b]
DurableInv ==
    /\ t[Syncer].pc = "idle"
    /\ \A w \in Workers : DurableOK(t[w]) /\ (~ready => t[w].req = NoRequest)
-----------------------------------------------------------------------------
(***************************************************************************)
(* What each step of this module makes of the local state of its process.  *)
(***************************************************************************)

\* The parts of ProxyInv.
LEMMA ProxyParts ==
    ASSUME ProxyInv
    PROVE  /\ TypeInv
           /\ member \in [Workers -> Nat \ {0}]
           /\ ExpiryInv
           /\ \A w \in Workers : CacheOK(t[w]) /\ YoungInv(w)
           /\ \A w \in Workers : t[w] \in LocalState /\ LocalOK(w, t[w]) /\ WorkerOK(t[w])
  <1>1. \A w \in Workers : t[w] \in LocalState /\ LocalOK(w, t[w])
    BY ProcFacts DEF ProxyInv, TypeInv
  <1>2. \A w \in Workers : WorkerOK(t[w])
    BY <1>1, ProcFacts DEF LocalOK
  <1> QED BY <1>1, <1>2 DEF ProxyInv

\* A repository is asked.
LEMMA AskFacts ==
    ASSUME NEW w \in Workers, NEW r \in AllRequests, NEW b \in Bucket
    PROVE  LET x == Ask(r, b) IN
           /\ x \in LocalState /\ LocalOK(w, x)
           /\ x.pc = "head" /\ x.req = r /\ x.hit = b
  <1> DEFINE x == Ask(r, b)
  <1>1. /\ x \in LocalState /\ x.pc = "head" /\ x.req = r /\ x.hit = b
        /\ x.dups = {} /\ x.seen = {}
    BY AnswerFacts DEF Ask, At, LocalState, CacheSteps
  <1> HIDE DEF x
  <1>2. LocalOK(w, x)
    BY <1>1, ProcFacts DEF LocalOK, WorkerOK, CacheSteps
  <1> QED BY <1>1, <1>2 DEF x

\* The next member is asked, or the request ends.
LEMMA NothingHereFacts ==
    ASSUME ProxyInv, NEW w \in Workers, t[w].pc # "idle", NothingHere(w)
    PROVE  /\ member' \in [Workers -> Nat \ {0}]
           /\ \E x \in LocalState :
                 /\ Step(w, x) /\ LocalOK(w, x) /\ x.req = t[w].req
                 /\ \/ x.pc = "head" /\ x.hit \in Bucket /\ x.req.op = "virtual"
                    \/ x.pc = "idle" /\ x.ans.kind = "missing"
  <1>1. TypeInv /\ t[w].req \in AllRequests /\ member[w] \in Nat \ {0}
    BY ProxyParts DEF WorkerOK
  <1>2. CASE t[w].req.op = "virtual" /\ member[w] < Len(Members)
    <2>1. /\ member' = [member EXCEPT ![w] = @ + 1]
          /\ Step(w, Ask(t[w].req, Members[member[w] + 1]))
      BY <1>2 DEF NothingHere
    <2>2. Members[member[w] + 1] \in Bucket
      BY <1>1, <1>2, ProxyAssumption
    <2>3. member' \in [Workers -> Nat \ {0}]
      BY <1>1, <2>1, ProxyParts
    <2> QED BY <1>1, <1>2, <2>1, <2>2, <2>3, AskFacts
  <1>3. CASE ~(t[w].req.op = "virtual" /\ member[w] < Len(Members))
    <2>1. Reply(w, Missing) /\ UNCHANGED member
      BY <1>3 DEF NothingHere
    <2> QED BY <1>1, <2>1, ProxyParts, AnswerFacts, ReplyFacts
  <1> QED BY <1>2, <1>3

\* A step of a request that leaves the storage alone keeps the types.
LEMMA CacheType ==
    ASSUME TypeInv, NEW w \in Workers, NEW x \in LocalState, Step(w, x), LocalOK(w, x),
           where' \in [Keys -> Bucket \cup {NoBucket}],
           UNCHANGED <<objs, manifest, ready, dupCount, steady, fresh, calm>>
    PROVE  TypeInv' /\ t'[w] = x /\ \A q \in Procs : q # w => t'[q] = t[q]
  BY TypeStep, StepFacts, ProcFacts DEF TypeInv

\* A request to a proxy or to the virtual repository begins.
LEMMA AskStep ==
    ASSUME ProxyInv, NEW w \in Workers,
           \/ \E r \in Requests : ProxyRequest(w, r)
           \/ \E k \in Keys : VirtualRequest(w, k)
    PROVE  /\ TypeInv' /\ member' \in [Workers -> Nat \ {0}]
           /\ ready /\ t[w].pc = "idle"
           /\ t'[w].pc = "head" /\ CacheOK(t'[w])
           /\ \A q \in Procs : q # w => t'[q] = t[q]
           /\ Remember(w)
           /\ UNCHANGED <<where, objs, manifest, ready, changes, steady, taken, expired>>
  <1>1. PICK x \in LocalState :
            /\ Arrives(w, x) /\ LocalOK(w, x) /\ x.pc = "head" /\ CacheOK(x)
            /\ member' \in [Workers -> Nat \ {0}]
            /\ Remember(w) /\ UNCHANGED expired
    <2>1. ASSUME NEW r \in Requests, ProxyRequest(w, r)
          PROVE  /\ Arrives(w, Ask(r, r.at)) /\ r \in AllRequests /\ r.at \in Bucket
                 /\ r.op = "route"
                 /\ member' \in [Workers -> Nat \ {0}] /\ Remember(w) /\ UNCHANGED expired
      BY <2>1, RequestFacts, ProxyParts DEF ProxyRequest, AllRequests
    <2>2. ASSUME NEW r \in Requests, ProxyRequest(w, r) PROVE CacheOK(Ask(r, r.at))
      BY <2>1, <2>2, AskFacts DEF CacheOK, Persists
    <2>3. ASSUME NEW k \in Keys, VirtualRequest(w, k)
          PROVE  /\ Arrives(w, Ask(Virtual(k), Members[1])) /\ Members[1] \in Bucket
                 /\ Virtual(k) \in AllRequests /\ Virtual(k).op = "virtual"
                 /\ member' \in [Workers -> Nat \ {0}] /\ Remember(w) /\ UNCHANGED expired
      <3>1. Members[1] \in Bucket
        BY <2>3, ProxyAssumption DEF VirtualRequest
      <3>2. Virtual(k) \in AllRequests /\ Virtual(k).op = "virtual"
        BY DEF Virtual, AllRequests, VirtualRequests
      <3>3. member' = [member EXCEPT ![w] = 1]
        BY <2>3 DEF VirtualRequest
      <3>4. member' \in [Workers -> Nat \ {0}]
        BY <3>3, ProxyParts
      <3> QED BY <2>3, <3>1, <3>2, <3>4 DEF VirtualRequest
    <2>4. ASSUME NEW k \in Keys, VirtualRequest(w, k) PROVE CacheOK(Ask(Virtual(k), Members[1]))
      BY <2>3, <2>4, AskFacts DEF CacheOK, Persists
    <2> QED BY <2>1, <2>2, <2>3, <2>4, AskFacts
  <1>2. /\ ready /\ t[w].pc = "idle" /\ Step(w, x)
        /\ fresh' = fresh \cup {w}
        /\ calm' = IF Busy \subseteq fresh THEN calm \cup {w} ELSE calm \ {w}
        /\ UNCHANGED <<where, objs, manifest, ready, dupCount, steady, taken, changes>>
    BY <1>1 DEF Arrives, requireReady, Idle, storage, counters
  <1>3. TypeInv /\ w \in Procs
    BY ProxyParts, ProcFacts
  <1>4. fresh' \subseteq Procs /\ calm' \subseteq Workers
    BY <1>2, <1>3 DEF TypeInv
  <1>5. TypeInv'
    BY <1>1, <1>2, <1>3, <1>4, TypeStep DEF TypeInv
  <1>6. t'[w] = x /\ \A q \in Procs : q # w => t'[q] = t[q]
    BY <1>1, <1>2, <1>3, StepFacts
  <1> QED BY <1>1, <1>2, <1>5, <1>6

\* The HEAD of a repository: it has the file and serves it, or the upstream is
\* asked, or there is nothing here, or the call failed.
LEMMA HeadCacheStep ==
    ASSUME ProxyInv, NEW w \in Workers, HeadCache(w)
    PROVE  /\ TypeInv' /\ member' \in [Workers -> Nat \ {0}]
           /\ t[w].pc = "head" /\ t'[w].req = t[w].req
           /\ \/ /\ t'[w].pc = "claim" /\ t'[w].hit = t[w].hit /\ Cached(w) \in objs
                 /\ t[w].hit \in Proxies => ~proxyCacheExpired(Cached(w))
              \/ t'[w].pc = "upstream" /\ t'[w].hit = t[w].hit
              \/ t'[w].pc = "head" /\ t'[w].hit \in Bucket /\ t[w].req.op = "virtual"
              \/ t'[w].pc = "idle" /\ t'[w].ans.kind \in {"missing", "failed"}
           /\ \A q \in Procs : q # w => t'[q] = t[q]
           /\ UNCHANGED <<where, objs, manifest, ready, changes, steady, taken, expired, old>>
  <1>1. /\ TypeInv /\ t[w].pc = "head" /\ t[w] \in LocalState /\ LocalOK(w, t[w])
        /\ WorkerOK(t[w])
    BY ProxyParts DEF HeadCache
  <1>2. UNCHANGED <<where, objs, manifest, ready, dupCount, changes, steady, fresh, calm, taken,
                    expired, old>>
    BY DEF HeadCache, Rest, history
  <1>3. ASSUME NEW pc \in {"claim", "upstream"}
        PROVE  LET x == [t[w] EXCEPT !.pc = pc] IN
               x \in LocalState /\ LocalOK(w, x) /\ x.pc = pc /\ x.req = t[w].req
               /\ x.hit = t[w].hit
    <2> DEFINE x == [t[w] EXCEPT !.pc = pc]
    <2>1. /\ x \in LocalState /\ x.pc = pc /\ x.req = t[w].req /\ x.hit = t[w].hit
          /\ x.dups = t[w].dups /\ x.seen = t[w].seen
      BY <1>1 DEF LocalState, CacheSteps
    <2> HIDE DEF x
    <2>2. LocalOK(w, x)
      BY <1>1, <2>1, ProcFacts DEF LocalOK, WorkerOK, CacheSteps
    <2> QED BY <2>1, <2>2 DEF x
  <1>4. /\ member' \in [Workers -> Nat \ {0}]
        /\ \E x \in LocalState :
              /\ Step(w, x) /\ LocalOK(w, x) /\ x.req = t[w].req
              /\ \/ /\ x.pc = "claim" /\ x.hit = t[w].hit /\ Cached(w) \in objs
                    /\ t[w].hit \in Proxies => ~proxyCacheExpired(Cached(w))
                 \/ x.pc = "upstream" /\ x.hit = t[w].hit
                 \/ x.pc = "head" /\ x.hit \in Bucket /\ x.req.op = "virtual"
                 \/ x.pc = "idle" /\ x.ans.kind \in {"missing", "failed"}
    <2>1. CASE /\ Cached(w) \in objs /\ (t[w].hit \in Proxies => ~proxyCacheExpired(Cached(w)))
               /\ Step(w, [t[w] EXCEPT !.pc = "claim"]) /\ UNCHANGED member
      BY <1>3, <2>1, ProxyParts
    <2>2. CASE Step(w, [t[w] EXCEPT !.pc = "upstream"]) /\ UNCHANGED member
      BY <1>3, <2>2, ProxyParts
    <2>3. CASE NothingHere(w)
      BY <1>1, <2>3, NothingHereFacts
    <2>4. CASE Reply(w, Failed) /\ UNCHANGED member
      BY <1>1, <2>4, ProxyParts, AnswerFacts, ReplyFacts
    <2> QED BY <2>1, <2>2, <2>3, <2>4 DEF HeadCache
  <1> QED BY <1>1, <1>2, <1>4, CacheType DEF TypeInv

\* Fetcher.Fetch.
LEMMA FetchUpstreamStep ==
    ASSUME ProxyInv, NEW w \in Workers, FetchUpstream(w)
    PROVE  /\ TypeInv' /\ member' \in [Workers -> Nat \ {0}]
           /\ t[w].pc = "upstream" /\ t'[w].req = t[w].req
           /\ \/ t'[w].pc = "store" /\ t'[w].hit = t[w].hit
              \/ t'[w].pc = "head" /\ t'[w].hit \in Bucket /\ t[w].req.op = "virtual"
              \/ t'[w].pc = "idle" /\ t'[w].ans.kind \in {"missing", "failed"}
           /\ \A q \in Procs : q # w => t'[q] = t[q]
           /\ UNCHANGED <<where, objs, manifest, ready, changes, steady, taken, expired, old>>
  <1>1. /\ TypeInv /\ t[w].pc = "upstream" /\ t[w] \in LocalState /\ LocalOK(w, t[w])
        /\ WorkerOK(t[w])
    BY ProxyParts DEF FetchUpstream
  <1>2. UNCHANGED <<where, objs, manifest, ready, dupCount, changes, steady, fresh, calm, taken,
                    expired, old>>
    BY DEF FetchUpstream, Rest, history
  <1> DEFINE y == [t[w] EXCEPT !.pc = "store"]
  <1>3. y \in LocalState /\ LocalOK(w, y) /\ y.pc = "store" /\ y.req = t[w].req /\ y.hit = t[w].hit
    <2>1. /\ y \in LocalState /\ y.pc = "store" /\ y.req = t[w].req /\ y.hit = t[w].hit
          /\ y.dups = t[w].dups /\ y.seen = t[w].seen
      BY <1>1 DEF LocalState, CacheSteps
    <2> HIDE DEF y
    <2> QED BY <1>1, <2>1, ProcFacts DEF LocalOK, WorkerOK, CacheSteps
  <1> HIDE DEF y
  <1>4. /\ member' \in [Workers -> Nat \ {0}]
        /\ \E x \in LocalState :
              /\ Step(w, x) /\ LocalOK(w, x) /\ x.req = t[w].req
              /\ \/ x.pc = "store" /\ x.hit = t[w].hit
                 \/ x.pc = "head" /\ x.hit \in Bucket /\ x.req.op = "virtual"
                 \/ x.pc = "idle" /\ x.ans.kind \in {"missing", "failed"}
    <2>1. CASE Step(w, y) /\ UNCHANGED member
      BY <1>3, <2>1, ProxyParts
    <2>2. CASE NothingHere(w)
      BY <1>1, <2>2, NothingHereFacts
    <2>3. CASE Reply(w, Failed) /\ UNCHANGED member
      BY <1>1, <2>3, ProxyParts, AnswerFacts, ReplyFacts
    <2> QED BY <2>1, <2>2, <2>3 DEF FetchUpstream, y
  <1> QED BY <1>1, <1>2, <1>4, CacheType DEF TypeInv

\* The PUT into the cache.
LEMMA StoreCacheStep ==
    ASSUME ProxyInv, NEW w \in Workers, StoreCache(w)
    PROVE  /\ TypeInv' /\ member' = member
           /\ t[w].pc = "store" /\ t'[w].req = t[w].req
           /\ \/ /\ t'[w].pc = "claim" /\ t'[w].hit = t[w].hit
                 /\ objs' = objs \cup {Cached(w)} /\ expired' = expired \ {Cached(w)}
                 /\ old' = {x \in old : x[2] # Cached(w)}
              \/ /\ t'[w].pc = "idle" /\ t'[w].ans.kind = "failed"
                 /\ UNCHANGED <<objs, expired, old>>
           /\ \A q \in Procs : q # w => t'[q] = t[q]
           /\ UNCHANGED <<where, manifest, ready, changes, steady, taken>>
  <1>1. /\ TypeInv /\ t[w].pc = "store" /\ t[w] \in LocalState /\ LocalOK(w, t[w])
        /\ WorkerOK(t[w]) /\ CacheOK(t[w]) /\ w \in Procs
    BY ProxyParts, ProcFacts DEF StoreCache
  <1>2. UNCHANGED <<where, manifest, ready, dupCount, changes, steady, fresh, calm, taken, member>>
    BY DEF StoreCache, Rest, history
  <1>3. t[w].hit \in Bucket /\ t[w].req.key \in Keys /\ t[w].req \in AllRequests
    BY <1>1, AnyRequestFacts DEF CacheOK, CacheSteps, WorkerOK
  <1> DEFINE y == [t[w] EXCEPT !.pc = "claim", !.got = {t[w].req.key}]
  <1>4. CASE /\ objs' = objs \cup {Cached(w)} /\ expired' = expired \ {Cached(w)}
             /\ old' = {x \in old : x[2] # Cached(w)} /\ Step(w, y)
    <2>1. /\ y \in LocalState /\ y.pc = "claim" /\ y.req = t[w].req /\ y.hit = t[w].hit
          /\ y.dups = t[w].dups /\ y.seen = t[w].seen
      BY <1>1, <1>3 DEF LocalState, CacheSteps
    <2> HIDE DEF y
    <2>2. LocalOK(w, y)
      BY <1>1, <2>1, ProcFacts DEF LocalOK, WorkerOK, CacheSteps
    <2>3. /\ t' \in [Procs -> LocalState] /\ t'[w] = y
          /\ \A q \in Procs : q # w => t'[q] = t[q]
      BY <1>1, <1>4, <2>1, StepFacts
    <2>4. \A q \in Procs : LocalOK(q, t'[q])
      BY <1>1, <2>2, <2>3 DEF TypeInv
    <2>5. objs' \subseteq Objects
      BY <1>1, <1>3, <1>4 DEF TypeInv, Objects, Cached
    <2>6. TypeInv'
      BY <1>1, <1>2, <1>4, <2>3, <2>4, <2>5 DEF TypeInv
    <2> QED BY <1>1, <1>2, <1>4, <2>1, <2>3, <2>6
  <1>5. CASE Reply(w, Failed) /\ UNCHANGED <<objs, expired, old>>
    BY <1>1, <1>2, <1>5, AnswerFacts, ReplyFacts, CacheType DEF TypeInv
  <1> QED BY <1>4, <1>5 DEF StoreCache

\* registerResolvedObject.
LEMMA ClaimResolvedStep ==
    ASSUME ProxyInv, NEW w \in Workers, ClaimResolved(w)
    PROVE  /\ TypeInv' /\ member' = member
           /\ t[w].pc = "claim" /\ t[w].req.key \in Keys /\ t[w].hit \in Bucket
           /\ Cat!Claim(t[w].req.key, t[w].hit)
           /\ t'[w].pc \in {"read", "persisted"}
           /\ t'[w].req = t[w].req /\ t'[w].hit = t[w].hit
           /\ \A q \in Procs : q # w => t'[q] = t[q]
           /\ UNCHANGED <<objs, manifest, ready, changes, steady, taken, expired, old>>
  <1>1. /\ TypeInv /\ t[w].pc = "claim" /\ t[w] \in LocalState /\ LocalOK(w, t[w])
        /\ WorkerOK(t[w]) /\ CacheOK(t[w])
    BY ProxyParts DEF ClaimResolved
  <1>2. /\ Cat!Claim(t[w].req.key, t[w].hit)
        /\ UNCHANGED <<objs, manifest, ready, dupCount, changes, steady, fresh, calm, taken,
                       member, expired, old>>
    BY DEF ClaimResolved, Rest, history, proxyVars
  <1>3. t[w].hit \in Bucket /\ t[w].req.key \in Keys /\ t[w].req \in AllRequests
    BY <1>1, AnyRequestFacts DEF CacheOK, CacheSteps, WorkerOK
  <1>4. where' \in [Keys -> Bucket \cup {NoBucket}]
    BY <1>1, <1>2, <1>3, ClaimFacts
  <1> DEFINE z == [t[w] EXCEPT !.got = {}]
             y == [z EXCEPT !.pc = "persisted"]
  <1>5. /\ z \in LocalState /\ z.req = t[w].req /\ z.hit = t[w].hit
        /\ z.dups = t[w].dups /\ z.seen = t[w].seen
    BY <1>1 DEF LocalState
  <1>6. Step(w, ToPersist(z)) \/ Step(w, y)
    BY DEF ClaimResolved
  <1> HIDE DEF z
  <1>7. /\ y \in LocalState /\ y.pc = "persisted" /\ y.req = t[w].req /\ y.hit = t[w].hit
        /\ y.dups = t[w].dups /\ y.seen = t[w].seen
    BY <1>5 DEF LocalState, WorkerSteps
  <1> HIDE DEF y
  <1>8. LocalOK(w, y)
    BY <1>1, <1>3, <1>7, ProcFacts DEF LocalOK, WorkerOK, WorkerSteps
  <1>9. LocalOK(w, ToPersist(z))
    BY <1>1, <1>3, <1>5, ToPersistFacts, ProcFacts DEF LocalOK, WorkerOK, WorkerSteps
  <1>10. PICK x \in LocalState :
            /\ Step(w, x) /\ LocalOK(w, x) /\ x.pc \in {"read", "persisted"}
            /\ x.req = t[w].req /\ x.hit = t[w].hit
    BY <1>5, <1>6, <1>7, <1>8, <1>9, ToPersistFacts
  <1>11. TypeInv' /\ t'[w] = x /\ \A q \in Procs : q # w => t'[q] = t[q]
    BY <1>1, <1>2, <1>4, <1>10, CacheType
  <1> QED BY <1>1, <1>2, <1>3, <1>10, <1>11

\* The lookup for a member of the virtual repository.
LEMMA ServeMemberStep ==
    ASSUME ProxyInv, NEW w \in Workers, ServeMember(w)
    PROVE  /\ TypeInv' /\ member' \in [Workers -> Nat \ {0}]
           /\ t[w].pc = "persisted" /\ t[w].req.op = "virtual" /\ t'[w].req = t[w].req
           /\ \/ /\ t'[w].pc = "idle" /\ t'[w].ans.kind = "found"
                 /\ t'[w].ans.bucket = t[w].hit /\ where[t[w].req.key] = t[w].hit
              \/ t'[w].pc = "head" /\ t'[w].hit \in Bucket
              \/ t'[w].pc = "idle" /\ t'[w].ans.kind = "missing"
           /\ \A q \in Procs : q # w => t'[q] = t[q]
           /\ UNCHANGED <<where, objs, manifest, ready, changes, steady, taken, expired, old>>
  <1>1. /\ TypeInv /\ t[w].pc = "persisted" /\ t[w].req.op = "virtual" /\ CacheOK(t[w])
    BY ProxyParts DEF ServeMember
  <1>2. UNCHANGED <<where, objs, manifest, ready, dupCount, changes, steady, fresh, calm, taken,
                    expired, old>>
    BY DEF ServeMember, Rest, history
  <1>3. t[w].hit \in Bucket
    BY <1>1 DEF CacheOK, Persists
  <1>4. CASE Reply(w, Found(t[w].hit)) /\ where[t[w].req.key] = t[w].hit /\ UNCHANGED member
    <2>1. /\ Found(t[w].hit) \in Answers /\ Found(t[w].hit).kind = "found"
          /\ Found(t[w].hit).bucket = t[w].hit
      BY <1>3, AnswerFacts
    <2> QED BY <1>1, <1>2, <1>4, <2>1, ReplyFacts, CacheType, ProxyParts DEF TypeInv
  <1>5. CASE NothingHere(w)
    <2>1. PICK x \in LocalState :
              /\ Step(w, x) /\ LocalOK(w, x) /\ x.req = t[w].req
              /\ \/ x.pc = "head" /\ x.hit \in Bucket
                 \/ x.pc = "idle" /\ x.ans.kind = "missing"
      BY <1>1, <1>5, NothingHereFacts
    <2>2. member' \in [Workers -> Nat \ {0}]
      BY <1>1, <1>5, NothingHereFacts
    <2> QED BY <1>1, <1>2, <2>1, <2>2, CacheType DEF TypeInv
  <1> QED BY <1>4, <1>5 DEF ServeMember
-----------------------------------------------------------------------------
(***************************************************************************)
(* ProxyInv is inductive.                                                  *)
(***************************************************************************)

\* A request that does not move stays young if nothing gets old for it.
LEMMA StaysYoung ==
    ASSUME NEW v \in Workers, YoungInv(v), t'[v] = t[v],
           \A o : <<v, o>> \in old' => <<v, o>> \in old
    PROVE  YoungInv(v)'
  BY DEF YoungInv, Young, Cached

\* One request takes a step, and the others do not.
LEMMA OneMoves ==
    ASSUME ProxyInv, NEW w \in Workers,
           TypeInv', member' \in [Workers -> Nat \ {0}], ExpiryInv',
           CacheOK(t'[w]), YoungInv(w)',
           \A q \in Procs : q # w => t'[q] = t[q],
           \A v \in Workers : \A o : v # w /\ <<v, o>> \in old' => <<v, o>> \in old
    PROVE  ProxyInv'
  <1>1. ASSUME NEW v \in Workers, v # w PROVE CacheOK(t'[v]) /\ YoungInv(v)'
    <2>1. t'[v] = t[v]
      BY <1>1, ProcFacts
    <2>2. \A o : <<v, o>> \in old' => <<v, o>> \in old
      BY <1>1
    <2> QED BY <2>1, <2>2, ProxyParts, StaysYoung
  <1> QED BY <1>1 DEF ProxyInv

\* A request begins.
LEMMA RequestProxy ==
    ASSUME ProxyInv, NEW w \in Workers,
           \/ \E r \in Requests : KnownOrHosted(w, r) \/ ProxyRequest(w, r)
           \/ \E k \in Keys : VirtualRequest(w, k)
    PROVE  ProxyInv'
  <1>1. /\ TypeInv' /\ member' \in [Workers -> Nat \ {0}] /\ UNCHANGED <<objs, expired>>
        /\ CacheOK(t'[w]) /\ t'[w].pc \notin {"idle", "claim"} /\ ~Persists(t'[w])
        /\ Remember(w) /\ \A q \in Procs : q # w => t'[q] = t[q]
    <2>1. ASSUME NEW r \in Requests, KnownOrHosted(w, r)
          PROVE  /\ Request(w, r) /\ Remember(w) /\ UNCHANGED <<expired, member>>
      BY <2>1 DEF KnownOrHosted
    <2>2. ASSUME NEW r \in Requests, Request(w, r)
          PROVE  /\ TypeInv' /\ t'[w].pc \in {"scan", "exists"} /\ UNCHANGED objs
                 /\ \A q \in Procs : q # w => t'[q] = t[q]
      BY <2>2, ProxyParts, RequestStarts
    <2>3. ASSUME NEW r \in Requests, KnownOrHosted(w, r)
          PROVE  CacheOK(t'[w]) /\ ~Persists(t'[w]) /\ t'[w].pc \notin {"idle", "claim"}
      BY <2>1, <2>2, <2>3 DEF CacheOK, Persists, CacheSteps
    <2>4. t'[w].pc = "head" => ~Persists(t'[w]) /\ t'[w].pc \notin {"idle", "claim"}
      BY DEF Persists
    <2> QED BY <2>1, <2>2, <2>3, <2>4, AskStep, ProxyParts
  <1>2. YoungInv(w)'
    BY <1>1 DEF YoungInv
  <1>3. ExpiryInv'
    BY <1>1, ProxyParts DEF ExpiryInv, Remember
  <1>4. \A v \in Workers : \A o : v # w /\ <<v, o>> \in old' => <<v, o>> \in old
    BY <1>1 DEF Remember
  <1> QED BY <1>1, <1>2, <1>3, <1>4, OneMoves

\* A step that a request shares with module Resolver.
LEMMA ResolverProxy ==
    ASSUME ProxyInv, NEW w \in Workers, ResolverStep(w)
    PROVE  ProxyInv'
  <1>1. TypeInv /\ w \in Procs /\ w # Syncer /\ UNCHANGED <<expired, member, old>>
    BY ProxyParts, ProcFacts DEF ResolverStep, proxyVars
  <1>2. /\ TypeInv' /\ UNCHANGED objs /\ t'[w].pc \notin CacheSteps
        /\ \A q \in Procs : q # w => t'[q] = t[q]
        /\ \/ t'[w].req.op # "virtual"
           \/ /\ Persists(t[w]) /\ Persists(t'[w])
              /\ t'[w].req = t[w].req /\ t'[w].hit = t[w].hit
    <2> USE <1>1 DEF CacheSteps
    <2>1. CASE CheckExists(w) \/ Scan(w)
      BY <2>1, CheckExistsStep, ScanStep, RequestFacts
    <2>2. CASE PlaceHit(w) \/ DropKey(w)
      BY <2>2, PlaceHitStep, DropKeyStep, RequestFacts
    <2>3. CASE ReadManifest(w)
      BY <2>3, ReadManifestStep DEF Persists
    <2>4. CASE PutManifest(w)
      BY <2>4, PutManifestStep DEF Persists
    <2>5. CASE t[w].req.op # "virtual" /\ Answer(w)
      BY <2>5, AnswerStep
    <2> QED BY <2>1, <2>2, <2>3, <2>4, <2>5 DEF ResolverStep
  <1>3. CacheOK(t'[w])
    BY <1>2, ProxyParts DEF CacheOK
  <1>4. YoungInv(w)'
    <2>1. CASE t'[w].req.op # "virtual"
      BY <2>1 DEF YoungInv
    <2>2. CASE /\ Persists(t[w]) /\ Persists(t'[w])
               /\ t'[w].req = t[w].req /\ t'[w].hit = t[w].hit
      <3>1. t[w].req.op = "virtual" => Young(w, Cached(w))
        BY <2>2, ProxyParts DEF YoungInv
      <3> QED BY <1>1, <2>2, <3>1 DEF YoungInv, Young, Cached, Persists
    <2> QED BY <1>2, <2>1, <2>2
  <1>5. ExpiryInv'
    BY <1>1, <1>2, ProxyParts DEF ExpiryInv
  <1> QED BY <1>1, <1>2, <1>3, <1>4, <1>5, ProxyParts, OneMoves

\* A step of a request to a repository.
LEMMA CacheProxy ==
    ASSUME ProxyInv, NEW w \in Workers, ProxyStep(w)
    PROVE  ProxyInv'
  <1>1. CacheOK(t[w]) /\ YoungInv(w) /\ ExpiryInv /\ member \in [Workers -> Nat \ {0}]
    BY ProxyParts
  <1>2. CASE HeadCache(w)
    <2>1. /\ TypeInv' /\ member' \in [Workers -> Nat \ {0}] /\ UNCHANGED <<objs, expired, old>>
          /\ t[w].pc = "head" /\ t'[w].req = t[w].req
          /\ \/ /\ t'[w].pc = "claim" /\ t'[w].hit = t[w].hit /\ Cached(w) \in objs
                /\ t[w].hit \in Proxies => ~proxyCacheExpired(Cached(w))
             \/ t'[w].pc = "upstream" /\ t'[w].hit = t[w].hit
             \/ t'[w].pc = "head" /\ t'[w].hit \in Bucket /\ t[w].req.op = "virtual"
             \/ t'[w].pc = "idle" /\ t'[w].ans.kind \in {"missing", "failed"}
          /\ \A q \in Procs : q # w => t'[q] = t[q]
      BY <1>2, HeadCacheStep
    <2>2. CacheOK(t'[w])
      BY <1>1, <2>1 DEF CacheOK, CacheSteps, Persists
    <2>3. t'[w].pc = "claim" => Young(w, Cached(w))
      <3>1. Cached(w)[1] = t[w].hit
        BY DEF Cached
      <3> QED BY <1>1, <2>1, <3>1 DEF ExpiryInv, Young, proxyCacheExpired
    <2>4. YoungInv(w)'
      BY <2>1, <2>3 DEF YoungInv, Young, Cached, Persists
    <2>5. ExpiryInv'
      BY <1>1, <2>1 DEF ExpiryInv
    <2> QED BY <2>1, <2>2, <2>4, <2>5, OneMoves
  <1>3. CASE FetchUpstream(w)
    <2>1. /\ TypeInv' /\ member' \in [Workers -> Nat \ {0}] /\ UNCHANGED <<objs, expired, old>>
          /\ t[w].pc = "upstream" /\ t'[w].req = t[w].req
          /\ \/ t'[w].pc = "store" /\ t'[w].hit = t[w].hit
             \/ t'[w].pc = "head" /\ t'[w].hit \in Bucket /\ t[w].req.op = "virtual"
             \/ t'[w].pc = "idle" /\ t'[w].ans.kind \in {"missing", "failed"}
          /\ \A q \in Procs : q # w => t'[q] = t[q]
      BY <1>3, FetchUpstreamStep
    <2>2. CacheOK(t'[w])
      BY <1>1, <2>1 DEF CacheOK, CacheSteps, Persists
    <2>3. YoungInv(w)'
      BY <2>1 DEF YoungInv, Persists
    <2>4. ExpiryInv'
      BY <1>1, <2>1 DEF ExpiryInv
    <2> QED BY <2>1, <2>2, <2>3, <2>4, OneMoves
  <1>4. CASE StoreCache(w)
    <2>1. /\ TypeInv' /\ member' = member
          /\ t[w].pc = "store" /\ t'[w].req = t[w].req
          /\ \/ /\ t'[w].pc = "claim" /\ t'[w].hit = t[w].hit
                /\ objs' = objs \cup {Cached(w)} /\ expired' = expired \ {Cached(w)}
                /\ old' = {x \in old : x[2] # Cached(w)}
             \/ /\ t'[w].pc = "idle" /\ t'[w].ans.kind = "failed"
                /\ UNCHANGED <<objs, expired, old>>
          /\ \A q \in Procs : q # w => t'[q] = t[q]
      BY <1>4, StoreCacheStep
    <2>2. CacheOK(t'[w])
      BY <1>1, <2>1 DEF CacheOK, CacheSteps, Persists
    <2>3. YoungInv(w)'
      <3>1. CASE t'[w].pc = "claim" /\ old' = {x \in old : x[2] # Cached(w)} /\ t'[w].hit = t[w].hit
        <4>1. <<w, Cached(w)>> \notin old'
          BY <3>1
        <4> QED BY <2>1, <3>1, <4>1 DEF YoungInv, Young, Cached, Persists
      <3>2. CASE t'[w].pc = "idle" /\ t'[w].ans.kind = "failed"
        BY <3>2 DEF YoungInv, Persists
      <3> QED BY <2>1, <3>1, <3>2
    <2>4. ExpiryInv'
      BY <1>1, <2>1 DEF ExpiryInv
    <2>5. \A v \in Workers : \A o : v # w /\ <<v, o>> \in old' => <<v, o>> \in old
      BY <2>1
    <2> QED BY <1>1, <2>1, <2>2, <2>3, <2>4, <2>5, OneMoves
  <1>5. CASE ClaimResolved(w)
    <2>1. /\ TypeInv' /\ member' = member /\ UNCHANGED <<objs, expired, old>>
          /\ t[w].pc = "claim" /\ t'[w].req = t[w].req /\ t'[w].hit = t[w].hit
          /\ t[w].hit \in Bucket /\ t'[w].pc \in {"read", "persisted"}
          /\ \A q \in Procs : q # w => t'[q] = t[q]
      BY <1>5, ClaimResolvedStep
    <2>2. CacheOK(t'[w])
      BY <2>1 DEF CacheOK, CacheSteps
    <2>3. YoungInv(w)'
      BY <1>1, <2>1 DEF YoungInv, Young, Cached
    <2>4. ExpiryInv'
      BY <1>1, <2>1 DEF ExpiryInv
    <2> QED BY <1>1, <2>1, <2>2, <2>3, <2>4, OneMoves
  <1>6. CASE ServeMember(w)
    <2>1. /\ TypeInv' /\ member' \in [Workers -> Nat \ {0}] /\ UNCHANGED <<objs, expired, old>>
          /\ t[w].pc = "persisted" /\ t[w].req.op = "virtual" /\ t'[w].req = t[w].req
          /\ \/ /\ t'[w].pc = "idle" /\ t'[w].ans.kind = "found"
                /\ t'[w].ans.bucket = t[w].hit
             \/ t'[w].pc = "head" /\ t'[w].hit \in Bucket
             \/ t'[w].pc = "idle" /\ t'[w].ans.kind = "missing"
          /\ \A q \in Procs : q # w => t'[q] = t[q]
      BY <1>6, ServeMemberStep
    <2>2. CacheOK(t'[w])
      BY <2>1 DEF CacheOK, CacheSteps, Persists
    <2>3. Young(w, Cached(w))
      BY <1>1, <2>1 DEF YoungInv, Persists
    <2>4. YoungInv(w)'
      BY <2>1, <2>3 DEF YoungInv, Young, Cached, Persists
    <2>5. ExpiryInv'
      BY <1>1, <2>1 DEF ExpiryInv
    <2> QED BY <2>1, <2>2, <2>4, <2>5, OneMoves
  <1> QED BY <1>2, <1>3, <1>4, <1>5, <1>6 DEF ProxyStep

\* Syncs and the bootstrap move no request and change no object.
LEMMA BackgroundMoves ==
    ASSUME TypeInv, SyncerStep \/ BooterStep
    PROVE  /\ TypeInv' /\ UNCHANGED <<objs, steady>>
           /\ \A w \in Workers : t'[w] = t[w]
           /\ SyncerStep => t'[Booter] = t[Booter] /\ ready' = ready
           /\ BooterStep => t'[Syncer] = t[Syncer]
           /\ BooterStep => t[Booter].pc # "up"
  <1>1. TypeInv'
    BY NextTypeInv DEF Next
  <1>2. /\ Workers \subseteq Procs /\ Syncer \in Procs /\ Booter \in Procs /\ Syncer # Booter
        /\ Syncer \notin Workers /\ Booter \notin Workers
    BY ProcFacts
  <1>3. CASE SyncerStep
    <2>1. UNCHANGED <<objs, steady, ready>> /\ \A q \in Procs : q # Syncer => t'[q] = t[q]
      BY <1>2, <1>3, TickStep, ListObjectsStep, RegisterListedStep, CountStep,
         ReadManifestStep, PutManifestStep DEF SyncerStep, SyncStep
    <2>2. ASSUME BooterStep PROVE t'[Syncer] = t[Syncer] /\ t[Booter].pc # "up"
      BY <1>2, <2>2, FetchManifestStep, LoadStep, SetReadyStep, ListObjectsStep,
         RegisterListedStep, CountStep, ReadManifestStep, PutManifestStep DEF BooterStep, SyncStep
    <2> QED BY <1>1, <1>2, <1>3, <2>1, <2>2
  <1>4. CASE BooterStep
    <2>1. /\ UNCHANGED <<objs, steady>> /\ t[Booter].pc # "up"
          /\ \A q \in Procs : q # Booter => t'[q] = t[q]
      BY <1>2, <1>4, FetchManifestStep, LoadStep, SetReadyStep, ListObjectsStep,
         RegisterListedStep, CountStep, ReadManifestStep, PutManifestStep DEF BooterStep, SyncStep
    <2>2. ASSUME SyncerStep PROVE t'[Booter] = t[Booter] /\ ready' = ready
      BY <1>2, <2>2, TickStep, ListObjectsStep, RegisterListedStep, CountStep,
         ReadManifestStep, PutManifestStep DEF SyncerStep, SyncStep
    <2> QED BY <1>1, <1>2, <1>4, <2>1, <2>2
  <1> QED BY <1>3, <1>4

\* Steps that move no request keep ProxyInv.
LEMMA NobodyMoves ==
    ASSUME ProxyInv, TypeInv', UNCHANGED member, ExpiryInv',
           \A w \in Workers : t'[w] = t[w], old' \subseteq old
    PROVE  ProxyInv'
  <1>1. \A w \in Workers : CacheOK(t'[w]) /\ YoungInv(w)'
    BY ProxyParts, StaysYoung
  <1> QED BY <1>1, ProxyParts DEF ProxyInv

\* An object gets too old, and the upstream changes.
LEMMA WorldProxy ==
    ASSUME ProxyInv, (\E o \in Objects : Expire(o)) \/ (\E k \in Keys : UpstreamChange(k))
    PROVE  ProxyInv'
  <1>1. UNCHANGED <<where, objs, manifest, ready, dupCount, t, steady, fresh, calm, member, old>>
    BY DEF Expire, UpstreamChange, vars, history, storage
  <1>2. TypeInv'
    BY <1>1, ProxyParts DEF TypeInv
  <1>3. ExpiryInv'
    <2>1. ASSUME NEW o \in Objects, Expire(o) PROVE ExpiryInv'
      BY <1>1, <2>1, ProxyParts DEF Expire, ExpiryInv
    <2>2. ASSUME NEW k \in Keys, UpstreamChange(k) PROVE ExpiryInv'
      <3>1. UNCHANGED expired
        BY <2>2 DEF UpstreamChange
      <3> QED BY <1>1, <3>1, ProxyParts DEF ExpiryInv
    <2> QED BY <2>1, <2>2
  <1> QED BY <1>1, <1>2, <1>3, NobodyMoves

\* Others change the storage, or the process restarts.
LEMMA StorageProxy ==
    ASSUME ProxyInv, StorageChange
    PROVE  ProxyInv'
  <1>1. /\ Environment /\ expired' = expired \cap objs' /\ old' = {x \in old : x[2] \in objs'}
        /\ UNCHANGED member
    BY DEF StorageChange
  <1>2. TypeInv /\ TypeInv'
    BY <1>1, ProxyParts, NextTypeInv DEF Next
  <1>3. ExpiryInv'
    BY <1>1, ProxyParts DEF ExpiryInv
  <1>4. ASSUME NEW o \in Objects, Upload(o) \/ Delete(o) PROVE ProxyInv'
    <2>1. t' = t
      BY <1>2, <1>4, ChangedStep
    <2> QED BY <1>1, <1>2, <1>3, <2>1, NobodyMoves
  <1>5. CASE Crash
    <2>1. \A w \in Workers : t'[w].pc = "idle" /\ t'[w].req.op = "none"
      BY <1>2, <1>5, CrashStep, ProcFacts DEF NoRequest
    <2>2. \A w \in Workers : CacheOK(t'[w]) /\ YoungInv(w)'
      BY <2>1 DEF CacheOK, YoungInv, CacheSteps, Persists
    <2> QED BY <1>1, <1>2, <1>3, <2>2, ProxyParts DEF ProxyInv
  <1> QED BY <1>1, <1>4, <1>5 DEF Environment

\* ProxyInv holds at the start.
LEMMA InitProxy == ProxyInit => ProxyInv
  <1> SUFFICES ASSUME ProxyInit PROVE ProxyInv
    OBVIOUS
  <1>1. TypeInv
    BY InitTypeInv DEF ProxyInit
  <1>2. \A w \in Workers : t[w].pc = "idle" /\ t[w].req.op = "none"
    BY StartingFacts, ProcFacts DEF ProxyInit, Init, NoRequest
  <1>3. \A w \in Workers : CacheOK(t[w]) /\ YoungInv(w)
    BY <1>2 DEF CacheOK, YoungInv, CacheSteps, Persists
  <1>4. member \in [Workers -> Nat \ {0}] /\ ExpiryInv
    BY DEF ProxyInit, ExpiryInv
  <1> QED BY <1>1, <1>3, <1>4 DEF ProxyInv

\* Every step keeps ProxyInv.
LEMMA NextProxy == ProxyInv /\ [ProxyNext]_allVars => ProxyInv'
  <1> SUFFICES ASSUME ProxyInv, [ProxyNext]_allVars PROVE ProxyInv'
    OBVIOUS
  <1>1. CASE Background
    <2>1. (SyncerStep \/ BooterStep) /\ UNCHANGED <<expired, member, old>>
      BY <1>1 DEF Background, proxyVars
    <2>2. TypeInv' /\ UNCHANGED objs /\ \A w \in Workers : t'[w] = t[w]
      BY <2>1, ProxyParts, BackgroundMoves
    <2>3. ExpiryInv'
      BY <2>1, <2>2, ProxyParts DEF ExpiryInv
    <2> QED BY <2>1, <2>2, <2>3, NobodyMoves
  <1>2. CASE UNCHANGED allVars
    <2>1. UNCHANGED <<where, objs, manifest, ready, dupCount, t, steady, fresh, calm, member,
                      expired, old>>
      BY <1>2 DEF allVars, vars, proxyVars, history
    <2>2. TypeInv'
      BY <2>1, ProxyParts DEF TypeInv
    <2>3. ExpiryInv'
      BY <2>1, ProxyParts DEF ExpiryInv
    <2> QED BY <2>1, <2>2, <2>3, NobodyMoves
  <1> QED BY <1>1, <1>2, RequestProxy, ResolverProxy, CacheProxy, WorldProxy, StorageProxy
          DEF ProxyNext

\* ProxyInv holds in every reachable state.
LEMMA ProxyInductive == ProxySpec => []ProxyInv
  BY InitProxy, NextProxy, PTL DEF ProxySpec

\* A virtual repository does not serve a cached object that had expired when the
\* request began, unless it was fetched again since, for any members and proxies,
\* with any number of requests, expiries, uploads and deletions on the way.
THEOREM VirtualIsFresh == ProxySpec => []VirtualServesFresh
  <1>1. ProxyInv => VirtualServesFresh
    BY ProxyParts DEF VirtualServesFresh, Answered, Idle, YoungInv, Young
  <1> QED BY ProxyInductive, <1>1, PTL
-----------------------------------------------------------------------------
(***************************************************************************)
(* SteadyWins, with the requests to repositories.                          *)
(***************************************************************************)

\* registerResolvedObject settles a key or leaves it settled.
LEMMA ClaimSettles ==
    ASSUME TypeInv, NEW k \in Keys, NEW b \in Bucket, Cat!Claim(k, b),
           UNCHANGED <<steady, taken>>, NEW j \in Keys, Settled(j)
    PROVE  Settled(j)'
  <1>1. /\ \A i \in Keys : i # k => where'[i] = where[i]
        /\ where'[k] \in Bucket
        /\ where[k] # NoBucket => where'[k] <= where[k]
    BY ClaimFacts
  <1>2. CASE j # k
    BY <1>1, <1>2 DEF Settled
  <1>3. CASE j = k
    <2> SUFFICES ASSUME NEW o \in steady, o[2] = k
                 PROVE  where'[k] # NoBucket /\ (where'[k] <= o[1] \/ k \in taken)
      BY <1>3 DEF Settled
    <2>1. where[k] # NoBucket /\ (where[k] <= o[1] \/ k \in taken)
      BY <1>3 DEF Settled
    <2>2. where'[k] # NoBucket
      BY <1>1 DEF Bucket, NoBucket
    <2>3. where[k] \in Int /\ where'[k] \in Int /\ o[1] \in Int
      <3>1. where[k] \in Bucket /\ o[1] \in Bucket
        BY <2>1, ObjectFacts DEF TypeInv
      <3> QED BY <1>1, <3>1 DEF Bucket
    <2> QED BY <1>1, <2>1, <2>2, <2>3
  <1> QED BY <1>2, <1>3

\* A step of a request to a repository keeps SteadyInv.
LEMMA CacheSteady ==
    ASSUME TypeInv, SteadyInv, NEW w \in Workers, t'[w].pc # "scan",
           ready \/ t[w].pc # "idle",
           \A q \in Procs : q # w => t'[q] = t[q],
           UNCHANGED <<ready, steady, taken>>,
           UNCHANGED where \/ \E k \in Keys, b \in Bucket : Cat!Claim(k, b)
    PROVE  SteadyInv'
  <1>1. w # Syncer /\ w # Booter /\ Workers \subseteq Procs /\ Syncer \in Procs /\ Booter \in Procs
    BY ProcFacts
  <1>2. ready /\ t'[Booter] = t[Booter] /\ t'[Syncer] = t[Syncer]
    BY <1>1, SteadyParts
  <1>3. \A v \in Workers : t'[v].pc = "scan" => SearchOK(t'[v], steady)
    BY <1>1, SteadyParts
  <1>4. Promised(t[Booter]) = Keys
    BY <1>2, SteadyParts DEF Promised
  <1>5. \A k \in Keys : Settled(k)'
    <2>1. CASE UNCHANGED where
      BY <1>4, <2>1, SteadyParts DEF Settled
    <2>2. CASE \E k \in Keys, b \in Bucket : Cat!Claim(k, b)
      BY <1>4, <2>2, SteadyParts, ClaimSettles
    <2> QED BY <2>1, <2>2
  <1> QED BY <1>2, <1>3, <1>4, <1>5, SteadyParts DEF SteadyInv

\* Every step of this module keeps SteadyInv.
LEMMA NextProxySteady == ProxyInv /\ SteadyInv /\ [ProxyNext]_allVars => SteadyInv'
  <1> SUFFICES ASSUME ProxyInv, SteadyInv, [ProxyNext]_allVars PROVE SteadyInv'
    OBVIOUS
  <1>1. TypeInv
    BY ProxyParts
  <1>2. ASSUME Next PROVE SteadyInv'
    BY <1>1, <1>2, NextSteady
  <1>3. ASSUME NEW w \in Workers, NEW r \in Requests, KnownOrHosted(w, r) PROVE SteadyInv'
    BY <1>2, <1>3 DEF KnownOrHosted, Next
  <1>4. ASSUME NEW w \in Workers,
               \/ \E r \in Requests : ProxyRequest(w, r)
               \/ \E k \in Keys : VirtualRequest(w, k)
        PROVE  SteadyInv'
    <2>1. /\ ready /\ t'[w].pc = "head" /\ \A q \in Procs : q # w => t'[q] = t[q]
          /\ UNCHANGED <<where, ready, steady, taken>>
      BY <1>4, AskStep
    <2> QED BY <1>1, <2>1, CacheSteady
  <1>5. ASSUME NEW w \in Workers, ResolverStep(w) PROVE SteadyInv'
    <2>1. WorkerStep(w)
      BY <1>5 DEF ResolverStep, WorkerStep
    <2> QED BY <1>2, <2>1 DEF Next
  <1>6. ASSUME NEW w \in Workers, ProxyStep(w) PROVE SteadyInv'
    <2>1. /\ t'[w].pc # "scan" /\ t[w].pc # "idle" /\ \A q \in Procs : q # w => t'[q] = t[q]
          /\ UNCHANGED <<ready, steady, taken>>
          /\ UNCHANGED where \/ \E k \in Keys, b \in Bucket : Cat!Claim(k, b)
      <3>1. CASE HeadCache(w) \/ FetchUpstream(w)
        BY <3>1, HeadCacheStep, FetchUpstreamStep
      <3>2. CASE StoreCache(w) \/ ServeMember(w)
        BY <3>2, StoreCacheStep, ServeMemberStep
      <3>3. CASE ClaimResolved(w)
        BY <3>3, ClaimResolvedStep
      <3> QED BY <1>6, <3>1, <3>2, <3>3 DEF ProxyStep
    <2> QED BY <1>1, <2>1, CacheSteady
  <1>7. CASE Background \/ StorageChange
    BY <1>2, <1>7 DEF Background, StorageChange, Next
  <1>8. CASE (\E o \in Objects : Expire(o)) \/ (\E k \in Keys : UpstreamChange(k))
             \/ UNCHANGED allVars
    <2>1. UNCHANGED <<where, ready, t, steady, taken>>
      BY <1>8 DEF Expire, UpstreamChange, allVars, vars, history
    <2> QED BY <2>1, UnchangedSteady
  <1> QED BY <1>3, <1>4, <1>5, <1>6, <1>7, <1>8 DEF ProxyNext

\* ProxyInv and SteadyInv hold in every reachable state.
LEMMA ProxySteadyInductive == ProxySpec => [](ProxyInv /\ SteadyInv)
  <1>1. ProxyInit => SteadyInv
    BY InitSteady DEF ProxyInit
  <1> QED BY <1>1, ProxyInductive, NextProxySteady, PTL DEF ProxySpec

\* The conflict rule also holds with proxies and virtual repositories: neither a
\* cache that is filled nor a member that is served takes a key away from a file
\* of better rank that has been in storage all along.
THEOREM SteadyFilesWinOverCaches == ProxySpec => []SteadyWins
  <1>1. ASSUME ProxyInv, SteadyInv PROVE SteadyWins
    <2>1. TypeInv
      BY <1>1, ProxyParts
    <2>2. ASSUME ready, NEW o \in steady
          PROVE  where[o[2]] # NoBucket /\ (where[o[2]] <= o[1] \/ o[2] \in taken)
      <3>1. o[2] \in Keys
        BY <2>1, ObjectFacts DEF TypeInv
      <3>2. Promised(t[Booter]) = Keys
        BY <1>1, <2>2, SteadyParts DEF Promised
      <3> QED BY <1>1, <3>1, <3>2, SteadyParts DEF Settled
    <2> QED BY <2>2 DEF SteadyWins
  <1> QED BY ProxySteadyInductive, <1>1, PTL
-----------------------------------------------------------------------------
(***************************************************************************)
(* NeverShadowed.                                                          *)
(***************************************************************************)

\* Once requests are served, the catalog ranks no key below a steady file.
LEMMA SettledForemost ==
    ASSUME SteadyInv, taken = {}, ready, NEW k \in Keys
    PROVE  Foremost(where[k], k)
  <1>1. Settled(k)
    BY SteadyParts DEF Promised
  <1> QED BY <1>1 DEF Settled, Foremost

\* Requests that do not move stay right when steady files get fewer.
LEMMA RankStays ==
    ASSUME NEW w \in Workers, RankOK(w), t'[w] = t[w], steady' \subseteq steady
    PROVE  RankOK(w)'
  BY DEF RankOK, Foremost

\* One request takes a step, and the others do not.
LEMMA RankMoves ==
    ASSUME RankInv, NEW w \in Workers, RankOK(w)', taken' = {},
           \A q \in Procs : q # w => t'[q] = t[q], UNCHANGED steady
    PROVE  RankInv'
  <1>1. ASSUME NEW v \in Workers, v # w PROVE RankOK(v)'
    <2>1. RankOK(v) /\ t'[v] = t[v]
      BY <1>1, ProcFacts DEF RankInv
    <2> QED BY <2>1, RankStays
  <1> QED BY <1>1 DEF RankInv

\* A request begins: the bucket that is checked is the one the catalog names.
LEMMA RequestRank ==
    ASSUME ProxyInv, SteadyInv, RankInv, NEW w \in Workers,
           \/ \E r \in Requests : KnownOrHosted(w, r) \/ ProxyRequest(w, r)
           \/ \E k \in Keys : VirtualRequest(w, k)
    PROVE  RankInv'
  <1>1. TypeInv /\ taken = {}
    BY ProxyParts DEF RankInv
  <1>2. ASSUME NEW r \in Requests, KnownOrHosted(w, r) PROVE RankInv'
    <2>1. Request(w, r)
      BY <1>2 DEF KnownOrHosted
    <2>2. /\ ready /\ t'[w].pc \in {"scan", "exists"} /\ t'[w].req = r
          /\ t'[w].pc = "exists" => t'[w].hit = where[r.key]
          /\ \A q \in Procs : q # w => t'[q] = t[q]
          /\ UNCHANGED <<where, steady, taken>>
      BY <1>1, <2>1, RequestStarts
    <2>3. Foremost(where[r.key], r.key)
      BY <1>1, <2>2, SettledForemost, RequestFacts
    <2>4. RankOK(w)'
      BY <2>2, <2>3 DEF RankOK, Foremost
    <2> QED BY <1>1, <2>2, <2>4, RankMoves
  <1>3. ASSUME \/ \E r \in Requests : ProxyRequest(w, r)
               \/ \E k \in Keys : VirtualRequest(w, k)
        PROVE  RankInv'
    <2>1. /\ t'[w].pc = "head" /\ \A q \in Procs : q # w => t'[q] = t[q]
          /\ UNCHANGED <<steady, taken>>
      BY <1>3, AskStep
    <2>2. RankOK(w)'
      BY <2>1 DEF RankOK
    <2> QED BY <1>1, <2>1, <2>2, RankMoves
  <1> QED BY <1>2, <1>3

\* A request that found something answers what was checked, or what the catalog
\* says; without searches by visibility no key is ever taken.
LEMMA StepRank ==
    ASSUME "type" \notin Ops, ProxyInv, SteadyInv, RankInv, NEW w \in Workers,
           ResolverStep(w) \/ ProxyStep(w)
    PROVE  RankInv'
  <1>1. TypeInv /\ taken = {} /\ RankOK(w) /\ w \in Procs /\ w # Syncer
    BY ProxyParts, ProcFacts DEF RankInv
  <1>2. /\ \A q \in Procs : q # w => t'[q] = t[q]
        /\ UNCHANGED steady /\ taken' = {}
        /\ t'[w].pc # "exists"
        /\ t'[w].pc = "idle" /\ t'[w].ans.kind = "found" =>
              /\ t'[w].req = t[w].req /\ t[w].pc # "idle"
              /\ \/ t[w].pc = "exists" /\ t'[w].ans.bucket = t[w].hit
                 \/ t[w].req \in AllRequests /\ t'[w].ans.bucket = where[t[w].req.key]
    <2>1. CASE CheckExists(w) \/ Scan(w)
      BY <1>1, <2>1, CheckExistsStep, ScanStep
    <2>2. CASE PlaceHit(w)
      BY <1>1, <2>2, PlaceHitStep, RequestFacts
    <2>3. CASE DropKey(w)
      BY <1>1, <2>3, DropKeyStep
    <2>4. CASE ReadManifest(w)
      BY <1>1, <2>4, ReadManifestStep
    <2>5. CASE PutManifest(w)
      BY <1>1, <2>5, PutManifestStep
    <2>6. CASE Answer(w)
      BY <1>1, <2>6, AnswerStep
    <2>7. CASE HeadCache(w) \/ FetchUpstream(w)
      BY <1>1, <2>7, HeadCacheStep, FetchUpstreamStep
    <2>8. CASE StoreCache(w) \/ ClaimResolved(w)
      BY <1>1, <2>8, StoreCacheStep, ClaimResolvedStep
    <2>9. CASE ServeMember(w)
      <3>1. t[w].req \in AllRequests
        BY <2>9, ProxyParts DEF ServeMember, WorkerOK
      <3> QED BY <1>1, <2>9, <3>1, ServeMemberStep
    <2> QED BY <2>1, <2>2, <2>3, <2>4, <2>5, <2>6, <2>7, <2>8, <2>9
            DEF ResolverStep, ProxyStep
  <1>3. RankOK(w)'
    <2> SUFFICES ASSUME t'[w].pc = "idle", t'[w].ans.kind = "found"
                 PROVE  \A o \in steady : o[2] = t'[w].req.key => t'[w].ans.bucket <= o[1]
      BY <1>2 DEF RankOK, Foremost
    <2>1. ready
      BY <1>2, SteadyParts
    <2>2. CASE t[w].pc = "exists" /\ t'[w].ans.bucket = t[w].hit
      BY <1>1, <1>2, <2>2 DEF RankOK, Foremost
    <2>3. CASE t[w].req \in AllRequests /\ t'[w].ans.bucket = where[t[w].req.key]
      <3>1. Foremost(where[t[w].req.key], t[w].req.key)
        BY <1>1, <2>1, <2>3, SettledForemost, AnyRequestFacts
      <3> QED BY <1>2, <2>3, <3>1 DEF Foremost
    <2> QED BY <1>2, <2>2, <2>3
  <1> QED BY <1>2, <1>3, RankMoves

\* Nobody's request moves: syncs and the bootstrap take no key, and others only
\* make steady files fewer.
LEMMA WorldRank ==
    ASSUME ProxyInv, RankInv,
           \/ Background \/ StorageChange \/ UNCHANGED allVars
           \/ \E o \in Objects : Expire(o)
           \/ \E k \in Keys : UpstreamChange(k)
    PROVE  RankInv'
  <1>1. TypeInv /\ taken = {} /\ \A w \in Workers : RankOK(w)
    BY ProxyParts DEF RankInv
  <1>2. ASSUME \A w \in Workers : t'[w] = t[w], steady' \subseteq steady, taken' \subseteq taken
        PROVE  RankInv'
    BY <1>1, <1>2, RankStays DEF RankInv
  <1>3. CASE Background
    <2>1. SyncerStep \/ BooterStep
      BY <1>3 DEF Background
    <2>2. UNCHANGED steady /\ \A w \in Workers : t'[w] = t[w]
      BY <1>1, <2>1, BackgroundMoves
    <2>3. taken' \subseteq taken
      BY <1>1, <2>1, ProcFacts, TickStep, ListObjectsStep, RegisterListedStep, CountStep,
         ReadManifestStep, PutManifestStep, FetchManifestStep, LoadStep, SetReadyStep
         DEF SyncerStep, BooterStep, SyncStep
    <2> QED BY <1>2, <2>2, <2>3
  <1>4. CASE StorageChange
    <2>1. ASSUME NEW o \in Objects, Upload(o) \/ Delete(o) PROVE RankInv'
      <3>1. t' = t /\ steady' \subseteq steady /\ taken' = taken
        BY <1>1, <2>1, ChangedStep
      <3> QED BY <1>2, <3>1
    <2>2. CASE Crash
      <3>1. taken' = {} /\ \A w \in Workers : t'[w].pc = "idle" /\ t'[w].ans.kind = "none"
        BY <1>1, <2>2, CrashStep, ProcFacts
      <3> QED BY <3>1 DEF RankInv, RankOK
    <2> QED BY <1>4, <2>1, <2>2 DEF StorageChange, Environment
  <1>5. CASE \/ UNCHANGED allVars
             \/ \E o \in Objects : Expire(o)
             \/ \E k \in Keys : UpstreamChange(k)
    <2>1. UNCHANGED <<t, steady, taken>>
      BY <1>5 DEF Expire, UpstreamChange, allVars, vars, history
    <2> QED BY <1>2, <2>1
  <1> QED BY <1>3, <1>4, <1>5

\* What is served is never outranked by a file that has been in storage since the
\* process started, for a bucket's route, an update, a relocate, a proxy and a
\* virtual repository alike, with any number of requests, syncs, changes, failures
\* and restarts.  Without the assumption it is false: a GET /private/<key> may
\* leave the key with a bucket of worse rank, and an update answers with that one.
THEOREM ServedIsNeverShadowed ==
    ASSUME "type" \notin Ops
    PROVE  ProxySpec => []NeverShadowed
  <1>1. ProxyInit => RankInv
    <2> SUFFICES ASSUME ProxyInit PROVE RankInv
      OBVIOUS
    <2>1. taken = {} /\ \A w \in Workers : t[w].pc = "idle" /\ t[w].ans.kind = "none"
      BY StartingFacts, ProcFacts DEF ProxyInit, Init
    <2> QED BY <2>1 DEF RankInv, RankOK
  <1>2. ProxyInv /\ SteadyInv /\ RankInv /\ [ProxyNext]_allVars => RankInv'
    BY RequestRank, StepRank, WorldRank DEF ProxyNext
  <1>3. RankInv => NeverShadowed
    BY DEF RankInv, RankOK, Foremost, NeverShadowed, Idle
  <1> QED BY ProxySteadyInductive, <1>1, <1>2, <1>3, PTL DEF ProxySpec
-----------------------------------------------------------------------------
(***************************************************************************)
(* ServedExists.                                                           *)
(***************************************************************************)

\* Requests other than GET /<bucket>/<key> come one by one, if there are any: two
\* of them that overlap may be told "found" with the zero entry.
RoutesOrOneByOne == Ops \subseteq {"route"} \/ \A v, w \in Workers : v = w

\* Only others change the storage in the sense of the counter.
LEMMA NoChange ==
    ASSUME \/ \E w \in Workers, r \in Requests : Request(w, r)
           \/ \E w \in Workers : WorkerStep(w)
           \/ SyncerStep \/ BooterStep \/ Crash
    PROVE  changes' = changes
  <1>1. ASSUME NEW w \in Workers, NEW r \in Requests, Request(w, r) PROVE changes' = changes
    BY <1>1 DEF Request, handleDownload, handleUpdate, handleRelocate, Arrives, counters
  <1>2. ASSUME NEW p, ReadManifest(p) \/ PutManifest(p) PROVE changes' = changes
    BY <1>2 DEF ReadManifest, PutManifest, counters
  <1>3. ASSUME NEW w \in Workers, WorkerStep(w) PROVE changes' = changes
    BY <1>2, <1>3 DEF WorkerStep, CheckExists, Scan, PlaceHit, DropKey, Answer, counters
  <1>4. ASSUME NEW p, SyncStep(p) PROVE changes' = changes
    BY <1>2, <1>4 DEF SyncStep, ListObjects, RegisterListed, CountDuplicates, counters
  <1>5. CASE SyncerStep
    BY <1>4, <1>5 DEF SyncerStep, Tick, counters
  <1>6. CASE BooterStep
    BY <1>4, <1>6 DEF BooterStep, FetchManifest, ClearCatalog, LoadItem, SetReady, counters
  <1>7. CASE Crash
    BY <1>7 DEF Crash
  <1> QED BY <1>1, <1>3, <1>5, <1>6, <1>7

\* What a step of another process may do to the key of the request x.
Keeps(x) ==
    Persists(x) /\ x.hit # NoBucket =>
        \/ where'[x.req.key] = where[x.req.key]
        \/ <<where'[x.req.key], x.req.key>> \in objs'
        \/ where'[x.req.key] = NoBucket /\ x.req.op \in {"route", "virtual"}

\* A request that does not move keeps RealOK.
LEMMA RealStays ==
    ASSUME NEW w \in Workers, RealOK(t[w]), t'[w] = t[w], objs \subseteq objs', Keeps(t[w])
    PROVE  RealOK(t[w])'
  BY DEF RealOK, Real, Keeps

\* A listing stays true when objects are added.
LEMMA ListingStays ==
    ASSUME FreshListing(t[Syncer]), t'[Syncer] = t[Syncer], objs \subseteq objs'
    PROVE  FreshListing(t[Syncer])'
  BY DEF FreshListing

\* One request takes a step, and the others do not.
LEMMA RealMoves ==
    ASSUME RealInv, NEW w \in Workers, changes = 0 => RealOK(t[w])',
           changes' = changes, \A q \in Procs : q # w => t'[q] = t[q], objs \subseteq objs',
           changes = 0 => \A v \in Workers : v # w => Keeps(t[v])
    PROVE  RealInv'
  <1>1. ASSUME changes = 0, NEW v \in Workers, v # w PROVE RealOK(t[v])'
    <2>1. RealOK(t[v]) /\ t'[v] = t[v]
      BY <1>1, ProcFacts DEF RealInv
    <2> QED BY <1>1, <2>1, RealStays
  <1>2. changes = 0 => FreshListing(t[Syncer])'
    BY ProcFacts, ListingStays DEF RealInv
  <1> QED BY <1>1, <1>2 DEF RealInv

\* A request begins.
LEMMA RequestReal ==
    ASSUME ProxyInv, RealInv, NEW w \in Workers,
           \/ \E r \in Requests : KnownOrHosted(w, r) \/ ProxyRequest(w, r)
           \/ \E k \in Keys : VirtualRequest(w, k)
    PROVE  RealInv'
  <1>1. TypeInv
    BY ProxyParts
  <1>2. /\ changes' = changes /\ UNCHANGED <<where, objs>>
        /\ \A q \in Procs : q # w => t'[q] = t[q]
        /\ t'[w].pc \in {"exists", "head"} \/ (t'[w].pc = "scan" /\ t'[w].hit = NoBucket)
    <2>1. ASSUME NEW r \in Requests, KnownOrHosted(w, r) PROVE Request(w, r)
      BY <2>1 DEF KnownOrHosted
    <2> QED BY <1>1, <2>1, RequestStarts, AskStep, NoChange
  <1>3. RealOK(t[w])'
    BY <1>2 DEF RealOK, Persists
  <1>4. \A v \in Workers : Keeps(t[v])
    BY <1>2 DEF Keeps
  <1> QED BY <1>2, <1>3, <1>4, RealMoves

\* A search asks a bucket or ends; what it found is there.
LEMMA SearchReal ==
    ASSUME ProxyInv, RealInv, RoutesOrOneByOne, NEW w \in Workers,
           CheckExists(w) \/ Scan(w) \/ PlaceHit(w) \/ DropKey(w)
    PROVE  RealInv'
  <1>1. TypeInv /\ changes' = changes
    BY ProxyParts, NoChange DEF WorkerStep
  <1>2. changes = 0 => \A v \in Workers : RealOK(t[v])
    BY DEF RealInv
  <1>3. CASE CheckExists(w) \/ Scan(w)
    <2>1. /\ UNCHANGED <<where, objs>> /\ \A q \in Procs : q # w => t'[q] = t[q]
          /\ t[w].pc = "scan" \/ t'[w].pc # "scan" \/ t'[w].hit = NoBucket
          /\ t'[w].req = t[w].req
          /\ \/ t'[w].pc = "scan" /\ t'[w].hit = NoBucket
             \/ /\ t[w].pc = "scan" /\ t'[w].pc = "scan"
                /\ t'[w].hit = t[w].hit \/ <<t'[w].hit, t[w].req.key>> \in objs
             \/ /\ t'[w].pc = "idle"
                /\ t'[w].ans.kind = "failed" \/ <<t'[w].ans.bucket, t[w].req.key>> \in objs
      BY <1>1, <1>3, CheckExistsStep, ScanStep
    <2>2. changes = 0 => RealOK(t[w])'
      BY <1>2, <2>1 DEF RealOK, Persists
    <2>3. \A v \in Workers : Keeps(t[v])
      BY <2>1 DEF Keeps
    <2> QED BY <1>1, <2>1, <2>2, <2>3, RealMoves
  <1>4. CASE PlaceHit(w)
    <2> DEFINE k == t[w].req.key
    <2>1. /\ t[w].pc = "scan" /\ t[w].hit \in Bucket /\ k \in Keys /\ UNCHANGED objs
          /\ t'[w].pc = "read" /\ t'[w].req = t[w].req /\ t'[w].hit = t[w].hit
          /\ \A q \in Procs : q # w => t'[q] = t[q]
          /\ where'[k] = t[w].hit /\ \A j \in Keys : j # k => where'[j] = where[j]
      BY <1>1, <1>4, PlaceHitStep
    <2>2. t[w].hit # NoBucket
      BY <2>1 DEF Bucket, NoBucket
    <2>3. changes = 0 => <<where'[k], k>> \in objs'
      BY <1>2, <2>1, <2>2 DEF RealOK
    <2>4. changes = 0 => RealOK(t[w])'
      BY <2>1, <2>3 DEF RealOK, Real, Persists
    <2>5. ASSUME changes = 0, NEW v \in Workers PROVE Keeps(t[v])
      <3>1. Persists(t[v]) => t[v].req.key \in Keys
        BY ProxyParts, AnyRequestFacts DEF Persists, WorkerOK
      <3> QED BY <2>1, <2>3, <2>5, <3>1 DEF Keeps
    <2> QED BY <1>1, <2>1, <2>4, <2>5, RealMoves
  <1>5. CASE DropKey(w)
    <2> DEFINE k == t[w].req.key
    <2>1. /\ t[w].pc = "scan" /\ k \in Keys /\ UNCHANGED objs
          /\ \/ t'[w].pc = "idle" /\ t'[w].ans.kind = "missing" /\ UNCHANGED where
             \/ /\ t'[w].pc = "read" /\ t'[w].hit = NoBucket
                /\ \A j \in Keys : j # k => where'[j] = where[j]
          /\ \A q \in Procs : q # w => t'[q] = t[q]
      BY <1>1, <1>5, DropKeyStep
    <2>2. RealOK(t[w])'
      BY <2>1 DEF RealOK, Persists
    <2>3. where'[k] \in {where[k], NoBucket}
      BY <1>1, <1>5, <2>1 DEF DropKey, Cat!Drop, TypeInv
    <2>4. ASSUME NEW v \in Workers, v # w PROVE Keeps(t[v])
      <3>1. Persists(t[v]) => t[v].req \in AllRequests /\ t[v].req.key \in Keys
        BY ProxyParts, AnyRequestFacts DEF Persists, WorkerOK
      <3>2. \A r \in AllRequests : r.op \in {"route", "virtual"}
        BY <2>4, RequestFacts DEF RoutesOrOneByOne, AllRequests, VirtualRequests
      <3> QED BY <2>1, <2>3, <3>1, <3>2 DEF Keeps
    <2> QED BY <1>1, <2>1, <2>2, <2>4, RealMoves
  <1> QED BY <1>3, <1>4, <1>5

\* Manifests are written, and the request is answered with what the catalog says.
LEMMA PersistReal ==
    ASSUME ProxyInv, RealInv, NEW w \in Workers,
           ReadManifest(w) \/ PutManifest(w) \/ (t[w].req.op # "virtual" /\ Answer(w))
    PROVE  RealInv'
  <1>1. TypeInv /\ changes' = changes /\ w \in Procs /\ w # Syncer
    BY ProxyParts, ProcFacts, NoChange DEF WorkerStep
  <1>2. changes = 0 => RealOK(t[w])
    BY DEF RealInv
  <1>3. UNCHANGED <<where, objs>> /\ \A q \in Procs : q # w => t'[q] = t[q]
    BY <1>1, ReadManifestStep, PutManifestStep, AnswerStep
  <1>4. changes = 0 => RealOK(t[w])'
    <2>1. CASE ReadManifest(w) \/ PutManifest(w)
      <3>1. /\ Persists(t[w]) /\ Persists(t'[w])
            /\ t'[w].req = t[w].req /\ t'[w].hit = t[w].hit
        BY <1>1, <2>1, ReadManifestStep, PutManifestStep DEF Persists
      <3> QED BY <1>2, <1>3, <3>1 DEF RealOK, Real, Persists
    <2>2. CASE t[w].req.op # "virtual" /\ Answer(w)
      <3> DEFINE r == t[w].req
      <3>1. /\ TypeInv' /\ t[w].pc = "persisted" /\ r \in AllRequests
            /\ t'[w].pc = "idle" /\ t'[w].req = r
            /\ t'[w].ans.kind = "found" =>
                  t[w].hit # NoBucket /\ t'[w].ans.bucket = where[r.key]
        BY <1>1, <2>2, AnswerStep
      <3>2. r \in Requests
        BY <2>2, <3>1 DEF AllRequests, VirtualRequests
      <3>3. r.op = "route" => r.at \in Bucket /\ r.at # NoBucket
        BY <3>2, RequestFacts DEF Bucket, NoBucket
      <3>4. t'[w].ans.kind = "found" /\ r.op = "route" => where[r.key] = r.at
        BY <1>1, <3>1, ProcFacts DEF TypeInv, LocalOK, WorkerOK
      <3>5. changes = 0 /\ t'[w].ans.kind = "found" => <<where[r.key], r.key>> \in objs
        BY <1>2, <2>2, <3>1, <3>3, <3>4 DEF RealOK, Real, Persists
      <3> QED BY <1>3, <3>1, <3>5 DEF RealOK, Persists
    <2> QED BY <2>1, <2>2
  <1>5. \A v \in Workers : Keeps(t[v])
    BY <1>3 DEF Keeps
  <1> QED BY <1>1, <1>3, <1>4, <1>5, RealMoves

\* A request to a repository takes a step: what it claims and serves is there.
LEMMA CacheReal ==
    ASSUME ProxyInv, RealInv, NEW w \in Workers, ProxyStep(w)
    PROVE  RealInv'
  <1>1. TypeInv /\ CacheOK(t[w])
    BY ProxyParts
  <1>2. changes = 0 => RealOK(t[w])
    BY DEF RealInv
  <1>3. ASSUME UNCHANGED <<where, changes>>, objs \subseteq objs',
               \A q \in Procs : q # w => t'[q] = t[q],
               changes = 0 => RealOK(t[w])'
        PROVE  RealInv'
    <2>1. \A v \in Workers : Keeps(t[v])
      BY <1>3 DEF Keeps
    <2> QED BY <1>3, <2>1, RealMoves
  <1>4. CASE HeadCache(w)
    <2>1. /\ UNCHANGED <<where, objs, changes>> /\ t'[w].req = t[w].req
          /\ \/ t'[w].pc = "claim" /\ t'[w].hit = t[w].hit /\ Cached(w) \in objs
             \/ t'[w].pc \in {"upstream", "head"}
             \/ t'[w].pc = "idle" /\ t'[w].ans.kind \in {"missing", "failed"}
          /\ \A q \in Procs : q # w => t'[q] = t[q]
      BY <1>4, HeadCacheStep
    <2>2. RealOK(t[w])'
      BY <2>1 DEF RealOK, Persists, Cached
    <2> QED BY <1>3, <2>1, <2>2
  <1>5. CASE FetchUpstream(w)
    <2>1. /\ UNCHANGED <<where, objs, changes>>
          /\ \/ t'[w].pc \in {"store", "head"}
             \/ t'[w].pc = "idle" /\ t'[w].ans.kind \in {"missing", "failed"}
          /\ \A q \in Procs : q # w => t'[q] = t[q]
      BY <1>5, FetchUpstreamStep
    <2>2. RealOK(t[w])'
      BY <2>1 DEF RealOK, Persists
    <2> QED BY <1>3, <2>1, <2>2
  <1>6. CASE StoreCache(w)
    <2>1. /\ UNCHANGED <<where, changes>> /\ t'[w].req = t[w].req
          /\ \/ t'[w].pc = "claim" /\ t'[w].hit = t[w].hit /\ objs' = objs \cup {Cached(w)}
             \/ t'[w].pc = "idle" /\ t'[w].ans.kind = "failed" /\ UNCHANGED objs
          /\ \A q \in Procs : q # w => t'[q] = t[q]
      BY <1>6, StoreCacheStep
    <2>2. RealOK(t[w])'
      BY <2>1 DEF RealOK, Persists, Cached
    <2> QED BY <1>3, <2>1, <2>2
  <1>7. CASE ClaimResolved(w)
    <2> DEFINE k == t[w].req.key
    <2>1. /\ t[w].pc = "claim" /\ k \in Keys /\ t[w].hit \in Bucket
          /\ Cat!Claim(k, t[w].hit)
          /\ t'[w].pc \in {"read", "persisted"}
          /\ t'[w].req = t[w].req /\ t'[w].hit = t[w].hit
          /\ \A q \in Procs : q # w => t'[q] = t[q]
          /\ UNCHANGED <<objs, changes>>
      BY <1>7, ClaimResolvedStep
    <2>2. t[w].hit # NoBucket
      BY <2>1 DEF Bucket, NoBucket
    <2>3. changes = 0 => <<t[w].hit, k>> \in objs
      BY <1>2, <2>1, <2>2 DEF RealOK
    <2>4. /\ t[w].req.op \in {"route", "virtual"}
          /\ t[w].req.op = "route" => t[w].hit = t[w].req.at
      BY <1>1, <2>1 DEF CacheOK, CacheSteps
    <2>5. changes = 0 => RealOK(t[w])'
      BY <2>1, <2>3, <2>4 DEF RealOK, Persists
    <2>6. where'[k] \in {where[k], t[w].hit} /\ \A j \in Keys : j # k => where'[j] = where[j]
      BY <1>1, <2>1, ClaimFacts
    <2>7. ASSUME changes = 0, NEW v \in Workers PROVE Keeps(t[v])
      <3>1. Persists(t[v]) => t[v].req.key \in Keys
        BY ProxyParts, AnyRequestFacts DEF Persists, WorkerOK
      <3> QED BY <2>1, <2>3, <2>6, <2>7, <3>1 DEF Keeps
    <2> QED BY <2>1, <2>5, <2>7, RealMoves
  <1>8. CASE ServeMember(w)
    <2>1. /\ UNCHANGED <<where, objs, changes>> /\ t[w].pc = "persisted" /\ t'[w].req = t[w].req
          /\ t[w].req.op = "virtual"
          /\ \/ t'[w].pc = "idle" /\ t'[w].ans.kind = "found" /\ t'[w].ans.bucket = t[w].hit
             \/ t'[w].pc = "head"
             \/ t'[w].pc = "idle" /\ t'[w].ans.kind = "missing"
          /\ \A q \in Procs : q # w => t'[q] = t[q]
      BY <1>8, ServeMemberStep
    <2>2. t[w].hit # NoBucket
      BY <1>1, <2>1 DEF CacheOK, Persists, Bucket, NoBucket
    <2>3. changes = 0 => RealOK(t[w])'
      BY <1>2, <2>1, <2>2 DEF RealOK, Persists
    <2> QED BY <1>3, <2>1, <2>3
  <1> QED BY <1>4, <1>5, <1>6, <1>7, <1>8 DEF ProxyStep

\* The sync registers what it has listed.
LEMMA SyncerReal ==
    ASSUME ProxyInv, RealInv, SyncerStep
    PROVE  RealInv'
  <1>1. TypeInv /\ changes' = changes
    BY ProxyParts, NoChange
  <1>2. UNCHANGED objs /\ \A w \in Workers : t'[w] = t[w]
    BY <1>1, BackgroundMoves
  <1>3. changes = 0 => FreshListing(t[Syncer])'
    <2>1. CASE Tick
      BY <1>1, <2>1, TickStep DEF FreshListing
    <2>2. CASE ListObjects(Syncer)
      <3>1. t'[Syncer].pc = "register" =>
                /\ t'[Syncer].todo = t[Syncer].todo
                /\ t'[Syncer].got = {k \in Keys : <<Least(t[Syncer].todo), k>> \in objs}
        BY <1>1, <2>2, ListObjectsStep
      <3> QED BY <1>2, <3>1 DEF FreshListing
    <2>3. CASE RegisterListed(Syncer)
      <3>1. PICK k \in t[Syncer].got :
                /\ t'[Syncer].got = t[Syncer].got \ {k}
                /\ t[Syncer].got \ {k} # {} => t'[Syncer].todo = t[Syncer].todo
        BY <1>1, <2>3, RegisterListedStep
      <3>2. t[Syncer].pc = "register"
        BY <1>1, <2>3, RegisterListedStep
      <3> QED BY <1>2, <3>1, <3>2 DEF RealInv, FreshListing
    <2>4. CASE CountDuplicates(Syncer) \/ ReadManifest(Syncer) \/ PutManifest(Syncer)
      <3>1. t'[Syncer].pc # "register"
        BY <1>1, <2>4, ProcFacts, CountStep, ReadManifestStep, PutManifestStep
      <3> QED BY <3>1 DEF FreshListing
    <2> QED BY <2>1, <2>2, <2>3, <2>4 DEF SyncerStep, SyncStep
  <1>4. ASSUME changes = 0, NEW w \in Workers PROVE Keeps(t[w])
    <2>1. CASE RegisterListed(Syncer)
      <3> DEFINE b == Least(t[Syncer].todo)
      <3>1. PICK k \in t[Syncer].got :
                k \in Keys /\ (where' = where \/ Cat!Claim(k, b))
        BY <1>1, <2>1, RegisterListedStep
      <3>2. t[Syncer].pc = "register" /\ b \in Bucket
        BY <1>1, <2>1, RegisterListedStep, LeastFacts, ProcFacts DEF TypeInv, LocalState
      <3>3. <<b, k>> \in objs
        BY <1>4, <3>1, <3>2 DEF RealInv, FreshListing
      <3>4. /\ where'[k] \in {where[k], b}
            /\ \A j \in Keys : j # k => where'[j] = where[j]
        BY <1>1, <3>1, <3>2, ClaimFacts
      <3>5. Persists(t[w]) => t[w].req.key \in Keys
        BY ProxyParts, AnyRequestFacts DEF Persists, WorkerOK
      <3> QED BY <1>2, <3>3, <3>4, <3>5 DEF Keeps
    <2>2. CASE ~RegisterListed(Syncer)
      <3>1. UNCHANGED where
        BY <1>1, <2>2, ProcFacts, TickStep, ListObjectsStep, CountStep, ReadManifestStep,
           PutManifestStep DEF SyncerStep, SyncStep
      <3> QED BY <3>1 DEF Keeps
    <2> QED BY <2>1, <2>2
  <1>5. changes = 0 => \A w \in Workers : RealOK(t[w])'
    BY <1>2, <1>4, RealStays DEF RealInv
  <1> QED BY <1>1, <1>3, <1>5 DEF RealInv

\* Nothing is asked during the bootstrap.
LEMMA BooterReal ==
    ASSUME ProxyInv, SteadyInv, RealInv, BooterStep
    PROVE  RealInv'
  <1>1. TypeInv /\ changes' = changes
    BY ProxyParts, NoChange
  <1>2. /\ UNCHANGED objs /\ t'[Syncer] = t[Syncer] /\ t[Booter].pc # "up"
        /\ \A w \in Workers : t'[w] = t[w]
    BY <1>1, BackgroundMoves
  <1>3. \A w \in Workers : t[w].pc = "idle"
    BY <1>2, SteadyParts
  <1>4. \A w \in Workers : Keeps(t[w])
    BY <1>3 DEF Keeps, Persists
  <1>5. changes = 0 => \A w \in Workers : RealOK(t[w])'
    BY <1>2, <1>4, RealStays DEF RealInv
  <1>6. changes = 0 => FreshListing(t[Syncer])'
    BY <1>2, ListingStays DEF RealInv
  <1> QED BY <1>1, <1>5, <1>6 DEF RealInv

\* Others change the storage, and the process restarts.
LEMMA WorldReal ==
    ASSUME ProxyInv, RealInv,
           \/ StorageChange \/ UNCHANGED allVars
           \/ \E o \in Objects : Expire(o)
           \/ \E k \in Keys : UpstreamChange(k)
    PROVE  RealInv'
  <1>1. TypeInv /\ changes \in Nat
    BY ProxyParts DEF RealInv
  <1>2. ASSUME changes' = changes + 1 PROVE RealInv'
    BY <1>1, <1>2 DEF RealInv
  <1>3. CASE StorageChange
    <2>1. ASSUME NEW o \in Objects, Upload(o) \/ Delete(o) PROVE RealInv'
      BY <1>2, <2>1 DEF Upload, Delete, Changed
    <2>2. CASE Crash
      <3>1. /\ t'[Syncer].pc = "idle"
            /\ \A w \in Workers : t'[w].pc = "idle" /\ t'[w].ans.kind = "none"
        BY <1>1, <2>2, CrashStep, ProcFacts
      <3>2. FreshListing(t[Syncer])' /\ \A w \in Workers : RealOK(t[w])'
        BY <3>1 DEF FreshListing, RealOK, Persists
      <3> QED BY <1>1, <2>2, <3>2, NoChange DEF RealInv
    <2> QED BY <1>3, <2>1, <2>2 DEF StorageChange, Environment
  <1>4. CASE \E k \in Keys : UpstreamChange(k)
    BY <1>2, <1>4 DEF UpstreamChange
  <1>5. CASE UNCHANGED allVars \/ \E o \in Objects : Expire(o)
    <2>1. UNCHANGED <<where, objs, t, changes>>
      BY <1>5 DEF Expire, allVars, vars, counters
    <2>2. \A w \in Workers : Keeps(t[w])
      BY <2>1 DEF Keeps
    <2>3. changes = 0 => \A w \in Workers : RealOK(t[w])'
      BY <2>1, <2>2, RealStays DEF RealInv
    <2>4. changes = 0 => FreshListing(t[Syncer])'
      BY <2>1, ListingStays DEF RealInv
    <2> QED BY <1>1, <2>1, <2>3, <2>4 DEF RealInv
  <1> QED BY <1>3, <1>4, <1>5

\* As long as nobody else changes the storage or the upstream, whatever is answered
\* "found" is in the bucket it is said to be in, with any number of failed calls,
\* expiries, syncs and restarts.  Without the assumption it is false: a relocate
\* or an update that overlaps another one may be answered with the zero entry
\* (FoundIsReal).
THEOREM ServedFilesExist ==
    ASSUME RoutesOrOneByOne
    PROVE  ProxySpec => []ServedExists
  <1>1. ProxyInit => RealInv
    <2> SUFFICES ASSUME ProxyInit PROVE RealInv
      OBVIOUS
    <2>1. /\ changes = 0 /\ t[Syncer].pc = "idle"
          /\ \A w \in Workers : t[w].pc = "idle" /\ t[w].ans.kind = "none"
      BY StartingFacts, ProcFacts DEF ProxyInit, Init
    <2> QED BY <2>1 DEF RealInv, RealOK, FreshListing, Persists
  <1>2. ProxyInv /\ SteadyInv /\ RealInv /\ [ProxyNext]_allVars => RealInv'
    BY RequestReal, SearchReal, PersistReal, CacheReal, SyncerReal, BooterReal, WorldReal
       DEF ProxyNext, ResolverStep, Background
  <1>3. RealInv => ServedExists
    BY DEF RealInv, RealOK, ServedExists, Idle
  <1> QED BY ProxySteadyInductive, <1>1, <1>2, <1>3, PTL DEF ProxySpec
-----------------------------------------------------------------------------
(***************************************************************************)
(* RelocateDurable.                                                        *)
(***************************************************************************)

\* A relocate begins with a search.
LEMMA RelocateSearches ==
    ASSUME TypeInv, NEW w \in Workers, NEW r \in Requests, Request(w, r), r.op = "relocate"
    PROVE  t'[w].pc = "scan"
  <1>1. Step(w, Search(r))
    BY DEF Request, handleDownload, handleUpdate, handleRelocate, Arrives
  <1>2. w \in DOMAIN t
    BY ProcFacts DEF TypeInv
  <1> QED BY <1>1, <1>2 DEF Step, Search, At

\* A search that is over has all manifests still to write.
LEMMA PersistBegins ==
    ASSUME TypeInv, NEW w \in Workers, PlaceHit(w) \/ DropKey(w), t'[w].pc = "read"
    PROVE  t'[w].todo = Bucket
  <1>1. t[w] \in LocalState /\ w \in DOMAIN t /\ t[w].req \in AllRequests \cup {NoRequest}
    BY ProcFacts DEF TypeInv, LocalState
  <1>2. Step(w, ToPersist(t[w])) \/ Reply(w, Missing)
    BY DEF PlaceHit, DropKey
  <1>3. CASE Step(w, ToPersist(t[w]))
    BY <1>1, <1>3, ToPersistFacts DEF Step
  <1>4. CASE Reply(w, Missing)
    BY <1>1, <1>4 DEF Reply, Step, At
  <1> QED BY <1>2, <1>3, <1>4

\* The manifest of the next bucket is read off the catalog.
LEMMA ManifestIsRead ==
    ASSUME TypeInv, NEW w \in Workers, ReadManifest(w)
    PROVE  /\ t'[w].todo = t[w].todo /\ t'[w].perr = t[w].perr
           /\ t'[w].got = {k \in Keys : where[k] = Least(t[w].todo)}
  <1>1. t[w] \in LocalState /\ w \in DOMAIN t
    BY ProcFacts DEF TypeInv
  <1> QED BY <1>1 DEF ReadManifest, Step, LocalState

\* What was read is what is written, and a write that fails is remembered.
LEMMA ManifestIsWritten ==
    ASSUME TypeInv, NEW w \in Workers, PutManifest(w)
    PROVE  /\ t'[w].todo = t[w].todo \ {Least(t[w].todo)}
           /\ t'[w].pc = IF t'[w].todo # {} THEN "read" ELSE "persisted"
           /\ ~t'[w].perr =>
                 ~t[w].perr /\ manifest' = [manifest EXCEPT ![Least(t[w].todo)] = t[w].got]
           /\ manifest' = manifest
              \/ manifest' = [manifest EXCEPT ![Least(t[w].todo)] = t[w].got]
  <1>1. w \in Procs /\ w # Syncer /\ w \in DOMAIN t
    BY ProcFacts DEF TypeInv
  <1>2. PICK failed \in BOOLEAN :
            /\ Step(w, Written(w, failed))
            /\ ~failed => manifest' = [manifest EXCEPT ![Least(t[w].todo)] = t[w].got]
            /\ failed => manifest' = manifest
    BY DEF PutManifest
  <1>3. t'[w] = Written(w, failed)
    BY <1>1, <1>2 DEF Step
  <1> QED BY <1>1, <1>2, <1>3, WrittenFacts

\* A relocate whose manifests could not all be written does not say "found".
LEMMA RelocateAdmits ==
    ASSUME TypeInv, NEW w \in Workers, Answer(w), t[w].req.op = "relocate",
           t'[w].ans.kind = "found"
    PROVE  ~t[w].perr
  <1> SUFFICES ASSUME t[w].perr PROVE FALSE
    OBVIOUS
  <1>1. w \in DOMAIN t
    BY ProcFacts DEF TypeInv
  <1>2. PICK a \in {Missing, Failed} : Reply(w, a)
    BY DEF Answer
  <1>3. t'[w].ans = a
    BY <1>1, <1>2 DEF Reply, Step, At
  <1> QED BY <1>2, <1>3, AnswerFacts

\* A manifest write of a relocate brings it one bucket further.
LEMMA WriteDurable ==
    ASSUME TypeInv, NEW w \in Workers, PutManifest(w), DurableOK(t[w])
    PROVE  DurableOK(t[w])'
  <1> SUFFICES ASSUME t'[w].req.op = "relocate" PROVE DurableOK(t[w])'
    BY DEF DurableOK
  <1> DEFINE k == t[w].req.key
             c == Least(t[w].todo)
  <1>1. /\ t[w].pc = "put" /\ t'[w].req = t[w].req /\ UNCHANGED where
    BY ProcFacts, PutManifestStep
  <1>2. /\ t'[w].todo = t[w].todo \ {c}
        /\ t'[w].pc = IF t'[w].todo # {} THEN "read" ELSE "persisted"
        /\ ~t'[w].perr => ~t[w].perr /\ manifest' = [manifest EXCEPT ![c] = t[w].got]
    BY ManifestIsWritten
  <1>3. /\ c \in t[w].todo /\ c \in Bucket /\ t[w].req \in AllRequests /\ k \in Keys
    <2>1. t[w].todo \in SUBSET Bucket /\ t[w].todo # {} /\ t[w].req \in AllRequests
      BY <1>1, ProcFacts DEF TypeInv, LocalState, LocalOK, WorkerOK
    <2> QED BY <2>1, LeastFacts, AnyRequestFacts
  <1>4. ASSUME NEW b \in Bucket \ t'[w].todo, where[k] = b, ~t'[w].perr
        PROVE  k \in manifest'[b]
    <2>1. manifest' = [manifest EXCEPT ![c] = t[w].got] /\ ~t[w].perr
      BY <1>2, <1>4
    <2>2. CASE b = c
      <3>1. k \in t[w].got
        BY <1>1, <1>3, <1>4, <2>2 DEF DurableOK
      <3> QED BY <1>3, <2>1, <2>2, <3>1 DEF TypeInv
    <2>3. CASE b # c
      <3>1. b \in Bucket \ t[w].todo
        BY <1>2, <1>4, <2>3
      <3>2. k \in manifest[b]
        BY <1>1, <1>4, <2>1, <3>1 DEF DurableOK
      <3> QED BY <2>1, <2>3, <3>1, <3>2 DEF TypeInv
    <2> QED BY <2>2, <2>3
  <1>5. t'[w].pc = "persisted" => t'[w].todo = {}
    BY <1>2
  <1> QED BY <1>1, <1>2, <1>4, <1>5 DEF DurableOK

\* Every step of the only request keeps DurableOK.
LEMMA StepDurable ==
    ASSUME ProxyInv, NEW w \in Workers, DurableOK(t[w]), ResolverStep(w) \/ ProxyStep(w)
    PROVE  DurableOK(t[w])'
  <1>1. TypeInv /\ w \in Procs /\ w # Syncer /\ CacheOK(t[w])
    BY ProxyParts, ProcFacts
  <1>2. CASE CheckExists(w)
    <2>1. t[w].pc = "exists" /\ t'[w].req = t[w].req
      BY <1>1, <1>2, CheckExistsStep
    <2> QED BY <2>1 DEF DurableOK
  <1>3. CASE Scan(w)
    <2>1. t'[w].pc = "scan" \/ (t'[w].pc = "idle" /\ t'[w].ans.kind = "failed")
      BY <1>1, <1>3, ScanStep
    <2> QED BY <2>1 DEF DurableOK
  <1>4. CASE PlaceHit(w) \/ DropKey(w)
    <2>1. t'[w].pc = "read" \/ (t'[w].pc = "idle" /\ t'[w].ans.kind = "missing")
      BY <1>1, <1>4, PlaceHitStep, DropKeyStep
    <2>2. t'[w].pc = "read" => t'[w].todo = Bucket
      BY <1>1, <1>4, PersistBegins
    <2> QED BY <2>1, <2>2 DEF DurableOK
  <1>5. CASE ReadManifest(w)
    <2>1. /\ t[w].pc = "read" /\ t'[w].pc = "put" /\ t'[w].req = t[w].req
          /\ UNCHANGED <<where, manifest>>
      BY <1>1, <1>5, ReadManifestStep
    <2>2. /\ t'[w].todo = t[w].todo /\ t'[w].perr = t[w].perr
          /\ t'[w].got = {k \in Keys : where[k] = Least(t[w].todo)}
      BY <1>1, <1>5, ManifestIsRead
    <2> QED BY <2>1, <2>2 DEF DurableOK
  <1>6. CASE PutManifest(w)
    BY <1>1, <1>6, WriteDurable
  <1>7. CASE Answer(w)
    <2>1. /\ t[w].pc = "persisted" /\ t'[w].pc = "idle" /\ t'[w].req = t[w].req
          /\ UNCHANGED <<where, manifest>>
      BY <1>1, <1>7, AnswerStep
    <2>2. t[w].req.op = "relocate" /\ t'[w].ans.kind = "found" => ~t[w].perr
      BY <1>1, <1>7, RelocateAdmits
    <2> QED BY <2>1, <2>2 DEF DurableOK
  <1>8. CASE ProxyStep(w)
    <2>1. t'[w].req = t[w].req /\ (t[w].pc \in CacheSteps \/ t[w].req.op = "virtual")
      BY <1>8, HeadCacheStep, FetchUpstreamStep, StoreCacheStep, ClaimResolvedStep,
         ServeMemberStep DEF ProxyStep, CacheSteps
    <2>2. t'[w].req.op # "relocate"
      BY <1>1, <2>1 DEF CacheOK
    <2> QED BY <2>2 DEF DurableOK
  <1> QED BY <1>2, <1>3, <1>4, <1>5, <1>6, <1>7, <1>8 DEF ResolverStep

\* Every step keeps DurableInv if there is neither a sync nor a second request.
LEMMA NextDurable ==
    ASSUME ~SyncOn, \A v, w \in Workers : v = w
    PROVE  ProxyInv /\ SteadyInv /\ DurableInv /\ [ProxyNext]_allVars => DurableInv'
  <1> SUFFICES ASSUME ProxyInv, SteadyInv, DurableInv, [ProxyNext]_allVars
               PROVE  DurableInv'
    OBVIOUS
  <1>1. /\ TypeInv /\ t[Syncer].pc = "idle" /\ Syncer \in Procs /\ Workers \subseteq Procs
        /\ Syncer \notin Workers
        /\ \A w \in Workers : DurableOK(t[w]) /\ (~ready => t[w].req = NoRequest)
    BY ProxyParts, ProcFacts DEF DurableInv
  <1>2. ASSUME NEW w \in Workers, \A q \in Procs : q # w => t'[q] = t[q],
               ready, ready' = ready, DurableOK(t[w])'
        PROVE  DurableInv'
    <2>1. t'[Syncer].pc = "idle"
      BY <1>1, <1>2
    <2> QED BY <1>2, <2>1 DEF DurableInv
  <1>3. ASSUME NEW w \in Workers, NEW r \in Requests, KnownOrHosted(w, r) PROVE DurableInv'
    <2>1. Request(w, r)
      BY <1>3 DEF KnownOrHosted
    <2>2. /\ ready /\ ready' = ready /\ t'[w].pc \in {"scan", "exists"} /\ t'[w].req = r
          /\ \A q \in Procs : q # w => t'[q] = t[q]
      BY <1>1, <2>1, RequestStarts
    <2>3. r.op = "relocate" => t'[w].pc = "scan"
      BY <1>1, <2>1, RelocateSearches
    <2>4. DurableOK(t[w])'
      BY <2>2, <2>3 DEF DurableOK
    <2> QED BY <1>2, <2>2, <2>4
  <1>4. ASSUME NEW w \in Workers,
               \/ \E r \in Requests : ProxyRequest(w, r)
               \/ \E k \in Keys : VirtualRequest(w, k)
        PROVE  DurableInv'
    <2>1. /\ ready /\ ready' = ready /\ t'[w].pc = "head"
          /\ \A q \in Procs : q # w => t'[q] = t[q]
      BY <1>4, AskStep
    <2>2. DurableOK(t[w])'
      BY <2>1 DEF DurableOK
    <2> QED BY <1>2, <2>1, <2>2
  <1>5. ASSUME NEW w \in Workers, ResolverStep(w) \/ ProxyStep(w) PROVE DurableInv'
    <2>1. DurableOK(t[w])'
      BY <1>1, <1>5, StepDurable
    <2>2. /\ \A q \in Procs : q # w => t'[q] = t[q]
          /\ ready' = ready /\ t[w].pc # "idle"
      <3>1. ASSUME ResolverStep(w)
            PROVE  /\ \A q \in Procs : q # w => t'[q] = t[q]
                   /\ ready' = ready /\ t[w].pc # "idle"
        BY <1>1, <3>1, CheckExistsStep, ScanStep, PlaceHitStep, DropKeyStep,
           ReadManifestStep, PutManifestStep, AnswerStep DEF ResolverStep
      <3>2. ASSUME ProxyStep(w)
            PROVE  /\ \A q \in Procs : q # w => t'[q] = t[q]
                   /\ ready' = ready /\ t[w].pc # "idle"
        BY <3>2, HeadCacheStep, FetchUpstreamStep, StoreCacheStep, ClaimResolvedStep,
           ServeMemberStep DEF ProxyStep
      <3> QED BY <1>5, <3>1, <3>2
    <2>3. ready
      BY <2>2, SteadyParts
    <2> QED BY <1>2, <2>1, <2>2, <2>3
  <1>6. CASE Background
    <2>1. BooterStep
      <3>1. ~SyncerStep
        BY <1>1, ListObjectsStep, RegisterListedStep, CountStep, ReadManifestStep,
           PutManifestStep DEF SyncerStep, SyncStep, Tick
      <3> QED BY <1>6, <3>1 DEF Background
    <2>2. /\ t'[Syncer] = t[Syncer] /\ t[Booter].pc # "up"
          /\ \A w \in Workers : t'[w] = t[w]
      BY <1>1, <2>1, BackgroundMoves
    <2>3. \A w \in Workers : t'[w].req = NoRequest
      BY <1>1, <2>2, SteadyParts
    <2>4. \A w \in Workers : DurableOK(t[w])'
      BY <2>3 DEF DurableOK, NoRequest
    <2> QED BY <1>1, <2>2, <2>3, <2>4 DEF DurableInv
  <1>7. CASE StorageChange
    <2>1. ASSUME NEW o \in Objects, Upload(o) \/ Delete(o) PROVE DurableInv'
      <3>1. UNCHANGED <<where, manifest, ready, t>>
        BY <1>1, <2>1, ChangedStep
      <3> QED BY <1>1, <3>1 DEF DurableInv, DurableOK
    <2>2. CASE Crash
      <3>1. /\ t'[Syncer].pc = "idle" /\ \A w \in Workers : t'[w].req = NoRequest
        BY <1>1, <2>2, CrashStep, ProcFacts
      <3> QED BY <3>1 DEF DurableInv, DurableOK, NoRequest
    <2> QED BY <1>7, <2>1, <2>2 DEF StorageChange, Environment
  <1>8. CASE \/ UNCHANGED allVars
             \/ \E o \in Objects : Expire(o)
             \/ \E k \in Keys : UpstreamChange(k)
    <2>1. UNCHANGED <<where, manifest, ready, t>>
      BY <1>8 DEF Expire, UpstreamChange, allVars, vars, storage
    <2> QED BY <1>1, <2>1 DEF DurableInv, DurableOK
  <1> QED BY <1>3, <1>4, <1>5, <1>6, <1>7, <1>8 DEF ProxyNext

\* A relocate that reports success is durable, with any number of failed calls,
\* changes of the storage and restarts, if requests come one by one and the periodic
\* sync is off.  Without either assumption it is false: PersistManifests reads a
\* bucket's manifest off the catalog and writes it later, and what another process
\* read before the relocate may overwrite what the relocate wrote (run RelocateLost).
THEOREM RelocatesAreDurable ==
    ASSUME ~SyncOn, \A v, w \in Workers : v = w
    PROVE  ProxySpec => []RelocateDurable
  <1>1. ProxyInit => DurableInv
    <2> SUFFICES ASSUME ProxyInit PROVE DurableInv
      OBVIOUS
    <2>1. t[Syncer].pc = "idle" /\ \A w \in Workers : t[w].req = NoRequest
      BY StartingFacts, ProcFacts DEF ProxyInit, Init
    <2> QED BY <2>1 DEF DurableInv, DurableOK, NoRequest
  <1>2. ProxyInv /\ SteadyInv /\ DurableInv /\ [ProxyNext]_allVars => DurableInv'
    BY NextDurable
  <1>3. ProxyInv /\ DurableInv => RelocateDurable
    <2> SUFFICES ASSUME ProxyInv, DurableInv, NEW w \in Workers,
                        t[w].pc = "idle", t[w].req.op = "relocate", t[w].ans.kind = "found",
                        where[t[w].req.key] = t[w].ans.bucket, t[w].ans.bucket # NoBucket
                 PROVE  t[w].req.key \in manifest[t[w].ans.bucket]
      BY DEF RelocateDurable, Answered, Idle
    <2>1. t[w].ans.bucket \in Bucket
      BY ProxyParts DEF LocalState, Answers
    <2> QED BY <2>1 DEF DurableInv, DurableOK
  <1> QED BY ProxySteadyInductive, <1>1, <1>2, <1>3, PTL DEF ProxySpec
=============================================================================
