----------------------------- MODULE ProxyRoutes -----------------------------
(***************************************************************************)
(* Proxy and virtual repositories on top of module Resolver: some of the   *)
(* buckets with storage are caches of an upstream, and one virtual         *)
(* repository without storage lists buckets as its members.  Everything    *)
(* module Resolver models (sync, bootstrap, searches, persisting) treats a *)
(* cache bucket like any other.                                            *)
(*                                                                         *)
(* Time is reduced to what CacheTTL can tell apart: a cached object is     *)
(* younger than the TTL, or it is in expired.  A PUT makes it young again. *)
(* The upstream is the set of keys it has; proxycache.Fetch answers with a *)
(* body, with a 404 or with an error.                                      *)
(***************************************************************************)
EXTENDS Resolver, Sequences

CONSTANTS
    Proxies,    \* the buckets of kind proxy
    TTLSet,     \* CacheTTL > 0
    Members     \* the members of the virtual repository, in order

ASSUME ProxyAssumption ==
    /\ Proxies \subseteq Bucket
    /\ TTLSet \in BOOLEAN
    /\ Members \in Seq(Bucket)

VARIABLES
    expired,    \* cached objects whose LastModified is longer ago than the TTL
    upstream,   \* keys the upstream has
    member,     \* worker -> position in Members it is trying
    \* History, read by the properties only:
    old         \* <<worker, object>>: expired when the worker's request began,
                \* and neither fetched again nor deleted since

proxyVars == <<expired, upstream, member, old>>
allVars == <<vars, proxyVars>>

\* The object the worker is working on.
Cached(w) == <<t[w].hit, t[w].req.key>>

Virtual(k) == [op |-> "virtual", key |-> k]

\* The catalog and the bookkeeping a request path leaves alone.
Rest == <<manifest, ready, dupCount, changes, crashes, history>>

\* What is expired when a request of w begins.
Remember(w) == old' = {x \in old : x[1] # w} \cup ({w} \X expired)

(***************************************************************************)
(* ResolveRoute.  A route the catalog knows is served or searched for like *)
(* any other, whatever its bucket's kind; only an unknown route to a proxy *)
(* goes to resolveProxyRoute.                                              *)
(***************************************************************************)
KnownOrHosted(w, r) ==
    /\ r.op = "route" /\ r.at \in Proxies => where[r.key] = r.at
    /\ Request(w, r)
    /\ Remember(w)
    /\ UNCHANGED <<expired, upstream, member>>

\* The repository b is asked for the key.
Ask(r, b) == [At("head", r, NoAnswer) EXCEPT !.hit = b]

ProxyRequest(w, r) ==
    /\ r.op = "route"
    /\ r.at \in Proxies
    /\ where[r.key] # r.at
    /\ Arrives(w, Ask(r, r.at))
    /\ Remember(w)
    /\ UNCHANGED <<expired, upstream, member>>

VirtualRequest(w, k) ==
    /\ Members # <<>>
    /\ Arrives(w, Ask(Virtual(k), Members[1]))
    /\ Remember(w)
    /\ member' = [member EXCEPT ![w] = 1]
    /\ UNCHANGED <<expired, upstream>>

\* This repository or member has nothing to serve: the route of a proxy is
\* answered "missing", a virtual repository tries its next member.
NothingHere(w) ==
    IF t[w].req.op = "virtual" /\ member[w] < Len(Members)
    THEN /\ member' = [member EXCEPT ![w] = @ + 1]
         /\ Step(w, Ask(t[w].req, Members[member[w] + 1]))
    ELSE Reply(w, Missing) /\ UNCHANGED member

\* proxyCacheExpired: only a TTL greater than zero expires anything.
NeverExpired(o) == FALSE   \* faulty
proxyCacheExpired(o) == TTLSet /\ o \in expired

\* The HEAD of resolveProxyRoute or resolveHostedMemberRoute.
HeadCache(w) ==
    LET isProxy == t[w].hit \in Proxies
        here == Cached(w) \in objs
    IN  /\ t[w].pc = "head"
        /\ \/ /\ here /\ (isProxy => ~proxyCacheExpired(Cached(w)))
              /\ Step(w, [t[w] EXCEPT !.pc = "claim"])
              /\ UNCHANGED <<errors, member>>
           \/ /\ isProxy /\ (here => proxyCacheExpired(Cached(w)))
              /\ Step(w, [t[w] EXCEPT !.pc = "upstream"])
              /\ UNCHANGED <<errors, member>>
           \/ /\ ~isProxy /\ ~here
              /\ NothingHere(w)
              /\ UNCHANGED errors
           \/ /\ CallFails
              /\ Reply(w, Failed)
              /\ UNCHANGED member
        /\ UNCHANGED <<where, objs, Rest, expired, upstream, old>>

\* Fetcher.Fetch.
FetchUpstream(w) ==
    /\ t[w].pc = "upstream"
    /\ \/ /\ t[w].req.key \in upstream
          /\ Step(w, [t[w] EXCEPT !.pc = "store"])
          /\ UNCHANGED <<errors, member>>
       \/ /\ t[w].req.key \notin upstream
          /\ NothingHere(w)
          /\ UNCHANGED errors
       \/ /\ CallFails
          /\ Reply(w, Failed)
          /\ UNCHANGED member
    /\ UNCHANGED <<where, objs, Rest, expired, upstream, old>>

\* The PUT into the cache bucket.  (got # {} marks that registerResolvedObject
\* is to persist.)
StoreIgnoringError(w) ==   \* faulty
    /\ t[w].pc = "store"
    /\ \/ /\ objs' = objs \cup {Cached(w)}
          /\ expired' = expired \ {Cached(w)}
          /\ old' = {x \in old : x[2] # Cached(w)}
          /\ UNCHANGED errors
       \/ /\ CallFails
          /\ UNCHANGED <<objs, expired, old>>
    /\ Step(w, [t[w] EXCEPT !.pc = "claim", !.got = {t[w].req.key}])
    /\ UNCHANGED <<where, Rest, upstream, member>>
StoreCache(w) ==
    /\ t[w].pc = "store"
    /\ \/ /\ objs' = objs \cup {Cached(w)}
          /\ expired' = expired \ {Cached(w)}
          /\ old' = {x \in old : x[2] # Cached(w)}
          /\ Step(w, [t[w] EXCEPT !.pc = "claim", !.got = {t[w].req.key}])
          /\ UNCHANGED errors
       \/ /\ CallFails
          /\ Reply(w, Failed)
          /\ UNCHANGED <<objs, expired, old>>
    /\ UNCHANGED <<where, Rest, upstream, member>>

\* registerResolvedObject: Register, and persist unless it is a hit in a cache.
ClaimBySet(w) ==   \* faulty
    LET persists == t[w].got # {} \/ t[w].hit \notin Proxies
        x == [t[w] EXCEPT !.got = {}]
    IN  /\ t[w].pc = "claim"
        /\ Cat!Place(t[w].req.key, t[w].hit)
        /\ Step(w, IF persists THEN ToPersist(x) ELSE [x EXCEPT !.pc = "persisted"])
        /\ UNCHANGED <<objs, errors, Rest, proxyVars>>
ClaimResolved(w) ==
    LET persists == t[w].got # {} \/ t[w].hit \notin Proxies
        x == [t[w] EXCEPT !.got = {}]
    IN  /\ t[w].pc = "claim"
        /\ Cat!Claim(t[w].req.key, t[w].hit)
        /\ Step(w, IF persists THEN ToPersist(x) ELSE [x EXCEPT !.pc = "persisted"])
        /\ UNCHANGED <<objs, errors, Rest, proxyVars>>

\* ... and the lookup that follows, for a member of the virtual repository:
\* only the member that owns the key now is served.  (For the route of a proxy
\* this is Answer of module Resolver.)
ServeAnyOwner(w) ==   \* faulty
    /\ t[w].pc = "persisted"
    /\ t[w].req.op = "virtual"
    /\ Reply(w, Found(t[w].hit))
    /\ UNCHANGED <<where, objs, errors, Rest, proxyVars>>
ServeMember(w) ==
    /\ t[w].pc = "persisted"
    /\ t[w].req.op = "virtual"
    /\ IF where[t[w].req.key] = t[w].hit
       THEN Reply(w, Found(t[w].hit)) /\ UNCHANGED member
       ELSE NothingHere(w)
    /\ UNCHANGED <<where, objs, errors, Rest, expired, upstream, old>>
-----------------------------------------------------------------------------
(***************************************************************************)
(* The world around the process.                                           *)
(***************************************************************************)

\* A cached object gets older than the TTL.
Expire(o) ==
    /\ o \in objs \ expired
    /\ o[1] \in Proxies
    /\ expired' = expired \cup {o}
    /\ UNCHANGED <<vars, upstream, member, old>>

\* The upstream publishes or withdraws a key.
UpstreamChange(k) ==
    /\ changes < MaxChanges
    /\ changes' = changes + 1
    /\ upstream' = IF k \in upstream THEN upstream \ {k} ELSE upstream \cup {k}
    /\ UNCHANGED <<where, storage, ready, dupCount, t, errors, crashes, history,
                   expired, member, old>>

StorageChange ==
    /\ Environment
    /\ expired' = expired \cap objs'
    /\ old' = {x \in old : x[2] \in objs'}
    /\ UNCHANGED <<upstream, member>>
-----------------------------------------------------------------------------
ProxyInit ==
    /\ Init
    /\ expired = {}
    /\ upstream \in SUBSET Keys
    /\ member = [w \in Workers |-> 1]
    /\ old = {}

ResolverStep(w) ==
    /\ \/ CheckExists(w) \/ Scan(w) \/ PlaceHit(w) \/ DropKey(w)
       \/ ReadManifest(w) \/ PutManifest(w)
       \/ t[w].req.op # "virtual" /\ Answer(w)
    /\ UNCHANGED proxyVars

ProxyStep(w) ==
    \/ HeadCache(w) \/ FetchUpstream(w) \/ StoreCache(w) \/ ClaimResolved(w)
    \/ ServeMember(w)

Background == (SyncerStep \/ BooterStep) /\ UNCHANGED proxyVars

ProxyNext ==
    \/ \E w \in Workers, r \in Requests : KnownOrHosted(w, r) \/ ProxyRequest(w, r)
    \/ \E w \in Workers, k \in Keys : VirtualRequest(w, k)
    \/ \E w \in Workers : ResolverStep(w) \/ ProxyStep(w)
    \/ Background
    \/ \E o \in Objects : Expire(o)
    \/ \E k \in Keys : UpstreamChange(k)
    \/ StorageChange

ProxySpec == ProxyInit /\ [][ProxyNext]_allVars
-----------------------------------------------------------------------------
(***************************************************************************)
(* Properties.                                                             *)
(***************************************************************************)

\* Through the virtual repository, a cached object that had expired when the
\* request began is not served before it is fetched again.
VirtualServesFresh ==
    \A w \in Workers :
        Answered(w, "virtual") /\ t[w].ans.kind = "found" =>
            <<w, <<t[w].ans.bucket, t[w].req.key>>>> \notin old \/ ~TTLSet

\* The copy that is served is never outranked by another copy that has been in
\* storage all along, whichever way it was asked for: "a higher-priority bucket
\* elsewhere still can't be shadowed by this member", and a cache does not
\* hijack the key of a hosted bucket.
NeverShadowed ==
    \A w \in Workers :
        Idle(w) /\ t[w].ans.kind = "found" /\ t[w].ans.bucket # NoBucket =>
            \A o \in steady : o[2] = t[w].req.key => t[w].ans.bucket <= o[1]

\* As long as nobody else changes storage, whatever is answered "found" exists
\* in the bucket it is said to be in.
ServedExists ==
    changes = 0 =>
        \A w \in Workers :
            Idle(w) /\ t[w].ans.kind = "found" =>
                <<t[w].ans.bucket, t[w].req.key>> \in objs

\* The route of a proxy is not answered with a cached object that had already
\* expired when the request began.
ExpiredNotServed ==
    \A w \in Workers :
        /\ Answered(w, "route")
        /\ t[w].ans.kind = "found"
        /\ t[w].ans.bucket \in Proxies
        /\ TTLSet
        => <<w, <<t[w].ans.bucket, t[w].req.key>>>> \notin old
=============================================================================
