---------------------------- MODULE Configuration ----------------------------
(***************************************************************************)
(* internal/config: Load turns the environment into the list of buckets or *)
(* fails, and the lookups the rest of the service makes in that list.      *)
(*                                                                         *)
(* A variable's value is the sequence of its tokens, split at the commas;  *)
(* a token is a record of its parts.  NoName is a part that is empty.      *)
(***************************************************************************)
EXTENDS Naturals, FiniteSets, SequencesExt

CONSTANTS
    Environments,   \* the environments the service may be started in
    NoName,
    Unset,      \* a variable that is unset or empty
    BadTTL,     \* a ttl that time.ParseDuration rejects
    NoConfig,   \* Load has not returned
    LoadError   \* Load returned an error

ASSUME EnvironmentAssumption ==
    \A e \in Environments :
        /\ e.buckets = Unset \/ e.buckets \in Seq(Range(e.buckets))
        /\ e.proxies \in Seq(Range(e.proxies))
        /\ e.virtuals \in Seq(Range(e.virtuals))

VARIABLES
    environment,    \* [buckets, legacy, proxies, virtuals, numbers]
    loaded          \* what Load returned: the buckets in order

configurationVars == <<environment, loaded>>

ConfigurationInit == environment \in Environments /\ loaded = NoConfig

(***************************************************************************)
(* The tokens of the three lists, and the buckets they stand for.          *)
(***************************************************************************)
Bucket(name, kind, public, ttl, members) ==
    [name |-> name, kind |-> kind, public |-> public, ttl |-> ttl, members |-> members]

\* The elements of s at the indices I, in their order: what is left by a loop
\* that skips the others.
KeptReversed(s, I) ==   \* faulty
    [n \in 1..Cardinality(I) |-> s[CHOOSE i \in I : Cardinality({j \in I : j >= i}) = n]]
Kept(s, I) ==
    [n \in 1..Cardinality(I) |-> s[CHOOSE i \in I : Cardinality({j \in I : j <= i}) = n]]

\* A bucket is public only if its third part says exactly "public".
parseBucketsList(tokens) ==
    LET named == Kept(tokens, {i \in DOMAIN tokens : tokens[i].name # NoName}) IN
    [i \in DOMAIN named |->
        Bucket(named[i].name, "hosted", named[i].visibility = "public", 0, <<>>)]

\* The legacy pair needs both of its variables.
loadBuckets ==
    IF environment.buckets # Unset THEN parseBucketsList(environment.buckets)
    ELSE IF NoName \in {environment.legacy.pub, environment.legacy.priv} THEN LoadError
    ELSE <<Bucket(environment.legacy.pub, "hosted", TRUE, 0, <<>>),
           Bucket(environment.legacy.priv, "hosted", FALSE, 0, <<>>)>>

\* A token without name or upstream is skipped, whatever its ttl; a ttl of 0
\* (also when it is omitted) caches for ever.
complete(t) == t.name # NoName /\ t.upstream # NoName

LenientProxyRepos(tokens) ==   \* faulty
    LET valid == Kept(tokens, {i \in DOMAIN tokens : complete(tokens[i])}) IN
    [i \in DOMAIN valid |->
        Bucket(valid[i].name, "proxy", valid[i].visibility = "public",
               IF valid[i].ttl = BadTTL THEN 0 ELSE valid[i].ttl, <<>>)]
parseProxyRepos(tokens) ==
    LET valid == Kept(tokens, {i \in DOMAIN tokens : complete(tokens[i])}) IN
    IF \E i \in DOMAIN valid : valid[i].ttl = BadTTL THEN LoadError
    ELSE [i \in DOMAIN valid |->
             Bucket(valid[i].name, "proxy", valid[i].visibility = "public", valid[i].ttl, <<>>)]

parseVirtualRepos(tokens) ==
    LET members(t) == Kept(t.members, {i \in DOMAIN t.members : t.members[i] # NoName})
        valid == Kept(tokens, {i \in DOMAIN tokens :
                                  tokens[i].name # NoName /\ members(tokens[i]) # <<>>})
    IN  [i \in DOMAIN valid |-> Bucket(valid[i].name, "virtual", FALSE, 0, members(valid[i]))]

\* validateVirtualRepoMembers looks a member up in a map that keeps the last
\* bucket of every name.
membersValid(buckets, virtuals) ==
    \A v \in Range(virtuals) : \A m \in Range(v.members) :
        LET named == {i \in DOMAIN buckets : buckets[i].name = m} IN
        named # {} /\ buckets[Max(named)].kind # "virtual"

(***************************************************************************)
(* Load: the first failure in this order decides.                          *)
(***************************************************************************)
VirtualsFirst(hosted, proxies, virtuals) == virtuals \o hosted \o proxies   \* faulty
ProxiesFirst(hosted, proxies, virtuals) == proxies \o hosted \o virtuals   \* faulty
allBuckets(hosted, proxies, virtuals) == hosted \o proxies \o virtuals

Load ==
    LET hosted == loadBuckets
        proxies == parseProxyRepos(environment.proxies)
        virtuals == parseVirtualRepos(environment.virtuals)
        buckets == allBuckets(hosted, proxies, virtuals)
        rejected ==
            \/ environment.numbers["port"] = "bad"
            \/ hosted = LoadError
            \/ proxies = LoadError
            \/ ~membersValid(buckets, virtuals)
            \/ \E f \in {"rate", "burst", "interval"} : environment.numbers[f] = "bad"
    IN  /\ loaded = NoConfig
        /\ loaded' = IF rejected THEN LoadError ELSE buckets
        /\ UNCHANGED environment

ConfigurationSpec == ConfigurationInit /\ [][Load]_configurationVars

(***************************************************************************)
(* Lookups in the loaded configuration; 0 is "not found".                  *)
(***************************************************************************)
FirstNamed(name) == SelectInSeq(loaded, LAMBDA b : b.name = name)

Known(name) == FirstNamed(name) # 0
BucketByName(name) == loaded[FirstNamed(name)]
HasStorage(b) == b.kind # "virtual"
IsPublic(name) == Known(name) /\ BucketByName(name).public
BucketPriority(name) == IF Known(name) THEN FirstNamed(name) - 1 ELSE Len(loaded)
-----------------------------------------------------------------------------
Accepted == loaded \notin {NoConfig, LoadError}

\* The names of the buckets with storage in the order in which the environment
\* lists them, with NoName for a token that does not count.
HostedNames ==
    IF environment.buckets = Unset THEN <<environment.legacy.pub, environment.legacy.priv>>
    ELSE [i \in DOMAIN environment.buckets |-> environment.buckets[i].name]
ProxyNames ==
    [i \in DOMAIN environment.proxies |->
        IF complete(environment.proxies[i]) THEN environment.proxies[i].name ELSE NoName]
StorageNames == HostedNames \o ProxyNames

\* In a configuration that Load accepts, every member of every virtual
\* repository is found, by the lookup requests use, as a bucket with storage:
\* the skip of unknown and virtual members at request time never happens, even
\* if names are used twice.
MembersServe ==
    Accepted =>
        \A i \in DOMAIN loaded : \A m \in Range(loaded[i].members) :
            Known(m) /\ HasStorage(BucketByName(m))

\* "earlier buckets outrank later ones": a name outranks every name that the
\* environment lists for the first time after it, hosted buckets before proxies,
\* although tokens are skipped and names are listed again.
RanksAsConfigured ==
    Accepted =>
        \A i, j \in DOMAIN StorageNames :
            /\ NoName \notin {StorageNames[i], StorageNames[j]}
            /\ \A h \in 1..i : StorageNames[h] # StorageNames[j]
            => BucketPriority(StorageNames[i]) < BucketPriority(StorageNames[j])

\* A proxy whose name is listed first by its token is found, by the lookup that
\* requests use, as a proxy with the ttl of that token; a ttl that cannot be read
\* keeps the service from starting.  Skipped tokens before it, and later ones with
\* the same name and another ttl, make no difference.
TTLEffective ==
    Accepted =>
        \A i \in DOMAIN environment.proxies :
            LET t == environment.proxies[i] IN
            /\ complete(t)
            /\ \A h \in 1..(Len(HostedNames) + i - 1) : StorageNames[h] # t.name
            => /\ Known(t.name)
               /\ BucketByName(t.name).kind = "proxy" /\ BucketByName(t.name).ttl = t.ttl

\* A hosted bucket that is listed as private stays private, whatever later tokens
\* of the list, or a proxy of the same name, say.
PrivateStays ==
    Accepted /\ environment.buckets # Unset =>
        \A i \in DOMAIN environment.buckets :
            LET t == environment.buckets[i] IN
            /\ t.name # NoName /\ t.visibility # "public"
            /\ \A j \in 1..(i - 1) : environment.buckets[j].name # t.name
            => ~IsPublic(t.name)
=============================================================================
