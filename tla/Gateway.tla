------------------------------- MODULE Gateway -------------------------------
(***************************************************************************)
(* internal/httpapi: what every request passes before its handler runs.    *)
(* Probes go straight to their handler; any other request is checked for   *)
(* an API key, then charged to its client's rate limiter, then refused if  *)
(* the service is not ready, except that a request no route matches is     *)
(* told so in any case.  The limiter of a client is created by its first   *)
(* request and deleted by cleanupLoop once the client was idle long        *)
(* enough.                                                                 *)
(*                                                                         *)
(* Time passes in ticks.  An entry holds the time since lastSeen instead   *)
(* of lastSeen itself, so that no clock grows.                             *)
(***************************************************************************)
EXTENDS Integers, FiniteSets, Functions

CONSTANTS
    Clients,    \* client addresses (clientIP)
    Slots,      \* bound on the requests in flight
    Blank,      \* a key that is empty after TrimSpace, or a missing header
    Keys,       \* the other keys
    KeyLists,   \* possible values of the configured list of API keys, as sets
    Rate,       \* tokens a limiter gains per tick
    Burst,      \* its capacity
    Idle,       \* rateLimiterIdleTimeout
    Gap         \* bound on the time a request spends between the lookup of its
                \* limiter, or cleanupLoop between cutoff and Lock, and the next step

ASSUME GatewayAssumption ==
    /\ Rate \in Nat \ {0} /\ Burst \in Nat \ {0}
    /\ Idle \in Nat \ {0} /\ Gap \in Nat
    \* A limiter that nobody used for the idle timeout is full again.
    /\ Burst <= Rate * (Idle - Gap)
    /\ KeyLists \subseteq SUBSET (Keys \cup {Blank})
    /\ IsFiniteSet(Clients) /\ IsFiniteSet(Slots)

VARIABLES
    configured,     \* the configured list of API keys
    ready,          \* API.ready
    clientEntries,  \* client -> [limiter, age], on the clients that have an entry
    tokens,         \* limiter -> its tokens, on the limiters in use
    phase,          \* ticks since the ticker last fired
    sweeper,        \* cleanupLoop: "wait" for the ticker, tick "due", or "closed"
    req,            \* slot -> the request in it
    \* History, read by the properties only:
    ideal           \* client -> tokens left had its limiter existed from the start

gatewayVars == <<configured, ready, clientEntries, tokens, phase, sweeper, req, ideal>>

LimiterIds == 1..(Cardinality(Clients) + Cardinality(Slots))

NoRequest == [pc |-> "none"]

\* The outer mux of Routes tells the probes from all other requests.  The inner
\* one, behind the middlewares, which do not look at the path, tells the routes
\* from whatever path or method matches none of them.
Paths == {"probe", "protected"}
Matched == {"route", "other"}

\* NewAuthConfig.
KeepBlank(keys) == keys   \* faulty
NewAuthConfig(keys) == keys \ {Blank}

Enabled == NewAuthConfig(configured) # {}
valid(key) == key \in NewAuthConfig(configured)

\* Routes: the probes are registered outside both middlewares.  X-API-Key is
\* used if it is there, else the Authorization header.
Arrive(r, c, path, header, bearer) ==
    /\ req[r] = NoRequest
    /\ req' = [req EXCEPT ![r] =
           [pc |-> IF path = "probe" THEN "handle" ELSE IF Enabled THEN "auth" ELSE "lookup",
            path |-> path, client |-> c,
            key |-> IF header # Blank THEN header ELSE bearer]]
    /\ UNCHANGED <<configured, ready, clientEntries, tokens, phase, sweeper, ideal>>

\* AuthConfig.middleware: 401 unless the key is valid.
Authenticate(r) ==
    /\ req[r].pc = "auth"
    /\ req' = [req EXCEPT ![r] = IF valid(@.key) THEN [@ EXCEPT !.pc = "lookup"] ELSE NoRequest]
    /\ UNCHANGED <<configured, ready, clientEntries, tokens, phase, sweeper, ideal>>

\* allow, under the lock: finds or creates the client's limiter and notes the
\* time.
OverBurst == Burst + 1   \* faulty
newLimiter == Burst

lookupThen(r, age) ==
    LET c == req[r].client
        known == c \in DOMAIN clientEntries
        l == IF known THEN clientEntries[c].limiter
             ELSE CHOOSE l \in LimiterIds \ DOMAIN tokens : TRUE
    IN  /\ req[r].pc = "lookup"
        /\ clientEntries' = [x \in DOMAIN clientEntries \cup {c} |->
               IF x = c THEN [limiter |-> l, age |-> age] ELSE clientEntries[x]]
        /\ tokens' = [x \in DOMAIN tokens \cup {l} |->
               IF x \in DOMAIN tokens THEN tokens[x] ELSE newLimiter]
        /\ req' = [req EXCEPT ![r] = [pc |-> "take", path |-> @.path, client |-> c,
                                      key |-> @.key, limiter |-> l, wait |-> 0]]
        /\ UNCHANGED <<configured, ready, phase, sweeper, ideal>>
SeenOnce(r) ==   \* faulty
    LET c == req[r].client
    IN  lookupThen(r, IF c \in DOMAIN clientEntries THEN clientEntries[c].age ELSE 0)
Lookup(r) == lookupThen(r, 0)

\* A limiter is garbage once no entry and no request refers to it.
InUse(es, rs) ==
    {es[c].limiter : c \in DOMAIN es}
        \cup {rs[r].limiter : r \in {s \in Slots : rs[s].pc = "take"}}

\* allow, after the unlock: limiter.Allow, and 429 without a token.
Take(r) ==
    LET l == req[r].limiter
        admitted == tokens[l] > 0
    IN  /\ req[r].pc = "take"
        /\ req' = [req EXCEPT ![r] =
               IF admitted THEN [pc |-> "mux", path |-> @.path, client |-> @.client, key |-> @.key]
               ELSE NoRequest]
        /\ ideal' = IF admitted THEN [ideal EXCEPT ![req[r].client] = @ - 1] ELSE ideal
        /\ tokens' = Restrict(IF admitted THEN [tokens EXCEPT ![l] = @ - 1] ELSE tokens,
                              InUse(clientEntries, req'))
        /\ UNCHANGED <<configured, ready, clientEntries, phase, sweeper>>

\* The request is for a route, and requireReady answers 503 until Bootstrap has
\* finished.
requireReady(r) ==
    /\ req[r].pc = "mux"
    /\ req' = [req EXCEPT ![r] =
           IF ready THEN [@ EXCEPT !.pc = "handle", !.path = "route"] ELSE NoRequest]
    /\ UNCHANGED <<configured, ready, clientEntries, tokens, phase, sweeper, ideal>>

\* The request matches the catch-all "/": handleNotFound is registered without
\* requireReady.
handleNotFound(r) ==
    /\ req[r].pc = "mux"
    /\ req' = [req EXCEPT ![r] = [@ EXCEPT !.pc = "handle", !.path = "other"]]
    /\ UNCHANGED <<configured, ready, clientEntries, tokens, phase, sweeper, ideal>>

\* The handler answers.
Handle(r) ==
    /\ req[r].pc = "handle"
    /\ req' = [req EXCEPT ![r] = NoRequest]
    /\ UNCHANGED <<configured, ready, clientEntries, tokens, phase, sweeper, ideal>>

SetReady ==
    /\ ~ready
    /\ ready' = TRUE
    /\ UNCHANGED <<configured, clientEntries, tokens, phase, sweeper, req, ideal>>

\* cleanupLoop, one turn: deletes what was idle for longer than Idle at the
\* cutoff, which it computed d ticks before it got the lock.
sweepThen(d, next) ==
    /\ sweeper = "due"
    /\ clientEntries' =
           Restrict(clientEntries, {c \in DOMAIN clientEntries : clientEntries[c].age <= Idle + d})
    /\ tokens' = Restrict(tokens, InUse(clientEntries', req))
    /\ sweeper' = next
    /\ UNCHANGED <<configured, ready, phase, req, ideal>>
SweepOnce(d) == sweepThen(d, "returned")   \* faulty
Sweep(d) == sweepThen(d, "wait")

\* API.Close.
Close ==
    /\ sweeper # "closed"
    /\ sweeper' = "closed"
    /\ UNCHANGED <<configured, ready, clientEntries, tokens, phase, req, ideal>>

\* One tick: limiters refill, the ticker may fire (it drops a tick nobody took).
Tick ==
    LET refilled(n) == IF n + Rate > Burst THEN Burst ELSE n + Rate
        aged(n, bound) == IF n = bound THEN n ELSE n + 1
    IN  /\ \A r \in Slots : req[r].pc = "take" => req[r].wait < Gap
        /\ tokens' = [l \in DOMAIN tokens |-> refilled(tokens[l])]
        /\ ideal' = [c \in Clients |-> refilled(ideal[c])]
        /\ clientEntries' = [c \in DOMAIN clientEntries |->
               [clientEntries[c] EXCEPT !.age = aged(@, Idle + Gap + 1)]]
        /\ req' = [r \in Slots |->
               IF req[r].pc = "take" THEN [req[r] EXCEPT !.wait = @ + 1] ELSE req[r]]
        /\ phase' = (phase + 1) % Idle
        /\ sweeper' = IF phase' = 0 /\ sweeper = "wait" THEN "due" ELSE sweeper
        /\ UNCHANGED <<configured, ready>>

Serve(r) ==
    \/ Authenticate(r) \/ Lookup(r) \/ Take(r)
    \/ requireReady(r) \/ handleNotFound(r) \/ Handle(r)

GatewayNext ==
    \/ \E r \in Slots, c \in Clients, path \in Paths,
          header \in Keys \cup {Blank}, bearer \in Keys \cup {Blank} :
          Arrive(r, c, path, header, bearer)
    \/ \E r \in Slots : Serve(r)
    \/ SetReady
    \/ \E d \in 0..Gap : Sweep(d)
    \/ Close
    \/ Tick

GatewayInit ==
    /\ configured \in KeyLists
    /\ ready = FALSE
    /\ clientEntries = <<>> /\ tokens = <<>>
    /\ phase = 0 /\ sweeper = "wait"
    /\ req = [r \in Slots |-> NoRequest]
    /\ ideal = [c \in Clients |-> Burst]

\* Time passes, the cleanup goroutine runs, and a request in flight is served.
GatewayFairness ==
    /\ WF_gatewayVars(Tick)
    /\ WF_gatewayVars(\E d \in 0..Gap : Sweep(d))
    /\ \A r \in Slots : WF_gatewayVars(Serve(r))

GatewaySpec == GatewayInit /\ [][GatewayNext]_gatewayVars /\ GatewayFairness
-----------------------------------------------------------------------------
GatewayTypeOK ==
    /\ configured \in KeyLists /\ ready \in BOOLEAN
    /\ DOMAIN clientEntries \subseteq Clients
    /\ \A c \in DOMAIN clientEntries :
          clientEntries[c] \in [limiter : DOMAIN tokens, age : 0..(Idle + Gap + 1)]
    /\ DOMAIN tokens \subseteq LimiterIds
    /\ \A l \in DOMAIN tokens : tokens[l] \in 0..Burst
    /\ phase \in 0..(Idle - 1)
    /\ \A r \in Slots : req[r].pc = "take" =>
          req[r].limiter \in DOMAIN tokens /\ req[r].wait \in 0..Gap

\* No client gets more than Rate per tick with bursts of Burst, as if it had one
\* limiter for ever: neither concurrent first requests nor the deletion of idle
\* entries while requests are in flight hands it a second full limiter.
WithinBudget == \A c \in Clients : ideal[c] >= 0

\* Once a key that is not blank is configured, a request without such a key
\* neither reaches a handler nor costs the client whose address it has any
\* budget; and no handler that looks at the catalog or the storage runs before
\* the service is ready, only the probes and the 404 of unmatched requests do.
Authorised(key) == configured \ {Blank} # {} => key \in configured \ {Blank}
Guarded ==
    \A r \in Slots :
        /\ req[r].pc = "take" \/ (req[r].pc = "handle" /\ req[r].path # "probe")
              => Authorised(req[r].key)
        /\ req[r].pc = "handle" /\ req[r].path = "route" => ready

\* The entry of a client that stops sending is deleted eventually, so the map
\* does not grow with every client ever seen, until the API is closed.
IdleEvicted ==
    \A c \in Clients :
        \/ []<>(c \in DOMAIN clientEntries /\ clientEntries[c].age = 0)
        \/ <>[](c \notin DOMAIN clientEntries)
        \/ <>(sweeper = "closed")
=============================================================================
