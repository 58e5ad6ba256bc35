----------------------------- MODULE EdgeProofs -----------------------------
(***************************************************************************)
(* Proofs about the two edges of the service: module Gateway, for any      *)
(* clients, any number of requests in flight and any rate, burst, idle     *)
(* timeout and delay that GatewayAssumption allows; and module Webhook,    *)
(* for any number of concurrent calls of Fire, any event types, any number *)
(* of attempts and of subscribers.                                         *)
(***************************************************************************)
EXTENDS Gateway, Webhook, SequenceTheorems, FiniteSetTheorems, TLAPS

\* A request outside allow, and one inside it.
Plain == [pc : {"auth", "lookup", "mux", "handle"}, path : Paths \cup Matched,
          client : Clients, key : Keys \cup {Blank}]
Taking == [pc : {"take"}, path : Paths \cup Matched, client : Clients,
           key : Keys \cup {Blank}, limiter : LimiterIds, wait : 0..Gap]

\* GatewayTypeOK with the domains it leaves open; every limiter is the limiter of
\* exactly one client.
Shape ==
    /\ configured \in KeyLists /\ ready \in BOOLEAN
    /\ DOMAIN clientEntries \subseteq Clients
    /\ \A c \in DOMAIN clientEntries :
          clientEntries[c] \in [limiter : DOMAIN tokens, age : 0..(Idle + Gap + 1)]
    /\ \A c, d \in DOMAIN clientEntries :
          clientEntries[c].limiter = clientEntries[d].limiter => c = d
    /\ \A l \in DOMAIN tokens : \E c \in DOMAIN clientEntries : l = clientEntries[c].limiter
    /\ DOMAIN tokens \subseteq LimiterIds
    /\ \A l \in DOMAIN tokens : tokens[l] \in 0..Burst
    /\ phase \in 0..(Idle - 1)
    /\ req \in [Slots -> Plain \cup Taking \cup {NoRequest}]
    /\ ideal \in [Clients -> 0..Burst]

\* A limiter never holds more than the client may still spend, and a client
\* without an entry may spend all of Burst: by the time its entry was deleted it
\* had been idle for so long that its budget was full again.
ClientInv(c) ==
    /\ c \notin DOMAIN clientEntries => ideal[c] = Burst
    /\ c \in DOMAIN clientEntries =>
          /\ tokens[clientEntries[c].limiter] <= ideal[c]
          /\ ideal[c] = Burst \/ Rate * (clientEntries[c].age - Gap) <= ideal[c]

\* A request inside allow holds the limiter that its client still has.  A request
\* past the middleware was allowed past it.
RequestInv(r) ==
    LET q == req[r] IN
    /\ q.pc = "take" =>
          /\ q.client \in DOMAIN clientEntries
          /\ q.limiter = clientEntries[q.client].limiter
          /\ clientEntries[q.client].age <= q.wait
    /\ q.pc \in {"lookup", "take", "mux"} \/ (q.pc = "handle" /\ q.path # "probe") =>
          Authorised(q.key)
    /\ q.pc = "handle" /\ q.path = "route" => ready

IndInv ==
    /\ Shape
    /\ \A c \in Clients : ClientInv(c)
    /\ \A r \in Slots : RequestInv(r)
-----------------------------------------------------------------------------
\* What Rate * (age - Gap) does as an entry ages.
LEMMA Refill ==
    ASSUME NEW a \in Nat
    PROVE  /\ Rate * (a - Gap) \in Int
           /\ a <= Gap => Rate * (a - Gap) <= 0
           /\ Rate * ((a + 1) - Gap) = Rate * (a - Gap) + Rate
           /\ a > Idle => Rate * (a - Gap) >= Burst
  <1>1. Rate \in Nat /\ Rate > 0 /\ Gap \in Nat /\ Idle \in Nat /\ Burst \in Nat
    BY GatewayAssumption
  <1>2. a <= Gap => Rate * (a - Gap) <= 0
    BY <1>1
  <1>3. Rate * ((a + 1) - Gap) = Rate * (a - Gap) + Rate
    BY <1>1
  <1>4. ASSUME a > Idle PROVE Rate * (a - Gap) >= Burst
    <2>1. Rate * (a - Gap) = Rate * (Idle - Gap) + Rate * (a - Idle)
      BY <1>1
    <2>2. Rate * (a - Idle) >= 0
      BY <1>1, <1>4
    <2> QED BY <1>1, <2>1, <2>2, GatewayAssumption
  <1> QED BY <1>1, <1>2, <1>3, <1>4

\* The idle timeout is longer than a request can stay inside allow.
LEMMA GapBelowIdle == Gap < Idle
  <1>1. Rate \in Nat /\ Rate > 0 /\ Gap \in Nat /\ Idle \in Nat /\ Burst \in Nat /\ Burst > 0
    BY GatewayAssumption
  <1>2. ASSUME Idle <= Gap PROVE FALSE
    <2>1. Rate * (Idle - Gap) <= 0
      BY <1>1, <1>2
    <2> QED BY <1>1, <2>1, GatewayAssumption
  <1> QED BY <1>1, <1>2

\* There is an unused limiter for a client that has no entry.
LEMMA FreshLimiter ==
    ASSUME IndInv, NEW c \in Clients, c \notin DOMAIN clientEntries
    PROVE  (CHOOSE l \in LimiterIds \ DOMAIN tokens : TRUE) \in LimiterIds \ DOMAIN tokens
  <1> DEFINE D == DOMAIN clientEntries
             f == [x \in D |-> clientEntries[x].limiter]
  <1>1. IsFiniteSet(D) /\ Cardinality(D) \in Nat /\ Cardinality(D) <= Cardinality(Clients \ {c})
    <2>1. D \subseteq Clients \ {c}
      BY DEF IndInv, Shape
    <2>2. IsFiniteSet(Clients \ {c})
      BY GatewayAssumption, FS_RemoveElement
    <2> QED BY <2>1, <2>2, FS_Subset, FS_CardinalityType
  <1>2. f \in Surjection(D, DOMAIN tokens)
    BY DEF IndInv, Shape, Surjection
  <1>3. IsFiniteSet(DOMAIN tokens) /\ Cardinality(DOMAIN tokens) <= Cardinality(D)
    BY <1>1, <1>2, FS_Surjection
  <1>4. Cardinality(Clients \ {c}) = Cardinality(Clients) - 1
    BY GatewayAssumption, FS_RemoveElement
  <1>5. /\ Cardinality(Clients) \in Nat /\ Cardinality(Slots) \in Nat
        /\ Cardinality(DOMAIN tokens) \in Nat
    BY <1>3, GatewayAssumption, FS_CardinalityType
  <1>6. Cardinality(LimiterIds) = Cardinality(Clients) + Cardinality(Slots)
    BY <1>5, FS_Interval DEF LimiterIds
  <1>7. DOMAIN tokens # LimiterIds
    BY <1>1, <1>3, <1>4, <1>5, <1>6
  <1>8. LimiterIds \ DOMAIN tokens # {}
    BY <1>7 DEF IndInv, Shape
  <1> QED BY <1>8
-----------------------------------------------------------------------------
\* No client has an entry, and each may spend a whole burst, at the start.
LEMMA InitIndInv == GatewayInit => IndInv
  <1> SUFFICES ASSUME GatewayInit PROVE IndInv
    OBVIOUS
  <1>1. DOMAIN clientEntries = {} /\ DOMAIN tokens = {}
    <2>1. \A s : s = << >> => DOMAIN s = {}
      BY SMT
    <2>2. clientEntries = << >> /\ tokens = << >>
      BY DEF GatewayInit
    <2> QED BY <2>1, <2>2, Zenon
  <1>2. ideal \in [Clients -> 0..Burst] /\ \A c \in Clients : ideal[c] = Burst
    BY GatewayAssumption DEF GatewayInit
  <1>3. phase \in 0..(Idle - 1)
    BY GatewayAssumption DEF GatewayInit
  <1>4. /\ req \in [Slots -> Plain \cup Taking \cup {NoRequest}]
        /\ \A r \in Slots : req[r].pc = "none"
    BY DEF GatewayInit, NoRequest
  <1>5. Shape
    BY <1>1, <1>2, <1>3, <1>4 DEF GatewayInit, Shape
  <1> QED BY <1>1, <1>2, <1>4, <1>5 DEF IndInv, ClientInv, RequestInv

\* A step that changes no more than one request, to one that is not inside allow,
\* keeps the invariant if it keeps what is said about that request.
LEMMA RequestStep ==
    ASSUME IndInv, NEW r \in Slots, NEW q \in Plain \cup {NoRequest},
           req' = [req EXCEPT ![r] = q],
           UNCHANGED <<configured, ready, clientEntries, tokens, phase, ideal>>,
           q.pc \in {"lookup", "mux"} \/ (q.pc = "handle" /\ q.path # "probe") => Authorised(q.key),
           q.pc = "handle" /\ q.path = "route" => ready
    PROVE  IndInv'
  <1>1. /\ req' \in [Slots -> Plain \cup Taking \cup {NoRequest}]
        /\ \A s \in Slots : req'[s] = IF s = r THEN q ELSE req[s]
    BY DEF IndInv, Shape
  <1>2. Shape'
    BY <1>1 DEF IndInv, Shape
  <1>3. \A c \in Clients : ClientInv(c)'
    BY DEF IndInv, ClientInv
  <1>4. q.pc # "take"
    BY DEF Plain, NoRequest
  <1>5. ASSUME NEW s \in Slots PROVE RequestInv(s)'
    <2>1. CASE s = r
      BY <1>1, <1>4, <2>1 DEF RequestInv, Authorised
    <2>2. CASE s # r
      BY <1>1, <2>2 DEF IndInv, RequestInv, Authorised
    <2> QED BY <2>1, <2>2
  <1> QED BY <1>2, <1>3, <1>5 DEF IndInv

\* A request starts behind the key check only if no key is needed.
LEMMA ArriveKeeps ==
    ASSUME IndInv, NEW r \in Slots, NEW c \in Clients, NEW path \in Paths,
           NEW header \in Keys \cup {Blank}, NEW bearer \in Keys \cup {Blank},
           Arrive(r, c, path, header, bearer)
    PROVE  IndInv'
  <1> DEFINE q == [pc |-> IF path = "probe" THEN "handle" ELSE IF Enabled THEN "auth" ELSE "lookup",
                   path |-> path, client |-> c,
                   key |-> IF header # Blank THEN header ELSE bearer]
  <1>1. q \in Plain
    BY DEF Plain
  <1>2. /\ q.pc = "lookup" => Authorised(q.key)
        /\ q.pc \in {"auth", "lookup"} \/ (q.pc = "handle" /\ q.path = "probe")
    BY DEF Enabled, NewAuthConfig, Authorised
  <1>3. /\ req' = [req EXCEPT ![r] = q]
        /\ UNCHANGED <<configured, ready, clientEntries, tokens, phase, ideal>>
    BY DEF Arrive
  <1> QED BY <1>1, <1>2, <1>3, RequestStep

\* The key check lets a request pass whose key is configured.
LEMMA AuthenticateKeeps ==
    ASSUME IndInv, NEW r \in Slots, Authenticate(r)
    PROVE  IndInv'
  <1> DEFINE q == IF valid(req[r].key) THEN [req[r] EXCEPT !.pc = "lookup"] ELSE NoRequest
  <1>1. req[r] \in Plain
    BY DEF IndInv, Shape, Authenticate, Taking, NoRequest
  <1>2. /\ q \in Plain \cup {NoRequest}
        /\ q.pc \in {"lookup", "none"}
        /\ q.pc = "lookup" => Authorised(q.key)
    BY <1>1 DEF Plain, NoRequest, valid, NewAuthConfig, Authorised
  <1>3. /\ req' = [req EXCEPT ![r] = q]
        /\ UNCHANGED <<configured, ready, clientEntries, tokens, phase, ideal>>
    BY <1>1 DEF Authenticate, IndInv, Shape
  <1> QED BY <1>2, <1>3, RequestStep

\* requireReady passes a request on only when the service is ready.
LEMMA ReadyKeeps ==
    ASSUME IndInv, NEW r \in Slots, requireReady(r)
    PROVE  IndInv'
  <1> DEFINE q == IF ready THEN [req[r] EXCEPT !.pc = "handle", !.path = "route"] ELSE NoRequest
  <1>1. req[r] \in Plain /\ Authorised(req[r].key)
    BY DEF IndInv, Shape, RequestInv, requireReady, Taking, NoRequest
  <1>2. /\ q \in Plain \cup {NoRequest}
        /\ q.pc \in {"handle", "none"}
        /\ q.pc = "handle" => ready /\ Authorised(q.key)
    BY <1>1 DEF Plain, Matched, NoRequest
  <1>3. /\ req' = [req EXCEPT ![r] = q]
        /\ UNCHANGED <<configured, ready, clientEntries, tokens, phase, ideal>>
    BY <1>1 DEF requireReady, IndInv, Shape
  <1> QED BY <1>2, <1>3, RequestStep

\* The catch-all handler gets authorised requests only.
LEMMA NotFoundKeeps ==
    ASSUME IndInv, NEW r \in Slots, handleNotFound(r)
    PROVE  IndInv'
  <1> DEFINE q == [req[r] EXCEPT !.pc = "handle", !.path = "other"]
  <1>1. req[r] \in Plain /\ Authorised(req[r].key)
    BY DEF IndInv, Shape, RequestInv, handleNotFound, Taking, NoRequest
  <1>2. /\ q \in Plain /\ q.pc = "handle" /\ q.path = "other"
        /\ Authorised(q.key)
    BY <1>1 DEF Plain, Matched
  <1>3. /\ req' = [req EXCEPT ![r] = q]
        /\ UNCHANGED <<configured, ready, clientEntries, tokens, phase, ideal>>
    BY <1>1 DEF handleNotFound, IndInv, Shape
  <1> QED BY <1>2, <1>3, RequestStep

\* An answered request is gone.
LEMMA HandleKeeps ==
    ASSUME IndInv, NEW r \in Slots, Handle(r)
    PROVE  IndInv'
  <1>1. /\ req' = [req EXCEPT ![r] = NoRequest]
        /\ UNCHANGED <<configured, ready, clientEntries, tokens, phase, ideal>>
    BY DEF Handle
  <1>2. NoRequest.pc = "none"
    BY DEF NoRequest
  <1> QED BY <1>1, <1>2, RequestStep

\* allow finds the client's limiter, or gives it a full one that nobody has.
LEMMA LookupKeeps ==
    ASSUME IndInv, NEW r \in Slots, Lookup(r)
    PROVE  IndInv'
  <1> DEFINE c == req[r].client
             l == IF c \in DOMAIN clientEntries THEN clientEntries[c].limiter
                  ELSE CHOOSE x \in LimiterIds \ DOMAIN tokens : TRUE
             q == [pc |-> "take", path |-> req[r].path, client |-> c,
                   key |-> req[r].key, limiter |-> l, wait |-> 0]
  <1>1. req[r] \in Plain /\ c \in Clients /\ Authorised(req[r].key)
    BY DEF IndInv, Shape, RequestInv, Lookup, lookupThen, Taking, Plain, NoRequest
  <1>2. /\ l \in LimiterIds
        /\ c \in DOMAIN clientEntries => l = clientEntries[c].limiter /\ l \in DOMAIN tokens
        /\ c \notin DOMAIN clientEntries => l \notin DOMAIN tokens
    BY <1>1, FreshLimiter DEF IndInv, Shape
  <1>3. /\ clientEntries' = [x \in DOMAIN clientEntries \cup {c} |->
               IF x = c THEN [limiter |-> l, age |-> 0] ELSE clientEntries[x]]
        /\ tokens' = [x \in DOMAIN tokens \cup {l} |->
               IF x \in DOMAIN tokens THEN tokens[x] ELSE Burst]
        /\ req' = [req EXCEPT ![r] = q]
        /\ UNCHANGED <<configured, ready, phase, sweeper, ideal>>
    BY DEF Lookup, lookupThen, newLimiter, IndInv, Shape
  <1>4. q \in Taking
    BY <1>1, <1>2, GatewayAssumption DEF Plain, Taking
  <1> HIDE DEF l, c
  <1>5. /\ DOMAIN clientEntries' = DOMAIN clientEntries \cup {c}
        /\ clientEntries'[c].limiter = l /\ clientEntries'[c].age = 0
        /\ clientEntries'[c] = [limiter |-> l, age |-> 0]
        /\ \A x \in DOMAIN clientEntries : x # c => clientEntries'[x] = clientEntries[x]
    BY <1>3
  <1>6. /\ DOMAIN tokens' = DOMAIN tokens \cup {l}
        /\ \A x \in DOMAIN tokens : tokens'[x] = tokens[x]
        /\ l \notin DOMAIN tokens => tokens'[l] = Burst
    BY <1>3
  <1>7. /\ req' \in [Slots -> Plain \cup Taking \cup {NoRequest}]
        /\ \A s \in Slots : req'[s] = IF s = r THEN q ELSE req[s]
    BY <1>3, <1>4 DEF IndInv, Shape
  <1> HIDE DEF q
  <1>8. Shape'
    <2>1. DOMAIN clientEntries' \subseteq Clients
      BY <1>1, <1>5 DEF IndInv, Shape, c
    <2>2. ASSUME NEW x \in DOMAIN clientEntries'
          PROVE  clientEntries'[x] \in [limiter : DOMAIN tokens', age : 0..(Idle + Gap + 1)]
      <3>1. CASE x = c
        BY <1>5, <1>6, <3>1, GatewayAssumption
      <3>2. CASE x # c
        BY <1>5, <1>6, <3>2 DEF IndInv, Shape
      <3> QED BY <3>1, <3>2
    <2>3. \A x, y \in DOMAIN clientEntries' :
              clientEntries'[x].limiter = clientEntries'[y].limiter => x = y
      BY <1>2, <1>5 DEF IndInv, Shape
    <2>4. \A k \in DOMAIN tokens' : \E x \in DOMAIN clientEntries' : k = clientEntries'[x].limiter
      BY <1>2, <1>5, <1>6 DEF IndInv, Shape
    <2>5. DOMAIN tokens' \subseteq LimiterIds /\ \A k \in DOMAIN tokens' : tokens'[k] \in 0..Burst
      BY <1>2, <1>6, GatewayAssumption DEF IndInv, Shape
    <2> QED BY <1>3, <1>7, <2>1, <2>2, <2>3, <2>4, <2>5 DEF IndInv, Shape
  <1>9. ASSUME NEW x \in Clients PROVE ClientInv(x)'
    <2>1. CASE x = c
      <3>1. ideal[c] \in 0..Burst /\ ideal'[c] = ideal[c]
        BY <1>3, <2>1 DEF IndInv, Shape
      <3>2. Rate * (0 - Gap) <= ideal[c]
        BY <3>1, GatewayAssumption, Refill
      <3>3. tokens'[l] <= ideal[c]
        BY <1>2, <1>6, <2>1, <3>1 DEF IndInv, ClientInv
      <3> QED BY <1>5, <2>1, <3>1, <3>2, <3>3 DEF ClientInv
    <2>2. CASE x # c
      BY <1>3, <1>5, <1>6, <2>2 DEF IndInv, Shape, ClientInv
    <2> QED BY <2>1, <2>2
  <1>10. ASSUME NEW s \in Slots PROVE RequestInv(s)'
    <2>1. CASE s = r
      BY <1>1, <1>3, <1>5, <1>7, <2>1 DEF RequestInv, Authorised, q
    <2>2. CASE s # r
      <3>1. req'[s] = req[s] /\ RequestInv(s)
        BY <1>7, <2>2 DEF IndInv
      <3>2. req[s].pc = "take" => req[s] \in Taking /\ req[s].wait >= 0
        BY DEF IndInv, Shape, Plain, Taking, NoRequest
      <3> QED BY <1>2, <1>3, <1>5, <3>1, <3>2 DEF RequestInv, Authorised
    <2> QED BY <2>1, <2>2
  <1> QED BY <1>8, <1>9, <1>10 DEF IndInv

\* A limiter without a token turns the request away; one with a token charges it
\* to the client's budget as well.
LEMMA TakeKeeps ==
    ASSUME IndInv, NEW r \in Slots, Take(r)
    PROVE  IndInv'
  <1> DEFINE c == req[r].client
             l == req[r].limiter
             admitted == tokens[l] > 0
             q == IF admitted THEN [pc |-> "mux", path |-> req[r].path, client |-> c, key |-> req[r].key]
                  ELSE NoRequest
             charged == IF admitted THEN [tokens EXCEPT ![l] = @ - 1] ELSE tokens
  <1>1. req[r].pc = "take" /\ req[r] \in Taking /\ Authorised(req[r].key)
    BY DEF IndInv, Shape, RequestInv, Take, Plain, NoRequest
  <1>2. /\ c \in DOMAIN clientEntries /\ c \in Clients /\ l = clientEntries[c].limiter
        /\ clientEntries[c].age \in 0..Gap /\ l \in DOMAIN tokens
        /\ tokens[l] \in 0..Burst /\ ideal[c] \in 0..Burst /\ tokens[l] <= ideal[c]
    <2>1. /\ c \in DOMAIN clientEntries /\ c \in Clients /\ l = clientEntries[c].limiter
          /\ clientEntries[c].age <= req[r].wait /\ req[r].wait \in 0..Gap
      BY <1>1 DEF IndInv, RequestInv, Taking
    <2>2. clientEntries[c] \in [limiter : DOMAIN tokens, age : 0..(Idle + Gap + 1)]
      BY <2>1 DEF IndInv, Shape
    <2>3. clientEntries[c].age \in 0..Gap /\ l \in DOMAIN tokens
      BY <2>1, <2>2, GatewayAssumption
    <2>4. tokens[l] <= ideal[c]
      BY <2>1 DEF IndInv, ClientInv
    <2> QED BY <2>1, <2>3, <2>4 DEF IndInv, Shape
  <1>3. /\ req' = [req EXCEPT ![r] = q]
        /\ ideal' = IF admitted THEN [ideal EXCEPT ![c] = @ - 1] ELSE ideal
        /\ tokens' = Restrict(charged, InUse(clientEntries, req'))
        /\ UNCHANGED <<configured, ready, clientEntries, phase, sweeper>>
    BY DEF Take, IndInv, Shape
  <1>4. q \in Plain \cup {NoRequest} /\ q.pc \in {"mux", "none"} /\ (q.pc = "mux" => q.key = req[r].key)
    BY <1>1 DEF Plain, Taking, NoRequest
  <1> HIDE DEF c, l
  <1>5. /\ req' \in [Slots -> Plain \cup Taking \cup {NoRequest}]
        /\ \A s \in Slots : req'[s] = IF s = r THEN q ELSE req[s]
    BY <1>3, <1>4 DEF IndInv, Shape
  <1> HIDE DEF q
  <1>6. InUse(clientEntries, req') = DOMAIN tokens
    <2>1. \A s \in Slots : req'[s].pc = "take" => req'[s].limiter \in DOMAIN tokens
      BY <1>4, <1>5 DEF IndInv, Shape, RequestInv
    <2>2. \A x \in DOMAIN clientEntries : clientEntries[x].limiter \in DOMAIN tokens
      BY DEF IndInv, Shape
    <2>3. \A k \in DOMAIN tokens : \E x \in DOMAIN clientEntries : k = clientEntries[x].limiter
      BY DEF IndInv, Shape
    <2> QED BY <2>1, <2>2, <2>3 DEF InUse
  <1>7. /\ DOMAIN tokens' = DOMAIN tokens
        /\ \A k \in DOMAIN tokens :
              tokens'[k] = IF admitted /\ k = l THEN tokens[l] - 1 ELSE tokens[k]
    BY <1>2, <1>3, <1>6 DEF Restrict
  <1>8. \A x \in Clients : ideal'[x] = IF admitted /\ x = c THEN ideal[c] - 1 ELSE ideal[x]
    BY <1>2, <1>3 DEF IndInv, Shape
  <1>9. Shape'
    <2>1. ideal' \in [Clients -> 0..Burst]
      BY <1>2, <1>3, GatewayAssumption DEF IndInv, Shape
    <2>2. \A k \in DOMAIN tokens' : tokens'[k] \in 0..Burst
      BY <1>2, <1>7, GatewayAssumption DEF IndInv, Shape
    <2>3. clientEntries' = clientEntries /\ DOMAIN tokens' = DOMAIN tokens
      BY <1>3, <1>7
    <2>4. configured' = configured /\ ready' = ready /\ phase' = phase
      BY <1>3
    <2> QED BY <1>5, <2>1, <2>2, <2>3, <2>4 DEF IndInv, Shape
  <1>10. ASSUME NEW x \in Clients PROVE ClientInv(x)'
    <2>1. CASE x = c
      <3>1. Rate * (clientEntries[c].age - Gap) <= 0 /\ Rate * (clientEntries[c].age - Gap) \in Int
        BY <1>2, GatewayAssumption, Refill
      <3>2. tokens'[l] <= ideal'[c] /\ ideal'[c] >= 0 /\ ideal'[c] \in Int
        BY <1>2, <1>7, <1>8, GatewayAssumption
      <3> QED BY <1>2, <1>3, <2>1, <3>1, <3>2 DEF ClientInv
    <2>2. CASE x # c
      <3>1. x \in DOMAIN clientEntries =>
                clientEntries[x].limiter \in DOMAIN tokens /\ clientEntries[x].limiter # l
        BY <1>2, <2>2 DEF IndInv, Shape
      <3>2. ideal'[x] = ideal[x] /\ ClientInv(x)
        BY <1>8, <2>2 DEF IndInv
      <3> QED BY <1>3, <1>7, <3>1, <3>2 DEF ClientInv
    <2> QED BY <2>1, <2>2
  <1>11. ASSUME NEW s \in Slots PROVE RequestInv(s)'
    <2>1. CASE s = r
      BY <1>1, <1>3, <1>4, <1>5, <2>1 DEF RequestInv, Authorised
    <2>2. CASE s # r
      BY <1>3, <1>5, <2>2 DEF IndInv, RequestInv, Authorised
    <2> QED BY <2>1, <2>2
  <1> QED BY <1>9, <1>10, <1>11 DEF IndInv

\* An entry that is deleted had been idle for so long that its client's budget is
\* full and no request is between the lookup of its limiter and its use.
LEMMA SweepKeeps ==
    ASSUME IndInv, NEW d \in 0..Gap, Sweep(d)
    PROVE  IndInv'
  <1> DEFINE kept == {c \in DOMAIN clientEntries : clientEntries[c].age <= Idle + d}
  <1>1. /\ clientEntries' = Restrict(clientEntries, kept)
        /\ tokens' = Restrict(tokens, InUse(clientEntries', req))
        /\ UNCHANGED <<configured, ready, phase, req, ideal>>
    BY DEF Sweep, sweepThen
  <1>2. /\ DOMAIN clientEntries' = kept
        /\ \A c \in kept : clientEntries'[c] = clientEntries[c]
    BY <1>1 DEF Restrict
  <1>3. kept \subseteq DOMAIN clientEntries
    OBVIOUS
  <1>4. ASSUME NEW c \in DOMAIN clientEntries \ kept
        PROVE  /\ clientEntries[c].age \in Nat /\ clientEntries[c].age > Idle
               /\ ideal[c] = Burst
    <2>1. clientEntries[c].age \in Nat /\ clientEntries[c].age > Idle
      BY GatewayAssumption DEF IndInv, Shape
    <2>2. c \in Clients /\ ideal[c] \in 0..Burst
      BY DEF IndInv, Shape
    <2>3. Rate * (clientEntries[c].age - Gap) >= Burst /\ Rate * (clientEntries[c].age - Gap) \in Int
      BY <2>1, Refill
    <2> QED BY <2>1, <2>2, <2>3, GatewayAssumption DEF IndInv, ClientInv
  <1>5. ASSUME NEW s \in Slots, req[s].pc = "take"
        PROVE  req[s].client \in kept
    <2>1. req[s] \in Taking
      BY <1>5 DEF IndInv, Shape, Plain, NoRequest
    <2>2. /\ req[s].client \in DOMAIN clientEntries
          /\ clientEntries[req[s].client].age <= req[s].wait
      BY <1>5 DEF IndInv, RequestInv
    <2>3. clientEntries[req[s].client].age \in Nat /\ req[s].wait \in 0..Gap
      BY <2>1, <2>2, GatewayAssumption DEF IndInv, Shape, Taking
    <2>4. clientEntries[req[s].client].age <= Idle + d
      BY <2>2, <2>3, GapBelowIdle, GatewayAssumption
    <2> QED BY <2>2, <2>4
  <1> HIDE DEF kept
  <1>6. InUse(clientEntries', req) = {clientEntries[c].limiter : c \in kept}
    <2>1. \A s \in Slots : req[s].pc = "take" =>
              req[s].client \in kept /\ req[s].limiter = clientEntries[req[s].client].limiter
      BY <1>5 DEF IndInv, RequestInv
    <2> QED BY <1>2, <2>1 DEF InUse
  <1>7. /\ DOMAIN tokens' = {clientEntries[c].limiter : c \in kept}
        /\ \A k \in DOMAIN tokens' : tokens'[k] = tokens[k]
    BY <1>1, <1>6 DEF Restrict
  <1>8. DOMAIN tokens' \subseteq DOMAIN tokens
    BY <1>3, <1>7 DEF IndInv, Shape
  <1>9. Shape'
    <2>1. ASSUME NEW x \in DOMAIN clientEntries'
          PROVE  clientEntries'[x] \in [limiter : DOMAIN tokens', age : 0..(Idle + Gap + 1)]
      BY <1>2, <1>3, <1>7 DEF IndInv, Shape
    <2>2. \A x, y \in DOMAIN clientEntries' :
              clientEntries'[x].limiter = clientEntries'[y].limiter => x = y
      BY <1>2, <1>3 DEF IndInv, Shape
    <2>3. \A k \in DOMAIN tokens' : \E x \in DOMAIN clientEntries' : k = clientEntries'[x].limiter
      BY <1>2, <1>7
    <2>4. /\ DOMAIN tokens' \subseteq LimiterIds
          /\ \A k \in DOMAIN tokens' : tokens'[k] \in 0..Burst
          /\ DOMAIN clientEntries' \subseteq Clients
      BY <1>2, <1>3, <1>7, <1>8 DEF IndInv, Shape
    <2> QED BY <1>1, <2>1, <2>2, <2>3, <2>4 DEF IndInv, Shape
  <1>10. ASSUME NEW c \in Clients PROVE ClientInv(c)'
    <2>1. CASE c \in kept
      BY <1>1, <1>2, <1>3, <1>7, <2>1 DEF IndInv, ClientInv
    <2>2. CASE c \notin kept
      BY <1>1, <1>2, <1>4, <2>2 DEF IndInv, ClientInv
    <2> QED BY <2>1, <2>2
  <1>11. ASSUME NEW s \in Slots PROVE RequestInv(s)'
    BY <1>1, <1>2, <1>5 DEF IndInv, RequestInv, Authorised
  <1> QED BY <1>9, <1>10, <1>11 DEF IndInv

\* Time refills a limiter and the budget of its client alike, and an entry never
\* ages faster than a request waits.
LEMMA TickKeeps ==
    ASSUME IndInv, Tick
    PROVE  IndInv'
  <1> DEFINE refilled(n) == IF n + Rate > Burst THEN Burst ELSE n + Rate
             aged(n) == IF n = Idle + Gap + 1 THEN n ELSE n + 1
  <1>1. Rate \in Nat /\ Burst \in Nat /\ Idle \in Nat /\ Idle > 0 /\ Gap \in Nat
    BY GatewayAssumption
  <1>2. /\ DOMAIN tokens' = DOMAIN tokens
        /\ \A l \in DOMAIN tokens : tokens'[l] = refilled(tokens[l])
    BY DEF Tick
  <1>3. /\ DOMAIN ideal' = Clients
        /\ ideal' = [c \in Clients |-> refilled(ideal[c])]
        /\ \A c \in Clients : ideal'[c] = refilled(ideal[c])
    BY DEF Tick
  <1>4. /\ DOMAIN clientEntries' = DOMAIN clientEntries
        /\ \A c \in DOMAIN clientEntries :
              clientEntries'[c] = [clientEntries[c] EXCEPT !.age = aged(@)]
    BY DEF Tick
  <1>5. ASSUME NEW c \in DOMAIN clientEntries
        PROVE  /\ clientEntries[c].age \in 0..(Idle + Gap + 1)
               /\ clientEntries'[c].limiter = clientEntries[c].limiter
               /\ clientEntries'[c].age = aged(clientEntries[c].age)
               /\ clientEntries'[c] \in [limiter : DOMAIN tokens', age : 0..(Idle + Gap + 1)]
    <2>1. clientEntries[c] \in [limiter : DOMAIN tokens, age : 0..(Idle + Gap + 1)]
      BY DEF IndInv, Shape
    <2> QED BY <1>1, <1>2, <1>4, <2>1
  <1>6. /\ req' = [s \in Slots |->
               IF req[s].pc = "take" THEN [req[s] EXCEPT !.wait = @ + 1] ELSE req[s]]
        /\ \A s \in Slots : req[s].pc = "take" => req[s].wait < Gap
        /\ UNCHANGED <<configured, ready>>
        /\ phase' = (phase + 1) % Idle
    BY DEF Tick
  <1>7. ASSUME NEW s \in Slots, req[s].pc = "take"
        PROVE  /\ req[s] \in Taking /\ req'[s] \in Taking
               /\ req'[s] = [req[s] EXCEPT !.wait = @ + 1]
               /\ req'[s].pc = "take" /\ req'[s].path = req[s].path /\ req'[s].key = req[s].key
               /\ req'[s].client = req[s].client /\ req'[s].limiter = req[s].limiter
               /\ req'[s].wait = req[s].wait + 1
    <2>1. req[s] \in Taking
      BY <1>7 DEF IndInv, Shape, Plain, NoRequest
    <2> QED BY <1>1, <1>6, <1>7, <2>1 DEF Taking
  <1>8. \A s \in Slots : req[s].pc # "take" => req'[s] = req[s]
    BY <1>6
  <1>9. Shape'
    <2>1. phase' \in 0..(Idle - 1)
      BY <1>1, <1>6 DEF IndInv, Shape
    <2>2. \A l \in DOMAIN tokens' : tokens'[l] \in 0..Burst
      BY <1>1, <1>2 DEF IndInv, Shape
    <2>3. ideal' \in [Clients -> 0..Burst]
      BY <1>1, <1>3 DEF IndInv, Shape
    <2>4. req' \in [Slots -> Plain \cup Taking \cup {NoRequest}]
      <3>1. \A s \in Slots : req'[s] \in Plain \cup Taking \cup {NoRequest}
        BY <1>7, <1>8 DEF IndInv, Shape
      <3> QED BY <1>6, <3>1
    <2>5. \A x, y \in DOMAIN clientEntries' :
              clientEntries'[x].limiter = clientEntries'[y].limiter => x = y
      BY <1>4, <1>5 DEF IndInv, Shape
    <2>6. \A k \in DOMAIN tokens' : \E x \in DOMAIN clientEntries' : k = clientEntries'[x].limiter
      BY <1>2, <1>4, <1>5 DEF IndInv, Shape
    <2> QED BY <1>2, <1>4, <1>5, <1>6, <2>1, <2>2, <2>3, <2>4, <2>5, <2>6 DEF IndInv, Shape
  <1>10. ASSUME NEW c \in Clients PROVE ClientInv(c)'
    <2>1. ideal[c] \in 0..Burst /\ ideal'[c] = refilled(ideal[c])
      BY <1>3 DEF IndInv, Shape
    <2>2. CASE c \notin DOMAIN clientEntries
      BY <1>1, <1>4, <2>1, <2>2 DEF IndInv, ClientInv
    <2>3. CASE c \in DOMAIN clientEntries
      <3> DEFINE l == clientEntries[c].limiter
                 a == clientEntries[c].age
      <3>1. /\ l \in DOMAIN tokens /\ tokens[l] \in 0..Burst /\ tokens[l] <= ideal[c]
            /\ a \in 0..(Idle + Gap + 1) /\ a \in Nat
            /\ ideal[c] = Burst \/ Rate * (a - Gap) <= ideal[c]
        BY <1>1, <1>5, <2>3 DEF IndInv, Shape, ClientInv
      <3>2. /\ clientEntries'[c].limiter = l /\ clientEntries'[c].age = aged(a)
            /\ tokens'[l] = refilled(tokens[l])
        BY <1>2, <1>5, <2>3, <3>1
      <3>3. tokens'[l] <= ideal'[c]
        BY <1>1, <2>1, <3>1, <3>2
      <3>4. /\ Rate * (a - Gap) \in Int
            /\ Rate * ((a + 1) - Gap) = Rate * (a - Gap) + Rate
        BY <3>1, Refill
      <3>5. ideal'[c] = Burst \/ Rate * (a - Gap) <= ideal'[c]
        BY <1>1, <2>1, <3>1, <3>4
      <3>6. ideal'[c] = Burst \/ Rate * ((a + 1) - Gap) <= ideal'[c]
        BY <1>1, <2>1, <3>1, <3>4
      <3> HIDE DEF l, a
      <3>7. ideal'[c] = Burst \/ Rate * (clientEntries'[c].age - Gap) <= ideal'[c]
        BY <3>2, <3>5, <3>6
      <3> QED BY <1>4, <2>3, <3>2, <3>3, <3>7 DEF ClientInv
    <2> QED BY <2>2, <2>3
  <1>11. ASSUME NEW s \in Slots PROVE RequestInv(s)'
    <2>1. CASE req[s].pc = "take"
      <3> DEFINE c == req[s].client
      <3>1. /\ c \in DOMAIN clientEntries /\ req[s].limiter = clientEntries[c].limiter
            /\ clientEntries[c].age <= req[s].wait /\ Authorised(req[s].key)
        BY <2>1 DEF IndInv, RequestInv
      <3>2. clientEntries'[c].age <= req[s].wait + 1
        <4>1. /\ clientEntries[c].age \in 0..(Idle + Gap + 1)
              /\ clientEntries'[c].age = aged(clientEntries[c].age)
          BY <1>5, <3>1
        <4>2. req[s].wait \in 0..Gap
          BY <1>7, <2>1 DEF Taking
        <4> QED BY <1>1, <3>1, <4>1, <4>2
      <3> QED BY <1>4, <1>5, <1>6, <1>7, <2>1, <3>1, <3>2 DEF RequestInv, Authorised
    <2>2. CASE req[s].pc # "take"
      BY <1>6, <1>8, <2>2 DEF IndInv, RequestInv, Authorised
    <2> QED BY <2>1, <2>2
  <1> QED BY <1>9, <1>10, <1>11 DEF IndInv

\* Every step of the requests, the cleanup and the clock keeps the invariant.
LEMMA NextIndInv == IndInv /\ [GatewayNext]_gatewayVars => IndInv'
  <1> SUFFICES ASSUME IndInv, [GatewayNext]_gatewayVars PROVE IndInv'
    OBVIOUS
  <1>1. ASSUME NEW r \in Slots, NEW c \in Clients, NEW path \in Paths,
               NEW header \in Keys \cup {Blank}, NEW bearer \in Keys \cup {Blank},
               Arrive(r, c, path, header, bearer)
        PROVE  IndInv'
    BY <1>1, ArriveKeeps
  <1>2. ASSUME NEW r \in Slots, Serve(r) PROVE IndInv'
    BY <1>2, AuthenticateKeeps, LookupKeeps, TakeKeeps, ReadyKeeps, NotFoundKeeps,
       HandleKeeps DEF Serve
  <1>3. CASE SetReady
    <2>1. ready' = TRUE /\ UNCHANGED <<configured, clientEntries, tokens, phase, req, ideal>>
      BY <1>3 DEF SetReady
    <2> QED BY <2>1 DEF IndInv, Shape, ClientInv, RequestInv, Authorised
  <1>4. ASSUME NEW d \in 0..Gap, Sweep(d) PROVE IndInv'
    BY <1>4, SweepKeeps
  <1>5. CASE Close \/ UNCHANGED gatewayVars
    <2>1. UNCHANGED <<configured, ready, clientEntries, tokens, phase, req, ideal>>
      BY <1>5 DEF Close, gatewayVars
    <2> QED BY <2>1 DEF IndInv, Shape, ClientInv, RequestInv, Authorised
  <1>6. CASE Tick
    BY <1>6, TickKeeps
  <1> QED BY <1>1, <1>2, <1>3, <1>4, <1>5, <1>6 DEF GatewayNext

\* IndInv holds in every reachable state.
LEMMA Inductive == GatewaySpec => []IndInv
  BY InitIndInv, NextIndInv, PTL DEF GatewaySpec
-----------------------------------------------------------------------------
\* The state of the middleware is always well typed; in particular a request
\* inside allow holds a limiter that exists.
THEOREM GatewayTypeCorrect == GatewaySpec => []GatewayTypeOK
  <1>1. ASSUME IndInv PROVE GatewayTypeOK
    <2>1. ASSUME NEW r \in Slots, req[r].pc = "take"
          PROVE  req[r].limiter \in DOMAIN tokens /\ req[r].wait \in 0..Gap
      <3>1. req[r] \in Taking
        BY <1>1, <2>1 DEF IndInv, Shape, Plain, NoRequest
      <3>2. /\ req[r].client \in DOMAIN clientEntries
            /\ req[r].limiter = clientEntries[req[r].client].limiter
        BY <1>1, <2>1 DEF IndInv, RequestInv
      <3>3. clientEntries[req[r].client] \in [limiter : DOMAIN tokens, age : 0..(Idle + Gap + 1)]
        BY <1>1, <3>2 DEF IndInv, Shape
      <3> QED BY <3>1, <3>2, <3>3 DEF Taking
    <2> QED BY <1>1, <2>1 DEF IndInv, Shape, GatewayTypeOK
  <1> QED BY Inductive, <1>1, PTL

\* No client ever gets more than its rate and its burst, whatever cleanupLoop
\* deletes and however many of its requests arrive at once.
THEOREM BudgetIsKept == GatewaySpec => []WithinBudget
  <1>1. IndInv => WithinBudget
    BY GatewayAssumption DEF IndInv, Shape, WithinBudget
  <1> QED BY Inductive, <1>1, PTL

\* Neither a handler nor a limiter sees a request that the key check would have
\* refused, and before the service is ready only the probes and the 404 of
\* unmatched requests are handled.
THEOREM HandlersAreGuarded == GatewaySpec => []Guarded
  <1>1. IndInv => Guarded
    BY DEF IndInv, RequestInv, Guarded
  <1> QED BY Inductive, <1>1, PTL

(***************************************************************************)
(* Webhook.                                                                *)
(***************************************************************************)
FireState == [pc : {"idle", "collect", "done"}, event : EventTypes]

DeliveryState ==
    [pc : {"attempt", "check", "return", "encode_error"},
     attempts : 0..MaxAttempts, delivered : BOOLEAN]

\* WebhookTypeOK with the domains that it leaves open.
DeliveryShape ==
    /\ subscribers \in Seq(SUBSET EventTypes)
    /\ Len(subscribers) <= MaxSubscribers
    /\ cancelled \subseteq Callers
    /\ fire \in [Callers -> FireState]
    /\ DOMAIN delivery = Callers
    /\ DOMAIN collected = Callers
    /\ DOMAIN known = Callers
    /\ DOMAIN got = Callers
    /\ DOMAIN late = Callers
    /\ \A c \in Callers :
          /\ DOMAIN late[c] = DOMAIN delivery[c]
          /\ known[c] \subseteq DOMAIN subscribers
          /\ DOMAIN delivery[c] \subseteq known[c]
          /\ collected[c] \subseteq DOMAIN delivery[c]
          /\ got[c] \subseteq DOMAIN delivery[c]
          /\ \A i \in DOMAIN delivery[c] :
                delivery[c][i] \in DeliveryState /\ late[c][i] \in Nat

\* Which deliveries a call has, and where they can be while it is in its step.
CallInv(c) ==
    /\ fire[c].pc = "idle" => DOMAIN delivery[c] = {}
    /\ fire[c].pc # "idle" =>
          DOMAIN delivery[c] =
              {i \in known[c] : subscribers[i] = {} \/ fire[c].event \in subscribers[i]}
    /\ fire[c].pc = "collect" =>
          \A i \in DOMAIN delivery[c] : delivery[c][i].pc # "encode_error"
    /\ fire[c].pc = "done" =>
          \A i \in DOMAIN delivery[c] : delivery[c][i].pc \in {"return", "encode_error"}
    /\ \A i \in collected[c] : delivery[c][i].pc = "return"

\* What a delivery has done by the time it is in its step: it goes on only while
\* it has attempts left and has not delivered, and it looks at the context
\* between an attempt begun after the cancellation and the next one.
DeliveryInv(c, i) ==
    LET d == delivery[c][i] IN
    /\ d.pc = "encode_error" => i \notin got[c]
    /\ d.pc \in {"attempt", "check"} => ~d.delivered /\ d.attempts < MaxAttempts
    /\ d.pc = "return" =>
          IF d.delivered THEN i \in got[c]
          ELSE d.attempts = MaxAttempts \/ c \in cancelled
    /\ late[c][i] <= 1
    /\ d.pc = "attempt" => late[c][i] = 0
    /\ late[c][i] = 1 => c \in cancelled

WebhookInv ==
    /\ DeliveryShape
    /\ \A c \in Callers :
          /\ CallInv(c)
          /\ \A i \in DOMAIN delivery[c] : DeliveryInv(c, i)

\* Nothing is registered and no call has begun at the start.
LEMMA InitWebhookInv == WebhookInit => WebhookInv
  <1> SUFFICES ASSUME WebhookInit PROVE WebhookInv
    OBVIOUS
  <1>1. subscribers \in Seq(SUBSET EventTypes) /\ Len(subscribers) <= MaxSubscribers
    BY WebhookAssumption DEF WebhookInit
  <1>2. (CHOOSE e \in EventTypes : TRUE) \in EventTypes
    BY WebhookAssumption
  <1>3. fire \in [Callers -> FireState] /\ \A c \in Callers : fire[c].pc = "idle"
    BY <1>2 DEF WebhookInit, FireState
  <1>4. \A c \in Callers : DOMAIN delivery[c] = {} /\ DOMAIN late[c] = {}
    <2>1. \A s : s = << >> => DOMAIN s = {}
      BY EmptySeq, SMT
    <2>2. \A c \in Callers : delivery[c] = << >> /\ late[c] = << >>
      BY DEF WebhookInit
    <2> QED BY <2>1, <2>2, Zenon
  <1>5. /\ cancelled = {}
        /\ DOMAIN delivery = Callers /\ DOMAIN collected = Callers /\ DOMAIN known = Callers
        /\ DOMAIN got = Callers /\ DOMAIN late = Callers
        /\ \A c \in Callers : known[c] = {} /\ got[c] = {} /\ collected[c] = {}
    BY DEF WebhookInit
  <1>6. DeliveryShape
    BY <1>1, <1>3, <1>4, <1>5 DEF DeliveryShape
  <1> QED BY <1>3, <1>4, <1>5, <1>6 DEF WebhookInv, CallInv

\* A new subscriber changes nothing for the calls that are under way.
LEMMA RegisterKeeps ==
    ASSUME WebhookInv, NEW es \in SUBSET EventTypes, Register(es)
    PROVE  WebhookInv'
  <1>1. /\ subscribers' \in Seq(SUBSET EventTypes)
        /\ Len(subscribers') <= MaxSubscribers
        /\ DOMAIN subscribers \subseteq DOMAIN subscribers'
        /\ \A i \in DOMAIN subscribers : subscribers'[i] = subscribers[i]
    BY WebhookAssumption DEF WebhookInv, DeliveryShape, Register
  <1>2. UNCHANGED <<fire, delivery, collected, cancelled, known, got, late>>
    BY DEF Register, webhookHistory
  <1>3. DeliveryShape'
    BY <1>1, <1>2 DEF WebhookInv, DeliveryShape
  <1>4. ASSUME NEW c \in Callers PROVE CallInv(c)'
    <2>1. \A i \in known[c] : subscribers'[i] = subscribers[i]
      BY <1>1 DEF WebhookInv, DeliveryShape
    <2> QED BY <1>2, <2>1 DEF WebhookInv, CallInv
  <1>5. ASSUME NEW c \in Callers, NEW i \in DOMAIN delivery'[c] PROVE DeliveryInv(c, i)'
    BY <1>2 DEF WebhookInv, DeliveryInv
  <1> QED BY <1>3, <1>4, <1>5 DEF WebhookInv

\* Fire starts one delivery per subscriber that wants the event.
LEMMA FireKeeps ==
    ASSUME WebhookInv, NEW c \in Callers, NEW e \in EventTypes, NEW encodable \in BOOLEAN,
           Fire(c, e, encodable)
    PROVE  WebhookInv'
  <1> DEFINE subs == Subscribers(e)
             d0 == [pc |-> IF encodable THEN "attempt" ELSE "encode_error",
                    attempts |-> IF encodable THEN 0 ELSE 1, delivered |-> FALSE]
  <1>1. d0 \in DeliveryState
    BY WebhookAssumption DEF DeliveryState
  <1>2. subs = {i \in DOMAIN subscribers : subscribers[i] = {} \/ e \in subscribers[i]}
    BY DEF Subscribers, wants
  <1> HIDE DEF subs
  <1>3. /\ fire[c].pc = "idle"
        /\ fire' = [fire EXCEPT ![c] =
               [pc |-> IF encodable THEN "collect" ELSE "done", event |-> e]]
        /\ delivery' = [delivery EXCEPT ![c] = [i \in subs |-> d0]]
        /\ known' = [known EXCEPT ![c] = DOMAIN subscribers]
        /\ late' = [late EXCEPT ![c] = [i \in subs |-> 0]]
        /\ UNCHANGED <<subscribers, collected, cancelled, got>>
    BY DEF Fire, subs
  <1>4. collected[c] = {} /\ got[c] = {}
    BY <1>3 DEF WebhookInv, DeliveryShape, CallInv
  <1>5. DeliveryShape'
    <2>1. fire' \in [Callers -> FireState]
      BY <1>3 DEF WebhookInv, DeliveryShape, FireState
    <2> QED BY <1>1, <1>2, <1>3, <1>4, <2>1 DEF WebhookInv, DeliveryShape
  <1>6. ASSUME NEW x \in Callers PROVE CallInv(x)'
    <2>1. CASE x = c
      BY <1>2, <1>3, <1>4, <2>1 DEF WebhookInv, DeliveryShape, CallInv
    <2>2. CASE x # c
      BY <1>3, <2>2 DEF WebhookInv, DeliveryShape, CallInv
    <2> QED BY <2>1, <2>2
  <1>7. ASSUME NEW x \in Callers, NEW i \in DOMAIN delivery'[x] PROVE DeliveryInv(x, i)'
    <2>1. CASE x = c
      BY <1>3, <1>4, <2>1, WebhookAssumption DEF WebhookInv, DeliveryShape, DeliveryInv
    <2>2. CASE x # c
      BY <1>3, <2>2 DEF WebhookInv, DeliveryShape, DeliveryInv
    <2> QED BY <2>1, <2>2
  <1> QED BY <1>5, <1>6, <1>7 DEF WebhookInv

\* An attempt moves one delivery on.
LEMMA AttemptKeeps ==
    ASSUME WebhookInv, NEW c \in Callers, NEW i \in DOMAIN delivery[c], attempt(c, i)
    PROVE  WebhookInv'
  <1> DEFINE d == delivery[c][i]
             after(ok) == [pc |-> IF ok \/ exhausted(d.attempts + 1) THEN "return" ELSE "check",
                           attempts |-> d.attempts + 1, delivered |-> ok]
  <1>1. PICK ok \in BOOLEAN :
            /\ delivery' = [delivery EXCEPT ![c][i] = after(ok)]
            /\ ok => c \notin cancelled /\ got' = [got EXCEPT ![c] = @ \cup {i}]
            /\ got' \in {got, [got EXCEPT ![c] = @ \cup {i}]}
    BY DEF attempt
  <1>2. /\ d.pc = "attempt"
        /\ late' = [late EXCEPT ![c][i] = IF c \in cancelled THEN @ + 1 ELSE @]
        /\ UNCHANGED <<subscribers, fire, collected, cancelled, known>>
    BY DEF attempt
  <1>3. /\ d \in DeliveryState /\ d.attempts < MaxAttempts /\ late[c][i] = 0
        /\ fire[c].pc = "collect" /\ i \notin collected[c]
    BY <1>2 DEF WebhookInv, DeliveryShape, CallInv, DeliveryInv, FireState
  <1>4. /\ after(ok) \in DeliveryState
        /\ after(ok).pc \in {"return", "check"}
        /\ after(ok).pc = "check" => ~ok /\ d.attempts + 1 < MaxAttempts
        /\ after(ok).pc = "return" => ok \/ d.attempts + 1 = MaxAttempts
        /\ after(ok).delivered = ok /\ after(ok).attempts = d.attempts + 1
    BY <1>3, WebhookAssumption DEF DeliveryState, exhausted
  <1> HIDE DEF after
  <1>5. /\ DOMAIN delivery' = Callers
        /\ \A x \in Callers : DOMAIN delivery'[x] = DOMAIN delivery[x]
        /\ delivery'[c][i] = after(ok)
        /\ \A x \in Callers : \A j \in DOMAIN delivery[x] :
              <<x, j>> # <<c, i>> => delivery'[x][j] = delivery[x][j]
    BY <1>1 DEF WebhookInv, DeliveryShape
  <1>6. /\ DOMAIN late' = Callers
        /\ \A x \in Callers : DOMAIN late'[x] = DOMAIN late[x]
        /\ late'[c][i] = IF c \in cancelled THEN 1 ELSE 0
        /\ \A x \in Callers : \A j \in DOMAIN delivery[x] :
              <<x, j>> # <<c, i>> => late'[x][j] = late[x][j]
    BY <1>2, <1>3 DEF WebhookInv, DeliveryShape
  <1>7. /\ DOMAIN got' = Callers
        /\ \A x \in Callers : got[x] \subseteq got'[x] /\ got'[x] \subseteq got[x] \cup {i}
        /\ \A x \in Callers \ {c} : got'[x] = got[x]
        /\ ok => i \in got'[c] /\ c \notin cancelled
    <2>1. CASE got' = got
      BY <1>1, <2>1 DEF WebhookInv, DeliveryShape
    <2>2. CASE got' = [got EXCEPT ![c] = @ \cup {i}]
      <3>1. DOMAIN got' = Callers /\ \A x \in Callers : got'[x] = IF x = c THEN got[c] \cup {i} ELSE got[x]
        BY <2>2 DEF WebhookInv, DeliveryShape
      <3> QED BY <1>1, <3>1
    <2> QED BY <1>1, <2>1, <2>2
  <1>8. DeliveryShape'
    BY <1>2, <1>4, <1>5, <1>6, <1>7 DEF WebhookInv, DeliveryShape
  <1>9. ASSUME NEW x \in Callers PROVE CallInv(x)'
    BY <1>2, <1>3, <1>4, <1>5 DEF WebhookInv, DeliveryShape, CallInv
  <1>10. ASSUME NEW x \in Callers, NEW j \in DOMAIN delivery'[x] PROVE DeliveryInv(x, j)'
    <2>1. CASE <<x, j>> = <<c, i>>
      BY <1>2, <1>3, <1>4, <1>5, <1>6, <1>7, <2>1 DEF DeliveryInv
    <2>2. CASE <<x, j>> # <<c, i>>
      BY <1>2, <1>5, <1>6, <1>7, <2>2 DEF WebhookInv, DeliveryInv
    <2> QED BY <2>1, <2>2
  <1> QED BY <1>8, <1>9, <1>10 DEF WebhookInv

\* Between two attempts a delivery returns if its context is done.
LEMMA CheckKeeps ==
    ASSUME WebhookInv, NEW c \in Callers, NEW i \in DOMAIN delivery[c], CheckAndBackoff(c, i)
    PROVE  WebhookInv'
  <1> DEFINE next == IF c \in cancelled THEN "return" ELSE "attempt"
  <1>1. /\ delivery[c][i].pc = "check"
        /\ delivery' = [delivery EXCEPT ![c][i].pc = next]
        /\ UNCHANGED <<subscribers, fire, collected, cancelled, known, got, late>>
    BY DEF CheckAndBackoff, webhookHistory
  <1>2. /\ delivery[c][i] \in DeliveryState
        /\ fire[c].pc = "collect" /\ i \notin collected[c]
    BY <1>1 DEF WebhookInv, DeliveryShape, CallInv, FireState
  <1>3. /\ DOMAIN delivery' = Callers
        /\ \A x \in Callers : DOMAIN delivery'[x] = DOMAIN delivery[x]
        /\ delivery'[c][i] = [delivery[c][i] EXCEPT !.pc = next]
        /\ \A x \in Callers : \A j \in DOMAIN delivery[x] :
              <<x, j>> # <<c, i>> => delivery'[x][j] = delivery[x][j]
    BY <1>1 DEF WebhookInv, DeliveryShape
  <1>4. /\ delivery'[c][i] \in DeliveryState
        /\ delivery'[c][i].pc = next
        /\ delivery'[c][i].attempts = delivery[c][i].attempts
        /\ delivery'[c][i].delivered = delivery[c][i].delivered
    BY <1>2, <1>3 DEF DeliveryState
  <1>5. DeliveryShape'
    BY <1>1, <1>3, <1>4 DEF WebhookInv, DeliveryShape
  <1>6. ASSUME NEW x \in Callers PROVE CallInv(x)'
    BY <1>1, <1>2, <1>3, <1>4 DEF WebhookInv, DeliveryShape, CallInv
  <1>7. ASSUME NEW x \in Callers, NEW j \in DOMAIN delivery'[x] PROVE DeliveryInv(x, j)'
    <2>1. CASE <<x, j>> = <<c, i>>
      BY <1>1, <1>2, <1>3, <1>4, <2>1 DEF WebhookInv, DeliveryShape, DeliveryInv
    <2>2. CASE <<x, j>> # <<c, i>>
      BY <1>1, <1>3, <2>2 DEF WebhookInv, DeliveryInv
    <2> QED BY <2>1, <2>2
  <1> QED BY <1>5, <1>6, <1>7 DEF WebhookInv

\* Fire takes the statuses of a delivery that has returned.
LEMMA CollectKeeps ==
    ASSUME WebhookInv, NEW c \in Callers, NEW i \in DOMAIN delivery[c], Collect(c, i)
    PROVE  WebhookInv'
  <1>1. /\ delivery[c][i].pc = "return"
        /\ collected' = [collected EXCEPT ![c] = @ \cup {i}]
        /\ UNCHANGED <<subscribers, fire, delivery, cancelled, known, got, late>>
    BY DEF Collect, webhookHistory
  <1>2. /\ DOMAIN collected' = Callers
        /\ \A x \in Callers :
              collected'[x] = IF x = c THEN collected[c] \cup {i} ELSE collected[x]
    BY <1>1 DEF WebhookInv, DeliveryShape
  <1>3. DeliveryShape'
    BY <1>1, <1>2 DEF WebhookInv, DeliveryShape
  <1>4. \A x \in Callers : CallInv(x)'
    BY <1>1, <1>2 DEF WebhookInv, CallInv
  <1>5. \A x \in Callers : \A j \in DOMAIN delivery'[x] : DeliveryInv(x, j)'
    BY <1>1 DEF WebhookInv, DeliveryInv
  <1> QED BY <1>3, <1>4, <1>5 DEF WebhookInv

\* Fire returns when it has the statuses of every delivery.
LEMMA ReturnKeeps ==
    ASSUME WebhookInv, NEW c \in Callers, Return(c)
    PROVE  WebhookInv'
  <1>1. /\ fire[c].pc = "collect" /\ collected[c] = DOMAIN delivery[c]
        /\ fire' = [fire EXCEPT ![c].pc = "done"]
        /\ UNCHANGED <<subscribers, delivery, collected, cancelled, known, got, late>>
    BY DEF Return, webhookHistory
  <1>2. /\ fire' \in [Callers -> FireState]
        /\ fire'[c].pc = "done" /\ fire'[c].event = fire[c].event
        /\ \A x \in Callers : x # c => fire'[x] = fire[x]
    BY <1>1 DEF WebhookInv, DeliveryShape, FireState
  <1>3. DeliveryShape'
    BY <1>1, <1>2 DEF WebhookInv, DeliveryShape
  <1>4. \A x \in Callers : CallInv(x)'
    BY <1>1, <1>2 DEF WebhookInv, CallInv
  <1>5. \A x \in Callers : \A j \in DOMAIN delivery'[x] : DeliveryInv(x, j)'
    BY <1>1 DEF WebhookInv, DeliveryInv
  <1> QED BY <1>3, <1>4, <1>5 DEF WebhookInv

\* A cancellation only adds to the reasons for which a delivery may give up.
LEMMA CancelKeeps ==
    ASSUME WebhookInv, NEW c \in Callers, Cancel(c)
    PROVE  WebhookInv'
  <1>1. /\ cancelled' = cancelled \cup {c}
        /\ UNCHANGED <<subscribers, fire, delivery, collected, known, got, late>>
    BY DEF Cancel, webhookHistory
  <1>2. DeliveryShape'
    BY <1>1 DEF WebhookInv, DeliveryShape
  <1>3. \A x \in Callers : CallInv(x)'
    BY <1>1 DEF WebhookInv, CallInv
  <1>4. \A x \in Callers : \A j \in DOMAIN delivery'[x] : DeliveryInv(x, j)'
    BY <1>1 DEF WebhookInv, DeliveryInv
  <1> QED BY <1>2, <1>3, <1>4 DEF WebhookInv

\* Every step of the registry, the calls and the deliveries keeps the invariant.
LEMMA NextWebhookInv == WebhookInv /\ [WebhookNext]_webhookVars => WebhookInv'
  <1> SUFFICES ASSUME WebhookInv, [WebhookNext]_webhookVars PROVE WebhookInv'
    OBVIOUS
  <1>1. ASSUME NEW es \in SUBSET EventTypes, Register(es) PROVE WebhookInv'
    BY <1>1, RegisterKeeps
  <1>2. ASSUME NEW c \in Callers, NEW e \in EventTypes, NEW encodable \in BOOLEAN,
               Fire(c, e, encodable)
        PROVE  WebhookInv'
    BY <1>2, FireKeeps
  <1>3. ASSUME NEW c \in Callers, Deliver(c) PROVE WebhookInv'
    BY <1>3, AttemptKeeps, CheckKeeps, CollectKeeps DEF Deliver
  <1>4. ASSUME NEW c \in Callers, Return(c) PROVE WebhookInv'
    BY <1>4, ReturnKeeps
  <1>5. ASSUME NEW c \in Callers, Cancel(c) PROVE WebhookInv'
    BY <1>5, CancelKeeps
  <1>6. CASE UNCHANGED webhookVars
    <2>1. UNCHANGED <<subscribers, fire, delivery, collected, cancelled, known, got, late>>
      BY <1>6 DEF webhookVars, webhookHistory
    <2> QED BY <2>1 DEF WebhookInv, DeliveryShape, CallInv, DeliveryInv
  <1> QED BY <1>1, <1>2, <1>3, <1>4, <1>5, <1>6 DEF WebhookNext

\* WebhookInv holds in every reachable state.
LEMMA WebhookInductive == WebhookSpec => []WebhookInv
  BY InitWebhookInv, NextWebhookInv, PTL DEF WebhookSpec

\* The state of registry, calls and deliveries is always well typed: no delivery
\* counts more than MaxAttempts attempts, and no call collects what it did not
\* start.
THEOREM WebhookTypeCorrect == WebhookSpec => []WebhookTypeOK
  <1>1. WebhookInv => WebhookTypeOK
    BY DEF WebhookInv, DeliveryShape, WebhookTypeOK, FireState, DeliveryState
  <1> QED BY WebhookInductive, <1>1, PTL

\* The report of Fire is complete, for any number of calls and subscribers.
THEOREM ReportIsComplete == WebhookSpec => []ReportComplete
  <1>1. WebhookInv => ReportComplete
    BY DEF WebhookInv, DeliveryShape, CallInv, DeliveryInv, ReportComplete, Report
  <1> QED BY WebhookInductive, <1>1, PTL

\* A cancelled Fire makes at most one more attempt per subscriber.
THEOREM CancelIsBounded == WebhookSpec => []CancelBounded
  <1>1. WebhookInv => CancelBounded
    BY DEF WebhookInv, DeliveryInv, CancelBounded, Report
  <1> QED BY WebhookInductive, <1>1, PTL
=============================================================================
