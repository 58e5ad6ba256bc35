---------------------------- MODULE ResolverProofs ----------------------------
(***************************************************************************)
(* Proofs about module Resolver, for any keys, buckets and number of       *)
(* requests, any number of changes, failed calls and restarts.             *)
(***************************************************************************)
EXTENDS Resolver, FiniteSetTheorems, WellFoundedInduction, TLAPS

WorkerSteps == {"idle", "exists", "scan", "read", "put", "persisted"}
SyncSteps == {"list", "register", "count", "read", "put"}
BootSteps == {"fetch", "clear", "load", "persisted", "up", "down"}

\* Steps and requests of module ProxyRoutes.  The lemmas about the steps of this
\* module allow them, so that they serve that module too.
CacheSteps == {"head", "upstream", "store", "claim"}
VirtualRequests == [op : {"virtual"}, key : Keys]
AllRequests == Requests \cup VirtualRequests

LocalState ==
    [pc : WorkerSteps \cup CacheSteps \cup SyncSteps \cup BootSteps,
     req : AllRequests \cup {NoRequest},
     todo : SUBSET Bucket, hit : Bucket \cup {NoBucket}, got : SUBSET (Keys \cup Objects),
     seen : SUBSET Keys, dups : SUBSET Keys, perr : BOOLEAN, ans : Answers]

\* What a process p can be doing when its local state is x.
WorkerOK(x) ==
    /\ x.pc \in WorkerSteps \cup CacheSteps
    /\ x.pc # "idle" => x.req \in AllRequests
    /\ x.pc \in {"exists", "scan"} => x.req \in Requests
    /\ x.pc = "exists" =>
          /\ x.hit \in Bucket /\ x.todo = Searched(x.req)
          /\ x.req.op = "route" => x.hit = x.req.at
    /\ x.pc = "idle" /\ x.req.op = "route" /\ x.ans.kind = "found" => x.ans.bucket = x.req.at

LocalOK(p, x) ==
    /\ x.dups \subseteq x.seen
    /\ x.pc \in {"read", "put", "list", "register", "fetch"} => x.todo # {}
    /\ x.pc \in {"put", "register"} => x.got \subseteq Keys
    /\ x.pc \in {"fetch", "clear", "load"} => x.got \subseteq Objects
    /\ IF p \in Workers THEN WorkerOK(x) ELSE x.req = NoRequest
    /\ p = Syncer => x.pc \in SyncSteps \cup {"idle"}
    /\ p = Booter => x.pc \in SyncSteps \cup BootSteps

\* TypeOK, with where each process can be.
TypeInv ==
    /\ where \in [Keys -> Bucket \cup {NoBucket}]
    /\ objs \subseteq Objects
    /\ manifest \in [Bucket -> SUBSET Keys]
    /\ ready \in BOOLEAN
    /\ dupCount \in Nat
    /\ t \in [Procs -> LocalState]
    /\ \A p \in Procs : LocalOK(p, t[p])
    /\ steady \subseteq objs
    /\ fresh \subseteq Procs
    /\ calm \subseteq Workers
-----------------------------------------------------------------------------
(***************************************************************************)
(* The operators of the model.                                             *)
(***************************************************************************)

\* A set of buckets that is not empty has a first one.
LEMMA LeastFacts ==
    ASSUME NEW S \in SUBSET Bucket, S # {}
    PROVE  Least(S) \in S /\ \A c \in S : Least(S) <= c
  <1> DEFINE R == OpToRel(<, Nat)
  <1>1. S \subseteq Nat
    BY DEF Bucket
  <1>2. PICK b \in S : \A c \in S : ~(<<c, b>> \in R)
    BY <1>1, NatLessThanWellFounded, WFMin
  <1>3. \A c \in S : ~(c < b)
    BY <1>1, <1>2 DEF OpToRel
  <1>4. \A c \in S : b <= c
    BY <1>1, <1>3
  <1> QED BY <1>4 DEF Least

\* The parts of a request.
LEMMA RequestFacts ==
    ASSUME NEW r \in Requests
    PROVE  /\ r.key \in Keys /\ r.op \in Ops
           /\ r.op \in {"route", "type", "update", "relocate"}
           /\ r.op = "route" => r.at \in Bucket
           /\ Searched(r) \subseteq Bucket
           /\ r.op # "type" => Searched(r) = Bucket
           /\ r # NoRequest /\ NoRequest.op = "none"
  <1>1. /\ r.key \in Keys /\ r.op \in Ops
        /\ r.op \in {"route", "type", "update", "relocate"}
        /\ r.op = "route" => r.at \in Bucket
    BY DEF Requests
  <1>2. NoRequest.op = "none"
    BY DEF NoRequest
  <1>3. Searched(r) \subseteq Bucket /\ (r.op # "type" => Searched(r) = Bucket)
    BY DEF Searched
  <1> QED BY <1>1, <1>2, <1>3

\* Any request has a key.
LEMMA AnyRequestFacts ==
    ASSUME NEW r \in AllRequests
    PROVE  r.key \in Keys /\ (r \in VirtualRequests => r.op = "virtual")
  BY RequestFacts DEF AllRequests, VirtualRequests

\* A process that starts, or ends, something.
LEMMA AtFacts ==
    ASSUME NEW pc \in WorkerSteps \cup CacheSteps \cup SyncSteps \cup BootSteps,
           NEW r \in AllRequests \cup {NoRequest}, NEW a \in Answers
    PROVE  /\ At(pc, r, a) \in LocalState
           /\ At(pc, r, a).pc = pc /\ At(pc, r, a).req = r /\ At(pc, r, a).ans = a
           /\ At(pc, r, a).todo = {} /\ At(pc, r, a).hit = NoBucket /\ At(pc, r, a).got = {}
           /\ At(pc, r, a).seen = {} /\ At(pc, r, a).dups = {} /\ At(pc, r, a).perr = FALSE
  BY DEF At, LocalState

\* The answers of the handlers.
LEMMA AnswerFacts ==
    /\ \A b \in Bucket \cup {NoBucket} :
          Found(b) \in Answers /\ Found(b).kind = "found" /\ Found(b).bucket = b
    /\ Missing \in Answers /\ Missing.kind = "missing"
    /\ Failed \in Answers /\ Failed.kind = "failed"
    /\ NoAnswer \in Answers /\ NoAnswer.kind = "none"
  BY DEF Answers, Found, Missing, Failed, NoAnswer

\* A claim leaves the key with the claimer or with an owner of better rank.
LEMMA ClaimFacts ==
    ASSUME TypeInv, NEW k \in Keys, NEW b \in Bucket, Cat!Claim(k, b)
    PROVE  /\ where' \in [Keys -> Bucket \cup {NoBucket}]
           /\ \A j \in Keys : j # k => where'[j] = where[j]
           /\ where'[k] \in Bucket /\ where'[k] <= b
           /\ where'[k] \in {where[k], b}
           /\ where[k] # NoBucket => where'[k] <= where[k]
  <1>1. where[k] \in Bucket \cup {NoBucket}
    BY DEF TypeInv
  <1>2. CASE where[k] # NoBucket /\ where[k] < b
    BY <1>1, <1>2 DEF Cat!Claim, Cat!Registered, TypeInv, Bucket
  <1>3. CASE ~(where[k] # NoBucket /\ where[k] < b)
    <2>1. where' = [where EXCEPT ![k] = b]
      BY <1>1, <1>3 DEF Cat!Claim, Cat!Registered
    <2> QED BY <1>1, <1>3, <2>1, ResolverAssumption DEF TypeInv, Bucket
  <1> QED BY <1>2, <1>3

\* One process goes to its next state.
LEMMA StepFacts ==
    ASSUME TypeInv, NEW p \in Procs, NEW x \in LocalState, Step(p, x)
    PROVE  /\ t' \in [Procs -> LocalState] /\ t'[p] = x
           /\ \A q \in Procs : q # p => t'[q] = t[q]
  BY DEF TypeInv, Step

\* The end of one turn of SyncRegistry's loop.
LEMMA OnwardsFacts ==
    ASSUME NEW x \in LocalState, x.todo # {}
    PROVE  LET y == Onwards(x)
               rest == x.todo \ {Least(x.todo)}
           IN  /\ y \in LocalState
               /\ y.seen = x.seen /\ y.dups = x.dups /\ y.got = x.got /\ y.req = x.req
               /\ x.got # {} => y.pc = "register" /\ y.todo = x.todo
               /\ x.got = {} => /\ y.pc = IF rest # {} THEN "list" ELSE "count"
                                /\ y.todo = rest
  BY DEF Onwards, LocalState, SyncSteps

\* The end of one turn of PersistManifests' loop.
LEMMA WrittenFacts ==
    ASSUME TypeInv, NEW p \in Procs, NEW failed \in BOOLEAN
    PROVE  LET y == Written(p, failed)
               rest == t[p].todo \ {Least(t[p].todo)}
           IN  /\ y \in LocalState
               /\ y.dups \subseteq y.seen
               /\ y.pc \in {"read", "persisted", "idle"}
               /\ y.pc = "read" => y.todo # {}
               /\ y.pc = "idle" <=> rest = {} /\ p = Syncer
               /\ y.pc = "idle" => y.req = NoRequest
               /\ y.pc # "idle" => y.req = t[p].req
               /\ p # Syncer => /\ y.req = t[p].req /\ y.hit = t[p].hit
                                /\ y.todo = rest /\ (~y.perr => ~t[p].perr /\ ~failed)
                                /\ y.ans = t[p].ans /\ y.seen = t[p].seen
                                /\ y.pc = IF rest # {} THEN "read" ELSE "persisted"
  <1> DEFINE rest == t[p].todo \ {Least(t[p].todo)}
             x == [t[p] EXCEPT !.todo = rest, !.got = {}, !.perr = @ \/ failed]
  <1>1. t[p] \in LocalState /\ t[p].dups \subseteq t[p].seen
    BY DEF TypeInv, LocalOK
  <1>2. /\ x \in LocalState /\ x.dups = t[p].dups /\ x.seen = t[p].seen /\ x.req = t[p].req
        /\ x.hit = t[p].hit /\ x.ans = t[p].ans /\ x.todo = rest
        /\ ~x.perr => ~t[p].perr /\ ~failed
    BY <1>1 DEF LocalState
  <1>3. At("idle", NoRequest, NoAnswer) \in LocalState
    BY AtFacts, AnswerFacts DEF WorkerSteps
  <1>4. /\ At("idle", NoRequest, NoAnswer).pc = "idle"
        /\ At("idle", NoRequest, NoAnswer).dups = {}
        /\ At("idle", NoRequest, NoAnswer).req = NoRequest
    BY DEF At
  <1> HIDE DEF x, rest
  <1>5. Written(p, failed) =
            IF rest # {} THEN [x EXCEPT !.pc = "read"]
            ELSE IF p = Syncer THEN At("idle", NoRequest, NoAnswer)
            ELSE [x EXCEPT !.pc = "persisted"]
    BY DEF Written, x, rest
  <1>6. ASSUME NEW pc \in {"read", "persisted"}
        PROVE  LET y == [x EXCEPT !.pc = pc] IN
               /\ y \in LocalState /\ y.pc = pc
               /\ y.dups = x.dups /\ y.seen = x.seen /\ y.req = x.req /\ y.hit = x.hit
               /\ y.ans = x.ans /\ y.todo = x.todo /\ y.perr = x.perr
    BY <1>2 DEF LocalState, WorkerSteps
  <1> QED BY <1>1, <1>2, <1>3, <1>4, <1>5, <1>6 DEF rest

\* A step of one process keeps the types if its new local state is right.
LEMMA TypeStep ==
    ASSUME TypeInv, NEW p \in Procs, NEW x \in LocalState, Step(p, x), LocalOK(p, x),
           where' \in [Keys -> Bucket \cup {NoBucket}],
           manifest' \in [Bucket -> SUBSET Keys],
           ready' \in BOOLEAN, dupCount' \in Nat,
           UNCHANGED <<objs, steady>>, fresh' \subseteq Procs, calm' \subseteq Workers
    PROVE  TypeInv'
  <1>1. t' \in [Procs -> LocalState] /\ t'[p] = x /\ \A q \in Procs : q # p => t'[q] = t[q]
    BY StepFacts
  <1>2. \A q \in Procs : LocalOK(q, t'[q])
    BY <1>1 DEF TypeInv
  <1> QED BY <1>1, <1>2 DEF TypeInv

\* The kinds of process.
LEMMA ProcFacts ==
    /\ \A w \in Workers : w \in Procs /\ w # Syncer /\ w # Booter
    /\ Syncer \in Procs /\ Booter \in Procs /\ Syncer # Booter
    /\ Syncer \notin Workers /\ Booter \notin Workers
  BY ResolverAssumption DEF Procs
-----------------------------------------------------------------------------
(***************************************************************************)
(* What each step makes of the local state of its process, and that it     *)
(* keeps the types.                                                        *)
(***************************************************************************)

\* A request begins with a search of its buckets, or with a check of the bucket
\* the catalog names.
LEMMA RequestStarts ==
    ASSUME TypeInv, NEW w \in Workers, NEW r \in Requests, Request(w, r)
    PROVE  /\ TypeInv'
           /\ ready /\ t[w].pc = "idle"
           /\ t'[w].pc \in {"scan", "exists"} /\ t'[w].req = r /\ t'[w].todo = Searched(r)
           /\ t'[w].pc = "scan" => t'[w].hit = NoBucket
           /\ t'[w].pc = "exists" => t'[w].hit = where[r.key]
           /\ \A q \in Procs : q # w => t'[q] = t[q]
           /\ fresh' = fresh \cup {w}
           /\ calm' = IF Busy \subseteq fresh THEN calm \cup {w} ELSE calm \ {w}
           /\ UNCHANGED <<where, objs, manifest, ready, dupCount, steady, taken>>
  <1>1. /\ Search(r) \in LocalState /\ Search(r).pc = "scan" /\ Search(r).req = r
        /\ Search(r).todo = Searched(r) /\ Search(r).hit = NoBucket
        /\ Search(r).dups = {} /\ Search(r).ans = NoAnswer
    <2>1. Searched(r) \subseteq Bucket
      BY RequestFacts
    <2> QED BY <2>1, AnswerFacts DEF At, Search, LocalState, WorkerSteps, AllRequests
  <1>2. LocalOK(w, Search(r))
    BY <1>1, ProcFacts DEF LocalOK, WorkerOK, WorkerSteps, AllRequests
  <1>3. ASSUME where[r.key] # NoBucket, r.op = "route" => where[r.key] = r.at
        PROVE  /\ Check(r) \in LocalState /\ LocalOK(w, Check(r))
               /\ Check(r).pc = "exists" /\ Check(r).req = r /\ Check(r).todo = Searched(r)
               /\ Check(r).hit = where[r.key]
    <2>1. where[r.key] \in Bucket
      BY <1>3, RequestFacts DEF TypeInv
    <2>2. /\ Check(r) \in LocalState /\ Check(r).pc = "exists" /\ Check(r).req = r
          /\ Check(r).todo = Searched(r) /\ Check(r).hit = where[r.key]
          /\ Check(r).dups = {}
      BY <1>1, <2>1 DEF Check, LocalState, WorkerSteps
    <2> QED BY <1>3, <2>1, <2>2, ProcFacts DEF LocalOK, WorkerOK, WorkerSteps, AllRequests
  <1>4. \E x \in {Search(r), Check(r)} :
            /\ Arrives(w, x)
            /\ x = Check(r) =>
                  \/ x = Search(r)
                  \/ where[r.key] # NoBucket /\ (r.op = "route" => where[r.key] = r.at)
    <2>1. CASE handleDownload(w, r)
      <3>1. r.op = "route" => r.at # NoBucket
        BY RequestFacts DEF Bucket, NoBucket
      <3> QED BY <2>1, <3>1 DEF handleDownload, ResolveRoute
    <2>2. CASE handleUpdate(w, r)
      BY <2>2 DEF handleUpdate, Cat!Registered
    <2>3. CASE handleRelocate(w, r)
      BY <2>3 DEF handleRelocate
    <2> QED BY <2>1, <2>2, <2>3 DEF Request
  <1>5. PICK x \in LocalState :
            /\ Arrives(w, x) /\ LocalOK(w, x)
            /\ x.pc \in {"scan", "exists"} /\ x.req = r /\ x.todo = Searched(r)
            /\ x.pc = "scan" => x.hit = NoBucket
            /\ x.pc = "exists" => x.hit = where[r.key]
    BY <1>1, <1>2, <1>3, <1>4
  <1>6. /\ ready /\ t[w].pc = "idle" /\ Step(w, x)
        /\ fresh' = fresh \cup {w}
        /\ calm' = IF Busy \subseteq fresh THEN calm \cup {w} ELSE calm \ {w}
        /\ UNCHANGED <<where, objs, manifest, ready, dupCount, steady, taken>>
    BY <1>5 DEF Arrives, requireReady, Idle, storage
  <1>7. TypeInv'
    <2>1. fresh' \subseteq Procs /\ calm' \subseteq Workers
      BY <1>6, ProcFacts DEF TypeInv
    <2> QED BY <1>5, <1>6, <2>1, ProcFacts, TypeStep DEF TypeInv
  <1>8. t'[w] = x /\ \A q \in Procs : q # w => t'[q] = t[q]
    BY <1>5, <1>6, ProcFacts, StepFacts
  <1> QED BY <1>5, <1>6, <1>7, <1>8

\* A reply ends the request.
LEMMA ReplyFacts ==
    ASSUME TypeInv, NEW w \in Workers, t[w].pc # "idle", NEW a \in Answers, Reply(w, a),
           t[w].req.op = "route" /\ a.kind = "found" => a.bucket = t[w].req.at
    PROVE  LET x == At("idle", t[w].req, a) IN
           /\ x \in LocalState /\ Step(w, x) /\ LocalOK(w, x)
           /\ x.pc = "idle" /\ x.req = t[w].req /\ x.ans = a
  <1>1. t[w] \in LocalState /\ t[w].req \in AllRequests
    BY ProcFacts DEF TypeInv, LocalOK, WorkerOK
  <1> DEFINE x == At("idle", t[w].req, a)
  <1>2. x \in LocalState /\ x.pc = "idle" /\ x.req = t[w].req /\ x.ans = a /\ x.dups = {}
    BY <1>1 DEF At, LocalState, WorkerSteps
  <1>3. Step(w, x)
    BY DEF Reply
  <1> HIDE DEF x
  <1>4. LocalOK(w, x)
    BY <1>2, ProcFacts DEF LocalOK, WorkerOK, WorkerSteps
  <1> QED BY <1>2, <1>3, <1>4 DEF x

\* Resolver.Exists answers the request or starts the search.
LEMMA CheckExistsStep ==
    ASSUME TypeInv, NEW w \in Workers, CheckExists(w)
    PROVE  /\ TypeInv'
           /\ t[w].pc = "exists" /\ t[w].req \in Requests /\ t'[w].req = t[w].req
           /\ \/ /\ t'[w].pc = "idle" /\ t'[w].ans.kind = "found"
                 /\ t'[w].ans.bucket = t[w].hit
                 /\ <<t'[w].ans.bucket, t[w].req.key>> \in objs
              \/ t'[w].pc = "scan" /\ t'[w].hit = NoBucket /\ t'[w].todo = Searched(t[w].req)
           /\ \A q \in Procs : q # w => t'[q] = t[q]
           /\ UNCHANGED <<where, objs, manifest, ready, dupCount, steady, fresh, calm, taken>>
  <1>1. /\ t[w].pc = "exists" /\ t[w] \in LocalState
        /\ t[w].req \in Requests /\ t[w].hit \in Bucket /\ t[w].todo = Searched(t[w].req)
        /\ t[w].req.op = "route" => t[w].hit = t[w].req.at
        /\ t[w].dups \subseteq t[w].seen
    BY ProcFacts DEF CheckExists, TypeInv, LocalOK, WorkerOK
  <1>2. UNCHANGED <<where, objs, manifest, ready, dupCount, steady, fresh, calm, taken>>
    BY DEF CheckExists, storage, history
  <1>3. CASE <<t[w].hit, t[w].req.key>> \in objs /\ Reply(w, Found(t[w].hit))
    <2> DEFINE x == At("idle", t[w].req, Found(t[w].hit))
    <2>1. /\ x \in LocalState /\ Step(w, x) /\ LocalOK(w, x)
          /\ x.pc = "idle" /\ x.req = t[w].req /\ x.ans = Found(t[w].hit)
      BY <1>1, <1>3, AnswerFacts, ReplyFacts
    <2> HIDE DEF x
    <2>2. t'[w] = x /\ \A q \in Procs : q # w => t'[q] = t[q]
      BY <2>1, ProcFacts, StepFacts
    <2>3. TypeInv'
      BY <1>2, <2>1, ProcFacts, TypeStep DEF TypeInv
    <2> QED BY <1>1, <1>2, <1>3, <2>1, <2>2, <2>3, AnswerFacts
  <1>4. CASE Step(w, [t[w] EXCEPT !.pc = "scan", !.hit = NoBucket])
    <2> DEFINE x == [t[w] EXCEPT !.pc = "scan", !.hit = NoBucket]
    <2>1. /\ x \in LocalState /\ x.pc = "scan" /\ x.req = t[w].req /\ x.hit = NoBucket
          /\ x.todo = t[w].todo /\ x.dups = t[w].dups /\ x.seen = t[w].seen
      BY <1>1 DEF LocalState, WorkerSteps
    <2>2. Step(w, x)
      BY <1>4
    <2> HIDE DEF x
    <2>3. LocalOK(w, x)
      BY <1>1, <2>1, ProcFacts DEF LocalOK, WorkerOK, WorkerSteps, AllRequests
    <2>4. t'[w] = x /\ \A q \in Procs : q # w => t'[q] = t[q]
      BY <2>1, <2>2, ProcFacts, StepFacts
    <2>5. TypeInv'
      BY <1>2, <2>1, <2>2, <2>3, ProcFacts, TypeStep DEF TypeInv
    <2> QED BY <1>1, <1>2, <2>1, <2>4, <2>5
  <1> QED BY <1>3, <1>4 DEF CheckExists

\* One HEAD of the search.
LEMMA ScanStep ==
    ASSUME TypeInv, NEW w \in Workers, Scan(w)
    PROVE  LET b == Least(t[w].todo)
               here == <<b, t[w].req.key>> \in objs
           IN  /\ TypeInv'
               /\ t[w].pc = "scan" /\ t[w].todo # {}
               /\ t[w].req \in Requests /\ t'[w].req = t[w].req
               /\ \/ /\ t'[w].pc = "scan"
                     /\ t'[w].todo = IF here /\ Stops(w) THEN {} ELSE t[w].todo \ {b}
                     /\ t'[w].hit = IF here /\ t[w].hit = NoBucket THEN b ELSE t[w].hit
                  \/ t'[w].pc = "idle" /\ t'[w].ans.kind = "failed"
               /\ \A q \in Procs : q # w => t'[q] = t[q]
               /\ UNCHANGED <<where, objs, manifest, ready, dupCount, steady, fresh, calm, taken>>
  <1> DEFINE b == Least(t[w].todo)
             here == <<b, t[w].req.key>> \in objs
             x == [t[w] EXCEPT !.todo = IF here /\ Stops(w) THEN {} ELSE @ \ {b},
                               !.hit = IF here /\ @ = NoBucket THEN b ELSE @]
  <1>1. /\ t[w].pc = "scan" /\ t[w] \in LocalState /\ t[w].todo # {}
        /\ t[w].req \in Requests /\ t[w].dups \subseteq t[w].seen
    BY ProcFacts DEF Scan, TypeInv, LocalOK, WorkerOK
  <1>2. UNCHANGED <<where, objs, manifest, ready, dupCount, steady, fresh, calm, taken>>
    BY DEF Scan, storage, history
  <1>3. CASE Step(w, x)
    <2>1. b \in Bucket
      BY <1>1, LeastFacts DEF LocalState
    <2> HIDE DEF b, here
    <2>2. /\ x \in LocalState /\ x.pc = "scan" /\ x.req = t[w].req
          /\ x.todo = IF here /\ Stops(w) THEN {} ELSE t[w].todo \ {b}
          /\ x.hit = IF here /\ t[w].hit = NoBucket THEN b ELSE t[w].hit
          /\ x.dups = t[w].dups /\ x.seen = t[w].seen
      BY <1>1, <2>1 DEF LocalState
    <2> HIDE DEF x
    <2>3. LocalOK(w, x)
      BY <1>1, <2>2, ProcFacts DEF LocalOK, WorkerOK, WorkerSteps, AllRequests
    <2>4. t'[w] = x /\ \A q \in Procs : q # w => t'[q] = t[q]
      BY <1>3, <2>2, ProcFacts, StepFacts
    <2>5. TypeInv'
      BY <1>2, <1>3, <2>2, <2>3, ProcFacts, TypeStep DEF TypeInv
    <2> QED BY <1>1, <1>2, <2>2, <2>4, <2>5 DEF b, here
  <1>4. CASE Reply(w, Failed)
    <2> DEFINE y == At("idle", t[w].req, Failed)
    <2>1. /\ y \in LocalState /\ Step(w, y) /\ LocalOK(w, y)
          /\ y.pc = "idle" /\ y.req = t[w].req /\ y.ans = Failed
      BY <1>1, <1>4, AnswerFacts, ReplyFacts
    <2> HIDE DEF y
    <2>2. t'[w] = y /\ \A q \in Procs : q # w => t'[q] = t[q]
      BY <2>1, ProcFacts, StepFacts
    <2>3. TypeInv'
      BY <1>2, <2>1, ProcFacts, TypeStep DEF TypeInv
    <2> QED BY <1>1, <1>2, <2>1, <2>2, <2>3, AnswerFacts
  <1> QED BY <1>3, <1>4 DEF Scan

\* A worker that goes on to PersistManifests.
LEMMA ToPersistFacts ==
    ASSUME NEW x \in LocalState
    PROVE  /\ ToPersist(x) \in LocalState
           /\ ToPersist(x).pc = "read" /\ ToPersist(x).todo = Bucket /\ Bucket # {}
           /\ ToPersist(x).req = x.req /\ ToPersist(x).hit = x.hit
           /\ ToPersist(x).dups = x.dups /\ ToPersist(x).seen = x.seen
  <1>1. 1 \in Bucket
    BY ResolverAssumption DEF Bucket
  <1> QED BY <1>1 DEF ToPersist, LocalState, WorkerSteps

\* The search found the file.
LEMMA PlaceHitStep ==
    ASSUME TypeInv, NEW w \in Workers, PlaceHit(w)
    PROVE  LET k == t[w].req.key IN
           /\ TypeInv'
           /\ t[w].pc = "scan" /\ t[w].todo = {} /\ t[w].hit \in Bucket
           /\ t[w].req \in Requests /\ k \in Keys
           /\ t'[w].pc = "read" /\ t'[w].req = t[w].req /\ t'[w].hit = t[w].hit
           /\ \A q \in Procs : q # w => t'[q] = t[q]
           /\ where'[k] = t[w].hit /\ \A j \in Keys : j # k => where'[j] = where[j]
           /\ taken' = IF t[w].req.op = "type" THEN taken \cup {k} ELSE taken \ {k}
           /\ UNCHANGED <<objs, manifest, ready, dupCount, steady, fresh, calm>>
  <1> DEFINE k == t[w].req.key
             x == ToPersist(t[w])
  <1>1. /\ t[w].pc = "scan" /\ t[w] \in LocalState /\ t[w].todo = {} /\ t[w].hit # NoBucket
        /\ t[w].req \in Requests /\ t[w].dups \subseteq t[w].seen
    BY ProcFacts DEF PlaceHit, TypeInv, LocalOK, WorkerOK
  <1>2. t[w].hit \in Bucket /\ k \in Keys
    BY <1>1, RequestFacts DEF LocalState
  <1>3. /\ where' = [where EXCEPT ![k] = t[w].hit] /\ Step(w, x)
        /\ taken' = IF t[w].req.op = "type" THEN taken \cup {k} ELSE taken \ {k}
        /\ UNCHANGED <<objs, manifest, ready, dupCount, steady, fresh, calm>>
    BY DEF PlaceHit, Cat!Place, storage
  <1>4. /\ where' \in [Keys -> Bucket \cup {NoBucket}]
        /\ where'[k] = t[w].hit /\ \A j \in Keys : j # k => where'[j] = where[j]
    BY <1>2, <1>3 DEF TypeInv
  <1>5. /\ x \in LocalState /\ x.pc = "read" /\ x.req = t[w].req /\ x.hit = t[w].hit
        /\ LocalOK(w, x)
    BY <1>1, ToPersistFacts, ProcFacts DEF LocalOK, WorkerOK, WorkerSteps, AllRequests
  <1> HIDE DEF x, k
  <1>6. t'[w] = x /\ \A q \in Procs : q # w => t'[q] = t[q]
    BY <1>3, <1>5, ProcFacts, StepFacts
  <1>7. TypeInv'
    BY <1>3, <1>4, <1>5, ProcFacts, TypeStep DEF TypeInv
  <1> QED BY <1>1, <1>2, <1>3, <1>4, <1>5, <1>6, <1>7 DEF k

\* The search found nothing.
LEMMA DropKeyStep ==
    ASSUME TypeInv, NEW w \in Workers, DropKey(w)
    PROVE  LET k == t[w].req.key IN
           /\ TypeInv'
           /\ t[w].pc = "scan" /\ t[w].todo = {} /\ t[w].hit = NoBucket
           /\ t[w].req \in Requests /\ k \in Keys /\ t'[w].req = t[w].req
           /\ \/ /\ t[w].req.op = "type" /\ t'[w].pc = "idle" /\ t'[w].ans.kind = "missing"
                 /\ UNCHANGED where
              \/ /\ t[w].req.op # "type" /\ t'[w].pc = "read" /\ t'[w].hit = NoBucket
                 /\ \A j \in Keys : j # k => where'[j] = where[j]
           /\ \A q \in Procs : q # w => t'[q] = t[q]
           /\ UNCHANGED <<objs, manifest, ready, dupCount, steady, fresh, calm, taken>>
  <1> DEFINE k == t[w].req.key
  <1>1. /\ t[w].pc = "scan" /\ t[w] \in LocalState /\ t[w].todo = {} /\ t[w].hit = NoBucket
        /\ t[w].req \in Requests /\ t[w].dups \subseteq t[w].seen
    BY ProcFacts DEF DropKey, TypeInv, LocalOK, WorkerOK
  <1>2. UNCHANGED <<objs, manifest, ready, dupCount, steady, fresh, calm, taken>>
    BY DEF DropKey, storage, history
  <1>3. k \in Keys
    BY <1>1, RequestFacts
  <1>4. CASE t[w].req.op = "type"
    <2> DEFINE y == At("idle", t[w].req, Missing)
    <2>1. Reply(w, Missing) /\ UNCHANGED where
      BY <1>4 DEF DropKey
    <2>2. /\ y \in LocalState /\ Step(w, y) /\ LocalOK(w, y)
          /\ y.pc = "idle" /\ y.req = t[w].req /\ y.ans = Missing
      BY <1>1, <2>1, AnswerFacts, ReplyFacts
    <2> HIDE DEF y
    <2>3. t'[w] = y /\ \A q \in Procs : q # w => t'[q] = t[q]
      BY <2>2, ProcFacts, StepFacts
    <2>4. TypeInv'
      BY <1>2, <2>1, <2>2, ProcFacts, TypeStep DEF TypeInv
    <2> QED BY <1>1, <1>2, <1>3, <1>4, <2>1, <2>2, <2>3, <2>4, AnswerFacts
  <1>5. CASE t[w].req.op # "type"
    <2> DEFINE x == ToPersist(t[w])
    <2>1. where' = [where EXCEPT ![k] = NoBucket] /\ Step(w, x)
      BY <1>5 DEF DropKey, Cat!Drop
    <2>2. /\ where' \in [Keys -> Bucket \cup {NoBucket}]
          /\ \A j \in Keys : j # k => where'[j] = where[j]
      BY <1>3, <2>1 DEF TypeInv
    <2>3. /\ x \in LocalState /\ x.pc = "read" /\ x.req = t[w].req /\ x.hit = t[w].hit
          /\ LocalOK(w, x)
      BY <1>1, ToPersistFacts, ProcFacts DEF LocalOK, WorkerOK, WorkerSteps, AllRequests
    <2> HIDE DEF x
    <2>4. t'[w] = x /\ \A q \in Procs : q # w => t'[q] = t[q]
      BY <2>1, <2>3, ProcFacts, StepFacts
    <2>5. TypeInv'
      BY <1>2, <2>1, <2>2, <2>3, ProcFacts, TypeStep DEF TypeInv
    <2> QED BY <1>1, <1>2, <1>3, <1>5, <2>2, <2>3, <2>4, <2>5
  <1> QED BY <1>4, <1>5

\* The last lookup and the answer.
LEMMA AnswerStep ==
    ASSUME TypeInv, NEW w \in Workers, Answer(w)
    PROVE  LET r == t[w].req IN
           /\ TypeInv'
           /\ t[w].pc = "persisted" /\ r \in AllRequests
           /\ t'[w].pc = "idle" /\ t'[w].req = r
           /\ t'[w].ans.kind = "found" =>
                 t[w].hit # NoBucket /\ t'[w].ans.bucket = where[r.key]
           /\ t'[w].ans.kind = "missing" =>
                 t[w].hit = NoBucket \/ (r.op = "route" /\ where[r.key] # r.at)
           /\ \A q \in Procs : q # w => t'[q] = t[q]
           /\ UNCHANGED <<where, objs, manifest, ready, dupCount, steady, fresh, calm, taken>>
  <1> DEFINE r == t[w].req
             a == IF t[w].hit = NoBucket THEN Missing
                  ELSE IF r.op = "relocate" /\ t[w].perr THEN Failed
                  ELSE IF r.op = "route" /\ where[r.key] # r.at THEN Missing
                  ELSE Found(where[r.key])
             x == At("idle", r, a)
  <1>1. t[w].pc = "persisted" /\ r \in AllRequests
    BY ProcFacts DEF Answer, TypeInv, LocalOK, WorkerOK
  <1>2. where[r.key] \in Bucket \cup {NoBucket}
    BY <1>1, AnyRequestFacts DEF TypeInv
  <1>3. /\ a \in Answers
        /\ a.kind = "found" => t[w].hit # NoBucket /\ a.bucket = where[r.key]
        /\ r.op = "route" /\ a.kind = "found" => a.bucket = r.at
        /\ a.kind = "missing" => t[w].hit = NoBucket \/ (r.op = "route" /\ where[r.key] # r.at)
    BY <1>2, AnswerFacts
  <1>4. /\ Reply(w, a)
        /\ UNCHANGED <<where, objs, manifest, ready, dupCount, steady, fresh, calm, taken>>
    BY DEF Answer, storage, history
  <1> HIDE DEF a
  <1>5. /\ x \in LocalState /\ Step(w, x) /\ LocalOK(w, x)
        /\ x.pc = "idle" /\ x.req = r /\ x.ans = a
    BY <1>1, <1>3, <1>4, ReplyFacts
  <1> HIDE DEF x
  <1>6. t'[w] = x /\ \A q \in Procs : q # w => t'[q] = t[q]
    BY <1>5, ProcFacts, StepFacts
  <1>7. TypeInv'
    BY <1>4, <1>5, ProcFacts, TypeStep DEF TypeInv
  <1> QED BY <1>1, <1>3, <1>4, <1>5, <1>6, <1>7

\* PersistManifests reads what the catalog has for the next bucket.
LEMMA ReadManifestStep ==
    ASSUME TypeInv, NEW p \in Procs, ReadManifest(p)
    PROVE  /\ TypeInv'
           /\ t[p].pc = "read" /\ t'[p].pc = "put"
           /\ t'[p].req = t[p].req /\ t'[p].hit = t[p].hit /\ t'[p].ans = t[p].ans
           /\ \A q \in Procs : q # p => t'[q] = t[q]
           /\ UNCHANGED <<where, objs, manifest, ready, dupCount, steady, fresh, calm, taken>>
  <1> DEFINE got == {k \in Keys : where[k] = Least(t[p].todo)}
             x == [t[p] EXCEPT !.pc = "put", !.got = got]
  <1>1. t[p].pc = "read" /\ t[p] \in LocalState /\ LocalOK(p, t[p])
    BY DEF ReadManifest, TypeInv
  <1>2. /\ Step(p, x)
        /\ UNCHANGED <<where, objs, manifest, ready, dupCount, steady, fresh, calm, taken>>
    BY DEF ReadManifest, storage, history
  <1>3. got \subseteq Keys
    OBVIOUS
  <1> HIDE DEF got
  <1>4. /\ x \in LocalState /\ x.pc = "put" /\ x.got = got /\ x.req = t[p].req
        /\ x.hit = t[p].hit /\ x.ans = t[p].ans /\ x.todo = t[p].todo
        /\ x.dups = t[p].dups /\ x.seen = t[p].seen
    BY <1>1, <1>3 DEF LocalState, WorkerSteps
  <1> HIDE DEF x
  <1>5. LocalOK(p, x)
    BY <1>1, <1>3, <1>4 DEF LocalOK, WorkerOK, WorkerSteps, SyncSteps
  <1>6. t'[p] = x /\ \A q \in Procs : q # p => t'[q] = t[q]
    BY <1>2, <1>4, StepFacts
  <1>7. TypeInv'
    BY <1>2, <1>4, <1>5, TypeStep DEF TypeInv
  <1> QED BY <1>1, <1>2, <1>4, <1>6, <1>7

\* It writes that, or fails to, and goes on with the next bucket either way.
LEMMA PutManifestStep ==
    ASSUME TypeInv, NEW p \in Procs, PutManifest(p)
    PROVE  /\ TypeInv'
           /\ t[p].pc = "put"
           /\ t'[p].pc \in {"read", "persisted", "idle"}
           /\ p # Syncer => /\ t'[p].pc # "idle" /\ t'[p].req = t[p].req
                            /\ t'[p].hit = t[p].hit /\ t'[p].ans = t[p].ans
           /\ \A q \in Procs : q # p => t'[q] = t[q]
           /\ UNCHANGED <<where, objs, ready, dupCount, steady, fresh, calm, taken>>
  <1>1. t[p].pc = "put" /\ t[p] \in LocalState /\ LocalOK(p, t[p])
    BY DEF PutManifest, TypeInv
  <1>2. UNCHANGED <<where, objs, ready, dupCount, steady, fresh, calm, taken>>
    BY DEF PutManifest, history
  <1>3. t[p].got \subseteq Keys /\ t[p].todo # {} /\ t[p].todo \subseteq Bucket
    BY <1>1 DEF LocalOK, LocalState
  <1>4. PICK failed \in BOOLEAN :
            /\ Step(p, Written(p, failed))
            /\ manifest' \in {manifest, [manifest EXCEPT ![Least(t[p].todo)] = t[p].got]}
    BY DEF PutManifest
  <1>5. manifest' \in [Bucket -> SUBSET Keys]
    <2>1. Least(t[p].todo) \in Bucket
      BY <1>3, LeastFacts
    <2> QED BY <1>3, <1>4, <2>1 DEF TypeInv
  <1> DEFINE y == Written(p, failed)
  <1>6. /\ y \in LocalState /\ y.dups \subseteq y.seen
        /\ y.pc \in {"read", "persisted", "idle"} /\ (y.pc = "read" => y.todo # {})
        /\ y.pc = "idle" => p = Syncer /\ y.req = NoRequest
        /\ y.pc # "idle" => y.req = t[p].req
        /\ p = Syncer => y.pc # "persisted"
        /\ p # Syncer => y.req = t[p].req /\ y.hit = t[p].hit /\ y.ans = t[p].ans
    <2> DEFINE rest == t[p].todo \ {Least(t[p].todo)}
    <2>1. p = Syncer => y.pc # "persisted"
      <3>1. ASSUME p = Syncer PROVE y.pc # "persisted"
        <4>1. CASE rest # {}
          <5>1. y = [[t[p] EXCEPT !.todo = rest, !.got = {}, !.perr = @ \/ failed] EXCEPT !.pc = "read"]
            BY <4>1 DEF Written
          <5> QED BY <1>1, <5>1 DEF LocalState
        <4>2. CASE rest = {}
          <5>1. y = At("idle", NoRequest, NoAnswer)
            BY <3>1, <4>2 DEF Written
          <5> QED BY <5>1 DEF At
        <4> QED BY <4>1, <4>2
      <3> QED BY <3>1
    <2> QED BY <2>1, WrittenFacts
  <1> HIDE DEF y
  <1>7. LocalOK(p, y)
    BY <1>1, <1>6, ProcFacts DEF LocalOK, WorkerOK, WorkerSteps, SyncSteps, BootSteps
  <1>8. t'[p] = y /\ \A q \in Procs : q # p => t'[q] = t[q]
    BY <1>4, <1>6, StepFacts DEF y
  <1>9. TypeInv'
    BY <1>2, <1>4, <1>5, <1>6, <1>7, TypeStep DEF TypeInv, y
  <1> QED BY <1>1, <1>2, <1>6, <1>8, <1>9

\* A sync starts with nothing seen and all buckets ahead of it.
LEMMA ToSyncFacts ==
    /\ ToSync \in LocalState /\ ToSync.pc = "list" /\ ToSync.todo = Bucket
    /\ ToSync.seen = {} /\ ToSync.dups = {} /\ ToSync.req = NoRequest
    /\ LocalOK(Syncer, ToSync) /\ LocalOK(Booter, ToSync)
  <1>1. 1 \in Bucket
    BY ResolverAssumption DEF Bucket
  <1>2. /\ ToSync \in LocalState /\ ToSync.pc = "list" /\ ToSync.todo = Bucket
        /\ ToSync.seen = {} /\ ToSync.dups = {} /\ ToSync.req = NoRequest
    BY AnswerFacts DEF ToSync, At, LocalState, SyncSteps
  <1> HIDE DEF ToSync
  <1> QED BY <1>1, <1>2, ProcFacts DEF LocalOK, SyncSteps

\* The ticker starts a sync.
LEMMA TickStep ==
    ASSUME TypeInv, Tick
    PROVE  /\ TypeInv'
           /\ t'[Syncer].pc = "list" /\ t'[Syncer].todo = Bucket
           /\ \A q \in Procs : q # Syncer => t'[q] = t[q]
           /\ fresh' = fresh \cup {Syncer}
           /\ UNCHANGED <<where, objs, manifest, ready, dupCount, steady, calm, taken>>
  <1>1. /\ Step(Syncer, ToSync) /\ fresh' = fresh \cup {Syncer}
        /\ UNCHANGED <<where, objs, manifest, ready, dupCount, steady, calm, taken>>
    BY DEF Tick, storage
  <1>2. t'[Syncer] = ToSync /\ \A q \in Procs : q # Syncer => t'[q] = t[q]
    BY <1>1, ToSyncFacts, ProcFacts, StepFacts
  <1>3. TypeInv'
    BY <1>1, ToSyncFacts, ProcFacts, TypeStep DEF TypeInv
  <1> QED BY <1>1, <1>2, <1>3, ToSyncFacts

\* A sync of the process p, in a state x of its loop, goes on.
LEMMA OnwardsOK ==
    ASSUME NEW p \in {Syncer, Booter}, NEW x \in LocalState, x.todo # {},
           x.dups \subseteq x.seen, x.got \subseteq Keys, x.req = NoRequest
    PROVE  LocalOK(p, Onwards(x))
  BY OnwardsFacts, ProcFacts DEF LocalOK, SyncSteps

\* ListObjects ends the sync or lists the next bucket.
LEMMA ListObjectsStep ==
    ASSUME TypeInv, NEW p \in {Syncer, Booter}, ListObjects(p)
    PROVE  LET b == Least(t[p].todo)
               got == {k \in Keys : <<b, k>> \in objs}
               rest == t[p].todo \ {b}
           IN  /\ TypeInv'
               /\ t[p].pc = "list" /\ t[p].todo # {}
               /\ \/ t'[p].pc \in {"idle", "down"}
                  \/ /\ t'[p].seen = t[p].seen
                     /\ t'[p].got = got
                     /\ got # {} => t'[p].pc = "register" /\ t'[p].todo = t[p].todo
                     /\ got = {} => /\ t'[p].pc = IF rest # {} THEN "list" ELSE "count"
                                    /\ t'[p].todo = rest
               /\ \A q \in Procs : q # p => t'[q] = t[q]
               /\ UNCHANGED <<where, objs, manifest, ready, dupCount, steady, fresh, calm, taken>>
  <1> DEFINE b == Least(t[p].todo)
             got == {k \in Keys : <<b, k>> \in objs}
             x == [t[p] EXCEPT !.got = got]
             down == At(IF p = Booter THEN "down" ELSE "idle", NoRequest, NoAnswer)
  <1>1. /\ p \in Procs /\ t[p].pc = "list" /\ t[p] \in LocalState /\ t[p].todo # {}
        /\ t[p].dups \subseteq t[p].seen /\ t[p].req = NoRequest
    BY ProcFacts DEF ListObjects, TypeInv, LocalOK
  <1>2. UNCHANGED <<where, objs, manifest, ready, dupCount, steady, fresh, calm, taken>>
    BY DEF ListObjects, storage, history
  <1>3. CASE Step(p, Onwards(x))
    <2>1. got \subseteq Keys
      OBVIOUS
    <2> HIDE DEF got
    <2>2. /\ x \in LocalState /\ x.got = got /\ x.seen = t[p].seen /\ x.todo = t[p].todo
          /\ x.dups = t[p].dups /\ x.req = t[p].req
      BY <1>1, <2>1 DEF LocalState
    <2> HIDE DEF x
    <2>3. Onwards(x) \in LocalState /\ LocalOK(p, Onwards(x))
      BY <1>1, <2>1, <2>2, OnwardsFacts, OnwardsOK
    <2>4. t'[p] = Onwards(x) /\ \A q \in Procs : q # p => t'[q] = t[q]
      BY <1>1, <1>3, <2>3, StepFacts
    <2>5. TypeInv'
      BY <1>1, <1>2, <1>3, <2>3, TypeStep DEF TypeInv
    <2>6. /\ t'[p].seen = t[p].seen
          /\ t'[p].got = got
          /\ got # {} => t'[p].pc = "register" /\ t'[p].todo = t[p].todo
          /\ got = {} => /\ t'[p].pc = IF t[p].todo \ {b} # {} THEN "list" ELSE "count"
                         /\ t'[p].todo = t[p].todo \ {b}
      BY <1>1, <2>2, <2>4, OnwardsFacts
    <2> QED BY <1>1, <1>2, <2>4, <2>5, <2>6 DEF got
  <1>4. CASE Step(p, down)
    <2>1. /\ down \in LocalState /\ down.dups = {} /\ down.got = {} /\ down.req = NoRequest
          /\ down.pc = IF p = Booter THEN "down" ELSE "idle"
      BY AnswerFacts DEF At, LocalState, WorkerSteps, BootSteps
    <2> HIDE DEF down
    <2>2. LocalOK(p, down)
      BY <2>1, ProcFacts DEF LocalOK, SyncSteps, BootSteps
    <2>3. t'[p] = down /\ \A q \in Procs : q # p => t'[q] = t[q]
      BY <1>1, <1>4, <2>1, StepFacts
    <2>4. TypeInv'
      BY <1>1, <1>2, <1>4, <2>1, <2>2, TypeStep DEF TypeInv
    <2> QED BY <1>1, <1>2, <2>1, <2>3, <2>4
  <1> QED BY <1>3, <1>4 DEF ListObjects

\* One object of the listing is registered, unless its key was seen before.
LEMMA RegisterListedStep ==
    ASSUME TypeInv, NEW p \in {Syncer, Booter}, RegisterListed(p)
    PROVE  LET b == Least(t[p].todo) IN
           /\ TypeInv'
           /\ t[p].pc = "register" /\ t[p].todo # {}
           /\ \E k \in t[p].got :
                 /\ k \in Keys
                 /\ k \in t[p].seen => where' = where /\ taken' = taken
                 /\ k \notin t[p].seen => Cat!Claim(k, b) /\ taken' = taken \ {k}
                 /\ t'[p].seen = t[p].seen \cup {k}
                 /\ t'[p].got = t[p].got \ {k}
                 /\ t[p].got \ {k} # {} => t'[p].pc = "register" /\ t'[p].todo = t[p].todo
                 /\ t[p].got \ {k} = {} =>
                       /\ t'[p].pc = IF t[p].todo \ {b} # {} THEN "list" ELSE "count"
                       /\ t'[p].todo = t[p].todo \ {b}
           /\ \A q \in Procs : q # p => t'[q] = t[q]
           /\ UNCHANGED <<objs, manifest, ready, dupCount, steady, fresh, calm>>
  <1> DEFINE b == Least(t[p].todo)
             again(k) == k \in t[p].seen
             x(k) == [t[p] EXCEPT !.got = @ \ {k}, !.seen = @ \cup {k},
                                  !.dups = IF again(k) THEN @ \cup {k} ELSE @]
  <1>1. /\ p \in Procs /\ t[p].pc = "register" /\ t[p] \in LocalState /\ t[p].todo # {}
        /\ t[p].dups \subseteq t[p].seen /\ t[p].got \subseteq Keys /\ t[p].req = NoRequest
    BY ProcFacts DEF RegisterListed, TypeInv, LocalOK
  <1>2. UNCHANGED <<objs, manifest, ready, dupCount, steady, fresh, calm>>
    BY DEF RegisterListed, storage
  <1>3. PICK k \in t[p].got :
            /\ IF again(k) THEN UNCHANGED where ELSE Cat!Claim(k, b)
            /\ Step(p, Onwards(x(k)))
            /\ taken' = IF again(k) THEN taken ELSE taken \ {k}
    BY DEF RegisterListed
  <1>4. k \in Keys
    BY <1>1
  <1>5. b \in Bucket
    BY <1>1, LeastFacts DEF LocalState
  <1> HIDE DEF b
  <1>6. where' \in [Keys -> Bucket \cup {NoBucket}]
    BY <1>3, <1>4, <1>5, ClaimFacts DEF TypeInv
  <1>7. /\ x(k) \in LocalState /\ x(k).got = t[p].got \ {k} /\ x(k).seen = t[p].seen \cup {k}
        /\ x(k).todo = t[p].todo /\ x(k).dups \subseteq x(k).seen /\ x(k).req = t[p].req
    BY <1>1, <1>4 DEF LocalState
  <1>8. Onwards(x(k)) \in LocalState /\ LocalOK(p, Onwards(x(k)))
    <2> HIDE DEF x
    <2>1. x(k).todo # {} /\ x(k).got \subseteq Keys
      BY <1>1, <1>7
    <2> QED BY <1>1, <1>7, <2>1, OnwardsFacts, OnwardsOK
  <1> HIDE DEF x
  <1>9. t'[p] = Onwards(x(k)) /\ \A q \in Procs : q # p => t'[q] = t[q]
    BY <1>1, <1>3, <1>8, StepFacts
  <1>10. TypeInv'
    BY <1>1, <1>2, <1>3, <1>6, <1>8, TypeStep DEF TypeInv
  <1>11. /\ t'[p].seen = t[p].seen \cup {k}
         /\ t'[p].got = t[p].got \ {k}
         /\ t[p].got \ {k} # {} => t'[p].pc = "register" /\ t'[p].todo = t[p].todo
         /\ t[p].got \ {k} = {} =>
               /\ t'[p].pc = IF t[p].todo \ {b} # {} THEN "list" ELSE "count"
               /\ t'[p].todo = t[p].todo \ {b}
    BY <1>1, <1>7, <1>9, OnwardsFacts DEF b
  <1> QED BY <1>1, <1>2, <1>3, <1>4, <1>9, <1>10, <1>11 DEF b

\* The end of a sync's listing.
LEMMA CountStep ==
    ASSUME TypeInv, NEW p \in {Syncer, Booter}, CountDuplicates(p)
    PROVE  /\ TypeInv'
           /\ t[p].pc = "count" /\ t'[p].pc = "read"
           /\ \A q \in Procs : q # p => t'[q] = t[q]
           /\ UNCHANGED <<where, objs, manifest, ready, steady, fresh, calm, taken>>
  <1> DEFINE x == [t[p] EXCEPT !.seen = {}, !.dups = {}]
             y == ToPersist(x)
  <1>1. p \in Procs /\ t[p].pc = "count" /\ t[p] \in LocalState /\ t[p].req = NoRequest
    BY ProcFacts DEF CountDuplicates, TypeInv, LocalOK
  <1>2. /\ dupCount' = Cardinality(t[p].dups) /\ Step(p, y)
        /\ UNCHANGED <<where, objs, manifest, ready, steady, fresh, calm, taken>>
    BY DEF CountDuplicates, storage, history
  <1>3. dupCount' \in Nat
    <2>1. t[p].dups \subseteq Keys
      BY <1>1 DEF LocalState
    <2> QED BY <1>2, <2>1, ResolverAssumption, FS_Subset, FS_CardinalityType
  <1>4. x \in LocalState /\ x.dups = {} /\ x.req = NoRequest
    BY <1>1 DEF LocalState
  <1> HIDE DEF x
  <1>5. y \in LocalState /\ y.pc = "read" /\ y.todo # {} /\ y.dups = {} /\ y.req = NoRequest
    BY <1>4, ToPersistFacts
  <1> HIDE DEF y
  <1>6. LocalOK(p, y)
    BY <1>5, ProcFacts DEF LocalOK, SyncSteps
  <1>7. t'[p] = y /\ \A q \in Procs : q # p => t'[q] = t[q]
    BY <1>1, <1>2, <1>5, StepFacts
  <1>8. TypeInv'
    BY <1>1, <1>2, <1>3, <1>5, <1>6, TypeStep DEF TypeInv
  <1> QED BY <1>1, <1>2, <1>5, <1>7, <1>8

\* Bootstrap reads the manifests, and goes down if it cannot.
LEMMA FetchManifestStep ==
    ASSUME TypeInv, FetchManifest
    PROVE  /\ TypeInv'
           /\ t[Booter].pc = "fetch" /\ t'[Booter].pc \in {"fetch", "clear", "down"}
           /\ \A q \in Procs : q # Booter => t'[q] = t[q]
           /\ UNCHANGED <<where, objs, manifest, ready, dupCount, steady, fresh, calm, taken>>
  <1> DEFINE o == t[Booter]
             b == Least(o.todo)
             rest == o.todo \ {b}
             x == [o EXCEPT !.pc = IF rest = {} THEN "clear" ELSE @, !.todo = rest,
                            !.got = @ \cup ({b} \X manifest[b])]
             down == At("down", NoRequest, NoAnswer)
  <1>1. /\ o.pc = "fetch" /\ o \in LocalState /\ o.todo # {}
        /\ o.dups \subseteq o.seen /\ o.got \subseteq Objects /\ o.req = NoRequest
    BY ProcFacts DEF FetchManifest, TypeInv, LocalOK
  <1>2. UNCHANGED <<where, objs, manifest, ready, dupCount, steady, fresh, calm, taken>>
    BY DEF FetchManifest, storage, history
  <1>3. CASE Step(Booter, x)
    <2>1. b \in Bucket
      BY <1>1, LeastFacts DEF LocalState
    <2>2. o.got \cup ({b} \X manifest[b]) \subseteq Objects
      BY <1>1, <2>1 DEF TypeInv, Objects
    <2> HIDE DEF b
    <2>3. /\ x \in LocalState /\ x.pc \in {"fetch", "clear"} /\ x.got \subseteq Objects
          /\ x.pc = "fetch" => x.todo # {}
          /\ x.dups = o.dups /\ x.seen = o.seen /\ x.req = o.req
      BY <1>1, <2>2 DEF LocalState, BootSteps
    <2> HIDE DEF x
    <2>4. LocalOK(Booter, x)
      BY <1>1, <2>3, ProcFacts DEF LocalOK, BootSteps
    <2>5. t'[Booter] = x /\ \A q \in Procs : q # Booter => t'[q] = t[q]
      BY <1>3, <2>3, ProcFacts, StepFacts
    <2>6. TypeInv'
      BY <1>2, <1>3, <2>3, <2>4, ProcFacts, TypeStep DEF TypeInv
    <2> QED BY <1>1, <1>2, <2>3, <2>5, <2>6
  <1>4. CASE Step(Booter, down)
    <2>1. down \in LocalState /\ down.pc = "down" /\ down.dups = {} /\ down.req = NoRequest
      BY AnswerFacts DEF At, LocalState, BootSteps
    <2> HIDE DEF down
    <2>2. LocalOK(Booter, down)
      BY <2>1, ProcFacts DEF LocalOK, BootSteps
    <2>3. t'[Booter] = down /\ \A q \in Procs : q # Booter => t'[q] = t[q]
      BY <1>4, <2>1, ProcFacts, StepFacts
    <2>4. TypeInv'
      BY <1>2, <1>4, <2>1, <2>2, ProcFacts, TypeStep DEF TypeInv
    <2> QED BY <1>1, <1>2, <2>1, <2>3, <2>4
  <1> QED BY <1>3, <1>4 DEF FetchManifest

\* The items of the manifests are loaded one by one, then the sync begins.
LEMMA LoadingFacts ==
    ASSUME NEW items \in SUBSET Objects
    PROVE  /\ Loading(items) \in LocalState /\ LocalOK(Booter, Loading(items))
           /\ \/ Loading(items).pc = "load"
              \/ /\ Loading(items).pc = "list" /\ Loading(items).todo = Bucket
                 /\ Loading(items).seen = {}
  <1> DEFINE x == [At("load", NoRequest, NoAnswer) EXCEPT !.got = items]
  <1>1. x \in LocalState /\ x.pc = "load" /\ x.got = items /\ x.dups = {} /\ x.req = NoRequest
    BY AnswerFacts DEF At, LocalState, BootSteps
  <1> HIDE DEF x
  <1>2. LocalOK(Booter, x)
    BY <1>1, ProcFacts DEF LocalOK, BootSteps
  <1>3. Loading(items) = IF items = {} THEN ToSync ELSE x
    BY DEF Loading, x
  <1> QED BY <1>1, <1>2, <1>3, ToSyncFacts

\* LoadManifests clears the catalog and then registers the items.
LEMMA LoadStep ==
    ASSUME TypeInv, ClearCatalog \/ LoadItem
    PROVE  /\ TypeInv'
           /\ t[Booter].pc \in {"clear", "load"}
           /\ \/ t'[Booter].pc = "load"
              \/ t'[Booter].pc = "list" /\ t'[Booter].todo = Bucket /\ t'[Booter].seen = {}
           /\ \A q \in Procs : q # Booter => t'[q] = t[q]
           /\ UNCHANGED <<objs, manifest, ready, dupCount, steady, fresh, calm, taken>>
  <1> DEFINE got == t[Booter].got
  <1>1. t[Booter].pc \in {"clear", "load"}
    BY DEF ClearCatalog, LoadItem
  <1>2. got \subseteq Objects
    BY <1>1, ProcFacts DEF TypeInv, LocalOK
  <1>3. UNCHANGED <<objs, manifest, ready, dupCount, steady, fresh, calm, taken>>
    BY DEF ClearCatalog, LoadItem, storage, history
  <1>4. /\ where' \in [Keys -> Bucket \cup {NoBucket}]
        /\ \E items \in SUBSET Objects : Step(Booter, Loading(items))
    <2>1. CASE ClearCatalog
      BY <1>2, <2>1 DEF ClearCatalog, Cat!Reset
    <2>2. CASE LoadItem
      <3>1. PICK o \in got : Cat!Claim(o[2], o[1]) /\ Step(Booter, Loading(got \ {o}))
        BY <2>2 DEF LoadItem
      <3>2. o[1] \in Bucket /\ o[2] \in Keys
        BY <1>2 DEF Objects
      <3>3. got \ {o} \in SUBSET Objects
        BY <1>2
      <3> QED BY <3>1, <3>2, <3>3, ClaimFacts
    <2> QED BY <2>1, <2>2
  <1>5. PICK items \in SUBSET Objects : Step(Booter, Loading(items))
    BY <1>4
  <1>6. t'[Booter] = Loading(items) /\ \A q \in Procs : q # Booter => t'[q] = t[q]
    BY <1>5, LoadingFacts, ProcFacts, StepFacts
  <1>7. TypeInv'
    BY <1>3, <1>4, <1>5, LoadingFacts, ProcFacts, TypeStep DEF TypeInv
  <1> QED BY <1>1, <1>3, <1>6, <1>7, LoadingFacts

\* The end of the bootstrap.
LEMMA SetReadyStep ==
    ASSUME TypeInv, SetReady
    PROVE  /\ TypeInv'
           /\ t[Booter].pc = "persisted" /\ t'[Booter].pc = "up"
           /\ \A q \in Procs : q # Booter => t'[q] = t[q]
           /\ UNCHANGED <<where, objs, manifest, dupCount, steady, fresh, calm, taken>>
  <1> DEFINE x == At("up", NoRequest, NoAnswer)
  <1>1. /\ t[Booter].pc = "persisted" /\ ready' = TRUE /\ Step(Booter, x)
        /\ UNCHANGED <<where, objs, manifest, dupCount, steady, fresh, calm, taken>>
    BY DEF SetReady, storage, history
  <1>2. x \in LocalState /\ x.pc = "up" /\ x.dups = {} /\ x.req = NoRequest
    BY AnswerFacts DEF At, LocalState, BootSteps
  <1> HIDE DEF x
  <1>3. LocalOK(Booter, x)
    BY <1>2, ProcFacts DEF LocalOK, BootSteps
  <1>4. t'[Booter] = x /\ \A q \in Procs : q # Booter => t'[q] = t[q]
    BY <1>1, <1>2, ProcFacts, StepFacts
  <1>5. TypeInv'
    BY <1>1, <1>2, <1>3, ProcFacts, TypeStep DEF TypeInv
  <1> QED BY <1>1, <1>2, <1>4, <1>5

\* The start of the process.
LEMMA StartingFacts ==
    LET s == Starting([p \in Procs |-> At("idle", NoRequest, NoAnswer)]) IN
    /\ s \in [Procs -> LocalState] /\ \A p \in Procs : LocalOK(p, s[p])
    /\ s[Booter].pc = "fetch"
    /\ \A p \in Procs \ {Booter} :
          s[p].pc = "idle" /\ s[p].req = NoRequest /\ s[p].ans.kind = "none"
  <1> DEFINE x == [At("fetch", NoRequest, NoAnswer) EXCEPT !.todo = Bucket]
             y == At("idle", NoRequest, NoAnswer)
             s == Starting([p \in Procs |-> y])
  <1>1. x \in LocalState /\ x.pc = "fetch" /\ x.todo = Bucket /\ x.got = {} /\ x.dups = {}
        /\ x.req = NoRequest
    BY AnswerFacts DEF At, LocalState, BootSteps
  <1>2. y \in LocalState /\ y.pc = "idle" /\ y.req = NoRequest /\ y.req.op = "none" /\ y.dups = {}
        /\ y.ans.kind = "none"
    BY AnswerFacts DEF At, LocalState, WorkerSteps, NoRequest
  <1>3. s = [[p \in Procs |-> y] EXCEPT ![Booter] = x]
    BY DEF Starting
  <1> HIDE DEF x, y, s
  <1>4. /\ s \in [Procs -> LocalState] /\ s[Booter] = x
        /\ \A p \in Procs \ {Booter} : s[p] = y
    BY <1>1, <1>2, <1>3, ProcFacts
  <1>5. LocalOK(Booter, x)
    <2>1. 1 \in Bucket
      BY ResolverAssumption DEF Bucket
    <2> QED BY <1>1, <2>1, ProcFacts DEF LocalOK, BootSteps
  <1>6. \A p \in Procs \ {Booter} : LocalOK(p, y)
    BY <1>2, ProcFacts DEF LocalOK, WorkerOK, WorkerSteps
  <1> QED BY <1>1, <1>2, <1>4, <1>5, <1>6 DEF s, y

\* A crash leaves nothing but the storage.
LEMMA CrashStep ==
    ASSUME TypeInv, Crash
    PROVE  /\ TypeInv'
           /\ t'[Booter].pc = "fetch"
           /\ \A p \in Procs \ {Booter} :
                 t'[p].pc = "idle" /\ t'[p].req = NoRequest /\ t'[p].ans.kind = "none"
           /\ ready' = FALSE /\ calm' = {} /\ steady' = objs /\ fresh' = {Booter} /\ taken' = {}
           /\ UNCHANGED objs
  <1>1. /\ where' = [k \in Keys |-> NoBucket] /\ ready' = FALSE /\ dupCount' = 0
        /\ t' = Starting([p \in Procs |-> At("idle", NoRequest, NoAnswer)])
        /\ steady' = objs /\ fresh' = {Booter} /\ calm' = {} /\ taken' = {}
        /\ UNCHANGED <<objs, manifest>>
    BY DEF Crash, storage
  <1>2. /\ t' \in [Procs -> LocalState] /\ \A p \in Procs : LocalOK(p, t'[p])
        /\ t'[Booter].pc = "fetch"
        /\ \A p \in Procs \ {Booter} :
              t'[p].pc = "idle" /\ t'[p].req = NoRequest /\ t'[p].ans.kind = "none"
    BY <1>1, StartingFacts
  <1>3. where' \in [Keys -> Bucket \cup {NoBucket}] /\ dupCount' \in Nat /\ fresh' \subseteq Procs
    BY <1>1, ProcFacts
  <1>4. TypeInv'
    BY <1>1, <1>2, <1>3 DEF TypeInv
  <1> QED BY <1>1, <1>2, <1>4

\* What others do to the storage.
LEMMA ChangedStep ==
    ASSUME TypeInv, NEW o \in Objects, Upload(o) \/ Delete(o)
    PROVE  /\ TypeInv'
           /\ steady' \subseteq steady /\ fresh' = {} /\ calm' = {}
           /\ UNCHANGED <<where, manifest, ready, dupCount, t, taken>>
  <1>1. PICK os \in SUBSET Objects : Changed(os)
    BY DEF Upload, Delete, TypeInv
  <1>2. /\ objs' = os /\ steady' = steady \cap os /\ fresh' = {} /\ calm' = {}
        /\ UNCHANGED <<where, manifest, ready, dupCount, t, taken>>
    BY <1>1 DEF Changed
  <1>3. TypeInv'
    BY <1>2 DEF TypeInv
  <1> QED BY <1>2, <1>3

\* Every process starts in a state of its own kind.
LEMMA InitTypeInv == Init => TypeInv
  <1> SUFFICES ASSUME Init PROVE TypeInv
    OBVIOUS
  <1>1. t \in [Procs -> LocalState] /\ \A p \in Procs : LocalOK(p, t[p])
    BY StartingFacts DEF Init
  <1>2. where \in [Keys -> Bucket \cup {NoBucket}] /\ dupCount \in Nat /\ fresh \subseteq Procs
    BY ProcFacts DEF Init
  <1> QED BY <1>1, <1>2 DEF Init, TypeInv

\* Every step keeps the types.
LEMMA NextTypeInv == TypeInv /\ [Next]_vars => TypeInv'
  <1> SUFFICES ASSUME TypeInv, [Next]_vars PROVE TypeInv'
    OBVIOUS
  <1>1. ASSUME NEW w \in Workers, NEW r \in Requests, Request(w, r) PROVE TypeInv'
    BY <1>1, RequestStarts
  <1>2. ASSUME NEW w \in Workers, WorkerStep(w) PROVE TypeInv'
    <2>1. w \in Procs
      BY ProcFacts
    <2> QED BY <1>2, <2>1, CheckExistsStep, ScanStep, PlaceHitStep, DropKeyStep, ReadManifestStep,
              PutManifestStep, AnswerStep DEF WorkerStep
  <1>3. ASSUME NEW p \in {Syncer, Booter}, SyncStep(p) PROVE TypeInv'
    <2>1. p \in Procs
      BY ProcFacts
    <2> QED BY <1>3, <2>1, ListObjectsStep, RegisterListedStep, CountStep, ReadManifestStep,
              PutManifestStep DEF SyncStep
  <1>4. CASE SyncerStep
    BY <1>3, <1>4, TickStep DEF SyncerStep
  <1>5. CASE BooterStep
    BY <1>3, <1>5, FetchManifestStep, LoadStep, SetReadyStep DEF BooterStep
  <1>6. CASE Environment
    BY <1>6, ChangedStep, CrashStep DEF Environment
  <1>7. CASE UNCHANGED vars
    <2>1. UNCHANGED <<where, objs, manifest, ready, dupCount, t, steady, fresh, calm>>
      BY <1>7 DEF vars, history
    <2> QED BY <2>1 DEF TypeInv
  <1> QED BY <1>1, <1>2, <1>4, <1>5, <1>6, <1>7 DEF Next

\* The types hold in every reachable state.
LEMMA TypeInductive == Spec => []TypeInv
  BY InitTypeInv, NextTypeInv, PTL DEF Spec

\* No request of this module is one for a virtual repository or asks a cache.
Plain == \A w \in Workers : t[w].pc \notin CacheSteps /\ t[w].req \in Requests \cup {NoRequest}

\* Every step keeps that.
LEMMA NextPlain == TypeInv /\ Plain /\ [Next]_vars => Plain'
  <1> SUFFICES ASSUME TypeInv, Plain, [Next]_vars PROVE Plain'
    OBVIOUS
  <1> USE DEF CacheSteps
  <1>1. Workers \subseteq Procs /\ Syncer \notin Workers /\ Booter \notin Workers
        /\ Syncer \in Procs /\ Booter \in Procs
    BY ProcFacts
  <1>2. ASSUME NEW w \in Workers, NEW r \in Requests, Request(w, r) PROVE Plain'
    <2>1. t'[w].pc \in {"scan", "exists"} /\ t'[w].req = r /\ \A q \in Procs : q # w => t'[q] = t[q]
      BY <1>2, RequestStarts
    <2> QED BY <1>1, <2>1 DEF Plain
  <1>3. ASSUME NEW w \in Workers, WorkerStep(w) PROVE Plain'
    <2>1. /\ t'[w].pc \in {"idle", "scan", "read", "put", "persisted"} /\ t'[w].req = t[w].req
          /\ \A q \in Procs : q # w => t'[q] = t[q]
      <3>1. CASE CheckExists(w) \/ Scan(w) \/ Answer(w)
        BY <3>1, CheckExistsStep, ScanStep, AnswerStep
      <3>2. CASE PlaceHit(w) \/ DropKey(w)
        BY <3>2, PlaceHitStep, DropKeyStep
      <3>3. CASE ReadManifest(w) \/ PutManifest(w)
        BY <1>1, <3>3, ReadManifestStep, PutManifestStep
      <3> QED BY <1>3, <3>1, <3>2, <3>3 DEF WorkerStep
    <2> QED BY <1>1, <2>1 DEF Plain
  <1>4. ASSUME NEW p \in {Syncer, Booter}, \A q \in Procs : q # p => t'[q] = t[q] PROVE Plain'
    BY <1>1, <1>4 DEF Plain
  <1>5. ASSUME NEW p \in {Syncer, Booter}, SyncStep(p) PROVE Plain'
    BY <1>1, <1>4, <1>5, ListObjectsStep, RegisterListedStep, CountStep, ReadManifestStep,
       PutManifestStep DEF SyncStep
  <1>6. CASE SyncerStep
    BY <1>4, <1>5, <1>6, TickStep DEF SyncerStep
  <1>7. CASE BooterStep
    BY <1>4, <1>5, <1>7, FetchManifestStep, LoadStep, SetReadyStep DEF BooterStep
  <1>8. CASE Environment
    <2>1. ASSUME NEW o \in Objects, Upload(o) \/ Delete(o) PROVE Plain'
      BY <2>1, ChangedStep DEF Plain
    <2>2. CASE Crash
      BY <1>1, <2>2, CrashStep DEF Plain
    <2> QED BY <1>8, <2>1, <2>2 DEF Environment
  <1>9. CASE UNCHANGED vars
    BY <1>9 DEF vars, Plain
  <1> QED BY <1>2, <1>3, <1>6, <1>7, <1>8, <1>9 DEF Next

\* A request in flight is then one of this module.
LEMMA PlainRequests ==
    ASSUME TypeInv, Plain, NEW w \in Workers, t[w].pc # "idle"
    PROVE  t[w].req \in Requests
  <1>1. t[w].req \in AllRequests
    BY ProcFacts DEF TypeInv, LocalOK, WorkerOK
  <1>2. t[w].req # NoRequest
    BY <1>1, RequestFacts DEF AllRequests, VirtualRequests, NoRequest
  <1> QED BY <1>2 DEF Plain

\* So it holds of every reachable state.
LEMMA PlainInductive == Spec => [](TypeInv /\ Plain)
  <1>1. Init => Plain
    BY StartingFacts, ProcFacts DEF Init, Plain, CacheSteps
  <1> QED BY <1>1, InitTypeInv, NextTypeInv, NextPlain, PTL DEF Spec

\* Every variable keeps its type, and a process that is to visit a bucket has one
\* left to visit: the loops over the buckets never run past their end.
THEOREM ResolverTypeCorrect == Spec => []TypeOK
  <1>1. ASSUME TypeInv, Plain PROVE TypeOK
    <2>1. ASSUME NEW p \in Procs
          PROVE  /\ t[p].pc \in {"idle", "exists", "scan", "read", "put", "persisted",
                                 "list", "register", "count", "fetch", "clear", "load",
                                 "up", "down"}
                 /\ t[p].req \in Requests \cup {NoRequest}
                 /\ t[p].todo \subseteq Bucket
                 /\ t[p].hit \in Bucket \cup {NoBucket}
                 /\ t[p].seen \subseteq Keys
                 /\ t[p].dups \subseteq t[p].seen
                 /\ t[p].ans \in Answers
                 /\ t[p].pc \in {"read", "put", "list", "register", "fetch"} => t[p].todo # {}
      <3>1. t[p] \in LocalState /\ LocalOK(p, t[p])
        BY <1>1 DEF TypeInv
      <3>2. t[p].req \in Requests \cup {NoRequest}
        BY <1>1, <3>1 DEF LocalOK, Plain
      <3>3. t[p].pc \in WorkerSteps \cup SyncSteps \cup BootSteps
        BY <1>1, <3>1 DEF LocalOK, WorkerOK, Plain, Procs, WorkerSteps
      <3> QED BY <3>1, <3>2, <3>3 DEF LocalOK, LocalState, WorkerSteps, SyncSteps, BootSteps
    <2> QED BY <1>1, <2>1 DEF TypeInv, TypeOK
  <1> QED BY PlainInductive, <1>1, PTL
-----------------------------------------------------------------------------
(***************************************************************************)
(* SteadyWins.  A search or a sync that has passed a bucket knows of the   *)
(* files that were in it all the time.                                     *)
(***************************************************************************)

\* The search x has not missed any of the objects os.
Unvisited(x) == IF x.pc = "scan" THEN x.todo ELSE {}
SearchOK(x, os) ==
    x.pc \in {"scan", "read", "put", "persisted"} =>
        /\ \A o \in os :
              o[2] = x.req.key /\ o[1] \in Searched(x.req) \ Unvisited(x) =>
                  x.hit # NoBucket /\ x.hit <= o[1]
        /\ x.hit # NoBucket => \A c \in Unvisited(x) : x.hit <= c

\* Neither has the sync x.
SyncOK(x, os) ==
    /\ x.pc \in {"list", "register", "count"} =>
          \A o \in os : o[1] \notin x.todo => o[2] \in x.seen
    /\ x.pc = "register" => \A o \in os : o[1] = Least(x.todo) => o[2] \in x.seen \cup x.got
    /\ x.pc = "count" => x.todo = {}

\* The catalog has a steady file of this key, or a better-ranked one.
Settled(k) ==
    \A o \in steady : o[2] = k => where[k] # NoBucket /\ (where[k] <= o[1] \/ k \in taken)

\* The keys the bootstrap, in state x, vouches for: those its sync has seen, and
\* all of them once that sync is over.
Promised(x) ==
    IF x.pc \in {"list", "register", "count"} THEN x.seen
    ELSE IF x.pc \in {"read", "put", "persisted", "up"} THEN Keys ELSE {}

\* No request is served, and nothing is promised, before the bootstrap has
\* synced; from then on, what its sync has seen stays settled.
SteadyInv ==
    /\ \A w \in Workers : t[w].pc = "scan" => SearchOK(t[w], steady)
    /\ \A p \in {Syncer, Booter} : SyncOK(t[p], steady)
    /\ ~ready => \A w \in Workers : t[w].pc = "idle"
    /\ ready => t[Booter].pc = "up"
    /\ \A k \in Promised(t[Booter]) : Settled(k)

\* An object is a bucket and a key.
LEMMA ObjectFacts ==
    ASSUME TypeInv, NEW o \in objs
    PROVE  o = <<o[1], o[2]>> /\ o[1] \in Bucket /\ o[2] \in Keys
  BY DEF TypeInv, Objects

\* Fewer objects are easier not to miss.
LEMMA FewerObjects ==
    ASSUME NEW x, NEW os, NEW fewer \in SUBSET os
    PROVE  /\ SearchOK(x, os) => SearchOK(x, fewer)
           /\ SyncOK(x, os) => SyncOK(x, fewer)
  BY DEF SearchOK, SyncOK

\* A request that begins has missed nothing.
LEMMA RequestSearches ==
    ASSUME TypeInv, NEW w \in Workers, NEW r \in Requests, Request(w, r),
           NEW os \in SUBSET objs
    PROVE  SearchOK(t'[w], os)
  <1>1. /\ t'[w].pc \in {"scan", "exists"} /\ t'[w].req = r /\ t'[w].todo = Searched(r)
        /\ t'[w].pc = "scan" => t'[w].hit = NoBucket
    BY RequestStarts
  <1> QED BY <1>1 DEF SearchOK, Unvisited

\* A HEAD asks about the first bucket that is left, and a hit there is the best
\* one there can be.
LEMMA ScanSearches ==
    ASSUME TypeInv, NEW w \in Workers, Scan(w), NEW os \in SUBSET objs, SearchOK(t[w], os)
    PROVE  SearchOK(t'[w], os)
  <1> DEFINE b == Least(t[w].todo)
             here == <<b, t[w].req.key>> \in objs
  <1>1. /\ t[w].pc = "scan" /\ t[w].todo # {} /\ t'[w].req = t[w].req
        /\ \/ /\ t'[w].pc = "scan"
              /\ t'[w].todo = IF here /\ Stops(w) THEN {} ELSE t[w].todo \ {b}
              /\ t'[w].hit = IF here /\ t[w].hit = NoBucket THEN b ELSE t[w].hit
           \/ t'[w].pc = "idle"
    BY ScanStep
  <1>2. t[w].todo \subseteq Bucket /\ t[w].hit \in Bucket \cup {NoBucket}
    BY ProcFacts DEF TypeInv, LocalState
  <1>3. b \in t[w].todo /\ b \in Bucket /\ \A c \in t[w].todo : b <= c
    BY <1>1, <1>2, LeastFacts
  <1>4. \A o \in os : o = <<o[1], o[2]>> /\ o \in objs /\ o[1] \in Bucket
    BY ObjectFacts
  <1>5. b # NoBucket
    BY <1>3 DEF Bucket, NoBucket
  <1>6. /\ \A o \in os : o[2] = t[w].req.key /\ o[1] \in Searched(t[w].req) \ t[w].todo =>
               t[w].hit # NoBucket /\ t[w].hit <= o[1]
        /\ t[w].hit # NoBucket => \A c \in t[w].todo : t[w].hit <= c
    BY <1>1 DEF SearchOK, Unvisited
  <1> HIDE DEF b
  <1>7. CASE t'[w].pc = "scan"
    <2>1. t'[w].todo \subseteq t[w].todo
      BY <1>1, <1>7
    <2>2. t'[w].hit # NoBucket => \A c \in t[w].todo : t'[w].hit <= c
      BY <1>1, <1>3, <1>6, <1>7
    <2>3. ASSUME NEW o \in os, o[2] = t[w].req.key, o[1] \in Searched(t[w].req) \ t'[w].todo
          PROVE  t'[w].hit # NoBucket /\ t'[w].hit <= o[1]
      <3>1. CASE o[1] \notin t[w].todo
        <4>1. t[w].hit # NoBucket /\ t[w].hit <= o[1]
          BY <1>6, <2>3, <3>1
        <4> QED BY <1>1, <1>7, <4>1
      <3>2. CASE o[1] \in t[w].todo /\ o[1] = b
        BY <1>1, <1>4, <1>5, <1>7, <2>2, <2>3, <3>2
      <3>3. CASE o[1] \in t[w].todo /\ o[1] # b
        <4>1. here
          BY <1>1, <1>7, <2>3, <3>3
        <4>2. t'[w].hit # NoBucket
          BY <1>1, <1>5, <1>7, <4>1
        <4> QED BY <2>2, <3>3, <4>2
      <3> QED BY <3>1, <3>2, <3>3
    <2> QED BY <1>1, <1>7, <2>1, <2>2, <2>3 DEF SearchOK, Unvisited
  <1>8. CASE t'[w].pc = "idle"
    BY <1>8 DEF SearchOK
  <1> QED BY <1>1, <1>7, <1>8

\* No step of a request misses an object that is there all the time.
LEMMA WorkerSearches ==
    ASSUME TypeInv, NEW w \in Workers, WorkerStep(w), NEW os \in SUBSET objs,
           SearchOK(t[w], os)
    PROVE  SearchOK(t'[w], os)
  <1>1. w \in Procs /\ w # Syncer
    BY ProcFacts
  <1>2. CASE CheckExists(w)
    BY <1>2, CheckExistsStep DEF SearchOK, Unvisited
  <1>3. CASE Scan(w)
    BY <1>3, ScanSearches
  <1>4. CASE PlaceHit(w)
    BY <1>4, PlaceHitStep DEF SearchOK, Unvisited
  <1>5. CASE DropKey(w)
    <2>1. t[w].pc = "scan" /\ t[w].todo = {} /\ t[w].hit = NoBucket /\ t'[w].req = t[w].req
      BY <1>5, DropKeyStep
    <2>2. t'[w].pc = "idle" \/ (t'[w].pc = "read" /\ t'[w].hit = NoBucket)
      BY <1>5, DropKeyStep
    <2> QED BY <2>1, <2>2 DEF SearchOK, Unvisited
  <1>6. CASE ReadManifest(w)
    BY <1>1, <1>6, ReadManifestStep DEF SearchOK, Unvisited
  <1>7. CASE PutManifest(w)
    BY <1>1, <1>7, PutManifestStep DEF SearchOK, Unvisited
  <1>8. CASE Answer(w)
    BY <1>8, AnswerStep DEF SearchOK, Unvisited
  <1> QED BY <1>2, <1>3, <1>4, <1>5, <1>6, <1>7, <1>8 DEF WorkerStep

\* A search goes on without missing one.
LEMMA StillSearches ==
    ASSUME TypeInv, NEW w \in Workers, WorkerStep(w), NEW os \in SUBSET objs,
           t[w].pc = "scan" => SearchOK(t[w], os)
    PROVE  t'[w].pc = "scan" => SearchOK(t'[w], os)
  <1>1. CASE t[w].pc = "scan"
    BY <1>1, WorkerSearches
  <1>2. CASE t[w].pc = "exists"
    <2>1. SearchOK(t[w], os)
      BY <1>2 DEF SearchOK
    <2> QED BY <2>1, WorkerSearches
  <1>3. CASE t[w].pc \notin {"scan", "exists"}
    <2>1. w \in Procs
      BY ProcFacts
    <2> QED BY <1>3, <2>1, CheckExistsStep, ScanStep, PlaceHitStep, DropKeyStep,
               ReadManifestStep, PutManifestStep, AnswerStep DEF WorkerStep
  <1> QED BY <1>1, <1>2, <1>3

\* Neither does a step of a sync.
LEMMA SyncSearches ==
    ASSUME TypeInv, NEW p \in {Syncer, Booter}, SyncStep(p), NEW os \in SUBSET objs,
           SyncOK(t[p], os)
    PROVE  SyncOK(t'[p], os)
  <1> DEFINE b == Least(t[p].todo)
  <1>1. p \in Procs
    BY ProcFacts
  <1>2. \A o \in os : o = <<o[1], o[2]>> /\ o \in objs /\ o[2] \in Keys
    BY ObjectFacts
  <1>3. CASE ListObjects(p)
    <2> DEFINE got == {k \in Keys : <<b, k>> \in objs}
               rest == t[p].todo \ {b}
    <2>1. /\ t[p].pc = "list" /\ t[p].todo # {}
          /\ \/ t'[p].pc \in {"idle", "down"}
             \/ /\ t'[p].seen = t[p].seen
                /\ t'[p].got = got
                /\ got # {} => t'[p].pc = "register" /\ t'[p].todo = t[p].todo
                /\ got = {} => /\ t'[p].pc = IF rest # {} THEN "list" ELSE "count"
                               /\ t'[p].todo = rest
      BY <1>3, ListObjectsStep
    <2>2. \A o \in os : o[1] \notin t[p].todo => o[2] \in t[p].seen
      BY <2>1 DEF SyncOK
    <2>3. \A o \in os : o[1] = b => o[2] \in got
      BY <1>2
    <2>4. CASE t'[p].pc \in {"idle", "down"}
      BY <2>4 DEF SyncOK
    <2>5. CASE t'[p].pc \notin {"idle", "down"} /\ got # {}
      BY <2>1, <2>2, <2>3, <2>5 DEF SyncOK
    <2>6. CASE t'[p].pc \notin {"idle", "down"} /\ got = {}
      <3> HIDE DEF got, b
      <3>1. \A o \in os : o[1] \notin rest => o[2] \in t[p].seen
        BY <2>2, <2>3, <2>6
      <3> QED BY <2>1, <2>6, <3>1 DEF SyncOK
    <2> QED BY <2>4, <2>5, <2>6
  <1>4. CASE RegisterListed(p)
    <2>1. t[p].pc = "register" /\ t[p].todo # {}
      BY <1>4, RegisterListedStep
    <2>2. PICK k \in t[p].got :
              /\ t'[p].seen = t[p].seen \cup {k}
              /\ t'[p].got = t[p].got \ {k}
              /\ t[p].got \ {k} # {} => t'[p].pc = "register" /\ t'[p].todo = t[p].todo
              /\ t[p].got \ {k} = {} =>
                    /\ t'[p].pc = IF t[p].todo \ {b} # {} THEN "list" ELSE "count"
                    /\ t'[p].todo = t[p].todo \ {b}
      BY <1>4, RegisterListedStep
    <2>3. /\ \A o \in os : o[1] \notin t[p].todo => o[2] \in t[p].seen
          /\ \A o \in os : o[1] = b => o[2] \in t[p].seen \cup t[p].got
      BY <2>1 DEF SyncOK
    <2> HIDE DEF b
    <2>4. CASE t[p].got \ {k} # {}
      <3>1. t'[p].todo = t[p].todo /\ t'[p].pc = "register" /\ Least(t'[p].todo) = b
        BY <2>2, <2>4 DEF b
      <3> QED BY <2>2, <2>3, <3>1 DEF SyncOK
    <2>5. CASE t[p].got \ {k} = {}
      <3>1. \A o \in os : o[1] \notin t[p].todo \ {b} => o[2] \in t'[p].seen
        BY <2>2, <2>3, <2>5
      <3> QED BY <2>2, <2>5, <3>1 DEF SyncOK
    <2> QED BY <2>4, <2>5
  <1>5. CASE CountDuplicates(p)
    BY <1>5, CountStep DEF SyncOK
  <1>6. CASE ReadManifest(p)
    BY <1>1, <1>6, ReadManifestStep DEF SyncOK
  <1>7. CASE PutManifest(p)
    BY <1>1, <1>7, PutManifestStep DEF SyncOK
  <1> QED BY <1>3, <1>4, <1>5, <1>6, <1>7 DEF SyncStep

\* A search that has missed no steady file unsettles no key.
LEMMA WorkerSettles ==
    ASSUME TypeInv, NEW w \in Workers, WorkerStep(w),
           t[w].pc = "scan" => SearchOK(t[w], steady), NEW k \in Keys, Settled(k)
    PROVE  Settled(k)'
  <1>1. w \in Procs
    BY ProcFacts
  <1>2. steady \subseteq objs
    BY DEF TypeInv
  <1>3. CASE UNCHANGED <<where, steady, taken>>
    BY <1>3 DEF Settled
  <1>4. CASE PlaceHit(w)
    <2> DEFINE j == t[w].req.key
    <2>1. /\ t[w].pc = "scan" /\ t[w].todo = {} /\ t[w].hit \in Bucket /\ t[w].req \in Requests
          /\ where'[j] = t[w].hit /\ \A i \in Keys : i # j => where'[i] = where[i]
          /\ taken' = IF t[w].req.op = "type" THEN taken \cup {j} ELSE taken \ {j}
          /\ steady' = steady
      BY <1>4, PlaceHitStep
    <2>2. t[w].hit # NoBucket
      BY <2>1 DEF Bucket, NoBucket
    <2>3. CASE k # j
      BY <2>1, <2>3 DEF Settled
    <2>4. CASE k = j /\ t[w].req.op = "type"
      BY <2>1, <2>2, <2>4 DEF Settled
    <2>5. CASE k = j /\ t[w].req.op # "type"
      <3>1. Searched(t[w].req) = Bucket
        BY <2>1, <2>5, RequestFacts
      <3>2. \A o \in steady : o[2] = k => t[w].hit <= o[1]
        BY <1>2, <2>1, <2>5, <3>1, ObjectFacts DEF SearchOK, Unvisited
      <3> QED BY <2>1, <2>2, <2>5, <3>2 DEF Settled
    <2> QED BY <2>3, <2>4, <2>5
  <1>5. CASE DropKey(w)
    <2> DEFINE j == t[w].req.key
    <2>1. /\ t[w].pc = "scan" /\ t[w].todo = {} /\ t[w].hit = NoBucket /\ t[w].req \in Requests
          /\ \/ UNCHANGED where
             \/ t[w].req.op # "type" /\ \A i \in Keys : i # j => where'[i] = where[i]
          /\ UNCHANGED <<steady, taken>>
      BY <1>5, DropKeyStep
    <2>2. CASE UNCHANGED where \/ k # j
      BY <2>1, <2>2 DEF Settled
    <2>3. CASE k = j /\ t[w].req.op # "type"
      <3>1. Searched(t[w].req) = Bucket
        BY <2>1, <2>3, RequestFacts
      <3>2. \A o \in steady : o[2] # k
        BY <1>2, <2>1, <2>3, <3>1, ObjectFacts DEF SearchOK, Unvisited
      <3> QED BY <2>1, <3>2 DEF Settled
    <2> QED BY <2>1, <2>2, <2>3
  <1> QED BY <1>1, <1>3, <1>4, <1>5, CheckExistsStep, ScanStep, ReadManifestStep,
             PutManifestStep, AnswerStep DEF WorkerStep

\* A sync unsettles no key either, and settles the one it registers: the buckets
\* before this one had no steady file of it.
LEMMA SyncSettles ==
    ASSUME TypeInv, NEW p \in {Syncer, Booter}, SyncStep(p), SyncOK(t[p], steady),
           NEW k \in Keys,
           \/ Settled(k)
           \/ RegisterListed(p) /\ k \in t'[p].seen \ t[p].seen
    PROVE  Settled(k)'
  <1>1. p \in Procs
    BY ProcFacts
  <1>2. steady \subseteq objs
    BY DEF TypeInv
  <1>3. CASE Settled(k) /\ UNCHANGED <<where, steady, taken>>
    BY <1>3 DEF Settled
  <1>4. CASE RegisterListed(p)
    <2> DEFINE b == Least(t[p].todo)
    <2>1. t[p].pc = "register" /\ t[p].todo # {} /\ steady' = steady
      BY <1>4, RegisterListedStep
    <2>2. PICK j \in t[p].got :
              /\ j \in Keys
              /\ j \in t[p].seen => where' = where /\ taken' = taken
              /\ j \notin t[p].seen => Cat!Claim(j, b) /\ taken' = taken \ {j}
              /\ t'[p].seen = t[p].seen \cup {j}
      BY <1>4, RegisterListedStep
    <2>3. CASE j \in t[p].seen
      BY <2>1, <2>2, <2>3 DEF Settled
    <2>4. CASE j \notin t[p].seen
      <3>1. t[p].todo \subseteq Bucket
        BY <1>1 DEF TypeInv, LocalState
      <3>2. b \in Bucket /\ \A c \in t[p].todo : b <= c
        BY <2>1, <3>1, LeastFacts
      <3>3. /\ \A i \in Keys : i # j => where'[i] = where[i]
            /\ where'[j] \in Bucket /\ where'[j] <= b
        BY <2>2, <2>4, <3>2, ClaimFacts
      <3> HIDE DEF b
      <3>4. CASE k # j
        BY <2>1, <2>2, <2>4, <3>3, <3>4 DEF Settled
      <3>5. CASE k = j
        <4>1. \A o \in steady : o[2] = k => o[1] \in t[p].todo
          BY <2>1, <2>4, <3>5 DEF SyncOK
        <4>2. \A o \in steady : o[2] = k => b <= o[1] /\ o[1] \in Bucket
          BY <1>2, <3>2, <4>1, ObjectFacts
        <4>3. \A o \in steady : o[2] = k => where'[k] <= o[1]
          BY <3>2, <3>3, <3>5, <4>2 DEF Bucket
        <4>4. where'[k] # NoBucket
          BY <3>3, <3>5 DEF Bucket, NoBucket
        <4> QED BY <2>1, <4>3, <4>4 DEF Settled
      <3> QED BY <3>4, <3>5
    <2> QED BY <2>3, <2>4
  <1> QED BY <1>1, <1>3, <1>4, ListObjectsStep, CountStep, ReadManifestStep,
             PutManifestStep DEF SyncStep

\* The parts of SteadyInv.
LEMMA SteadyParts ==
    ASSUME SteadyInv
    PROVE  /\ \A w \in Workers : t[w].pc = "scan" => SearchOK(t[w], steady)
           /\ \A p \in {Syncer, Booter} : SyncOK(t[p], steady)
           /\ ~ready => \A w \in Workers : t[w].pc = "idle"
           /\ ready => t[Booter].pc = "up"
           /\ \A k \in Promised(t[Booter]) : Settled(k)
  BY DEF SteadyInv

\* A step of a request keeps SteadyInv.
LEMMA WorkerSteady ==
    ASSUME TypeInv, SteadyInv, NEW w \in Workers,
           WorkerStep(w) \/ \E r \in Requests : Request(w, r)
    PROVE  SteadyInv'
  <1>1. w \in Procs /\ w # Syncer /\ w # Booter /\ Workers \subseteq Procs
        /\ Syncer \in Procs /\ Booter \in Procs
    BY ProcFacts
  <1>2. steady \in SUBSET objs
    BY DEF TypeInv
  <1>3. /\ \A q \in Procs : q # w => t'[q] = t[q]
        /\ UNCHANGED <<steady, ready>>
        /\ ready \/ t[w].pc # "idle"
    <2>1. ASSUME NEW r \in Requests, Request(w, r)
          PROVE  (\A q \in Procs : q # w => t'[q] = t[q]) /\ UNCHANGED <<steady, ready>> /\ ready
      BY <2>1, RequestStarts
    <2>2. CASE WorkerStep(w)
      BY <1>1, <2>2, CheckExistsStep, ScanStep, PlaceHitStep, DropKeyStep, ReadManifestStep,
         PutManifestStep, AnswerStep DEF WorkerStep
    <2> QED BY <2>1, <2>2
  <1>4. t'[w].pc = "scan" => SearchOK(t'[w], steady)
    BY <1>2, RequestSearches, StillSearches, SteadyParts
  <1>5. ready
    BY <1>3, SteadyParts
  <1>6. Promised(t[Booter]) = Keys
    BY <1>5, SteadyParts DEF Promised
  <1>7. ASSUME NEW k \in Keys PROVE Settled(k)'
    <2>1. Settled(k)
      BY <1>6, SteadyParts
    <2>2. CASE WorkerStep(w)
      BY <2>1, <2>2, SteadyParts, WorkerSettles
    <2>3. ASSUME NEW r \in Requests, Request(w, r) PROVE Settled(k)'
      <3>1. UNCHANGED <<where, steady, taken>>
        BY <2>3, RequestStarts
      <3> QED BY <2>1, <3>1 DEF Settled
    <2> QED BY <2>2, <2>3
  <1>8. Promised(t'[Booter]) = Keys
    BY <1>1, <1>3, <1>6
  <1> QED BY <1>1, <1>3, <1>4, <1>5, <1>7, <1>8, SteadyParts DEF SteadyInv

\* A step of a sync keeps SteadyInv.
LEMMA SyncSteady ==
    ASSUME TypeInv, SteadyInv, NEW p \in {Syncer, Booter}, SyncStep(p)
    PROVE  SteadyInv'
  <1>1. p \in Procs /\ p \notin Workers /\ Workers \subseteq Procs
        /\ Syncer \in Procs /\ Booter \in Procs
    BY ProcFacts
  <1>2. steady \in SUBSET objs
    BY DEF TypeInv
  <1>3. (\A q \in Procs : q # p => t'[q] = t[q]) /\ UNCHANGED <<steady, ready>>
    BY <1>1, ListObjectsStep, RegisterListedStep, CountStep, ReadManifestStep,
       PutManifestStep DEF SyncStep
  <1>4. SyncOK(t'[p], steady)
    BY <1>2, SyncSearches, SteadyParts
  <1>5. t[p].pc \in {"list", "register", "count", "read", "put"}
    BY <1>1, ListObjectsStep, RegisterListedStep, CountStep, ReadManifestStep,
       PutManifestStep DEF SyncStep
  <1>6. ready => p # Booter
    BY <1>5, SteadyParts
  <1>7. ASSUME NEW k \in Keys, Settled(k) PROVE Settled(k)'
    BY <1>7, SyncSettles, SteadyParts
  <1>8. ASSUME NEW k \in Promised(t'[Booter]) PROVE Settled(k)'
    <2>1. t'[Booter].seen \subseteq Keys /\ t[Booter].seen \subseteq Keys
      <3>1. t'[Booter] \in LocalState /\ t[Booter] \in LocalState
        <4>1. TypeInv'
          BY <1>1, ListObjectsStep, RegisterListedStep, CountStep, ReadManifestStep,
             PutManifestStep DEF SyncStep
        <4> QED BY <1>1, <4>1 DEF TypeInv
      <3> QED BY <3>1 DEF LocalState
    <2>2. k \in Keys
      BY <1>8, <2>1 DEF Promised
    <2>3. CASE k \in Promised(t[Booter])
      BY <1>7, <2>2, <2>3, SteadyParts
    <2>4. CASE k \notin Promised(t[Booter])
      <3>1. p = Booter
        BY <1>1, <1>3, <1>8, <2>4
      <3>2. CASE ListObjects(p)
        <4>1. t[p].pc = "list"
          BY <3>2, ListObjectsStep
        <4>2. t'[p].pc \in {"idle", "down"} \/ (t'[p].seen = t[p].seen
              /\ t'[p].pc \in {"list", "register", "count"})
          BY <3>2, ListObjectsStep
        <4> QED BY <1>8, <2>4, <3>1, <4>1, <4>2 DEF Promised
      <3>3. CASE RegisterListed(p)
        <4>1. t[p].pc = "register" /\ t'[p].pc \in {"list", "register", "count"}
          BY <3>3, RegisterListedStep
        <4>2. k \in t'[p].seen \ t[p].seen
          BY <1>8, <2>4, <3>1, <4>1 DEF Promised
        <4> QED BY <2>2, <3>3, <4>2, SteadyParts, SyncSettles
      <3>4. CASE CountDuplicates(p)
        <4>1. t[p].pc = "count" /\ UNCHANGED <<where, steady, taken>>
          BY <3>4, CountStep
        <4>2. t[p].todo = {} /\ \A o \in steady : o[2] \in t[p].seen
          BY <4>1, SteadyParts DEF SyncOK
        <4>3. k \notin t[p].seen
          BY <2>4, <3>1, <4>1 DEF Promised
        <4> QED BY <4>1, <4>2, <4>3 DEF Settled
      <3>5. CASE ReadManifest(p)
        <4>1. t[p].pc = "read"
          BY <1>1, <3>5, ReadManifestStep
        <4> QED BY <2>2, <2>4, <3>1, <4>1 DEF Promised
      <3>6. CASE PutManifest(p)
        <4>1. t[p].pc = "put"
          BY <1>1, <3>6, PutManifestStep
        <4> QED BY <2>2, <2>4, <3>1, <4>1 DEF Promised
      <3> QED BY <3>2, <3>3, <3>4, <3>5, <3>6 DEF SyncStep
    <2> QED BY <2>3, <2>4
  <1> QED BY <1>1, <1>3, <1>4, <1>6, <1>8, SteadyParts DEF SteadyInv

\* A step of the bootstrap before its sync, and the last one, keeps SteadyInv.
LEMMA BootSteady ==
    ASSUME TypeInv, SteadyInv, FetchManifest \/ ClearCatalog \/ LoadItem \/ SetReady
    PROVE  SteadyInv'
  <1>1. Workers \subseteq Procs /\ Booter \notin Workers /\ Syncer \in Procs /\ Syncer # Booter
    BY ProcFacts
  <1>2. (\A q \in Procs : q # Booter => t'[q] = t[q]) /\ UNCHANGED steady
    BY FetchManifestStep, LoadStep, SetReadyStep
  <1>3. CASE FetchManifest
    <2>1. t[Booter].pc = "fetch" /\ t'[Booter].pc \in {"fetch", "clear", "down"} /\ UNCHANGED ready
      BY <1>3, FetchManifestStep
    <2>2. ~ready
      BY <2>1, SteadyParts
    <2>3. SyncOK(t'[Booter], steady) /\ Promised(t'[Booter]) = {}
      BY <2>1 DEF SyncOK, Promised
    <2> QED BY <1>1, <1>2, <2>1, <2>2, <2>3, SteadyParts DEF SteadyInv
  <1>4. CASE ClearCatalog \/ LoadItem
    <2>1. /\ t[Booter].pc \in {"clear", "load"} /\ UNCHANGED ready
          /\ \/ t'[Booter].pc = "load"
             \/ t'[Booter].pc = "list" /\ t'[Booter].todo = Bucket /\ t'[Booter].seen = {}
      BY <1>4, LoadStep
    <2>2. ~ready
      BY <2>1, SteadyParts
    <2>3. Promised(t'[Booter]) = {}
      BY <2>1 DEF Promised
    <2>4. \A o \in steady : o[1] \in Bucket
      BY ObjectFacts DEF TypeInv
    <2>5. SyncOK(t'[Booter], steady)
      BY <2>1, <2>4 DEF SyncOK
    <2> QED BY <1>1, <1>2, <2>1, <2>2, <2>3, <2>5, SteadyParts DEF SteadyInv
  <1>5. CASE SetReady
    <2>1. /\ t[Booter].pc = "persisted" /\ t'[Booter].pc = "up"
          /\ UNCHANGED <<where, taken>>
      BY <1>5, SetReadyStep
    <2>2. ready' = TRUE
      BY <1>5 DEF SetReady
    <2>3. Promised(t[Booter]) = Keys /\ Promised(t'[Booter]) = Keys
      BY <2>1 DEF Promised
    <2>4. \A k \in Keys : Settled(k)'
      BY <1>2, <2>1, <2>3, SteadyParts DEF Settled
    <2>5. SyncOK(t'[Booter], steady)
      BY <2>1 DEF SyncOK
    <2> QED BY <1>1, <1>2, <2>1, <2>2, <2>3, <2>4, <2>5, SteadyParts DEF SteadyInv
  <1> QED BY <1>3, <1>4, <1>5

\* So does a tick of the ticker.
LEMMA TickSteady ==
    ASSUME TypeInv, SteadyInv, Tick
    PROVE  SteadyInv'
  <1>1. Workers \subseteq Procs /\ Syncer \notin Workers /\ Booter \in Procs /\ Syncer # Booter
    BY ProcFacts
  <1>2. /\ t'[Syncer].pc = "list" /\ t'[Syncer].todo = Bucket
        /\ \A q \in Procs : q # Syncer => t'[q] = t[q]
        /\ UNCHANGED <<where, ready, steady, taken>>
    BY TickStep
  <1>3. \A o \in steady : o[1] \in Bucket
    BY ObjectFacts DEF TypeInv
  <1>4. SyncOK(t'[Syncer], steady)
    BY <1>2, <1>3 DEF SyncOK
  <1>5. \A k \in Promised(t'[Booter]) : Settled(k)'
    BY <1>1, <1>2, SteadyParts DEF Settled
  <1> QED BY <1>1, <1>2, <1>4, <1>5, SteadyParts DEF SteadyInv

\* A change of the storage leaves fewer steady files, and a process that starts
\* has promised nothing.
LEMMA EnvironmentSteady ==
    ASSUME TypeInv, SteadyInv, Environment
    PROVE  SteadyInv'
  <1>1. ASSUME NEW o \in Objects, Upload(o) \/ Delete(o) PROVE SteadyInv'
    <2>1. steady' \subseteq steady /\ UNCHANGED <<where, ready, t, taken>>
      BY <1>1, ChangedStep
    <2>2. /\ \A w \in Workers : t[w].pc = "scan" => SearchOK(t[w], steady')
          /\ \A p \in {Syncer, Booter} : SyncOK(t[p], steady')
      BY <2>1, FewerObjects, SteadyParts
    <2>3. \A k \in Promised(t[Booter]) : Settled(k)'
      BY <2>1, SteadyParts DEF Settled
    <2> QED BY <2>1, <2>2, <2>3, SteadyParts DEF SteadyInv
  <1>2. CASE Crash
    <2>1. /\ t'[Booter].pc = "fetch" /\ \A p \in Procs \ {Booter} : t'[p].pc = "idle"
          /\ ready' = FALSE
      BY <1>2, CrashStep
    <2>2. \A w \in Workers : t'[w].pc = "idle"
      BY <2>1, ProcFacts
    <2>3. \A w \in Workers : SearchOK(t'[w], steady')
      BY <2>2 DEF SearchOK
    <2>4. \A p \in {Syncer, Booter} : SyncOK(t'[p], steady')
      BY <2>1, ProcFacts DEF SyncOK
    <2>5. Promised(t'[Booter]) = {}
      BY <2>1 DEF Promised
    <2> QED BY <2>1, <2>2, <2>3, <2>4, <2>5 DEF SteadyInv
  <1> QED BY <1>1, <1>2 DEF Environment

\* SteadyInv holds at the start.
LEMMA InitSteady == Init => SteadyInv
  <1> SUFFICES ASSUME Init PROVE SteadyInv
    OBVIOUS
  <1>1. /\ t[Booter].pc = "fetch" /\ \A p \in Procs \ {Booter} : t[p].pc = "idle"
        /\ ready = FALSE
    BY StartingFacts DEF Init
  <1>2. \A w \in Workers : t[w].pc = "idle"
    BY <1>1, ProcFacts
  <1>3. \A w \in Workers : SearchOK(t[w], steady)
    BY <1>2 DEF SearchOK
  <1>4. \A p \in {Syncer, Booter} : SyncOK(t[p], steady)
    BY <1>1, ProcFacts DEF SyncOK
  <1>5. Promised(t[Booter]) = {}
    BY <1>1 DEF Promised
  <1> QED BY <1>1, <1>2, <1>3, <1>4, <1>5 DEF SteadyInv

\* SteadyInv speaks of these variables only.
LEMMA UnchangedSteady ==
    ASSUME SteadyInv, UNCHANGED <<where, ready, t, steady, taken>>
    PROVE  SteadyInv'
  <1>1. \A k \in Promised(t[Booter]) : Settled(k)'
    BY SteadyParts DEF Settled
  <1> QED BY <1>1, SteadyParts DEF SteadyInv

\* Every step keeps SteadyInv.
LEMMA NextSteady == TypeInv /\ SteadyInv /\ [Next]_vars => SteadyInv'
  <1> SUFFICES ASSUME TypeInv, SteadyInv, [Next]_vars PROVE SteadyInv'
    OBVIOUS
  <1>1. CASE SyncerStep
    BY <1>1, TickSteady, SyncSteady DEF SyncerStep
  <1>2. CASE BooterStep
    BY <1>2, BootSteady, SyncSteady DEF BooterStep
  <1>3. CASE UNCHANGED vars
    <2>1. UNCHANGED <<where, ready, t, steady, taken>>
      BY <1>3 DEF vars, history
    <2> QED BY <2>1, UnchangedSteady
  <1> QED BY <1>1, <1>2, <1>3, WorkerSteady, EnvironmentSteady DEF Next

\* Steady files are never missed, in every reachable state.
LEMMA SteadyInductive == Spec => [](TypeInv /\ SteadyInv)
  BY InitTypeInv, NextTypeInv, InitSteady, NextSteady, PTL DEF Spec

\* The conflict rule, in the presence of storage: a file that has been there since
\* the process started is known once the service is ready, and its key is not
\* ranked below its bucket, for any number of keys, buckets, requests, failures,
\* changes and restarts.
THEOREM SteadyFilesWin == Spec => []SteadyWins
  <1>1. ASSUME TypeInv, SteadyInv PROVE SteadyWins
    <2>1. ASSUME ready, NEW o \in steady
          PROVE  where[o[2]] # NoBucket /\ (where[o[2]] <= o[1] \/ o[2] \in taken)
      <3>1. o[2] \in Keys
        BY <1>1, ObjectFacts DEF TypeInv
      <3>2. Promised(t[Booter]) = Keys
        BY <1>1, <2>1, SteadyParts DEF Promised
      <3> QED BY <1>1, <3>1, <3>2, SteadyParts DEF Settled
    <2> QED BY <2>1 DEF SteadyWins
  <1> QED BY SteadyInductive, <1>1, PTL
-----------------------------------------------------------------------------
(***************************************************************************)
(* RouteRule.  A search that is over, also while the manifests are written, *)
(* has missed no steady file of its key.                                   *)
(***************************************************************************)
HitInv == \A w \in Workers : SearchOK(t[w], steady)

\* A step of a request touches no other process.
LEMMA WorkerAlone ==
    ASSUME TypeInv, NEW w \in Workers, WorkerStep(w)
    PROVE  (\A q \in Procs : q # w => t'[q] = t[q]) /\ steady' = steady
  <1>1. w \in Procs
    BY ProcFacts
  <1>2. CASE CheckExists(w) \/ Scan(w)
    BY <1>2, CheckExistsStep, ScanStep
  <1>3. CASE PlaceHit(w) \/ DropKey(w)
    BY <1>3, PlaceHitStep, DropKeyStep
  <1>4. CASE ReadManifest(w) \/ PutManifest(w)
    BY <1>1, <1>4, ReadManifestStep, PutManifestStep
  <1>5. CASE Answer(w)
    BY <1>5, AnswerStep
  <1> QED BY <1>2, <1>3, <1>4, <1>5 DEF WorkerStep

\* Every step keeps HitInv.
LEMMA NextHit == TypeInv /\ HitInv /\ [Next]_vars => HitInv'
  <1> SUFFICES ASSUME TypeInv, HitInv, [Next]_vars PROVE HitInv'
    OBVIOUS
  <1>1. steady \in SUBSET objs /\ Workers \subseteq Procs
    BY ProcFacts DEF TypeInv
  <1>2. ASSUME NEW w \in Workers, WorkerStep(w) \/ \E r \in Requests : Request(w, r)
        PROVE  HitInv'
    <2>1. /\ \A q \in Procs : q # w => t'[q] = t[q]
          /\ steady' = steady
      <3>1. CASE WorkerStep(w)
        BY <3>1, WorkerAlone
      <3>2. ASSUME NEW r \in Requests, Request(w, r)
            PROVE  (\A q \in Procs : q # w => t'[q] = t[q]) /\ steady' = steady
        BY <3>2, RequestStarts
      <3> QED BY <1>2, <3>1, <3>2
    <2>2. SearchOK(t'[w], steady)
      BY <1>1, <1>2, RequestSearches, WorkerSearches DEF HitInv
    <2> QED BY <1>1, <2>1, <2>2 DEF HitInv
  <1>3. ASSUME \A w \in Workers : t'[w] = t[w], steady' \in SUBSET steady
        PROVE  HitInv'
    BY <1>3, FewerObjects DEF HitInv
  <1>4. CASE SyncerStep
    BY <1>1, <1>3, <1>4, ProcFacts, TickStep, ListObjectsStep, RegisterListedStep, CountStep,
       ReadManifestStep, PutManifestStep DEF SyncerStep, SyncStep
  <1>5. CASE BooterStep
    BY <1>1, <1>3, <1>5, ProcFacts, FetchManifestStep, LoadStep, SetReadyStep, ListObjectsStep,
       RegisterListedStep, CountStep, ReadManifestStep, PutManifestStep DEF BooterStep, SyncStep
  <1>6. CASE Environment
    <2>1. ASSUME NEW o \in Objects, Upload(o) \/ Delete(o) PROVE HitInv'
      BY <1>3, <2>1, ChangedStep
    <2>2. CASE Crash
      <3>1. \A w \in Workers : t'[w].pc = "idle"
        BY <2>2, CrashStep, ProcFacts
      <3> QED BY <3>1 DEF HitInv, SearchOK
    <2> QED BY <1>6, <2>1, <2>2 DEF Environment
  <1>7. CASE UNCHANGED vars
    BY <1>7 DEF vars, history, HitInv
  <1> QED BY <1>2, <1>4, <1>5, <1>6, <1>7 DEF Next

LEMMA HitInductive == Spec => []HitInv
  <1>1. Init => HitInv
    <2> SUFFICES ASSUME Init PROVE HitInv
      OBVIOUS
    <2>1. \A w \in Workers : t[w].pc = "idle"
      BY StartingFacts, ProcFacts DEF Init
    <2> QED BY <2>1 DEF HitInv, SearchOK
  <1> QED BY <1>1, TypeInductive, NextHit, PTL DEF Spec

\* What RouteRule says of the answer of w.
RouteAnswer(w) ==
    LET r == t[w].req
        a == t'[w].ans
    IN  /\ a.kind = "found" => a.bucket = r.at
        /\ a.kind = "missing" /\ <<r.at, r.key>> \in steady =>
               \/ where[r.key] # NoBucket /\ where[r.key] < r.at
               \/ r.key \in taken

\* A route is refused by its last lookup only; its search has then hit the file's
\* bucket or a better one, so it is refused for what the catalog says.
LEMMA RouteAnswered ==
    ASSUME TypeInv, TypeInv', Plain, SteadyInv, HitInv, NEW w \in Workers, WorkerStep(w),
           t[w].req.op = "route", t'[w].pc = "idle"
    PROVE  RouteAnswer(w)
  <1> DEFINE r == t[w].req
             k == t[w].req.key
  <1>1. w \in Procs /\ w # Syncer
    BY ProcFacts
  <1>2. t[w].pc # "idle"
    BY <1>1, CheckExistsStep, ScanStep, PlaceHitStep, DropKeyStep, ReadManifestStep,
       PutManifestStep, AnswerStep DEF WorkerStep
  <1>3. r \in Requests
    BY <1>2, PlainRequests
  <1>4. k \in Keys /\ r.at \in Bucket /\ Searched(r) = Bucket
    BY <1>3, RequestFacts
  <1>5. t'[w].req = r
    BY <1>1, CheckExistsStep, ScanStep, PlaceHitStep, DropKeyStep, ReadManifestStep,
       PutManifestStep, AnswerStep DEF WorkerStep
  <1>6. t'[w].ans.kind = "found" => t'[w].ans.bucket = r.at
    BY <1>1, <1>5 DEF TypeInv, LocalOK, WorkerOK
  <1>7. ASSUME t'[w].ans.kind = "missing", <<r.at, k>> \in steady
        PROVE  (where[k] # NoBucket /\ where[k] < r.at) \/ k \in taken
    <2>1. Answer(w)
      BY <1>1, <1>7, CheckExistsStep, ScanStep, PlaceHitStep, DropKeyStep, ReadManifestStep,
         PutManifestStep DEF WorkerStep
    <2>2. t[w].pc = "persisted" /\ (t[w].hit = NoBucket \/ where[k] # r.at)
      BY <1>7, <2>1, AnswerStep
    <2>3. SearchOK(t[w], steady)
      BY DEF HitInv
    <2>4. t[w].hit # NoBucket
      <3>1. PICK o \in steady : o[1] = r.at /\ o[2] = k
        BY <1>7
      <3>2. o[1] \in Searched(r) \ Unvisited(t[w])
        BY <1>4, <2>2, <3>1 DEF Unvisited
      <3> QED BY <2>2, <2>3, <3>1, <3>2 DEF SearchOK
    <2>5. ready
      BY <1>2, SteadyParts
    <2>6. Settled(k)
      BY <1>4, <2>5, SteadyParts DEF Promised
    <2>7. where[k] # NoBucket /\ (where[k] <= r.at \/ k \in taken)
      <3>1. PICK o \in steady : o[1] = r.at /\ o[2] = k
        BY <1>7
      <3> QED BY <2>6, <3>1 DEF Settled
    <2>8. where[k] \in Nat /\ r.at \in Nat
      BY <1>4 DEF TypeInv, Bucket, NoBucket
    <2> QED BY <2>2, <2>4, <2>7, <2>8
  <1> QED BY <1>6, <1>7 DEF RouteAnswer

\* "route/priority mismatch = 404, never serve the wrong bucket's content", in both
\* directions: a route is answered from its own bucket only, and a file that has
\* been there since the process started is refused only while the catalog gives the
\* key to a bucket of better rank, for any number of keys, buckets, requests, syncs,
\* failed calls, changes and restarts.
THEOREM RoutesAreRuled == Spec => RouteRule
  <1>1. ASSUME TypeInv, TypeInv', Plain, SteadyInv, HitInv, [Next]_vars
        PROVE  [\A w \in Workers :
                   LET r == t[w].req
                       a == t'[w].ans
                   IN  ~Idle(w) /\ Idle(w)' /\ r.op = "route" =>
                           /\ a.kind = "found" => a.bucket = r.at
                           /\ a.kind = "missing" /\ <<r.at, r.key>> \in steady =>
                                  \/ where[r.key] # NoBucket /\ where[r.key] < r.at
                                  \/ r.key \in taken]_vars
    <2> SUFFICES ASSUME Next, NEW w \in Workers, t[w].pc # "idle", t'[w].pc = "idle",
                        t[w].req.op = "route"
                 PROVE  RouteAnswer(w)
      BY <1>1 DEF Idle, RouteAnswer
    <2>1. Workers \subseteq Procs /\ w \in Procs /\ w # Syncer /\ w # Booter
      BY ProcFacts
    <2>2. CASE WorkerStep(w)
      BY <1>1, <2>2, RouteAnswered
    <2>3. ASSUME t'[w] = t[w] PROVE FALSE
      BY <2>3
    <2>4. ASSUME NEW v \in Workers, NEW r \in Requests, Request(v, r) PROVE FALSE
      BY <1>1, <2>1, <2>3, <2>4, RequestStarts
    <2>5. ASSUME NEW v \in Workers, WorkerStep(v), v # w PROVE FALSE
      BY <1>1, <2>1, <2>3, <2>5, WorkerAlone
    <2>6. CASE SyncerStep
      BY <1>1, <2>1, <2>3, <2>6, ProcFacts, TickStep, ListObjectsStep, RegisterListedStep,
         CountStep, ReadManifestStep, PutManifestStep DEF SyncerStep, SyncStep
    <2>7. CASE BooterStep
      BY <1>1, <2>1, <2>3, <2>7, ProcFacts, FetchManifestStep, LoadStep, SetReadyStep,
         ListObjectsStep, RegisterListedStep, CountStep, ReadManifestStep, PutManifestStep
         DEF BooterStep, SyncStep
    <2>8. CASE Environment
      <3>1. ASSUME NEW o \in Objects, Upload(o) \/ Delete(o) PROVE FALSE
        BY <1>1, <2>3, <3>1, ChangedStep
      <3>2. CASE Crash
        <4>1. t'[w].ans.kind = "none"
          BY <1>1, <2>1, <3>2, CrashStep
        <4> QED BY <4>1 DEF RouteAnswer
      <3> QED BY <2>8, <3>1, <3>2 DEF Environment
    <2> QED BY <2>2, <2>4, <2>5, <2>6, <2>7, <2>8 DEF Next
  <1> QED BY <1>1, PlainInductive, SteadyInductive, HitInductive, PTL DEF Spec, RouteRule
-----------------------------------------------------------------------------
(***************************************************************************)
(* CalmAnswer.  While a request is calm, every process at work began after *)
(* the last change of the storage, so what it has found is there.          *)
(***************************************************************************)

\* A search since the last change: the file is in the bucket it has hit, and in
\* no bucket before it.
FreshSearch(x) ==
    /\ SearchOK(x, objs)
    /\ x.pc \in {"scan", "read", "put", "persisted"} /\ x.hit # NoBucket =>
          <<x.hit, x.req.key>> \in objs

\* A listing since the last change.
FreshListing(x) ==
    x.pc = "register" => \A k \in x.got : <<Least(x.todo), k>> \in objs

\* A search by visibility places its key in a bucket that need not be the first,
\* and takes it from another request: if there are such requests at all, requests
\* come one by one.
OneByOne == "type" \notin Ops \/ \A v, w \in Workers : v = w

\* Once a calm search has placed its key, the key stays there, or at least in a
\* bucket that has the file.
PlacedOK(x) ==
    x.pc \in {"read", "put", "persisted"} /\ x.hit # NoBucket =>
        IF x.req.op = "type" THEN <<where[x.req.key], x.req.key>> \in objs
        ELSE where[x.req.key] = x.hit

\* CalmAnswer for one request.
RightAnswer(x) ==
    x.pc = "idle" =>
        /\ x.ans.kind = "found" => <<x.ans.bucket, x.req.key>> \in objs
        /\ x.ans.kind = "missing" =>
              IF x.req.op = "route"
              THEN \A b \in Bucket :
                       b = x.req.at /\ b \in Holders(x.req.key) => Least(Holders(x.req.key)) # b
              ELSE Searched(x.req) \cap Holders(x.req.key) = {}

CalmInv ==
    /\ \A w \in Workers \cap fresh : FreshSearch(t[w])
    /\ Syncer \in fresh => FreshListing(t[Syncer])
    /\ calm # {} => ready /\ Busy \subseteq fresh
    /\ \A w \in calm : w \in fresh /\ PlacedOK(t[w]) /\ RightAnswer(t[w])

\* A step of a request leaves it a search since the last change.
LEMMA FreshSearches ==
    ASSUME TypeInv, NEW w \in Workers,
           \/ \E r \in Requests : Request(w, r)
           \/ WorkerStep(w) /\ FreshSearch(t[w])
    PROVE  FreshSearch(t[w])'
  <1>1. w \in Procs /\ w # Syncer
    BY ProcFacts
  <1>2. objs' = objs
    BY <1>1, RequestStarts, CheckExistsStep, ScanStep, PlaceHitStep, DropKeyStep, ReadManifestStep,
       PutManifestStep, AnswerStep DEF WorkerStep
  <1>3. SearchOK(t'[w], objs)
    BY RequestSearches, WorkerSearches DEF FreshSearch
  <1>4. t'[w].pc \in {"scan", "read", "put", "persisted"} /\ t'[w].hit # NoBucket =>
            <<t'[w].hit, t'[w].req.key>> \in objs
    <2>1. ASSUME NEW r \in Requests, Request(w, r)
          PROVE  t'[w].pc = "scan" => t'[w].hit = NoBucket
      BY <2>1, RequestStarts
    <2>2. ASSUME NEW r \in Requests, Request(w, r)
          PROVE  t'[w].pc \in {"scan", "exists"}
      BY <2>2, RequestStarts
    <2>3. CASE CheckExists(w)
      BY <2>3, CheckExistsStep
    <2>4. CASE Scan(w) /\ FreshSearch(t[w])
      <3>1. t'[w].pc = "idle" \/ /\ t[w].pc = "scan" /\ t'[w].pc = "scan" /\ t'[w].req = t[w].req
                                 /\ \/ t'[w].hit = t[w].hit
                                    \/ <<t'[w].hit, t[w].req.key>> \in objs
        BY <2>4, ScanStep
      <3> QED BY <2>4, <3>1 DEF FreshSearch
    <2>5. CASE PlaceHit(w) /\ FreshSearch(t[w])
      <3>1. t[w].pc = "scan" /\ t'[w].req = t[w].req /\ t'[w].hit = t[w].hit
        BY <2>5, PlaceHitStep
      <3> QED BY <2>5, <3>1 DEF FreshSearch
    <2>6. CASE DropKey(w)
      BY <2>6, DropKeyStep
    <2>7. CASE (ReadManifest(w) \/ PutManifest(w)) /\ FreshSearch(t[w])
      <3>1. t[w].pc \in {"read", "put"} /\ t'[w].req = t[w].req /\ t'[w].hit = t[w].hit
        BY <1>1, <2>7, ReadManifestStep, PutManifestStep
      <3> QED BY <2>7, <3>1 DEF FreshSearch
    <2>8. CASE Answer(w)
      BY <2>8, AnswerStep
    <2> QED BY <2>1, <2>2, <2>3, <2>4, <2>5, <2>6, <2>7, <2>8 DEF WorkerStep
  <1> QED BY <1>2, <1>3, <1>4 DEF FreshSearch

\* Two searches of all buckets since the last change find the same one, and it is
\* the first that has the file.
LEMMA FreshHits ==
    ASSUME TypeInv, Plain, NEW w \in Workers, FreshSearch(t[w]),
           t[w].pc \in {"scan", "read", "put", "persisted"}, Unvisited(t[w]) = {}
    PROVE  LET k == t[w].req.key IN
           /\ t[w].hit # NoBucket => t[w].hit \in Holders(k)
           /\ t[w].req.op # "type" =>
                 \A b \in Holders(k) : t[w].hit # NoBucket /\ t[w].hit <= b
           /\ t[w].hit = NoBucket => Searched(t[w].req) \cap Holders(k) = {}
  <1> DEFINE k == t[w].req.key
  <1>1. t[w].req \in Requests /\ t[w].hit \in Bucket \cup {NoBucket}
    BY PlainRequests, ProcFacts DEF TypeInv, LocalState
  <1>2. t[w].hit # NoBucket => t[w].hit \in Holders(k)
    BY <1>1 DEF FreshSearch, Holders
  <1>3. \A b \in Holders(k) \cap Searched(t[w].req) : t[w].hit # NoBucket /\ t[w].hit <= b
    <2> SUFFICES ASSUME NEW b \in Holders(k) \cap Searched(t[w].req)
                 PROVE  t[w].hit # NoBucket /\ t[w].hit <= b
      OBVIOUS
    <2> DEFINE o == <<b, k>>
    <2>1. o \in objs /\ o[1] = b /\ o[2] = k
      BY DEF Holders
    <2> QED BY <2>1 DEF FreshSearch, SearchOK
  <1>4. t[w].req.op # "type" => Holders(k) \subseteq Searched(t[w].req)
    BY <1>1, RequestFacts DEF Holders
  <1> QED BY <1>2, <1>3, <1>4

\* The first of the buckets that have a file, known by its properties.
LEMMA LeastIs ==
    ASSUME NEW S \in SUBSET Bucket, NEW b \in S, \A c \in S : b <= c
    PROVE  Least(S) = b
  <1>1. Least(S) \in S /\ Least(S) <= b
    BY LeastFacts
  <1>2. b <= Least(S) /\ b \in Bucket /\ Least(S) \in Bucket
    BY <1>1
  <1>3. b \in Int /\ Least(S) \in Int
    BY <1>2 DEF Bucket
  <1> QED BY <1>1, <1>2, <1>3

\* A worker's step keeps the placed key of every calm request where it was, if the
\* step is that of a search since the last change.
LEMMA WorkerPlaces ==
    ASSUME TypeInv, Plain, OneByOne, NEW v \in Workers, WorkerStep(v), FreshSearch(t[v]),
           NEW w \in Workers, FreshSearch(t[w]), PlacedOK(t[w])
    PROVE  PlacedOK(t[w])'
  <1>1. v \in Procs /\ w \in Procs /\ w # Syncer
    BY ProcFacts
  <1>2. objs' = objs /\ \A q \in Procs : q # v => t'[q] = t[q]
    BY <1>1, CheckExistsStep, ScanStep, PlaceHitStep, DropKeyStep, ReadManifestStep,
       PutManifestStep, AnswerStep DEF WorkerStep
  <1>3. CASE w # v
    <2>1. t'[w] = t[w]
      BY <1>1, <1>2, <1>3
    <2>2. CASE UNCHANGED where
      BY <1>2, <2>1, <2>2 DEF PlacedOK
    <2> DEFINE k == t[w].req.key
    <2>3. SUFFICES ASSUME t[w].pc \in {"read", "put", "persisted"}, t[w].hit # NoBucket,
                          PlaceHit(v) \/ DropKey(v)
                   PROVE  PlacedOK(t[w])'
      <3>1. PlaceHit(v) \/ DropKey(v) \/ UNCHANGED where
        BY <1>1, CheckExistsStep, ScanStep, ReadManifestStep, PutManifestStep,
           AnswerStep DEF WorkerStep
      <3> QED BY <2>1, <2>2, <2>3, <3>1 DEF PlacedOK
    <2>4. t[w].req \in Requests /\ k \in Keys /\ t[w].hit \in Bucket \cup {NoBucket}
      <3>1. t[w].req \in Requests /\ t[w].hit \in Bucket \cup {NoBucket}
        BY <1>1, <2>3, PlainRequests DEF TypeInv, LocalState
      <3> QED BY <3>1, RequestFacts
    <2>5. "type" \notin Ops
      BY <1>3 DEF OneByOne
    <2>6. t[w].req.op # "type"
      BY <2>4, <2>5, RequestFacts
    <2>7. Unvisited(t[w]) = {}
      BY <2>3 DEF Unvisited
    <2>8. t[w].hit \in Holders(k) /\ \A b \in Holders(k) : t[w].hit <= b
      BY <2>3, <2>6, <2>7, FreshHits
    <2>9. t[v].req \in Requests /\ t[v].pc = "scan" /\ t[v].todo = {}
      BY <2>3, PlaceHitStep, DropKeyStep
    <2>10. t[v].req.op # "type" /\ Unvisited(t[v]) = {}
      BY <2>5, <2>9, RequestFacts DEF Unvisited
    <2>11. CASE t[v].req.key # k
      <3>1. where'[k] = where[k]
        BY <2>3, <2>4, <2>11, PlaceHitStep, DropKeyStep
      <3> QED BY <1>2, <2>1, <2>6, <3>1 DEF PlacedOK
    <2>12. CASE t[v].req.key = k
      <3>1. t[v].hit # NoBucket /\ t[v].hit <= t[w].hit
        BY <2>8, <2>9, <2>10, <2>12, FreshHits
      <3>2. t[v].hit \in Holders(k)
        BY <2>9, <2>10, <2>12, <3>1, FreshHits
      <3>3. t[w].hit <= t[v].hit
        BY <2>8, <3>2
      <3>4. t[v].hit \in Int /\ t[w].hit \in Int
        BY <2>8, <3>2 DEF Holders, Bucket
      <3>5. t[v].hit = t[w].hit
        BY <3>1, <3>3, <3>4
      <3>6. PlaceHit(v)
        BY <2>3, <3>1, DropKeyStep
      <3>7. where'[k] = t[w].hit
        BY <2>12, <3>5, <3>6, PlaceHitStep
      <3> QED BY <1>2, <2>1, <2>6, <3>7 DEF PlacedOK
    <2> QED BY <2>11, <2>12
  <1>4. CASE w = v
    <2>1. CASE PlaceHit(w)
      <3>1. /\ t'[w].req = t[w].req /\ t'[w].hit = t[w].hit /\ where'[t[w].req.key] = t[w].hit
            /\ t[w].pc = "scan" /\ t[w].hit \in Bucket
        BY <2>1, PlaceHitStep
      <3>2. <<t[w].hit, t[w].req.key>> \in objs
        BY <3>1 DEF FreshSearch, Bucket, NoBucket
      <3> QED BY <1>2, <3>1, <3>2 DEF PlacedOK
    <2>2. CASE ReadManifest(w) \/ PutManifest(w)
      <3>1. /\ t[w].pc \in {"read", "put"} /\ t'[w].req = t[w].req /\ t'[w].hit = t[w].hit
            /\ UNCHANGED where
        BY <1>1, <2>2, ReadManifestStep, PutManifestStep
      <3> QED BY <1>2, <3>1 DEF PlacedOK
    <2>3. CASE CheckExists(w) \/ Scan(w) \/ DropKey(w) \/ Answer(w)
      <3>1. t'[w].pc \in {"idle", "scan"} \/ t'[w].hit = NoBucket
        BY <2>3, CheckExistsStep, ScanStep, DropKeyStep, AnswerStep
      <3> QED BY <3>1 DEF PlacedOK
    <2> QED BY <1>4, <2>1, <2>2, <2>3 DEF WorkerStep
  <1> QED BY <1>3, <1>4

\* So does a step of the periodic sync whose listing is no older than that.
LEMMA SyncPlaces ==
    ASSUME TypeInv, Plain, SyncStep(Syncer), FreshListing(t[Syncer]),
           NEW w \in Workers, FreshSearch(t[w]), PlacedOK(t[w])
    PROVE  PlacedOK(t[w])'
  <1>1. w \in Procs /\ w # Syncer /\ Syncer \in Procs
    BY ProcFacts
  <1>2. objs' = objs /\ t'[w] = t[w]
    BY <1>1, ListObjectsStep, RegisterListedStep, CountStep, ReadManifestStep,
       PutManifestStep DEF SyncStep
  <1>3. CASE UNCHANGED where
    BY <1>2, <1>3 DEF PlacedOK
  <1>4. CASE RegisterListed(Syncer)
    <2> DEFINE b == Least(t[Syncer].todo)
               k == t[w].req.key
    <2>1. PICK j \in t[Syncer].got :
              j \in Keys /\ (UNCHANGED where \/ Cat!Claim(j, b))
      BY <1>4, RegisterListedStep
    <2>2. t[Syncer].pc = "register" /\ t[Syncer].todo # {}
      BY <1>4, RegisterListedStep
    <2>3. b \in Bucket /\ <<b, j>> \in objs
      <3>1. t[Syncer].todo \subseteq Bucket
        BY <1>1 DEF TypeInv, LocalState
      <3> QED BY <2>2, <3>1, LeastFacts DEF FreshListing
    <2> HIDE DEF b
    <2>4. SUFFICES ASSUME Cat!Claim(j, b), t[w].pc \in {"read", "put", "persisted"},
                          t[w].hit # NoBucket
                   PROVE  PlacedOK(t[w])'
      BY <1>2, <1>3, <2>1 DEF PlacedOK
    <2>5. t[w].req \in Requests /\ k \in Keys
      <3>1. t[w].req \in Requests
        BY <2>4, PlainRequests
      <3> QED BY <3>1, RequestFacts
    <2>6. /\ \A i \in Keys : i # j => where'[i] = where[i]
          /\ where'[j] <= b /\ where'[j] \in {where[j], b}
          /\ where[j] # NoBucket => where'[j] <= where[j]
      BY <2>1, <2>3, <2>4, ClaimFacts
    <2>7. CASE k # j
      BY <1>2, <2>5, <2>6, <2>7 DEF PlacedOK
    <2>8. CASE k = j /\ t[w].req.op = "type"
      BY <1>2, <2>3, <2>4, <2>6, <2>8 DEF PlacedOK
    <2>9. CASE k = j /\ t[w].req.op # "type"
      <3>1. Unvisited(t[w]) = {} /\ b \in Holders(k)
        BY <2>3, <2>4, <2>9 DEF Unvisited, Holders
      <3>2. t[w].hit \in Holders(k) /\ t[w].hit <= b
        BY <2>4, <2>9, <3>1, FreshHits
      <3>3. where[k] = t[w].hit
        BY <2>4, <2>9 DEF PlacedOK
      <3>4. t[w].hit \in Int /\ b \in Int
        BY <2>3, <3>2 DEF Holders, Bucket
      <3>5. where'[k] = t[w].hit
        BY <2>4, <2>6, <2>9, <3>2, <3>3, <3>4
      <3> QED BY <1>2, <2>9, <3>5 DEF PlacedOK
    <2> QED BY <2>7, <2>8, <2>9
  <1> QED BY <1>1, <1>3, <1>4, ListObjectsStep, CountStep, ReadManifestStep,
             PutManifestStep DEF SyncStep

\* The answer of a calm request is right when it is given.
LEMMA WorkerAnswers ==
    ASSUME TypeInv, Plain, NEW w \in Workers, WorkerStep(w), FreshSearch(t[w]), PlacedOK(t[w])
    PROVE  RightAnswer(t[w])'
  <1>1. w \in Procs /\ w # Syncer
    BY ProcFacts
  <1>2. objs' = objs
    BY <1>1, CheckExistsStep, ScanStep, PlaceHitStep, DropKeyStep, ReadManifestStep,
       PutManifestStep, AnswerStep DEF WorkerStep
  <1> DEFINE r == t[w].req
             k == t[w].req.key
  <1>3. SUFFICES ASSUME t'[w].pc = "idle"
                 PROVE  /\ t'[w].req = r
                        /\ t'[w].ans.kind = "found" => <<t'[w].ans.bucket, k>> \in objs
                        /\ t'[w].ans.kind = "missing" =>
                              IF r.op = "route"
                              THEN \A b \in Bucket :
                                       b = r.at /\ b \in Holders(k) => Least(Holders(k)) # b
                              ELSE Searched(r) \cap Holders(k) = {}
    BY <1>2 DEF RightAnswer, Holders
  <1>4. CASE CheckExists(w)
    BY <1>3, <1>4, CheckExistsStep
  <1>5. CASE Scan(w)
    BY <1>3, <1>5, ScanStep
  <1>6. CASE DropKey(w)
    <2>1. /\ t[w].pc = "scan" /\ t[w].todo = {} /\ t[w].hit = NoBucket /\ t'[w].req = r
          /\ r.op = "type" /\ t'[w].ans.kind = "missing"
      BY <1>3, <1>6, DropKeyStep
    <2>2. Unvisited(t[w]) = {}
      BY <2>1 DEF Unvisited
    <2>3. Searched(r) \cap Holders(k) = {}
      BY <2>1, <2>2, FreshHits
    <2> QED BY <2>1, <2>3
  <1>7. CASE Answer(w)
    <2>1. /\ t[w].pc = "persisted" /\ r \in Requests /\ t'[w].req = r
          /\ t'[w].ans.kind = "found" =>
                t[w].hit # NoBucket /\ t'[w].ans.bucket = where[k]
          /\ t'[w].ans.kind = "missing" =>
                t[w].hit = NoBucket \/ (r.op = "route" /\ where[k] # r.at)
      BY <1>7, AnswerStep, PlainRequests
    <2>2. Unvisited(t[w]) = {}
      BY <2>1 DEF Unvisited
    <2>3. t[w].hit # NoBucket => <<where[k], k>> \in objs
      BY <2>1 DEF PlacedOK, FreshSearch
    <2>4. CASE t[w].hit = NoBucket
      <3>1. Searched(r) \cap Holders(k) = {}
        BY <2>1, <2>2, <2>4, FreshHits
      <3>2. r.op = "route" => Searched(r) = Bucket
        BY <2>1, RequestFacts
      <3> QED BY <2>1, <2>4, <3>1, <3>2
    <2>5. CASE t[w].hit # NoBucket
      <3>1. ASSUME r.op = "route", where[k] # r.at
            PROVE  Least(Holders(k)) # r.at
        <4>1. where[k] = t[w].hit
          BY <2>1, <2>5, <3>1 DEF PlacedOK
        <4>2. t[w].hit \in Holders(k) /\ \A b \in Holders(k) : t[w].hit <= b
          BY <2>1, <2>2, <2>5, <3>1, FreshHits
        <4>3. Least(Holders(k)) = t[w].hit
          BY <4>2, LeastIs DEF Holders
        <4> QED BY <3>1, <4>1, <4>3
      <3> QED BY <2>1, <2>3, <2>5, <3>1
    <2> QED BY <2>4, <2>5
  <1> QED BY <1>1, <1>3, <1>4, <1>5, <1>6, <1>7, PlaceHitStep, ReadManifestStep,
             PutManifestStep DEF WorkerStep

\* The parts of CalmInv.
LEMMA CalmParts ==
    ASSUME CalmInv
    PROVE  /\ \A w \in Workers \cap fresh : FreshSearch(t[w])
           /\ Syncer \in fresh => FreshListing(t[Syncer])
           /\ calm # {} => ready /\ Busy \subseteq fresh
           /\ \A w \in calm : w \in fresh /\ PlacedOK(t[w]) /\ RightAnswer(t[w])
  BY DEF CalmInv

\* A process at work that takes a step adds none to those at work.
LEMMA StillBusy ==
    ASSUME NEW p \in Procs, t[p].pc \notin {"idle", "up", "down"},
           \A q \in Procs : q # p => t'[q] = t[q]
    PROVE  Busy' \subseteq Busy /\ p \in Busy
  BY DEF Busy

\* A request that begins keeps CalmInv.
LEMMA RequestCalm ==
    ASSUME TypeInv, SteadyInv, CalmInv, NEW w \in Workers, NEW r \in Requests, Request(w, r)
    PROVE  CalmInv'
  <1>1. w \in Procs /\ w # Syncer /\ Workers \subseteq Procs /\ Syncer \in Procs
    BY ProcFacts
  <1>2. /\ ready /\ t'[w].pc \in {"scan", "exists"}
        /\ \A q \in Procs : q # w => t'[q] = t[q]
        /\ fresh' = fresh \cup {w}
        /\ calm' = IF Busy \subseteq fresh THEN calm \cup {w} ELSE calm \ {w}
        /\ UNCHANGED <<where, objs, ready>>
    BY RequestStarts
  <1>3. FreshSearch(t[w])'
    BY FreshSearches
  <1>4. \A v \in (Workers \cap fresh)' : FreshSearch(t[v])'
    <2>1. \A v \in Workers \cap fresh : v # w => FreshSearch(t[v])'
      BY <1>1, <1>2, CalmParts DEF FreshSearch
    <2> QED BY <1>2, <1>3, <2>1
  <1>5. (Syncer \in fresh => FreshListing(t[Syncer]))'
    BY <1>1, <1>2, CalmParts DEF FreshListing
  <1>6. (calm # {} => ready /\ Busy \subseteq fresh)'
    <2>1. CASE Busy \subseteq fresh
      <3>1. Busy' \subseteq Busy \cup {w}
        BY <1>2 DEF Busy
      <3> QED BY <1>2, <2>1, <3>1
    <2>2. CASE ~(Busy \subseteq fresh)
      BY <1>2, <2>2, CalmParts
    <2> QED BY <2>1, <2>2
  <1>7. \A v \in calm' : v \in fresh' /\ PlacedOK(t[v])' /\ RightAnswer(t[v])'
    <2>1. PlacedOK(t[w])' /\ RightAnswer(t[w])'
      BY <1>2 DEF PlacedOK, RightAnswer
    <2>2. ASSUME NEW v \in calm, v # w
          PROVE  v \in fresh' /\ PlacedOK(t[v])' /\ RightAnswer(t[v])'
      <3>1. v \in fresh /\ PlacedOK(t[v]) /\ RightAnswer(t[v])
        BY CalmParts
      <3>2. t'[v] = t[v]
        BY <1>1, <1>2, <2>2 DEF TypeInv
      <3>3. PlacedOK(t[v])'
        BY <1>2, <3>1, <3>2 DEF PlacedOK
      <3>4. RightAnswer(t[v])'
        BY <1>2, <3>1, <3>2 DEF RightAnswer, Holders
      <3> QED BY <1>2, <3>1, <3>3, <3>4
    <2> QED BY <1>2, <2>1, <2>2
  <1> QED BY <1>4, <1>5, <1>6, <1>7 DEF CalmInv

\* A step of a request keeps CalmInv.
LEMMA WorkerCalm ==
    ASSUME TypeInv, Plain, SteadyInv, CalmInv, OneByOne, NEW w \in Workers, WorkerStep(w)
    PROVE  CalmInv'
  <1>1. w \in Procs /\ w # Syncer /\ Workers \subseteq Procs /\ Syncer \in Procs
    BY ProcFacts
  <1>2. /\ t[w].pc \notin {"idle", "up", "down"}
        /\ \A q \in Procs : q # w => t'[q] = t[q]
        /\ UNCHANGED <<objs, ready, fresh, calm>>
    BY <1>1, CheckExistsStep, ScanStep, PlaceHitStep, DropKeyStep, ReadManifestStep,
       PutManifestStep, AnswerStep DEF WorkerStep
  <1>3. \A v \in (Workers \cap fresh)' : FreshSearch(t[v])'
    <2>1. w \in fresh => FreshSearch(t[w])'
      BY CalmParts, FreshSearches
    <2>2. \A v \in Workers \cap fresh : v # w => FreshSearch(t[v])'
      BY <1>1, <1>2, CalmParts DEF FreshSearch
    <2> QED BY <1>2, <2>1, <2>2
  <1>4. (Syncer \in fresh => FreshListing(t[Syncer]))'
    BY <1>1, <1>2, CalmParts DEF FreshListing
  <1>5. Busy' \subseteq Busy /\ w \in Busy
    BY <1>1, <1>2, StillBusy
  <1>6. (calm # {} => ready /\ Busy \subseteq fresh)'
    BY <1>2, <1>5, CalmParts
  <1>7. ASSUME NEW v \in calm
        PROVE  v \in fresh' /\ PlacedOK(t[v])' /\ RightAnswer(t[v])'
    <2>1. v \in Workers /\ v \in fresh /\ PlacedOK(t[v]) /\ RightAnswer(t[v])
      BY CalmParts DEF TypeInv
    <2>2. FreshSearch(t[v]) /\ FreshSearch(t[w])
      BY <1>5, <2>1, CalmParts
    <2>3. PlacedOK(t[v])'
      BY <2>1, <2>2, WorkerPlaces
    <2>4. RightAnswer(t[v])'
      <3>1. CASE v = w
        BY <2>1, <2>2, <3>1, WorkerAnswers
      <3>2. CASE v # w
        <4>1. t'[v] = t[v]
          BY <1>1, <1>2, <2>1, <3>2
        <4> QED BY <1>2, <2>1, <4>1 DEF RightAnswer, Holders
      <3> QED BY <3>1, <3>2
    <2> QED BY <1>2, <2>1, <2>3, <2>4
  <1> QED BY <1>2, <1>3, <1>4, <1>6, <1>7 DEF CalmInv

\* A step of the periodic sync keeps CalmInv.
LEMMA SyncerCalm ==
    ASSUME TypeInv, Plain, SteadyInv, CalmInv, SyncerStep
    PROVE  CalmInv'
  <1>1. Workers \subseteq Procs /\ Syncer \in Procs /\ Syncer \notin Workers
    BY ProcFacts
  <1>2. (\A q \in Procs : q # Syncer => t'[q] = t[q]) /\ UNCHANGED <<objs, ready, calm>>
    BY <1>1, TickStep, ListObjectsStep, RegisterListedStep, CountStep, ReadManifestStep,
       PutManifestStep DEF SyncerStep, SyncStep
  <1>3. /\ fresh' \ {Syncer} = fresh \ {Syncer} /\ fresh \subseteq fresh'
        /\ Busy \subseteq fresh => Busy' \subseteq fresh'
    <2>1. CASE Tick
      <3>1. fresh' = fresh \cup {Syncer}
        BY <2>1, TickStep
      <3>2. Busy' \subseteq Busy \cup {Syncer}
        BY <1>2 DEF Busy
      <3> QED BY <3>1, <3>2
    <2>2. CASE SyncStep(Syncer)
      <3>1. t[Syncer].pc \notin {"idle", "up", "down"} /\ fresh' = fresh
        BY <1>1, <2>2, ListObjectsStep, RegisterListedStep, CountStep, ReadManifestStep,
           PutManifestStep DEF SyncStep
      <3> QED BY <1>1, <1>2, <3>1, StillBusy
    <2> QED BY <2>1, <2>2 DEF SyncerStep
  <1>4. \A v \in (Workers \cap fresh)' : FreshSearch(t[v])'
    <2>1. \A v \in Workers \cap fresh : FreshSearch(t[v])'
      BY <1>1, <1>2, CalmParts DEF FreshSearch
    <2> QED BY <1>1, <1>3, <2>1
  <1>5. (Syncer \in fresh => FreshListing(t[Syncer]))'
    <2>1. CASE Tick
      BY <2>1, TickStep DEF FreshListing
    <2>2. CASE ListObjects(Syncer)
      <3> DEFINE b == Least(t[Syncer].todo)
      <3>1. t'[Syncer].pc = "register" =>
                /\ t'[Syncer].todo = t[Syncer].todo
                /\ t'[Syncer].got = {k \in Keys : <<b, k>> \in objs}
        BY <2>2, ListObjectsStep
      <3> QED BY <1>2, <3>1 DEF FreshListing
    <2>3. CASE RegisterListed(Syncer)
      <3>1. PICK k \in t[Syncer].got :
                /\ t'[Syncer].got = t[Syncer].got \ {k}
                /\ t[Syncer].got \ {k} # {} => t'[Syncer].todo = t[Syncer].todo
        BY <2>3, RegisterListedStep
      <3>2. t[Syncer].pc = "register" /\ fresh' = fresh
        BY <2>3, RegisterListedStep
      <3> QED BY <1>2, <3>1, <3>2, CalmParts DEF FreshListing
    <2>4. CASE CountDuplicates(Syncer) \/ ReadManifest(Syncer) \/ PutManifest(Syncer)
      <3>1. t'[Syncer].pc # "register"
        BY <1>1, <2>4, CountStep, ReadManifestStep, PutManifestStep
      <3> QED BY <3>1 DEF FreshListing
    <2> QED BY <2>1, <2>2, <2>3, <2>4 DEF SyncerStep, SyncStep
  <1>6. (calm # {} => ready /\ Busy \subseteq fresh)'
    BY <1>2, <1>3, CalmParts
  <1>7. ASSUME NEW v \in calm
        PROVE  v \in fresh' /\ PlacedOK(t[v])' /\ RightAnswer(t[v])'
    <2>1. v \in Workers /\ v \in fresh /\ PlacedOK(t[v]) /\ RightAnswer(t[v])
      BY CalmParts DEF TypeInv
    <2>2. FreshSearch(t[v]) /\ t'[v] = t[v]
      BY <1>1, <1>2, <2>1, CalmParts
    <2>3. PlacedOK(t[v])'
      <3>1. CASE Tick
        <4>1. UNCHANGED where
          BY <3>1, TickStep
        <4> QED BY <1>2, <2>1, <2>2, <4>1 DEF PlacedOK
      <3>2. CASE SyncStep(Syncer)
        <4>1. t[Syncer].pc \notin {"idle", "up", "down"}
          BY <1>1, <3>2, ListObjectsStep, RegisterListedStep, CountStep, ReadManifestStep,
             PutManifestStep DEF SyncStep
        <4>2. FreshListing(t[Syncer])
          BY <1>1, <1>2, <4>1, CalmParts, StillBusy
        <4> QED BY <2>1, <2>2, <3>2, <4>2, SyncPlaces
      <3> QED BY <3>1, <3>2 DEF SyncerStep
    <2>4. RightAnswer(t[v])'
      BY <1>2, <2>1, <2>2 DEF RightAnswer, Holders
    <2> QED BY <1>3, <2>1, <2>3, <2>4
  <1> QED BY <1>2, <1>4, <1>5, <1>6, <1>7 DEF CalmInv

\* There is no calm request during the bootstrap.
LEMMA BooterCalm ==
    ASSUME TypeInv, SteadyInv, CalmInv, BooterStep
    PROVE  CalmInv'
  <1>1. Workers \subseteq Procs /\ Syncer \in Procs /\ Booter \in Procs /\ Syncer # Booter
        /\ Booter \notin Workers
    BY ProcFacts
  <1>2. /\ t[Booter].pc # "up"
        /\ \A q \in Procs : q # Booter => t'[q] = t[q]
        /\ UNCHANGED <<objs, fresh, calm>>
    BY <1>1, FetchManifestStep, LoadStep, SetReadyStep, ListObjectsStep, RegisterListedStep,
       CountStep, ReadManifestStep, PutManifestStep DEF BooterStep, SyncStep
  <1>3. calm = {}
    BY <1>2, CalmParts, SteadyParts
  <1>4. \A v \in (Workers \cap fresh)' : FreshSearch(t[v])'
    BY <1>1, <1>2, CalmParts DEF FreshSearch
  <1>5. (Syncer \in fresh => FreshListing(t[Syncer]))'
    BY <1>1, <1>2, CalmParts DEF FreshListing
  <1> QED BY <1>2, <1>3, <1>4, <1>5 DEF CalmInv

\* After a change of the storage, and after a restart, nothing is calm or fresh.
LEMMA EnvironmentCalm ==
    ASSUME TypeInv, Environment
    PROVE  CalmInv'
  <1>1. calm' = {} /\ (fresh' = {} \/ fresh' = {Booter})
    BY ChangedStep, CrashStep DEF Environment
  <1>2. (Workers \cap fresh)' = {} /\ Syncer \notin fresh'
    BY <1>1, ProcFacts
  <1> QED BY <1>1, <1>2 DEF CalmInv

\* Every step keeps CalmInv.
LEMMA NextCalm ==
    ASSUME OneByOne
    PROVE  TypeInv /\ Plain /\ SteadyInv /\ CalmInv /\ [Next]_vars => CalmInv'
  <1> SUFFICES ASSUME TypeInv, Plain, SteadyInv, CalmInv, [Next]_vars PROVE CalmInv'
    OBVIOUS
  <1>1. CASE UNCHANGED vars
    <2>1. UNCHANGED <<where, objs, ready, t, fresh, calm>>
      BY <1>1 DEF vars, history
    <2>2. \A w \in Workers \cap fresh : FreshSearch(t[w])'
      BY <2>1, CalmParts DEF FreshSearch
    <2>3. (Syncer \in fresh => FreshListing(t[Syncer]))'
      BY <2>1, CalmParts DEF FreshListing
    <2>4. Busy' = Busy
      BY <2>1 DEF Busy
    <2>5. \A w \in calm : w \in fresh' /\ PlacedOK(t[w])' /\ RightAnswer(t[w])'
      BY <2>1, CalmParts DEF PlacedOK, RightAnswer, Holders
    <2> QED BY <2>1, <2>2, <2>3, <2>4, <2>5, CalmParts DEF CalmInv
  <1> QED BY <1>1, RequestCalm, WorkerCalm, SyncerCalm, BooterCalm, EnvironmentCalm DEF Next

\* Nothing is calm at the start.
LEMMA InitCalm == Init => CalmInv
  <1> SUFFICES ASSUME Init PROVE CalmInv
    OBVIOUS
  <1>1. calm = {} /\ Workers \cap fresh = {} /\ Syncer \notin fresh
    BY ProcFacts DEF Init
  <1> QED BY <1>1 DEF CalmInv

\* A request that overlaps no change of the storage, and no operation begun before
\* the last change, is answered rightly, whatever other requests and syncs work on
\* the same key and however stale the catalog was.  Without OneByOne this is false:
\* a GET /private/<key> takes the key from an overlapping GET /<bucket>/<key>.
THEOREM CalmAnswersAreRight ==
    ASSUME OneByOne
    PROVE  Spec => []CalmAnswer
  <1>1. CalmInv => CalmAnswer
    BY DEF CalmInv, CalmAnswer, RightAnswer, Idle
  <1>2. TypeInv /\ Plain /\ SteadyInv /\ CalmInv /\ [Next]_vars => CalmInv'
    BY NextCalm
  <1> QED BY PlainInductive, SteadyInductive, InitCalm, <1>1, <1>2, PTL DEF Spec
=============================================================================
