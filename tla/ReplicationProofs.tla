-------------------------- MODULE ReplicationProofs --------------------------
(***************************************************************************)
(* Proofs about modules Maintenance and Replication: what a cleanup, the   *)
(* restore of a snapshot and a pull have done when they end, for any keys, *)
(* buckets and ranks and any number of changes, failed calls and jobs.     *)
(***************************************************************************)
EXTENDS Replication, WellFoundedInduction, TLAPS

Jobs == {"exec", "snap"}
Times == 0 .. MaxTime
Items == [at : Bucket, key : Keys, lm : Times]

\* The catalog and the storage.
DataInv ==
    /\ where \in [Keys -> Bucket \cup {NoBucket}]
    /\ stamp \in [Keys -> Times]
    /\ \A k \in Keys : where[k] = NoBucket => stamp[k] = 0
    /\ objs \in [Bucket -> [Keys -> Times]]
    /\ mtime \in [Bucket -> [Keys -> Times]]
    /\ clock \in 1 .. MaxTime

\* The jobs.  A victim is to do, has failed or is done.
JobInv ==
    /\ exec \in [pc : {"idle", "delete", "remove"}, at : {exec.at},
                 todo : SUBSET Keys, failed : SUBSET Keys]
    /\ DOMAIN exec.at \subseteq Keys
    /\ \A k \in DOMAIN exec.at : exec.at[k] \in Bucket
    /\ exec.todo \cup exec.failed \subseteq DOMAIN exec.at
    /\ exec.todo \cap exec.failed = {}
    /\ exec.pc = "remove" => exec.todo # {}
    /\ snap \in [pc : {"idle", "capture", "captured", "load"},
                 todo : {snap.todo}, doc : SUBSET Items]
    /\ snap.pc = "capture" => snap.todo \subseteq Bucket
    /\ snap.pc = "load" => snap.todo \subseteq Items
    /\ DOMAIN before = Jobs
    /\ touched \in [Jobs -> SUBSET Keys]

\* The remote and the pull.
RemoteInv ==
    /\ remote \in [Keys -> Times] /\ listing \in [Keys -> Times]
    /\ asked \in [Keys -> Times]
    /\ pull \in [pc : {"idle", "entry", "get", "follow", "put", "register"},
                 todo : SUBSET Keys, body : Times, failed : SUBSET Keys]
    /\ pull.todo \cap pull.failed = {}
    /\ pull.pc \in {"get", "follow", "put", "register"} => pull.todo # {}

\* A running cleanup: what nobody else changed is as it was planned, but for the
\* victims that are done and the object whose entry is still to be removed.
Removed == DOMAIN exec.at \ (exec.todo \cup exec.failed)
Erased == Removed \cup (IF exec.pc = "remove" THEN {First(exec.todo)} ELSE {})
ExecInv ==
    exec.pc # "idle" =>
        \A k \in Keys \ touched["exec"] :
            /\ where[k] = IF k \in Removed THEN NoBucket ELSE before["exec"].where[k]
            /\ \A b \in Bucket :
                  objs[b][k] = IF k \in Erased /\ b = exec.at[k] THEN 0
                               ELSE before["exec"].objs[b][k]

\* The entry of k when the capture began, as an item of the document.
Entry(k) == [at |-> before["snap"].where[k], key |-> k, lm |-> before["snap"].stamp[k]]
Kept(k) == where[k] = before["snap"].where[k] /\ stamp[k] = before["snap"].stamp[k]

\* The document and the items to restore have that entry of a key, and no other.
SnapKey(k) ==
    /\ Entry(k).at = NoBucket => Entry(k).lm = 0
    /\ snap.pc = "capture" => Kept(k)
    /\ snap.pc \in {"capture", "captured"} => \A x \in snap.doc : x.key = k => x = Entry(k)
    /\ snap.pc = "capture" /\ Entry(k).at \notin snap.todo \cup {NoBucket} => Entry(k) \in snap.doc
    /\ snap.pc = "captured" /\ Entry(k).at # NoBucket => Entry(k) \in snap.doc
    /\ snap.pc = "load" =>
          /\ \A x \in snap.todo : x.key = k => x = Entry(k)
          /\ IF Entry(k) \in snap.todo THEN where[k] = NoBucket ELSE Kept(k)
SnapInv ==
    snap.pc # "idle" => \A k \in Keys \ touched["snap"] : SnapKey(k)

\* The entries for Target, in the catalog and in a snapshot, are backed by what
\* the pulls stored there; no later content has a smaller time.
Pulled == Keys \ (deleted \cup restamped)
Document == snap.doc \cup (IF snap.pc = "load" THEN snap.todo ELSE {})
Backed(k) ==
    /\ where[k] = Target => stamp[k] <= objs[Target][k]
    /\ \A x \in Document : x.key = k /\ x.at = Target => x.lm <= objs[Target][k]
PullKey(k) ==
    /\ Backed(k)
    /\ objs[Target][k] <= clock /\ listing[k] <= clock /\ remote[k] <= clock
    /\ remote[k] # 0 => objs[Target][k] <= remote[k] /\ listing[k] <= remote[k]
    /\ asked[k] <= listing[k]
    /\ pull.pc = "idle" => asked[k] = 0
    /\ pull.pc = "put" /\ k = Current => objs[Target][k] <= pull.body /\ asked[k] <= pull.body
                                         /\ pull.body <= clock
                                         /\ (remote[k] # 0 => pull.body <= remote[k])
    /\ pull.pc = "register" /\ k = Current => asked[k] <= objs[Target][k]
    /\ k \notin pull.todo => Delivered(k)
PullInv == \A k \in Pulled : PullKey(k)

IndInv == DataInv /\ JobInv /\ RemoteInv /\ ExecInv /\ SnapInv /\ PullInv
-----------------------------------------------------------------------------
(***************************************************************************)
(* The operators of the model.                                             *)
(***************************************************************************)

\* A set of numbers that is not empty has a first one.
LEMMA FirstFacts ==
    ASSUME NEW S \in SUBSET Nat, S # {}
    PROVE  First(S) \in S /\ \A c \in S : First(S) <= c
  <1> DEFINE R == OpToRel(<, Nat)
  <1>1. PICK b \in S : \A c \in S : ~(<<c, b>> \in R)
    BY NatLessThanWellFounded, WFMin
  <1>2. \A c \in S : ~(c < b)
    BY <1>1 DEF OpToRel
  <1>3. \A c \in S : b <= c
    BY <1>2
  <1> QED BY <1>3 DEF First

\* The items of a document have a next one.
LEMMA NextItemFacts ==
    ASSUME NEW S \in SUBSET Items, S # {}
    PROVE  NextItem(S) \in S
  <1> DEFINE B == {x.at : x \in S}
             K == {x.key : x \in {y \in S : y.at = First(B)}}
  <1>1. \A x \in S : x.at \in Nat /\ x.key \in Nat
    BY MaintenanceAssumption DEF Items
  <1>2. First(B) \in B /\ \A c \in B : First(B) <= c
    <2>1. B \in SUBSET Nat /\ B # {}
      BY <1>1
    <2> QED BY <2>1, FirstFacts
  <1>3. First(K) \in K /\ \A c \in K : First(K) <= c
    <2>1. K \in SUBSET Nat /\ K # {}
      BY <1>1, <1>2
    <2> QED BY <2>1, FirstFacts
  <1>4. PICK x \in S : x.at = First(B) /\ x.key = First(K)
    BY <1>3
  <1>5. \A y \in S : x.at < y.at \/ (x.at = y.at /\ x.key <= y.key)
    <2> SUFFICES ASSUME NEW y \in S, y.at # x.at PROVE x.at < y.at
      BY <1>3, <1>4
    <2>1. x.at <= y.at
      BY <1>2, <1>4
    <2> QED BY <1>1, <2>1
  <1> QED BY <1>5 DEF NextItem

\* Catalog.Register, Set and Remove change one entry.
LEMMA EntryFacts ==
    ASSUME DataInv, NEW k \in Keys, NEW b \in Bucket, NEW lm \in Times,
           Register(k, b, lm) \/ Set(k, b, lm) \/ Remove(k)
    PROVE  /\ where' \in [Keys -> Bucket \cup {NoBucket}]
           /\ stamp' \in [Keys -> Times]
           /\ \A j \in Keys : where'[j] = NoBucket => stamp'[j] = 0
           /\ \A j \in Keys \ {k} : where'[j] = where[j] /\ stamp'[j] = stamp[j]
           /\ Register(k, b, lm) =>
                 \/ where[k] # NoBucket /\ where'[k] = where[k] /\ stamp'[k] = stamp[k]
                 \/ where'[k] = b /\ stamp'[k] = lm
           /\ Remove(k) => where'[k] = NoBucket
  <1>1. CASE Register(k, b, lm)
    <2>1. CASE where[k] # NoBucket /\ Priority[where[k]] < Priority[b]
      <3>1. where' = where /\ stamp' = stamp
        BY <1>1, <2>1 DEF Register, Registered, Cat!Claim, Cat!Registered
      <3>2. Remove(k) => where'[k] = NoBucket
        BY DEF Remove, Cat!Drop, DataInv
      <3> QED BY <2>1, <3>1, <3>2 DEF DataInv
    <2>2. CASE ~(where[k] # NoBucket /\ Priority[where[k]] < Priority[b])
      <3>1. where' = [where EXCEPT ![k] = b] /\ stamp' = [stamp EXCEPT ![k] = lm]
        BY <1>1, <2>2 DEF Register, Registered, Cat!Claim, Cat!Registered
      <3>2. Remove(k) => where'[k] = NoBucket
        BY DEF Remove, Cat!Drop, DataInv
      <3>3. b # NoBucket
        BY MaintenanceAssumption
      <3> QED BY <3>1, <3>2, <3>3 DEF DataInv
    <2> QED BY <2>1, <2>2
  <1>2. CASE ~Register(k, b, lm) /\ Set(k, b, lm)
    <2>1. where' = [where EXCEPT ![k] = b] /\ stamp' = [stamp EXCEPT ![k] = lm]
      BY <1>2 DEF Set, Cat!Place
    <2>2. Remove(k) => where'[k] = NoBucket
      BY DEF Remove, Cat!Drop, DataInv
    <2>3. b # NoBucket
      BY MaintenanceAssumption
    <2> QED BY <1>2, <2>1, <2>2, <2>3 DEF DataInv
  <1>3. CASE ~Register(k, b, lm) /\ Remove(k)
    <2>1. where' = [where EXCEPT ![k] = NoBucket] /\ stamp' = [stamp EXCEPT ![k] = 0]
      BY <1>3 DEF Remove, Cat!Drop
    <2>2. 0 \in Times
      BY MaintenanceAssumption DEF Times
    <2> QED BY <1>3, <2>1, <2>2 DEF DataInv
  <1> QED BY <1>1, <1>2, <1>3

\* A change is noted for the jobs that are running, but for the one that makes it.
LEMMA TouchFacts ==
    ASSUME JobInv, NEW ks \in SUBSET Keys, NEW j, Touch(ks, j)
    PROVE  /\ touched' \in [Jobs -> SUBSET Keys]
           /\ \A i \in Jobs : touched[i] \subseteq touched'[i]
           /\ \A i \in Jobs : i = j => touched'[i] = touched[i]
           /\ exec.pc # "idle" /\ j # "exec" => ks \subseteq touched'["exec"]
           /\ snap.pc \in {"capture", "load"} /\ j # "snap" => ks \subseteq touched'["snap"]
           /\ snap.pc \notin {"capture", "load"} => touched'["snap"] = touched["snap"]
  <1>1. touched' = [i \in Jobs |-> IF i \in Running \ {j} THEN touched[i] \cup ks ELSE touched[i]]
    BY DEF Touch, JobInv
  <1>2. /\ "exec" \in Running <=> exec.pc # "idle"
        /\ "snap" \in Running <=> snap.pc \in {"capture", "load"}
    BY DEF Running
  <1>3. touched \in [Jobs -> SUBSET Keys] /\ "exec" \in Jobs /\ "snap" \in Jobs
    BY DEF JobInv, Jobs
  <1> QED BY <1>1, <1>2, <1>3

\* A PUT is noted for a running cleanup.
LEMMA StoredFacts ==
    ASSUME JobInv, NEW k \in Keys, Stored(k)
    PROVE  /\ touched' \in [Jobs -> SUBSET Keys]
           /\ \A i \in Jobs : touched[i] \subseteq touched'[i]
           /\ exec.pc # "idle" => k \in touched'["exec"]
           /\ touched'["snap"] = touched["snap"]
  <1>1. "exec" \in Running <=> exec.pc # "idle"
    BY DEF Running
  <1>2. touched \in [Jobs -> SUBSET Keys] /\ "exec" \in Jobs /\ "snap" \in Jobs
    BY DEF JobInv, Jobs
  <1> QED BY <1>1, <1>2 DEF Stored

\* A PUT or a delete changes one object.
LEMMA ObjectFacts ==
    ASSUME NEW f \in [Bucket -> [Keys -> Times]], NEW b \in Bucket, NEW k \in Keys, NEW v \in Times
    PROVE  LET g == [f EXCEPT ![b][k] = v] IN
           /\ g \in [Bucket -> [Keys -> Times]]
           /\ g[b][k] = v
           /\ \A c \in Bucket, j \in Keys : c # b \/ j # k => g[c][j] = f[c][j]
  OBVIOUS

\* A running cleanup does not mind what others do to the keys noted as touched.
LEMMA ExecFrame ==
    ASSUME ExecInv, UNCHANGED exec, before'["exec"] = before["exec"],
           touched["exec"] \subseteq touched'["exec"],
           exec.pc # "idle" =>
               \A k \in Keys \ touched'["exec"] :
                   where'[k] = where[k] /\ \A b \in Bucket : objs'[b][k] = objs[b][k]
    PROVE  ExecInv'
  <1>1. Removed' = Removed /\ Erased' = Erased
    BY DEF Removed, Erased
  <1> QED BY <1>1 DEF ExecInv

\* Neither does a running capture or restore.
LEMMA SnapFrame ==
    ASSUME SnapInv, UNCHANGED snap, before'["snap"] = before["snap"],
           touched["snap"] \subseteq touched'["snap"],
           snap.pc \in {"capture", "load"} =>
               \A k \in Keys \ touched'["snap"] : where'[k] = where[k] /\ stamp'[k] = stamp[k]
    PROVE  SnapInv'
  <1> SUFFICES ASSUME snap.pc # "idle", NEW k \in Keys \ touched'["snap"]
               PROVE  SnapKey(k)'
    BY DEF SnapInv
  <1>1. SnapKey(k)
    BY DEF SnapInv
  <1>2. Entry(k)' = Entry(k)
    BY DEF Entry
  <1>3. snap.pc \in {"capture", "load"} => (Kept(k)' <=> Kept(k)) /\ where'[k] = where[k]
    BY DEF Kept
  <1> QED BY <1>1, <1>2, <1>3 DEF SnapKey
-----------------------------------------------------------------------------
(***************************************************************************)
(* Requests, the sync and other writers.                                   *)
(***************************************************************************)

\* What each of their steps does is about one key, and is noted.
LEMMA ResolverStep ==
    ASSUME DataInv, JobInv, Resolver
    PROVE  /\ DataInv' /\ JobInv'
           /\ UNCHANGED <<exec, snap, before, clock>>
           /\ \A i \in Jobs : touched[i] \subseteq touched'[i]
           /\ exec.pc # "idle" =>
                 \A k \in Keys \ touched'["exec"] :
                     where'[k] = where[k] /\ \A b \in Bucket : objs'[b][k] = objs[b][k]
           /\ snap.pc \in {"capture", "load"} =>
                 \A k \in Keys \ touched'["snap"] : where'[k] = where[k] /\ stamp'[k] = stamp[k]
  <1>1. ASSUME NEW b \in Bucket, NEW k \in Keys,
               RegisterListed(b, k) \/ PlaceFound(b, k) \/ DropMissing(k)
        PROVE  /\ DataInv' /\ touched' \in [Jobs -> SUBSET Keys]
               /\ UNCHANGED <<exec, snap, before, objs, clock>>
               /\ \A i \in Jobs : touched[i] \subseteq touched'[i]
               /\ exec.pc # "idle" => k \in touched'["exec"]
               /\ snap.pc \in {"capture", "load"} => k \in touched'["snap"]
               /\ \A j \in Keys \ {k} : where'[j] = where[j] /\ stamp'[j] = stamp[j]
    <2>1. /\ UNCHANGED <<exec, snap, before, objs, mtime, clock>>
          /\ Touch({k}, "resolver")
      BY <1>1 DEF RegisterListed, PlaceFound, DropMissing, storage
    <2>2. mtime[b][k] \in Times
      BY DEF DataInv
    <2>3. Register(k, b, mtime[b][k]) \/ Set(k, b, mtime[b][k]) \/ Remove(k)
      BY <1>1 DEF RegisterListed, PlaceFound, DropMissing
    <2>4. /\ where' \in [Keys -> Bucket \cup {NoBucket}]
          /\ stamp' \in [Keys -> Times]
          /\ \A j \in Keys : where'[j] = NoBucket => stamp'[j] = 0
          /\ \A j \in Keys \ {k} : where'[j] = where[j] /\ stamp'[j] = stamp[j]
      BY <2>2, <2>3, EntryFacts
    <2>5. DataInv'
      BY <2>1, <2>4 DEF DataInv
    <2> QED BY <2>1, <2>4, <2>5, TouchFacts
  <1>2. ASSUME NEW b \in Bucket, NEW k \in Keys, Upload(b, k)
        PROVE  /\ DataInv' /\ touched' \in [Jobs -> SUBSET Keys]
               /\ UNCHANGED <<where, stamp, exec, snap, before, clock>>
               /\ \A i \in Jobs : touched[i] \subseteq touched'[i]
               /\ exec.pc # "idle" => k \in touched'["exec"]
               /\ \A c \in Bucket, j \in Keys \ {k} : objs'[c][j] = objs[c][j]
    <2>1. /\ objs' = [objs EXCEPT ![b][k] = 1] /\ mtime' = [mtime EXCEPT ![b][k] = clock]
          /\ Stored(k)
          /\ UNCHANGED <<where, stamp, exec, snap, before, clock>>
      BY <1>2 DEF Upload, catalog
    <2>2. 1 \in Times /\ clock \in Times
      BY MaintenanceAssumption DEF DataInv, Times
    <2>3. /\ objs' \in [Bucket -> [Keys -> Times]] /\ mtime' \in [Bucket -> [Keys -> Times]]
          /\ \A c \in Bucket, j \in Keys \ {k} : objs'[c][j] = objs[c][j]
      BY <2>1, <2>2, ObjectFacts DEF DataInv
    <2>4. DataInv'
      BY <2>1, <2>3 DEF DataInv
    <2> QED BY <2>1, <2>3, <2>4, StoredFacts
  <1>3. ASSUME touched' \in [Jobs -> SUBSET Keys], UNCHANGED <<exec, snap, before>>
        PROVE  JobInv'
    BY <1>3 DEF JobInv
  <1>4. CASE \E b \in Bucket, k \in Keys : Upload(b, k)
    <2>1. PICK b \in Bucket, k \in Keys : Upload(b, k)
      BY <1>4
    <2> QED BY <1>2, <1>3, <2>1
  <1>5. CASE \E b \in Bucket, k \in Keys :
                 RegisterListed(b, k) \/ PlaceFound(b, k) \/ DropMissing(k)
    <2>1. PICK b \in Bucket, k \in Keys :
              RegisterListed(b, k) \/ PlaceFound(b, k) \/ DropMissing(k)
      BY <1>5
    <2> QED BY <1>1, <1>3, <2>1
  <1> QED BY <1>4, <1>5, ReplicationAssumption DEF Resolver
-----------------------------------------------------------------------------
(***************************************************************************)
(* Cleanup.                                                                *)
(***************************************************************************)

\* The plan: nothing is removed yet.
LEMMA PlanStep ==
    ASSUME DataInv, JobInv, NEW V \in SUBSET Keys, PlanCleanup(V)
    PROVE  /\ DataInv' /\ JobInv' /\ ExecInv'
           /\ UNCHANGED <<where, stamp, objs, clock, snap, touched>>
           /\ before'["snap"] = before["snap"]
  <1>1. /\ exec' = [pc |-> "delete", at |-> [k \in V |-> where[k]], todo |-> V, failed |-> {}]
        /\ before' = [before EXCEPT !["exec"] = Now]
        /\ \A k \in V : where[k] # NoBucket
        /\ UNCHANGED <<where, stamp, objs, mtime, clock, snap, touched>>
    BY DEF PlanCleanup, catalog, storage, Registered
  <1>2. /\ before'["exec"] = Now /\ before'["snap"] = before["snap"] /\ DOMAIN before' = Jobs
    BY <1>1 DEF JobInv, Jobs
  <1>3. DataInv'
    BY <1>1 DEF DataInv
  <1>4. exec'.at = [k \in V |-> where[k]] /\ exec'.todo = V /\ exec'.failed = {}
        /\ exec'.pc = "delete"
    BY <1>1
  <1>5. DOMAIN exec'.at = V /\ \A k \in V : exec'.at[k] \in Bucket
    BY <1>1, <1>4 DEF DataInv
  <1>6. JobInv'
    <2>1. exec' \in [pc : {"idle", "delete", "remove"}, at : {exec'.at},
                     todo : SUBSET Keys, failed : SUBSET Keys]
      BY <1>1
    <2> QED BY <1>1, <1>2, <1>4, <1>5, <2>1 DEF JobInv
  <1>7. Removed' = {} /\ Erased' = {}
    BY <1>4, <1>5 DEF Removed, Erased
  <1>8. Now.where = where /\ Now.objs = objs
    BY DEF Now
  <1> QED BY <1>1, <1>2, <1>3, <1>6, <1>7, <1>8 DEF ExecInv

\* The victim at hand.
LEMMA VictimFacts ==
    ASSUME JobInv, exec.todo # {}
    PROVE  LET k == First(exec.todo) IN
           /\ k \in exec.todo /\ k \in Keys /\ k \in DOMAIN exec.at /\ exec.at[k] \in Bucket
           /\ k \notin exec.failed /\ k \notin Removed
  <1>1. exec.todo \in SUBSET Nat
    BY MaintenanceAssumption DEF JobInv
  <1>2. First(exec.todo) \in exec.todo
    BY <1>1, FirstFacts
  <1> QED BY <1>2 DEF JobInv, Removed

\* The object is deleted, or the delete fails and the key is left alone.
LEMMA DeleteStep ==
    ASSUME DataInv, JobInv, ExecInv, DeleteVictim
    PROVE  /\ DataInv' /\ JobInv' /\ ExecInv'
           /\ UNCHANGED <<where, stamp, clock, snap, before, touched>>
  <1> DEFINE k == First(exec.todo)
  <1>1. /\ exec.pc = "delete" /\ exec.todo # {}
        /\ UNCHANGED <<where, stamp, mtime, clock, snap, before, touched>>
    BY DEF DeleteVictim, catalog, history
  <1>2. /\ k \in exec.todo /\ k \in Keys /\ k \in DOMAIN exec.at /\ exec.at[k] \in Bucket
        /\ k \notin exec.failed /\ k \notin Removed
    BY <1>1, VictimFacts
  <1>3. Erased = Removed
    BY <1>1 DEF Erased
  <1>4. CASE /\ objs' = [objs EXCEPT ![exec.at[k]][k] = 0]
             /\ exec' = [exec EXCEPT !.pc = "remove"]
    <2>1. /\ exec'.pc = "remove" /\ exec'.at = exec.at /\ exec'.todo = exec.todo
          /\ exec'.failed = exec.failed
          /\ exec' \in [pc : {"idle", "delete", "remove"}, at : {exec'.at},
                        todo : SUBSET Keys, failed : SUBSET Keys]
      BY <1>4 DEF JobInv
    <2>2. 0 \in Times
      BY MaintenanceAssumption DEF Times
    <2>3. /\ objs' \in [Bucket -> [Keys -> Times]] /\ objs'[exec.at[k]][k] = 0
          /\ \A c \in Bucket, j \in Keys : c # exec.at[k] \/ j # k => objs'[c][j] = objs[c][j]
      BY <1>2, <1>4, <2>2, ObjectFacts DEF DataInv
    <2>4. Removed' = Removed /\ Erased' = Removed \cup {k}
      BY <2>1 DEF Removed, Erased
    <2>5. DataInv' /\ JobInv'
      BY <1>1, <2>1, <2>3 DEF DataInv, JobInv
    <2> HIDE DEF k
    <2>6. ExecInv'
      <3> SUFFICES ASSUME NEW j \in Keys \ touched["exec"]
                   PROVE  /\ where[j] = IF j \in Removed THEN NoBucket ELSE before["exec"].where[j]
                          /\ \A b \in Bucket :
                                objs'[b][j] = IF j \in Removed \cup {k} /\ b = exec.at[j] THEN 0
                                              ELSE before["exec"].objs[b][j]
        BY <1>1, <2>1, <2>4 DEF ExecInv
      <3>1. /\ where[j] = IF j \in Removed THEN NoBucket ELSE before["exec"].where[j]
            /\ \A b \in Bucket :
                  objs[b][j] = IF j \in Removed /\ b = exec.at[j] THEN 0
                               ELSE before["exec"].objs[b][j]
        BY <1>1, <1>3 DEF ExecInv
      <3> QED BY <2>3, <3>1
    <2> QED BY <1>1, <2>5, <2>6
  <1>5. CASE /\ UNCHANGED objs
             /\ exec' = [exec EXCEPT !.todo = @ \ {k}, !.failed = @ \cup {k}]
    <2>1. /\ exec'.pc = "delete" /\ exec'.at = exec.at /\ exec'.todo = exec.todo \ {k}
          /\ exec'.failed = exec.failed \cup {k}
          /\ exec' \in [pc : {"idle", "delete", "remove"}, at : {exec'.at},
                        todo : SUBSET Keys, failed : SUBSET Keys]
      BY <1>1, <1>2, <1>5 DEF JobInv
    <2>2. Removed' = Removed /\ Erased' = Removed
      BY <1>2, <2>1 DEF Removed, Erased
    <2>3. DataInv' /\ JobInv'
      BY <1>1, <1>2, <1>5, <2>1 DEF DataInv, JobInv
    <2>4. ExecInv'
      BY <1>1, <1>3, <1>5, <2>1, <2>2 DEF ExecInv
    <2> QED BY <1>1, <2>3, <2>4
  <1> QED BY <1>4, <1>5 DEF DeleteVictim

\* The entry of a victim is removed, whoever owns the key by now.
LEMMA RemoveStep ==
    ASSUME DataInv, JobInv, ExecInv, RemoveVictim
    PROVE  /\ DataInv' /\ JobInv' /\ ExecInv'
           /\ UNCHANGED <<objs, clock, snap, before>>
           /\ touched["snap"] \subseteq touched'["snap"]
           /\ \E k \in Keys :
                 /\ where'[k] = NoBucket
                 /\ \A j \in Keys \ {k} : where'[j] = where[j] /\ stamp'[j] = stamp[j]
                 /\ snap.pc \in {"capture", "load"} => k \in touched'["snap"]
  <1> DEFINE k == First(exec.todo)
  <1>1. /\ exec.pc = "remove" /\ Remove(k) /\ Touch({k}, "exec")
        /\ exec' = [exec EXCEPT !.pc = "delete", !.todo = @ \ {k}]
        /\ UNCHANGED <<objs, mtime, snap, clock, before>>
    BY DEF RemoveVictim, storage, counts
  <1>2. /\ k \in exec.todo /\ k \in Keys /\ k \in DOMAIN exec.at /\ exec.at[k] \in Bucket
        /\ k \notin exec.failed /\ k \notin Removed
    BY <1>1, VictimFacts DEF JobInv
  <1>3. Erased = Removed \cup {k}
    BY <1>1 DEF Erased
  <1>4. /\ exec'.pc = "delete" /\ exec'.at = exec.at /\ exec'.todo = exec.todo \ {k}
        /\ exec'.failed = exec.failed
        /\ exec' \in [pc : {"idle", "delete", "remove"}, at : {exec'.at},
                      todo : SUBSET Keys, failed : SUBSET Keys]
    BY <1>1 DEF JobInv
  <1> HIDE DEF k
  <1>5. /\ where' \in [Keys -> Bucket \cup {NoBucket}]
        /\ stamp' \in [Keys -> Times]
        /\ \A j \in Keys : where'[j] = NoBucket => stamp'[j] = 0
        /\ where'[k] = NoBucket
        /\ \A j \in Keys \ {k} : where'[j] = where[j] /\ stamp'[j] = stamp[j]
    <2>1. 0 \in Times
      BY MaintenanceAssumption DEF Times
    <2> QED BY <1>1, <1>2, <2>1, EntryFacts
  <1>6. /\ touched' \in [Jobs -> SUBSET Keys]
        /\ touched["snap"] \subseteq touched'["snap"] /\ touched'["exec"] = touched["exec"]
        /\ snap.pc \in {"capture", "load"} => k \in touched'["snap"]
    BY <1>1, <1>2, TouchFacts DEF Jobs
  <1>7. DataInv' /\ JobInv'
    BY <1>1, <1>2, <1>4, <1>5, <1>6 DEF DataInv, JobInv
  <1>8. Removed' = Removed \cup {k} /\ Erased' = Removed \cup {k}
    BY <1>2, <1>4 DEF Removed, Erased
  <1>9. ExecInv'
    <2> SUFFICES ASSUME NEW j \in Keys \ touched["exec"]
                 PROVE  /\ where'[j] = IF j \in Removed \cup {k} THEN NoBucket
                                       ELSE before["exec"].where[j]
                        /\ \A b \in Bucket :
                              objs[b][j] = IF j \in Removed \cup {k} /\ b = exec.at[j] THEN 0
                                           ELSE before["exec"].objs[b][j]
      BY <1>1, <1>4, <1>6, <1>8 DEF ExecInv
    <2>1. /\ where[j] = IF j \in Removed THEN NoBucket ELSE before["exec"].where[j]
          /\ \A b \in Bucket :
                objs[b][j] = IF j \in Removed \cup {k} /\ b = exec.at[j] THEN 0
                             ELSE before["exec"].objs[b][j]
      BY <1>1, <1>3 DEF ExecInv
    <2> QED BY <1>5, <2>1
  <1> QED BY <1>1, <1>2, <1>5, <1>6, <1>7, <1>9

\* No function has arguments before the first cleanup.
LEMMA NoArguments == \A s : s = << >> => DOMAIN s = {}
  BY SMT

\* The cleanup ends.
LEMMA ExecuteDoneStep ==
    ASSUME DataInv, JobInv, ExecuteDone
    PROVE  /\ DataInv' /\ JobInv' /\ ExecInv'
           /\ UNCHANGED <<where, stamp, objs, clock, snap>>
           /\ before'["snap"] = before["snap"] /\ touched'["snap"] = touched["snap"]
  <1>1. /\ exec' = NoCleanup
        /\ before' = [before EXCEPT !["exec"] = Never]
        /\ touched' = [touched EXCEPT !["exec"] = {}]
        /\ UNCHANGED <<where, stamp, objs, mtime, clock, snap>>
    BY DEF ExecuteDone, catalog, storage, counts
  <1>2. /\ exec'.pc = "idle" /\ exec'.at = << >> /\ exec'.todo = {} /\ exec'.failed = {}
        /\ exec' \in [pc : {"idle", "delete", "remove"}, at : {exec'.at},
                      todo : SUBSET Keys, failed : SUBSET Keys]
    BY <1>1 DEF NoCleanup
  <1>3. DOMAIN exec'.at = {}
    BY <1>2, NoArguments, Zenon
  <1>4. /\ before'["snap"] = before["snap"] /\ DOMAIN before' = Jobs
        /\ touched'["snap"] = touched["snap"] /\ touched' \in [Jobs -> SUBSET Keys]
    BY <1>1 DEF JobInv, Jobs
  <1>5. DataInv' /\ JobInv'
    BY <1>1, <1>2, <1>3, <1>4 DEF DataInv, JobInv
  <1> QED BY <1>1, <1>2, <1>4, <1>5 DEF ExecInv
-----------------------------------------------------------------------------
(***************************************************************************)
(* Snapshots.                                                              *)
(***************************************************************************)

\* The capture begins: it has read nothing, and has every bucket that owns a key
\* still to read.
LEMMA CaptureStep ==
    ASSUME DataInv, JobInv, Capture
    PROVE  /\ DataInv' /\ JobInv' /\ SnapInv'
           /\ UNCHANGED <<where, stamp, objs, clock, exec, touched>>
           /\ before'["exec"] = before["exec"]
           /\ Document' \subseteq Document
  <1>1. /\ snap' = [pc |-> "capture", todo |-> distinctBuckets, doc |-> {}]
        /\ before' = [before EXCEPT !["snap"] = Now]
        /\ UNCHANGED <<where, stamp, objs, mtime, clock, exec, touched>>
    BY DEF Capture, catalog, storage
  <1>2. before'["snap"] = Now /\ before'["exec"] = before["exec"] /\ DOMAIN before' = Jobs
    BY <1>1 DEF JobInv, Jobs
  <1>3. Now.where = where /\ Now.stamp = stamp
    BY DEF Now
  <1>4. /\ distinctBuckets \subseteq Bucket
        /\ \A k \in Keys : where[k] # NoBucket => where[k] \in distinctBuckets
    BY DEF distinctBuckets, Registered, DataInv
  <1>5. snap'.pc = "capture" /\ snap'.todo = distinctBuckets /\ snap'.doc = {}
    BY <1>1
  <1>6. DataInv' /\ JobInv'
    <2>1. snap' \in [pc : {"idle", "capture", "captured", "load"}, todo : {snap'.todo},
                     doc : SUBSET Items]
      BY <1>1
    <2> QED BY <1>1, <1>2, <1>4, <1>5, <2>1 DEF DataInv, JobInv
  <1>7. ASSUME NEW k \in Keys PROVE SnapKey(k)'
    <2>1. Entry(k)'.at = where[k] /\ Entry(k)'.lm = stamp[k]
      BY <1>2, <1>3 DEF Entry
    <2>2. Kept(k)'
      BY <1>1, <1>2, <1>3 DEF Kept
    <2>3. where[k] = NoBucket => stamp[k] = 0
      BY DEF DataInv
    <2> QED BY <1>4, <1>5, <2>1, <2>2, <2>3 DEF SnapKey
  <1>8. Document' = {}
    BY <1>5 DEF Document
  <1> QED BY <1>1, <1>2, <1>6, <1>7, <1>8 DEF SnapInv

\* One bucket is read.
LEMMA CaptureBucketStep ==
    ASSUME DataInv, JobInv, SnapInv, CaptureBucket
    PROVE  /\ DataInv' /\ JobInv' /\ SnapInv'
           /\ UNCHANGED <<where, stamp, objs, clock, exec, before, touched>>
           /\ \A x \in Document' :
                 x \in Document \/ (where[x.key] = x.at /\ stamp[x.key] = x.lm)
  <1> DEFINE b == First(snap.todo)
  <1>1. /\ snap.pc = "capture" /\ snap.todo # {}
        /\ snap' = [snap EXCEPT !.todo = @ \ {b}, !.doc = @ \cup ManifestForBucket(b)]
        /\ UNCHANGED <<where, stamp, objs, mtime, clock, exec, before, touched>>
    BY DEF CaptureBucket, catalog, storage, counts, history
  <1>2. snap.todo \subseteq Bucket /\ snap.doc \subseteq Items
    BY <1>1 DEF JobInv
  <1>3. b \in Bucket
    <2>1. snap.todo \in SUBSET Nat
      BY <1>2, MaintenanceAssumption
    <2> QED BY <1>1, <1>2, <2>1, FirstFacts
  <1> HIDE DEF b
  <1>4. /\ snap'.pc = "capture" /\ snap'.todo = snap.todo \ {b}
        /\ snap'.doc = snap.doc \cup ManifestForBucket(b)
    BY <1>1 DEF JobInv
  <1>5. /\ ManifestForBucket(b) \subseteq Items
        /\ \A x \in ManifestForBucket(b) : where[x.key] = b /\ x.at = b /\ x.lm = stamp[x.key]
        /\ \A k \in Keys : where[k] = b =>
              [at |-> b, key |-> k, lm |-> stamp[k]] \in ManifestForBucket(b)
    <2>1. ASSUME NEW x \in ManifestForBucket(b)
          PROVE  x \in Items /\ where[x.key] = b /\ x.at = b /\ x.lm = stamp[x.key]
      <3>1. PICK k \in Keys : where[k] = b /\ x = [at |-> b, key |-> k, lm |-> stamp[k]]
        BY <2>1 DEF ManifestForBucket
      <3>2. stamp[k] \in Times
        BY DEF DataInv
      <3> QED BY <1>3, <3>1, <3>2 DEF Items
    <2>2. \A k \in Keys : where[k] = b =>
              [at |-> b, key |-> k, lm |-> stamp[k]] \in ManifestForBucket(b)
      BY DEF ManifestForBucket
    <2> QED BY <2>1, <2>2
  <1>6. DataInv' /\ JobInv'
    <2>1. snap' \in [pc : {"idle", "capture", "captured", "load"}, todo : {snap'.todo},
                     doc : SUBSET Items]
      BY <1>1, <1>2, <1>5 DEF JobInv
    <2> QED BY <1>1, <1>2, <1>4, <2>1 DEF DataInv, JobInv
  <1>7. ASSUME NEW k \in Keys \ touched["snap"] PROVE SnapKey(k)'
    <2>1. SnapKey(k)
      BY <1>1 DEF SnapInv
    <2>2. Entry(k)' = Entry(k)
      BY <1>1 DEF Entry
    <2>3. Kept(k) /\ Kept(k)'
      BY <1>1, <2>1 DEF SnapKey, Kept
    <2>4. Entry(k) = [at |-> where[k], key |-> k, lm |-> stamp[k]]
      BY <2>3 DEF Entry, Kept
    <2>5. \A x \in ManifestForBucket(b) : x.key = k => x = Entry(k)
      <3> SUFFICES ASSUME NEW x \in ManifestForBucket(b), x.key = k PROVE x = Entry(k)
        OBVIOUS
      <3>1. x \in Items /\ x.at = where[k] /\ x.lm = stamp[k]
        BY <1>5
      <3> QED BY <2>4, <3>1 DEF Items
    <2>6. Entry(k).at = b => Entry(k) \in ManifestForBucket(b)
      BY <1>5, <2>4
    <2>7. \A x \in snap.doc : x.key = k => x = Entry(k)
      BY <1>1, <2>1 DEF SnapKey
    <2>8. Entry(k).at \notin snap.todo \cup {NoBucket} => Entry(k) \in snap.doc
      BY <1>1, <2>1 DEF SnapKey
    <2>9. Entry(k).at = NoBucket => Entry(k).lm = 0
      BY <2>1 DEF SnapKey
    <2> QED BY <1>4, <2>2, <2>3, <2>5, <2>6, <2>7, <2>8, <2>9 DEF SnapKey
  <1>8. Document' = Document \cup ManifestForBucket(b)
    BY <1>1, <1>4 DEF Document
  <1> QED BY <1>1, <1>5, <1>6, <1>7, <1>8 DEF SnapInv

\* Every bucket has been read.
LEMMA CaptureDoneStep ==
    ASSUME DataInv, JobInv, SnapInv, CaptureDone
    PROVE  /\ DataInv' /\ JobInv' /\ SnapInv'
           /\ UNCHANGED <<where, stamp, objs, clock, exec, before, touched>>
           /\ Document' = Document
  <1>1. /\ snap.pc = "capture" /\ snap.todo = {} /\ snap' = [snap EXCEPT !.pc = "captured"]
        /\ UNCHANGED <<where, stamp, objs, mtime, clock, exec, before, touched>>
    BY DEF CaptureDone, catalog, storage, counts, history
  <1>2. /\ snap'.pc = "captured" /\ snap'.todo = snap.todo /\ snap'.doc = snap.doc
        /\ snap' \in [pc : {"idle", "capture", "captured", "load"}, todo : {snap'.todo},
                      doc : SUBSET Items]
    BY <1>1 DEF JobInv
  <1>3. DataInv' /\ JobInv'
    BY <1>1, <1>2 DEF DataInv, JobInv
  <1>4. ASSUME NEW k \in Keys \ touched["snap"] PROVE SnapKey(k)'
    <2>1. SnapKey(k)
      BY <1>1 DEF SnapInv
    <2>2. Entry(k)' = Entry(k)
      BY <1>1 DEF Entry
    <2> QED BY <1>1, <1>2, <2>1, <2>2 DEF SnapKey
  <1>5. Document' = Document
    BY <1>1, <1>2 DEF Document
  <1> QED BY <1>1, <1>3, <1>4, <1>5 DEF SnapInv

\* The restore clears the catalog: every key waits for its item.
LEMMA RestoreStep ==
    ASSUME DataInv, JobInv, SnapInv, Restore
    PROVE  /\ DataInv' /\ JobInv' /\ SnapInv'
           /\ UNCHANGED <<objs, clock, exec, before>>
           /\ touched["exec"] \subseteq touched'["exec"]
           /\ exec.pc # "idle" => Keys \subseteq touched'["exec"]
           /\ \A k \in Keys : where'[k] = NoBucket
           /\ Document' \subseteq Document
  <1>1. /\ snap.pc = "captured"
        /\ snap' = [snap EXCEPT !.pc = "load", !.todo = snap.doc, !.doc = {}]
        /\ where' = [k \in Keys |-> NoBucket] /\ stamp' = [k \in Keys |-> 0]
        /\ Touch(Keys, "snap")
        /\ UNCHANGED <<objs, mtime, clock, exec, before>>
    BY DEF Restore, Cat!Reset, storage, counts
  <1>2. /\ snap'.pc = "load" /\ snap'.todo = snap.doc /\ snap'.doc = {}
        /\ snap' \in [pc : {"idle", "capture", "captured", "load"}, todo : {snap'.todo},
                      doc : SUBSET Items]
        /\ snap.doc \subseteq Items
    BY <1>1 DEF JobInv
  <1>3. /\ touched' \in [Jobs -> SUBSET Keys]
        /\ touched["exec"] \subseteq touched'["exec"] /\ touched'["snap"] = touched["snap"]
        /\ exec.pc # "idle" => Keys \subseteq touched'["exec"]
    BY <1>1, TouchFacts DEF Jobs
  <1>4. DataInv' /\ JobInv'
    <2>1. 0 \in Times
      BY MaintenanceAssumption DEF Times
    <2> QED BY <1>1, <1>2, <1>3, <2>1 DEF DataInv, JobInv
  <1>5. ASSUME NEW k \in Keys \ touched["snap"] PROVE SnapKey(k)'
    <2>1. SnapKey(k)
      BY <1>1 DEF SnapInv
    <2>2. Entry(k)' = Entry(k)
      BY <1>1 DEF Entry
    <2>3. Entry(k) \notin snap.doc => Entry(k).at = NoBucket /\ Entry(k).lm = 0
      BY <1>1, <2>1 DEF SnapKey
    <2>4. Entry(k) \notin snap.doc => Kept(k)'
      BY <1>1, <2>3 DEF Kept, Entry
    <2>5. where'[k] = NoBucket
      BY <1>1
    <2>6. \A x \in snap.doc : x.key = k => x = Entry(k)
      BY <1>1, <2>1 DEF SnapKey
    <2>7. Entry(k).at = NoBucket => Entry(k).lm = 0
      BY <2>1 DEF SnapKey
    <2> QED BY <1>2, <2>2, <2>4, <2>5, <2>6, <2>7 DEF SnapKey
  <1>6. Document' \subseteq Document
    BY <1>1, <1>2 DEF Document
  <1> QED BY <1>1, <1>3, <1>4, <1>5, <1>6 DEF SnapInv

\* One item is registered.
LEMMA RestoreItemStep ==
    ASSUME DataInv, JobInv, SnapInv, RestoreItem
    PROVE  /\ DataInv' /\ JobInv' /\ SnapInv'
           /\ UNCHANGED <<objs, clock, exec, before>>
           /\ touched["exec"] \subseteq touched'["exec"]
           /\ \E x \in Document :
                 /\ \A j \in Keys \ {x.key} : where'[j] = where[j] /\ stamp'[j] = stamp[j]
                 /\ \/ where'[x.key] = where[x.key] /\ stamp'[x.key] = stamp[x.key]
                    \/ where'[x.key] = x.at /\ stamp'[x.key] = x.lm
                 /\ exec.pc # "idle" => x.key \in touched'["exec"]
           /\ Document' \subseteq Document
  <1> DEFINE x == NextItem(snap.todo)
  <1>1. /\ snap.pc = "load" /\ snap.todo # {}
        /\ snap' = [snap EXCEPT !.todo = @ \ {x}]
        /\ Register(x.key, x.at, x.lm)
        /\ Touch({x.key}, "snap")
        /\ UNCHANGED <<objs, mtime, clock, exec, before>>
    BY DEF RestoreItem, storage, counts
  <1>2. snap.todo \subseteq Items
    BY <1>1 DEF JobInv
  <1>3. x \in snap.todo
    BY <1>1, <1>2, NextItemFacts
  <1> HIDE DEF x
  <1>4. x.key \in Keys /\ x.at \in Bucket /\ x.lm \in Times
    BY <1>2, <1>3 DEF Items
  <1>5. /\ snap'.pc = "load" /\ snap'.todo = snap.todo \ {x} /\ snap'.doc = snap.doc
        /\ snap' \in [pc : {"idle", "capture", "captured", "load"}, todo : {snap'.todo},
                      doc : SUBSET Items]
    BY <1>1 DEF JobInv
  <1>6. /\ where' \in [Keys -> Bucket \cup {NoBucket}]
        /\ stamp' \in [Keys -> Times]
        /\ \A j \in Keys : where'[j] = NoBucket => stamp'[j] = 0
        /\ \A j \in Keys \ {x.key} : where'[j] = where[j] /\ stamp'[j] = stamp[j]
        /\ \/ /\ where[x.key] # NoBucket
              /\ where'[x.key] = where[x.key] /\ stamp'[x.key] = stamp[x.key]
           \/ where'[x.key] = x.at /\ stamp'[x.key] = x.lm
    BY <1>1, <1>4, EntryFacts
  <1>7. /\ touched' \in [Jobs -> SUBSET Keys]
        /\ touched["exec"] \subseteq touched'["exec"] /\ touched'["snap"] = touched["snap"]
        /\ exec.pc # "idle" => x.key \in touched'["exec"]
    BY <1>1, <1>4, TouchFacts DEF Jobs
  <1>8. DataInv' /\ JobInv'
    BY <1>1, <1>2, <1>5, <1>6, <1>7 DEF DataInv, JobInv
  <1>9. ASSUME NEW k \in Keys \ touched["snap"] PROVE SnapKey(k)'
    <2>1. SnapKey(k)
      BY <1>1 DEF SnapInv
    <2>2. Entry(k)' = Entry(k) /\ Entry(k).key = k
      BY <1>1 DEF Entry
    <2>3. /\ Entry(k).at = NoBucket => Entry(k).lm = 0
          /\ \A y \in snap.todo : y.key = k => y = Entry(k)
          /\ IF Entry(k) \in snap.todo THEN where[k] = NoBucket ELSE Kept(k)
      BY <1>1, <2>1 DEF SnapKey
    <2>4. IF Entry(k) \in snap'.todo THEN where'[k] = NoBucket ELSE Kept(k)'
      <3>1. CASE x.key = k
        <4>1. x = Entry(k) /\ where[k] = NoBucket
          BY <1>3, <2>3, <3>1
        <4>2. where'[k] = Entry(k).at /\ stamp'[k] = Entry(k).lm
          BY <1>6, <3>1, <4>1
        <4>3. Kept(k)'
          BY <1>1, <4>2 DEF Kept, Entry
        <4> QED BY <1>5, <4>1, <4>3
      <3>2. CASE x.key # k
        <4>1. Entry(k) \in snap'.todo <=> Entry(k) \in snap.todo
          BY <1>5, <2>2, <3>2
        <4>2. where'[k] = where[k] /\ (Kept(k) => Kept(k)')
          BY <1>1, <1>6, <3>2 DEF Kept
        <4> QED BY <2>3, <4>1, <4>2
      <3> QED BY <3>1, <3>2
    <2> QED BY <1>5, <2>2, <2>3, <2>4 DEF SnapKey
  <1>10. Document' \subseteq Document /\ x \in Document
    BY <1>1, <1>3, <1>5 DEF Document
  <1> QED BY <1>1, <1>6, <1>7, <1>8, <1>9, <1>10 DEF SnapInv

\* The restore ends.
LEMMA RestoreDoneStep ==
    ASSUME DataInv, JobInv, RestoreDone
    PROVE  /\ DataInv' /\ JobInv' /\ SnapInv'
           /\ UNCHANGED <<where, stamp, objs, clock, exec>>
           /\ before'["exec"] = before["exec"] /\ touched'["exec"] = touched["exec"]
           /\ Document' \subseteq Document
  <1>1. /\ snap' = NoSnapshot
        /\ before' = [before EXCEPT !["snap"] = Never]
        /\ touched' = [touched EXCEPT !["snap"] = {}]
        /\ UNCHANGED <<where, stamp, objs, mtime, clock, exec>>
    BY DEF RestoreDone, catalog, storage, counts
  <1>2. /\ snap'.pc = "idle" /\ snap'.doc = {}
        /\ snap' \in [pc : {"idle", "capture", "captured", "load"}, todo : {snap'.todo},
                      doc : SUBSET Items]
    BY <1>1 DEF NoSnapshot
  <1>3. /\ before'["exec"] = before["exec"] /\ DOMAIN before' = Jobs
        /\ touched'["exec"] = touched["exec"] /\ touched' \in [Jobs -> SUBSET Keys]
    BY <1>1 DEF JobInv, Jobs
  <1>4. DataInv' /\ JobInv'
    BY <1>1, <1>2, <1>3 DEF DataInv, JobInv
  <1>5. Document' = {}
    BY <1>2 DEF Document
  <1> QED BY <1>1, <1>2, <1>3, <1>4, <1>5 DEF SnapInv
-----------------------------------------------------------------------------
(***************************************************************************)
(* The steps of module Maintenance, beside a pull.                         *)
(***************************************************************************)

\* A step that enters nothing for Target but what a snapshot had, and keeps no
\* other document than the catalog had, leaves every pull backed.
LEMMA LocalPulls ==
    ASSUME PullInv, Local, UNCHANGED clock,
           \A k \in Pulled' : where'[k] = Target =>
               \/ where[k] = Target /\ stamp'[k] = stamp[k]
               \/ \E x \in Document : x.key = k /\ x.at = Target /\ x.lm = stamp'[k],
           \A x \in Document' :
               x \in Document \/ (where[x.key] = x.at /\ stamp[x.key] = x.lm)
    PROVE  PullInv'
  <1>1. /\ restamped \subseteq restamped'
        /\ deleted' = deleted \cup {k \in Keys : objs'[Target][k] # objs[Target][k]}
        /\ UNCHANGED <<remote, listing, pull, asked>>
    BY DEF Local, remoteVars
  <1> SUFFICES ASSUME NEW k \in Pulled' PROVE PullKey(k)'
    BY DEF PullInv
  <1>2. k \in Pulled /\ objs'[Target][k] = objs[Target][k]
    BY <1>1 DEF Pulled
  <1>3. PullKey(k) /\ Backed(k)
    BY <1>2 DEF PullInv, PullKey
  <1>4. Backed(k)'
    <2>1. where'[k] = Target => stamp'[k] <= objs[Target][k]
      BY <1>3 DEF Backed
    <2>2. \A x \in Document' : x.key = k /\ x.at = Target => x.lm <= objs[Target][k]
      BY <1>3 DEF Backed
    <2> QED BY <1>2, <2>1, <2>2 DEF Backed
  <1>5. Current' = Current /\ (Delivered(k) => Delivered(k)')
    BY <1>1, <1>2 DEF Current, Delivered
  <1> QED BY <1>1, <1>2, <1>3, <1>4, <1>5 DEF PullKey

\* Every step of requests, the sync, cleanup and snapshots keeps the invariant.
LEMMA LocalStep ==
    ASSUME IndInv, Local
    PROVE  IndInv'
  <1>1. DataInv /\ JobInv /\ RemoteInv /\ ExecInv /\ SnapInv /\ PullInv
    BY DEF IndInv
  <1>2. RemoteInv'
    BY <1>1 DEF Local, remoteVars, RemoteInv
  <1>3. "exec" \in Jobs /\ "snap" \in Jobs
    BY DEF Jobs
  <1>4. ASSUME Resolver,
               restamped' = restamped \cup
                  {k \in Keys : where'[k] = Target /\ <<where[k], stamp[k]>> # <<Target, stamp'[k]>>}
        PROVE  IndInv'
    <2>1. /\ DataInv' /\ JobInv'
          /\ UNCHANGED <<exec, snap, before, clock>>
          /\ \A i \in Jobs : touched[i] \subseteq touched'[i]
          /\ exec.pc # "idle" =>
                \A k \in Keys \ touched'["exec"] :
                    where'[k] = where[k] /\ \A b \in Bucket : objs'[b][k] = objs[b][k]
          /\ snap.pc \in {"capture", "load"} =>
                \A k \in Keys \ touched'["snap"] : where'[k] = where[k] /\ stamp'[k] = stamp[k]
      BY <1>1, <1>4, ResolverStep
    <2>2. ExecInv'
      BY <1>1, <1>3, <2>1, ExecFrame
    <2>3. SnapInv'
      BY <1>1, <1>3, <2>1, SnapFrame
    <2>4. Document' = Document
      BY <2>1 DEF Document
    <2>5. \A k \in Pulled' : where'[k] = Target => where[k] = Target /\ stamp'[k] = stamp[k]
      BY <1>4 DEF Pulled
    <2>6. PullInv'
      BY <1>1, <2>1, <2>4, <2>5, LocalPulls
    <2> QED BY <1>2, <2>1, <2>2, <2>3, <2>6 DEF IndInv
  <1>5. CASE Cleanup
    <2>1. CASE UNCHANGED <<where, stamp, clock, snap, touched>> /\ DataInv' /\ JobInv' /\ ExecInv'
               /\ before'["snap"] = before["snap"]
      <3>1. SnapInv'
        BY <1>1, <2>1, SnapFrame
      <3>2. Document' = Document
        BY <2>1 DEF Document
      <3>3. PullInv'
        BY <1>1, <2>1, <3>2, LocalPulls
      <3> QED BY <1>2, <2>1, <3>1, <3>3 DEF IndInv
    <2>2. ASSUME NEW V \in SUBSET Keys, PlanCleanup(V) PROVE IndInv'
      BY <1>1, <2>1, <2>2, PlanStep
    <2>3. CASE DeleteVictim
      BY <1>1, <2>1, <2>3, DeleteStep
    <2>4. CASE RemoveVictim
      <3>1. /\ DataInv' /\ JobInv' /\ ExecInv'
            /\ UNCHANGED <<objs, clock, snap, before>>
            /\ touched["snap"] \subseteq touched'["snap"]
        BY <1>1, <2>4, RemoveStep
      <3>2. PICK k \in Keys :
                /\ where'[k] = NoBucket
                /\ \A j \in Keys \ {k} : where'[j] = where[j] /\ stamp'[j] = stamp[j]
                /\ snap.pc \in {"capture", "load"} => k \in touched'["snap"]
        BY <1>1, <2>4, RemoveStep
      <3>3. SnapInv'
        BY <1>1, <3>1, <3>2, SnapFrame
      <3>4. Document' = Document
        BY <3>1 DEF Document
      <3>5. Target # NoBucket
        BY MaintenanceAssumption, ReplicationAssumption
      <3>6. \A j \in Pulled' : where'[j] = Target => where[j] = Target /\ stamp'[j] = stamp[j]
        BY <3>2, <3>5 DEF Pulled
      <3>7. PullInv'
        BY <1>1, <3>1, <3>4, <3>6, LocalPulls
      <3> QED BY <1>2, <3>1, <3>3, <3>7 DEF IndInv
    <2>5. CASE ExecuteDone
      <3>1. /\ DataInv' /\ JobInv' /\ ExecInv'
            /\ UNCHANGED <<where, stamp, objs, clock, snap>>
            /\ before'["snap"] = before["snap"] /\ touched'["snap"] = touched["snap"]
        BY <1>1, <2>5, ExecuteDoneStep
      <3>2. SnapInv'
        BY <1>1, <3>1, SnapFrame
      <3>3. Document' = Document
        BY <3>1 DEF Document
      <3>4. PullInv'
        BY <1>1, <3>1, <3>3, LocalPulls
      <3> QED BY <1>2, <3>1, <3>2, <3>4 DEF IndInv
    <2> QED BY <1>5, <2>2, <2>3, <2>4, <2>5 DEF Cleanup
  <1>6. CASE Snapshot
    <2>1. ASSUME DataInv', JobInv', SnapInv', UNCHANGED <<where, stamp, objs, clock, exec>>,
                 before'["exec"] = before["exec"], touched'["exec"] = touched["exec"],
                 \A x \in Document' :
                     x \in Document \/ (where[x.key] = x.at /\ stamp[x.key] = x.lm)
          PROVE  IndInv'
      <3>1. ExecInv'
        BY <1>1, <2>1, ExecFrame
      <3>2. PullInv'
        BY <1>1, <2>1, LocalPulls
      <3> QED BY <1>2, <2>1, <3>1, <3>2 DEF IndInv
    <2>2. CASE Capture
      BY <1>1, <2>1, <2>2, CaptureStep
    <2>3. CASE CaptureBucket
      BY <1>1, <2>1, <2>3, CaptureBucketStep
    <2>4. CASE CaptureDone
      BY <1>1, <2>1, <2>4, CaptureDoneStep
    <2>5. CASE Restore
      <3>1. /\ DataInv' /\ JobInv' /\ SnapInv'
            /\ UNCHANGED <<objs, clock, exec, before>>
            /\ touched["exec"] \subseteq touched'["exec"]
            /\ exec.pc # "idle" => Keys \subseteq touched'["exec"]
            /\ \A k \in Keys : where'[k] = NoBucket
            /\ Document' \subseteq Document
        BY <1>1, <2>5, RestoreStep
      <3>2. ExecInv'
        BY <1>1, <3>1, ExecFrame
      <3>3. Target # NoBucket
        BY MaintenanceAssumption, ReplicationAssumption
      <3>4. \A k \in Pulled' : where'[k] # Target
        BY <3>1, <3>3 DEF Pulled
      <3>5. PullInv'
        BY <1>1, <3>1, <3>4, LocalPulls
      <3> QED BY <1>2, <3>1, <3>2, <3>5 DEF IndInv
    <2>6. CASE RestoreItem
      <3>1. /\ DataInv' /\ JobInv' /\ SnapInv'
            /\ UNCHANGED <<objs, clock, exec, before>>
            /\ touched["exec"] \subseteq touched'["exec"]
            /\ Document' \subseteq Document
        BY <1>1, <2>6, RestoreItemStep
      <3>2. PICK x \in Document :
                /\ \A j \in Keys \ {x.key} : where'[j] = where[j] /\ stamp'[j] = stamp[j]
                /\ \/ where'[x.key] = where[x.key] /\ stamp'[x.key] = stamp[x.key]
                   \/ where'[x.key] = x.at /\ stamp'[x.key] = x.lm
                /\ exec.pc # "idle" => x.key \in touched'["exec"]
        BY <1>1, <2>6, RestoreItemStep
      <3>3. ExecInv'
        BY <1>1, <3>1, <3>2, ExecFrame
      <3>4. \A k \in Pulled' : where'[k] = Target =>
                \/ where[k] = Target /\ stamp'[k] = stamp[k]
                \/ \E y \in Document : y.key = k /\ y.at = Target /\ y.lm = stamp'[k]
        <4>1. Pulled' \subseteq Keys
          BY DEF Pulled
        <4> QED BY <3>2, <4>1
      <3>5. PullInv'
        BY <1>1, <3>1, <3>4, LocalPulls
      <3> QED BY <1>2, <3>1, <3>3, <3>5 DEF IndInv
    <2>7. CASE RestoreDone
      BY <1>1, <2>1, <2>7, RestoreDoneStep
    <2> QED BY <1>6, <2>2, <2>3, <2>4, <2>5, <2>6, <2>7 DEF Snapshot
  <1> QED BY <1>4, <1>5, <1>6 DEF Local
-----------------------------------------------------------------------------
(***************************************************************************)
(* Pull.                                                                   *)
(***************************************************************************)

\* A step that leaves the catalog, the storage and the jobs alone.
LEMMA QuietStep ==
    ASSUME IndInv, UNCHANGED <<where, stamp, objs, mtime, clock, exec, snap, before, touched>>
    PROVE  DataInv' /\ JobInv' /\ ExecInv' /\ SnapInv' /\ Document' = Document
  <1>1. DataInv' /\ JobInv'
    BY DEF IndInv, DataInv, JobInv
  <1>2. ExecInv'
    BY ExecFrame DEF IndInv
  <1>3. SnapInv'
    BY SnapFrame DEF IndInv
  <1>4. Document' = Document
    BY DEF Document
  <1> QED BY <1>1, <1>2, <1>3, <1>4

\* The entry at hand, and the numbers the comparisons are about.
LEMMA PullFacts ==
    ASSUME IndInv
    PROVE  /\ pull.todo # {} => Current \in pull.todo /\ Current \in Keys /\ Current \notin pull.failed
           /\ Target \in Bucket
           /\ \A k \in Keys : /\ objs[Target][k] \in Nat /\ stamp[k] \in Nat /\ asked[k] \in Nat
                              /\ listing[k] \in Nat /\ remote[k] \in Nat
           /\ clock \in Nat /\ pull.body \in Nat
           /\ \A x \in Document : x.lm \in Nat
  <1>1. pull.todo \in SUBSET Nat /\ pull.todo \subseteq Keys /\ pull.todo \cap pull.failed = {}
    BY MaintenanceAssumption DEF IndInv, RemoteInv
  <1>2. pull.todo # {} => Current \in pull.todo
    BY <1>1, FirstFacts DEF Current
  <1>3. Target \in Bucket
    BY ReplicationAssumption
  <1>4. Times \subseteq Nat
    BY MaintenanceAssumption DEF Times
  <1>5. \A k \in Keys : /\ objs[Target][k] \in Nat /\ stamp[k] \in Nat /\ asked[k] \in Nat
                        /\ listing[k] \in Nat /\ remote[k] \in Nat
    <2>1. ASSUME NEW k \in Keys PROVE objs[Target][k] \in Times /\ stamp[k] \in Times
      BY <1>3 DEF IndInv, DataInv
    <2>2. ASSUME NEW k \in Keys
          PROVE  asked[k] \in Times /\ listing[k] \in Times /\ remote[k] \in Times
      BY DEF IndInv, RemoteInv
    <2> QED BY <1>4, <2>1, <2>2
  <1>6. clock \in Nat /\ pull.body \in Nat
    <2>1. clock \in Nat
      BY MaintenanceAssumption DEF IndInv, DataInv
    <2>2. pull.body \in Times
      BY DEF IndInv, RemoteInv
    <2> QED BY <1>4, <2>1, <2>2
  <1>7. \A x \in Document : x.lm \in Nat
    <2>1. Document \subseteq Items
      BY DEF IndInv, JobInv, Document
    <2> QED BY <1>4, <2>1 DEF Items
  <1> QED BY <1>1, <1>2, <1>3, <1>5, <1>6, <1>7

\* A key of PullInv.
LEMMA PullKeyFacts ==
    ASSUME IndInv, NEW k \in Pulled
    PROVE  PullKey(k) /\ Backed(k) /\ k \in Keys
  BY DEF IndInv, PullInv, PullKey, Pulled

\* The manifest is fetched: every listed key is to do.
LEMMA FetchStep ==
    ASSUME IndInv, FetchManifest
    PROVE  IndInv'
  <1>1. UNCHANGED <<where, stamp, objs, mtime, clock, exec, snap, before, touched,
                    remote, listing, deleted, restamped>>
    BY DEF FetchManifest, catalog, storage, Others, remoteVars
  <1>2. DataInv' /\ JobInv' /\ ExecInv' /\ SnapInv' /\ Document' = Document
    BY <1>1, QuietStep
  <1>3. Pulled' = Pulled /\ \A k : Backed(k) => Backed(k)'
    BY <1>1, <1>2 DEF Pulled, Backed
  <1>4. CASE /\ pull' = [NoPull EXCEPT !.pc = "entry", !.todo = {k \in Keys : listing[k] # 0}]
             /\ asked' = listing
    <2>1. /\ pull'.pc = "entry" /\ pull'.todo = {k \in Keys : listing[k] # 0} /\ pull'.failed = {}
          /\ pull'.body = 0
          /\ DOMAIN pull' = DOMAIN NoPull
      BY <1>4 DEF NoPull
    <2>2. RemoteInv'
      <3>1. 0 \in Times
        BY MaintenanceAssumption DEF Times
      <3>2. pull' \in [pc : {"idle", "entry", "get", "follow", "put", "register"},
                       todo : SUBSET Keys, body : Times, failed : SUBSET Keys]
        BY <1>4, <3>1 DEF NoPull
      <3> QED BY <1>1, <1>4, <2>1, <3>2 DEF IndInv, RemoteInv
    <2>3. ASSUME NEW k \in Pulled PROVE PullKey(k)'
      <3>1. PullKey(k) /\ Backed(k) /\ k \in Keys
        BY PullKeyFacts
      <3>2. Backed(k)'
        BY <1>3, <3>1
      <3>3. asked'[k] <= listing'[k]
        BY <1>1, <1>4, <3>1, PullFacts
      <3>4. k \notin pull'.todo => Delivered(k)'
        BY <1>1, <1>4, <2>1, <3>1, PullFacts DEF Delivered
      <3> QED BY <1>1, <2>1, <3>1, <3>2, <3>3, <3>4 DEF PullKey
    <2>4. PullInv'
      BY <1>3, <2>3 DEF PullInv
    <2> QED BY <1>2, <2>2, <2>4 DEF IndInv
  <1>5. CASE UNCHANGED <<pull, asked>>
    <2>1. RemoteInv'
      BY <1>1, <1>5 DEF IndInv, RemoteInv
    <2>2. Current' = Current
      BY <1>5 DEF Current
    <2>3. PullInv'
      BY <1>1, <1>3, <1>5, <2>2 DEF IndInv, PullInv, PullKey, Delivered
    <2> QED BY <1>2, <2>1, <2>3 DEF IndInv
  <1> QED BY <1>4, <1>5 DEF FetchManifest

\* The entry at hand is done with, as one that is delivered or as one that failed.
LEMMA HandledStep ==
    ASSUME IndInv, pull.todo # {},
           UNCHANGED <<where, stamp, objs, mtime, clock, exec, snap, before, touched,
                       remote, listing, asked, deleted, restamped>>,
           \/ Handled /\ (Current \in Pulled => asked[Current] <= objs[Target][Current])
           \/ Fails
    PROVE  IndInv'
  <1>1. DataInv' /\ JobInv' /\ ExecInv' /\ SnapInv' /\ Document' = Document
    BY QuietStep
  <1>2. Pulled' = Pulled /\ \A k : Backed(k) => Backed(k)'
    BY <1>1 DEF Pulled, Backed
  <1>3. Current \in pull.todo /\ Current \in Keys /\ Current \notin pull.failed
    BY PullFacts
  <1>4. pull \in [pc : {"idle", "entry", "get", "follow", "put", "register"},
                  todo : SUBSET Keys, body : Times, failed : SUBSET Keys]
    BY DEF IndInv, RemoteInv
  <1>5. 0 \in Times
    BY MaintenanceAssumption DEF Times
  <1>6. /\ pull'.pc = "entry" /\ pull'.todo = pull.todo \ {Current} /\ pull'.body = 0
        /\ pull'.failed = pull.failed \/ pull'.failed = pull.failed \cup {Current}
        /\ Fails => Current \in pull'.failed
        /\ pull' \in [pc : {"idle", "entry", "get", "follow", "put", "register"},
                      todo : SUBSET Keys, body : Times, failed : SUBSET Keys]
    <2>1. CASE Fails
      BY <1>3, <1>4, <1>5, <2>1 DEF Fails
    <2>2. CASE Handled /\ ~Fails
      BY <1>3, <1>4, <1>5, <2>2 DEF Handled
    <2> QED BY <2>1, <2>2
  <1>7. RemoteInv'
    BY <1>3, <1>6 DEF IndInv, RemoteInv
  <1>8. ASSUME NEW k \in Pulled PROVE PullKey(k)'
    <2>1. PullKey(k) /\ Backed(k) /\ k \in Keys
      BY PullKeyFacts
    <2>2. Backed(k)'
      BY <1>2, <2>1
    <2>3. k \notin pull'.todo => Delivered(k)'
      <3>1. CASE k = Current
        BY <1>6, <3>1 DEF Delivered
      <3>2. CASE k # Current
        BY <1>6, <2>1, <3>2 DEF PullKey, Delivered
      <3> QED BY <3>1, <3>2
    <2> QED BY <1>6, <2>1, <2>2, <2>3 DEF PullKey
  <1>9. PullInv'
    BY <1>2, <1>8 DEF PullInv
  <1> QED BY <1>1, <1>7, <1>9 DEF IndInv

\* The request for the entry at hand goes on.
LEMMA GoOnStep ==
    ASSUME IndInv, pull.todo # {}, NEW step \in {"get", "follow"}, GoTo(step),
           UNCHANGED <<where, stamp, objs, mtime, clock, exec, snap, before, touched,
                       remote, listing, asked, deleted, restamped>>
    PROVE  IndInv'
  <1>1. DataInv' /\ JobInv' /\ ExecInv' /\ SnapInv' /\ Document' = Document
    BY QuietStep
  <1>2. Pulled' = Pulled /\ \A k : Backed(k) => Backed(k)'
    BY <1>1 DEF Pulled, Backed
  <1>3. /\ pull'.pc = step /\ pull'.todo = pull.todo /\ pull'.failed = pull.failed
        /\ pull' \in [pc : {"idle", "entry", "get", "follow", "put", "register"},
                      todo : SUBSET Keys, body : Times, failed : SUBSET Keys]
    BY DEF GoTo, IndInv, RemoteInv
  <1>4. RemoteInv'
    BY <1>3 DEF IndInv, RemoteInv
  <1>5. ASSUME NEW k \in Pulled PROVE PullKey(k)'
    <2>1. PullKey(k) /\ Backed(k)
      BY PullKeyFacts
    <2>2. Backed(k)' /\ (Delivered(k) => Delivered(k)')
      BY <1>2, <1>3, <2>1 DEF Delivered
    <2> QED BY <1>3, <2>1, <2>2 DEF PullKey
  <1>6. PullInv'
    BY <1>2, <1>5 DEF PullInv
  <1> QED BY <1>1, <1>4, <1>6 DEF IndInv

\* What is skipped as up to date is backed by the content it claims.
LEMMA CheckStep ==
    ASSUME IndInv, CheckEntry
    PROVE  IndInv'
  <1>1. /\ pull.todo # {}
        /\ UNCHANGED <<where, stamp, objs, mtime, clock, exec, snap, before, touched,
                       remote, listing, asked, deleted, restamped>>
    BY DEF CheckEntry, catalog, storage, Others, remoteVars
  <1>2. CASE alreadyUpToDate(Current) /\ Handled
    <2>1. Current \in Pulled => asked[Current] <= objs[Target][Current]
      <3> SUFFICES ASSUME Current \in Pulled PROVE asked[Current] <= objs[Target][Current]
        OBVIOUS
      <3>1. Backed(Current) /\ Current \in Keys
        BY PullKeyFacts
      <3>2. where[Current] = Target /\ asked[Current] <= stamp[Current]
        BY <1>2, <3>1, PullFacts DEF alreadyUpToDate, ListedAt
      <3>3. stamp[Current] <= objs[Target][Current]
        BY <3>1, <3>2 DEF Backed
      <3> QED BY <3>1, <3>2, <3>3, PullFacts
    <2> QED BY <1>1, <1>2, <2>1, HandledStep
  <1>3. CASE GoTo("get")
    BY <1>1, <1>3, GoOnStep
  <1> QED BY <1>2, <1>3 DEF CheckEntry

\* The remote redirects, or the entry fails.
LEMMA GetStep ==
    ASSUME IndInv, GetRoute
    PROVE  IndInv'
  <1>1. UNCHANGED <<where, stamp, objs, mtime, clock, exec, snap, before, touched,
                    remote, listing, asked, deleted, restamped>>
    BY DEF GetRoute, catalog, storage, Others, remoteVars
  <1>2. pull.todo # {}
    BY DEF GetRoute, IndInv, RemoteInv
  <1> QED BY <1>1, <1>2, GoOnStep, HandledStep DEF GetRoute

\* What the remote's storage has by now is no older than what it listed, nor than
\* what an earlier pull stored.
LEMMA FollowStep ==
    ASSUME IndInv, fetchRedirectTarget
    PROVE  IndInv'
  <1>1. UNCHANGED <<where, stamp, objs, mtime, clock, exec, snap, before, touched,
                    remote, listing, asked, deleted, restamped>>
    BY DEF fetchRedirectTarget, catalog, storage, Others, remoteVars
  <1>2. pull.todo # {}
    BY DEF fetchRedirectTarget, IndInv, RemoteInv
  <1>3. CASE Fails
    BY <1>1, <1>2, <1>3, HandledStep
  <1>4. CASE /\ remote[Current] # 0
             /\ pull' = [pull EXCEPT !.pc = "put", !.body = remote[Current]]
    <2>1. DataInv' /\ JobInv' /\ ExecInv' /\ SnapInv' /\ Document' = Document
      BY <1>1, QuietStep
    <2>2. Pulled' = Pulled /\ \A k : Backed(k) => Backed(k)'
      BY <1>1, <2>1 DEF Pulled, Backed
    <2>3. remote[Current] \in Times
      BY <1>2, PullFacts DEF IndInv, RemoteInv
    <2>4. /\ pull'.pc = "put" /\ pull'.body = remote[Current]
          /\ pull'.todo = pull.todo /\ pull'.failed = pull.failed
          /\ pull' \in [pc : {"idle", "entry", "get", "follow", "put", "register"},
                        todo : SUBSET Keys, body : Times, failed : SUBSET Keys]
      BY <1>4, <2>3 DEF IndInv, RemoteInv
    <2>5. RemoteInv'
      BY <1>1, <1>2, <2>4 DEF IndInv, RemoteInv
    <2>6. Current' = Current
      BY <2>4 DEF Current
    <2>7. ASSUME NEW k \in Pulled PROVE PullKey(k)'
      <3>1. PullKey(k) /\ Backed(k) /\ k \in Keys
        BY PullKeyFacts
      <3>2. Backed(k)' /\ (Delivered(k) => Delivered(k)')
        BY <1>1, <2>2, <2>4, <3>1 DEF Delivered
      <3>3. k = Current => /\ objs[Target][k] <= remote[k] /\ asked[k] <= remote[k]
                           /\ remote[k] <= clock /\ remote[k] <= remote[k]
        BY <1>4, <3>1, PullFacts DEF PullKey
      <3> QED BY <1>1, <2>4, <2>6, <3>1, <3>2, <3>3 DEF PullKey
    <2>8. PullInv'
      BY <2>2, <2>7 DEF PullInv
    <2> QED BY <2>1, <2>5, <2>8 DEF IndInv
  <1> QED BY <1>3, <1>4 DEF fetchRedirectTarget

\* The PUT replaces what is stored by something no older.
LEMMA PutStep ==
    ASSUME IndInv, PutPulled
    PROVE  IndInv'
  <1>1. /\ pull.pc = "put" /\ Stored(Current)
        /\ UNCHANGED <<where, stamp, clock, exec, snap, before, remote, listing, asked,
                       deleted, restamped>>
    BY DEF PutPulled, catalog, Others, remoteVars
  <1>2. pull.todo # {}
    BY <1>1 DEF IndInv, RemoteInv
  <1>3. Current \in pull.todo /\ Current \in Keys /\ Current \notin pull.failed /\ Target \in Bucket
    BY <1>2, PullFacts
  <1>4. /\ touched' \in [Jobs -> SUBSET Keys]
        /\ touched["exec"] \subseteq touched'["exec"]
        /\ exec.pc # "idle" => Current \in touched'["exec"]
        /\ touched'["snap"] = touched["snap"]
    BY <1>1, <1>3, StoredFacts DEF IndInv, Jobs
  <1>5. JobInv' /\ SnapInv'
    <2>1. JobInv'
      BY <1>1, <1>4 DEF IndInv, JobInv
    <2>2. SnapInv'
      BY <1>1, <1>4, SnapFrame DEF IndInv
    <2> QED BY <2>1, <2>2
  <1>6. Document' = Document /\ Pulled' = Pulled
    BY <1>1 DEF Document, Pulled
  <1>7. CASE /\ objs' = [objs EXCEPT ![Target][Current] = pull.body]
             /\ mtime' = [mtime EXCEPT ![Target][Current] = clock]
             /\ GoTo("register")
    <2>1. pull.body \in Times /\ clock \in Times
      BY DEF IndInv, RemoteInv, DataInv, Times
    <2>2. objs \in [Bucket -> [Keys -> Times]] /\ mtime \in [Bucket -> [Keys -> Times]]
      BY DEF IndInv, DataInv
    <2>3. /\ objs' \in [Bucket -> [Keys -> Times]] /\ mtime' \in [Bucket -> [Keys -> Times]]
          /\ objs'[Target][Current] = pull.body
          /\ \A c \in Bucket, j \in Keys : c # Target \/ j # Current => objs'[c][j] = objs[c][j]
      BY <1>3, <1>7, <2>1, <2>2, ObjectFacts
    <2>4. DataInv'
      BY <1>1, <2>3 DEF IndInv, DataInv
    <2>5. ExecInv'
      BY <1>1, <1>4, <2>3, ExecFrame DEF IndInv
    <2>6. /\ pull'.pc = "register" /\ pull'.todo = pull.todo /\ pull'.failed = pull.failed
          /\ pull' \in [pc : {"idle", "entry", "get", "follow", "put", "register"},
                        todo : SUBSET Keys, body : Times, failed : SUBSET Keys]
      BY <1>7 DEF GoTo, IndInv, RemoteInv
    <2>7. RemoteInv' /\ Current' = Current
      BY <1>1, <1>2, <2>6 DEF IndInv, RemoteInv, Current
    <2>8. ASSUME NEW k \in Pulled PROVE PullKey(k)'
      <3>1. PullKey(k) /\ Backed(k) /\ k \in Keys
        BY PullKeyFacts
      <3>2. CASE k = Current
        <4>1. /\ objs[Target][k] <= pull.body /\ asked[k] <= pull.body /\ pull.body <= clock
              /\ remote[k] # 0 => pull.body <= remote[k]
          BY <1>1, <3>1, <3>2 DEF PullKey
        <4>2. Backed(k)'
          <5>1. where[k] = Target => stamp[k] <= pull.body
            BY <3>1, <4>1, PullFacts DEF Backed
          <5>2. \A x \in Document : x.key = k /\ x.at = Target => x.lm <= pull.body
            BY <3>1, <4>1, PullFacts DEF Backed
          <5> QED BY <1>1, <1>6, <2>3, <3>2, <5>1, <5>2 DEF Backed
        <4>3. k \in pull'.todo
          BY <1>3, <2>6, <3>2
        <4> QED BY <1>1, <2>3, <2>6, <2>7, <3>1, <3>2, <4>1, <4>2, <4>3 DEF PullKey
      <3>3. CASE k # Current
        <4>1. objs'[Target][k] = objs[Target][k]
          BY <1>3, <2>3, <3>1, <3>3
        <4>2. Backed(k)' /\ (Delivered(k) => Delivered(k)')
          BY <1>1, <1>6, <2>6, <3>1, <4>1 DEF Backed, Delivered
        <4> QED BY <1>1, <2>6, <2>7, <3>1, <3>3, <4>1, <4>2 DEF PullKey
      <3> QED BY <3>2, <3>3
    <2>9. PullInv'
      BY <1>6, <2>8 DEF PullInv
    <2> QED BY <1>5, <2>4, <2>5, <2>7, <2>9 DEF IndInv
  <1>8. CASE Fails /\ UNCHANGED <<objs, mtime>>
    <2>1. DataInv'
      BY <1>1, <1>8 DEF IndInv, DataInv
    <2>2. ExecInv'
      BY <1>1, <1>4, <1>8, ExecFrame DEF IndInv
    <2>3. /\ pull'.pc = "entry" /\ pull'.todo = pull.todo \ {Current}
          /\ pull'.failed = pull.failed \cup {Current}
          /\ pull' \in [pc : {"idle", "entry", "get", "follow", "put", "register"},
                        todo : SUBSET Keys, body : Times, failed : SUBSET Keys]
      <3>1. 0 \in Times
        BY MaintenanceAssumption DEF Times
      <3> QED BY <1>3, <1>8, <3>1 DEF Fails, IndInv, RemoteInv
    <2>4. RemoteInv'
      BY <1>1, <1>3, <2>3 DEF IndInv, RemoteInv
    <2>5. ASSUME NEW k \in Pulled PROVE PullKey(k)'
      <3>1. PullKey(k) /\ Backed(k)
        BY PullKeyFacts
      <3>2. Backed(k)'
        BY <1>1, <1>6, <1>8, <3>1 DEF Backed
      <3>3. k \notin pull'.todo => Delivered(k)'
        BY <1>1, <1>8, <2>3, <3>1 DEF PullKey, Delivered
      <3> QED BY <1>1, <1>8, <2>3, <3>1, <3>2, <3>3 DEF PullKey
    <2>6. PullInv'
      BY <1>6, <2>5 DEF PullInv
    <2> QED BY <1>5, <2>1, <2>2, <2>4, <2>6 DEF IndInv
  <1> QED BY <1>7, <1>8 DEF PutPulled, storage

\* The pulled key is registered with the time the remote gave for it.
LEMMA RegisterStep ==
    ASSUME IndInv, RegisterPulled
    PROVE  IndInv'
  <1>1. /\ pull.pc = "register" /\ Register(Current, Target, ListedAt(Current))
        /\ Touch({Current}, "pull") /\ Handled
        /\ UNCHANGED <<objs, mtime, clock, exec, snap, before, remote, listing, asked,
                       deleted, restamped>>
    BY DEF RegisterPulled, storage, Others, remoteVars
  <1>2. pull.todo # {}
    BY <1>1 DEF IndInv, RemoteInv
  <1>3. Current \in pull.todo /\ Current \in Keys /\ Current \notin pull.failed /\ Target \in Bucket
    BY <1>2, PullFacts
  <1>4. ListedAt(Current) \in Times /\ ListedAt(Current) <= asked[Current]
    <2>1. asked[Current] \in Times /\ 0 \in Times
      BY <1>3, MaintenanceAssumption DEF IndInv, RemoteInv, Times
    <2>2. 0 <= asked[Current] /\ asked[Current] <= asked[Current]
      BY <1>3, PullFacts
    <2> QED BY <2>1, <2>2 DEF ListedAt
  <1>5. DataInv /\ JobInv
    BY DEF IndInv
  <1>6. /\ where' \in [Keys -> Bucket \cup {NoBucket}]
        /\ stamp' \in [Keys -> Times]
        /\ \A j \in Keys : where'[j] = NoBucket => stamp'[j] = 0
        /\ \A j \in Keys \ {Current} : where'[j] = where[j] /\ stamp'[j] = stamp[j]
        /\ \/ where'[Current] = where[Current] /\ stamp'[Current] = stamp[Current]
           \/ where'[Current] = Target /\ stamp'[Current] = ListedAt(Current)
    BY <1>1, <1>3, <1>4, <1>5, EntryFacts
  <1>7. /\ touched' \in [Jobs -> SUBSET Keys]
        /\ touched["exec"] \subseteq touched'["exec"] /\ touched["snap"] \subseteq touched'["snap"]
        /\ exec.pc # "idle" => Current \in touched'["exec"]
        /\ snap.pc \in {"capture", "load"} => Current \in touched'["snap"]
    <2>1. "exec" \in Jobs /\ "snap" \in Jobs
      BY DEF Jobs
    <2>2. PICK ks \in SUBSET Keys : ks = {Current}
      BY <1>3
    <2>3. Touch(ks, "pull")
      BY <1>1, <2>2
    <2>4. /\ touched' \in [Jobs -> SUBSET Keys]
          /\ \A i \in Jobs : touched[i] \subseteq touched'[i]
          /\ exec.pc # "idle" => ks \subseteq touched'["exec"]
          /\ snap.pc \in {"capture", "load"} => ks \subseteq touched'["snap"]
      BY <1>5, <2>3, TouchFacts
    <2> QED BY <2>1, <2>2, <2>4
  <1>8. DataInv' /\ JobInv'
    BY <1>1, <1>5, <1>6, <1>7 DEF DataInv, JobInv
  <1>9. ExecInv'
    BY <1>1, <1>6, <1>7, ExecFrame DEF IndInv
  <1>10. SnapInv'
    BY <1>1, <1>6, <1>7, SnapFrame DEF IndInv
  <1>11. /\ pull'.pc = "entry" /\ pull'.todo = pull.todo \ {Current}
         /\ pull'.failed = pull.failed
         /\ pull' \in [pc : {"idle", "entry", "get", "follow", "put", "register"},
                       todo : SUBSET Keys, body : Times, failed : SUBSET Keys]
    <2>1. 0 \in Times
      BY MaintenanceAssumption DEF Times
    <2> QED BY <1>1, <1>3, <2>1 DEF Handled, IndInv, RemoteInv
  <1>12. RemoteInv'
    BY <1>1, <1>3, <1>11 DEF IndInv, RemoteInv
  <1>13. Document' = Document /\ Pulled' = Pulled
    BY <1>1 DEF Document, Pulled
  <1>14. ASSUME NEW k \in Pulled PROVE PullKey(k)'
    <2>1. PullKey(k) /\ Backed(k) /\ k \in Keys
      BY PullKeyFacts
    <2>2. k = Current => asked[k] <= objs[Target][k]
      BY <1>1, <2>1 DEF PullKey
    <2>3. where'[k] = Target => stamp'[k] <= objs[Target][k]
      <3>1. CASE k = Current /\ stamp'[k] = ListedAt(k)
        <4>1. ListedAt(k) \in Nat
          BY <1>4, <3>1, MaintenanceAssumption DEF Times
        <4> QED BY <1>4, <2>1, <2>2, <3>1, <4>1, PullFacts
      <3>2. CASE where'[k] = where[k] /\ stamp'[k] = stamp[k]
        BY <2>1, <3>2 DEF Backed
      <3> QED BY <1>6, <2>1, <3>1, <3>2
    <2>4. Backed(k)'
      BY <1>1, <1>13, <2>1, <2>3 DEF Backed
    <2>5. k \notin pull'.todo => Delivered(k)'
      BY <1>1, <1>11, <2>1, <2>2 DEF PullKey, Delivered
    <2> QED BY <1>1, <1>11, <2>1, <2>4, <2>5 DEF PullKey
  <1>15. PullInv'
    BY <1>13, <1>14 DEF PullInv
  <1> QED BY <1>8, <1>9, <1>10, <1>12, <1>15 DEF IndInv

\* The pull ends.
LEMMA PullDoneStep ==
    ASSUME IndInv, PullDone
    PROVE  IndInv'
  <1>1. /\ pull' = NoPull /\ asked' = NotAsked
        /\ UNCHANGED <<where, stamp, objs, mtime, clock, exec, snap, before, touched,
                       remote, listing, deleted, restamped>>
    BY DEF PullDone, vars, catalog, storage, counts, history, remoteVars
  <1>2. DataInv' /\ JobInv' /\ ExecInv' /\ SnapInv' /\ Document' = Document
    BY <1>1, QuietStep
  <1>3. Pulled' = Pulled /\ \A k : Backed(k) => Backed(k)'
    BY <1>1, <1>2 DEF Pulled, Backed
  <1>4. 0 \in Times
    BY MaintenanceAssumption DEF Times
  <1>5. /\ asked' \in [Keys -> Times] /\ \A k \in Keys : asked'[k] = 0
        /\ pull'.pc = "idle" /\ pull'.todo = {} /\ pull'.failed = {}
        /\ pull' \in [pc : {"idle", "entry", "get", "follow", "put", "register"},
                      todo : SUBSET Keys, body : Times, failed : SUBSET Keys]
    BY <1>1, <1>4 DEF NotAsked, NoPull
  <1>6. RemoteInv'
    BY <1>1, <1>5 DEF IndInv, RemoteInv
  <1>7. ASSUME NEW k \in Pulled PROVE PullKey(k)'
    <2>1. PullKey(k) /\ Backed(k) /\ k \in Keys
      BY PullKeyFacts
    <2>2. asked'[k] <= objs[Target][k] /\ asked'[k] <= listing[k]
      BY <1>5, <2>1, PullFacts
    <2>3. Backed(k)' /\ Delivered(k)'
      BY <1>1, <1>3, <2>1, <2>2 DEF Delivered
    <2> QED BY <1>1, <1>5, <2>1, <2>2, <2>3 DEF PullKey
  <1>8. PullInv'
    BY <1>3, <1>7 DEF PullInv
  <1> QED BY <1>2, <1>6, <1>8 DEF IndInv

\* The remote changes: its times only grow.
LEMMA RemoteStep ==
    ASSUME IndInv, NEW k \in Keys, RemoteUpload(k) \/ RemoteDelete(k) \/ RemoteSync(k)
    PROVE  IndInv'
  <1>1. /\ UNCHANGED <<where, stamp, objs, mtime, exec, snap, before, touched,
                       pull, asked, deleted, restamped>>
    BY DEF RemoteUpload, RemoteDelete, RemoteSync, vars, catalog, storage, counts, history,
           pullVars
  <1>2. /\ clock' \in 1 .. MaxTime /\ clock <= clock'
        /\ remote' \in [Keys -> Times] /\ listing' \in [Keys -> Times]
        /\ \A j \in Pulled : /\ listing[j] <= listing'[j] /\ listing'[j] <= clock'
                             /\ remote'[j] <= clock'
                             /\ remote'[j] # 0 =>
                                   (remote[j] # 0 /\ remote'[j] = remote[j]) \/ remote'[j] = clock'
                             /\ remote'[j] # 0 => listing'[j] <= remote'[j]
    <2>1. /\ clock \in 1 .. MaxTime /\ remote \in [Keys -> Times] /\ listing \in [Keys -> Times]
          /\ MaxTime \in Nat
      BY MaintenanceAssumption DEF IndInv, DataInv, RemoteInv
    <2>2. \A j \in Pulled : /\ j \in Keys /\ listing[j] <= clock /\ remote[j] <= clock
                            /\ remote[j] # 0 => listing[j] <= remote[j]
      BY PullKeyFacts DEF PullKey
    <2>3. CASE RemoteUpload(k)
      <3>1. clock < MaxTime /\ clock' = clock + 1 /\ remote' = [remote EXCEPT ![k] = clock']
            /\ listing' = listing
        BY <2>3 DEF RemoteUpload
      <3>2. clock' \in 1 .. MaxTime /\ clock' \in Times /\ clock <= clock'
        BY <2>1, <3>1 DEF Times
      <3>3. \A j \in Keys : remote'[j] = IF j = k THEN clock' ELSE remote[j]
        BY <2>1, <3>1
      <3>4. \A j \in Keys : listing[j] \in Nat /\ remote[j] \in Nat
        BY <2>1 DEF Times
      <3>5. clock \in Nat /\ clock' \in Nat
        BY <2>1, <3>1
      <3> QED BY <2>1, <2>2, <3>1, <3>2, <3>3, <3>4, <3>5
    <2>4. CASE RemoteDelete(k)
      <3>1. remote' = [remote EXCEPT ![k] = 0] /\ listing' = listing /\ clock' = clock
        BY <2>4 DEF RemoteDelete
      <3>2. \A j \in Keys : remote'[j] = IF j = k THEN 0 ELSE remote[j]
        BY <2>1, <3>1
      <3>3. 0 \in Times /\ clock \in Nat /\ \A j \in Keys : listing[j] \in Nat
        BY <2>1 DEF Times
      <3> QED BY <2>1, <2>2, <3>1, <3>2, <3>3
    <2>5. CASE RemoteSync(k)
      <3>1. /\ remote[k] # 0 /\ listing' = [listing EXCEPT ![k] = remote[k]]
            /\ remote' = remote /\ clock' = clock
        BY <2>5 DEF RemoteSync, vars, counts
      <3>2. \A j \in Keys : listing'[j] = IF j = k THEN remote[j] ELSE listing[j]
        BY <2>1, <3>1
      <3>3. clock \in Nat /\ \A j \in Keys : listing[j] \in Nat /\ remote[j] \in Nat
        BY <2>1 DEF Times
      <3> QED BY <2>1, <2>2, <3>1, <3>2, <3>3
    <2> QED BY <2>3, <2>4, <2>5
  <1>3. DataInv' /\ JobInv' /\ RemoteInv'
    BY <1>1, <1>2 DEF IndInv, DataInv, JobInv, RemoteInv
  <1>4. ExecInv'
    BY <1>1, ExecFrame DEF IndInv
  <1>5. SnapInv'
    BY <1>1, SnapFrame DEF IndInv
  <1>6. Document' = Document /\ Pulled' = Pulled /\ Current' = Current
    BY <1>1 DEF Document, Pulled, Current
  <1>7. ASSUME NEW j \in Pulled PROVE PullKey(j)'
    <2>1. PullKey(j) /\ Backed(j) /\ j \in Keys
      BY PullKeyFacts
    <2>2. Backed(j)' /\ (Delivered(j) => Delivered(j)')
      BY <1>1, <1>6, <2>1 DEF Backed, Delivered
    <2>3. clock' \in Nat /\ remote'[j] \in Nat /\ listing'[j] \in Nat
      BY <1>2, <2>1, MaintenanceAssumption DEF Times
    <2>4. /\ objs[Target][j] <= clock' /\ asked[j] <= listing'[j]
          /\ remote'[j] # 0 => objs[Target][j] <= remote'[j]
      BY <1>2, <2>1, <2>3, PullFacts DEF PullKey
    <2>5. pull.pc = "put" /\ j = Current =>
              /\ objs[Target][j] <= pull.body /\ asked[j] <= pull.body
              /\ pull.body <= clock' /\ (remote'[j] # 0 => pull.body <= remote'[j])
      BY <1>2, <2>1, <2>3, PullFacts DEF PullKey
    <2> QED BY <1>1, <1>2, <1>6, <2>1, <2>2, <2>4, <2>5 DEF PullKey
  <1>8. PullInv'
    BY <1>6, <1>7 DEF PullInv
  <1> QED BY <1>3, <1>4, <1>5, <1>8 DEF IndInv
-----------------------------------------------------------------------------
\* Nothing has been done at the start.
LEMMA InitInd == ReplicationInit => IndInv
  <1> SUFFICES ASSUME ReplicationInit PROVE IndInv
    OBVIOUS
  <1>1. /\ objs \in [Bucket -> [Keys -> {0, 1}]]
        /\ mtime = [b \in Bucket |-> [k \in Keys |-> 1]]
        /\ where \in [Keys -> Bucket \cup {NoBucket}]
        /\ \A k \in Keys : where[k] # NoBucket => objs[where[k]][k] # 0
        /\ stamp = [k \in Keys |-> IF where[k] # NoBucket THEN 1 ELSE 0]
        /\ clock = 1 /\ exec = NoCleanup /\ snap = NoSnapshot
        /\ before = [j \in Jobs |-> Never] /\ touched = [j \in Jobs |-> {}]
    BY DEF ReplicationInit, Init, Registered, Jobs
  <1>2. /\ remote = [k \in Keys |-> 1] /\ listing = [k \in Keys |-> 1]
        /\ pull = NoPull /\ asked = [k \in Keys |-> 0]
    BY DEF ReplicationInit, NotAsked
  <1>3. {0, 1} \subseteq Times /\ 1 \in 1 .. MaxTime
    BY MaintenanceAssumption DEF Times
  <1>4. DataInv
    BY <1>1, <1>3 DEF DataInv
  <1>5. JobInv
    <2>1. /\ exec.pc = "idle" /\ exec.at = << >> /\ exec.todo = {} /\ exec.failed = {}
          /\ exec \in [pc : {"idle", "delete", "remove"}, at : {exec.at},
                       todo : SUBSET Keys, failed : SUBSET Keys]
      BY <1>1 DEF NoCleanup
    <2>2. DOMAIN exec.at = {}
      BY <2>1, NoArguments, Zenon
    <2>3. /\ snap.pc = "idle" /\ snap.doc = {}
          /\ snap \in [pc : {"idle", "capture", "captured", "load"}, todo : {snap.todo},
                       doc : SUBSET Items]
      BY <1>1 DEF NoSnapshot
    <2> QED BY <1>1, <2>1, <2>2, <2>3 DEF JobInv
  <1>6. RemoteInv
    <2>1. /\ pull.pc = "idle" /\ pull.todo = {} /\ pull.failed = {}
          /\ pull \in [pc : {"idle", "entry", "get", "follow", "put", "register"},
                       todo : SUBSET Keys, body : Times, failed : SUBSET Keys]
      BY <1>2, <1>3 DEF NoPull
    <2> QED BY <1>2, <1>3, <2>1 DEF RemoteInv
  <1>7. ExecInv /\ SnapInv
    BY <1>1 DEF ExecInv, SnapInv, NoCleanup, NoSnapshot
  <1>8. ASSUME NEW k \in Pulled PROVE PullKey(k)
    <2>1. k \in Keys
      BY DEF Pulled
    <2>2. Document = {} /\ pull.pc = "idle"
      BY <1>1, <1>2 DEF Document, NoSnapshot, NoPull
    <2>3. objs[Target][k] \in {0, 1} /\ asked[k] = 0 /\ listing[k] = 1 /\ remote[k] = 1
      BY <1>1, <1>2, <2>1, ReplicationAssumption
    <2>4. where[k] = Target => objs[Target][k] = 1 /\ stamp[k] = 1
      BY <1>1, <2>1, <2>3, MaintenanceAssumption, ReplicationAssumption
    <2>5. Backed(k)
      BY <2>2, <2>4 DEF Backed
    <2>6. Delivered(k)
      BY <2>3 DEF Delivered
    <2> QED BY <1>1, <2>2, <2>3, <2>5, <2>6 DEF PullKey
  <1> QED BY <1>4, <1>5, <1>6, <1>7, <1>8 DEF IndInv, PullInv

\* Every step keeps the invariant.
LEMMA NextInd == IndInv /\ [ReplicationNext]_allVars => IndInv'
  <1> SUFFICES ASSUME IndInv, [ReplicationNext]_allVars PROVE IndInv'
    OBVIOUS
  <1>1. CASE Local
    BY <1>1, LocalStep
  <1>2. CASE Pull
    BY <1>2, FetchStep, CheckStep, GetStep, FollowStep, PutStep, RegisterStep, PullDoneStep DEF Pull
  <1>3. CASE Remote
    BY <1>3, RemoteStep DEF Remote
  <1>4. CASE UNCHANGED allVars
    <2>1. UNCHANGED <<where, stamp, objs, mtime, clock, exec, snap, before, touched,
                      remote, listing, pull, asked, deleted, restamped>>
      BY <1>4 DEF allVars, vars, catalog, storage, counts, history, remoteVars, pullVars
    <2>2. DataInv' /\ JobInv' /\ ExecInv' /\ SnapInv' /\ Document' = Document
      BY <2>1, QuietStep
    <2>3. RemoteInv'
      BY <2>1 DEF IndInv, RemoteInv
    <2>4. Pulled' = Pulled /\ Current' = Current
      BY <2>1 DEF Pulled, Current
    <2>5. ASSUME NEW k \in Pulled PROVE PullKey(k)'
      <3>1. PullKey(k) /\ Backed(k)
        BY PullKeyFacts
      <3>2. Backed(k)' /\ (Delivered(k) => Delivered(k)')
        BY <2>1, <2>2, <3>1 DEF Backed, Delivered
      <3> QED BY <2>1, <2>4, <3>1, <3>2 DEF PullKey
    <2>6. PullInv'
      BY <2>4, <2>5 DEF PullInv
    <2> QED BY <2>2, <2>3, <2>6 DEF IndInv
  <1> QED BY <1>1, <1>2, <1>3, <1>4 DEF ReplicationNext

\* The invariant holds in every reachable state.
LEMMA IndInductive == ReplicationSpec => []IndInv
  BY InitInd, NextInd, PTL DEF ReplicationSpec

\* The catalog, the storage, the jobs and the remote keep their types; in
\* particular the loops of Execute and Pull account for each of their keys.
THEOREM ReplicationTypeCorrect == ReplicationSpec => []TypeOK
  <1>1. ASSUME IndInv PROVE TypeOK
    <2>1. DataInv /\ JobInv /\ RemoteInv
      BY <1>1 DEF IndInv
    <2> QED BY <2>1 DEF TypeOK, DataInv, JobInv, RemoteInv, Times, Items
  <1> QED BY IndInductive, <1>1, PTL

\* When a cleanup ends, a key that nobody else changed since the plan is gone if it
\* was a victim whose delete succeeded, and is as it was planned if it was not.
THEOREM ExecuteIsExact == ReplicationSpec => []ExecuteExact
  <1>1. ASSUME IndInv PROVE ExecuteExact
    <2> SUFFICES ASSUME exec.pc = "delete", exec.todo = {}, NEW k \in Keys \ touched["exec"]
                 PROVE  LET gone == k \in DOMAIN exec.at \ exec.failed IN
                        /\ where[k] = IF gone THEN NoBucket ELSE before["exec"].where[k]
                        /\ \A b \in Bucket :
                              objs[b][k] = IF gone /\ b = exec.at[k] THEN 0
                                           ELSE before["exec"].objs[b][k]
      BY DEF ExecuteExact
    <2>1. Removed = DOMAIN exec.at \ exec.failed /\ Erased = Removed
      BY DEF Removed, Erased
    <2> QED BY <1>1, <2>1 DEF IndInv, ExecInv
  <1> QED BY IndInductive, <1>1, PTL

\* When a restore ends, a key that nobody else changed while the capture and the
\* restore ran has the entry it had when the capture began.
THEOREM RestoreBringsBack == ReplicationSpec => []RoundTrip
  <1>1. ASSUME IndInv PROVE RoundTrip
    <2> SUFFICES ASSUME snap.pc = "load", snap.todo = {}, NEW k \in Keys \ touched["snap"]
                 PROVE  /\ where[k] = before["snap"].where[k]
                        /\ stamp[k] = before["snap"].stamp[k]
      BY DEF RoundTrip
    <2>1. SnapKey(k)
      BY <1>1 DEF IndInv, SnapInv
    <2> QED BY <2>1 DEF SnapKey, Kept
  <1> QED BY IndInductive, <1>1, PTL

\* When a pull ends, every key the remote listed is stored in the content it listed
\* or a later one, or is reported as failed, whatever changed on the remote, in
\* the catalog or in the storage meanwhile.
THEOREM PullsDeliver == ReplicationSpec => []PullDelivers
  <1>1. ASSUME IndInv PROVE PullDelivers
    <2> SUFFICES ASSUME pull.todo = {}, NEW k \in Keys \ (deleted \cup restamped)
                 PROVE  Delivered(k)
      BY DEF PullDelivers
    <2>1. PullKey(k)
      BY <1>1 DEF IndInv, PullInv, Pulled
    <2> QED BY <2>1 DEF PullKey
  <1> QED BY IndInductive, <1>1, PTL
=============================================================================
