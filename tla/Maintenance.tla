----------------------------- MODULE Maintenance -----------------------------
(***************************************************************************)
(* The jobs an operator runs beside the service, over the catalog and the  *)
(* storage that requests and the sync keep changing: cleanup.Execute,      *)
(* snapshot.Capture and snapshot.Restore.  Each takes the catalog's lock   *)
(* once per catalog call and none across calls.                            *)
(*                                                                         *)
(* The catalog is the owner and the LastModified of every key; the storage *)
(* is the content of every object.  What the resolver does to them is      *)
(* reduced to its effects, one catalog call each (module Resolver has the  *)
(* handlers).  Times are numbers and 0 is the empty string, which sorts    *)
(* before every real timestamp.                                            *)
(***************************************************************************)
EXTENDS Naturals

CONSTANTS
    Keys,       \* object keys, numbered in the order of their names
    Bucket,     \* buckets, numbered in the order of their names
    NoBucket,
    Priority,   \* bucket -> rank
    MaxTime,    \* bound on the clock
    MaxChanges, \* bound on what requests, the sync and other writers do
    MaxErrors,  \* bound on failing calls
    MaxJobs     \* bound on jobs started

ASSUME MaintenanceAssumption ==
    /\ Keys \subseteq Nat
    /\ Bucket \subseteq Nat
    /\ NoBucket \notin Bucket
    /\ Priority \in [Bucket -> Nat]
    /\ MaxTime \in Nat \ {0} /\ MaxChanges \in Nat /\ MaxErrors \in Nat /\ MaxJobs \in Nat

VARIABLES
    where,      \* key -> owner                      \ the catalog
    stamp,      \* key -> LastModified of the entry  /
    objs,       \* bucket -> key -> content; 0: no such object
    mtime,      \* bucket -> key -> time of the last PUT
    clock,
    exec,       \* the cleanup job: owner of each victim, victims still to do, failed
    snap,       \* the snapshot job: the document, and what is still to do
    changes, errors, jobs,
    \* History, read by the properties only:
    before,     \* job -> catalog and storage when it began
    touched     \* job -> keys somebody else changed while it ran

catalog == <<where, stamp>>
storage == <<objs, mtime>>
counts == <<clock, changes, errors, jobs>>
history == <<before, touched>>
vars == <<catalog, storage, counts, exec, snap, history>>

Cat == INSTANCE Registry WITH Buckets <- Bucket

Registered(k) == where[k] # NoBucket

\* Catalog.Register and Catalog.Set with the entry's timestamp.
Register(k, b, lm) ==
    /\ Cat!Claim(k, b)
    /\ stamp' = IF Registered(k) /\ Priority[where[k]] < Priority[b]
                THEN stamp
                ELSE [stamp EXCEPT ![k] = lm]
Set(k, b, lm) == Cat!Place(k, b) /\ stamp' = [stamp EXCEPT ![k] = lm]
Remove(k) == Cat!Drop(k) /\ stamp' = [stamp EXCEPT ![k] = 0]

\* The keys ks change under every running job but j.  (A document that has been
\* captured and waits to be restored is not a running job.)
Running == {j \in {"exec", "snap"} :
               IF j = "exec" THEN exec.pc # "idle" ELSE snap.pc \in {"capture", "load"}}
Touch(ks, j) ==
    touched' = [i \in DOMAIN touched |->
                   IF i \in Running \ {j} THEN touched[i] \cup ks ELSE touched[i]]
\* A PUT of k changes the storage under a running cleanup.
Stored(k) ==
    touched' = [touched EXCEPT !.exec = IF "exec" \in Running THEN @ \cup {k} ELSE @]

Now == [where |-> where, stamp |-> stamp, objs |-> objs]
Never == [where |-> {}, stamp |-> {}, objs |-> {}]

CallFails == errors < MaxErrors /\ errors' = errors + 1

StartJob == jobs < MaxJobs /\ jobs' = jobs + 1

First(S) == CHOOSE x \in S : \A y \in S : x <= y
-----------------------------------------------------------------------------
(***************************************************************************)
(* cleanup.Execute.  The victims are entries of the catalog, picked by     *)
(* Rule.Plan (module Retention), here any of them.                         *)
(***************************************************************************)
NoCleanup == [pc |-> "idle", at |-> <<>>, todo |-> {}, failed |-> {}]

PlanCleanup(V) ==
    /\ exec.pc = "idle"
    /\ V # {}
    /\ \A k \in V : Registered(k)
    /\ StartJob
    /\ exec' = [pc |-> "delete", at |-> [k \in V |-> where[k]], todo |-> V, failed |-> {}]
    /\ before' = [before EXCEPT !.exec = Now]
    /\ UNCHANGED <<catalog, storage, snap, clock, changes, errors, touched>>

\* The DeleteObject of the next victim, in the bucket its entry named.
DeleteAborting ==   \* faulty
    LET k == First(exec.todo) IN
    /\ exec.pc = "delete" /\ exec.todo # {}
    /\ \/ /\ objs' = [objs EXCEPT ![exec.at[k]][k] = 0]
          /\ exec' = [exec EXCEPT !.pc = "remove"]
          /\ UNCHANGED errors
       \/ /\ CallFails
          /\ exec' = [exec EXCEPT !.todo = {}, !.failed = @ \cup {k}]
          /\ UNCHANGED objs
    /\ UNCHANGED <<catalog, mtime, snap, clock, changes, jobs, history>>
DeleteVictim ==
    LET k == First(exec.todo) IN
    /\ exec.pc = "delete" /\ exec.todo # {}
    /\ \/ /\ objs' = [objs EXCEPT ![exec.at[k]][k] = 0]
          /\ exec' = [exec EXCEPT !.pc = "remove"]
          /\ UNCHANGED errors
       \/ /\ CallFails
          /\ exec' = [exec EXCEPT !.todo = @ \ {k}, !.failed = @ \cup {k}]
          /\ UNCHANGED objs
    /\ UNCHANGED <<catalog, mtime, snap, clock, changes, jobs, history>>

\* cat.Remove of a victim whose object is deleted.
RemoveVictim ==
    LET k == First(exec.todo) IN
    /\ exec.pc = "remove"
    /\ Remove(k)
    /\ Touch({k}, "exec")
    /\ exec' = [exec EXCEPT !.pc = "delete", !.todo = @ \ {k}]
    /\ UNCHANGED <<storage, snap, counts, before>>

ExecuteDone ==
    /\ exec.pc = "delete" /\ exec.todo = {}
    /\ exec' = NoCleanup
    /\ before' = [before EXCEPT !.exec = Never]
    /\ touched' = [touched EXCEPT !.exec = {}]
    /\ UNCHANGED <<catalog, storage, snap, counts>>
-----------------------------------------------------------------------------
(***************************************************************************)
(* snapshot.Capture and snapshot.Restore.                                  *)
(***************************************************************************)

NoSnapshot == [pc |-> "idle", todo |-> {}, doc |-> {}]

\* Capture reads the list of all entries for the buckets they name ...
distinctBuckets == {where[k] : k \in {x \in Keys : Registered(x)}}

Capture ==
    /\ snap.pc = "idle"
    /\ StartJob
    /\ snap' = [pc |-> "capture", todo |-> distinctBuckets, doc |-> {}]
    /\ before' = [before EXCEPT !.snap = Now]
    /\ UNCHANGED <<catalog, storage, exec, clock, changes, errors, touched>>

\* ... and then the manifest of one bucket after the other.
ManifestForBucket(b) ==
    {[at |-> b, key |-> k, lm |-> stamp[k]] : k \in {x \in Keys : where[x] = b}}

CaptureBucket ==
    LET b == First(snap.todo) IN
    /\ snap.pc = "capture" /\ snap.todo # {}
    /\ snap' = [snap EXCEPT !.todo = @ \ {b}, !.doc = @ \cup ManifestForBucket(b)]
    /\ UNCHANGED <<catalog, storage, exec, counts, history>>

CaptureDone ==
    /\ snap.pc = "capture" /\ snap.todo = {}
    /\ snap' = [snap EXCEPT !.pc = "captured"]
    /\ UNCHANGED <<catalog, storage, exec, counts, history>>

\* Restore: LoadManifests clears the catalog ...
RestoreMerging ==   \* faulty
    /\ snap.pc = "captured"
    /\ snap' = [snap EXCEPT !.pc = "load", !.todo = snap.doc, !.doc = {}]
    /\ UNCHANGED <<catalog, storage, exec, counts, history>>
Restore ==
    /\ snap.pc = "captured"
    /\ snap' = [snap EXCEPT !.pc = "load", !.todo = snap.doc, !.doc = {}]
    /\ Cat!Reset
    /\ stamp' = [k \in Keys |-> 0]
    /\ Touch(Keys, "snap")
    /\ UNCHANGED <<storage, exec, counts, before>>

\* ... and registers the items of every manifest, bucket after bucket.
NextItem(S) ==
    CHOOSE x \in S : \A y \in S : x.at < y.at \/ (x.at = y.at /\ x.key <= y.key)

RestoreItem ==
    LET x == NextItem(snap.todo) IN
    /\ snap.pc = "load" /\ snap.todo # {}
    /\ Register(x.key, x.at, x.lm)
    /\ Touch({x.key}, "snap")
    /\ snap' = [snap EXCEPT !.todo = @ \ {x}]
    /\ UNCHANGED <<storage, exec, counts, before>>

RestoreDone ==
    /\ snap.pc = "load" /\ snap.todo = {}
    /\ snap' = NoSnapshot
    /\ before' = [before EXCEPT !.snap = Never]
    /\ touched' = [touched EXCEPT !.snap = {}]
    /\ UNCHANGED <<catalog, storage, exec, counts>>
-----------------------------------------------------------------------------
(***************************************************************************)
(* Requests, the sync and the other writers of the storage.                *)
(***************************************************************************)
Changes == changes < MaxChanges /\ changes' = changes + 1

\* The sync registers an object it listed.
RegisterListed(b, k) ==
    /\ Changes
    /\ objs[b][k] # 0
    /\ Register(k, b, mtime[b][k])
    /\ Touch({k}, "resolver")
    /\ UNCHANGED <<storage, clock, errors, jobs, exec, snap, before>>

\* A request found the object, or found that there is none.
PlaceFound(b, k) ==
    /\ Changes
    /\ objs[b][k] # 0
    /\ Set(k, b, mtime[b][k])
    /\ Touch({k}, "resolver")
    /\ UNCHANGED <<storage, clock, errors, jobs, exec, snap, before>>

DropMissing(k) ==
    /\ Changes
    /\ \A b \in Bucket : objs[b][k] = 0
    /\ Remove(k)
    /\ Touch({k}, "resolver")
    /\ UNCHANGED <<storage, clock, errors, jobs, exec, snap, before>>

Upload(b, k) ==
    /\ Changes
    /\ objs' = [objs EXCEPT ![b][k] = 1]
    /\ mtime' = [mtime EXCEPT ![b][k] = clock]
    /\ Stored(k)
    /\ UNCHANGED <<catalog, clock, errors, jobs, exec, snap, before>>

Resolver ==
    \/ \E b \in Bucket, k \in Keys :
           RegisterListed(b, k) \/ PlaceFound(b, k) \/ Upload(b, k)
    \/ \E k \in Keys : DropMissing(k)

Cleanup ==
    \/ \E V \in SUBSET Keys : PlanCleanup(V)
    \/ DeleteVictim
    \/ RemoveVictim
    \/ ExecuteDone

Snapshot ==
    \/ Capture
    \/ CaptureBucket
    \/ CaptureDone
    \/ Restore
    \/ RestoreItem
    \/ RestoreDone

\* Every storage and every catalog whose entries name objects that exist.
Init ==
    /\ objs \in [Bucket -> [Keys -> {0, 1}]]
    /\ mtime = [b \in Bucket |-> [k \in Keys |-> 1]]
    /\ where \in [Keys -> Bucket \cup {NoBucket}]
    /\ \A k \in Keys : Registered(k) => objs[where[k]][k] # 0
    /\ stamp = [k \in Keys |-> IF Registered(k) THEN 1 ELSE 0]
    /\ clock = 1
    /\ exec = NoCleanup
    /\ snap = NoSnapshot
    /\ changes = 0 /\ errors = 0 /\ jobs = 0
    /\ before = [j \in {"exec", "snap"} |-> Never]
    /\ touched = [j \in {"exec", "snap"} |-> {}]

(***************************************************************************)
(* Properties.                                                             *)
(***************************************************************************)

\* Execute, whatever fails and whoever runs beside it: when it ends, a key that
\* nobody else changed since the plan is forgotten and its object deleted if it
\* was a victim whose delete succeeded, and is exactly as it was planned, in the
\* catalog and in every bucket, if it was not a victim or its delete failed.
\* (Execute removes by key, so a victim that moved after the plan is forgotten
\* in its new bucket: that is all that "untouched" leaves out.)
ExecuteExact ==
    exec.pc = "delete" /\ exec.todo = {} =>
        \A k \in Keys \ touched.exec :
            LET gone == k \in DOMAIN exec.at \ exec.failed IN
            /\ where[k] = IF gone THEN NoBucket ELSE before.exec.where[k]
            /\ \A b \in Bucket :
                  objs[b][k] = IF gone /\ b = exec.at[k] THEN 0 ELSE before.exec.objs[b][k]

\* Restore of a captured document: a key that nobody else changed while the
\* capture read the buckets one by one, nor while the restore cleared and
\* registered, has the entry it had when the capture began, or none if it had
\* none, whatever happened to it in between.
RoundTrip ==
    snap.pc = "load" /\ snap.todo = {} =>
        \A k \in Keys \ touched.snap :
            where[k] = before.snap.where[k] /\ stamp[k] = before.snap.stamp[k]

Next == Resolver \/ Cleanup \/ Snapshot

Spec == Init /\ [][Next]_vars
=============================================================================
