----------------------------- MODULE Replication -----------------------------
(***************************************************************************)
(* Puller.Pull beside the jobs of module Maintenance: the entries a remote *)
(* instance lists are fetched over HTTP and stored in one local bucket.    *)
(*                                                                         *)
(* Every upload to the remote advances the clock, and the time of an       *)
(* upload is its content.  The remote's catalog lags behind its storage,   *)
(* as its own sync lets it.                                                *)
(***************************************************************************)
EXTENDS Maintenance

CONSTANTS
    Target,     \* TargetBucket
    Unstamped   \* keys the remote lists with an empty LastModified

ASSUME ReplicationAssumption ==
    /\ Target \in Bucket
    /\ Unstamped \subseteq Keys

VARIABLES
    remote,     \* key -> content of the remote's object; 0: none
    listing,    \* key -> the content the remote's catalog knows; 0: not listed
    pull,       \* the running Pull
    \* History, read by the properties only:
    asked,      \* listing when the running Pull fetched the manifest
    deleted,    \* keys whose object in Target cleanup deleted
    restamped   \* keys whose entry for Target carries the time of a local PUT

remoteVars == <<remote, listing>>
pullVars == <<pull, asked, deleted, restamped>>
allVars == <<vars, remoteVars, pullVars>>

NoPull == [pc |-> "idle", todo |-> {}, body |-> 0, failed |-> {}]
NotAsked == [k \in Keys |-> 0]

\* What Pull leaves alone.
Others == <<exec, snap, before, clock, changes>>

\* FetchManifest: GET /list.  An error ends the run before it did anything.
FetchManifest ==
    /\ pull.pc = "idle"
    /\ StartJob
    /\ \/ /\ pull' = [NoPull EXCEPT !.pc = "entry",
                                    !.todo = {k \in Keys : listing[k] # 0}]
          /\ asked' = listing
          /\ UNCHANGED errors
       \/ /\ CallFails
          /\ UNCHANGED <<pull, asked>>
    /\ UNCHANGED <<catalog, storage, Others, touched, remoteVars, deleted, restamped>>

Current == First(pull.todo)
ListedAt(k) == IF k \in Unstamped THEN 0 ELSE asked[k]

GoTo(step) == pull' = [pull EXCEPT !.pc = step]
Handled == pull' = [pull EXCEPT !.pc = "entry", !.todo = @ \ {Current}, !.body = 0]
FailsOpen == pull' = [pull EXCEPT !.pc = "entry", !.body = 0, !.failed = @ \cup {Current}]   \* faulty
Fails == pull' = [pull EXCEPT !.pc = "entry", !.todo = @ \ {Current}, !.body = 0,
                              !.failed = @ \cup {Current}]

UpToDateByStamp(k) ==   \* faulty
    where[k] = Target /\ stamp[k] >= ListedAt(k)
alreadyUpToDate(k) ==
    /\ ListedAt(k) # 0
    /\ where[k] = Target
    /\ stamp[k] >= ListedAt(k)

CheckEntry ==
    /\ pull.pc = "entry" /\ pull.todo # {}
    /\ IF alreadyUpToDate(Current) THEN Handled ELSE GoTo("get")
    /\ UNCHANGED <<catalog, storage, errors, jobs, Others, touched, remoteVars,
                   asked, deleted, restamped>>

\* FetchObject: the remote instance redirects to its storage, or answers 404 or
\* with an error (a redirect without a location and a body too large are errors) ...
GetRoute ==
    /\ pull.pc = "get"
    /\ \/ remote[Current] # 0 /\ GoTo("follow") /\ UNCHANGED errors
       \/ remote[Current] = 0 /\ Fails /\ UNCHANGED errors
       \/ CallFails /\ Fails
    /\ UNCHANGED <<catalog, storage, jobs, Others, touched, remoteVars,
                   asked, deleted, restamped>>

\* ... and fetchRedirectTarget gets what the storage has by then.
fetchRedirectTarget ==
    /\ pull.pc = "follow"
    /\ \/ /\ remote[Current] # 0
          /\ pull' = [pull EXCEPT !.pc = "put", !.body = remote[Current]]
          /\ UNCHANGED errors
       \/ remote[Current] = 0 /\ Fails /\ UNCHANGED errors
       \/ CallFails /\ Fails
    /\ UNCHANGED <<catalog, storage, jobs, Others, touched, remoteVars,
                   asked, deleted, restamped>>

PutPulled ==
    /\ pull.pc = "put"
    /\ \/ /\ objs' = [objs EXCEPT ![Target][Current] = pull.body]
          /\ mtime' = [mtime EXCEPT ![Target][Current] = clock]
          /\ GoTo("register")
          /\ UNCHANGED errors
       \/ CallFails /\ Fails /\ UNCHANGED storage
    /\ Stored(Current)
    /\ UNCHANGED <<catalog, jobs, Others, remoteVars, asked, deleted, restamped>>

RegisterPulled ==
    /\ pull.pc = "register"
    /\ Register(Current, Target, ListedAt(Current))
    /\ Touch({Current}, "pull")
    /\ Handled
    /\ UNCHANGED <<storage, errors, jobs, Others, remoteVars, asked, deleted, restamped>>

PullDone ==
    /\ pull.pc = "entry" /\ pull.todo = {}
    /\ pull' = NoPull
    /\ asked' = NotAsked
    /\ UNCHANGED <<vars, remoteVars, deleted, restamped>>
-----------------------------------------------------------------------------
(***************************************************************************)
(* The remote, and the steps of module Maintenance.                        *)
(***************************************************************************)
RemoteUpload(k) ==
    /\ clock < MaxTime
    /\ clock' = clock + 1
    /\ remote' = [remote EXCEPT ![k] = clock']
    /\ UNCHANGED <<catalog, storage, changes, errors, jobs, exec, snap, history,
                   listing, pullVars>>

RemoteDelete(k) ==
    /\ Changes
    /\ remote[k] # 0
    /\ remote' = [remote EXCEPT ![k] = 0]
    /\ UNCHANGED <<catalog, storage, clock, errors, jobs, exec, snap, history,
                   listing, pullVars>>

\* The remote's own sync registers what its storage has.
RemoteSync(k) ==
    /\ remote[k] # 0 /\ listing[k] # remote[k]
    /\ listing' = [listing EXCEPT ![k] = remote[k]]
    /\ UNCHANGED <<vars, remote, pullVars>>

\* Only Pull and cleanup write to Target.
Local ==
    /\ \/ /\ Resolver
          /\ restamped' = restamped \cup
                 {k \in Keys : where'[k] = Target /\ <<where[k], stamp[k]>> # <<Target, stamp'[k]>>}
       \/ (Cleanup \/ Snapshot) /\ UNCHANGED restamped
    /\ \A k \in Keys : objs'[Target][k] \in {0, objs[Target][k]}
    /\ deleted' = deleted \cup {k \in Keys : objs'[Target][k] # objs[Target][k]}
    /\ UNCHANGED <<remoteVars, pull, asked>>

Pull ==
    \/ FetchManifest
    \/ CheckEntry
    \/ GetRoute
    \/ fetchRedirectTarget
    \/ PutPulled
    \/ RegisterPulled
    \/ PullDone

Remote == \E k \in Keys : RemoteUpload(k) \/ RemoteDelete(k) \/ RemoteSync(k)

\* Target holds nothing but what earlier pulls stored there, and the remote
\* lists every key.
ReplicationInit ==
    /\ Init
    /\ remote = [k \in Keys |-> 1]
    /\ listing = remote
    /\ pull = NoPull
    /\ asked = NotAsked
    /\ deleted = {} /\ restamped = {}

(***************************************************************************)
(* Properties.                                                             *)
(***************************************************************************)
TypeOK ==
    /\ where \in [Keys -> Bucket \cup {NoBucket}]
    /\ stamp \in [Keys -> 0..MaxTime]
    /\ objs \in [Bucket -> [Keys -> 0..MaxTime]]
    /\ mtime \in [Bucket -> [Keys -> 0..MaxTime]]
    /\ exec.pc \in {"idle", "delete", "remove"}
    /\ exec.todo \cup exec.failed \subseteq DOMAIN exec.at
    /\ snap.pc \in {"idle", "capture", "captured", "load"}
    /\ snap.doc \subseteq [at : Bucket, key : Keys, lm : 0..MaxTime]
    /\ remote \in [Keys -> 0..MaxTime] /\ listing \in [Keys -> 0..MaxTime]
    /\ pull.pc \in {"idle", "entry", "get", "follow", "put", "register"}
    /\ pull.todo \subseteq Keys /\ pull.failed \subseteq Keys \ pull.todo

\* When a Pull ends, every key the remote listed is stored in Target in the
\* content the remote listed or a later one, or is reported as failed: what was
\* skipped as up to date really was, whatever changed on the remote, in the
\* catalog or in the storage between the manifest, the check, the two requests,
\* the PUT and the Register.  Left out are keys whose object cleanup deleted and
\* keys that a sync or a request entered in the catalog with the time of the
\* local PUT.
Delivered(k) == asked[k] <= objs[Target][k] \/ k \in pull.failed
PullDelivers ==
    pull.pc = "entry" /\ pull.todo = {} =>
        \A k \in Keys \ (deleted \cup restamped) : Delivered(k)

\* The same with the keys that a sync or a request entered: "skip entries
\* already pulled and unchanged".
SkipsUnchanged ==
    pull.pc = "entry" /\ pull.todo = {} => \A k \in Keys \ deleted : Delivered(k)

ReplicationNext == Local \/ Pull \/ Remote

ReplicationSpec == ReplicationInit /\ [][ReplicationNext]_allVars
=============================================================================
