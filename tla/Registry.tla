------------------------------ MODULE Registry ------------------------------
(***************************************************************************)
(* What the in-memory file registry of internal/catalog promises to the    *)
(* rest of the service: every key is owned by at most one bucket, and one  *)
(* step changes the owner of one key, or forgets them all.  There is no    *)
(* route index and no manifest loader here; module Catalog has both and is *)
(* shown to implement this specification, and module Resolver is written   *)
(* on top of it.                                                           *)
(***************************************************************************)
EXTENDS Naturals

CONSTANTS
    Keys,       \* the object keys
    Buckets,    \* every bucket name an entry may carry
    NoBucket,   \* "not registered"; not a bucket
    Priority    \* bucket -> rank; the lower rank wins (PriorityFunc)

VARIABLE where  \* key -> the bucket that owns it, or NoBucket

Registered(k) == where[k] # NoBucket

(***************************************************************************)
(* Catalog.Register: a bucket claims a key.  An owner of strictly better   *)
(* rank keeps it.                                                          *)
(***************************************************************************)
Claim(k, b) ==
    where' = IF Registered(k) /\ Priority[where[k]] < Priority[b]
             THEN where
             ELSE [where EXCEPT ![k] = b]

\* Catalog.Set: the key goes to the bucket, whoever owned it.
Place(k, b) == where' = [where EXCEPT ![k] = b]

\* Catalog.Remove.
Drop(k) == where' = [where EXCEPT ![k] = NoBucket]

\* Catalog.Clear.
Reset == where' = [k \in Keys |-> NoBucket]

Init == where = [k \in Keys |-> NoBucket]

Next ==
    \/ \E k \in Keys, b \in Buckets : Claim(k, b) \/ Place(k, b)
    \/ \E k \in Keys : Drop(k)
    \/ Reset

Spec == Init /\ [][Next]_where
=============================================================================
