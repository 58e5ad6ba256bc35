------------------------------ MODULE MCCatalog ------------------------------
(***************************************************************************)
(* Catalog on a small instance.  Two configured buckets, of rank 0 and 1,  *)
(* and two that are no longer configured: config.BucketPriority gives both *)
(* the number of configured buckets as their rank, so they tie.  The lists *)
(* given to LoadManifests hold colliding keys in both orders, items with   *)
(* no key and with no bucket, and contents that cannot be decoded.         *)
(***************************************************************************)
EXTENDS Catalog

CONSTANTS k1, k2, pub, priv, old1, old2

MCKeys == {k1, k2}
MCBuckets == {pub, priv, old1, old2}
MCPriority ==
    [b \in MCBuckets |-> IF b = pub THEN 0 ELSE IF b = priv THEN 1 ELSE 2]

Item(k, b) == [key |-> k, bucket |-> b]

Manifest(b, form, files) == [bucket |-> b, form |-> form, files |-> files]

MCManifestLists ==
    { \* the key in both manifests, best rank first
      << Manifest(pub, "envelope", <<Item(k1, pub)>>),
         Manifest(priv, "envelope", <<Item(k1, priv), Item(k2, priv)>>) >>,
      \* best rank last, and an item without a bucket
      << Manifest(priv, "array", <<Item(k1, old1), Item(k1, NoBucket)>>),
         Manifest(pub, "array", <<Item(k1, NoBucket)>>) >>,
      \* an item without a key before a valid one, two tied buckets
      << Manifest(pub, "absent", <<>>),
         Manifest(priv, "envelope",
                  <<Item(NoKey, pub), Item(k2, old1), Item(k2, old2)>>) >>,
      \* nothing usable in the first manifest
      << Manifest(pub, "garbled", <<Item(k2, pub)>>),
         Manifest(priv, "envelope", <<Item(k2, NoBucket)>>) >> }
=============================================================================
