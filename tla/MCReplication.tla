---------------------------- MODULE MCReplication ----------------------------
(***************************************************************************)
(* Maintenance and Replication on a small instance: bucket 1 is the one    *)
(* pulled into, bucket 2 outranks it, and the remote gives no time for     *)
(* key 2.  Key 1 begins in every state; key 2 has been pulled before and   *)
(* gives every job something else to do.                                   *)
(***************************************************************************)
EXTENDS Replication

MCPriority == <<2, 1>>

MCInit ==
    /\ ReplicationInit
    /\ where[2] = Target
    /\ objs[2][2] = 0

MCSpec == MCInit /\ [][ReplicationNext]_allVars
=============================================================================
