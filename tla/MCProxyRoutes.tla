---------------------------- MODULE MCProxyRoutes ----------------------------
(***************************************************************************)
(* ProxyRoutes on a small instance: a public and a private hosted bucket   *)
(* with a proxy ranked between them, and a virtual repository that lists   *)
(* the private bucket first, the proxy next and the public bucket last,    *)
(* against their ranks.                                                    *)
(***************************************************************************)
EXTENDS ProxyRoutes, TLC

MCPublic == {1}
MCProxies == {2}
MCMembers == <<3, 2, 1>>

MCSymmetry == Permutations(Workers)
=============================================================================
