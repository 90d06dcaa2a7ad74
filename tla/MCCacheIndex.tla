---------------------------- MODULE MCCacheIndex ----------------------------
(* A small instance of CacheIndex. *)
EXTENDS CacheIndex

CONSTANTS k1, k2

\* One response with two variants and a synthetic entry.
ThreeVariants == {<<k1, 0>>, <<k1, 1>>, <<k2, 0>>}
=============================================================================
