--------------------------- MODULE MCCachedClient ---------------------------
(* Instances of CachedClient for TLC.  No symmetry: the run checks liveness. *)
EXTENDS CachedClient
=============================================================================
