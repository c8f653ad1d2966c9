--------------------------- MODULE MCResolverWorker ---------------------------
(* A small instance of ResolverWorker for TLC. *)
EXTENDS ResolverWorker
=============================================================================
