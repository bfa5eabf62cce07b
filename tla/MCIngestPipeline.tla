-------------------------- MODULE MCIngestPipeline --------------------------
(* IngestPipeline on small instances.                                      *)
EXTENDS IngestPipeline, TLC

Symmetry == Permutations(Documents) \cup Permutations(Contents)
=============================================================================
