-------------------------- MODULE MCCapturePipeline --------------------------
(***************************************************************************)
(* Instances of CapturePipeline for TLC.  Requests differ only by name.    *)
(***************************************************************************)
EXTENDS CapturePipeline, TLC

RequestSymmetry == Permutations(Requests)
=============================================================================
