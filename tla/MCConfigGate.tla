----------------------------- MODULE MCConfigGate -----------------------------
(***************************************************************************)
(* Instances of ConfigGate for TLC.  Requests differ only by name.         *)
(***************************************************************************)
EXTENDS ConfigGate, TLC

RequestSymmetry == Permutations(Requests)
=============================================================================
