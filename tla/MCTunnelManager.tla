--------------------------- MODULE MCTunnelManager ---------------------------
(***************************************************************************)
(* TLC instances of TunnelManager.  Child slots are interchangeable, which *)
(* only a run without a liveness property may use.                         *)
(***************************************************************************)
EXTENDS TunnelManager, TLC

ChildSymmetry == Permutations(Children)
=============================================================================
