--------------------------- MODULE MCRulesetClient ---------------------------
(***************************************************************************)
(* Instances of RulesetClient for TLC.  Clients differ only by name.       *)
(***************************************************************************)
EXTENDS RulesetClient, TLC

ClientSymmetry == Permutations(Clients)
=============================================================================
