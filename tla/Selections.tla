----------------------------- MODULE Selections -----------------------------
(***************************************************************************)
(* Array.prototype.filter() and SQL's WHERE, which the parts have in       *)
(* common: what of a sequence is in a set, in its order.  SelectSeq says   *)
(* the same by a test; the recursion is written out here so that it can be *)
(* reasoned about.                                                         *)
(***************************************************************************)
EXTENDS Naturals, Sequences

Only(s, S) ==
    LET kept[n \in 0 .. Len(s)] ==
          IF n = 0 THEN <<>>
          ELSE IF s[n] \in S THEN Append(kept[n - 1], s[n]) ELSE kept[n - 1]
    IN  kept[Len(s)]
=============================================================================
