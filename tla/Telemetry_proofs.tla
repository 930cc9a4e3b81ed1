-------------------------- MODULE Telemetry_proofs --------------------------
(***************************************************************************)
(* Proofs about AgentTelemetry and AgentSessions: whatever is captured, in *)
(* whatever order it is stored, labelled, swept away and read, and however *)
(* large the ring, the pages, the sample and the windows are.              *)
(*                                                                         *)
(* TelemetryHolds is not inductive: the ring is the newest of the table    *)
(* because it is what is left of it, the walk sees all because it has seen *)
(* what lasted of the pages so far, and a summary is true because it was   *)
(* read from the table it was counted from.  TelemetryInv says these.      *)
(***************************************************************************)
EXTENDS AgentTelemetry, SequencesExt, FiniteSetTheorems, SequenceTheorems,
        WellFoundedInduction, TLAPS

(***************************************************************************)
(* Only: Array.prototype.filter, for every sequence.                       *)
(***************************************************************************)

\* Induction over the natural numbers, for a set that is closed under it.
LEMMA Inductive ==
    ASSUME NEW S \in SUBSET Nat, 0 \in S, \A n \in S : n + 1 \in S
    PROVE  \A n \in Nat : n \in S
<1> DEFINE R == {ss \in Nat \X Nat : ss[1] < ss[2]}
           T == Nat \ S
<1>1. IsWellFoundedOn(R, Nat)
  BY NatLessThanWellFounded, Zenon DEF OpToRel
<1> HIDE DEF R
<1>2. SUFFICES ASSUME T # {} PROVE FALSE
  OBVIOUS
<1>3. PICK x \in T : \A y \in T : ~(<<y, x>> \in R)
  BY <1>1, <1>2, WFMin, Zenon
<1>4. \A y \in T : ~(y < x)
  BY <1>3 DEF R
<1>5. x \in Nat /\ x # 0 /\ x \notin S
  BY <1>3
<1>6. x - 1 \in Nat /\ x - 1 < x /\ (x - 1) + 1 = x
  BY <1>5
<1>7. x - 1 \notin S
  BY <1>5, <1>6
<1> QED BY <1>4, <1>6, <1>7

\* The recursion of Only, as far as the first n.
Keeps(pre, s, S, n) ==
    pre = [i \in 0 .. n |->
             IF i = 0 THEN <<>>
             ELSE IF s[i] \in S THEN Append(pre[i - 1], s[i]) ELSE pre[i - 1]]

\* There is such a recursion.
LEMMA KeepsExists ==
    ASSUME NEW s, NEW S, NEW m \in Nat
    PROVE  \E pre : Keeps(pre, s, S, m)
<1> DEFINE Done == {n \in Nat : \E pre : Keeps(pre, s, S, n)}
<1>1. 0 \in Done
  <2>1. Keeps([i \in 0 .. 0 |-> <<>>], s, S, 0)
    BY DEF Keeps
  <2> QED BY <2>1
<1>2. ASSUME NEW n \in Done PROVE n + 1 \in Done
  <2>1. PICK pre : Keeps(pre, s, S, n)
    BY <1>2
  <2> DEFINE last == IF s[n + 1] \in S THEN Append(pre[n], s[n + 1]) ELSE pre[n]
             more == [i \in 0 .. n + 1 |-> IF i = n + 1 THEN last ELSE pre[i]]
  <2>2. Keeps(more, s, S, n + 1)
    <3>1. n \in Nat
      BY <1>2
    <3>2. SUFFICES ASSUME NEW i \in 0 .. n + 1
                   PROVE  more[i] = IF i = 0 THEN <<>>
                                    ELSE IF s[i] \in S THEN Append(more[i - 1], s[i])
                                    ELSE more[i - 1]
      BY DEF Keeps
    <3>3. CASE i = n + 1
      BY <3>1, <3>3
    <3>4. CASE i # n + 1
      <4>1. i \in 0 .. n /\ more[i] = pre[i] /\ (i # 0 => more[i - 1] = pre[i - 1])
        BY <3>1, <3>4
      <4> QED BY <2>1, <4>1 DEF Keeps
    <3> QED BY <3>3, <3>4
  <2> QED BY <1>2, <2>2
<1>3. \A n \in Nat : n \in Done
  <2> HIDE DEF Done
  <2>1. Done \in SUBSET Nat
    BY DEF Done
  <2> QED BY <1>1, <1>2, <2>1, Inductive
<1> QED BY <1>3

\* Where two sequences agree, so do their selections.
LEMMA KeepsAgree ==
    ASSUME NEW s, NEW t, NEW S, NEW m \in Nat, NEW n \in Nat, m <= n,
           NEW pre, NEW more, Keeps(pre, s, S, m), Keeps(more, t, S, n),
           \A i \in 1 .. m : s[i] = t[i]
    PROVE  pre[m] = more[m]
<1> DEFINE Same == {i \in Nat : i <= m => pre[i] = more[i]}
<1>1. 0 \in Same
  BY DEF Keeps
<1>2. ASSUME NEW i \in Same PROVE i + 1 \in Same
  <2>1. CASE i + 1 <= m
    <3>1. i \in Nat /\ i <= m /\ pre[i] = more[i] /\ s[i + 1] = t[i + 1] /\ (i + 1) - 1 = i
      BY <1>2, <2>1
    <3>2. i + 1 \in 0 .. m /\ i + 1 \in 0 .. n /\ i + 1 # 0
      BY <2>1, <3>1
    <3>3. pre[i + 1] = IF s[i + 1] \in S THEN Append(pre[i], s[i + 1]) ELSE pre[i]
      BY <3>1, <3>2 DEF Keeps
    <3>4. more[i + 1] = IF t[i + 1] \in S THEN Append(more[i], t[i + 1]) ELSE more[i]
      BY <3>1, <3>2 DEF Keeps
    <3> QED BY <3>1, <3>3, <3>4
  <2>2. CASE ~(i + 1 <= m)
    BY <1>2, <2>2
  <2> QED BY <2>1, <2>2
<1>3. \A i \in Nat : i \in Same
  <2> HIDE DEF Same
  <2>1. Same \in SUBSET Nat
    BY DEF Same
  <2> QED BY <1>1, <1>2, <2>1, Inductive
<1> QED BY <1>3

\* The selection from a whole sequence is the last step of the recursion.
LEMMA OnlyKeeps ==
    ASSUME NEW s, NEW S, Len(s) \in Nat
    PROVE  \E pre : Keeps(pre, s, S, Len(s)) /\ Only(s, S) = pre[Len(s)]
<1> DEFINE It == CHOOSE pre : Keeps(pre, s, S, Len(s))
<1>1. Keeps(It, s, S, Len(s))
  BY KeepsExists
<1>2. Only(s, S) = It[Len(s)]
  BY DEF Only, Keeps
<1> QED BY <1>1, <1>2

\* Nothing is selected from nothing.
LEMMA OnlyOfNothing == \A S : Only(<<>>, S) = <<>>
<1> TAKE S
<1>1. PICK pre : Keeps(pre, <<>>, S, 0) /\ Only(<<>>, S) = pre[0]
  BY OnlyKeeps
<1> QED BY <1>1 DEF Keeps

\* One more element is selected or not.
LEMMA OnlyOfLonger ==
    ASSUME NEW s, NEW t, NEW S, NEW m \in Nat, Len(s) = m, Len(t) = m + 1,
           \A i \in 1 .. m : s[i] = t[i]
    PROVE  Only(t, S) = IF t[m + 1] \in S THEN Append(Only(s, S), t[m + 1]) ELSE Only(s, S)
<1>1. PICK pre : Keeps(pre, s, S, m) /\ Only(s, S) = pre[m]
  BY OnlyKeeps
<1>2. m + 1 \in Nat /\ m <= m + 1 /\ m \in 0 .. m
  OBVIOUS
<1>3. PICK more : Keeps(more, t, S, m + 1) /\ Only(t, S) = more[m + 1]
  BY <1>2, OnlyKeeps
<1>4. pre[m] = more[m]
  BY <1>1, <1>2, <1>3, KeepsAgree
<1>5. more[m + 1] = IF t[m + 1] \in S THEN Append(more[m], t[m + 1]) ELSE more[m]
  <2>1. m + 1 \in 0 .. m + 1 /\ m + 1 # 0 /\ (m + 1) - 1 = m
    OBVIOUS
  <2> QED BY <1>3, <2>1 DEF Keeps
<1> QED BY <1>1, <1>2, <1>3, <1>4, <1>5

\* A sequence that is longer by one: the newcomer is selected or not.
LEMMA OnlyOfAppend ==
    ASSUME NEW U, NEW s \in Seq(U), NEW x \in U, NEW S
    PROVE  Only(Append(s, x), S) = IF x \in S THEN Append(Only(s, S), x) ELSE Only(s, S)
<1>1. PICK t : t = Append(s, x)
  OBVIOUS
<1>2. /\ Len(s) \in Nat /\ Len(t) = Len(s) + 1
      /\ t[Len(s) + 1] = x
      /\ \A i \in 1 .. Len(s) : s[i] = t[i]
  BY <1>1, AppendProperties, LenProperties
<1>3. Only(t, S) = IF t[Len(s) + 1] \in S THEN Append(Only(s, S), t[Len(s) + 1])
                   ELSE Only(s, S)
  BY <1>2, OnlyOfLonger
<1> QED BY <1>1, <1>2, <1>3

\* Induction over sequences, for a set that is closed under appending.
LEMMA SequenceInduction ==
    ASSUME NEW U, NEW T, <<>> \in T,
           \A s \in Seq(U), x \in U : s \in T => Append(s, x) \in T
    PROVE  \A s \in Seq(U) : s \in T
<1> DEFINE Upto == {n \in Nat : \A s \in Seq(U) : Len(s) = n => s \in T}
<1>1. 0 \in Upto
  <2>1. \A s \in Seq(U) : Len(s) = 0 => s = <<>>
    BY EmptySeq
  <2> QED BY <2>1
<1>2. ASSUME NEW n \in Upto PROVE n + 1 \in Upto
  <2>1. n \in Nat
    BY <1>2
  <2>2. ASSUME NEW s \in Seq(U), Len(s) = n + 1 PROVE s \in T
    <3>1. s # <<>>
      BY <2>1, <2>2, EmptySeq
    <3>2. PICK r \in Seq(U), x \in U : s = Append(r, x)
      BY <3>1, SequenceEmptyOrAppend
    <3>3. Len(s) = Len(r) + 1 /\ Len(r) \in Nat
      BY <3>2, AppendProperties, LenProperties
    <3>4. r \in T
      BY <1>2, <2>1, <2>2, <3>3
    <3> QED BY <3>2, <3>4
  <2> QED BY <2>1, <2>2
<1>3. \A n \in Nat : n \in Upto
  <2> HIDE DEF Upto
  <2>1. Upto \in SUBSET Nat
    BY DEF Upto
  <2> QED BY <1>1, <1>2, <2>1, Inductive
<1> QED BY <1>3, LenProperties

\* What is selected are members, in a sequence.
LEMMA OnlyType ==
    ASSUME NEW U, NEW S
    PROVE  \A s \in Seq(U) : Only(s, S) \in Seq(U) /\ Only(s, S) \in Seq(U \cap S)
<1> DEFINE T == {s \in Seq(U) : Only(s, S) \in Seq(U) /\ Only(s, S) \in Seq(U \cap S)}
<1>1. <<>> \in T
  BY OnlyOfNothing, EmptySeq
<1>2. ASSUME NEW s \in Seq(U), NEW x \in U, s \in T PROVE Append(s, x) \in T
  <2>1. Only(Append(s, x), S) = IF x \in S THEN Append(Only(s, S), x) ELSE Only(s, S)
    BY OnlyOfAppend
  <2>2. x \in S => Append(Only(s, S), x) \in Seq(U) /\ Append(Only(s, S), x) \in Seq(U \cap S)
    <3> SUFFICES ASSUME x \in S
                 PROVE  /\ Append(Only(s, S), x) \in Seq(U)
                        /\ Append(Only(s, S), x) \in Seq(U \cap S)
      OBVIOUS
    <3>1. x \in U \cap S
      OBVIOUS
    <3>2. Only(s, S) \in Seq(U) /\ Only(s, S) \in Seq(U \cap S)
      BY <1>2
    <3> HIDE DEF T
    <3> QED BY <3>1, <3>2, AppendProperties
  <2> QED BY <1>2, <2>1, <2>2, AppendProperties
<1> QED
  <2> HIDE DEF T
  <2>1. \A s \in Seq(U) : s \in T
    BY <1>1, <1>2, SequenceInduction
  <2> QED BY <2>1 DEF T

\* Selecting is done piece by piece.
LEMMA OnlyOfConcat ==
    ASSUME NEW U, NEW S, NEW s \in Seq(U)
    PROVE  \A t \in Seq(U) : Only(s \o t, S) = Only(s, S) \o Only(t, S)
<1> DEFINE T == {t \in Seq(U) : Only(s \o t, S) = Only(s, S) \o Only(t, S)}
<1>0. Only(s, S) \in Seq(U)
  BY OnlyType
<1>1. <<>> \in T
  BY <1>0, OnlyOfNothing, ConcatEmptySeq
<1>2. ASSUME NEW t \in Seq(U), NEW x \in U, t \in T PROVE Append(t, x) \in T
  <2>0. \A u, v \in Seq(U) : u \o v \in Seq(U) /\ u \o Append(v, x) = Append(u \o v, x)
    <3> SUFFICES ASSUME NEW u \in Seq(U), NEW v \in Seq(U)
                 PROVE  u \o v \in Seq(U) /\ u \o Append(v, x) = Append(u \o v, x)
      OBVIOUS
    <3>1. u \o v \in Seq(U) /\ <<x>> \in Seq(U)
      BY ConcatProperties
    <3>2. Append(v, x) = v \o <<x>> /\ Append(u \o v, x) = (u \o v) \o <<x>>
      BY <3>1, AppendIsConcat
    <3>3. (u \o v) \o <<x>> = u \o (v \o <<x>>)
      BY <3>1, ConcatAssociative
    <3> QED BY <3>1, <3>2, <3>3
  <2>1. Only(t, S) \in Seq(U) /\ Only(s, S) \in Seq(U) /\ s \o t \in Seq(U)
    BY <1>0, <2>0, OnlyType
  <2>2. /\ s \o Append(t, x) = Append(s \o t, x)
        /\ Only(s, S) \o Append(Only(t, S), x) = Append(Only(s, S) \o Only(t, S), x)
    BY <2>0, <2>1
  <2>3. /\ Only(Append(t, x), S) =
              IF x \in S THEN Append(Only(t, S), x) ELSE Only(t, S)
        /\ Only(Append(s \o t, x), S) =
              IF x \in S THEN Append(Only(s \o t, S), x) ELSE Only(s \o t, S)
    BY <2>1, OnlyOfAppend
  <2>4. Only(s \o t, S) = Only(s, S) \o Only(t, S) /\ Append(t, x) \in Seq(U)
    BY <1>2, AppendProperties
  <2>5. Only(s \o Append(t, x), S) = Only(s, S) \o Only(Append(t, x), S)
    BY <2>2, <2>3, <2>4
  <2> QED BY <2>4, <2>5
<1> QED
  <2> HIDE DEF T
  <2>1. \A t \in Seq(U) : t \in T
    BY <1>1, <1>2, SequenceInduction
  <2> QED BY <2>1 DEF T

\* One selection after the other is the selection of what both select.
LEMMA OnlyOfOnly ==
    ASSUME NEW U, NEW R, NEW S
    PROVE  \A s \in Seq(U) : Only(Only(s, R), S) = Only(s, R \cap S)
<1> DEFINE T == {s \in Seq(U) : Only(Only(s, R), S) = Only(s, R \cap S)}
<1>1. <<>> \in T
  BY OnlyOfNothing
<1>2. ASSUME NEW s \in Seq(U), NEW x \in U, s \in T PROVE Append(s, x) \in T
  <2>1. Only(s, R) \in Seq(U)
    BY OnlyType
  <2>2. /\ Only(Append(s, x), R) = IF x \in R THEN Append(Only(s, R), x) ELSE Only(s, R)
        /\ Only(Append(s, x), R \cap S) =
              IF x \in R \cap S THEN Append(Only(s, R \cap S), x) ELSE Only(s, R \cap S)
        /\ Only(Append(Only(s, R), x), S) =
              IF x \in S THEN Append(Only(Only(s, R), S), x) ELSE Only(Only(s, R), S)
    BY <2>1, OnlyOfAppend
  <2>3. Only(Only(s, R), S) = Only(s, R \cap S) /\ Append(s, x) \in Seq(U)
    BY <1>2, AppendProperties
  <2>4. Only(Only(Append(s, x), R), S) = Only(Append(s, x), R \cap S)
    <3>1. CASE x \in R /\ x \in S
      BY <2>2, <2>3, <3>1
    <3>2. CASE x \in R /\ x \notin S
      BY <2>2, <2>3, <3>2
    <3>3. CASE x \notin R
      BY <2>2, <2>3, <3>3
    <3> QED BY <3>1, <3>2, <3>3
  <2> QED BY <2>3, <2>4
<1> QED
  <2> HIDE DEF T
  <2>1. \A s \in Seq(U) : s \in T
    BY <1>1, <1>2, SequenceInduction
  <2> QED BY <2>1 DEF T

\* Only what is in the sequence matters.
LEMMA OnlyByMembers ==
    ASSUME NEW U, NEW R, NEW S, U \cap R = U \cap S
    PROVE  \A s \in Seq(U) : Only(s, R) = Only(s, S)
<1> DEFINE T == {s \in Seq(U) : Only(s, R) = Only(s, S)}
<1>1. <<>> \in T
  BY OnlyOfNothing
<1>2. ASSUME NEW s \in Seq(U), NEW x \in U, s \in T PROVE Append(s, x) \in T
  <2>1. x \in R <=> x \in S
    OBVIOUS
  <2>2. /\ Only(Append(s, x), R) = IF x \in R THEN Append(Only(s, R), x) ELSE Only(s, R)
        /\ Only(Append(s, x), S) = IF x \in S THEN Append(Only(s, S), x) ELSE Only(s, S)
    BY OnlyOfAppend
  <2> QED BY <1>2, <2>1, <2>2
<1> QED
  <2> HIDE DEF T
  <2>1. \A s \in Seq(U) : s \in T
    BY <1>1, <1>2, SequenceInduction
  <2> QED BY <2>1 DEF T

\* Selecting everything.
LEMMA OnlyAll ==
    ASSUME NEW U, NEW S, U \subseteq S
    PROVE  \A s \in Seq(U) : Only(s, S) = s
<1> DEFINE T == {s \in Seq(U) : Only(s, S) = s}
<1>1. <<>> \in T
  BY OnlyOfNothing
<1>2. ASSUME NEW s \in Seq(U), NEW x \in U, s \in T PROVE Append(s, x) \in T
  BY <1>2, OnlyOfAppend
<1> QED
  <2> HIDE DEF T
  <2>1. \A s \in Seq(U) : s \in T
    BY <1>1, <1>2, SequenceInduction
  <2> QED BY <2>1 DEF T

\* Selecting nothing.
LEMMA OnlyNone ==
    ASSUME NEW U, NEW S, U \cap S = {}
    PROVE  \A s \in Seq(U) : Only(s, S) = <<>>
<1> DEFINE T == {s \in Seq(U) : Only(s, S) = <<>>}
<1>1. <<>> \in T
  BY OnlyOfNothing
<1>2. ASSUME NEW s \in Seq(U), NEW x \in U, s \in T PROVE Append(s, x) \in T
  BY <1>2, OnlyOfAppend
<1> QED
  <2> HIDE DEF T
  <2>1. \A s \in Seq(U) : s \in T
    BY <1>1, <1>2, SequenceInduction
  <2> QED BY <2>1 DEF T

\* The members that are selected.
LEMMA OnlyMembers ==
    ASSUME NEW U, NEW S
    PROVE  \A s \in Seq(U) : ToSet(Only(s, S)) = ToSet(s) \cap S
<1> DEFINE T == {s \in Seq(U) : ToSet(Only(s, S)) = ToSet(s) \cap S}
<1>0. \A s \in Seq(U), x \in U : ToSet(Append(s, x)) = ToSet(s) \cup {x}
  <2> SUFFICES ASSUME NEW s \in Seq(U), NEW x \in U
               PROVE  ToSet(Append(s, x)) = ToSet(s) \cup {x}
    OBVIOUS
  <2>1. /\ DOMAIN Append(s, x) = DOMAIN s \cup {Len(s) + 1}
        /\ \A i \in DOMAIN s : Append(s, x)[i] = s[i]
        /\ Append(s, x)[Len(s) + 1] = x
    BY AppendProperties, LenProperties
  <2> QED BY <2>1 DEF ToSet
<1>1. <<>> \in T
  BY OnlyOfNothing DEF ToSet
<1>2. ASSUME NEW s \in Seq(U), NEW x \in U, s \in T PROVE Append(s, x) \in T
  <2>1. Only(s, S) \in Seq(U)
    BY OnlyType
  <2>2. ToSet(Append(Only(s, S), x)) = ToSet(Only(s, S)) \cup {x}
    BY <1>0, <2>1
  <2>3. ToSet(Append(s, x)) = ToSet(s) \cup {x}
    BY <1>0
  <2>4. Only(Append(s, x), S) = IF x \in S THEN Append(Only(s, S), x) ELSE Only(s, S)
    BY OnlyOfAppend
  <2>5. ToSet(Only(s, S)) = ToSet(s) \cap S /\ Append(s, x) \in Seq(U)
    BY <1>2, AppendProperties
  <2>6. ToSet(Only(Append(s, x), S)) = ToSet(Append(s, x)) \cap S
    BY <2>2, <2>3, <2>4, <2>5
  <2> QED BY <2>5, <2>6
<1> QED
  <2> HIDE DEF T
  <2>1. \A s \in Seq(U) : s \in T
    BY <1>1, <1>2, SequenceInduction
  <2> QED BY <2>1 DEF T

(***************************************************************************)
(* AgentSessions: the scans over the sorted buckets, and what they count.  *)
(***************************************************************************)

\* A finite list of requests at moments.
Listed(Q) ==
    /\ IsFiniteSet(Q)
    /\ \A q \in Q : q.at \in Nat /\ q.row.ts \in Nat
    /\ \A q, r \in Q : q.at = r.at => q = r

\* What the scans count, said without scanning: with pairs of one moment taken
\* as they were stored.  SessionsMean does not speak of that order; its bounds
\* follow.
SavedAfter(requests) ==
    {q \in requests :
        /\ q.row.outcome = "dead_end"
        /\ \E r \in requests :
            /\ IdentityKey(q) = IdentityKey(r)
            /\ After(q, r) /\ Apart(q, r) <= RecoveryWindow
            /\ r.row.outcome = "resolved"}

EscalatedAfter(requests) ==
    {r \in requests :
        /\ r.row.class \in EscalationTo /\ r.row.ip # NoAddress
        /\ \E q \in requests :
            /\ q.row.ip = r.row.ip /\ q.row.class \in EscalationFrom
            /\ After(q, r) /\ Apart(q, r) <= EscalationWindow}

ScanCounts(records) ==
    LET requests == Requests(records)
        correlated == {r \in requests : IsSessionable(r)}
        dead == {r \in correlated : r.row.outcome = "dead_end"}
        saved == SavedAfter(correlated)
    IN  [sessions |-> Cardinality(SessionsAmong(correlated)),
         deadEnds |-> Cardinality(dead),
         recovered |-> Cardinality(saved),
         abandoned |-> Cardinality(dead \ saved),
         escalations |-> Cardinality(EscalatedAfter(requests)),
         unsessionable |-> Cardinality(requests \ correlated)]

\* A part of a list of requests is one.
LEMMA ListedPart ==
    ASSUME NEW Q, Listed(Q), NEW b \in SUBSET Q
    PROVE  Listed(b)
BY FS_Subset DEF Listed

\* The order of the requests is a total one.
LEMMA AfterOrders ==
    ASSUME NEW Q, Listed(Q)
    PROVE  /\ \A q \in Q : ~After(q, q)
           /\ \A q, r \in Q : q = r \/ After(q, r) \/ After(r, q)
           /\ \A q, r \in Q : After(q, r) => ~After(r, q) /\ q.row.ts <= r.row.ts
           /\ \A p, q, r \in Q : After(p, q) /\ After(q, r) => After(p, r)
BY DEF Listed, After

\* There is a last request.
LEMMA LastOne ==
    ASSUME NEW Q, Listed(Q), Q # {}
    PROVE  \E r \in Q : \A q \in Q : q = r \/ After(q, r)
<1> DEFINE S == {n \in Nat : \A b \in SUBSET Q : Cardinality(b) = n + 1 =>
                    \E r \in b : \A q \in b : q = r \/ After(q, r)}
<1>1. 0 \in S
  <2> SUFFICES ASSUME NEW b \in SUBSET Q, Cardinality(b) = 0 + 1
               PROVE  \E r \in b : \A q \in b : q = r \/ After(q, r)
    OBVIOUS
  <2>1. IsFiniteSet(b) /\ Cardinality(b) = 1
    BY FS_Subset DEF Listed
  <2>2. PICK x : b = {x}
    BY <2>1, FS_Singleton
  <2> QED BY <2>2
<1>2. ASSUME NEW n \in S PROVE n + 1 \in S
  <2>1. n \in Nat
    BY <1>2
  <2> SUFFICES ASSUME NEW b \in SUBSET Q, Cardinality(b) = (n + 1) + 1
               PROVE  \E r \in b : \A q \in b : q = r \/ After(q, r)
    BY <2>1
  <2>2. IsFiniteSet(b)
    BY FS_Subset DEF Listed
  <2>3. PICK x : x \in b
    <3>1. Cardinality(b) # 0
      BY <2>1
    <3> QED BY <2>2, <3>1, FS_EmptySet
  <2>4. Cardinality(b \ {x}) = n + 1 /\ b \ {x} \in SUBSET Q
    BY <2>1, <2>2, <2>3, FS_RemoveElement
  <2>5. PICK r \in b \ {x} : \A q \in b \ {x} : q = r \/ After(q, r)
    BY <1>2, <2>4
  <2>6. CASE After(x, r)
    BY <2>5, <2>6
  <2>7. CASE After(r, x)
    BY <2>3, <2>5, <2>7, AfterOrders
  <2> QED BY <2>3, <2>5, <2>6, <2>7, AfterOrders
<1>3. \A n \in Nat : n \in S
  <2> HIDE DEF S
  <2>1. S \in SUBSET Nat
    BY DEF S
  <2> QED BY <1>1, <1>2, <2>1, Inductive
<1>4. IsFiniteSet(Q) /\ Cardinality(Q) \in Nat /\ Cardinality(Q) # 0
  BY FS_CardinalityType, FS_EmptySet DEF Listed
<1>5. Cardinality(Q) - 1 \in Nat /\ Cardinality(Q) = (Cardinality(Q) - 1) + 1
  BY <1>4
<1> QED BY <1>3, <1>5

\* A bucket in order has every request of it once.
Sorted(seq, b) ==
    /\ seq \in [1 .. Cardinality(b) -> b]
    /\ \A i, j \in 1 .. Cardinality(b) : i < j => After(seq[i], seq[j])

\* A list can be put in order.
LEMMA SortedExists ==
    ASSUME NEW Q, Listed(Q)
    PROVE  \E seq : Sorted(seq, Q)
<1> DEFINE S == {n \in Nat : \A b \in SUBSET Q : Cardinality(b) = n => \E seq : Sorted(seq, b)}
<1>1. 0 \in S
  <2> SUFFICES ASSUME NEW b \in SUBSET Q, Cardinality(b) = 0
               PROVE  \E seq : Sorted(seq, b)
    OBVIOUS
  <2>1. Sorted([i \in 1 .. 0 |-> i], b)
    BY DEF Sorted
  <2> QED BY <2>1
<1>2. ASSUME NEW n \in S PROVE n + 1 \in S
  <2>1. n \in Nat
    BY <1>2
  <2> SUFFICES ASSUME NEW b \in SUBSET Q, Cardinality(b) = n + 1
               PROVE  \E seq : Sorted(seq, b)
    BY <2>1
  <2>2. Listed(b) /\ IsFiniteSet(b) /\ b # {}
    <3>1. Listed(b)
      BY ListedPart
    <3> QED BY <2>1, <3>1, FS_EmptySet DEF Listed
  <2>3. PICK r \in b : \A q \in b : q = r \/ After(q, r)
    BY <2>2, LastOne
  <2>4. Cardinality(b \ {r}) = n /\ b \ {r} \in SUBSET Q
    BY <2>1, <2>2, <2>3, FS_RemoveElement
  <2>5. PICK few : Sorted(few, b \ {r})
    BY <1>2, <2>4
  <2> DEFINE seq == [i \in 1 .. n + 1 |-> IF i = n + 1 THEN r ELSE few[i]]
  <2>6. \A i \in 1 .. n : seq[i] = few[i] /\ few[i] \in b \ {r}
    <3>1. few \in [1 .. n -> b \ {r}]
      BY <2>4, <2>5 DEF Sorted
    <3>2. \A i \in 1 .. n : i \in 1 .. n + 1 /\ i # n + 1
      BY <2>1
    <3> QED BY <3>1, <3>2
  <2>7. seq \in [1 .. n + 1 -> b]
    <3>1. \A i \in 1 .. n + 1 : i = n + 1 \/ i \in 1 .. n
      BY <2>1
    <3> QED BY <2>6, <3>1
  <2>8. ASSUME NEW i \in 1 .. n + 1, NEW j \in 1 .. n + 1, i < j
        PROVE  After(seq[i], seq[j])
    <3>1. i \in 1 .. n
      BY <2>1, <2>8
    <3>2. CASE j = n + 1
      <4>1. seq[j] = r
        BY <3>2
      <4> QED BY <2>3, <2>6, <3>1, <4>1
    <3>3. CASE j # n + 1
      <4>1. j \in 1 .. n
        BY <2>1, <3>3
      <4>2. After(few[i], few[j])
        BY <2>4, <2>5, <2>8, <3>1, <4>1 DEF Sorted
      <4> QED BY <2>6, <3>1, <4>1, <4>2
    <3> QED BY <3>2, <3>3
  <2> HIDE DEF seq
  <2>9. Sorted(seq, b)
    BY <2>7, <2>8 DEF Sorted
  <2> QED BY <2>9
<1>3. \A n \in Nat : n \in S
  <2> HIDE DEF S
  <2>1. S \in SUBSET Nat
    BY DEF S
  <2> QED BY <1>1, <1>2, <2>1, Inductive
<1>4. Cardinality(Q) \in Nat
  BY FS_CardinalityType DEF Listed
<1> QED BY <1>3, <1>4

\* A list in order has every request, once.
LEMMA SortedHasAll ==
    ASSUME NEW Q, Listed(Q), NEW seq, Sorted(seq, Q)
    PROVE  /\ \A r \in Q : \E i \in 1 .. Cardinality(Q) : seq[i] = r
           /\ \A i, j \in 1 .. Cardinality(Q) : After(seq[i], seq[j]) => i < j
<1> DEFINE n == Cardinality(Q)
           all == {seq[i] : i \in 1 .. n}
<1>1. n \in Nat /\ IsFiniteSet(Q) /\ seq \in [1 .. n -> Q]
  BY FS_CardinalityType DEF Listed, Sorted
<1>2. ASSUME NEW i \in 1 .. n, NEW j \in 1 .. n, After(seq[i], seq[j]) PROVE i < j
  <2>1. seq[i] \in Q /\ seq[j] \in Q
    BY <1>1
  <2>2. ~After(seq[j], seq[i]) /\ seq[i] # seq[j]
    BY <1>2, <2>1, AfterOrders
  <2>3. ~(j < i) /\ i # j
    BY <2>2 DEF Sorted
  <2> QED BY <1>1, <2>3
<1>3. \A i, j \in 1 .. n : seq[i] = seq[j] => i = j
  <2> SUFFICES ASSUME NEW i \in 1 .. n, NEW j \in 1 .. n, seq[i] = seq[j], i # j
               PROVE  FALSE
    OBVIOUS
  <2>1. ~After(seq[i], seq[j]) /\ ~After(seq[j], seq[i])
    BY <1>1, AfterOrders
  <2>2. i < j \/ j < i
    BY <1>1
  <2> QED BY <2>1, <2>2 DEF Sorted
<1>4. [i \in 1 .. n |-> seq[i]] \in Bijection(1 .. n, all)
  BY <1>3 DEF Bijection, Injection, Surjection, IsInjective
<1>5. Cardinality(all) = n
  BY <1>1, <1>4, FS_CountingElements DEF ExistsBijection
<1>6. all \in SUBSET Q
  BY <1>1
<1>7. all = Q
  BY <1>1, <1>5, <1>6, FS_Subset
<1> QED BY <1>2, <1>7

\* bucket.slice().sort() puts a bucket in order.
LEMMA InOrderSorts ==
    ASSUME NEW b, Listed(b)
    PROVE  Sorted(InOrder(b), b)
<1>1. PICK seq : Sorted(seq, b)
  BY SortedExists
<1>2. \A s \in [1 .. Cardinality(b) -> b] : DOMAIN s = 1 .. Cardinality(b)
  OBVIOUS
<1>3. \E s \in [1 .. Cardinality(b) -> b] :
        \A i, j \in DOMAIN s : i < j => After(s[i], s[j])
  BY <1>1, <1>2 DEF Sorted
<1>4. /\ InOrder(b) \in [1 .. Cardinality(b) -> b]
      /\ \A i, j \in DOMAIN InOrder(b) : i < j => After(InOrder(b)[i], InOrder(b)[j])
  BY <1>3 DEF InOrder
<1> QED BY <1>2, <1>4 DEF Sorted

-----------------------------------------------------------------------------
\* Sequences that have the requests of each key, in order.
Scans(seqs, Q, key) ==
    /\ \A seq \in seqs :
        /\ seq \in Seq(Q)
        /\ \A i, j \in DOMAIN seq :
            key[seq[i]] = key[seq[j]] /\ (i < j <=> After(seq[i], seq[j]))
        /\ \A i \in DOMAIN seq, q \in Q :
            key[q] = key[seq[i]] => \E j \in DOMAIN seq : seq[j] = q
    /\ \A r \in Q : \E seq \in seqs : \E i \in DOMAIN seq : seq[i] = r
    /\ \A seq, other \in seqs : \A i \in DOMAIN seq, j \in DOMAIN other :
        seq[i] = other[j] => seq = other

\* Splitting requests by a key and sorting each bucket gives such sequences
\* (sessions.ts, the maps from identities and from addresses).
LEMMA BucketsScan ==
    ASSUME NEW Q, Listed(Q), NEW key
    PROVE  Scans({InOrder(b) : b \in Buckets(Q, key)}, Q, key)
<1> DEFINE Of(r) == {q \in Q : key[q] = key[r]}
<1>1. Buckets(Q, key) = {Of(r) : r \in Q}
  BY DEF Buckets
<1>2. ASSUME NEW r \in Q
      PROVE  LET seq == InOrder(Of(r))
             IN  /\ seq \in Seq(Q) /\ DOMAIN seq = 1 .. Cardinality(Of(r))
                 /\ \A i \in DOMAIN seq : seq[i] \in Of(r)
                 /\ \A i, j \in DOMAIN seq : i < j <=> After(seq[i], seq[j])
                 /\ \A q \in Of(r) : \E j \in DOMAIN seq : seq[j] = q
  <2> DEFINE seq == InOrder(Of(r))
             n == Cardinality(Of(r))
  <2>1. Listed(Of(r))
    BY ListedPart
  <2>2. n \in Nat
    BY <2>1, FS_CardinalityType DEF Listed
  <2>3. Sorted(seq, Of(r))
    BY <2>1, InOrderSorts
  <2>4. seq \in [1 .. n -> Of(r)]
    BY <2>3 DEF Sorted
  <2>5. seq \in [1 .. n -> Q]
    BY <2>4
  <2>6. seq \in Seq(Q)
    BY <2>2, <2>5, SeqDef
  <2>7. /\ \A q \in Of(r) : \E i \in 1 .. n : seq[i] = q
        /\ \A i, j \in 1 .. n : After(seq[i], seq[j]) => i < j
    <3> HIDE DEF Of, seq
    <3> QED BY <2>1, <2>3, SortedHasAll
  <2>8. \A i, j \in 1 .. n : i < j => After(seq[i], seq[j])
    BY <2>3 DEF Sorted
  <2> HIDE DEF Of, seq, n
  <2> QED BY <2>4, <2>6, <2>7, <2>8 DEF seq, n
<1> DEFINE seqs == {InOrder(b) : b \in Buckets(Q, key)}
<1>3. \A seq \in seqs : \E r \in Q : seq = InOrder(Of(r))
  BY <1>1
<1>4. \A r \in Q : InOrder(Of(r)) \in seqs /\ r \in Of(r)
  BY <1>1
<1>5. \A r, q \in Q : q \in Of(r) <=> key[q] = key[r]
  OBVIOUS
<1>6. \A r \in Q : \E seq \in seqs : \E i \in DOMAIN seq : seq[i] = r
  <2> TAKE r \in Q
  <2> HIDE DEF seqs, Of
  <2>1. \E j \in DOMAIN InOrder(Of(r)) : InOrder(Of(r))[j] = r
    BY <1>2, <1>4
  <2> QED BY <1>4, <2>1
<1>7. ASSUME NEW seq \in seqs
      PROVE  /\ seq \in Seq(Q)
             /\ \A i, j \in DOMAIN seq :
                 key[seq[i]] = key[seq[j]] /\ (i < j <=> After(seq[i], seq[j]))
             /\ \A i \in DOMAIN seq, q \in Q :
                 key[q] = key[seq[i]] => \E j \in DOMAIN seq : seq[j] = q
  <2>1. PICK r \in Q : seq = InOrder(Of(r))
    BY <1>3
  <2>2. Of(r) \subseteq Q
    OBVIOUS
  <2> HIDE DEF seqs, Of
  <2>3. /\ seq \in Seq(Q)
        /\ \A i \in DOMAIN seq : seq[i] \in Of(r)
        /\ \A i, j \in DOMAIN seq : i < j <=> After(seq[i], seq[j])
        /\ \A q \in Of(r) : \E j \in DOMAIN seq : seq[j] = q
    BY <1>2, <2>1
  <2>4. \A i \in DOMAIN seq : key[seq[i]] = key[r]
    BY <1>5, <2>2, <2>3
  <2> QED BY <1>5, <2>3, <2>4
<1>8. ASSUME NEW seq \in seqs, NEW other \in seqs,
             NEW i \in DOMAIN seq, NEW j \in DOMAIN other, seq[i] = other[j]
      PROVE  seq = other
  <2>1. PICK r \in Q : seq = InOrder(Of(r))
    BY <1>3
  <2>2. PICK q \in Q : other = InOrder(Of(q))
    BY <1>3
  <2>3. seq[i] \in Of(r) /\ seq[i] \in Of(q)
    <3> HIDE DEF Of, seqs
    <3> QED BY <1>2, <1>8, <2>1, <2>2
  <2>4. key[r] = key[q]
    BY <2>3
  <2>5. Of(r) = Of(q)
    BY <2>4
  <2> QED BY <2>1, <2>2, <2>5
<1> HIDE DEF Of
<1> QED BY <1>6, <1>7, <1>8 DEF Scans

\* What a sequence of requests is.
LEMMA ScanOrders ==
    ASSUME NEW Q, Listed(Q), NEW key, NEW seqs, Scans(seqs, Q, key), NEW seq \in seqs
    PROVE  /\ Len(seq) \in Nat /\ DOMAIN seq = 1 .. Len(seq)
           /\ \A i \in 1 .. Len(seq) : seq[i] \in Q /\ seq[i].row.ts \in Nat
           /\ \A i, j \in 1 .. Len(seq) : i < j => After(seq[i], seq[j])
           /\ \A i, j \in 1 .. Len(seq) : i <= j => seq[i].row.ts <= seq[j].row.ts
           /\ \A i, j \in 1 .. Len(seq) : seq[i] = seq[j] => i = j
<1>1. seq \in Seq(Q)
  BY DEF Scans
<1>2. Len(seq) \in Nat /\ DOMAIN seq = 1 .. Len(seq) /\ \A i \in 1 .. Len(seq) : seq[i] \in Q
  BY <1>1, LenProperties, ElementOfSeq
<1>3. \A i, j \in 1 .. Len(seq) : i < j <=> After(seq[i], seq[j])
  BY <1>2 DEF Scans
<1>4. \A i \in 1 .. Len(seq) : seq[i].row.ts \in Nat
  BY <1>2 DEF Listed
<1>5. \A i, j \in 1 .. Len(seq) : i <= j => seq[i].row.ts <= seq[j].row.ts
  BY <1>2, <1>3, <1>4, AfterOrders
<1>6. \A i, j \in 1 .. Len(seq) : seq[i] = seq[j] => i = j
  <2>1. \A i, j \in 1 .. Len(seq) : seq[i] = seq[j] => ~(i < j) /\ ~(j < i)
    BY <1>2, <1>3, AfterOrders
  <2> QED BY <1>2, <2>1
<1> QED BY <1>2, <1>3, <1>4, <1>5, <1>6

\* The requests of a sequence have one key.
LEMMA ScanKeys ==
    ASSUME NEW Q, NEW key, NEW seqs, Scans(seqs, Q, key), NEW seq \in seqs
    PROVE  /\ \A i, j \in DOMAIN seq : key[seq[i]] = key[seq[j]]
           /\ \A i \in DOMAIN seq, q \in Q :
                key[q] = key[seq[i]] => \E j \in DOMAIN seq : seq[j] = q
BY DEF Scans

\* The least and the greatest of some numbers.
LEMMA LeastNumber ==
    ASSUME NEW S \in SUBSET Nat, S # {}
    PROVE  \E x \in S : \A y \in S : x <= y
<1> DEFINE R == {ss \in Nat \X Nat : ss[1] < ss[2]}
<1>1. IsWellFoundedOn(R, Nat)
  BY NatLessThanWellFounded, Zenon DEF OpToRel
<1> HIDE DEF R
<1>2. PICK x \in S : \A y \in S : ~(<<y, x>> \in R)
  BY <1>1, WFMin, Zenon
<1>3. \A y \in S : ~(y < x)
  BY <1>2 DEF R
<1> QED BY <1>3

\* And the greatest.
LEMMA GreatestNumber ==
    ASSUME NEW n \in Nat, NEW S \in SUBSET (1 .. n), S # {}
    PROVE  \E x \in S : \A y \in S : y <= x
<1> DEFINE T == {n - x : x \in S}
<1>1. T \in SUBSET Nat /\ T # {}
  <2>1. \A x \in S : n - x \in Nat
    OBVIOUS
  <2> QED BY <2>1
<1>2. PICK t \in T : \A u \in T : t <= u
  <2> HIDE DEF T
  <2> QED BY <1>1, LeastNumber
<1>3. PICK m \in S : t = n - m
  BY <1>2
<1>4. \A x \in S : x <= m
  BY <1>2, <1>3
<1> QED BY <1>4

\* A scan finds a recovery if there is one.
LEMMA RecoveredMeans ==
    ASSUME NEW Q, Listed(Q), NEW key, NEW seqs, Scans(seqs, Q, key), NEW seq \in seqs,
           NEW i \in DOMAIN seq, RecoveryWindow \in Nat
    PROVE  Recovered(seq, i) <=>
             \E r \in Q : /\ key[seq[i]] = key[r] /\ After(seq[i], r)
                          /\ Apart(seq[i], r) <= RecoveryWindow
                          /\ r.row.outcome = "resolved"
<1> DEFINE n == Len(seq)
           Within(j) == /\ Gap(seq[i], seq[j]) <= RecoveryWindow
                        /\ seq[j].row.outcome = "resolved"
<1>1. /\ n \in Nat /\ DOMAIN seq = 1 .. n /\ i \in 1 .. n
      /\ \A j \in 1 .. n : seq[j] \in Q /\ seq[j].row.ts \in Nat
      /\ \A j, k \in 1 .. n : j < k => After(seq[j], seq[k])
      /\ \A j, k \in 1 .. n : j <= k => seq[j].row.ts <= seq[k].row.ts
  BY ScanOrders
<1>2. \A j, k \in 1 .. n : key[seq[j]] = key[seq[k]] /\ (j < k <=> After(seq[j], seq[k]))
  BY <1>1 DEF Scans
<1>3. \A j \in i + 1 .. n : Apart(seq[i], seq[j]) = Gap(seq[i], seq[j])
  BY <1>1 DEF Apart, Gap
<1>4. ASSUME Recovered(seq, i)
      PROVE  \E r \in Q : /\ key[seq[i]] = key[r] /\ After(seq[i], r)
                          /\ Apart(seq[i], r) <= RecoveryWindow
                          /\ r.row.outcome = "resolved"
  <2>1. PICK j \in i + 1 .. n : Within(j)
    BY <1>4 DEF Recovered
  <2>2. j \in 1 .. n /\ i < j
    BY <1>1
  <2> QED BY <1>1, <1>2, <1>3, <2>1, <2>2
<1>5. ASSUME NEW r \in Q, key[seq[i]] = key[r], After(seq[i], r),
             Apart(seq[i], r) <= RecoveryWindow, r.row.outcome = "resolved"
      PROVE  Recovered(seq, i)
  <2> DEFINE S == {j \in i + 1 .. n : Within(j)}
  <2>1. PICK j0 \in DOMAIN seq : seq[j0] = r
    BY <1>5 DEF Scans
  <2>2. j0 \in i + 1 .. n
    <3>1. i < j0
      BY <1>1, <1>2, <1>5, <2>1
    <3> QED BY <1>1, <2>1, <3>1
  <2>3. j0 \in S
    BY <1>3, <1>5, <2>1, <2>2
  <2>4. S \in SUBSET Nat /\ S # {}
    BY <1>1, <2>3
  <2>5. PICK j \in S : \A k \in S : j <= k
    <3> HIDE DEF S
    <3> QED BY <2>4, LeastNumber
  <2>6. ASSUME NEW k \in i + 1 .. j - 1
        PROVE  Gap(seq[i], seq[k]) <= RecoveryWindow /\ seq[k].row.outcome # "resolved"
    <3>1. k \in i + 1 .. n /\ k \in 1 .. n /\ j \in 1 .. n /\ k < j
      BY <1>1
    <3>2. Gap(seq[i], seq[k]) <= Gap(seq[i], seq[j])
      <4> HIDE DEF Within, S, n
      <4>1. /\ seq[i].row.ts \in Nat /\ seq[k].row.ts \in Nat /\ seq[j].row.ts \in Nat
            /\ seq[k].row.ts <= seq[j].row.ts
        BY <1>1, <3>1
      <4> QED BY <4>1 DEF Gap
    <3>3. Gap(seq[i], seq[k]) \in Int /\ Gap(seq[i], seq[j]) \in Int
      BY <1>1, <3>1 DEF Gap
    <3>4. Gap(seq[i], seq[k]) <= RecoveryWindow
      BY <2>5, <3>2, <3>3
    <3>5. k \notin S
      BY <1>1, <2>5, <3>1
    <3> QED BY <3>1, <3>4, <3>5
  <2> QED BY <2>5, <2>6 DEF Recovered
<1> QED BY <1>4, <1>5

\* And a scan backward finds what an escalation came from.
LEMMA EscalatedMeans ==
    ASSUME NEW Q, Listed(Q), NEW key, NEW seqs, Scans(seqs, Q, key), NEW seq \in seqs,
           NEW i \in DOMAIN seq, EscalationWindow \in Nat
    PROVE  Escalated(seq, i) <=>
             /\ seq[i].row.class \in EscalationTo
             /\ \E q \in Q : /\ key[q] = key[seq[i]] /\ After(q, seq[i])
                             /\ Apart(q, seq[i]) <= EscalationWindow
                             /\ q.row.class \in EscalationFrom
<1> DEFINE n == Len(seq)
           Within(j) == /\ Gap(seq[j], seq[i]) <= EscalationWindow
                        /\ seq[j].row.class \in EscalationFrom
<1>1. /\ n \in Nat /\ DOMAIN seq = 1 .. n /\ i \in 1 .. n
      /\ \A j \in 1 .. n : seq[j] \in Q /\ seq[j].row.ts \in Nat
      /\ \A j, k \in 1 .. n : j < k => After(seq[j], seq[k])
      /\ \A j, k \in 1 .. n : j <= k => seq[j].row.ts <= seq[k].row.ts
  BY ScanOrders
<1>2. \A j, k \in 1 .. n : key[seq[j]] = key[seq[k]] /\ (j < k <=> After(seq[j], seq[k]))
  BY <1>1 DEF Scans
<1>3. \A j \in 1 .. i - 1 : j \in 1 .. n /\ j < i /\ Apart(seq[j], seq[i]) = Gap(seq[j], seq[i])
  BY <1>1 DEF Apart, Gap
<1>4. ASSUME Escalated(seq, i)
      PROVE  /\ seq[i].row.class \in EscalationTo
             /\ \E q \in Q : /\ key[q] = key[seq[i]] /\ After(q, seq[i])
                             /\ Apart(q, seq[i]) <= EscalationWindow
                             /\ q.row.class \in EscalationFrom
  <2>1. PICK j \in 1 .. i - 1 : Within(j)
    BY <1>4 DEF Escalated
  <2> QED BY <1>1, <1>2, <1>3, <1>4, <2>1 DEF Escalated
<1>5. ASSUME seq[i].row.class \in EscalationTo,
             NEW q \in Q, key[q] = key[seq[i]], After(q, seq[i]),
             Apart(q, seq[i]) <= EscalationWindow, q.row.class \in EscalationFrom
      PROVE  Escalated(seq, i)
  <2> DEFINE S == {j \in 1 .. i - 1 : Within(j)}
  <2>1. PICK j0 \in DOMAIN seq : seq[j0] = q
    BY <1>5 DEF Scans
  <2>2. j0 \in 1 .. i - 1
    <3>1. j0 < i
      BY <1>1, <1>2, <1>5, <2>1
    <3> QED BY <1>1, <2>1, <3>1
  <2>3. j0 \in S
    BY <1>3, <1>5, <2>1, <2>2
  <2>4. S \in SUBSET (1 .. n) /\ S # {}
    BY <1>3, <2>3
  <2>5. PICK j \in S : \A k \in S : k <= j
    <3> HIDE DEF S
    <3> QED BY <1>1, <2>4, GreatestNumber
  <2>6. ASSUME NEW k \in j + 1 .. i - 1
        PROVE  Gap(seq[k], seq[i]) <= EscalationWindow /\ seq[k].row.class \notin EscalationFrom
    <3>1. k \in 1 .. i - 1 /\ k \in 1 .. n /\ j \in 1 .. n /\ j < k
      BY <1>1, <1>3
    <3>2. Gap(seq[k], seq[i]) <= Gap(seq[j], seq[i])
      BY <1>1, <3>1 DEF Gap
    <3>3. Gap(seq[k], seq[i]) \in Int /\ Gap(seq[j], seq[i]) \in Int
      BY <1>1, <3>1 DEF Gap
    <3>4. Gap(seq[k], seq[i]) <= EscalationWindow
      BY <2>5, <3>2, <3>3
    <3>5. k \notin S
      <4> HIDE DEF S, n, Within
      <4>1. ~(k <= j)
        BY <1>1, <3>1
      <4> QED BY <2>5, <4>1
    <3> QED BY <3>1, <3>4, <3>5
  <2> QED BY <1>5, <2>5, <2>6 DEF Escalated
<1> QED BY <1>4, <1>5

-----------------------------------------------------------------------------
\* The scan starts a session at the first request and after each idle gap.
IsStart(seq, k) == k = 1 \/ Gap(seq[k - 1], seq[k]) > IdleGap

\* What no other request is linked to has a chain as a whole or not at all.
LEMMA ChainHolds ==
    ASSUME NEW Q, Listed(Q), NEW seqs, IdleGap \in Nat,
           Scans(seqs, Q, [r \in Q |-> IdentityKey(r)]), NEW seq \in seqs,
           NEW c, \A q \in c, r \in Q : Linked(q, r) => r \in c, 
           NEW i \in DOMAIN seq, NEW j \in DOMAIN seq, i <= j,
           \A k \in i + 1 .. j : ~IsStart(seq, k)
    PROVE  seq[i] \in c <=> seq[j] \in c
<1> DEFINE n == Len(seq)
           S == {d \in Nat : i + d <= j => (seq[i] \in c <=> seq[i + d] \in c)}
<1>1. /\ n \in Nat /\ DOMAIN seq = 1 .. n
      /\ \A k \in 1 .. n : seq[k] \in Q /\ seq[k].row.ts \in Nat
      /\ \A k, l \in 1 .. n : k <= l => seq[k].row.ts <= seq[l].row.ts
  BY ScanOrders
<1>2. \A k, l \in 1 .. n : IdentityKey(seq[k]) = IdentityKey(seq[l])
  <2> DEFINE key == [r \in Q |-> IdentityKey(r)]
  <2>1. \A r \in Q : key[r] = IdentityKey(r)
    OBVIOUS
  <2>2. Scans(seqs, Q, key)
    OBVIOUS
  <2> HIDE DEF key
  <2>3. \A k, l \in DOMAIN seq : key[seq[k]] = key[seq[l]]
    BY <2>2, ScanKeys
  <2> QED BY <1>1, <2>1, <2>3
<1>3. 0 \in S
  BY <1>1
<1>4. ASSUME NEW d \in S PROVE d + 1 \in S
  <2>1. CASE i + (d + 1) <= j
    <3>1. /\ d \in Nat /\ i + d \in 1 .. n /\ i + d + 1 \in 1 .. n /\ i + d <= j
          /\ i + d + 1 \in i + 1 .. j /\ i + d + 1 # 1
      BY <1>1, <1>4, <2>1
    <3> DEFINE q == seq[i + d]
               r == seq[i + d + 1]
    <3>0. /\ q.row.ts \in Nat /\ r.row.ts \in Nat /\ q.row.ts <= r.row.ts
          /\ q \in Q /\ r \in Q /\ IdentityKey(q) = IdentityKey(r)
      <4> HIDE DEF n, S
      <4>1. i + d <= i + d + 1
        BY <1>1, <3>1
      <4> QED BY <1>1, <1>2, <3>1, <4>1
    <3>2. Gap(seq[i + d], seq[i + d + 1]) <= IdleGap
      <4>1. ~IsStart(seq, i + d + 1)
        BY <3>1
      <4>2. (i + d + 1) - 1 = i + d
        BY <1>1, <3>1
      <4>3. Gap(q, r) \in Int
        <5> HIDE DEF q, r
        <5> QED BY <3>0 DEF Gap
      <4> QED BY <3>1, <4>1, <4>2, <4>3 DEF IsStart
    <3>3. Linked(seq[i + d], seq[i + d + 1]) /\ Linked(seq[i + d + 1], seq[i + d])
      <4>1. r.row.ts - q.row.ts <= IdleGap
        BY <3>2 DEF Gap
      <4>2. Apart(q, r) <= IdleGap /\ Apart(r, q) <= IdleGap
        <5> HIDE DEF q, r
        <5> QED BY <3>0, <4>1 DEF Apart
      <4> QED BY <3>0, <4>2 DEF Linked
    <3>4. seq[i + d] \in c <=> seq[i + d + 1] \in c
      BY <1>1, <3>1, <3>3
    <3> QED BY <1>4, <3>1, <3>4
  <2>2. CASE ~(i + (d + 1) <= j)
    BY <1>4, <2>2
  <2> QED BY <2>1, <2>2
<1>5. \A d \in Nat : d \in S
  <2> HIDE DEF S
  <2>1. S \in SUBSET Nat
    BY DEF S
  <2> QED BY <1>3, <1>4, <2>1, Inductive
<1>6. j - i \in Nat /\ i + (j - i) = j
  BY <1>1
<1>7. i + (j - i) <= j => (seq[i] \in c <=> seq[i + (j - i)] \in c)
  BY <1>5, <1>6
<1> QED
  <2>1. j \in Nat /\ j <= j
    BY <1>1
  <2> QED BY <1>6, <1>7, <2>1

\* The request s starts the session of q.
Opens(seqs, s, q) ==
    \E seq \in seqs : \E i, j \in DOMAIN seq :
        /\ i <= j /\ seq[i] = s /\ seq[j] = q
        /\ IsStart(seq, i) /\ \A k \in i + 1 .. j : ~IsStart(seq, k)

\* Some request opens the session of each, going back from it ...
LEMMA SomeOpens ==
    ASSUME NEW Q, Listed(Q), NEW key, NEW seqs, Scans(seqs, Q, key), NEW q \in Q
    PROVE  \E s \in Q : Opens(seqs, s, q)
<1>1. PICK seq \in seqs : \E j \in DOMAIN seq : seq[j] = q
  BY DEF Scans
<1>2. PICK j \in DOMAIN seq : seq[j] = q
  BY <1>1
<1> DEFINE S == {k \in 1 .. j : IsStart(seq, k)}
<1>3. Len(seq) \in Nat /\ DOMAIN seq = 1 .. Len(seq) /\ \A k \in 1 .. Len(seq) : seq[k] \in Q
  BY ScanOrders
<1>4. j \in Nat /\ S \in SUBSET (1 .. j) /\ S # {}
  <2>1. 1 \in S
    BY <1>3 DEF IsStart
  <2> QED BY <1>3, <2>1
<1>5. PICK i \in S : \A k \in S : k <= i
  <2> HIDE DEF S
  <2> QED BY <1>4, GreatestNumber
<1>6. i \in DOMAIN seq /\ i <= j /\ IsStart(seq, i) /\ \A k \in i + 1 .. j : ~IsStart(seq, k)
  <2>1. i \in 1 .. j /\ i \in 1 .. Len(seq)
    BY <1>3
  <2>2. ASSUME NEW k \in i + 1 .. j PROVE ~IsStart(seq, k)
    <3>1. k \in 1 .. j /\ ~(k <= i)
      BY <2>1, <1>3
    <3> QED BY <1>5, <3>1
  <2> QED BY <1>3, <2>1, <2>2
<1> QED BY <1>2, <1>3, <1>6 DEF Opens

\* ... and only one does.
LEMMA OneOpens ==
    ASSUME NEW Q, Listed(Q), NEW key, NEW seqs, Scans(seqs, Q, key),
           NEW q, NEW s, NEW t, Opens(seqs, s, q), Opens(seqs, t, q)
    PROVE  s = t
<1>1. PICK seq \in seqs : \E i, j \in DOMAIN seq :
        /\ i <= j /\ seq[i] = s /\ seq[j] = q
        /\ IsStart(seq, i) /\ \A k \in i + 1 .. j : ~IsStart(seq, k)
  BY DEF Opens
<1>2. PICK i \in DOMAIN seq, j \in DOMAIN seq :
        /\ i <= j /\ seq[i] = s /\ seq[j] = q
        /\ IsStart(seq, i) /\ \A k \in i + 1 .. j : ~IsStart(seq, k)
  BY <1>1
<1>3. PICK other \in seqs : \E a, b \in DOMAIN other :
        /\ a <= b /\ other[a] = t /\ other[b] = q
        /\ IsStart(other, a) /\ \A k \in a + 1 .. b : ~IsStart(other, k)
  BY DEF Opens
<1>4. PICK a \in DOMAIN other, b \in DOMAIN other :
        /\ a <= b /\ other[a] = t /\ other[b] = q
        /\ IsStart(other, a) /\ \A k \in a + 1 .. b : ~IsStart(other, k)
  BY <1>3
<1>5. other = seq
  BY <1>2, <1>4 DEF Scans
<1>6. /\ Len(seq) \in Nat /\ DOMAIN seq = 1 .. Len(seq)
      /\ \A k, l \in 1 .. Len(seq) : seq[k] = seq[l] => k = l
  BY ScanOrders
<1>7. b = j
  BY <1>2, <1>4, <1>5, <1>6
<1>8. ~(i < a) /\ ~(a < i)
  BY <1>2, <1>4, <1>5, <1>6, <1>7
<1>9. a = i
  BY <1>5, <1>6, <1>8
<1> QED BY <1>2, <1>4, <1>5, <1>9

\* A linked request is of the same session.
LEMMA LinkedTogether ==
    ASSUME NEW Q, Listed(Q), NEW seqs, IdleGap \in Nat,
           Scans(seqs, Q, [r \in Q |-> IdentityKey(r)]),
           NEW q \in Q, NEW r \in Q, Linked(q, r), NEW s, Opens(seqs, s, q)
    PROVE  Opens(seqs, s, r)
<1> DEFINE key == [p \in Q |-> IdentityKey(p)]
<1>1. PICK seq \in seqs : \E i, j \in DOMAIN seq :
        /\ i <= j /\ seq[i] = s /\ seq[j] = q
        /\ IsStart(seq, i) /\ \A k \in i + 1 .. j : ~IsStart(seq, k)
  BY DEF Opens
<1>2. PICK i \in DOMAIN seq, j \in DOMAIN seq :
        /\ i <= j /\ seq[i] = s /\ seq[j] = q
        /\ IsStart(seq, i) /\ \A k \in i + 1 .. j : ~IsStart(seq, k)
  BY <1>1
<1> DEFINE n == Len(seq)
<1>3. /\ n \in Nat /\ DOMAIN seq = 1 .. n
      /\ \A k \in 1 .. n : seq[k] \in Q /\ seq[k].row.ts \in Nat
      /\ \A k, l \in 1 .. n : k <= l => seq[k].row.ts <= seq[l].row.ts
  BY ScanOrders
<1>4. PICK l \in DOMAIN seq : seq[l] = r
  <2>1. key[r] = key[seq[j]]
    BY <1>2 DEF Linked
  <2>2. Scans(seqs, Q, key)
    OBVIOUS
  <2> HIDE DEF key
  <2> QED BY <2>1, <2>2 DEF Scans
\* No session starts between two requests that are linked.
<1>5. ASSUME NEW a \in 1 .. n, NEW b \in 1 .. n, Apart(seq[a], seq[b]) <= IdleGap,
             NEW k \in a + 1 .. b
      PROVE  ~IsStart(seq, k)
  <2>1. k \in 1 .. n /\ k - 1 \in 1 .. n /\ a <= k - 1 /\ k <= b /\ a <= b /\ k # 1
    BY <1>3
  <2>2. /\ seq[a].row.ts <= seq[k - 1].row.ts /\ seq[k].row.ts <= seq[b].row.ts
        /\ seq[a].row.ts <= seq[b].row.ts
        /\ {seq[a].row.ts, seq[b].row.ts, seq[k].row.ts, seq[k - 1].row.ts} \subseteq Nat
    BY <1>3, <2>1
  <2>3. Gap(seq[k - 1], seq[k]) <= IdleGap
    <3>1. \A x, y, v, w \in Nat :
            x <= y /\ v <= w /\ w - x <= IdleGap => v - y <= IdleGap
      OBVIOUS
    <3>2. seq[b].row.ts - seq[a].row.ts <= IdleGap
      BY <1>5, <2>2 DEF Apart
    <3>3. PICK x, y, v, w \in Nat :
            /\ x = seq[a].row.ts /\ y = seq[k - 1].row.ts
            /\ v = seq[k].row.ts /\ w = seq[b].row.ts
      BY <2>2
    <3>4. x <= y /\ v <= w /\ w - x <= IdleGap
      BY <2>2, <3>2, <3>3
    <3>5. v - y <= IdleGap
      BY <3>1, <3>4
    <3> QED BY <3>3, <3>5 DEF Gap
  <2>4. Gap(seq[k - 1], seq[k]) \in Int
    <3>1. PICK y, v \in Nat : y = seq[k - 1].row.ts /\ v = seq[k].row.ts
      BY <2>2
    <3>2. v - y \in Int
      OBVIOUS
    <3> QED BY <3>1, <3>2 DEF Gap
  <2> QED BY <2>1, <2>3, <2>4 DEF IsStart
<1>6. Apart(seq[j], seq[l]) <= IdleGap /\ Apart(seq[l], seq[j]) <= IdleGap
  BY <1>2, <1>3, <1>4 DEF Linked, Apart
<1>7. i <= l
  <2> SUFFICES ASSUME l < i PROVE FALSE
    BY <1>3
  <2>1. i \in l + 1 .. j
    BY <1>2, <1>3
  <2> QED BY <1>2, <1>3, <1>5, <1>6, <2>1
<1>8. ASSUME NEW k \in i + 1 .. l PROVE ~IsStart(seq, k)
  <2>1. k \in i + 1 .. j \/ k \in j + 1 .. l
    BY <1>3
  <2> QED BY <1>2, <1>3, <1>5, <1>6, <2>1
<1> QED BY <1>2, <1>4, <1>7, <1>8 DEF Opens

\* Two sets are of one size if each element of one belongs to one of the other.
LEMMA SameSize ==
    ASSUME NEW S, IsFiniteSet(S), NEW T, NEW f \in [S -> T],
           \A x, y \in S : f[x] = f[y] => x = y,
           \A z \in T : \E x \in S : f[x] = z
    PROVE  IsFiniteSet(T) /\ Cardinality(T) = Cardinality(S)
<1>1. f \in Bijection(S, T)
  BY DEF Bijection, Injection, Surjection, IsInjective
<1> QED BY <1>1, FS_Bijection DEF ExistsBijection

\* The starts of sessions are the requests that open them.
LEMMA StartsOpen ==
    ASSUME NEW Q, Listed(Q), NEW key, NEW seqs, Scans(seqs, Q, key), NEW s
    PROVE  /\ s \in UNION {SessionStarts(seq) : seq \in seqs} <=> Opens(seqs, s, s)
           /\ \A q : Opens(seqs, s, q) => Opens(seqs, s, s) /\ s \in Q
<1>1. SUFFICES ASSUME NEW seq \in seqs
               PROVE  /\ s \in SessionStarts(seq) => Opens(seqs, s, s)
                      /\ \A i \in DOMAIN seq : seq[i] = s /\ IsStart(seq, i)
                            => s \in SessionStarts(seq) /\ Opens(seqs, s, s) /\ s \in Q
  <2>1. ASSUME s \in UNION {SessionStarts(seq) : seq \in seqs} PROVE Opens(seqs, s, s)
    BY <1>1, <2>1
  <2>2. ASSUME NEW q, Opens(seqs, s, q)
        PROVE  /\ s \in UNION {SessionStarts(seq) : seq \in seqs}
               /\ Opens(seqs, s, s) /\ s \in Q
    <3>1. PICK seq \in seqs : \E i \in DOMAIN seq : seq[i] = s /\ IsStart(seq, i)
      BY <2>2 DEF Opens
    <3> QED BY <1>1, <3>1
  <2> QED BY <2>1, <2>2
<1>2. Len(seq) \in Nat /\ DOMAIN seq = 1 .. Len(seq) /\ \A i \in 1 .. Len(seq) : seq[i] \in Q
  BY ScanOrders
<1>3. ASSUME NEW i \in DOMAIN seq, seq[i] = s, IsStart(seq, i)
      PROVE  s \in SessionStarts(seq) /\ Opens(seqs, s, s) /\ s \in Q
  <2>1. s \in SessionStarts(seq)
    BY <1>3 DEF SessionStarts, IsStart
  <2>2. i <= i /\ i + 1 .. i = {}
    BY <1>2
  <2> QED BY <1>2, <1>3, <2>1, <2>2 DEF Opens
<1>4. ASSUME s \in SessionStarts(seq) PROVE \E i \in DOMAIN seq : seq[i] = s /\ IsStart(seq, i)
  BY <1>4 DEF SessionStarts, IsStart
<1> QED BY <1>3, <1>4

\* There are as many starts as there are sessions.
LEMMA SessionsCounted ==
    ASSUME NEW Q, Listed(Q), NEW seqs, IdleGap \in Nat,
           Scans(seqs, Q, [r \in Q |-> IdentityKey(r)])
    PROVE  Cardinality(UNION {SessionStarts(seq) : seq \in seqs})
             = Cardinality(SessionsAmong(Q))
<1> DEFINE starts == UNION {SessionStarts(seq) : seq \in seqs}
           Of(s) == {q \in Q : Opens(seqs, s, q)}
<1>1. /\ \A s : s \in starts <=> Opens(seqs, s, s)
      /\ \A s, q : Opens(seqs, s, q) => s \in starts /\ s \in Q
  BY StartsOpen
<1>2. IsFiniteSet(starts)
  <2>1. starts \in SUBSET Q
    BY <1>1
  <2> QED BY <2>1, FS_Subset DEF Listed
<1>3. \A q \in Q : \E s \in starts : q \in Of(s)
  BY <1>1, SomeOpens
<1>4. ASSUME NEW s \in starts, NEW q \in Of(s), NEW r \in Q, Linked(q, r) PROVE r \in Of(s)
  BY <1>4, LinkedTogether
<1>5. \A s \in starts : Detached(Of(s), Q)
  <2>1. \A s \in starts : s \in Of(s)
    BY <1>1
  <2> HIDE DEF Of, starts
  <2> QED BY <1>4, <2>1 DEF Detached
\* What is detached and has one request of a session has them all.
<1>6. ASSUME NEW d \in SUBSET Q, Detached(d, Q), NEW s \in starts, NEW q \in d, q \in Of(s)
      PROVE  Of(s) \subseteq d
  <2>1. ASSUME NEW r \in Q, Opens(seqs, s, r) PROVE s \in d <=> r \in d
    <3>1. PICK seq \in seqs : \E i, j \in DOMAIN seq :
            /\ i <= j /\ seq[i] = s /\ seq[j] = r
            /\ IsStart(seq, i) /\ \A k \in i + 1 .. j : ~IsStart(seq, k)
      BY <2>1 DEF Opens
    <3>2. PICK i \in DOMAIN seq, j \in DOMAIN seq :
            /\ i <= j /\ seq[i] = s /\ seq[j] = r
            /\ IsStart(seq, i) /\ \A k \in i + 1 .. j : ~IsStart(seq, k)
      BY <3>1
    <3>3. \A p \in d, o \in Q : Linked(p, o) => o \in d
      BY <1>6 DEF Detached
    <3>4. seq[i] \in d <=> seq[j] \in d
      BY <3>2, <3>3, ChainHolds
    <3> QED BY <3>2, <3>4
  <2>2. s \in d
    BY <1>6, <2>1
  <2> QED BY <2>1, <2>2
<1>7. \A s \in starts : Of(s) \in SessionsAmong(Q)
  <2> TAKE s \in starts
  <2>1. Of(s) \subseteq Q
    OBVIOUS
  <2> HIDE DEF Of, starts
  <2>2. ASSUME NEW d \in SUBSET Of(s), Detached(d, Q) PROVE d = Of(s)
    <3>1. PICK q : q \in d
      BY <2>2 DEF Detached
    <3> QED BY <1>6, <2>1, <2>2, <3>1
  <2> QED BY <1>5, <2>1, <2>2 DEF SessionsAmong
<1>8. \A c \in SessionsAmong(Q) : \E s \in starts : Of(s) = c
  <2> TAKE c \in SessionsAmong(Q)
  <2>1. /\ c \in SUBSET Q /\ Detached(c, Q)
        /\ \A d \in SUBSET c : Detached(d, Q) => d = c
    BY DEF SessionsAmong
  <2>2. PICK q : q \in c
    BY <2>1 DEF Detached
  <2>3. PICK s \in starts : q \in Of(s)
    BY <1>3, <2>1, <2>2
  <2> HIDE DEF Of, starts
  <2>4. Of(s) \subseteq c
    BY <1>6, <2>1, <2>2, <2>3
  <2> QED BY <1>5, <2>1, <2>3, <2>4
<1>9. \A s, t \in starts : Of(s) = Of(t) => s = t
  <2> TAKE s \in starts, t \in starts
  <2> HAVE Of(s) = Of(t)
  <2>1. Opens(seqs, s, s) /\ s \in Q
    BY <1>1
  <2>2. Opens(seqs, t, s)
    BY <2>1
  <2> QED BY <2>1, <2>2, OneOpens
<1> DEFINE f == [s \in starts |-> Of(s)]
<1>10. /\ f \in [starts -> SessionsAmong(Q)]
       /\ \A x, y \in starts : f[x] = f[y] => x = y
       /\ \A z \in SessionsAmong(Q) : \E x \in starts : f[x] = z
  <2> HIDE DEF Of, starts
  <2> QED BY <1>7, <1>8, <1>9
<1> HIDE DEF f, starts
<1>11. Cardinality(SessionsAmong(Q)) = Cardinality(starts)
  BY <1>2, <1>10, SameSize
<1> QED BY <1>11 DEF starts

-----------------------------------------------------------------------------
\* The requests of a list of rows.
LEMMA RequestsListed ==
    ASSUME NEW records, Len(records) \in Nat, DOMAIN records = 1 .. Len(records),
           \A i \in DOMAIN records : records[i].ts \in Nat
    PROVE  Listed(Requests(records)) /\ Cardinality(Requests(records)) = Len(records)
<1> DEFINE n == Len(records)
           f == [i \in 1 .. n |-> [at |-> i, row |-> records[i]]]
<1>1. IsFiniteSet(1 .. n) /\ Cardinality(1 .. n) = n
  <2>1. n \in Nat /\ n \in Int /\ 1 \in Int
    OBVIOUS
  <2> HIDE DEF n
  <2>2. IsFiniteSet(1 .. n) /\ Cardinality(1 .. n) = IF 1 > n THEN 0 ELSE n - 1 + 1
    BY <2>1, FS_Interval
  <2> QED BY <2>1, <2>2
<1>2. /\ f \in [1 .. n -> Requests(records)]
      /\ \A x, y \in 1 .. n : f[x] = f[y] => x = y
      /\ \A z \in Requests(records) : \E x \in 1 .. n : f[x] = z
  <2>1. \A i \in 1 .. n : f[i].at = i
    OBVIOUS
  <2> QED BY <2>1 DEF Requests
<1>3. IsFiniteSet(Requests(records)) /\ Cardinality(Requests(records)) = n
  <2> HIDE DEF f
  <2> QED BY <1>1, <1>2, SameSize
<1>4. /\ \A q \in Requests(records) : q.at \in Nat /\ q.row.ts \in Nat
      /\ \A q, r \in Requests(records) : q.at = r.at => q = r
  BY DEF Requests
<1> QED BY <1>3, <1>4 DEF Listed

\* The scans of agent/sessions.ts count what ScanCounts says, whatever the list
\* of records and the windows.
LEMMA ScansCount ==
    ASSUME NEW records, Len(records) \in Nat, DOMAIN records = 1 .. Len(records),
           \A i \in DOMAIN records : records[i].ts \in Nat
    PROVE  AgentSessionsOf(records) = ScanCounts(records)
<1> DEFINE Q == Requests(records)
           K == {r \in Q : IsSessionable(r)}
           key == [r \in K |-> IdentityKey(r)]
           seqs == {InOrder(b) : b \in Buckets(K, key)}
           dead == UNION {{seq[i] : i \in DeadEnds(seq)} : seq \in seqs}
           saved == UNION {{seq[i] : i \in {k \in DeadEnds(seq) : Recovered(seq, k)}}
                           : seq \in seqs}
           ends == {r \in K : r.row.outcome = "dead_end"}
<1>1. Listed(Q) /\ Cardinality(Q) = Len(records) /\ Listed(K) /\ IsFiniteSet(Q)
  BY RequestsListed, ListedPart DEF Listed
<1>2. {IdleGap, RecoveryWindow, EscalationWindow} \subseteq Nat
  BY TableAssumption
<1>3. Scans(seqs, K, key)
  <2> HIDE DEF K, key
  <2> QED BY <1>1, BucketsScan
<1>4. /\ \A seq \in seqs : \A i \in DOMAIN seq : seq[i] \in K
      /\ \A r \in K : \E seq \in seqs : \E i \in DOMAIN seq : seq[i] = r
  <2> HIDE DEF K, key, seqs
  <2> QED BY <1>1, <1>3, ScanOrders DEF Scans
<1>5. dead = ends
  <2> HIDE DEF K, key, seqs
  <2> QED BY <1>4 DEF DeadEnds
<1>6. saved = SavedAfter(K)
  <2>1. ASSUME NEW seq \in seqs, NEW i \in DOMAIN seq
        PROVE  seq[i] \in SavedAfter(K) <=> i \in DeadEnds(seq) /\ Recovered(seq, i)
    <3>1. Recovered(seq, i) <=>
            \E r \in K : /\ key[seq[i]] = key[r] /\ After(seq[i], r)
                         /\ Apart(seq[i], r) <= RecoveryWindow
                         /\ r.row.outcome = "resolved"
      <4> HIDE DEF K, key, seqs
      <4> QED BY <1>1, <1>2, <1>3, RecoveredMeans
    <3>2. \A r \in K : key[r] = IdentityKey(r)
      OBVIOUS
    <3>3. seq[i] \in K
      BY <1>4
    <3> HIDE DEF K, key, seqs
    <3> QED BY <3>1, <3>2, <3>3 DEF SavedAfter, DeadEnds
  <2>2. SavedAfter(K) \subseteq K
    BY DEF SavedAfter
  <2>3. saved \subseteq SavedAfter(K)
    <3> HIDE DEF K, key, seqs
    <3> QED BY <2>1 DEF DeadEnds
  <2>4. SavedAfter(K) \subseteq saved
    <3> HIDE DEF K, key, seqs
    <3> QED BY <1>4, <2>1, <2>2
  <2> QED BY <2>3, <2>4
<1>7. Cardinality(UNION {SessionStarts(seq) : seq \in seqs}) = Cardinality(SessionsAmong(K))
  <2> HIDE DEF K, seqs
  <2> QED BY <1>1, <1>2, <1>3, SessionsCounted
<1>8. Escalations(Q) = EscalatedAfter(Q)
  <2> DEFINE N == {r \in Q : r.row.ip # NoAddress}
             ips == [r \in N |-> r.row.ip]
             byIp == {InOrder(b) : b \in Buckets(N, ips)}
  <2>1. Listed(N)
    BY <1>1, ListedPart
  <2>2. Scans(byIp, N, ips)
    <3> HIDE DEF N, ips
    <3> QED BY <2>1, BucketsScan
  <2>3. /\ \A seq \in byIp : \A i \in DOMAIN seq : seq[i] \in N
        /\ \A r \in N : \E seq \in byIp : \E i \in DOMAIN seq : seq[i] = r
    <3> HIDE DEF N, ips, byIp
    <3> QED BY <2>1, <2>2, ScanOrders DEF Scans
  <2>4. ASSUME NEW seq \in byIp, NEW i \in DOMAIN seq
        PROVE  seq[i] \in EscalatedAfter(Q) <=> Escalated(seq, i)
    <3>1. Escalated(seq, i) <=>
            /\ seq[i].row.class \in EscalationTo
            /\ \E q \in N : /\ ips[q] = ips[seq[i]] /\ After(q, seq[i])
                            /\ Apart(q, seq[i]) <= EscalationWindow
                            /\ q.row.class \in EscalationFrom
      <4> HIDE DEF N, ips, byIp
      <4> QED BY <1>2, <2>1, <2>2, EscalatedMeans
    <3>2. \A r \in N : ips[r] = r.row.ip
      OBVIOUS
    <3>3. seq[i] \in N
      BY <2>3
    <3>4. \A q : q \in N <=> q \in Q /\ q.row.ip # NoAddress
      OBVIOUS
    <3>5. (\E q \in N : /\ ips[q] = ips[seq[i]] /\ After(q, seq[i])
                        /\ Apart(q, seq[i]) <= EscalationWindow
                        /\ q.row.class \in EscalationFrom)
          <=> \E q \in Q : /\ q.row.ip = seq[i].row.ip /\ q.row.class \in EscalationFrom
                           /\ After(q, seq[i]) /\ Apart(q, seq[i]) <= EscalationWindow
      <4> HIDE DEF N, ips, byIp, Q
      <4> QED BY <3>2, <3>3, <3>4
    <3> HIDE DEF N, ips, byIp, Q
    <3>6. seq[i] \in Q /\ seq[i].row.ip # NoAddress
      BY <3>3, <3>4
    <3>7. Apart(seq[i], seq[i]) = Apart(seq[i], seq[i])
      OBVIOUS
    <3> QED BY <3>1, <3>5, <3>6 DEF EscalatedAfter
  <2>5. EscalatedAfter(Q) \subseteq N
    BY DEF EscalatedAfter
  <2>6. Escalations(Q) = UNION {{seq[i] : i \in {k \in DOMAIN seq : Escalated(seq, k)}}
                                : seq \in byIp}
    BY DEF Escalations
  <2> HIDE DEF N, ips, byIp, Q
  <2>7. Escalations(Q) \subseteq EscalatedAfter(Q)
    BY <2>4, <2>6
  <2>8. EscalatedAfter(Q) \subseteq Escalations(Q)
    BY <2>3, <2>4, <2>5, <2>6
  <2> QED BY <2>7, <2>8
<1>9. Cardinality(dead) - Cardinality(saved) = Cardinality(ends \ SavedAfter(K))
  <2>1. SavedAfter(K) \subseteq ends /\ ends \subseteq K
    BY DEF SavedAfter
  <2>2. IsFiniteSet(ends) /\ ends \cap SavedAfter(K) = SavedAfter(K)
    BY <1>1, <2>1, FS_Subset DEF Listed
  <2>3. Cardinality(ends \ SavedAfter(K)) = Cardinality(ends) - Cardinality(SavedAfter(K))
    <3> HIDE DEF ends, K
    <3>1. Cardinality(ends \ SavedAfter(K))
            = Cardinality(ends) - Cardinality(ends \cap SavedAfter(K))
      BY <2>2, FS_Difference
    <3> QED BY <2>2, <3>1
  <2> QED BY <1>5, <1>6, <2>3
<1>10. Len(records) - Cardinality(K) = Cardinality(Q \ K)
  <2>1. Q \cap K = K
    OBVIOUS
  <2> HIDE DEF Q, K
  <2>2. Cardinality(Q \ K) = Cardinality(Q) - Cardinality(Q \cap K)
    BY <1>1, FS_Difference
  <2> QED BY <1>1, <2>1, <2>2
<1>11. AgentSessionsOf(records) =
         [sessions |-> Cardinality(UNION {SessionStarts(seq) : seq \in seqs}),
          deadEnds |-> Cardinality(dead), recovered |-> Cardinality(saved),
          abandoned |-> Cardinality(dead) - Cardinality(saved),
          escalations |-> Cardinality(Escalations(Q)),
          unsessionable |-> Len(records) - Cardinality(K)]
  BY DEF AgentSessionsOf
<1>12. ScanCounts(records) =
         [sessions |-> Cardinality(SessionsAmong(K)),
          deadEnds |-> Cardinality(ends), recovered |-> Cardinality(SavedAfter(K)),
          abandoned |-> Cardinality(ends \ SavedAfter(K)),
          escalations |-> Cardinality(EscalatedAfter(Q)),
          unsessionable |-> Cardinality(Q \ K)]
  BY DEF ScanCounts
<1> HIDE DEF Q, K, key, seqs, dead, saved, ends
<1> QED BY <1>5, <1>6, <1>7, <1>8, <1>9, <1>10, <1>11, <1>12

\* A part of a finite set is not larger.
LEMMA SmallerPart ==
    ASSUME NEW A, NEW B, IsFiniteSet(B), A \subseteq B
    PROVE  /\ IsFiniteSet(A)
           /\ Cardinality(A) \in Nat /\ Cardinality(B) \in Nat
           /\ Cardinality(A) <= Cardinality(B)
<1>1. IsFiniteSet(A) /\ Cardinality(A) <= Cardinality(B)
  BY FS_Subset
<1> QED BY <1>1, FS_CardinalityType

\* The order of storage decides no more than the pairs of one moment: what comes
\* strictly before is counted, and what is counted comes before or at once.
LEMMA TiesBound ==
    ASSUME NEW Q, Listed(Q)
    PROVE  /\ SavedAmong(Q, FALSE) \subseteq SavedAfter(Q)
           /\ SavedAfter(Q) \subseteq SavedAmong(Q, TRUE)
           /\ EscalatedAmong(Q, FALSE) \subseteq EscalatedAfter(Q)
           /\ EscalatedAfter(Q) \subseteq EscalatedAmong(Q, TRUE)
<1>1. \A q, r : (Before(q, r, FALSE) => After(q, r)) /\ (After(q, r) => Before(q, r, TRUE))
  BY DEF Before, After
<1>2. /\ SavedAmong(Q, FALSE) \subseteq SavedAfter(Q)
      /\ SavedAfter(Q) \subseteq SavedAmong(Q, TRUE)
  BY <1>1, Zenon DEF SavedAmong, SavedAfter
<1>3. /\ EscalatedAmong(Q, FALSE) \subseteq EscalatedAfter(Q)
      /\ EscalatedAfter(Q) \subseteq EscalatedAmong(Q, TRUE)
  BY <1>1, Zenon DEF EscalatedAmong, EscalatedAfter
<1> QED BY <1>2, <1>3

\* So the counts lie where SessionsMean says, whatever the list of records.
LEMMA ScansMean ==
    ASSUME NEW records, Len(records) \in Nat, DOMAIN records = 1 .. Len(records),
           \A i \in DOMAIN records : records[i].ts \in Nat
    PROVE  LET told == AgentSessionsOf(records)
               Q == Requests(records)
               K == {r \in Q : IsSessionable(r)}
           IN  /\ told.sessions = Cardinality(SessionsAmong(K))
               /\ told.deadEnds = Cardinality({r \in K : r.row.outcome = "dead_end"})
               /\ told.recovered \in Cardinality(SavedAmong(K, FALSE))
                                       .. Cardinality(SavedAmong(K, TRUE))
               /\ told.abandoned = told.deadEnds - told.recovered
               /\ told.escalations \in Cardinality(EscalatedAmong(Q, FALSE))
                                         .. Cardinality(EscalatedAmong(Q, TRUE))
               /\ told.unsessionable = Cardinality(Q \ K)
<1> DEFINE told == AgentSessionsOf(records)
           Q == Requests(records)
           K == {r \in Q : IsSessionable(r)}
           ends == {r \in K : r.row.outcome = "dead_end"}
<1>1. Listed(Q) /\ Listed(K) /\ IsFiniteSet(Q) /\ IsFiniteSet(K)
  BY RequestsListed, ListedPart DEF Listed
<1>2. told = [sessions |-> Cardinality(SessionsAmong(K)),
              deadEnds |-> Cardinality(ends),
              recovered |-> Cardinality(SavedAfter(K)),
              abandoned |-> Cardinality(ends \ SavedAfter(K)),
              escalations |-> Cardinality(EscalatedAfter(Q)),
              unsessionable |-> Cardinality(Q \ K)]
  BY ScansCount DEF ScanCounts
<1> HIDE DEF told, Q
<1>3. /\ SavedAfter(K) \subseteq ends /\ ends \subseteq K
      /\ SavedAmong(K, TRUE) \subseteq K /\ EscalatedAmong(Q, TRUE) \subseteq Q
  BY DEF SavedAfter, SavedAmong, EscalatedAmong
<1> HIDE DEF K, ends
<1>4. IsFiniteSet(SavedAmong(K, TRUE)) /\ IsFiniteSet(EscalatedAmong(Q, TRUE))
  BY <1>1, <1>3, SmallerPart
<1>5. /\ Cardinality(SavedAfter(K)) \in Nat
      /\ Cardinality(SavedAmong(K, FALSE)) \in Nat
      /\ Cardinality(SavedAmong(K, TRUE)) \in Nat
      /\ Cardinality(SavedAmong(K, FALSE)) <= Cardinality(SavedAfter(K))
      /\ Cardinality(SavedAfter(K)) <= Cardinality(SavedAmong(K, TRUE))
  BY <1>1, <1>4, TiesBound, SmallerPart
<1>6. /\ Cardinality(EscalatedAfter(Q)) \in Nat
      /\ Cardinality(EscalatedAmong(Q, FALSE)) \in Nat
      /\ Cardinality(EscalatedAmong(Q, TRUE)) \in Nat
      /\ Cardinality(EscalatedAmong(Q, FALSE)) <= Cardinality(EscalatedAfter(Q))
      /\ Cardinality(EscalatedAfter(Q)) <= Cardinality(EscalatedAmong(Q, TRUE))
  BY <1>1, <1>4, TiesBound, SmallerPart
<1>7. Cardinality(ends \ SavedAfter(K)) = Cardinality(ends) - Cardinality(SavedAfter(K))
  <2>1. IsFiniteSet(ends) /\ ends \cap SavedAfter(K) = SavedAfter(K)
    BY <1>1, <1>3, SmallerPart
  <2>2. Cardinality(ends \ SavedAfter(K))
          = Cardinality(ends) - Cardinality(ends \cap SavedAfter(K))
    BY <2>1, FS_Difference
  <2> QED BY <2>1, <2>2
<1>8. \A a, b, c \in Nat : a <= b /\ b <= c => b \in a .. c
  OBVIOUS
<1>9. /\ told.recovered = Cardinality(SavedAfter(K))
      /\ told.escalations = Cardinality(EscalatedAfter(Q))
      /\ told.sessions = Cardinality(SessionsAmong(K))
      /\ told.deadEnds = Cardinality(ends)
      /\ told.unsessionable = Cardinality(Q \ K)
  BY <1>2
<1>10. told.recovered \in Cardinality(SavedAmong(K, FALSE))
                            .. Cardinality(SavedAmong(K, TRUE))
  BY <1>5, <1>8, <1>9, Zenon
<1>11. told.escalations \in Cardinality(EscalatedAmong(Q, FALSE))
                              .. Cardinality(EscalatedAmong(Q, TRUE))
  BY <1>6, <1>8, <1>9, Zenon
<1>12. told.abandoned = told.deadEnds - told.recovered
  BY <1>2, <1>7
<1> QED BY <1>9, <1>10, <1>11, <1>12, Zenon DEF told, Q, K, ends

(***************************************************************************)
(* AgentTelemetry: the sums of the counts, and the rows that are pulled.   *)
(***************************************************************************)

\* Where in a sequence the selected elements come from.
Places(f, s, S) ==
    /\ f \in [1 .. Len(Only(s, S)) -> 1 .. Len(s)]
    /\ \A i, j \in 1 .. Len(Only(s, S)) : i < j => f[i] < f[j]
    /\ \A i \in 1 .. Len(Only(s, S)) : Only(s, S)[i] = s[f[i]] /\ s[f[i]] \in S
    /\ \A j \in 1 .. Len(s) : s[j] \in S => \E i \in 1 .. Len(Only(s, S)) : f[i] = j

\* What is selected comes from places in order, and every selected place is one.
LEMMA OnlyPlaces ==
    ASSUME NEW U, NEW S
    PROVE  \A s \in Seq(U) : \E f : Places(f, s, S)
<1> DEFINE T == {s \in Seq(U) : \E f : Places(f, s, S)}
<1>1. <<>> \in T
  <2>1. Len(<<>>) = 0 /\ 1 .. 0 = {}
    OBVIOUS
  <2>2. Places([i \in 1 .. 0 |-> i], <<>>, S)
    BY <2>1, OnlyOfNothing DEF Places
  <2> QED BY <2>2
<1>2. ASSUME NEW s \in Seq(U), NEW x \in U, s \in T PROVE Append(s, x) \in T
  <2> DEFINE o == Only(s, S)
             t == Append(s, x)
  <2>1. PICK f : Places(f, s, S)
    BY <1>2
  <2>2. o \in Seq(U)
    BY OnlyType
  <2>3. Only(t, S) = IF x \in S THEN Append(o, x) ELSE o
    BY OnlyOfAppend
  <2>4. /\ Len(s) \in Nat /\ Len(t) = Len(s) + 1 /\ t[Len(s) + 1] = x
        /\ \A i \in 1 .. Len(s) : t[i] = s[i]
        /\ t \in Seq(U)
    BY AppendProperties, LenProperties
  <2>5. /\ Len(o) \in Nat /\ Len(Append(o, x)) = Len(o) + 1 /\ Append(o, x)[Len(o) + 1] = x
        /\ \A i \in 1 .. Len(o) : Append(o, x)[i] = o[i]
    BY <2>2, AppendProperties, LenProperties
  <2>6. /\ f \in [1 .. Len(o) -> 1 .. Len(s)]
        /\ \A i, j \in 1 .. Len(o) : i < j => f[i] < f[j]
        /\ \A i \in 1 .. Len(o) : o[i] = s[f[i]] /\ s[f[i]] \in S
        /\ \A j \in 1 .. Len(s) : s[j] \in S => \E i \in 1 .. Len(o) : f[i] = j
    BY <2>1 DEF Places
  <2> HIDE DEF o, t
  <2>0. 1 .. Len(s) \subseteq 1 .. Len(t)
    BY <2>4
  <2>7. CASE x \notin S
    <3>1. Only(t, S) = o
      BY <2>3, <2>7
    <3>2. /\ f \in [1 .. Len(o) -> 1 .. Len(t)]
          /\ \A i \in 1 .. Len(o) : o[i] = t[f[i]] /\ t[f[i]] \in S
      <4>1. \A i \in 1 .. Len(o) : f[i] \in 1 .. Len(s)
        BY <2>6
      <4>2. f \in [1 .. Len(o) -> 1 .. Len(t)]
        BY <2>0, <2>6, <4>1
      <4> QED BY <2>4, <2>6, <4>1, <4>2
    <3>3. \A j \in 1 .. Len(t) : t[j] \in S => \E i \in 1 .. Len(o) : f[i] = j
      <4> TAKE j \in 1 .. Len(t)
      <4> HAVE t[j] \in S
      <4>1. j \in 1 .. Len(s)
        BY <2>4, <2>7
      <4> QED BY <2>4, <2>6, <4>1
    <3>4. Places(f, t, S)
      BY <2>6, <3>1, <3>2, <3>3 DEF Places
    <3> QED BY <2>4, <3>4 DEF t
  <2>8. CASE x \in S
    <3> DEFINE m == Len(o)
               g == [i \in 1 .. m + 1 |-> IF i = m + 1 THEN Len(s) + 1 ELSE f[i]]
    <3>1. Only(t, S) = Append(o, x) /\ Len(Only(t, S)) = m + 1 /\ m \in Nat
      BY <2>3, <2>5, <2>8
    <3>2. /\ g[m + 1] = Len(s) + 1
          /\ \A i \in 1 .. m : g[i] = f[i] /\ f[i] \in 1 .. Len(s)
          /\ \A i \in 1 .. m + 1 : i = m + 1 \/ i \in 1 .. m
      <4>1. \A i \in 1 .. m : i \in 1 .. m + 1 /\ i # m + 1
        BY <3>1
      <4>2. m + 1 \in 1 .. m + 1 /\ \A i \in 1 .. m + 1 : i = m + 1 \/ i \in 1 .. m
        BY <3>1
      <4>3. \A i \in 1 .. m : f[i] \in 1 .. Len(s)
        BY <2>6
      <4> QED BY <4>1, <4>2, <4>3
    <3>3. g \in [1 .. m + 1 -> 1 .. Len(t)]
      <4>1. \A i \in 1 .. m + 1 : g[i] \in 1 .. Len(t)
        <5>1. Len(s) + 1 \in 1 .. Len(t)
          BY <2>4
        <5> QED BY <2>0, <3>2, <5>1
      <4> QED BY <4>1
    <3> HIDE DEF g, m
    <3>4. \A i, j \in 1 .. m + 1 : i < j => g[i] < g[j]
      <4> SUFFICES ASSUME NEW i \in 1 .. m + 1, NEW j \in 1 .. m + 1, i < j PROVE g[i] < g[j]
        OBVIOUS
      <4>1. i \in 1 .. m
        BY <3>1
      <4>2. CASE j = m + 1
        BY <2>4, <3>2, <4>1, <4>2
      <4>3. CASE j # m + 1
        BY <2>6, <3>2, <4>1, <4>3 DEF m
      <4> QED BY <4>2, <4>3
    <3>5. \A i \in 1 .. m + 1 : Append(o, x)[i] = t[g[i]] /\ t[g[i]] \in S
      <4> TAKE i \in 1 .. m + 1
      <4>1. CASE i = m + 1
        BY <2>4, <2>5, <2>8, <3>2, <4>1 DEF m
      <4>2. CASE i # m + 1
        <5>1. i \in 1 .. m /\ g[i] = f[i] /\ f[i] \in 1 .. Len(s)
          BY <3>2, <4>2
        <5>2. Append(o, x)[i] = o[i] /\ o[i] = s[f[i]] /\ s[f[i]] \in S
          BY <2>5, <2>6, <5>1 DEF m
        <5> QED BY <2>4, <5>1, <5>2
      <4> QED BY <4>1, <4>2
    <3>6. \A j \in 1 .. Len(t) : t[j] \in S => \E i \in 1 .. m + 1 : g[i] = j
      <4> TAKE j \in 1 .. Len(t)
      <4> HAVE t[j] \in S
      <4>1. CASE j = Len(s) + 1
        <5>1. m + 1 \in 1 .. m + 1
          BY <3>1
        <5> QED BY <3>2, <4>1, <5>1
      <4>2. CASE j # Len(s) + 1
        <5>1. j \in 1 .. Len(s) /\ s[j] \in S
          BY <2>4, <4>2
        <5>2. PICK i \in 1 .. m : f[i] = j
          BY <2>6, <5>1 DEF m
        <5>3. i \in 1 .. m + 1
          BY <3>1
        <5> QED BY <3>2, <5>2, <5>3
      <4> QED BY <4>1, <4>2
    <3>7. Places(g, t, S)
      BY <3>1, <3>3, <3>4, <3>5, <3>6 DEF Places
    <3> QED BY <2>4, <3>7 DEF t
  <2> QED BY <2>7, <2>8
<1> QED
  <2> HIDE DEF T
  <2>1. \A s \in Seq(U) : s \in T
    BY <1>1, <1>2, SequenceInduction
  <2> QED BY <2>1 DEF T

-----------------------------------------------------------------------------
\* The sum of the counts of some groups is the number of their rows.
LEMMA GroupsTotal ==
    ASSUME NEW t, Len(t) \in Nat, DOMAIN t = 1 .. Len(t), NEW keys \in SUBSET DOMAIN Groups(t)
    PROVE  Total(Groups(t), keys) = Cardinality({i \in DOMAIN t : GroupKey(t[i]) \in keys})
<1> DEFINE g == Groups(t)
           key(i) == GroupKey(t[i])
           Of(k) == {i \in DOMAIN t : key(i) = k}
           T == UNION {{k} \X (1 .. g[k]) : k \in keys}
           R == {i \in DOMAIN t : key(i) \in keys}
           h(k) == CHOOSE b : b \in Bijection(1 .. g[k], Of(k))
           place(i) == CHOOSE n \in 1 .. g[key(i)] : h(key(i))[n] = i
           f == [i \in R |-> <<key(i), place(i)>>]
<1>1. IsFiniteSet(1 .. Len(t))
  BY FS_Interval
<1>2. ASSUME NEW k \in keys
      PROVE  h(k) \in Bijection(1 .. g[k], Of(k))
  <2>1. IsFiniteSet(Of(k))
    <3>1. Of(k) \in SUBSET (1 .. Len(t))
      OBVIOUS
    <3> HIDE DEF Of
    <3> QED BY <1>1, <3>1, FS_Subset
  <2>2. g[k] = Cardinality(Of(k))
    BY DEF Groups
  <2>3. \E b : b \in Bijection(1 .. g[k], Of(k))
    <3> HIDE DEF Of, g
    <3> QED BY <2>1, <2>2, FS_CardinalityType DEF ExistsBijection
  <2> QED BY <2>3
<1>3. ASSUME NEW k \in keys
      PROVE  /\ \A n \in 1 .. g[k] : h(k)[n] \in Of(k)
             /\ \A m, n \in 1 .. g[k] : h(k)[m] = h(k)[n] => m = n
             /\ \A i \in Of(k) : \E n \in 1 .. g[k] : h(k)[n] = i
  <2> HIDE DEF g, Of, h
  <2>1. h(k) \in Injection(1 .. g[k], Of(k)) /\ h(k) \in Surjection(1 .. g[k], Of(k))
    BY <1>2 DEF Bijection
  <2>2. h(k) \in [1 .. g[k] -> Of(k)] /\ IsInjective(h(k))
    BY <2>1 DEF Injection
  <2>3. \A m, n \in 1 .. g[k] : h(k)[m] = h(k)[n] => m = n
    BY <2>2 DEF IsInjective
  <2>4. \A i \in Of(k) : \E n \in 1 .. g[k] : h(k)[n] = i
    BY <2>1 DEF Surjection
  <2> QED BY <2>2, <2>3, <2>4
<1>4. ASSUME NEW i \in R
      PROVE  /\ key(i) \in keys /\ i \in Of(key(i))
             /\ place(i) \in 1 .. g[key(i)] /\ h(key(i))[place(i)] = i
  <2>1. key(i) \in keys /\ i \in Of(key(i))
    OBVIOUS
  <2>2. \E n \in 1 .. g[key(i)] : h(key(i))[n] = i
    <3> HIDE DEF g, Of, h, key
    <3> QED BY <1>3, <2>1
  <2> HIDE DEF g, Of, h, key
  <2> QED BY <2>1, <2>2
<1>5. \A i : i \in R <=> i \in DOMAIN t /\ key(i) \in keys
  OBVIOUS
<1>6. \A k, i : i \in Of(k) <=> i \in DOMAIN t /\ key(i) = k
  OBVIOUS
<1>7. \A i \in R : f[i] = <<key(i), place(i)>>
  OBVIOUS
<1>8. f \in [R -> T]
  <2>1. f = [i \in R |-> <<key(i), place(i)>>]
    OBVIOUS
  <2>2. \A i \in R : <<key(i), place(i)>> \in T
    <3> HIDE DEF g, h, key, place, R
    <3> QED BY <1>4
  <2> HIDE DEF g, h, key, place, R, T, f
  <2> QED BY <2>1, <2>2
<1>9. IsFiniteSet(R)
  <2>1. R \in SUBSET (1 .. Len(t))
    OBVIOUS
  <2> HIDE DEF R
  <2> QED BY <1>1, <2>1, FS_Subset
<1> HIDE DEF g, h, key, place, Of, R, f
<1>10. \A i, j \in R : f[i] = f[j] => i = j
  <2> TAKE i \in R, j \in R
  <2> HAVE f[i] = f[j]
  <2>1. key(i) = key(j) /\ place(i) = place(j)
    BY <1>7
  <2>2. h(key(i))[place(i)] = i /\ h(key(j))[place(j)] = j
    BY <1>4
  <2> QED BY <2>1, <2>2
<1>11. \A z \in T : \E i \in R : f[i] = z
  <2> TAKE z \in T
  <2>1. PICK k \in keys : z \in {k} \X (1 .. g[k])
    OBVIOUS
  <2>2. PICK n \in 1 .. g[k] : z = <<k, n>>
    BY <2>1
  <2>3. PICK i : i = h(k)[n]
    OBVIOUS
  <2>4. i \in Of(k)
    BY <1>3, <2>2, <2>3
  <2>5. i \in R /\ key(i) = k
    BY <1>5, <1>6, <2>4
  <2>6. place(i) \in 1 .. g[k] /\ h(k)[place(i)] = i
    BY <1>4, <2>5
  <2>7. place(i) = n
    BY <1>3, <2>2, <2>3, <2>6
  <2> QED BY <1>7, <2>2, <2>5, <2>7
<1>12. Cardinality(T) = Cardinality(R)
  <2> HIDE DEF T
  <2> QED BY <1>8, <1>9, <1>10, <1>11, SameSize
<1> QED BY <1>12 DEF Total, g, R, key

\* The outcomes that are told are those of the rows.
LEMMA OutcomesTrue ==
    ASSUME NEW t \in Seq(Row)
    PROVE  LET told == OutcomesOf(Groups(t))
           IN  /\ told.total = Len(t)
               /\ \A o \in Outcome :
                   /\ told.reads[o] =
                        Cardinality({i \in DOMAIN t : t[i].outcome = o /\ ~t[i].write})
                   /\ told.writes[o] =
                        Cardinality({i \in DOMAIN t : t[i].outcome = o /\ t[i].write})
               /\ told.rescued =
                    Cardinality({i \in DOMAIN t : t[i].outcome = "dead_end" /\ t[i].served})
<1> DEFINE g == Groups(t)
           told == OutcomesOf(g)
<1>1. Len(t) \in Nat /\ DOMAIN t = 1 .. Len(t)
  BY LenProperties
<1>2. \A k : k \in DOMAIN g <=> \E i \in DOMAIN t : k = GroupKey(t[i])
  BY DEF Groups
<1>3. \A i \in DOMAIN t : /\ GroupKey(t[i]) \in DOMAIN g
                          /\ GroupKey(t[i]).outcome = t[i].outcome
                          /\ GroupKey(t[i]).write = t[i].write
                          /\ GroupKey(t[i]).served = t[i].served
  BY <1>2 DEF GroupKey
<1>4. \A keys \in SUBSET DOMAIN g :
        Total(g, keys) = Cardinality({i \in DOMAIN t : GroupKey(t[i]) \in keys})
  BY <1>1, GroupsTotal
<1>5. /\ told.total = Total(g, DOMAIN g)
      /\ \A o \in Outcome :
           /\ told.reads[o] = Total(g, {k \in DOMAIN g : k.outcome = o /\ ~k.write})
           /\ told.writes[o] = Total(g, {k \in DOMAIN g : k.outcome = o /\ k.write})
      /\ told.rescued = Total(g, {k \in DOMAIN g : k.outcome = "dead_end" /\ k.served})
  BY DEF OutcomesOf
<1> HIDE DEF g, told
<1>6. told.total = Len(t)
  <2>1. {i \in DOMAIN t : GroupKey(t[i]) \in DOMAIN g} = 1 .. Len(t)
    BY <1>1, <1>3
  <2>2. Cardinality(1 .. Len(t)) = Len(t)
    <3>1. Cardinality(1 .. Len(t)) = IF 1 > Len(t) THEN 0 ELSE Len(t) - 1 + 1
      BY <1>1, FS_Interval
    <3> QED BY <1>1, <3>1
  <2> QED BY <1>4, <1>5, <2>1, <2>2
<1>7. ASSUME NEW o \in Outcome
      PROVE  /\ told.reads[o] = 
                  Cardinality({i \in DOMAIN t : t[i].outcome = o /\ ~t[i].write})
             /\ told.writes[o] = 
                  Cardinality({i \in DOMAIN t : t[i].outcome = o /\ t[i].write})
  <2>1. {i \in DOMAIN t : GroupKey(t[i]) \in {k \in DOMAIN g : k.outcome = o /\ ~k.write}}
          = {i \in DOMAIN t : t[i].outcome = o /\ ~t[i].write}
    BY <1>3
  <2>2. {i \in DOMAIN t : GroupKey(t[i]) \in {k \in DOMAIN g : k.outcome = o /\ k.write}}
          = {i \in DOMAIN t : t[i].outcome = o /\ t[i].write}
    BY <1>3
  <2> QED BY <1>4, <1>5, <2>1, <2>2
<1>8. told.rescued =
        Cardinality({i \in DOMAIN t : t[i].outcome = "dead_end" /\ t[i].served})
  <2>1. {i \in DOMAIN t : GroupKey(t[i]) \in
                            {k \in DOMAIN g : k.outcome = "dead_end" /\ k.served}}
          = {i \in DOMAIN t : t[i].outcome = "dead_end" /\ t[i].served}
    BY <1>3
  <2> QED BY <1>4, <1>5, <2>1
<1> QED BY <1>6, <1>7, <1>8 DEF told, g

-----------------------------------------------------------------------------
\* Two lists of the same requests, but for those that belong to no session.
Mirrors(h, P, Q) ==
    /\ h \in [P -> Q]
    /\ \A p \in P : h[p].row = p.row
    /\ \A p, q \in P : h[p] = h[q] => p = q
    /\ \A q \in Q : IsSessionable(q) => \E p \in P : h[p] = q

\* What is linked in the one is linked in the other.
LEMMA MirrorDetached ==
    ASSUME NEW P, NEW Q, NEW h \in [P -> Q], \A p \in P : h[p].row = p.row,
           \A q \in Q : \E p \in P : h[p] = q,
           NEW c \in SUBSET P, NEW d \in SUBSET Q,
           \A p \in P : p \in c <=> h[p] \in d
    PROVE  Detached(c, P) <=> Detached(d, Q)
<1>1. \A p, q \in P : Linked(p, q) <=> Linked(h[p], h[q])
  BY DEF Linked, IdentityKey, Apart
<1>2. c # {} <=> d # {}
  OBVIOUS
<1>3. (\A p \in c, q \in P : Linked(p, q) => q \in c)
        <=> \A p \in d, q \in Q : Linked(p, q) => q \in d
  <2>1. ASSUME \A p \in c, q \in P : Linked(p, q) => q \in c,
               NEW p \in d, NEW q \in Q, Linked(p, q)
        PROVE  q \in d
    <3>1. PICK x \in P : h[x] = p
      OBVIOUS
    <3>2. PICK y \in P : h[y] = q
      OBVIOUS
    <3> QED BY <1>1, <2>1, <3>1, <3>2
  <2>2. ASSUME \A p \in d, q \in Q : Linked(p, q) => q \in d,
               NEW p \in c, NEW q \in P, Linked(p, q)
        PROVE  q \in c
    BY <1>1, <2>2
  <2> QED BY <2>1, <2>2
<1> QED BY <1>2, <1>3 DEF Detached

\* So the sessions of the one are the sessions of the other, turned around.
LEMMA MirrorSessions ==
    ASSUME NEW P, NEW Q, IsFiniteSet(P),
           NEW h \in [P -> Q], \A p \in P : h[p].row = p.row,
           \A p, q \in P : h[p] = h[q] => p = q, \A q \in Q : \E p \in P : h[p] = q
    PROVE  Cardinality(SessionsAmong(Q)) = Cardinality(SessionsAmong(P))
<1> DEFINE Image(c) == {h[p] : p \in c}
           Back(d) == {p \in P : h[p] \in d}
           f == [c \in SessionsAmong(P) |-> Image(c)]
<1>1. /\ \A c \in SUBSET P : Image(c) \in SUBSET Q /\ Back(Image(c)) = c
      /\ \A d \in SUBSET Q : Back(d) \in SUBSET P /\ Image(Back(d)) = d
  OBVIOUS
<1>2. \A c \in SUBSET P : Detached(c, P) <=> Detached(Image(c), Q)
  <2> TAKE c \in SUBSET P
  <2>1. \A p \in P : p \in c <=> h[p] \in Image(c)
    OBVIOUS
  <2>2. Image(c) \in SUBSET Q
    BY <1>1
  <2> HIDE DEF Image
  <2> QED BY <2>1, <2>2, MirrorDetached
<1>3. \A d \in SUBSET Q : Detached(d, Q) <=> Detached(Back(d), P)
  <2> TAKE d \in SUBSET Q
  <2>1. Back(d) \in SUBSET P /\ Image(Back(d)) = d
    BY <1>1
  <2> HIDE DEF Image, Back
  <2> QED BY <1>2, <2>1
<1>4. /\ \A c, e \in SUBSET P : c \subseteq e => Image(c) \subseteq Image(e)
      /\ \A d, e \in SUBSET Q : d \subseteq e => Back(d) \subseteq Back(e)
  OBVIOUS
<1>5. \A c : c \in SessionsAmong(P) <=>
               /\ c \in SUBSET P /\ Detached(c, P)
               /\ \A d \in SUBSET c : Detached(d, P) => d = c
  BY DEF SessionsAmong
<1>6. \A c : c \in SessionsAmong(Q) <=>
               /\ c \in SUBSET Q /\ Detached(c, Q)
               /\ \A d \in SUBSET c : Detached(d, Q) => d = c
  BY DEF SessionsAmong
<1>7. \A c \in SessionsAmong(P) : f[c] = Image(c)
  OBVIOUS
<1>8. f = [c \in SessionsAmong(P) |-> Image(c)]
  OBVIOUS
<1> HIDE DEF Image, Back, f
<1>9. \A c \in SessionsAmong(P) : Image(c) \in SessionsAmong(Q)
  <2> TAKE c \in SessionsAmong(P)
  <2>1. Image(c) \in SUBSET Q /\ Detached(Image(c), Q) /\ Back(Image(c)) = c
    BY <1>1, <1>2, <1>5
  <2>2. ASSUME NEW d \in SUBSET Image(c), Detached(d, Q) PROVE d = Image(c)
    <3>1. d \in SUBSET Q /\ Image(Back(d)) = d /\ Detached(Back(d), P) /\ Back(d) \subseteq c
      BY <1>1, <1>3, <1>4, <2>1, <2>2
    <3>2. Back(d) = c
      BY <1>5, <3>1
    <3> QED BY <3>1, <3>2
  <2> QED BY <1>6, <2>1, <2>2
<1>10. \A c \in SessionsAmong(Q) : Back(c) \in SessionsAmong(P) /\ Image(Back(c)) = c
  <2> TAKE c \in SessionsAmong(Q)
  <2>1. /\ Back(c) \in SUBSET P /\ Detached(Back(c), P) /\ Image(Back(c)) = c
        /\ c \in SUBSET Q
    BY <1>1, <1>3, <1>6
  <2>2. ASSUME NEW d \in SUBSET Back(c), Detached(d, P) PROVE d = Back(c)
    <3>1. /\ d \in SUBSET P /\ Back(Image(d)) = d /\ Detached(Image(d), Q)
          /\ Image(d) \subseteq c
      BY <1>1, <1>2, <1>4, <2>1, <2>2
    <3>2. Image(d) = c
      BY <1>6, <3>1
    <3> QED BY <3>1, <3>2
  <2> QED BY <1>5, <2>1, <2>2
<1>11. IsFiniteSet(SessionsAmong(P))
  <2>1. SessionsAmong(P) \in SUBSET (SUBSET P)
    BY <1>5
  <2> QED BY <2>1, FS_SUBSET, FS_Subset
<1>12. \A c, d \in SessionsAmong(P) : f[c] = f[d] => c = d
  <2> TAKE c \in SessionsAmong(P), d \in SessionsAmong(P)
  <2> HAVE f[c] = f[d]
  <2>1. Back(Image(c)) = c /\ Back(Image(d)) = d
    BY <1>1, <1>5
  <2> QED BY <1>7, <2>1
<1>13. f \in [SessionsAmong(P) -> SessionsAmong(Q)]
  BY <1>8, <1>9
<1>14. \A z \in SessionsAmong(Q) : \E c \in SessionsAmong(P) : f[c] = z
  BY <1>7, <1>10
<1> QED BY <1>11, <1>12, <1>13, <1>14, SameSize

\* The other numbers are the same too, if no two requests are of one moment.
LEMMA MirrorCounts ==
    ASSUME NEW P, NEW Q, Listed(P), Listed(Q), NEW h, Mirrors(h, P, Q),
           \A q, r \in Q : q.row.ts = r.row.ts => q = r
    PROVE  LET C == {r \in P : IsSessionable(r)}
               D == {r \in Q : IsSessionable(r)}
           IN  /\ Cardinality(D) = Cardinality(C)
               /\ Cardinality(SessionsAmong(D)) = Cardinality(SessionsAmong(C))
               /\ Cardinality({r \in D : r.row.outcome = "dead_end"})
                    = Cardinality({r \in C : r.row.outcome = "dead_end"})
               /\ Cardinality(SavedAfter(D)) = Cardinality(SavedAfter(C))
               /\ Cardinality({r \in D : r.row.outcome = "dead_end"} \ SavedAfter(D))
                    = Cardinality({r \in C : r.row.outcome = "dead_end"} \ SavedAfter(C))
               /\ Cardinality(EscalatedAfter(P)) <= Cardinality(EscalatedAfter(Q))
<1> DEFINE C == {r \in P : IsSessionable(r)}
           D == {r \in Q : IsSessionable(r)}
           e == [r \in C |-> h[r]]
<1>1. /\ h \in [P -> Q]
      /\ \A p \in P : h[p].row = p.row
      /\ \A p, q \in P : h[p] = h[q] => p = q
      /\ \A q \in Q : IsSessionable(q) => \E p \in P : h[p] = q
  BY DEF Mirrors
<1>2. /\ \A p \in P : IsSessionable(h[p]) <=> IsSessionable(p)
      /\ \A p, q \in P : IdentityKey(h[p]) = IdentityKey(h[q])
                           <=> IdentityKey(p) = IdentityKey(q)
      /\ \A p, q \in P : Apart(h[p], h[q]) = Apart(p, q)
  BY <1>1 DEF IsSessionable, IdentityKey, Apart
<1>3. \A p, q \in P : After(h[p], h[q]) <=> After(p, q)
  <2> TAKE p \in P, q \in P
  <2>1. h[p] \in Q /\ h[q] \in Q /\ h[p].row.ts = p.row.ts /\ h[q].row.ts = q.row.ts
    BY <1>1
  <2>2. CASE p = q
    BY <2>1, <2>2, AfterOrders
  <2>3. CASE p # q
    <3>1. p.row.ts # q.row.ts
      BY <1>1, <2>1, <2>3
    <3> QED BY <2>1, <3>1 DEF After
  <2> QED BY <2>2, <2>3
<1>4. Listed(C) /\ Listed(D) /\ IsFiniteSet(C) /\ IsFiniteSet(P) /\ IsFiniteSet(Q)
  BY ListedPart DEF Listed
<1>5. /\ e \in [C -> D] /\ \A p \in C : e[p] = h[p]
      /\ \A p, q \in C : e[p] = e[q] => p = q
      /\ \A q \in D : \E p \in C : e[p] = q
      /\ \A p \in C : e[p].row = p.row
  BY <1>1, <1>2
<1>6. \A p, q \in C : /\ IdentityKey(e[p]) = IdentityKey(e[q])
                           <=> IdentityKey(p) = IdentityKey(q)
                      /\ Apart(e[p], e[q]) = Apart(p, q)
                      /\ After(e[p], e[q]) <=> After(p, q)
  BY <1>2, <1>3
<1>7. \A p : p \in EscalatedAfter(P) => p \in P /\ h[p] \in EscalatedAfter(Q)
  <2> TAKE p
  <2> HAVE p \in EscalatedAfter(P)
  <2>1. PICK q \in P : /\ q.row.ip = p.row.ip /\ q.row.class \in EscalationFrom
                       /\ After(q, p) /\ Apart(q, p) <= EscalationWindow
    BY DEF EscalatedAfter
  <2>2. p \in P /\ p.row.class \in EscalationTo /\ p.row.ip # NoAddress
    BY DEF EscalatedAfter
  <2>3. /\ h[q] \in Q /\ h[p] \in Q /\ h[q].row = q.row /\ h[p].row = p.row
        /\ After(h[q], h[p]) /\ Apart(h[q], h[p]) <= EscalationWindow
    BY <1>1, <1>2, <1>3, <2>1, <2>2
  <2> QED BY <2>1, <2>2, <2>3 DEF EscalatedAfter
<1> HIDE DEF C, D, e
\* A part of the ones is as large as the part of the others that it comes to.
<1>8. ASSUME NEW c \in SUBSET C, NEW d \in SUBSET D, \A p \in C : p \in c <=> e[p] \in d
      PROVE  Cardinality(d) = Cardinality(c)
  <2> DEFINE f == [p \in c |-> e[p]]
  <2>1. IsFiniteSet(c)
    BY <1>4, FS_Subset
  <2>2. /\ f \in [c -> d]
        /\ \A p, q \in c : f[p] = f[q] => p = q
        /\ \A z \in d : \E p \in c : f[p] = z
    BY <1>5, <1>8
  <2> HIDE DEF f
  <2> QED BY <2>1, <2>2, SameSize
<1>9. Cardinality(D) = Cardinality(C)
  BY <1>5, <1>8
<1>10. Cardinality(SessionsAmong(D)) = Cardinality(SessionsAmong(C))
  BY <1>4, <1>5, MirrorSessions
<1> DEFINE A == {r \in C : r.row.outcome = "dead_end"}
           B == {r \in D : r.row.outcome = "dead_end"}
<1>11. \A p \in C : p \in A <=> e[p] \in B
  BY <1>5
<1>12. \A p \in C : p \in SavedAfter(C) <=> e[p] \in SavedAfter(D)
  <2> TAKE p \in C
  <2>1. e[p] \in D /\ e[p].row = p.row
    BY <1>5
  <2>2. ASSUME NEW q \in C, IdentityKey(p) = IdentityKey(q),
               After(p, q), Apart(p, q) <= RecoveryWindow, q.row.outcome = "resolved"
        PROVE  /\ e[q] \in D /\ IdentityKey(e[p]) = IdentityKey(e[q])
               /\ After(e[p], e[q]) /\ Apart(e[p], e[q]) <= RecoveryWindow
               /\ e[q].row.outcome = "resolved"
    BY <1>5, <1>6, <2>2
  <2>3. ASSUME NEW r \in D, IdentityKey(e[p]) = IdentityKey(r),
               After(e[p], r), Apart(e[p], r) <= RecoveryWindow, r.row.outcome = "resolved"
        PROVE  \E q \in C : /\ IdentityKey(p) = IdentityKey(q)
                            /\ After(p, q) /\ Apart(p, q) <= RecoveryWindow
                            /\ q.row.outcome = "resolved"
    <3>1. PICK q \in C : e[q] = r
      BY <1>5
    <3> QED BY <1>5, <1>6, <2>3, <3>1
  <2> QED BY <2>1, <2>2, <2>3 DEF SavedAfter
<1>13. SavedAfter(C) \subseteq C /\ SavedAfter(D) \subseteq D
  BY DEF SavedAfter
<1>14. A \subseteq C /\ B \subseteq D
  OBVIOUS
<1> HIDE DEF A, B
<1>15. Cardinality(B) = Cardinality(A)
  BY <1>8, <1>11, <1>14
<1>16. Cardinality(SavedAfter(D)) = Cardinality(SavedAfter(C))
  BY <1>8, <1>12, <1>13
<1>17. Cardinality(B \ SavedAfter(D)) = Cardinality(A \ SavedAfter(C))
  <2>1. A \ SavedAfter(C) \in SUBSET C /\ B \ SavedAfter(D) \in SUBSET D
    BY <1>14
  <2>2. \A p \in C : p \in A \ SavedAfter(C) <=> e[p] \in B \ SavedAfter(D)
    BY <1>11, <1>12
  <2> QED BY <1>8, <2>1, <2>2
<1>18. Cardinality(EscalatedAfter(P)) <= Cardinality(EscalatedAfter(Q))
  <2> DEFINE f == [p \in EscalatedAfter(P) |-> h[p]]
  <2>1. f \in Injection(EscalatedAfter(P), EscalatedAfter(Q))
    BY <1>1, <1>7 DEF Injection, IsInjective
  <2>2. IsFiniteSet(EscalatedAfter(Q))
    <3>1. EscalatedAfter(Q) \in SUBSET Q
      BY DEF EscalatedAfter
    <3> QED BY <1>4, <3>1, FS_Subset
  <2> HIDE DEF f
  <2> QED BY <2>1, <2>2, FS_Injection
<1> QED BY <1>9, <1>10, <1>15, <1>16, <1>17, <1>18 DEF A, B, C, D

\* The rows that the summary pulls.
SessionRows == {r \in Row : r.class \in SESSION_ROW_CLASSES}

\* A reversed sequence has the same elements in the opposite places.
LEMMA ReverseProperties ==
    ASSUME NEW U, NEW s \in Seq(U)
    PROVE  /\ Reverse(s) \in Seq(U) /\ Len(Reverse(s)) = Len(s)
           /\ \A i \in 1 .. Len(s) : Reverse(s)[i] = s[Len(s) - i + 1]
<1>1. Len(s) \in Nat /\ \A i \in 1 .. Len(s) : s[i] \in U
  BY LenProperties, ElementOfSeq
<1> DEFINE n == Len(s)
           r == [i \in 1 .. n |-> s[(n - i) + 1]]
<1>2. \A i \in 1 .. n : s[(n - i) + 1] \in U
  <2>1. \A i \in 1 .. n : (n - i) + 1 \in 1 .. n
    BY <1>1
  <2> QED BY <1>1, <2>1
<1>3. r \in [1 .. n -> U]
  BY <1>2
<1>4. r \in Seq(U) /\ Len(r) = n
  <2> HIDE DEF r
  <2>1. r \in Seq(U)
    BY <1>1, <1>3, SeqDef
  <2> QED BY <1>1, <1>3, <2>1, LenProperties
<1>5. Reverse(s) = r
  BY DEF Reverse
<1> QED BY <1>4, <1>5

\* The rows that are pulled, if that is all of them, mirror the table.
LEMMA PulledMirror ==
    ASSUME NEW t \in Seq(Row),
           \A i, j \in DOMAIN t : i # j => t[i].ts # t[j].ts
    PROVE  LET s == Reverse(Only(t, SessionRows))
           IN  /\ Len(s) \in Nat /\ DOMAIN s = 1 .. Len(s)
               /\ \A i \in DOMAIN s : s[i].ts \in Nat
               /\ \E h : Mirrors(h, Requests(s), Requests(t))
<1> DEFINE o == Only(t, SessionRows)
           s == Reverse(o)
           n == Len(o)
<1>1. o \in Seq(Row)
  BY OnlyType
<1>2. Len(o) \in Nat /\ s \in Seq(Row) /\ Len(s) = n /\ \A i \in 1 .. n : s[i] = o[n - i + 1]
  BY <1>1, ReverseProperties, LenProperties
<1>3. DOMAIN s = 1 .. n /\ \A i \in 1 .. n : s[i] \in Row
  BY <1>2, LenProperties, ElementOfSeq
<1>4. \A i \in 1 .. n : s[i].ts \in Nat
  BY <1>3 DEF Row
<1>5. Len(t) \in Nat /\ DOMAIN t = 1 .. Len(t) /\ \A i \in 1 .. Len(t) : t[i] \in Row
  BY LenProperties, ElementOfSeq
<1>6. PICK f : Places(f, t, SessionRows)
  BY OnlyPlaces
<1>7. /\ f \in [1 .. n -> 1 .. Len(t)]
      /\ \A i, j \in 1 .. n : i < j => f[i] < f[j]
      /\ \A i \in 1 .. n : o[i] = t[f[i]] /\ t[f[i]] \in SessionRows
      /\ \A j \in 1 .. Len(t) : t[j] \in SessionRows => \E i \in 1 .. n : f[i] = j
  BY <1>6 DEF Places
<1> DEFINE P == Requests(s)
           Q == Requests(t)
           h == [p \in P |-> [at |-> f[n - p.at + 1], row |-> p.row]]
<1> HIDE DEF o, s
<1>8. \A p : p \in P <=> \E i \in 1 .. n : p = [at |-> i, row |-> s[i]]
  BY <1>3 DEF Requests
<1>9. \A q : q \in Q <=> \E j \in 1 .. Len(t) : q = [at |-> j, row |-> t[j]]
  BY <1>5 DEF Requests
<1>10. \A p \in P : /\ p.at \in 1 .. n /\ n - p.at + 1 \in 1 .. n
                    /\ p.row = s[p.at] /\ p = [at |-> p.at, row |-> p.row]
  <2> TAKE p \in P
  <2>1. PICK i \in 1 .. n : p = [at |-> i, row |-> s[i]]
    BY <1>8
  <2>2. n - i + 1 \in 1 .. n
    BY <1>2
  <2> QED BY <2>1, <2>2
<1>11. \A p \in P : f[n - p.at + 1] \in 1 .. Len(t) /\ p.row = t[f[n - p.at + 1]]
  BY <1>2, <1>7, <1>10
<1> HIDE DEF P, Q
<1>12. h \in [P -> Q]
  <2>1. \A p \in P : [at |-> f[n - p.at + 1], row |-> p.row] \in Q
    BY <1>9, <1>11
  <2> QED BY <2>1
<1>13. \A p \in P : h[p].row = p.row /\ h[p].at = f[n - p.at + 1]
  OBVIOUS
<1> HIDE DEF h, n
<1>14. \A p, q \in P : h[p] = h[q] => p = q
  <2> TAKE p \in P, q \in P
  <2> HAVE h[p] = h[q]
  <2>1. p.row = q.row /\ f[n - p.at + 1] = f[n - q.at + 1]
    BY <1>13
  <2> DEFINE a == n - p.at + 1
             b == n - q.at + 1
  <2>2. a \in 1 .. n /\ b \in 1 .. n
    BY <1>10
  <2>3. ~(a < b) /\ ~(b < a)
    <3>1. f[a] = f[b] /\ f[a] \in Nat
      BY <1>7, <2>1, <2>2
    <3> HIDE DEF a, b
    <3>2. \A i, j \in 1 .. n : i < j => f[i] # f[j]
      <4>1. \A i \in 1 .. n : f[i] \in Nat
        BY <1>7
      <4> QED BY <1>7, <4>1
    <3> QED BY <2>2, <3>1, <3>2
  <2>4. a = b
    <3> HIDE DEF a, b
    <3> QED BY <2>2, <2>3
  <2>5. p.at \in Nat /\ q.at \in Nat /\ n \in Nat
    BY <1>2, <1>10 DEF n
  <2>6. p.at = q.at
    BY <2>4, <2>5
  <2> QED BY <1>10, <2>1, <2>6
<1>15. ASSUME NEW q \in Q, IsSessionable(q) PROVE \E p \in P : h[p] = q
  <2>1. PICK j \in 1 .. Len(t) : q = [at |-> j, row |-> t[j]]
    BY <1>9
  <2>2. t[j] \in SessionRows
    <3>1. t[j].class \in Sessionable
      BY <1>15, <2>1 DEF IsSessionable
    <3> QED BY <1>5, <3>1 DEF SessionRows, Sessionable, SESSION_ROW_CLASSES
  <2>3. PICK i \in 1 .. n : f[i] = j
    BY <1>7, <2>2
  <2> DEFINE k == n - i + 1
             p == [at |-> k, row |-> s[k]]
  <2>4. n \in Nat
    BY <1>2 DEF n
  <2>5. k \in 1 .. n /\ n - k + 1 = i
    BY <2>4
  <2>6. s[k] = t[j]
    <3>1. s[k] = o[n - k + 1]
      BY <1>2, <2>5 DEF n
    <3>2. o[i] = t[f[i]]
      BY <1>7
    <3> QED BY <2>3, <2>5, <3>1, <3>2
  <2>7. p \in P
    BY <1>8, <2>5
  <2>8. h[p] = [at |-> f[n - k + 1], row |-> s[k]]
    BY <2>7 DEF h
  <2> QED BY <2>1, <2>3, <2>5, <2>6, <2>7, <2>8
<1>16. Mirrors(h, P, Q)
  BY <1>12, <1>13, <1>14, <1>15 DEF Mirrors
<1> QED BY <1>2, <1>3, <1>4, <1>16 DEF P, Q, s, o, n

\* What is told of the rows that are pulled is true of the table.
LEMMA PulledTells ==
    ASSUME NEW t \in Seq(Row), \A i, j \in DOMAIN t : i # j => t[i].ts # t[j].ts
    PROVE  LET s == Reverse(Only(t, SessionRows))
               some == AgentSessionsOf(s)
               all == AgentSessionsOf(t)
           IN  /\ \A field \in {"sessions", "deadEnds", "recovered", "abandoned"} :
                    some[field] = all[field]
               /\ Len(t) - (Len(s) - some.unsessionable) = all.unsessionable
               /\ some.escalations <= all.escalations
<1> DEFINE s == Reverse(Only(t, SessionRows))
           P == Requests(s)
           Q == Requests(t)
           C == {r \in P : IsSessionable(r)}
           D == {r \in Q : IsSessionable(r)}
<1>1. /\ Len(s) \in Nat /\ DOMAIN s = 1 .. Len(s)
      /\ \A i \in DOMAIN s : s[i].ts \in Nat
      /\ \E h : Mirrors(h, P, Q)
  BY PulledMirror
<1>2. /\ Len(t) \in Nat /\ DOMAIN t = 1 .. Len(t)
      /\ \A i \in DOMAIN t : t[i].ts \in Nat
  <2>1. Len(t) \in Nat /\ DOMAIN t = 1 .. Len(t) /\ \A i \in 1 .. Len(t) : t[i] \in Row
    BY LenProperties, ElementOfSeq
  <2> QED BY <2>1 DEF Row
<1> HIDE DEF s
<1>3. Listed(P) /\ Listed(Q) /\ Cardinality(P) = Len(s) /\ Cardinality(Q) = Len(t)
  BY <1>1, <1>2, RequestsListed
<1>4. \A q, r \in Q : q.row.ts = r.row.ts => q = r
  BY DEF Requests
<1>5. AgentSessionsOf(s) = ScanCounts(s) /\ AgentSessionsOf(t) = ScanCounts(t)
  BY <1>1, <1>2, ScansCount
<1>6. PICK h : Mirrors(h, P, Q)
  BY <1>1
<1> DEFINE A == {r \in C : r.row.outcome = "dead_end"}
           B == {r \in D : r.row.outcome = "dead_end"}
<1>7. /\ Cardinality(D) = Cardinality(C)
      /\ Cardinality(SessionsAmong(D)) = Cardinality(SessionsAmong(C))
      /\ Cardinality(B) = Cardinality(A)
      /\ Cardinality(SavedAfter(D)) = Cardinality(SavedAfter(C))
      /\ Cardinality(B \ SavedAfter(D)) = Cardinality(A \ SavedAfter(C))
      /\ Cardinality(EscalatedAfter(P)) <= Cardinality(EscalatedAfter(Q))
  <2> HIDE DEF P, Q
  <2> QED BY <1>3, <1>4, <1>6, MirrorCounts
<1>8. ScanCounts(s) =
         [sessions |-> Cardinality(SessionsAmong(C)),
          deadEnds |-> Cardinality(A), recovered |-> Cardinality(SavedAfter(C)),
          abandoned |-> Cardinality(A \ SavedAfter(C)),
          escalations |-> Cardinality(EscalatedAfter(P)),
          unsessionable |-> Cardinality(P \ C)]
  BY DEF ScanCounts
<1>9. ScanCounts(t) =
         [sessions |-> Cardinality(SessionsAmong(D)),
          deadEnds |-> Cardinality(B), recovered |-> Cardinality(SavedAfter(D)),
          abandoned |-> Cardinality(B \ SavedAfter(D)),
          escalations |-> Cardinality(EscalatedAfter(Q)),
          unsessionable |-> Cardinality(Q \ D)]
  BY DEF ScanCounts
<1>10. /\ Cardinality(P \ C) = Len(s) - Cardinality(C)
       /\ Cardinality(Q \ D) = Len(t) - Cardinality(D)
       /\ Cardinality(C) \in Nat
  <2>1. P \cap C = C /\ Q \cap D = D /\ IsFiniteSet(P) /\ IsFiniteSet(Q) /\ C \in SUBSET P
    BY <1>3 DEF Listed
  <2> HIDE DEF P, Q, C, D
  <2>2. /\ Cardinality(P \ C) = Cardinality(P) - Cardinality(P \cap C)
        /\ Cardinality(Q \ D) = Cardinality(Q) - Cardinality(Q \cap D)
    BY <2>1, FS_Difference
  <2>3. IsFiniteSet(C)
    BY <2>1, FS_Subset
  <2> QED BY <1>3, <2>1, <2>2, <2>3, FS_CardinalityType
<1> HIDE DEF P, Q, C, D, A, B
<1>11. Len(t) - (Len(s) - Cardinality(P \ C)) = Cardinality(Q \ D)
  BY <1>1, <1>2, <1>7, <1>10
<1> QED BY <1>5, <1>7, <1>8, <1>9, <1>11 DEF s

(***************************************************************************)
(* AgentTelemetry: the table, the ring and those who read them.            *)
(***************************************************************************)

\* The types of what the readers hold.
SummaryRecord ==
    [phase : {"none", "counted", "read"}, groups : {<<>>} \cup {Groups(t) : t \in Seq(Row)},
     rows : Seq(Row), of : Seq(Row), quiet : BOOLEAN]

DrillRecord ==
    [filter : Filters, offset : Nat, loaded : BOOLEAN, more : BOOLEAN, seen : SUBSET Nat,
     lasting : SUBSET Nat, shifted : BOOLEAN, hurried : BOOLEAN]

\* The rows are numbered as they came.
Numbered(table) == \A i, j \in DOMAIN table : i < j => table[i].id < table[j].id

\* The table has at most as many rows as were stored, numbered in their order.
TableHolds ==
    /\ lastId \in 0 .. MaxCaptures
    /\ kept \in Seq(Row) /\ Numbered(kept)
    /\ \A i \in DOMAIN kept : kept[i].id \in 1 .. lastId
    /\ Len(kept) <= lastId

\* The ring is what is left of the table after some oldest rows.
RingIsRest ==
    /\ ring \in Seq(Row) /\ \E older \in Seq(Row) : kept = older \o ring
    /\ lastId <= RingCap => ring = kept

\* What lasted and stands within the pages shown so far has been seen.
Shown == drill.offset + (IF drill.loaded THEN PageSize ELSE 0)

WalkHolds ==
    /\ drill \in DrillRecord
    /\ drill.seen \subseteq 1 .. lastId
    /\ drill.lasting \subseteq IdsOf(Matching(kept, drill.filter))
    /\ ~drill.shifted /\ ~drill.hurried =>
         drill.lasting \cap IdsOf(Limit(Matching(kept, drill.filter), Shown))
           \subseteq drill.seen
    /\ WalkSeesAll

\* What the summary holds was read when it says.
SummaryHolds ==
    /\ summary \in SummaryRecord
    /\ summary.phase # "none" => summary.groups = Groups(summary.of)
    /\ summary.phase = "counted" /\ summary.quiet => kept = summary.of
    /\ summary.phase = "read" /\ summary.quiet =>
         summary.rows = Limit(Reverse(Only(summary.of, SessionRows)), Cap)

TelemetryInv == TableHolds /\ RingIsRest /\ WalkHolds /\ SummaryHolds

-----------------------------------------------------------------------------
\* The rows of a part of a table, by their places.
LEMMA LimitProperties ==
    ASSUME NEW s \in Seq(Row), NEW n \in Nat
    PROVE  /\ Limit(s, n) \in Seq(Row)
           /\ Len(Limit(s, n)) = IF n < Len(s) THEN n ELSE Len(s)
           /\ \A i \in 1 .. Len(Limit(s, n)) : Limit(s, n)[i] = s[i]
           /\ Len(s) <= n => Limit(s, n) = s
           /\ \A d : d \in IdsOf(Limit(s, n)) <=>
                       \E i \in 1 .. Len(s) : i <= n /\ s[i].id = d
<1> DEFINE m == IF n < Len(s) THEN n ELSE Len(s)
           l == SubSeq(s, 1, m)
<1>1. Len(s) \in Nat /\ DOMAIN s = 1 .. Len(s) /\ \A i \in 1 .. Len(s) : s[i] \in Row
  BY LenProperties, ElementOfSeq
<1>2. /\ m \in Nat /\ m <= Len(s) /\ m <= n
      /\ \A i \in 1 .. m : s[i] \in Row
  BY <1>1
<1>3. /\ l \in Seq(Row) /\ Len(l) = m
      /\ \A i \in 1 .. m : l[i] = s[i]
  <2> HIDE DEF m
  <2>1. 1 \in Int /\ m \in Int
    BY <1>2
  <2>2. /\ SubSeq(s, 1, m) \in Seq(Row)
        /\ Len(SubSeq(s, 1, m)) = IF 1 <= m THEN m - 1 + 1 ELSE 0
        /\ \A i \in 1 .. m - 1 + 1 : SubSeq(s, 1, m)[i] = s[1 + i - 1]
    BY <1>2, <2>1, SubSeqProperties
  <2>3. m - 1 + 1 = m /\ \A i \in 1 .. m : 1 + i - 1 = i
    BY <1>2
  <2> QED BY <1>2, <2>2, <2>3
<1>4. Limit(s, n) = l
  BY DEF Limit
<1>5. DOMAIN l = 1 .. m
  BY <1>3, LenProperties
<1>6. ASSUME Len(s) <= n PROVE l = s
  <2>1. ~(n < Len(s))
    BY <1>1, <1>6
  <2>2. m = Len(s)
    BY <2>1
  <2> HIDE DEF l, m
  <2> QED BY <1>3, <2>2, SeqEqual
<1>7. \A d : d \in IdsOf(l) <=> \E i \in 1 .. Len(s) : i <= n /\ s[i].id = d
  <2>1. \A i : i \in 1 .. m <=> i \in 1 .. Len(s) /\ i <= n
    BY <1>1
  <2> HIDE DEF l, m
  <2> QED BY <1>3, <1>5, <2>1 DEF IdsOf
<1> HIDE DEF l
<1> QED BY <1>3, <1>4, <1>6, <1>7

\* And the rows past some.
LEMMA OffsetProperties ==
    ASSUME NEW s \in Seq(Row), NEW n \in Nat
    PROVE  /\ Offset(s, n) \in Seq(Row)
           /\ Len(Offset(s, n)) = IF n < Len(s) THEN Len(s) - n ELSE 0
           /\ \A i \in 1 .. Len(Offset(s, n)) : Offset(s, n)[i] = s[n + i]
<1>1. Len(s) \in Nat /\ \A i \in 1 .. Len(s) : s[i] \in Row
  BY LenProperties, ElementOfSeq
<1>2. /\ n + 1 \in Int /\ Len(s) \in Int
      /\ \A i \in n + 1 .. Len(s) : s[i] \in Row
  BY <1>1
<1>3. /\ SubSeq(s, n + 1, Len(s)) \in Seq(Row)
      /\ Len(SubSeq(s, n + 1, Len(s))) = IF n + 1 <= Len(s) THEN Len(s) - (n + 1) + 1 ELSE 0
      /\ \A i \in 1 .. Len(s) - (n + 1) + 1 : SubSeq(s, n + 1, Len(s))[i] = s[(n + 1) + i - 1]
  BY <1>2, SubSeqProperties
<1>4. Offset(s, n) = SubSeq(s, n + 1, Len(s))
  BY DEF Offset
<1>5. /\ (n + 1 <= Len(s)) <=> n < Len(s)
      /\ Len(s) - (n + 1) + 1 = Len(s) - n
      /\ \A i \in 1 .. Len(s) - n : (n + 1) + i - 1 = n + i
      /\ ~(n < Len(s)) => 1 .. 0 = {}
  BY <1>1
<1> HIDE DEF Offset
<1> QED BY <1>3, <1>4, <1>5

\* The ids of a list by their places.
LEMMA IdsByPlace ==
    ASSUME NEW s \in Seq(Row)
    PROVE  \A d : d \in IdsOf(s) <=> \E i \in 1 .. Len(s) : s[i].id = d
<1>1. DOMAIN s = 1 .. Len(s)
  BY LenProperties
<1> QED BY <1>1 DEF IdsOf

\* What matches is in descending order.
LEMMA MatchingDescends ==
    ASSUME NEW table \in Seq(Row), Numbered(table), NEW filter
    PROVE  /\ Matching(table, filter) \in Seq(Row)
           /\ Len(Matching(table, filter)) <= Len(table)
           /\ \A i, j \in 1 .. Len(Matching(table, filter)) :
                i < j => Matching(table, filter)[j].id < Matching(table, filter)[i].id
           /\ IdsOf(Matching(table, filter)) \subseteq IdsOf(table)
<1> DEFINE S == {r \in Row : filter \in {Everything, r.class}}
           o == Only(table, S)
           m == Matching(table, filter)
           n == Len(o)
<1>1. o \in Seq(Row) /\ n \in Nat
  <2>1. o \in Seq(Row)
    BY OnlyType
  <2> QED BY <2>1, LenProperties
<1>2. m = Reverse(o)
  BY DEF Matching
<1>3. m \in Seq(Row) /\ Len(m) = n /\ \A i \in 1 .. n : m[i] = o[n - i + 1]
  <2> HIDE DEF m, o
  <2> QED BY <1>1, <1>2, ReverseProperties DEF n
<1>4. PICK f : Places(f, table, S)
  BY OnlyPlaces
<1>5. /\ f \in [1 .. n -> 1 .. Len(table)]
      /\ \A i, j \in 1 .. n : i < j => f[i] < f[j]
      /\ \A i \in 1 .. n : o[i] = table[f[i]]
  BY <1>4 DEF Places
<1>6. Len(table) \in Nat /\ DOMAIN table = 1 .. Len(table)
  BY LenProperties
<1> HIDE DEF o, m, S
<1>7. \A i, j \in 1 .. n : i < j => o[i].id < o[j].id
  <2> SUFFICES ASSUME NEW i \in 1 .. n, NEW j \in 1 .. n, i < j PROVE o[i].id < o[j].id
    OBVIOUS
  <2>1. f[i] \in DOMAIN table /\ f[j] \in DOMAIN table /\ f[i] < f[j]
    BY <1>5, <1>6
  <2>2. table[f[i]].id < table[f[j]].id
    BY <2>1 DEF Numbered
  <2> QED BY <1>5, <2>2
<1>8. \A i, j \in 1 .. n : i < j => m[j].id < m[i].id
  <2> SUFFICES ASSUME NEW i \in 1 .. n, NEW j \in 1 .. n, i < j PROVE m[j].id < m[i].id
    OBVIOUS
  <2> HIDE DEF n
  <2>1. n - j + 1 \in 1 .. n /\ n - i + 1 \in 1 .. n /\ n - j + 1 < n - i + 1
    BY <1>1
  <2>2. o[n - j + 1].id < o[n - i + 1].id
    BY <1>7, <2>1
  <2> QED BY <1>3, <2>2
<1>9. IdsOf(m) \subseteq IdsOf(table)
  <2> SUFFICES ASSUME NEW d \in IdsOf(m) PROVE d \in IdsOf(table)
    OBVIOUS
  <2>1. PICK i \in 1 .. n : m[i].id = d
    BY <1>3, IdsByPlace
  <2>2. n - i + 1 \in 1 .. n
    BY <1>1
  <2>3. m[i] = table[f[n - i + 1]] /\ f[n - i + 1] \in 1 .. Len(table)
    BY <1>3, <1>5, <2>2
  <2> QED BY <2>1, <2>3, IdsByPlace
<1>10. n <= Len(table)
  <2>1. f \in Injection(1 .. n, 1 .. Len(table))
    <3>1. \A i \in 1 .. n : f[i] \in Nat
      BY <1>5
    <3>2. \A i, j \in 1 .. n : f[i] = f[j] => ~(i < j) /\ ~(j < i)
      <4>1. \A i, j \in 1 .. n : i < j => f[i] # f[j]
        BY <1>5, <3>1
      <4> QED BY <4>1
    <3>3. \A i, j \in 1 .. n : f[i] = f[j] => i = j
      BY <1>1, <3>2
    <3> QED BY <1>5, <3>3 DEF Injection, IsInjective
  <2>2. IsFiniteSet(1 .. n) /\ Cardinality(1 .. n) = n
    <3> HIDE DEF n
    <3>1. n \in Nat /\ n \in Int /\ 1 \in Int
      BY <1>1
    <3>2. IsFiniteSet(1 .. n) /\ Cardinality(1 .. n) = IF 1 > n THEN 0 ELSE n - 1 + 1
      BY <3>1, FS_Interval
    <3> QED BY <3>1, <3>2
  <2>3. IsFiniteSet(1 .. Len(table)) /\ Cardinality(1 .. Len(table)) = Len(table)
    <3>1. PICK l \in Nat : l = Len(table)
      BY <1>6
    <3>2. l \in Int /\ 1 \in Int
      BY <3>1
    <3>3. IsFiniteSet(1 .. l) /\ Cardinality(1 .. l) = IF 1 > l THEN 0 ELSE l - 1 + 1
      BY <3>2, FS_Interval, Zenon
    <3>4. IsFiniteSet(1 .. l) /\ Cardinality(1 .. l) = l
      BY <3>3
    <3> QED BY <3>1, <3>4
  <2>4. Cardinality(1 .. n) <= Cardinality(1 .. Len(table))
    BY <2>1, <2>3, FS_Injection
  <2> QED BY <2>2, <2>3, <2>4
<1> QED BY <1>3, <1>8, <1>9, <1>10 DEF m

\* If none of the first rows has left, no other one has come among them that
\* was there before.
LEMMA FirstStay ==
    ASSUME NEW M \in Seq(Row), NEW N \in Seq(Row),
           \A i, j \in 1 .. Len(M) : i < j => M[j].id < M[i].id,
           \A i, j \in 1 .. Len(N) : i < j => N[j].id < N[i].id,
           NEW n \in Nat, IdsOf(Limit(M, n)) \subseteq IdsOf(N),
           NEW d, d \in IdsOf(M), d \in IdsOf(Limit(N, n))
    PROVE  d \in IdsOf(Limit(M, n))
<1>1. Len(M) \in Nat /\ Len(N) \in Nat
  BY LenProperties
<1>2. /\ \A i \in 1 .. Len(M) : M[i].id \in Nat
      /\ \A i \in 1 .. Len(N) : N[i].id \in Nat
  <2>1. /\ \A i \in 1 .. Len(M) : M[i] \in Row
        /\ \A i \in 1 .. Len(N) : N[i] \in Row
    BY ElementOfSeq
  <2> QED BY <2>1 DEF Row
<1>3. PICK p \in 1 .. Len(N) : p <= n /\ N[p].id = d
  BY LimitProperties
<1>4. PICK q \in 1 .. Len(M) : M[q].id = d
  BY IdsByPlace
<1>5. SUFFICES ASSUME ~(q <= n) PROVE FALSE
  BY <1>4, LimitProperties
<1>6. n < Len(M) /\ n < q
  BY <1>1, <1>5
<1>7. \A k \in 1 .. n : \E x \in 1 .. Len(N) : N[x].id = M[k].id
  <2> TAKE k \in 1 .. n
  <2>1. k \in 1 .. Len(M) /\ k <= n
    BY <1>1, <1>6
  <2>2. M[k].id \in IdsOf(Limit(M, n))
    BY <2>1, LimitProperties
  <2> QED BY <2>2, IdsByPlace
<1> DEFINE S == {k \in Nat : k \in 1 .. n =>
                   \A x \in 1 .. Len(N) : N[x].id = M[k].id => k <= x}
<1>8. 0 \in S
  OBVIOUS
<1>9. ASSUME NEW k \in S PROVE k + 1 \in S
  <2>1. k \in Nat
    BY <1>9
  <2> SUFFICES ASSUME k + 1 \in 1 .. n, NEW x \in 1 .. Len(N), N[x].id = M[k + 1].id
               PROVE  k + 1 <= x
    BY <2>1
  <2>2. CASE k = 0
    BY <1>1, <2>2
  <2>3. CASE k # 0
    <3>1. k \in 1 .. n /\ k \in 1 .. Len(M) /\ k + 1 \in 1 .. Len(M) /\ k < k + 1
      BY <1>1, <1>6, <2>1, <2>3
    <3>2. PICK y \in 1 .. Len(N) : N[y].id = M[k].id
      BY <1>7, <3>1
    <3>3. k <= y
      BY <1>9, <3>1, <3>2
    <3>4. M[k + 1].id < M[k].id
      BY <3>1
    <3>5. N[x].id < N[y].id
      BY <3>2, <3>4
    <3>6. N[x].id \in Nat /\ N[y].id \in Nat /\ (x < y => N[y].id < N[x].id)
      BY <1>2, <3>2
    <3>7. ~(x < y)
      BY <3>5, <3>6
    <3>8. x # y
      BY <3>5, <3>6
    <3> QED BY <2>1, <3>3, <3>7, <3>8
  <2> QED BY <2>2, <2>3
<1>10. \A k \in Nat : k \in S
  <2> HIDE DEF S
  <2>1. S \in SUBSET Nat
    BY DEF S
  <2> QED BY <1>8, <1>9, <2>1, Inductive
<1>11. CASE n = 0
  BY <1>1, <1>3, <1>11
<1>12. CASE n # 0
  <2>1. n \in 1 .. n /\ n \in 1 .. Len(M)
    BY <1>1, <1>6, <1>12
  <2>2. PICK y \in 1 .. Len(N) : N[y].id = M[n].id
    BY <1>7, <2>1
  <2>3. n <= y
    BY <1>10, <2>1, <2>2
  <2>4. M[q].id < M[n].id
    BY <1>6, <2>1
  <2>5. N[p].id < N[y].id
    BY <1>3, <1>4, <2>2, <2>4
  <2>6. ~(p < y) /\ p # y
    BY <1>2, <2>5
  <2> QED BY <1>1, <1>3, <2>3, <2>6
<1> QED BY <1>11, <1>12

-----------------------------------------------------------------------------
\* What a change of the table means to those who read it.
LEMMA ReadersKeep ==
    ASSUME TelemetryInv, TableHolds', Readers(kept'), lastId <= lastId'
    PROVE  WalkHolds' /\ SummaryHolds'
<1> DEFINE F == drill.filter
           M == Matching(kept, F)
           N == Matching(kept', F)
           n == drill.offset + PageSize
<1>1. /\ drill \in DrillRecord /\ summary \in SummaryRecord /\ PageSize \in Nat
      /\ kept \in Seq(Row) /\ Numbered(kept)
  BY TelemetryAssumption DEF TelemetryInv, WalkHolds, SummaryHolds, TableHolds
<1>2. kept' \in Seq(Row) /\ Numbered(kept')
  BY DEF TableHolds, Numbered
<1>3. drill' = [drill EXCEPT
        !.lasting = @ \cap IdsOf(N),
        !.shifted = @ \/ ~(IdsOf(Limit(M, n)) \subseteq IdsOf(N))]
  BY DEF Readers
<1>4. summary' = [summary EXCEPT !.quiet = @ /\ summary.phase # "counted"]
  BY DEF Readers
<1> HIDE DEF F, M, N, n
<1>5. /\ drill'.filter = drill.filter /\ drill'.offset = drill.offset
      /\ drill'.loaded = drill.loaded /\ drill'.more = drill.more
      /\ drill'.seen = drill.seen /\ drill'.hurried = drill.hurried
      /\ drill'.lasting = drill.lasting \cap IdsOf(N)
      /\ drill'.shifted = (drill.shifted \/ ~(IdsOf(Limit(M, n)) \subseteq IdsOf(N)))
  BY <1>1, <1>3 DEF DrillRecord
<1>6. drill' \in DrillRecord
  BY <1>1, <1>3 DEF DrillRecord
<1>7. drill'.seen \subseteq 1 .. lastId'
  <2>1. drill.seen \subseteq 1 .. lastId /\ lastId \in Nat /\ lastId' \in Nat
    BY DEF TelemetryInv, WalkHolds, TableHolds
  <2> QED BY <1>5, <2>1
<1>8. /\ M \in Seq(Row)
      /\ \A i, j \in 1 .. Len(M) : i < j => M[j].id < M[i].id
  BY <1>1, MatchingDescends DEF M
<1>9. /\ N \in Seq(Row)
      /\ \A i, j \in 1 .. Len(N) : i < j => N[j].id < N[i].id
  BY <1>2, MatchingDescends DEF N
<1>10. Matching(kept, drill.filter)' = N
  BY <1>5 DEF N, F, Matching, Everything
<1>11. drill'.lasting \subseteq IdsOf(N)
  BY <1>5
<1>12. Shown' = Shown /\ Shown \in Nat /\ Shown <= n
  BY <1>1, <1>5 DEF Shown, DrillRecord, n
<1>13. ASSUME ~drill'.shifted, ~drill'.hurried,
              NEW d \in drill'.lasting, d \in IdsOf(Limit(N, Shown))
       PROVE  d \in drill.seen
  <2>1. ~drill.shifted /\ ~drill.hurried /\ IdsOf(Limit(M, n)) \subseteq IdsOf(N)
    BY <1>5, <1>13
  <2>2. d \in drill.lasting /\ d \in IdsOf(M)
    BY <1>5, <1>13 DEF TelemetryInv, WalkHolds, M, F
  <2>3. IdsOf(Limit(M, Shown)) \subseteq IdsOf(N)
    <3>1. IdsOf(Limit(M, Shown)) \subseteq IdsOf(Limit(M, n))
      <4>1. n \in Nat
        BY <1>1 DEF n, DrillRecord
      <4>2. \A i \in 1 .. Len(M) : i <= Shown => i <= n
        <5>1. Len(M) \in Nat
          BY <1>8, LenProperties
        <5> QED BY <1>12, <4>1, <5>1
      <4> QED BY <1>8, <1>12, <4>1, <4>2, LimitProperties
    <3> QED BY <2>1, <3>1
  <2>4. d \in IdsOf(Limit(M, Shown))
    BY <1>8, <1>9, <1>12, <1>13, <2>2, <2>3, FirstStay
  <2> QED BY <2>1, <2>2, <2>4 DEF TelemetryInv, WalkHolds, M, F
<1>14. WalkSeesAll'
  <2>1. WalkSeesAll
    BY DEF TelemetryInv, WalkHolds
  <2> QED BY <1>5, <2>1 DEF WalkSeesAll
<1>15. WalkHolds'
  <2>1. (Limit(Matching(kept, drill.filter), Shown))' = Limit(N, Shown)
    BY <1>10, <1>12 DEF Limit
  <2>2. (IdsOf(Matching(kept, drill.filter)))' = IdsOf(N)
    BY <1>10 DEF IdsOf
  <2>3. (IdsOf(Limit(Matching(kept, drill.filter), Shown)))' = IdsOf(Limit(N, Shown))
    BY <2>1 DEF IdsOf
  <2>4. ~drill'.shifted /\ ~drill'.hurried =>
          drill'.lasting \cap IdsOf(Limit(N, Shown)) \subseteq drill'.seen
    BY <1>5, <1>13
  <2> QED BY <1>6, <1>7, <1>11, <1>14, <2>2, <2>3, <2>4 DEF WalkHolds
<1>16. SummaryHolds'
  <2>1. /\ summary'.phase = summary.phase /\ summary'.groups = summary.groups
        /\ summary'.rows = summary.rows /\ summary'.of = summary.of
        /\ summary'.quiet = (summary.quiet /\ summary.phase # "counted")
    BY <1>1, <1>4 DEF SummaryRecord
  <2>2. summary' \in SummaryRecord
    BY <1>1, <1>4 DEF SummaryRecord
  <2>3. /\ summary.phase # "none" => summary.groups = Groups(summary.of)
        /\ summary.phase = "read" /\ summary.quiet =>
             summary.rows = Limit(Reverse(Only(summary.of, SessionRows)), Cap)
    BY DEF TelemetryInv, SummaryHolds
  <2>4. summary'.phase # "none" => summary'.groups = Groups(summary'.of)
    BY <2>1, <2>3
  <2>5. ~(summary'.phase = "counted" /\ summary'.quiet)
    BY <1>1, <2>1 DEF SummaryRecord
  <2>6. summary'.phase = "read" /\ summary'.quiet =>
          summary'.rows = Limit(Reverse(Only(summary'.of, SessionRows)), Cap)
    BY <2>1, <2>3
  <2>7. /\ Groups(summary.of)' = Groups(summary'.of)
        /\ Limit(Reverse(Only(summary.of, SessionRows)), Cap)' =
             Limit(Reverse(Only(summary'.of, SessionRows)), Cap)
    BY DEF Groups, Limit, SessionRows, GroupKey
  <2> QED BY <2>2, <2>4, <2>5, <2>6, <2>7 DEF SummaryHolds
<1> QED BY <1>15, <1>16

\* A row under a new label, if it is the one that was meant.
Relabelled(r, id, class) == IF r.id = id THEN [r EXCEPT !.class = class] ELSE r

\* It reaches each row that has the id, in its place.
LEMMA LabelledProperties ==
    ASSUME NEW s \in Seq(Row), NEW id, NEW class \in Classes
    PROVE  /\ Labelled(s, id, class) \in Seq(Row)
           /\ Len(Labelled(s, id, class)) = Len(s)
           /\ \A i \in 1 .. Len(s) :
                Labelled(s, id, class)[i] = Relabelled(s[i], id, class)
           /\ \A i \in 1 .. Len(s) : Labelled(s, id, class)[i].id = s[i].id
<1> DEFINE l == [i \in 1 .. Len(s) |-> Relabelled(s[i], id, class)]
<1>1. Len(s) \in Nat /\ DOMAIN s = 1 .. Len(s) /\ \A i \in 1 .. Len(s) : s[i] \in Row
  BY LenProperties, ElementOfSeq
<1>2. Labelled(s, id, class) = l
  BY <1>1 DEF Labelled, Relabelled
<1>3. \A i \in 1 .. Len(s) :
        Relabelled(s[i], id, class) \in Row /\ Relabelled(s[i], id, class).id = s[i].id
  BY <1>1 DEF Row, Relabelled
<1>4. l \in [1 .. Len(s) -> Row] /\ \A i \in 1 .. Len(s) : l[i] = Relabelled(s[i], id, class)
  BY <1>3
<1> HIDE DEF l
<1>5. l \in Seq(Row)
  BY <1>1, <1>4, SeqDef
<1>6. Len(l) = Len(s)
  BY <1>1, <1>4, <1>5, LenProperties
<1>7. \A i \in 1 .. Len(s) : l[i].id = s[i].id
  BY <1>3, <1>4
<1> QED BY <1>2, <1>4, <1>5, <1>6, <1>7

\* A label reaches every part of a table.
LEMMA LabelledConcat ==
    ASSUME NEW s \in Seq(Row), NEW t \in Seq(Row), NEW id, NEW class \in Classes
    PROVE  Labelled(s \o t, id, class) = Labelled(s, id, class) \o Labelled(t, id, class)
<1>1. PICK u \in Seq(Row) : u = s \o t
  BY ConcatProperties
<1>2. /\ Len(s) \in Nat /\ Len(t) \in Nat /\ Len(u) = Len(s) + Len(t)
      /\ \A i \in 1 .. Len(s) + Len(t) : u[i] = IF i <= Len(s) THEN s[i] ELSE t[i - Len(s)]
  BY <1>1, ConcatProperties, LenProperties
<1>3. PICK a \in Seq(Row) : /\ a = Labelled(s, id, class) /\ Len(a) = Len(s)
                            /\ \A i \in 1 .. Len(s) : a[i] = Relabelled(s[i], id, class)
  BY LabelledProperties
<1>4. PICK b \in Seq(Row) : /\ b = Labelled(t, id, class) /\ Len(b) = Len(t)
                            /\ \A i \in 1 .. Len(t) : b[i] = Relabelled(t[i], id, class)
  BY LabelledProperties
<1>5. PICK c \in Seq(Row) : /\ c = Labelled(u, id, class) /\ Len(c) = Len(u)
                            /\ \A i \in 1 .. Len(u) : c[i] = Relabelled(u[i], id, class)
  BY LabelledProperties
<1>6. /\ a \o b \in Seq(Row) /\ Len(a \o b) = Len(s) + Len(t)
      /\ \A i \in 1 .. Len(s) + Len(t) : (a \o b)[i] =
           IF i <= Len(s) THEN a[i] ELSE b[i - Len(s)]
  <2>1. /\ a \o b \in Seq(Row) /\ Len(a \o b) = Len(a) + Len(b)
        /\ \A i \in 1 .. Len(a) + Len(b) : (a \o b)[i] =
             IF i <= Len(a) THEN a[i] ELSE b[i - Len(a)]
    BY ConcatProperties
  <2>2. Len(a) = Len(s) /\ Len(b) = Len(t)
    BY <1>3, <1>4
  <2> QED BY <2>1, <2>2
<1>7. \A i \in 1 .. Len(u) : c[i] = (a \o b)[i]
  <2> TAKE i \in 1 .. Len(u)
  <2>1. CASE i <= Len(s)
    <3>1. i \in 1 .. Len(s) /\ i \in 1 .. Len(s) + Len(t)
      BY <1>2, <2>1
    <3> QED BY <1>2, <1>3, <1>5, <1>6, <2>1, <3>1
  <2>2. CASE ~(i <= Len(s))
    <3>1. i - Len(s) \in 1 .. Len(t) /\ i \in 1 .. Len(s) + Len(t)
      BY <1>2, <2>2
    <3> QED BY <1>2, <1>4, <1>5, <1>6, <2>2, <3>1
  <2> QED BY <2>1, <2>2
<1>8. c = a \o b
  BY <1>2, <1>5, <1>6, <1>7, SeqEqual
<1> QED BY <1>1, <1>3, <1>4, <1>5, <1>8

\* What is selected is numbered as it was.
LEMMA OnlyNumbered ==
    ASSUME NEW s \in Seq(Row), Numbered(s), NEW S
    PROVE  /\ Only(s, S) \in Seq(Row) /\ Numbered(Only(s, S)) /\ Len(Only(s, S)) <= Len(s)
           /\ \A i \in DOMAIN Only(s, S) : \E j \in DOMAIN s : Only(s, S)[i] = s[j]
<1> DEFINE o == Only(s, S)
<1>1. o \in Seq(Row)
  BY OnlyType
<1>2. /\ Len(o) \in Nat /\ DOMAIN o = 1 .. Len(o)
      /\ Len(s) \in Nat /\ DOMAIN s = 1 .. Len(s)
  BY <1>1, LenProperties
<1>3. PICK f : Places(f, s, S)
  BY OnlyPlaces
<1>4. /\ f \in [1 .. Len(o) -> 1 .. Len(s)]
      /\ \A i, j \in 1 .. Len(o) : i < j => f[i] < f[j]
      /\ \A i \in 1 .. Len(o) : o[i] = s[f[i]]
  BY <1>3 DEF Places
<1> HIDE DEF o
<1>5. Numbered(o)
  <2> SUFFICES ASSUME NEW i \in 1 .. Len(o), NEW j \in 1 .. Len(o), i < j
               PROVE  o[i].id < o[j].id
    BY <1>2 DEF Numbered
  <2>1. f[i] \in DOMAIN s /\ f[j] \in DOMAIN s /\ f[i] < f[j]
    BY <1>2, <1>4
  <2>2. s[f[i]].id < s[f[j]].id
    BY <2>1 DEF Numbered
  <2> QED BY <1>4, <2>2
<1>6. Len(o) <= Len(s)
  <2> DEFINE T == {k \in Nat : k \in 1 .. Len(o) => k <= f[k]}
  <2>1. 0 \in T
    OBVIOUS
  <2>2. ASSUME NEW k \in T PROVE k + 1 \in T
    <3> SUFFICES ASSUME k + 1 \in 1 .. Len(o) PROVE k + 1 <= f[k + 1]
      BY <2>2
    <3>1. k \in Nat /\ f[k + 1] \in 1 .. Len(s)
      BY <1>4, <2>2
    <3>2. CASE k = 0
      BY <1>2, <3>1, <3>2
    <3>3. CASE k # 0
      <4>1. k \in 1 .. Len(o) /\ k < k + 1
        BY <1>2, <3>1, <3>3
      <4>2. k <= f[k] /\ f[k] < f[k + 1] /\ f[k] \in 1 .. Len(s)
        BY <1>4, <2>2, <4>1
      <4> QED BY <1>2, <3>1, <4>2
    <3> QED BY <3>2, <3>3
  <2>3. \A k \in Nat : k \in T
    <3> HIDE DEF T
    <3>1. T \in SUBSET Nat
      BY DEF T
    <3> QED BY <2>1, <2>2, <3>1, Inductive
  <2>4. CASE Len(o) = 0
    BY <1>2, <2>4
  <2>5. CASE Len(o) # 0
    <3>1. Len(o) \in 1 .. Len(o)
      BY <1>2, <2>5
    <3>2. Len(o) <= f[Len(o)] /\ f[Len(o)] \in 1 .. Len(s)
      BY <1>2, <1>4, <2>3, <3>1
    <3> QED BY <1>2, <3>2
  <2> QED BY <2>4, <2>5
<1>7. \A i \in DOMAIN o : \E j \in DOMAIN s : o[i] = s[j]
  BY <1>2, <1>4
<1> QED BY <1>1, <1>5, <1>6, <1>7 DEF o

\* Pushed onto what is left of a table, a row is what is left of the table with
\* the row: the whole of it while there is room.
LEMMA PushKeepsRest ==
    ASSUME NEW older \in Seq(Row), NEW r \in Seq(Row), NEW row \in Row
    PROVE  /\ Push(r, row) \in Seq(Row)
           /\ \E old \in Seq(Row) : Append(older \o r, row) = old \o Push(r, row)
<1>1. /\ Len(r) \in Nat /\ <<row>> \in Seq(Row)
      /\ older \o r \in Seq(Row) /\ Append(r, row) = r \o <<row>>
      /\ Append(older \o r, row) = (older \o r) \o <<row>>
  BY LenProperties, ConcatProperties, AppendIsConcat
<1>2. CASE Len(r) < RingCap
  <2>1. Push(r, row) = Append(r, row) /\ Append(r, row) \in Seq(Row)
    BY <1>2, AppendProperties DEF Push
  <2>2. (older \o r) \o <<row>> = older \o (r \o <<row>>)
    BY <1>1, ConcatAssociative
  <2> QED BY <1>1, <2>1, <2>2
<1>3. CASE ~(Len(r) < RingCap)
  <2>1. Len(r) > 0 /\ 1 \in 1 .. Len(r) /\ Len(r) \in 1 .. Len(r)
    BY <1>1, <1>3, TelemetryAssumption
  <2>2. r # <<>>
    BY <2>1
  <2>3. Tail(r) \in Seq(Row) /\ r[1] \in Row /\ <<r[1]>> \in Seq(Row)
    BY <2>1, <2>2, HeadTailProperties, ElementOfSeq
  <2>4. r = <<r[1]>> \o Tail(r)
    <3>1. SubSeq(r, 1, Len(r)) = <<r[1]>> \o SubSeq(r, 1 + 1, Len(r))
      BY <2>1, SubSeqRecursiveFirst
    <3>2. SubSeq(r, 1, Len(r)) = r
      BY SubSeqFull
    <3>3. Tail(r) = SubSeq(r, 2, Len(r))
      BY <2>2, TailIsSubSeq
    <3>4. 1 + 1 = 2
      OBVIOUS
    <3> QED BY <3>1, <3>2, <3>3, <3>4
  <2>5. PICK old \in Seq(Row) : old = older \o <<r[1]>>
    BY <2>3, ConcatProperties
  <2>6. older \o r = old \o Tail(r)
    BY <2>3, <2>4, <2>5, ConcatAssociative
  <2>7. (old \o Tail(r)) \o <<row>> = old \o (Tail(r) \o <<row>>)
    <3>1. PICK rest \in Seq(Row), last \in Seq(Row) : rest = Tail(r) /\ last = <<row>>
      BY <1>1, <2>3
    <3>2. (old \o rest) \o last = old \o (rest \o last)
      BY ConcatAssociative, SMTT(30)
    <3> QED BY <3>1, <3>2
  <2>8. Push(r, row) = Append(Tail(r), row) /\ Append(Tail(r), row) = Tail(r) \o <<row>>
        /\ Append(Tail(r), row) \in Seq(Row)
    BY <1>3, <2>3, AppendProperties, AppendIsConcat DEF Push
  <2> QED BY <1>1, <2>6, <2>7, <2>8
<1> QED BY <1>2, <1>3

\* Storing a row (recordAgentRequests).
LEMMA StepRecord ==
    ASSUME TelemetryInv, RecordRequest
    PROVE  TelemetryInv'
<1>1. /\ lastId < MaxCaptures /\ lastId' = lastId + 1 /\ lastId \in 0 .. MaxCaptures
      /\ MaxCaptures \in Nat /\ Readers(kept')
  BY TelemetryAssumption DEF RecordRequest, TelemetryInv, TableHolds
<1>2. PICK r \in Captures : /\ kept' = Append(kept, [r EXCEPT !.id = lastId'])
                           /\ ring' = Push(ring, [r EXCEPT !.id = lastId'])
  BY DEF RecordRequest
<1>3. PICK row \in Row : row.id = lastId' /\ row = [r EXCEPT !.id = lastId']
  <2>1. r \in Row /\ lastId' \in Nat
    BY <1>1, TelemetryAssumption
  <2>2. [r EXCEPT !.id = lastId'] \in Row /\ [r EXCEPT !.id = lastId'].id = lastId'
    BY <2>1 DEF Row
  <2> QED BY <2>2
<1>4. kept' = Append(kept, row) /\ ring' = Push(ring, row)
  BY <1>2, <1>3
<1>5. /\ kept \in Seq(Row) /\ Numbered(kept) /\ Len(kept) <= lastId
      /\ \A i \in DOMAIN kept : kept[i].id \in 1 .. lastId
      /\ ring \in Seq(Row) /\ (lastId <= RingCap => ring = kept)
  BY DEF TelemetryInv, TableHolds, RingIsRest
<1>6. Len(kept) \in Nat /\ DOMAIN kept = 1 .. Len(kept)
  BY <1>5, LenProperties
<1>7. /\ kept' \in Seq(Row) /\ Len(kept') = Len(kept) + 1
      /\ \A i \in 1 .. Len(kept) : kept'[i] = kept[i]
      /\ kept'[Len(kept) + 1] = row
  BY <1>4, <1>5, AppendProperties
<1>8. DOMAIN kept' = 1 .. Len(kept) + 1
  BY <1>7, LenProperties
<1>9. \A i \in 1 .. Len(kept) + 1 : i \in 1 .. Len(kept) \/ i = Len(kept) + 1
  BY <1>6
<1>10. TableHolds'
  <2>1. \A i \in 1 .. Len(kept) + 1 : kept'[i].id \in 1 .. lastId'
    <3> TAKE i \in 1 .. Len(kept) + 1
    <3>1. CASE i \in 1 .. Len(kept)
      <4>1. kept'[i].id \in 1 .. lastId
        BY <1>5, <1>6, <1>7, <3>1
      <4> QED BY <1>1, <4>1
    <3>2. CASE i = Len(kept) + 1
      <4>1. kept'[i] = row
        BY <1>7, <3>2
      <4>2. kept'[i].id = lastId'
        BY <1>3, <4>1
      <4> QED BY <1>1, <4>2
    <3> QED BY <1>9, <3>1, <3>2
  <2>2. \A i, j \in 1 .. Len(kept) + 1 : i < j => kept'[i].id < kept'[j].id
    <3> SUFFICES ASSUME NEW i \in 1 .. Len(kept) + 1, NEW j \in 1 .. Len(kept) + 1, i < j
                 PROVE  kept'[i].id < kept'[j].id
      OBVIOUS
    <3>1. i \in 1 .. Len(kept)
      BY <1>6
    <3>2. kept'[i].id \in 1 .. lastId /\ kept'[i] = kept[i]
      BY <1>5, <1>6, <1>7, <3>1
    <3>3. CASE j \in 1 .. Len(kept)
      <4>1. kept[i].id < kept[j].id
        BY <1>5, <1>6, <3>1, <3>3 DEF Numbered
      <4> QED BY <1>7, <3>2, <3>3, <4>1
    <3>4. CASE j = Len(kept) + 1
      <4>1. kept'[j] = row
        BY <1>7, <3>4
      <4>2. kept'[j].id = lastId'
        BY <1>3, <4>1
      <4> QED BY <1>1, <3>2, <4>2
    <3> QED BY <1>9, <3>3, <3>4
  <2>3. lastId' \in 0 .. MaxCaptures /\ Len(kept') <= lastId'
    BY <1>1, <1>5, <1>6, <1>7
  <2>4. Numbered(kept')
    BY <1>8, <2>2 DEF Numbered
  <2> QED BY <1>7, <1>8, <2>1, <2>3, <2>4 DEF TableHolds, Numbered
<1>11. RingIsRest'
  <2>1. PICK older \in Seq(Row) : kept = older \o ring
    BY DEF TelemetryInv, RingIsRest
  <2>2. ring' \in Seq(Row) /\ \E old \in Seq(Row) : kept' = old \o ring'
    BY <1>4, <1>5, <2>1, PushKeepsRest
  <2>3. ASSUME lastId' <= RingCap PROVE ring' = kept'
    <3>1. RingCap \in Nat /\ lastId <= RingCap /\ Len(kept) < RingCap
      BY <1>1, <1>5, <1>6, <2>3, TelemetryAssumption
    <3>2. ring = kept
      BY <1>5, <3>1
    <3> QED BY <1>4, <3>1, <3>2 DEF Push
  <2> QED BY <2>2, <2>3 DEF RingIsRest
<1>12. WalkHolds' /\ SummaryHolds'
  <2>1. lastId <= lastId'
    BY <1>1
  <2> QED BY <1>1, <1>10, <2>1, ReadersKeep
<1> QED BY <1>10, <1>11, <1>12 DEF TelemetryInv

\* Labelling a row anew (updateAgentClassifications).
LEMMA StepUpdate ==
    ASSUME TelemetryInv, UpdateClassification
    PROVE  TelemetryInv'
<1>1. PICK id \in IdsOf(kept), class \in Labels :
        kept' = Labelled(kept, id, class) /\ ring' = Labelled(ring, id, class)
  BY DEF UpdateClassification
<1>2. class \in Classes /\ lastId' = lastId /\ Readers(kept')
  BY TelemetryAssumption DEF UpdateClassification
<1>3. /\ kept \in Seq(Row) /\ Numbered(kept) /\ Len(kept) <= lastId
      /\ \A i \in DOMAIN kept : kept[i].id \in 1 .. lastId
      /\ ring \in Seq(Row) /\ (lastId <= RingCap => ring = kept)
      /\ lastId \in 0 .. MaxCaptures
  BY DEF TelemetryInv, TableHolds, RingIsRest
<1>4. /\ kept' \in Seq(Row) /\ Len(kept') = Len(kept)
      /\ \A i \in 1 .. Len(kept) : kept'[i].id = kept[i].id
  BY <1>1, <1>2, <1>3, LabelledProperties
<1>5. DOMAIN kept = 1 .. Len(kept) /\ DOMAIN kept' = 1 .. Len(kept)
  BY <1>3, <1>4, LenProperties
<1>6. TableHolds'
  <2>1. Numbered(kept')
    BY <1>3, <1>4, <1>5 DEF Numbered
  <2> QED BY <1>2, <1>3, <1>4, <1>5, <2>1 DEF TableHolds, Numbered
<1>7. RingIsRest'
  <2>1. PICK older \in Seq(Row) : kept = older \o ring
    BY DEF TelemetryInv, RingIsRest
  <2>2. kept' = Labelled(older, id, class) \o ring'
    <3>1. Labelled(older \o ring, id, class) =
            Labelled(older, id, class) \o Labelled(ring, id, class)
      BY <1>2, <1>3, LabelledConcat
    <3> QED BY <1>1, <2>1, <3>1
  <2>3. Labelled(older, id, class) \in Seq(Row) /\ ring' \in Seq(Row)
    BY <1>1, <1>2, <1>3, LabelledProperties
  <2>4. lastId' <= RingCap => ring' = kept'
    BY <1>1, <1>2, <1>3
  <2> QED BY <2>2, <2>3, <2>4 DEF RingIsRest
<1>8. WalkHolds' /\ SummaryHolds'
  <2>1. lastId <= lastId'
    BY <1>2, <1>3
  <2> QED BY <1>2, <1>6, <2>1, ReadersKeep
<1> QED BY <1>6, <1>7, <1>8 DEF TelemetryInv

\* Sweeping rows away (pruneAgentData).
LEMMA StepPrune ==
    ASSUME TelemetryInv, Prune
    PROVE  TelemetryInv'
<1>1. PICK S : kept' = Only(kept, S) /\ ring' = Only(ring, S)
  BY DEF Prune
<1>2. lastId' = lastId /\ Readers(kept')
  BY DEF Prune
<1>3. /\ kept \in Seq(Row) /\ Numbered(kept) /\ Len(kept) <= lastId
      /\ \A i \in DOMAIN kept : kept[i].id \in 1 .. lastId
      /\ ring \in Seq(Row) /\ (lastId <= RingCap => ring = kept)
      /\ lastId \in 0 .. MaxCaptures
  BY DEF TelemetryInv, TableHolds, RingIsRest
<1>4. /\ kept' \in Seq(Row) /\ Numbered(kept') /\ Len(kept') <= Len(kept)
      /\ \A i \in DOMAIN kept' : \E j \in DOMAIN kept : kept'[i] = kept[j]
  BY <1>1, <1>3, OnlyNumbered
<1>5. Len(kept) \in Nat /\ Len(kept') \in Nat
  BY <1>3, <1>4, LenProperties
<1>6. TableHolds'
  <2>1. Len(kept') <= lastId
    BY <1>3, <1>4, <1>5
  <2>2. \A i \in DOMAIN kept' : kept'[i].id \in 1 .. lastId
    BY <1>3, <1>4
  <2> QED BY <1>2, <1>3, <1>4, <2>1, <2>2 DEF TableHolds, Numbered
<1>7. RingIsRest'
  <2>1. PICK older \in Seq(Row) : kept = older \o ring
    BY DEF TelemetryInv, RingIsRest
  <2>2. kept' = Only(older, S) \o ring'
    BY <1>1, <1>3, <2>1, OnlyOfConcat
  <2>3. Only(older, S) \in Seq(Row) /\ ring' \in Seq(Row)
    BY <1>1, <1>3, OnlyType
  <2>4. lastId' <= RingCap => ring' = kept'
    BY <1>1, <1>2, <1>3
  <2> QED BY <2>2, <2>3, <2>4 DEF RingIsRest
<1>8. WalkHolds' /\ SummaryHolds'
  <2>1. lastId <= lastId'
    BY <1>2, <1>3
  <2> QED BY <1>2, <1>6, <2>1, ReadersKeep
<1> QED BY <1>6, <1>7, <1>8 DEF TelemetryInv

\* What a page shows of what matches, and what it tells of the rest.
LEMMA PageShows ==
    ASSUME NEW M \in Seq(Row), NEW o \in Nat
    PROVE  LET rest == Probe(Offset(M, o))
           IN  /\ \A d : d \in IdsOf(Limit(rest, PageSize)) <=>
                    \E i \in 1 .. Len(M) : o < i /\ i <= o + PageSize /\ M[i].id = d
               /\ Len(rest) \in Nat
               /\ Len(rest) <= PageSize => Len(M) <= o + PageSize
<1>1. Len(M) \in Nat /\ PageSize \in Nat \ {0} /\ PageSize \in Nat /\ PageSize + 1 \in Nat
  BY LenProperties, TelemetryAssumption
<1>2. PICK f \in Seq(Row) :
        /\ f = Offset(M, o)
        /\ Len(f) = IF o < Len(M) THEN Len(M) - o ELSE 0
        /\ \A i \in 1 .. Len(f) : f[i] = M[o + i]
  BY OffsetProperties
<1>3. Len(f) \in Nat
  BY LenProperties
<1>4. PICK rest \in Seq(Row) :
        /\ rest = Probe(f)
        /\ Len(rest) = IF PageSize + 1 < Len(f) THEN PageSize + 1 ELSE Len(f)
        /\ \A i \in 1 .. Len(rest) : rest[i] = f[i]
  BY <1>1, LimitProperties DEF Probe
<1>5. Len(rest) \in Nat
  BY LenProperties
<1>6. \A d : d \in IdsOf(Limit(rest, PageSize)) <=>
               \E i \in 1 .. Len(rest) : i <= PageSize /\ rest[i].id = d
  BY <1>1, LimitProperties
<1>7. \A i \in Nat : i \in 1 .. Len(rest) /\ i <= PageSize <=>
                       i \in 1 .. Len(f) /\ i <= PageSize
  BY <1>1, <1>3, <1>4
<1>8. \A i \in Nat : i \in 1 .. Len(f) <=> i >= 1 /\ o + i \in 1 .. Len(M)
  BY <1>1, <1>2
<1>9. ASSUME NEW d
      PROVE  d \in IdsOf(Limit(rest, PageSize)) <=>
               \E i \in 1 .. Len(M) : o < i /\ i <= o + PageSize /\ M[i].id = d
  <2>1. ASSUME d \in IdsOf(Limit(rest, PageSize))
        PROVE  \E i \in 1 .. Len(M) : o < i /\ i <= o + PageSize /\ M[i].id = d
    <3>1. PICK i \in 1 .. Len(rest) : i <= PageSize /\ rest[i].id = d
      BY <1>6, <2>1
    <3>2. i \in Nat /\ i \in 1 .. Len(f)
      BY <1>7, <3>1
    <3>3. o + i \in 1 .. Len(M) /\ o < o + i /\ o + i <= o + PageSize
      BY <1>1, <1>8, <3>1, <3>2
    <3>4. M[o + i].id = d
      BY <1>2, <1>4, <3>1, <3>2
    <3> QED BY <3>3, <3>4
  <2>2. ASSUME NEW j \in 1 .. Len(M), o < j, j <= o + PageSize, M[j].id = d
        PROVE  d \in IdsOf(Limit(rest, PageSize))
    <3>1. PICK i \in Nat : i = j - o
      BY <1>1, <2>2
    <3>2. j = o + i /\ i >= 1 /\ i <= PageSize
      BY <1>1, <2>2, <3>1
    <3>3. i \in 1 .. Len(f) /\ i \in 1 .. Len(rest)
      BY <1>7, <1>8, <3>2
    <3>4. rest[i].id = d
      BY <1>2, <1>4, <2>2, <3>2, <3>3
    <3> QED BY <1>6, <3>2, <3>3, <3>4
  <2> QED BY <2>1, <2>2
<1>10. ASSUME Len(rest) <= PageSize PROVE Len(M) <= o + PageSize
  <2>1. Len(f) <= PageSize
    BY <1>1, <1>3, <1>4, <1>10
  <2> QED BY <1>1, <1>2, <2>1
<1> QED BY <1>2, <1>4, <1>5, <1>9, <1>10

\* The readers leave the table alone.
LEMMA TableStays ==
    ASSUME TelemetryInv, UNCHANGED <<kept, ring, lastId>>, WalkHolds', SummaryHolds'
    PROVE  TelemetryInv'
<1>1. TableHolds' /\ RingIsRest'
  BY DEF TelemetryInv, TableHolds, RingIsRest, Numbered
<1> QED BY <1>1 DEF TelemetryInv

\* The summary is as it was when neither it nor the table changes.
LEMMA SummaryStays ==
    ASSUME SummaryHolds, UNCHANGED <<kept, summary>>
    PROVE  SummaryHolds'
BY DEF SummaryHolds, Groups, Limit, SessionRows, GroupKey

\* Setting a filter begins a walk on which nothing has been shown.
LEMMA StepFilter ==
    ASSUME TelemetryInv, SetFilter
    PROVE  TelemetryInv'
<1>1. PICK f \in Filters : drill' =
        [drill EXCEPT !.filter = f, !.offset = 0, !.loaded = FALSE, !.seen = {},
                      !.lasting = IdsOf(Matching(kept, f)),
                      !.shifted = FALSE, !.hurried = FALSE]
  BY DEF SetFilter
<1>2. UNCHANGED <<kept, ring, lastId, summary>>
  BY DEF SetFilter
<1>3. drill \in DrillRecord /\ kept \in Seq(Row) /\ Numbered(kept)
  BY DEF TelemetryInv, WalkHolds, TableHolds
<1> DEFINE M == Matching(kept, f)
           L == IdsOf(M)
<1>4. L \in SUBSET Nat /\ M \in Seq(Row)
  <2>1. M \in Seq(Row)
    BY <1>3, MatchingDescends
  <2> HIDE DEF M
  <2>2. Len(M) \in Nat /\ DOMAIN M = 1 .. Len(M) /\ \A i \in 1 .. Len(M) : M[i] \in Row
    BY <2>1, LenProperties, ElementOfSeq
  <2> QED BY <2>1, <2>2 DEF IdsOf, Row
<1> HIDE DEF M, L
<1>5. drill' = [drill EXCEPT !.filter = f, !.offset = 0, !.loaded = FALSE, !.seen = {},
                      !.lasting = L, !.shifted = FALSE, !.hurried = FALSE]
  BY <1>1 DEF M, L
<1>6. /\ drill' \in DrillRecord /\ drill'.filter = f /\ drill'.offset = 0
      /\ ~drill'.loaded /\ drill'.seen = {} /\ drill'.lasting = L
  BY <1>3, <1>4, <1>5 DEF DrillRecord
<1>7. Matching(kept, drill.filter)' = M
  BY <1>2, <1>6 DEF M, Matching
<1>8. Shown' = 0
  BY <1>6 DEF Shown
<1>9. IdsOf(Limit(M, 0)) = {}
  <2>1. Len(M) \in Nat
    BY <1>4, LenProperties
  <2>2. \A i \in 1 .. Len(M) : ~(i <= 0)
    BY <2>1
  <2>3. \A d : d \notin IdsOf(Limit(M, 0))
    BY <1>4, <2>2, LimitProperties
  <2> QED BY <2>3
<1>10. WalkHolds'
  <2>1. IdsOf(Matching(kept, drill.filter))' = L
    BY <1>7 DEF IdsOf, L
  <2>2. IdsOf(Limit(Matching(kept, drill.filter), Shown))' = {}
    <3>1. Limit(Matching(kept, drill.filter), Shown)' = Limit(M, 0)
      BY <1>7, <1>8 DEF Limit
    <3> QED BY <1>9, <3>1 DEF IdsOf
  <2>3. WalkSeesAll'
    BY <1>6 DEF WalkSeesAll
  <2> QED BY <1>6, <2>1, <2>2, <2>3 DEF WalkHolds
<1>11. SummaryHolds'
  BY <1>2, SummaryStays DEF TelemetryInv
<1> QED BY <1>2, <1>10, <1>11, TableStays

\* Loading a page adds to what has been seen what stands on it.
LEMMA StepLoad ==
    ASSUME TelemetryInv, LoadPage
    PROVE  TelemetryInv'
<1> DEFINE M == Matching(kept, drill.filter)
           o == drill.offset
           rest == Probe(Offset(M, o))
           page == IdsOf(Limit(rest, PageSize))
<1>1. /\ drill' = [drill EXCEPT !.loaded = TRUE, !.more = Len(rest) > PageSize,
                                !.seen = @ \cup page]
      /\ UNCHANGED <<kept, ring, lastId, summary>>
  BY DEF LoadPage
<1>2. drill \in DrillRecord /\ kept \in Seq(Row) /\ Numbered(kept) /\ o \in Nat
  BY DEF TelemetryInv, WalkHolds, TableHolds, DrillRecord
<1>3. M \in Seq(Row) /\ IdsOf(M) \subseteq IdsOf(kept)
  BY <1>2, MatchingDescends
<1>4. PageSize \in Nat /\ Len(M) \in Nat
  BY <1>3, LenProperties, TelemetryAssumption
<1> HIDE DEF M, o
<1>5. /\ \A d : d \in page <=>
           \E i \in 1 .. Len(M) : o < i /\ i <= o + PageSize /\ M[i].id = d
      /\ Len(rest) \in Nat
      /\ Len(rest) <= PageSize => Len(M) <= o + PageSize
  BY <1>2, <1>3, PageShows
<1> HIDE DEF rest, page
<1>6. page \subseteq IdsOf(M)
  BY <1>3, <1>5, IdsByPlace
<1>7. IdsOf(kept) \subseteq 1 .. lastId
  BY DEF TelemetryInv, TableHolds, IdsOf
<1>8. page \subseteq 1 .. lastId /\ page \subseteq Nat /\ lastId \in Nat
  <2>1. lastId \in Nat
    BY DEF TelemetryInv, TableHolds
  <2> QED BY <1>3, <1>6, <1>7, <2>1
<1>9. drill' \in DrillRecord
  <2> DEFINE more == Len(rest) > PageSize
             seen == drill.seen \cup page
  <2>1. more \in BOOLEAN
    OBVIOUS
  <2>2. seen \in SUBSET Nat
    <3>1. drill.seen \in SUBSET Nat
      BY <1>2 DEF DrillRecord
    <3> QED BY <1>8, <3>1
  <2>3. drill' = [drill EXCEPT !.loaded = TRUE, !.more = more, !.seen = seen]
    BY <1>1
  <2> HIDE DEF more, seen
  <2> QED BY <1>2, <2>1, <2>2, <2>3 DEF DrillRecord
<1>10. /\ drill'.filter = drill.filter /\ drill'.offset = o
       /\ drill'.loaded /\ drill'.more = (Len(rest) > PageSize)
       /\ drill'.seen = drill.seen \cup page /\ drill'.lasting = drill.lasting
       /\ drill'.shifted = drill.shifted /\ drill'.hurried = drill.hurried
  BY <1>1, <1>2 DEF DrillRecord, o
<1>11. Matching(kept, drill.filter)' = M
  BY <1>1, <1>10 DEF M, Matching
<1>12. Shown' = o + PageSize
  BY <1>10 DEF Shown
<1>13. /\ drill.seen \subseteq 1 .. lastId /\ drill.lasting \subseteq IdsOf(M)
       /\ ~drill.shifted /\ ~drill.hurried =>
            drill.lasting \cap IdsOf(Limit(M, Shown)) \subseteq drill.seen
  BY DEF TelemetryInv, WalkHolds, M
<1>14. Shown \in Nat /\ o <= Shown
  BY <1>2, <1>4 DEF Shown, o
<1>15. ASSUME ~drill.shifted, ~drill.hurried, NEW d \in drill.lasting,
              NEW i \in 1 .. Len(M), i <= o + PageSize, M[i].id = d
       PROVE  d \in drill.seen \cup page
  <2>1. CASE o < i
    BY <1>5, <1>15, <2>1
  <2>2. CASE ~(o < i)
    <3>1. i <= Shown
      BY <1>2, <1>4, <1>14, <2>2
    <3>2. d \in IdsOf(Limit(M, Shown))
      BY <1>3, <1>14, <1>15, <3>1, LimitProperties
    <3> QED BY <1>13, <1>15, <3>2
  <2> QED BY <2>1, <2>2
<1>16. ~drill.shifted /\ ~drill.hurried =>
         drill.lasting \cap IdsOf(Limit(M, o + PageSize)) \subseteq drill.seen \cup page
  <2>1. o + PageSize \in Nat
    BY <1>2, <1>4
  <2> QED BY <1>3, <1>15, <2>1, LimitProperties
<1>17. WalkSeesAll'
  <2> SUFFICES ASSUME ~drill'.more, ~drill'.shifted, ~drill'.hurried,
                      NEW d \in drill'.lasting
               PROVE  d \in drill'.seen
    BY DEF WalkSeesAll
  <2>1. Len(M) <= o + PageSize
    <3>1. ~(Len(rest) > PageSize)
      BY <1>10
    <3>2. Len(rest) <= PageSize
      BY <1>4, <1>5, <3>1
    <3> QED BY <1>5, <3>2
  <2>2. d \in drill.lasting /\ d \in IdsOf(M)
    BY <1>10, <1>13
  <2>3. PICK i \in 1 .. Len(M) : M[i].id = d
    BY <1>3, <2>2, IdsByPlace
  <2>4. i <= o + PageSize
    BY <1>2, <1>4, <2>1
  <2> QED BY <1>10, <1>15, <2>2, <2>3, <2>4
<1>18. WalkHolds'
  <2>1. IdsOf(Matching(kept, drill.filter))' = IdsOf(M)
    BY <1>11 DEF IdsOf
  <2>2. IdsOf(Limit(Matching(kept, drill.filter), Shown))' = IdsOf(Limit(M, o + PageSize))
    <3>1. Limit(Matching(kept, drill.filter), Shown)' = Limit(M, o + PageSize)
      BY <1>11, <1>12 DEF Limit
    <3> QED BY <3>1 DEF IdsOf
  <2>3. drill'.seen \subseteq 1 .. lastId'
    BY <1>1, <1>8, <1>10, <1>13
  <2>4. drill'.lasting \subseteq IdsOf(M)
    BY <1>10, <1>13
  <2>5. ~drill'.shifted /\ ~drill'.hurried =>
          drill'.lasting \cap IdsOf(Limit(M, o + PageSize)) \subseteq drill'.seen
    BY <1>10, <1>16
  <2> QED BY <1>9, <1>17, <2>1, <2>2, <2>3, <2>4, <2>5 DEF WalkHolds
<1>19. SummaryHolds'
  BY <1>1, SummaryStays DEF TelemetryInv
<1> QED BY <1>1, <1>18, <1>19, TableStays

\* The pager's buttons only move on what has been shown.
LEMMA StepPager ==
    ASSUME TelemetryInv, NextPage \/ PrevPage
    PROVE  TelemetryInv'
<1>1. /\ drill \in DrillRecord /\ PageSize \in Nat /\ drill.offset \in Nat
      /\ UNCHANGED <<kept, ring, lastId, summary>>
      /\ kept \in Seq(Row) /\ Numbered(kept)
  BY TelemetryAssumption
    DEF TelemetryInv, WalkHolds, TableHolds, DrillRecord, NextPage, PrevPage
<1>2. /\ drill' \in DrillRecord /\ ~drill'.loaded
      /\ drill'.filter = drill.filter /\ drill'.seen = drill.seen
      /\ drill'.lasting = drill.lasting /\ drill'.shifted = drill.shifted
      /\ ~drill'.hurried => ~drill.hurried /\ drill'.offset <= Shown
  <2>1. CASE NextPage
    <3>1. drill' = [drill EXCEPT !.offset = @ + PageSize, !.loaded = FALSE,
                                 !.hurried = @ \/ ~drill.loaded]
      BY <2>1 DEF NextPage
    <3>2. drill.offset + PageSize \in Nat
      BY <1>1
    <3>3. /\ drill' \in DrillRecord /\ ~drill'.loaded
          /\ drill'.filter = drill.filter /\ drill'.seen = drill.seen
          /\ drill'.lasting = drill.lasting /\ drill'.shifted = drill.shifted
          /\ drill'.offset = drill.offset + PageSize
          /\ drill'.hurried = (drill.hurried \/ ~drill.loaded)
      BY <1>1, <3>1, <3>2 DEF DrillRecord
    <3>4. ASSUME ~drill'.hurried PROVE ~drill.hurried /\ drill.loaded
      BY <3>3, <3>4
    <3>5. drill.loaded => Shown = drill.offset + PageSize
      BY DEF Shown
    <3>6. drill'.offset <= drill.offset + PageSize
      BY <3>2, <3>3
    <3>7. ~drill'.hurried => ~drill.hurried /\ drill'.offset <= Shown
      BY <3>4, <3>5, <3>6
    <3> QED BY <3>3, <3>7
  <2>2. CASE PrevPage
    <3> DEFINE m == Max({0, drill.offset - PageSize})
    <3>1. m \in Nat /\ m <= drill.offset
      <4>1. drill.offset - PageSize \in Int
        BY <1>1
      <4>2. PICK x \in {0, drill.offset - PageSize} :
              \A y \in {0, drill.offset - PageSize} : x >= y
        BY <4>1
      <4>3. m \in {0, drill.offset - PageSize} /\ m >= 0
        BY <4>2 DEF Max
      <4> QED BY <1>1, <4>3
    <3> HIDE DEF m
    <3>2. drill' = [drill EXCEPT !.offset = m, !.loaded = FALSE]
      BY <2>2 DEF PrevPage, m
    <3>3. /\ drill' \in DrillRecord /\ ~drill'.loaded
          /\ drill'.filter = drill.filter /\ drill'.seen = drill.seen
          /\ drill'.lasting = drill.lasting /\ drill'.shifted = drill.shifted
          /\ drill'.offset = m /\ drill'.hurried = drill.hurried
      BY <1>1, <3>1, <3>2 DEF DrillRecord
    <3>4. m <= Shown
      BY <1>1, <3>1 DEF Shown
    <3> QED BY <3>3, <3>4
  <2> QED BY <2>1, <2>2
<1> DEFINE M == Matching(kept, drill.filter)
<1>3. M \in Seq(Row)
  BY <1>1, MatchingDescends
<1>4. Shown \in Nat /\ Len(M) \in Nat /\ drill'.offset \in Nat
  BY <1>1, <1>2, <1>3, LenProperties DEF Shown, DrillRecord
<1> HIDE DEF M
<1>5. Matching(kept, drill.filter)' = M /\ Shown' = drill'.offset
  BY <1>1, <1>2, <1>4 DEF M, Matching, Shown
<1>6. /\ drill.seen \subseteq 1 .. lastId /\ drill.lasting \subseteq IdsOf(M)
      /\ ~drill.shifted /\ ~drill.hurried =>
           drill.lasting \cap IdsOf(Limit(M, Shown)) \subseteq drill.seen
  BY DEF TelemetryInv, WalkHolds, M
<1>7. ASSUME ~drill'.shifted, ~drill'.hurried,
             NEW d \in drill'.lasting, d \in IdsOf(Limit(M, drill'.offset))
      PROVE  d \in drill'.seen
  <2>1. PICK i \in 1 .. Len(M) : i <= drill'.offset /\ M[i].id = d
    BY <1>3, <1>4, <1>7, LimitProperties
  <2>2. i <= Shown
    BY <1>2, <1>4, <1>7, <2>1
  <2>3. d \in IdsOf(Limit(M, Shown))
    BY <1>3, <1>4, <2>1, <2>2, LimitProperties
  <2> QED BY <1>2, <1>6, <1>7, <2>3
<1>8. WalkHolds'
  <2>1. IdsOf(Matching(kept, drill.filter))' = IdsOf(M)
    BY <1>5 DEF IdsOf
  <2>2. IdsOf(Limit(Matching(kept, drill.filter), Shown))' = IdsOf(Limit(M, drill'.offset))
    <3>1. Limit(Matching(kept, drill.filter), Shown)' = Limit(M, drill'.offset)
      BY <1>5 DEF Limit
    <3> QED BY <3>1 DEF IdsOf
  <2>3. WalkSeesAll'
    BY <1>2 DEF WalkSeesAll
  <2>4. drill'.seen \subseteq 1 .. lastId' /\ drill'.lasting \subseteq IdsOf(M)
    BY <1>1, <1>2, <1>6
  <2>5. ~drill'.shifted /\ ~drill'.hurried =>
          drill'.lasting \cap IdsOf(Limit(M, drill'.offset)) \subseteq drill'.seen
    BY <1>7
  <2> QED BY <1>2, <2>1, <2>2, <2>3, <2>4, <2>5 DEF WalkHolds
<1>9. SummaryHolds'
  BY <1>1, SummaryStays DEF TelemetryInv
<1> QED BY <1>1, <1>8, <1>9, TableStays

\* The walk is as it was when neither it nor the table changes.
LEMMA WalkStays ==
    ASSUME WalkHolds, UNCHANGED <<kept, lastId, drill>>
    PROVE  WalkHolds'
<1>1. WalkSeesAll'
  BY DEF WalkHolds, WalkSeesAll
<1>2. /\ Matching(kept, drill.filter)' = Matching(kept, drill.filter)
      /\ Shown' = Shown
  BY DEF Matching, Shown
<1>3. /\ IdsOf(Matching(kept, drill.filter))' = IdsOf(Matching(kept, drill.filter))
      /\ IdsOf(Limit(Matching(kept, drill.filter), Shown))' =
           IdsOf(Limit(Matching(kept, drill.filter), Shown))
  BY <1>2 DEF IdsOf, Limit
<1> QED BY <1>1, <1>3 DEF WalkHolds

\* The summary's two queries.
LEMMA StepSummary ==
    ASSUME TelemetryInv, SummaryNext
    PROVE  TelemetryInv'
<1>1. UNCHANGED <<kept, ring, lastId, drill>>
  BY DEF SummaryNext, ReadGroups, ReadSample
<1>2. kept \in Seq(Row) /\ summary \in SummaryRecord /\ SummaryHolds
  BY DEF TelemetryInv, TableHolds, SummaryHolds
<1>3. WalkHolds'
  BY <1>1, WalkStays DEF TelemetryInv
<1>4. CASE ReadGroups
  <2> DEFINE g == Groups(kept)
  <2>1. g \in {<<>>} \cup {Groups(t) : t \in Seq(Row)} /\ <<>> \in Seq(Row)
    BY <1>2
  <2>2. g = Groups(kept)
    OBVIOUS
  <2> HIDE DEF g
  <2>3. summary' = [phase |-> "counted", groups |-> g, rows |-> <<>>, of |-> kept,
                    quiet |-> TRUE]
    BY <1>4, <2>2 DEF ReadGroups, Unread
  <2>4. /\ summary'.phase = "counted" /\ summary'.groups = g /\ summary'.of = kept
        /\ summary' \in SummaryRecord
    BY <1>2, <2>1, <2>3 DEF SummaryRecord
  <2>5. Groups(summary.of)' = g
    BY <2>2, <2>4 DEF Groups, GroupKey
  <2> QED BY <1>1, <1>3, <2>4, <2>5, TableStays DEF SummaryHolds
<1>5. CASE ReadSample
  <2> DEFINE pull == Limit(Reverse(Only(kept, SessionRows)), Cap)
  <2>1. pull \in Seq(Row)
    <3>1. Only(kept, SessionRows) \in Seq(Row)
      BY <1>2, OnlyType
    <3>2. Reverse(Only(kept, SessionRows)) \in Seq(Row)
      BY <3>1, ReverseProperties
    <3>3. Cap \in Nat
      BY TelemetryAssumption
    <3> QED BY <3>2, <3>3, LimitProperties
  <2>2. pull = Limit(Reverse(Only(kept, SessionRows)), Cap)
    OBVIOUS
  <2> HIDE DEF pull
  <2>3. summary.phase = "counted" /\ summary' = [summary EXCEPT !.phase = "read", !.rows = pull]
    BY <1>5, <2>2 DEF ReadSample, SessionRows
  <2>4. /\ summary'.phase = "read" /\ summary'.rows = pull
        /\ summary'.groups = summary.groups /\ summary'.of = summary.of
        /\ summary'.quiet = summary.quiet
        /\ summary' \in SummaryRecord
    BY <1>2, <2>1, <2>3 DEF SummaryRecord
  <2>5. summary.groups = Groups(summary.of) /\ (summary.quiet => kept = summary.of)
    BY <1>2, <2>3 DEF SummaryHolds
  <2>6. /\ Groups(summary.of)' = Groups(summary.of)
        /\ Limit(Reverse(Only(summary.of, SessionRows)), Cap)' =
             Limit(Reverse(Only(summary.of, SessionRows)), Cap)
    BY <2>4 DEF Groups, GroupKey, Limit, SessionRows
  <2>7. summary.quiet => pull = Limit(Reverse(Only(summary.of, SessionRows)), Cap)
    BY <2>2, <2>5
  <2>8. SummaryHolds'
    BY <2>4, <2>5, <2>6, <2>7 DEF SummaryHolds
  <2> QED BY <1>1, <1>3, <2>8, TableStays
<1> QED BY <1>4, <1>5 DEF SummaryNext

\* Nothing happens.
LEMMA StepStutter ==
    ASSUME TelemetryInv, UNCHANGED telemetryVars
    PROVE  TelemetryInv'
<1>1. UNCHANGED <<kept, ring, lastId, drill, summary>>
  BY DEF telemetryVars
<1>2. WalkHolds'
  BY <1>1, WalkStays DEF TelemetryInv
<1>3. SummaryHolds'
  BY <1>1, SummaryStays DEF TelemetryInv
<1> QED BY <1>1, <1>2, <1>3, TableStays

\* An empty table, and nobody who reads it.
LEMMA TelemetryStarts == TelemetryInit => TelemetryInv
<1> SUFFICES ASSUME TelemetryInit PROVE TelemetryInv
  OBVIOUS
<1>1. /\ kept = <<>> /\ ring = <<>> /\ lastId = 0 /\ summary = Unread
      /\ drill = [filter |-> Everything, offset |-> 0, loaded |-> FALSE, more |-> FALSE,
                  seen |-> {}, lasting |-> {}, shifted |-> FALSE, hurried |-> FALSE]
  BY DEF TelemetryInit
<1>2. <<>> \in Seq(Row) /\ Len(<<>>) = 0 /\ DOMAIN <<>> = {}
  OBVIOUS
<1>3. TableHolds
  <2>1. 0 \in 0 .. MaxCaptures
    BY TelemetryAssumption
  <2> QED BY <1>1, <1>2, <2>1 DEF TableHolds, Numbered
<1>4. RingIsRest
  <2>1. <<>> = <<>> \o <<>>
    BY <1>2, ConcatEmptySeq
  <2> QED BY <1>1, <1>2, <2>1 DEF RingIsRest
<1>5. WalkHolds
  <2>1. drill \in DrillRecord
    BY <1>1 DEF DrillRecord, Filters
  <2>2. drill.seen = {} /\ drill.lasting = {} /\ ~drill.loaded
    BY <1>1
  <2> QED BY <2>1, <2>2 DEF WalkHolds, WalkSeesAll
<1>6. SummaryHolds
  <2>1. summary = [phase |-> "none", groups |-> <<>>, rows |-> <<>>, of |-> <<>>,
                   quiet |-> TRUE]
    BY <1>1 DEF Unread
  <2>2. summary \in SummaryRecord /\ summary.phase = "none"
    BY <1>2, <2>1 DEF SummaryRecord
  <2> QED BY <2>2 DEF SummaryHolds
<1> QED BY <1>3, <1>4, <1>5, <1>6 DEF TelemetryInv

\* The table, the ring, the walk and the summary stay as TelemetryInv says, in
\* whatever order rows are stored, labelled, swept away and read
\* (server/storage, agent/telemetry.ts).
THEOREM TelemetryInvariant == TelemetrySpec => []TelemetryInv
<1>1. TelemetryInit => TelemetryInv
  BY TelemetryStarts
<1>2. TelemetryInv /\ [TelemetryNext]_telemetryVars => TelemetryInv'
  <2> SUFFICES ASSUME TelemetryInv, [TelemetryNext]_telemetryVars PROVE TelemetryInv'
    OBVIOUS
  <2>1. CASE RecordRequest
    BY <2>1, StepRecord
  <2>2. CASE UpdateClassification
    BY <2>2, StepUpdate
  <2>3. CASE Prune
    BY <2>3, StepPrune
  <2>4. CASE SetFilter
    BY <2>4, StepFilter
  <2>5. CASE LoadPage
    BY <2>5, StepLoad
  <2>6. CASE NextPage \/ PrevPage
    BY <2>6, StepPager
  <2>7. CASE SummaryNext
    BY <2>7, StepSummary
  <2>8. CASE UNCHANGED telemetryVars
    BY <2>8, StepStutter
  <2> QED
    BY <2>1, <2>2, <2>3, <2>4, <2>5, <2>6, <2>7, <2>8 DEF TelemetryNext, TableNext, DrillNext
<1> QED BY <1>1, <1>2, PTL DEF TelemetrySpec

-----------------------------------------------------------------------------
\* What is left of a table after its oldest rows is a suffix of it.
LEMMA RestIsSuffix ==
    ASSUME NEW s \in Seq(Row), NEW older \in Seq(Row)
    PROVE  IsSuffix(s, older \o s)
<1> DEFINE n == Len(s)
           k == Len(older)
<1>1. n \in Nat /\ k \in Nat
  BY LenProperties
<1>2. PICK t \in Seq(Row) :
        /\ t = older \o s /\ Len(t) = k + n
        /\ \A i \in 1 .. k + n : t[i] = IF i <= k THEN older[i] ELSE s[i - k]
  <2>1. /\ older \o s \in Seq(Row) /\ Len(older \o s) = k + n
        /\ \A i \in 1 .. k + n : (older \o s)[i] = IF i <= k THEN older[i] ELSE s[i - k]
    BY ConcatProperties
  <2> HIDE DEF n, k
  <2> QED BY <2>1
<1>3. PICK a \in Seq(Row) : /\ a = Reverse(s) /\ Len(a) = n
                           /\ \A i \in 1 .. n : a[i] = s[n - i + 1]
  BY ReverseProperties
<1>4. PICK b \in Seq(Row) : /\ b = Reverse(t) /\ Len(b) = Len(t)
                           /\ \A i \in 1 .. Len(t) : b[i] = t[Len(t) - i + 1]
  BY ReverseProperties
<1> HIDE DEF n, k
<1>5. \A i \in 1 .. n : a[i] = b[i]
  <2> TAKE i \in 1 .. n
  <2>1. /\ i \in 1 .. k + n /\ (k + n) - i + 1 \in 1 .. k + n
        /\ ~((k + n) - i + 1 <= k) /\ ((k + n) - i + 1) - k = n - i + 1
    BY <1>1
  <2>2. b[i] = t[(k + n) - i + 1]
    BY <1>2, <1>4, <2>1
  <2>3. t[(k + n) - i + 1] = s[n - i + 1]
    BY <1>2, <2>1
  <2> QED BY <1>3, <2>2, <2>3
<1>6. n <= Len(b)
  BY <1>1, <1>2, <1>4
<1>7. SubSeq(a, 1, n) = SubSeq(b, 1, n)
  <2>1. PICK c \in Seq(Row) : c = SubSeq(a, 1, n) /\ c = a
    BY <1>3, SubSeqFull
  <2>2. PICK d \in Seq(Row) : d = SubSeq(b, 1, n) /\ Len(d) = n /\ \A i \in 1 .. n : d[i] = b[i]
    <3>1. \A i \in 1 .. n : b[i] \in Row
      BY <1>3, <1>5, ElementOfSeq
    <3>2. 1 \in Int /\ n \in Int
      BY <1>1
    <3>3. /\ SubSeq(b, 1, n) \in Seq(Row)
          /\ Len(SubSeq(b, 1, n)) = IF 1 <= n THEN n - 1 + 1 ELSE 0
          /\ \A i \in 1 .. n - 1 + 1 : SubSeq(b, 1, n)[i] = b[1 + i - 1]
      BY <3>1, <3>2, SubSeqProperties
    <3>4. /\ n - 1 + 1 = n /\ (IF 1 <= n THEN n - 1 + 1 ELSE 0) = n
          /\ \A i \in 1 .. n : 1 + i - 1 = i
      BY <1>1
    <3> QED BY <3>3, <3>4
  <2>3. c = d
    BY <1>3, <1>5, <2>1, <2>2, SeqEqual
  <2> QED BY <2>1, <2>2, <2>3
<1> QED BY <1>2, <1>3, <1>4, <1>6, <1>7 DEF IsSuffix, IsPrefix

\* What the summary tells is true of the table it was counted from (telemetry.ts,
\* readAgentSummary).
LEMMA SummaryTells == ASSUME TelemetryInv PROVE SummaryTrue
<1> SUFFICES ASSUME summary.phase = "read" PROVE SummaryTrue
  BY DEF SummaryTrue
<1> DEFINE t == summary.of
           s == Reverse(Only(t, SessionRows))
           told == OutcomesOf(summary.groups)
           some == AgentSessionsOf(summary.rows)
           all == AgentSessionsOf(t)
<1>1. /\ t \in Seq(Row) /\ summary.rows \in Seq(Row)
      /\ summary.groups = Groups(t)
      /\ summary.quiet => summary.rows = Limit(s, Cap)
  BY DEF TelemetryInv, SummaryHolds, SummaryRecord
<1>2. /\ told.total = Len(t)
      /\ \A o \in Outcome :
          /\ told.reads[o] =
               Cardinality({i \in DOMAIN t : t[i].outcome = o /\ ~t[i].write})
          /\ told.writes[o] =
               Cardinality({i \in DOMAIN t : t[i].outcome = o /\ t[i].write})
      /\ told.rescued =
           Cardinality({i \in DOMAIN t : t[i].outcome = "dead_end" /\ t[i].served})
  <2>1. told = OutcomesOf(Groups(t))
    BY <1>1
  <2>2. LET g == OutcomesOf(Groups(t))
        IN  /\ g.total = Len(t)
            /\ \A o \in Outcome :
                /\ g.reads[o] =
                     Cardinality({i \in DOMAIN t : t[i].outcome = o /\ ~t[i].write})
                /\ g.writes[o] =
                     Cardinality({i \in DOMAIN t : t[i].outcome = o /\ t[i].write})
            /\ g.rescued =
                 Cardinality({i \in DOMAIN t : t[i].outcome = "dead_end" /\ t[i].served})
    <3> HIDE DEF told
    <3>1. PICK u \in Seq(Row) : u = t
      BY <1>1
    <3> QED BY <3>1, OutcomesTrue
  <2> HIDE DEF told, t
  <2> QED BY <2>1, <2>2
<1>3. s \in Seq(Row) /\ Cap \in Nat
  <2>1. Only(t, SessionRows) \in Seq(Row)
    BY <1>1, OnlyType
  <2> QED BY <2>1, ReverseProperties, TelemetryAssumption
<1>4. ASSUME summary.quiet, ~Sampled PROVE summary.rows = s
  <2> HIDE DEF s
  <2>1. Len(s) \in Nat
    BY <1>3, LenProperties
  <2>2. summary.rows = Limit(s, Cap)
    BY <1>1, <1>4
  <2>3. Len(Limit(s, Cap)) = IF Cap < Len(s) THEN Cap ELSE Len(s)
    BY <1>3, LimitProperties
  <2>4. ~(Len(Limit(s, Cap)) >= Cap)
    BY <1>4, <2>2 DEF Sampled
  <2>5. Len(s) <= Cap
    BY <1>3, <2>1, <2>3, <2>4
  <2> QED BY <1>3, <2>2, <2>5, LimitProperties
<1>5. ASSUME summary.quiet, ~Sampled, ~Ties
      PROVE  /\ \A field \in {"sessions", "deadEnds", "recovered", "abandoned"} :
                  some[field] = all[field]
             /\ told.total - (Len(summary.rows) - some.unsessionable) = all.unsessionable
             /\ some.escalations <= all.escalations
  <2>1. \A i, j \in DOMAIN t : i # j => t[i].ts # t[j].ts
    BY <1>5 DEF Ties
  <2>2. summary.rows = s
    BY <1>4, <1>5
  <2>3. /\ \A field \in {"sessions", "deadEnds", "recovered", "abandoned"} :
             AgentSessionsOf(s)[field] = all[field]
        /\ Len(t) - (Len(s) - AgentSessionsOf(s).unsessionable) = all.unsessionable
        /\ AgentSessionsOf(s).escalations <= all.escalations
    BY <1>1, <2>1, PulledTells
  <2> HIDE DEF s, t, told, all
  <2> QED BY <1>2, <2>2, <2>3
<1> HIDE DEF s, told, some, all
<1> QED BY <1>2, <1>5 DEF SummaryTrue, t, told, some, all

\* The rows that are correlated are rows, and no more than there may be.
THEOREM RowsTyped == TableSpec => []RowsTypeOK
<1>1. SessionsTableInit => RowsTypeOK
  <2>1. MaxRows \in Nat
    BY TableAssumption
  <2>2. <<>> \in Seq(Rows) /\ Len(<<>>) = 0
    OBVIOUS
  <2> QED BY <2>1, <2>2 DEF SessionsTableInit, RowsTypeOK
<1>2. RowsTypeOK /\ [Store]_rows => RowsTypeOK'
  <2> SUFFICES ASSUME RowsTypeOK, [Store]_rows PROVE RowsTypeOK'
    OBVIOUS
  <2>1. CASE Store
    <3>1. PICK r \in Rows : rows' = Append(rows, r)
      BY <2>1 DEF Store
    <3>2. rows \in Seq(Rows) /\ Len(rows) < MaxRows
      BY <2>1 DEF Store, RowsTypeOK
    <3>3. rows' \in Seq(Rows) /\ Len(rows') = Len(rows) + 1
      BY <3>1, <3>2, AppendProperties
    <3>4. Len(rows) \in Nat /\ MaxRows \in Nat
      BY <3>2, LenProperties, TableAssumption
    <3> QED BY <3>2, <3>3, <3>4 DEF RowsTypeOK
  <2>2. CASE UNCHANGED rows
    BY <2>2 DEF RowsTypeOK
  <2> QED BY <2>1, <2>2
<1> QED BY <1>1, <1>2, PTL DEF TableSpec

\* The rows shown and lasting are rows of the table, and the ids were given.
THEOREM TelemetryTyped == TelemetrySpec => []TelemetryTypeOK
<1>1. TelemetryInv => TelemetryTypeOK
  <2> SUFFICES ASSUME TelemetryInv PROVE TelemetryTypeOK
    OBVIOUS
  <2>1. kept \in Seq(Row) /\ Numbered(kept)
    BY DEF TelemetryInv, TableHolds
  <2>2. IdsOf(kept) \subseteq 1 .. lastId
    BY DEF TelemetryInv, TableHolds, IdsOf
  <2>3. drill.lasting \subseteq IdsOf(kept)
    <3>1. IdsOf(Matching(kept, drill.filter)) \subseteq IdsOf(kept)
      BY <2>1, MatchingDescends
    <3> QED BY <3>1 DEF TelemetryInv, WalkHolds
  <2>4. drill.filter \in Filters /\ drill.seen \subseteq 1 .. lastId
    BY DEF TelemetryInv, WalkHolds, DrillRecord
  <2>5. summary.phase \in {"none", "counted", "read"}
    BY DEF TelemetryInv, SummaryHolds, SummaryRecord
  <2> QED BY <2>2, <2>3, <2>4, <2>5 DEF TelemetryTypeOK, TelemetryInv, TableHolds
<1> QED BY <1>1, TelemetryInvariant, PTL

\* The pages, the ring, the summary and the sessions hold whatever is captured,
\* however large the ring, the pages and the sample are, and whatever the windows
\* of a session are (agent/telemetry.ts, agent/sessions.ts, server/storage).
THEOREM TelemetryTells == TelemetrySpec /\ TableSpec => []TelemetryHolds
<1>1. TelemetryInv => RingKeepsNewest /\ WalkSeesAll /\ SummaryTrue
  <2> SUFFICES ASSUME TelemetryInv PROVE RingKeepsNewest /\ WalkSeesAll /\ SummaryTrue
    OBVIOUS
  <2>1. RingKeepsNewest
    <3>1. PICK older \in Seq(Row) : kept = older \o ring
      BY DEF TelemetryInv, RingIsRest
    <3>2. ring \in Seq(Row)
      BY DEF TelemetryInv, RingIsRest
    <3>3. IsSuffix(ring, older \o ring)
      BY <3>2, RestIsSuffix
    <3> QED BY <3>1, <3>3 DEF RingKeepsNewest, TelemetryInv, RingIsRest
  <2>2. WalkSeesAll
    BY DEF TelemetryInv, WalkHolds
  <2> QED BY <2>1, <2>2, SummaryTells
<1>2. RowsTypeOK => SessionsMean
  <2> SUFFICES ASSUME RowsTypeOK PROVE SessionsMean
    OBVIOUS
  <2>1. /\ Len(rows) \in Nat /\ DOMAIN rows = 1 .. Len(rows)
        /\ \A i \in 1 .. Len(rows) : rows[i] \in Rows
    <3>1. rows \in Seq(Rows)
      BY DEF RowsTypeOK
    <3> QED BY <3>1, LenProperties, ElementOfSeq
  <2>2. \A i \in DOMAIN rows : rows[i].ts \in Nat
    BY <2>1, TableAssumption
  <2> QED BY <2>1, <2>2, ScansMean DEF SessionsMean
<1> QED
  BY <1>1, <1>2, TelemetryInvariant, RowsTyped, PTL DEF TelemetryHolds
=============================================================================
