--------------------------- MODULE BoundedDelivery ---------------------------
(***************************************************************************)
(* What the agent write buffer promises the capture path, with no timer,   *)
(* no flush flag and no batches in it: an ordered, bounded waiting line.   *)
(*                                                                         *)
(*   - a record offered to it is accepted, or refused, and it is refused   *)
(*     only when at least RefuseFrom records are already waiting;          *)
(*   - at most Capacity records ever wait;                                 *)
(*   - records leave from the front, at most LeaveMax at a time, and each  *)
(*     group is stored as a whole or lost as a whole, exactly once;        *)
(*   - a record that waits is not left waiting.                            *)
(*                                                                         *)
(* AgentWriteBuffer implements it (see Promise there).                     *)
(***************************************************************************)
EXTENDS Naturals, Sequences

CONSTANTS
    MaxOffers,    \* bound on the number of records offered
    Capacity,     \* the most records that ever wait
    RefuseFrom,   \* a record is refused only with this many waiting
    LeaveMax      \* the most records that leave together

VARIABLES
    offered,      \* records offered so far; the i-th one offered is named i
    waiting,      \* accepted and not yet settled, oldest first
    stored,       \* settled: written to storage, in order
    lost,         \* settled: their group's write failed, in order
    refused       \* number of records refused

vars == <<offered, waiting, stored, lost, refused>>

Init ==
    /\ offered = 0
    /\ waiting = <<>>
    /\ stored = <<>>
    /\ lost = <<>>
    /\ refused = 0

Accept ==
    /\ offered < MaxOffers
    /\ Len(waiting) < Capacity
    /\ offered' = offered + 1
    /\ waiting' = Append(waiting, offered + 1)
    /\ UNCHANGED <<stored, lost, refused>>

Refuse ==
    /\ offered < MaxOffers
    /\ Len(waiting) >= RefuseFrom
    /\ offered' = offered + 1
    /\ refused' = refused + 1
    /\ UNCHANGED <<waiting, stored, lost>>

\* The n oldest records leave together, all stored or all lost.
Leave(n) ==
    /\ waiting' = SubSeq(waiting, n + 1, Len(waiting))
    /\ \/ /\ stored' = stored \o SubSeq(waiting, 1, n)
          /\ UNCHANGED lost
       \/ /\ lost' = lost \o SubSeq(waiting, 1, n)
          /\ UNCHANGED stored
    /\ UNCHANGED <<offered, refused>>

Settle == \E n \in 1..LeaveMax : n <= Len(waiting) /\ Leave(n)

Next == Accept \/ Refuse \/ Settle

SafeSpec == Init /\ [][Next]_vars

Spec == SafeSpec /\ WF_vars(Settle)
=============================================================================
