---------------------------- MODULE AgreedOrder ----------------------------
(***************************************************************************)
(* What a replicated log and a totally ordered multicast both promise,     *)
(* whatever they exchange to keep it: every member is given items one      *)
(* after another, none is taken back, and where two members have been      *)
(* given something at the same place it is the same.                       *)
(***************************************************************************)
EXTENDS Integers, Sequences, SequencesExt

CONSTANTS
    Member,
    Item,
    Batch       \* bound: a member is given at most this many items at once

VARIABLE delivered      \* delivered[m]: what member m has been given, in order

Init == delivered = [m \in Member |-> <<>>]

\* Two sequences that agree as far as both go.
Agree(s, t) == IsPrefix(s, t) \/ IsPrefix(t, s)

Deliver(m, items) ==
    /\ delivered' = [delivered EXCEPT ![m] = @ \o items]
    /\ \A n \in Member : Agree(delivered'[m], delivered[n])

Next == \E m \in Member, items \in BoundedSeq(Item, Batch) : Deliver(m, items)

Spec == Init /\ [][Next]_delivered
=============================================================================
