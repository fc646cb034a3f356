---------------------------- MODULE AtomicCommit ----------------------------
(***************************************************************************)
(* What a distributed transaction promises, whatever the messages: its     *)
(* branches end alike.  A branch may take it back at any time before one   *)
(* of them has committed it, and commits it once all have agreed to.       *)
(***************************************************************************)
CONSTANTS Tx, Branch

VARIABLE outcome    \* outcome[t][b]: what branch b has made of transaction t

Init == outcome = [t \in Tx |-> [b \in Branch |-> "working"]]

Become(t, b, end) == outcome' = [outcome EXCEPT ![t][b] = end]

Agree(t, b) ==
    /\ outcome[t][b] = "working"
    /\ Become(t, b, "prepared")

Commit(t, b) ==
    /\ outcome[t][b] = "prepared"
    /\ \A c \in Branch : outcome[t][c] \in {"prepared", "committed"}
    /\ Become(t, b, "committed")

TakeBack(t, b) ==
    /\ \A c \in Branch : outcome[t][c] # "committed"
    /\ Become(t, b, "aborted")

Next == \E t \in Tx, b \in Branch : Agree(t, b) \/ Commit(t, b) \/ TakeBack(t, b)

Spec == Init /\ [][Next]_outcome
=============================================================================
