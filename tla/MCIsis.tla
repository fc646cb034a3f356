------------------------------- MODULE MCIsis -------------------------------
(* Instances of Isis for TLC.                                              *)
EXTENDS Isis, TLC

CONSTANTS x, y, m1, m2

TwoNodes == {0, 1}
ThreeNodes == {0, 1, 2}

\* The first message comes from node 0, others from the node named.
OneFromEach == [m \in Message |-> IF m = m1 THEN 0 ELSE 1]
AllFromOne == [m \in Message |-> 0]

\* The one moves what the other brings.
DepositAndTransfer ==
    [m \in Message |->
        IF m = m1
        THEN [type |-> "DEPOSIT", source |-> x, target |-> x, amount |-> 2]
        ELSE [type |-> "TRANSFER", source |-> x, target |-> y, amount |-> 1]]
=============================================================================
