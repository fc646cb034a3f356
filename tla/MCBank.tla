------------------------------- MODULE MCBank -------------------------------
(* Instances of Bank for TLC: branches and account names are               *)
(* interchangeable.                                                        *)
EXTENDS Bank, TLC

Symmetry == Permutations(Branch) \cup Permutations(Account)

AnyCommand == [t \in Tx |-> {"DEPOSIT", "WITHDRAW", "BALANCE"}]

\* One opens accounts; of two others that read, the older writes too.  With
\* one reader alone an abort would never find more reads than accounts, and
\* every abort of a reader would panic.
OpenWriteRead ==
    <<{"DEPOSIT"}, {"DEPOSIT", "WITHDRAW", "BALANCE"}, {"BALANCE"}>>
=============================================================================
