------------------------------- MODULE MCRaft -------------------------------
(* Instances of Raft for TLC: the peers and the call slots are             *)
(* interchangeable.                                                        *)
EXTENDS RaftTimely, TLC

Symmetry == Permutations(Server) \cup Permutations(CallId)
=============================================================================
