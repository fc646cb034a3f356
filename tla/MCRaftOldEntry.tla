--------------------------- MODULE MCRaftOldEntry ---------------------------
(***************************************************************************)
(* Five timely peers of which two lead in turn.  The instance is too large *)
(* for every behaviour.  Those are followed in which each candidate waits  *)
(* for the other to lead, one peer is never asked for its vote, the first  *)
(* two leaders are cut off before they replicate their command, no request *)
(* of an older term is answered, no heartbeat is lost, and of all calls    *)
(* but requests for votes one is under way at a time.  All of them are     *)
(* behaviours of TimelySpec.                                               *)
(***************************************************************************)
EXTENDS RaftTimely, TLC

CONSTANTS
    Odd, Even,  \* who campaigns in odd and in even terms
    Apart       \* whom no request for a vote reaches

Latest == Max({currentTerm[i] : i \in Server})

Led(t) == \E i \in Server : state[i] = "LEADER" /\ currentTerm[i] = t

TakeTurns ==
    \A i \in Server :
        electing'[i] /\ ~electing[i] =>
            /\ i = IF currentTerm[i] % 2 = 0 THEN Odd ELSE Even
            /\ Latest = 0 \/ Led(currentTerm[i])

CutOff ==
    \A m \in calls' \ calls :
        /\ m.term = Latest'
        /\ m.kind = "AppendEntries" => m.term > 2 /\ m.dst \notin {Odd, Even}
        /\ m.kind = "RequestVoteReply" => m.dst # Apart

OneAtATime ==
    \A m, n \in calls' :
        m.kind = "RequestVote" \/ n.kind = "RequestVote" \/ m = n

NoLoss == \A m \in HeartBeats : ~Lose(m)

OldEntryNext == TimelyNext /\ TakeTurns /\ CutOff /\ OneAtATime /\ NoLoss
OldEntrySpec == Init /\ [][OldEntryNext]_vars

OldEntrySymmetry == Permutations(Server \ {Odd, Even, Apart})
=============================================================================
