----------------------------- MODULE RaftTimely -----------------------------
(***************************************************************************)
(* Module Raft in an environment that is quick enough for the checks that  *)
(* raft.go leaves out.  Nothing of the peer changes; Assumed says which of *)
(* three things that labrpc and the Go scheduler may do are excluded:      *)
(*                                                                         *)
(*   OnTime   a reply that comes back after its caller has moved to        *)
(*            another term is lost: Call has timed out by then;            *)
(*   Settled  where sendvote unlocks and TurnLeader locks, and likewise    *)
(*            between maintain, checkElectionTimeout and startElection, no *)
(*            other goroutine of the peer gets the lock;                   *)
(*   Fresh    the success of a heartbeat that Start has overtaken, so that *)
(*            its entries no longer end where the leader's log does, is    *)
(*            lost.                                                        *)
(*                                                                         *)
(* Commands come at any time, and any number of heartbeats to a peer may   *)
(* be under way.  Nor is a peer killed, which the tester does only when a  *)
(* test is over.                                                           *)
(***************************************************************************)
EXTENDS Raft

CONSTANT Assumed

ASSUME AssumedAssumption ==
    Assumed \subseteq {"OnTime", "Settled", "Fresh"}

OnTime(m) ==
    "OnTime" \in Assumed => m.term = currentTerm[m.src]

Settled(i) ==
    "Settled" \in Assumed => winning[i] = 0 /\ ~electing[i]

Late == IF "Settled" \in Assumed THEN {FALSE} ELSE BOOLEAN

Fresh(m) ==
    "Fresh" \in Assumed /\ m.success => m.last = Len(log[m.src])

TimelyNext ==
    \/ \E i \in Server :
          \/ ElectionTimeout(i)
          \/ StartElection(i)
          \/ \E late \in Late : TurnLeader(i, late)
          \/ \E v \in Value : Settled(i) /\ Start(i, v)
          \/ \E j \in Server, id \in CallId :
                Settled(i) /\ SendHeartBeat(i, j, id)
    \/ \E m \in calls :
          \/ Settled(m.dst) /\ RequestVote(m)
          \/ \E late \in Late :
                Settled(m.src) /\ OnTime(m) /\ VoteReturned(m, late)
          \/ Settled(m.dst) /\ AppendEntries(m)
          \/ Settled(m.src) /\ OnTime(m) /\ HeartBeatReturned(m) /\ Fresh(m)
          \/ Lose(m)

TimelySpec == Init /\ [][TimelyNext]_vars

-----------------------------------------------------------------------------
\* Two logs that hold an entry of the same term at the same index are equal
\* up to it: what AppendEntries' check of PrevLogTerm is for.
LogMatching ==
    \A i, j \in Server :
        \A k \in 1..Len(log[i]) :
            k <= Len(log[j]) /\ log[i][k].term = log[j][k].term =>
                \A n \in 1..k : log[i][n] = log[j][n]

\* What a peer has applied is still at the head of its log, and at the head
\* of the log of every leader of the peer's term or a later one: no election
\* loses a committed entry.
LeaderCompleteness ==
    \A i, j \in Server :
        i = j \/ (state[j] = "LEADER" /\ currentTerm[j] >= currentTerm[i]) =>
            /\ Len(applied[i]) <= Len(log[j])
            /\ \A k \in 1..Len(applied[i]) : log[j][k] = applied[i][k]

\* The peers apply one log: whatever AppendEntries cuts and elections undo,
\* what each peer has sent on applyCh only grows, without gaps, and where two
\* peers have both sent something it is the same.
Log == INSTANCE AgreedOrder
           WITH Member <- Server, Item <- Entry, Batch <- MaxLog,
                delivered <- applied

AppliesOneLog == Log!Spec

\* With one heartbeat call at a time, no step indexes rf.log out of range:
\* nextIndex never falls to 0 or passes the end of the leader's log, and the
\* commit index that AppendEntries bounds by len(rf.log), one too many, never
\* reaches that bound.
NoPanic == \A i \in Server : dead[i] # "panic"

\* With any number of calls, two that are refused may lower nextIndex for the
\* same entry.  A panic comes from nowhere else: its peer's nextIndex for some
\* follower has fallen to 0.
PanicsOnlyRefused ==
    \A i \in Server :
        dead[i] = "panic" => \E j \in Server : nextIndex[i][j] < 1
=============================================================================
