----------------------------- MODULE RaftTimers -----------------------------
(***************************************************************************)
(* The maintain goroutine of one Raft peer and its two timers              *)
(* (mp2/src/raft/raft.go): whether a peer that nothing reaches goes on     *)
(* campaigning, and a leader goes on sending heartbeats.  Terms, votes and *)
(* logs are in module Raft; here the RPCs are whatever resets or stops a   *)
(* timer, and come at most MaxEvents times, so that in the end the peer is *)
(* left alone.                                                             *)
(*                                                                         *)
(* A time.Timer is "on" until it expires and then puts a tick in its       *)
(* channel.  Stop does not take the tick out again; resetTimer does.       *)
(***************************************************************************)
EXTENDS Naturals

CONSTANT MaxEvents      \* bound: how many RPCs reach the peer

ASSUME EventsAssumption == MaxEvents \in Nat

VARIABLES
    state,          \* LEADER, CANDIDATE or FOLLOWER
    pc,             \* where maintain is: before its test of state, in the
                    \* select of handleLeader, past it, before
                    \* checkElectionTimeout, or before startElection
    electionTimer,
    heartBeatTimer,
    winning,        \* sendvote goroutines about to call TurnLeader
    beginning,      \* TurnLeader calls that have unlocked, and have yet to
                    \* reset the heartBeatTimer
    events          \* how many RPCs have reached the peer

rpcVars == <<winning, beginning, events>>
vars == <<state, pc, electionTimer, heartBeatTimer, rpcVars>>

Timer == [on : BOOLEAN, tick : BOOLEAN]

Stopped(timer) == [timer EXCEPT !.on = FALSE]

\* resetTimer: Stop, drain and Reset.
resetTimer == [on |-> TRUE, tick |-> FALSE]

Expired(timer) == [on |-> FALSE, tick |-> TRUE]
Taken(timer) == [timer EXCEPT !.tick = FALSE]

\* Make
Init ==
    /\ state = "FOLLOWER"
    /\ pc = "test"
    /\ electionTimer = [on |-> TRUE, tick |-> FALSE]
    /\ heartBeatTimer = [on |-> TRUE, tick |-> FALSE]
    /\ winning = 0
    /\ beginning = 0
    /\ events = 0

-----------------------------------------------------------------------------
(***************************************************************************)
(* maintain                                                                *)
(***************************************************************************)
Test ==
    /\ pc = "test"
    /\ pc' = IF state = "LEADER" THEN "handleLeader" ELSE "check"
    /\ UNCHANGED <<state, electionTimer, heartBeatTimer, rpcVars>>

\* handleLeader receives from heartBeatTimer.C; there is no other case.
HeartBeatTick ==
    /\ pc = "handleLeader"
    /\ heartBeatTimer.tick
    /\ heartBeatTimer' = Taken(heartBeatTimer)
    /\ pc' = "beat"
    /\ UNCHANGED <<state, electionTimer, rpcVars>>

\* It sends the heartbeats, if the peer still leads, and resets the timer.
HeartBeat ==
    /\ pc = "beat"
    /\ heartBeatTimer' = resetTimer
    /\ pc' = "test"
    /\ UNCHANGED <<state, electionTimer, rpcVars>>

TurnCandidate ==
    /\ state' = "CANDIDATE"
    /\ electionTimer' = resetTimer
    /\ heartBeatTimer' = Stopped(heartBeatTimer)

CheckElectionTimeout ==
    /\ pc = "check"
    /\ \/ /\ electionTimer.tick
          /\ TurnCandidate
          /\ pc' = "startElection"
       \/ /\ ~electionTimer.tick
          /\ pc' = "test"
          /\ UNCHANGED <<state, electionTimer, heartBeatTimer>>
    /\ UNCHANGED rpcVars

StartElection ==
    /\ pc = "startElection"
    /\ pc' = "test"
    /\ UNCHANGED <<state, electionTimer, heartBeatTimer, rpcVars>>

-----------------------------------------------------------------------------
(***************************************************************************)
(* The other goroutines: the RPC handlers, sendvote and sendHeartBeat.     *)
(***************************************************************************)
Event ==
    /\ events < MaxEvents
    /\ events' = events + 1

\* TurnFollower, on a reply or a RequestVote of a newer term.
FollowerTimerOff ==
    /\ state # "FOLLOWER"
    /\ Event
    /\ state' = "FOLLOWER"
    /\ heartBeatTimer' = Stopped(heartBeatTimer)
    /\ UNCHANGED <<pc, electionTimer, winning, beginning>>
TurnFollower ==
    /\ state # "FOLLOWER"
    /\ Event
    /\ state' = "FOLLOWER"
    /\ heartBeatTimer' = Stopped(heartBeatTimer)
    /\ electionTimer' = resetTimer
    /\ UNCHANGED <<pc, winning, beginning>>

\* AppendEntries of a follower, or a vote granted by RequestVote to another
\* candidate: they only reset the electionTimer.  A leader may grant one too,
\* when TurnLeader came after TurnFollower had taken it to a newer term.
HeardOf ==
    /\ state # "CANDIDATE"
    /\ Event
    /\ electionTimer' = resetTimer
    /\ UNCHANGED <<state, pc, heartBeatTimer, winning, beginning>>

\* The last vote needed comes back to sendvote.
VoteReturned ==
    /\ state = "CANDIDATE"
    /\ Event
    /\ state' = "LEADER"
    /\ winning' = winning + 1
    /\ UNCHANGED <<pc, electionTimer, heartBeatTimer, beginning>>

\* TurnLeader up to its unlock.
TurnLeader ==
    /\ winning > 0
    /\ winning' = winning - 1
    /\ beginning' = beginning + 1
    /\ state' = "LEADER"
    /\ electionTimer' = Stopped(electionTimer)
    /\ UNCHANGED <<pc, heartBeatTimer, events>>

\* The end of TurnLeader, without the lock.
NoHeartBeat ==
    /\ beginning > 0
    /\ beginning' = beginning - 1
    /\ UNCHANGED <<state, pc, electionTimer, heartBeatTimer, winning, events>>
FirstHeartBeat ==
    /\ beginning > 0
    /\ beginning' = beginning - 1
    /\ heartBeatTimer' = resetTimer
    /\ UNCHANGED <<state, pc, electionTimer, winning, events>>

\* The runtime: a timer expires.
ElectionTimerExpires ==
    /\ electionTimer.on
    /\ electionTimer' = Expired(electionTimer)
    /\ UNCHANGED <<state, pc, heartBeatTimer, rpcVars>>

HeartBeatTimerExpires ==
    /\ heartBeatTimer.on
    /\ heartBeatTimer' = Expired(heartBeatTimer)
    /\ UNCHANGED <<state, pc, electionTimer, rpcVars>>

Maintain ==
    \/ Test
    \/ HeartBeatTick
    \/ HeartBeat
    \/ CheckElectionTimeout
    \/ StartElection

Next ==
    \/ Maintain
    \/ TurnFollower
    \/ HeardOf
    \/ VoteReturned
    \/ TurnLeader
    \/ FirstHeartBeat
    \/ ElectionTimerExpires
    \/ HeartBeatTimerExpires

\* Goroutines that can run do run, and a timer that is on expires.
Fairness ==
    /\ WF_vars(Maintain)
    /\ WF_vars(TurnLeader)
    /\ WF_vars(FirstHeartBeat)
    /\ WF_vars(ElectionTimerExpires)
    /\ WF_vars(HeartBeatTimerExpires)

Spec == Init /\ [][Next]_vars /\ Fairness
-----------------------------------------------------------------------------
\* A leader that nothing reaches sends a round of heartbeats, again and
\* again, whatever the order in which TurnLeader, TurnFollower and
\* handleLeader stop, drain and reset the heartBeatTimer.
LeaderBeats ==
    \A n \in 0..MaxEvents :
        state = "LEADER" /\ events = n
            ~> pc = "beat" \/ state # "LEADER" \/ events # n

\* A peer that does not lead, whose maintain loop goes round and that
\* nothing reaches any more, starts an election: TurnLeader stops the
\* electionTimer, and every way back to follower has set it again.
LoopCampaigns ==
    \A n \in 0..MaxEvents :
        state # "LEADER" /\ pc = "test" /\ winning = 0 /\ events = n
            ~> pc = "startElection" \/ events # n

\* Every peer that does not lead and that nothing reaches any more starts an
\* election, as the tests expect of the peers that a leader has left
\* (test_test.go:61).  The code does not give it: a former leader may be in
\* handleLeader, waiting for a timer that TurnFollower has stopped.
Campaigns ==
    \A n \in 0..MaxEvents :
        state # "LEADER" /\ winning + beginning = 0 /\ events = n
            ~> pc = "startElection" \/ events # n
=============================================================================
