------------------------- MODULE RaftElectionProofs -------------------------
(***************************************************************************)
(* What is proved about the elections of module Raft and the logs of the   *)
(* leaders they bring, for every number of peers and terms, however many   *)
(* heartbeats and commands there are and however old a piece of a log a    *)
(* heartbeat carries.  Two of the assumptions of RaftTimely are enough for *)
(* ElectionSafety and LogMatching; that a leader won an election needs     *)
(* none of them.                                                           *)
(***************************************************************************)
EXTENDS RaftTimely, RaftProofs, FiniteSetTheorems

TimelyElections == "OnTime" \in Assumed /\ "Settled" \in Assumed

\* Peer j has voted for i in term t: the vote is counted, or on its way.
Granted(j, i, t) ==
    \/ j \in voters[i][t]
    \/ \E m \in calls : /\ m.kind = "RequestVoteReply" /\ m.voteGranted
                        /\ m.src = i /\ m.dst = j /\ m.term = t

\* A peer that is no follower has its own vote; nothing happens to it between
\* sendvote and TurnLeader, or checkElectionTimeout and startElection.
Standing(i) ==
    /\ state[i] # "FOLLOWER" => votedFor[i] = i
    /\ winning[i] > 0 => state[i] = "LEADER"
    /\ electing[i] => state[i] = "CANDIDATE"
    /\ ~checking[i]

\* A vote for another peer is remembered for as long as the term lasts: only
\* a candidate or leader that steps down forgets one, and it is its own.
VotesKept ==
    \A i, j \in Server, t \in Term :
        j # i /\ Granted(j, i, t) =>
            \/ currentTerm[j] > t
            \/ currentTerm[j] = t /\ votedFor[j] = i /\ state[j] = "FOLLOWER"

\* No peer votes for two others in one term.
OneVote ==
    \A i, j, k \in Server, t \in Term :
        k # i /\ k # j /\ Granted(k, i, t) /\ Granted(k, j, t) => i = j

\* A leader was elected in the term it is in.
Elected ==
    \A i \in Server :
        state[i] = "LEADER" => Majority(voters[i][currentTerm[i]])

\* Nobody asks itself for a vote.
AsksOthers == \A m \in calls : m.kind = "RequestVote" => m.src # m.dst

\* The inductive strengthening of ElectionSafety.
ElectionInv ==
    /\ TypeInv
    /\ \A i \in Server : Standing(i)
    /\ VotesKept
    /\ OneVote
    /\ Elected
    /\ AsksOthers

-----------------------------------------------------------------------------
(***************************************************************************)
(* What one step of a timely group does to a peer.                         *)
(***************************************************************************)
\* The peer is left alone, or does not change its part in the election.
Stays(j) ==
    /\ state'[j] = state[j]
    /\ currentTerm'[j] = currentTerm[j]
    /\ votedFor'[j] = votedFor[j]
    /\ checking'[j] = checking[j]
    /\ electing'[j] => electing[j]
    /\ winning'[j] > 0 => winning[j] > 0
    /\ state[j] = "LEADER" => voters'[j] = voters[j]

Campaigns(j) ==
    /\ state[j] # "LEADER"
    /\ state'[j] = "CANDIDATE"
    /\ currentTerm'[j] = currentTerm[j] + 1
    /\ votedFor'[j] = j
    /\ ~checking'[j]
    /\ winning'[j] = winning[j]

StepsDown(j) ==
    /\ state'[j] = "FOLLOWER"
    /\ \/ currentTerm'[j] > currentTerm[j]
       \/ currentTerm'[j] = currentTerm[j] /\ state[j] # "FOLLOWER"
    /\ ~checking'[j]
    /\ winning'[j] = 0 /\ ~electing'[j]

Votes(j) ==
    /\ state[j] = "FOLLOWER" /\ state'[j] = "FOLLOWER"
    /\ currentTerm'[j] = currentTerm[j]
    /\ votedFor[j] \in {NULL, votedFor'[j]}
    /\ ~checking'[j]
    /\ winning'[j] = 0 /\ ~electing'[j]

Wins(j) ==
    /\ state[j] = "CANDIDATE" /\ state'[j] = "LEADER"
    /\ currentTerm'[j] = currentTerm[j]
    /\ votedFor'[j] = votedFor[j]
    /\ Majority(voters'[j][currentTerm[j]])
    /\ ~checking'[j]
    /\ ~electing'[j]

PeerStep(j) == Stays(j) \/ Campaigns(j) \/ StepsDown(j) \/ Votes(j) \/ Wins(j)

\* The timely group does nothing that module Raft does not.
LEMMA TimelyIsRaft == TimelyNext => Next
<1>1. Late \subseteq BOOLEAN
  BY DEF Late
<1> QED BY <1>1 DEF TimelyNext, Next

\* The types of what an election is about.
LEMMA ElectionTypes ==
    ASSUME TypeInv
    PROVE  /\ state \in [Server -> {"LEADER", "CANDIDATE", "FOLLOWER"}]
           /\ currentTerm \in [Server -> Nat]
           /\ votedFor \in [Server -> Server \cup {NULL}]
           /\ checking \in [Server -> BOOLEAN]
           /\ electing \in [Server -> BOOLEAN]
           /\ voters \in [Server -> [Term -> SUBSET Server]]
           /\ winning \in [Server -> Nat]
BY BoundAssumption DEF TypeInv, TypeOK

\* Terms are compared.
LEMMA TermOrder ==
    ASSUME NEW a \in Nat, NEW b \in Nat, ~(a < b)
    PROVE  a >= b /\ (a > b \/ a = b)
OBVIOUS

\* RequestVote: a follower may vote, any peer may learn of a newer term.
LEMMA RequestVoteStep ==
    ASSUME TimelyElections, ElectionInv, NEW m \in calls, Settled(m.dst),
           RequestVote(m), NEW j \in Server
    PROVE  PeerStep(j)
<1> USE ElectionTypes DEF ElectionInv
<1>1. m.dst \in Server /\ m.src \in Server /\ m.term \in Nat /\ m.src # m.dst
  BY CallKinds, BoundAssumption DEF TypeInv, Term, AsksOthers, RequestVote
<1>2. winning[m.dst] = 0 /\ ~electing[m.dst]
  BY DEF Settled, TimelyElections
<1>3. UNCHANGED <<electing, voters, winning>>
  BY DEF RequestVote, electionVars
<1>4. CASE Refused(m)
  <2>1. UNCHANGED peerVars
    BY <1>4 DEF RequestVote
  <2> QED BY <2>1, <1>3 DEF PeerStep, Stays, peerVars
<1>5. CASE ~Refused(m)
  <2> DEFINE i == m.dst
             newer == m.term > currentTerm[i]
  <2>1. PICK v : votedFor' = [votedFor EXCEPT ![i] = v]
                    /\ v \in {m.src, IF newer THEN NULL ELSE votedFor[i]}
    BY <1>5, Zenon DEF RequestVote
  <2>2. /\ currentTerm' = [currentTerm EXCEPT ![i] = m.term]
        /\ state' = [state EXCEPT ![i] = IF newer THEN "FOLLOWER" ELSE @]
        /\ checking' = [checking EXCEPT ![i] = IF newer THEN FALSE ELSE @]
    BY <1>5, Zenon DEF RequestVote
  <2>3. CASE j # i
    BY <1>1, <1>3, <2>1, <2>2, <2>3 DEF PeerStep, Stays
  <2>4. CASE j = i /\ newer
    BY <1>1, <1>2, <1>3, <2>2, <2>4 DEF PeerStep, StepsDown
  <2>5. CASE j = i /\ ~newer
    <3>0. currentTerm[i] \in Nat
      BY <1>1
    <3>1. m.term = currentTerm[i] /\ votedFor[i] \in {NULL, m.src}
      <4>1. ~(m.term < currentTerm[i]) /\ ~(m.term > currentTerm[i])
        BY <1>5, <2>5 DEF Refused
      <4>2. m.term = currentTerm[i]
        BY <1>1, <3>0, <4>1, TermOrder, Zenon
      <4> QED BY <1>5, <4>2 DEF Refused
    <3>2. state[i] = "FOLLOWER" /\ ~checking[i]
      BY <1>1, <3>1, NullAssumption DEF Standing
    <3>3. votedFor'[i] = v /\ v \in {m.src, votedFor[i]}
      BY <1>1, <2>1, <2>5
    <3> QED BY <1>1, <1>2, <1>3, <2>2, <2>5, <3>1, <3>2, <3>3 DEF PeerStep, Votes
  <2> QED BY <2>3, <2>4, <2>5
<1> QED BY <1>4, <1>5

\* AppendEntries: the peer steps down, learns of a newer term, or stays a
\* follower with the vote it has.
LEMMA AppendEntriesStep ==
    ASSUME TimelyElections, ElectionInv, NEW m \in calls, Settled(m.dst),
           AppendEntries(m), NEW j \in Server
    PROVE  PeerStep(j)
<1> USE ElectionTypes DEF ElectionInv
<1>1. m.dst \in Server /\ m.term \in Nat
  BY CallKinds, BoundAssumption DEF TypeInv, Term
<1>2. winning[m.dst] = 0 /\ ~electing[m.dst] /\ ~checking[m.dst]
  BY <1>1 DEF Settled, TimelyElections, Standing
<1>3. UNCHANGED <<electing, voters, winning>>
  BY DEF AppendEntries, electionVars
<1>4. CASE UNCHANGED peerVars
  BY <1>3, <1>4 DEF PeerStep, Stays, peerVars
<1>5. CASE Acknowledge(m)
  <2> DEFINE i == m.dst
             kept == ~(m.term > currentTerm[i] \/ state[i] # "FOLLOWER")
  <2>1. /\ state' = [state EXCEPT ![i] = "FOLLOWER"]
        /\ currentTerm' = [currentTerm EXCEPT ![i] = m.term]
        /\ checking' = [checking EXCEPT ![i] = FALSE]
        /\ m.term >= currentTerm[i]
    BY <1>5 DEF Acknowledge, TurnFollower
  <2>2. /\ votedFor' = [votedFor EXCEPT ![i] = votedFor'[i]]
        /\ kept => votedFor'[i] = votedFor[i]
    <3>1. PICK v : votedFor' = [votedFor EXCEPT ![i] = v]
                      /\ (kept => v = votedFor[i])
      BY <1>5, Zenon DEF Acknowledge, TurnFollower
    <3> QED BY <1>1, <3>1
  <2>3. CASE j # i
    BY <1>1, <1>3, <2>1, <2>2, <2>3 DEF PeerStep, Stays
  <2>4. /\ state'[i] = "FOLLOWER" /\ ~checking'[i]
        /\ currentTerm'[i] = m.term
        /\ winning'[i] = 0 /\ ~electing'[i]
    BY <1>1, <1>2, <1>3, <2>1
  <2>5. m.term > currentTerm[i] \/ m.term = currentTerm[i]
    <3>1. ~(m.term < currentTerm[i]) /\ currentTerm[i] \in Nat
      BY <1>1, <2>1
    <3> QED BY <1>1, <3>1, TermOrder, Zenon
  <2>6. CASE j = i /\ kept
    <3>1. currentTerm'[i] = currentTerm[i] /\ state[i] = "FOLLOWER"
      BY <2>4, <2>5, <2>6, Zenon
    <3> QED BY <2>2, <2>4, <2>6, <3>1 DEF PeerStep, Votes
  <2>7. CASE j = i /\ ~kept
    <3>1. \/ currentTerm'[i] > currentTerm[i]
          \/ currentTerm'[i] = currentTerm[i] /\ state[i] # "FOLLOWER"
      BY <2>4, <2>5, <2>7, Zenon
    <3> QED BY <2>4, <2>7, <3>1 DEF PeerStep, StepsDown
  <2> QED BY <2>3, <2>6, <2>7
<1> QED BY <1>4, <1>5 DEF AppendEntries, AppendRefused, AppendMismatch, AppendAccepted

\* A reply of a newer term, to sendvote or sendHeartBeat.
LEMMA NewTermStep ==
    ASSUME TimelyElections, ElectionInv, NEW i \in Server, Settled(i),
           NEW t \in Nat, t > currentTerm[i], TurnFollower(i, t, NULL),
           UNCHANGED <<electing, voters, winning>>, NEW j \in Server
    PROVE  PeerStep(j)
<1> USE ElectionTypes DEF ElectionInv
<1>1. winning[i] = 0 /\ ~electing[i]
  BY DEF Settled, TimelyElections
<1>2. CASE j # i
  BY <1>2 DEF PeerStep, Stays, TurnFollower
<1>3. CASE j = i
  BY <1>1, <1>3 DEF PeerStep, StepsDown, TurnFollower
<1> QED BY <1>2, <1>3

\* sendvote counts a vote of the term the candidate is still in.
LEMMA VoteReturnedStep ==
    ASSUME TimelyElections, ElectionInv, NEW m \in calls, NEW late \in Late,
           Settled(m.src), OnTime(m), VoteReturned(m, late), NEW j \in Server
    PROVE  PeerStep(j)
<1> USE ElectionTypes DEF ElectionInv
<1> DEFINE i == m.src
           counted == voters[i][m.term] \cup {m.dst}
<1>1. i \in Server /\ m.dst \in Server /\ m.term \in Term /\ m.replyTerm \in Nat
  BY CallKinds, BoundAssumption DEF TypeInv, VoteReturned, VoteReply
<1>2. /\ winning[i] = 0 /\ ~electing[i] /\ ~checking[i] /\ ~late
      /\ m.term = currentTerm[i]
  BY <1>1 DEF Settled, OnTime, Late, TimelyElections, Standing
<1>3. UNCHANGED electing
  BY DEF VoteReturned
<1>4. CASE UNCHANGED <<peerVars, voters, winning>>
  BY <1>3, <1>4 DEF PeerStep, Stays, peerVars
<1>5. CASE /\ m.replyTerm > currentTerm[i] /\ TurnFollower(i, m.replyTerm, NULL)
           /\ UNCHANGED <<voters, winning>>
  BY <1>1, <1>3, <1>5, NewTermStep
<1>6. CASE /\ state[i] = "CANDIDATE"
           /\ voters' = [voters EXCEPT ![i][m.term] = counted]
           /\ IF Majority(counted)
              THEN Lead(i, late) /\ winning' = [winning EXCEPT ![i] = @ + 1]
              ELSE UNCHANGED <<state, checking, winning>>
           /\ UNCHANGED <<currentTerm, votedFor>>
  <2>1. voters'[i][m.term] = counted /\ (j # i => voters'[j] = voters[j])
    BY <1>1, <1>6
  <2>2. CASE Majority(counted)
    <3>1. /\ state' = [state EXCEPT ![i] = "LEADER"]
          /\ checking' = [checking EXCEPT ![i] = late]
          /\ winning' = [winning EXCEPT ![i] = @ + 1]
      BY <1>6, <2>2 DEF Lead
    <3>2. CASE j # i
      BY <1>1, <1>3, <1>6, <2>1, <3>1, <3>2 DEF PeerStep, Stays
    <3>3. CASE j = i
      <4>1. Majority(voters'[j][currentTerm[j]])
        BY <1>2, <2>1, <2>2, <3>3
      <4> QED BY <1>1, <1>2, <1>3, <1>6, <3>1, <3>3, <4>1 DEF PeerStep, Wins
    <3> QED BY <3>2, <3>3
  <2>3. CASE ~Majority(counted)
    BY <1>1, <1>3, <1>6, <2>1, <2>3 DEF PeerStep, Stays
  <2> QED BY <2>2, <2>3
<1> QED BY <1>4, <1>5, <1>6 DEF VoteReturned

\* Every step of a timely group is one of these for every peer.
LEMMA PeerSteps ==
    ASSUME TimelyElections, ElectionInv, TimelyNext, NEW j \in Server
    PROVE  PeerStep(j)
<1> USE ElectionTypes DEF ElectionInv
<1>1. ASSUME NEW i \in Server, ElectionTimeout(i)
      PROVE  PeerStep(j)
  <2>1. state[i] # "LEADER"
    BY <1>1 DEF ElectionTimeout, Standing
  <2>2. CASE j # i
    BY <1>1, <2>2 DEF ElectionTimeout, PeerStep, Stays
  <2>3. CASE j = i
    BY <1>1, <2>1, <2>3 DEF ElectionTimeout, PeerStep, Campaigns
  <2> QED BY <2>2, <2>3
<1>2. ASSUME NEW i \in Server, StartElection(i)
      PROVE  PeerStep(j)
  <2>1. state[i] = "CANDIDATE" /\ currentTerm[i] \in Term
    BY <1>2 DEF StartElection, Standing, TypeInv, InATerm
  <2>2. UNCHANGED <<peerVars, winning>> /\ (electing'[j] => electing[j])
    BY <1>2 DEF StartElection
  <2>3. j # i => voters'[j] = voters[j]
    BY <1>2, <2>1 DEF StartElection, NewCount
  <2> QED BY <2>1, <2>2, <2>3 DEF PeerStep, Stays, peerVars
<1>3. ASSUME NEW i \in Server, NEW late \in Late, TurnLeader(i, late)
      PROVE  PeerStep(j)
  <2>1. state[i] = "LEADER"
    BY <1>3 DEF TurnLeader, Standing
  <2>2. state' = state /\ checking' = checking
    BY <1>3, <2>1 DEF TurnLeader, Lead
  <2>3. winning'[j] > 0 => winning[j] > 0
    BY <1>3 DEF TurnLeader
  <2> QED BY <1>3, <2>2, <2>3 DEF TurnLeader, PeerStep, Stays
<1>4. ASSUME NEW m \in calls, Settled(m.src), HeartBeatReturned(m)
      PROVE  PeerStep(j)
  <2>1. m.src \in Server /\ m.replyTerm \in Nat
    BY <1>4, CallKinds, BoundAssumption DEF TypeInv, HeartBeatReturned, AppendReply
  <2>2. UNCHANGED <<electing, voters, winning>>
    BY <1>4 DEF HeartBeatReturned, electionVars
  <2>3. \/ UNCHANGED peerVars
        \/ m.replyTerm > currentTerm[m.src] /\ TurnFollower(m.src, m.replyTerm, NULL)
    BY <1>4 DEF HeartBeatReturned
  <2>4. CASE UNCHANGED peerVars
    BY <2>2, <2>4 DEF PeerStep, Stays, peerVars
  <2> QED BY <1>4, <2>1, <2>2, <2>3, <2>4, NewTermStep
<1>5. ASSUME UNCHANGED <<peerVars, electionVars>>
      PROVE  PeerStep(j)
  BY <1>5 DEF PeerStep, Stays, peerVars, electionVars
<1>6. ASSUME NEW i \in Server,
             \/ \E v \in Value : Start(i, v)
             \/ \E k \in Server, id \in CallId : SendHeartBeat(i, k, id)
      PROVE  PeerStep(j)
  BY <1>5, <1>6 DEF Start, SendHeartBeat
<1>7. ASSUME NEW m \in calls, Lose(m)
      PROVE  PeerStep(j)
  BY <1>5, <1>7 DEF Lose
<1> QED BY <1>1, <1>2, <1>3, <1>4, <1>6, <1>7, RequestVoteStep, AppendEntriesStep,
           VoteReturnedStep DEF TimelyNext

-----------------------------------------------------------------------------
(***************************************************************************)
(* Where votes come from.                                                  *)
(***************************************************************************)
\* The peer m.dst answers the request m, and gives its vote.
Grants(m) ==
    /\ RequestVote(m) /\ Settled(m.dst) /\ ~Refused(m)
    /\ UpToDate(m, log[m.dst])
    /\ currentTerm'[m.dst] = m.term
    /\ votedFor'[m.dst] = m.src

\* A call that was not there before the step is a heartbeat, a request to
\* another peer, or the answer to a request.
NewCall(r) ==
    \/ r.kind \in {"AppendEntries", "AppendEntriesReply"}
    \/ r.kind = "RequestVote" /\ r.src # r.dst
    \/ /\ r.kind = "RequestVoteReply"
       /\ \E m \in calls : /\ m.src = r.src /\ m.dst = r.dst /\ m.term = r.term
                           /\ m.kind = "RequestVote"
                           /\ r.voteGranted => Grants(m)

LEMMA CallsOrigin ==
    ASSUME TypeInv, TimelyNext, NEW r \in calls', r \notin calls
    PROVE  NewCall(r)
<1>1. ASSUME NEW i \in Server, StartElection(i)
      PROVE  NewCall(r)
  <2>1. PICK j \in Server \ {i} :
            r = [kind |-> "RequestVote", src |-> i, dst |-> j,
                 term |-> currentTerm[i], lastLogIndex |-> Len(log[i]),
                 lastLogTerm |-> LastTerm(log[i])]
    BY <1>1 DEF StartElection
  <2> QED BY <2>1 DEF NewCall
<1>2. ASSUME NEW i \in Server, NEW j \in Server, NEW id \in CallId,
             SendHeartBeat(i, j, id)
      PROVE  NewCall(r)
  <2>1. r.kind = "AppendEntries"
    BY <1>2 DEF SendHeartBeat
  <2> QED BY <2>1 DEF NewCall
<1>3. ASSUME NEW m \in calls, AppendEntries(m)
      PROVE  NewCall(r)
  <2>1. r.kind = "AppendEntriesReply"
    BY <1>3 DEF AppendEntries, AppendRefused, AppendMismatch, AppendAccepted,
                AppendAnswer, Answer, Finish
  <2> QED BY <2>1 DEF NewCall
<1>4. ASSUME NEW m \in calls, RequestVote(m), Settled(m.dst)
      PROVE  NewCall(r)
  <2> DEFINE granted == ~Refused(m) /\ UpToDate(m, log[m.dst])
  <2>1. m.dst \in Server /\ m.kind = "RequestVote"
    BY <1>4, CallKinds DEF TypeInv, RequestVote
  <2>2. r = [kind |-> "RequestVoteReply", src |-> m.src, dst |-> m.dst,
             term |-> m.term, replyTerm |-> currentTerm'[m.dst],
             voteGranted |-> granted]
    BY <1>4 DEF RequestVote, Answer
  <2>3. granted => /\ currentTerm' = [currentTerm EXCEPT ![m.dst] = m.term]
                   /\ votedFor' = [votedFor EXCEPT ![m.dst] = m.src]
    BY <1>4, Zenon DEF RequestVote
  <2>4. granted => Grants(m)
    BY <1>4, <2>1, <2>3, ElectionTypes DEF Grants
  <2> HIDE DEF granted
  <2>5. r.kind = "RequestVoteReply" /\ (r.voteGranted => Grants(m))
    BY <2>2, <2>4
  <2> QED BY <2>1, <2>2, <2>5 DEF NewCall
<1>5. ASSUME calls' \subseteq calls
      PROVE  NewCall(r)
  BY <1>5
<1>6. ASSUME NEW i \in Server,
             \/ ElectionTimeout(i)
             \/ \E late \in Late : TurnLeader(i, late)
             \/ \E v \in Value : Start(i, v)
      PROVE  NewCall(r)
  BY <1>5, <1>6 DEF ElectionTimeout, TurnLeader, Start
<1>7. ASSUME NEW m \in calls,
             \/ \E late \in Late : VoteReturned(m, late)
             \/ HeartBeatReturned(m)
             \/ Lose(m)
      PROVE  NewCall(r)
  BY <1>5, <1>7 DEF VoteReturned, HeartBeatReturned, Lose, Finish
<1> QED BY <1>1, <1>2, <1>3, <1>4, <1>6, <1>7 DEF TimelyNext

\* voteNum grows by the candidate's own vote and by granted replies.
LEMMA VotersOrigin ==
    ASSUME TypeInv, TimelyNext, NEW i \in Server, NEW k \in Server, NEW t \in Term,
           k # i, k \in voters'[i][t]
    PROVE  Granted(k, i, t)
<1> USE ElectionTypes
<1>1. ASSUME NEW c \in Server, StartElection(c)
      PROVE  Granted(k, i, t)
  <2>1. currentTerm[c] \in Term
    BY <1>1 DEF StartElection, TypeInv, InATerm
  <2>2. voters' = voters \/ voters' = [voters EXCEPT ![c][currentTerm[c]] = {c}]
    BY <1>1 DEF StartElection, NewCount
  <2>3. voters'[i][t] = voters[i][t] \/ (c = i /\ voters'[i][t] = {c})
    <3>1. CASE voters' = voters
      BY <3>1
    <3>2. CASE voters' = [voters EXCEPT ![c][currentTerm[c]] = {c}]
      <4>1. c # i => voters'[i] = voters[i]
        BY <3>2
      <4>2. voters'[c] = [voters[c] EXCEPT ![currentTerm[c]] = {c}]
        BY <3>2
      <4>3. voters'[c][t] = voters[c][t] \/ voters'[c][t] = {c}
        BY <2>1, <4>2
      <4> QED BY <4>1, <4>3
    <3> QED BY <2>2, <3>1, <3>2
  <2> QED BY <2>3 DEF Granted
<1>2. ASSUME NEW m \in calls, NEW late \in Late, VoteReturned(m, late)
      PROVE  Granted(k, i, t)
  <2>1. m.src \in Server /\ m.term \in Term /\ m.kind = "RequestVoteReply"
    BY <1>2, CallKinds DEF TypeInv, VoteReturned
  <2>2. CASE UNCHANGED voters
    BY <2>2 DEF Granted
  <2>3. CASE /\ m.voteGranted
             /\ voters' = [voters EXCEPT ![m.src][m.term] =
                              voters[m.src][m.term] \cup {m.dst}]
    <3>1. k \in voters[i][t] \/ (m.src = i /\ m.term = t /\ m.dst = k)
      BY <2>1, <2>3
    <3> QED BY <2>1, <2>3, <3>1 DEF Granted
  <2> QED BY <1>2, <2>2, <2>3 DEF VoteReturned
<1>3. ASSUME UNCHANGED voters
      PROVE  Granted(k, i, t)
  BY <1>3 DEF Granted
<1>4. ASSUME NEW c \in Server,
             \/ ElectionTimeout(c)
             \/ \E late \in Late : TurnLeader(c, late)
             \/ \E v \in Value : Start(c, v)
             \/ \E j \in Server, id \in CallId : SendHeartBeat(c, j, id)
      PROVE  Granted(k, i, t)
  BY <1>3, <1>4 DEF ElectionTimeout, TurnLeader, Start, SendHeartBeat, electionVars
<1>5. ASSUME NEW m \in calls,
             RequestVote(m) \/ AppendEntries(m) \/ HeartBeatReturned(m) \/ Lose(m)
      PROVE  Granted(k, i, t)
  BY <1>3, <1>5 DEF RequestVote, AppendEntries, HeartBeatReturned, Lose, electionVars
<1> QED BY <1>1, <1>2, <1>4, <1>5 DEF TimelyNext

\* A vote for another peer was there before the step, or is given by it.
LEMMA GrantedOrigin ==
    ASSUME TypeInv, TimelyNext, NEW i \in Server, NEW k \in Server, NEW t \in Term,
           k # i, Granted(k, i, t)'
    PROVE  \/ Granted(k, i, t)
           \/ \E m \in calls : /\ m.src = i /\ m.dst = k /\ m.term = t
                               /\ Grants(m)
<1>1. CASE k \in voters'[i][t]
  BY <1>1, VotersOrigin
<1>2. CASE \E r \in calls' : /\ r.kind = "RequestVoteReply" /\ r.voteGranted
                             /\ r.src = i /\ r.dst = k /\ r.term = t
  <2>1. PICK r \in calls' : /\ r.kind = "RequestVoteReply" /\ r.voteGranted
                            /\ r.src = i /\ r.dst = k /\ r.term = t
    BY <1>2
  <2>2. CASE r \in calls
    BY <2>1, <2>2 DEF Granted
  <2>3. CASE r \notin calls
    <3>1. NewCall(r)
      BY <2>3, CallsOrigin
    <3> QED BY <2>1, <3>1 DEF NewCall
  <2> QED BY <2>2, <2>3
<1> QED BY <1>1, <1>2 DEF Granted

-----------------------------------------------------------------------------
(***************************************************************************)
(* The election invariant is inductive.                                    *)
(***************************************************************************)
LEMMA ElectionInvInit == Init => ElectionInv
<1> SUFFICES ASSUME Init PROVE ElectionInv
  OBVIOUS
<1>1. \A i, j \in Server, t \in Term : ~Granted(j, i, t)
  BY DEF Init, Granted
<1>2. \A i \in Server : Standing(i)
  BY DEF Init, Standing
<1> QED BY <1>1, <1>2, TypeInvInit DEF ElectionInv, Init, VotesKept, OneVote, Elected,
                                       AsksOthers

LEMMA StandingStep ==
    ASSUME TimelyElections, ElectionInv, TimelyNext, TypeInv', NEW j \in Server
    PROVE  Standing(j)' /\ (state'[j] = "LEADER" => Majority(voters'[j][currentTerm'[j]]))
<1> USE ElectionTypes
<1>1. Standing(j) /\ (state[j] = "LEADER" => Majority(voters[j][currentTerm[j]]))
  BY DEF ElectionInv, Elected
<1>2. PeerStep(j)
  BY PeerSteps
<1>3. CASE Stays(j)
  BY <1>1, <1>3 DEF Stays, Standing
<1>4. CASE Campaigns(j)
  BY <1>1, <1>4 DEF Campaigns, Standing
<1>5. CASE StepsDown(j) \/ Votes(j)
  BY <1>5 DEF StepsDown, Votes, Standing
<1>6. CASE Wins(j)
  BY <1>1, <1>6 DEF Wins, Standing
<1> QED BY <1>2, <1>3, <1>4, <1>5, <1>6 DEF PeerStep

\* A peer that gives its vote becomes or stays a follower.
LEMMA GrantedByFollower ==
    ASSUME TimelyElections, ElectionInv, TimelyNext, TypeInv', NEW m \in calls, Grants(m)
    PROVE  state'[m.dst] = "FOLLOWER"
<1> USE ElectionTypes
<1>1. m.dst \in Server /\ m.src # m.dst
  BY CallKinds DEF Grants, RequestVote, ElectionInv, TypeInv, AsksOthers
<1>2. Standing(m.dst)'
  BY <1>1, StandingStep
<1> QED BY <1>1, <1>2 DEF Grants, Standing

LEMMA VotesKeptStep ==
    ASSUME TimelyElections, ElectionInv, TimelyNext, TypeInv'
    PROVE  VotesKept'
<1> USE ElectionTypes, BoundAssumption DEF Term
<1> SUFFICES ASSUME NEW i \in Server, NEW j \in Server, NEW t \in Term,
                    j # i, Granted(j, i, t)'
             PROVE  \/ currentTerm'[j] > t
                    \/ currentTerm'[j] = t /\ votedFor'[j] = i /\ state'[j] = "FOLLOWER"
  BY DEF VotesKept
<1>1. CASE Granted(j, i, t)
  <2>1. \/ currentTerm[j] > t
        \/ currentTerm[j] = t /\ votedFor[j] = i /\ state[j] = "FOLLOWER"
    BY <1>1 DEF ElectionInv, VotesKept
  <2>2. PeerStep(j)
    BY PeerSteps
  <2>3. /\ currentTerm[j] \in Nat /\ currentTerm'[j] \in Nat /\ t \in Nat
        /\ i # NULL
    BY NullAssumption DEF TypeInv, TypeOK, ElectionInv
  <2>4. CASE Stays(j)
    BY <2>1, <2>4 DEF Stays
  <2>5. CASE Campaigns(j)
    BY <2>1, <2>3, <2>5 DEF Campaigns
  <2>6. CASE StepsDown(j)
    BY <2>1, <2>3, <2>6 DEF StepsDown
  <2>7. CASE Votes(j)
    BY <2>1, <2>3, <2>7 DEF Votes
  <2>8. CASE Wins(j)
    BY <2>1, <2>8 DEF Wins
  <2> QED BY <2>2, <2>4, <2>5, <2>6, <2>7, <2>8 DEF PeerStep
<1>2. CASE ~Granted(j, i, t)
  <2>1. PICK m \in calls : m.src = i /\ m.dst = j /\ m.term = t /\ Grants(m)
    BY <1>2, GrantedOrigin DEF ElectionInv
  <2>2. state'[j] = "FOLLOWER"
    BY <2>1, GrantedByFollower
  <2> QED BY <2>1, <2>2 DEF Grants
<1> QED BY <1>1, <1>2

\* Who gives its vote has given it to nobody else in this term.
LEMMA NoSecondVote ==
    ASSUME ElectionInv, NEW m \in calls, Grants(m), NEW j \in Server, j # m.dst,
           Granted(m.dst, j, m.term)
    PROVE  j = m.src
<1>1. m.dst \in Server /\ m.src \in Server /\ m.term \in Term
  BY CallKinds DEF ElectionInv, TypeInv
<1>2. ~(m.term < currentTerm[m.dst])
  BY DEF Grants, Refused
<1>3. ~(currentTerm[m.dst] > m.term)
  <2>1. currentTerm[m.dst] \in Nat /\ m.term \in Nat
    BY <1>1, ElectionTypes, BoundAssumption DEF Term, ElectionInv
  <2> QED BY <1>2, <2>1
<1>4. currentTerm[m.dst] = m.term /\ votedFor[m.dst] = j
  BY <1>1, <1>3 DEF ElectionInv, VotesKept
<1>5. votedFor[m.dst] \in {NULL, m.src}
  BY <1>4 DEF Grants, Refused
<1> QED BY <1>4, <1>5, NullAssumption

LEMMA OneVoteStep ==
    ASSUME TimelyElections, ElectionInv, TimelyNext
    PROVE  OneVote'
<1> SUFFICES ASSUME NEW i \in Server, NEW j \in Server, NEW k \in Server, NEW t \in Term,
                    k # i, k # j, Granted(k, i, t)', Granted(k, j, t)'
             PROVE  i = j
  BY DEF OneVote
<1>1. \/ Granted(k, i, t)
      \/ \E m \in calls : m.src = i /\ m.dst = k /\ m.term = t /\ Grants(m)
  BY GrantedOrigin DEF ElectionInv
<1>2. \/ Granted(k, j, t)
      \/ \E m \in calls : m.src = j /\ m.dst = k /\ m.term = t /\ Grants(m)
  BY GrantedOrigin DEF ElectionInv
<1>3. CASE Granted(k, i, t) /\ Granted(k, j, t)
  BY <1>3 DEF ElectionInv, OneVote
<1>4. ASSUME NEW m \in calls, m.src = i, m.dst = k, m.term = t, Grants(m)
      PROVE  i = j
  <2>1. CASE Granted(k, j, t)
    BY <1>4, <2>1, NoSecondVote
  <2>2. CASE \E n \in calls : n.src = j /\ n.dst = k /\ n.term = t /\ Grants(n)
    BY <1>4, <2>2 DEF Grants
  <2> QED BY <1>2, <2>1, <2>2
<1>5. ASSUME NEW m \in calls, m.src = j, m.dst = k, m.term = t, Grants(m),
             Granted(k, i, t)
      PROVE  i = j
  BY <1>5, NoSecondVote
<1> QED BY <1>1, <1>2, <1>3, <1>4, <1>5

LEMMA AsksOthersStep ==
    ASSUME ElectionInv, TimelyNext
    PROVE  AsksOthers'
<1> SUFFICES ASSUME NEW r \in calls', r.kind = "RequestVote" PROVE r.src # r.dst
  BY DEF AsksOthers
<1>1. CASE r \in calls
  BY <1>1 DEF ElectionInv, AsksOthers
<1>2. CASE r \notin calls
  <2>1. NewCall(r)
    BY <1>2, CallsOrigin DEF ElectionInv
  <2> QED BY <2>1 DEF NewCall
<1> QED BY <1>1, <1>2

LEMMA ElectionInvStep ==
    ASSUME TimelyElections, ElectionInv, [TimelyNext]_vars
    PROVE  ElectionInv'
<1>1. CASE UNCHANGED vars
  <2>1. TypeInv'
    BY <1>1, TypeInvStep DEF ElectionInv
  <2>2. UNCHANGED <<state, currentTerm, votedFor, checking, electing, voters, winning, calls>>
    BY <1>1 DEF vars, peerVars, electionVars
  <2>3. \A i, j \in Server, t \in Term : Granted(j, i, t)' = Granted(j, i, t)
    BY <2>2 DEF Granted
  <2>4. \A i \in Server : Standing(i)'
    BY <2>2 DEF ElectionInv, Standing
  <2>5. VotesKept' /\ OneVote'
    BY <2>2, <2>3 DEF ElectionInv, VotesKept, OneVote
  <2>6. Elected' /\ AsksOthers'
    BY <2>2 DEF ElectionInv, Elected, AsksOthers, Majority
  <2> QED BY <2>1, <2>4, <2>5, <2>6 DEF ElectionInv
<1>2. CASE TimelyNext
  <2>1. TypeInv'
    BY <1>2, TimelyIsRaft, TypeInvStep DEF ElectionInv
  <2>2. \A i \in Server : Standing(i)'
    BY <1>2, <2>1, StandingStep
  <2>3. Elected'
    <3>1. \A i \in Server : state'[i] = "LEADER" => Majority(voters'[i][currentTerm'[i]])
      BY <1>2, <2>1, StandingStep
    <3> QED BY <3>1 DEF Elected, Majority
  <2>4. VotesKept' /\ OneVote' /\ AsksOthers'
    BY <1>2, <2>1, VotesKeptStep, OneVoteStep, AsksOthersStep
  <2> QED BY <2>1, <2>2, <2>3, <2>4 DEF ElectionInv
<1> QED BY <1>1, <1>2

-----------------------------------------------------------------------------
(***************************************************************************)
(* Election safety.                                                        *)
(***************************************************************************)
\* Two majorities have a peer in common.
LEMMA MajoritiesMeet ==
    ASSUME NEW A \in SUBSET Server, NEW B \in SUBSET Server, Majority(A), Majority(B)
    PROVE  A \cap B # {}
<1>1. IsFiniteSet(A) /\ IsFiniteSet(B) /\ IsFiniteSet(A \cup B)
  BY ServerAssumption, FS_Subset
<1>2. Cardinality(A \cup B) = Cardinality(A) + Cardinality(B) - Cardinality(A \cap B)
  BY <1>1, FS_Union
<1>3. Cardinality(A \cup B) <= Cardinality(Server)
  BY ServerAssumption, FS_Subset
<1>4. /\ Cardinality(Server) \in Nat /\ Cardinality(A) \in Nat
      /\ Cardinality(B) \in Nat
  BY <1>1, ServerAssumption, FS_CardinalityType
<1>5. Cardinality(A \cap B) # 0
  BY <1>2, <1>3, <1>4 DEF Majority
<1> QED BY <1>5, FS_EmptySet

\* Two leaders of one term would have a voter in common; it has one vote, and
\* if it is one of the two it would not have voted for the other.
LEMMA ElectionInvSafe == ElectionInv => ElectionSafety
<1> USE ElectionTypes
<1> SUFFICES ASSUME ElectionInv, NEW i \in Server, NEW j \in Server,
                    state[i] = "LEADER", state[j] = "LEADER",
                    currentTerm[i] = currentTerm[j], i # j
             PROVE  FALSE
  BY DEF ElectionSafety
<1> DEFINE t == currentTerm[i]
<1>1. t \in Term /\ t \in Nat
  BY BoundAssumption DEF ElectionInv, TypeInv, InATerm, Term
<1>2. /\ voters[i][t] \in SUBSET Server /\ voters[j][t] \in SUBSET Server
      /\ Majority(voters[i][t]) /\ Majority(voters[j][t])
  BY <1>1 DEF ElectionInv, Elected
<1>3. PICK k \in Server : k \in voters[i][t] /\ k \in voters[j][t]
  BY <1>2, MajoritiesMeet
<1>4. Granted(k, i, t) /\ Granted(k, j, t)
  BY <1>3 DEF Granted
<1>5. k # i /\ k # j
  <2>1. ~(currentTerm[i] > t) /\ ~(currentTerm[j] > t)
    BY <1>1
  <2> QED BY <1>1, <1>4, <2>1 DEF ElectionInv, VotesKept
<1> QED BY <1>1, <1>4, <1>5 DEF ElectionInv, OneVote

\* When no reply outlives its term and the gaps in which raft.go holds no lock
\* are not used, no term has two leaders: RequestVote, sendvote and
\* AppendEntries, which forgets a vote of the current term when a candidate
\* steps down, let no peer vote twice.
THEOREM ElectionSafe == TimelyElections => (TimelySpec => []ElectionSafety)
<1> SUFFICES ASSUME TimelyElections PROVE TimelySpec => []ElectionSafety
  OBVIOUS
<1>1. ElectionInv /\ [TimelyNext]_vars => ElectionInv'
  BY ElectionInvStep
<1> QED BY <1>1, ElectionInvInit, ElectionInvSafe, PTL DEF TimelySpec

-----------------------------------------------------------------------------
(***************************************************************************)
(* A leader won an election, whatever the network and the scheduler do.    *)
(***************************************************************************)
\* An election is of the peer's term or an earlier one, and while the peer is
\* between TurnCandidate and startElection it has had none of its term: the
\* voteNum that startElection sets is a new one.
CountsAreOld ==
    \A i \in Server, t \in Term :
        voters[i][t] # {} => t <= currentTerm[i] /\ (t = currentTerm[i] => ~electing[i])

\* A vote is asked for, and answered, only in an election that has begun.
VotesAreCounted ==
    \A m \in calls :
        m.kind \in {"RequestVote", "RequestVoteReply"} => voters[m.src][m.term] # {}

\* The inductive strengthening of LeaderWonAnElection.
WonInv ==
    /\ TypeInv
    /\ CountsAreOld
    /\ VotesAreCounted
    /\ LeaderWonAnElection

\* More votes than a majority are a majority.
LEMMA MajoritiesGrow ==
    ASSUME NEW A \in SUBSET Server, NEW B \in SUBSET Server, A \subseteq B, Majority(A)
    PROVE  Majority(B)
<1>1. IsFiniteSet(A) /\ IsFiniteSet(B)
  BY ServerAssumption, FS_Subset
<1>2. Cardinality(A) <= Cardinality(B)
  BY <1>1, FS_Subset
<1>3. Cardinality(A) \in Nat /\ Cardinality(B) \in Nat /\ Cardinality(Server) \in Nat
  BY <1>1, ServerAssumption, FS_CardinalityType
<1> QED BY <1>2, <1>3 DEF Majority

\* startElection begins an election of the peer's term, in which there was
\* none, and counts the peer's own vote.
LEMMA StartElectionCounts ==
    ASSUME TypeInv, CountsAreOld, NEW i \in Server, StartElection(i), voters' # voters
    PROVE  /\ currentTerm[i] \in Term
           /\ voters[i][currentTerm[i]] = {}
           /\ voters' = [voters EXCEPT ![i][currentTerm[i]] = {i}]
           /\ electing' = [electing EXCEPT ![i] = FALSE]
           /\ UNCHANGED currentTerm
<1>1. /\ electing[i]
      /\ electing' = [electing EXCEPT ![i] = FALSE]
      /\ voters' = [voters EXCEPT ![i][currentTerm[i]] = {i}]
      /\ UNCHANGED currentTerm
  BY DEF StartElection, NewCount, peerVars
<1>2. currentTerm[i] \in Term
  BY <1>1 DEF TypeInv, InATerm
<1>3. voters[i][currentTerm[i]] = {}
  BY <1>1, <1>2 DEF CountsAreOld
<1> QED BY <1>1, <1>2, <1>3

\* sendvote adds a vote to an election that has begun.
LEMMA VoteReturnedCounts ==
    ASSUME TypeInv, VotesAreCounted, NEW m \in calls, NEW late \in BOOLEAN,
           VoteReturned(m, late), voters' # voters
    PROVE  /\ m.src \in Server /\ m.dst \in Server /\ m.term \in Term
           /\ voters[m.src][m.term] # {}
           /\ voters' = [voters EXCEPT ![m.src][m.term] =
                             voters[m.src][m.term] \cup {m.dst}]
<1>1. m.src \in Server /\ m.dst \in Server /\ m.term \in Term
  BY CallKinds DEF TypeInv
<1>2. voters[m.src][m.term] # {}
  BY DEF VoteReturned, VotesAreCounted
<1>3. voters' = [voters EXCEPT ![m.src][m.term] = voters[m.src][m.term] \cup {m.dst}]
  BY DEF VoteReturned
<1> QED BY <1>1, <1>2, <1>3

\* Nobody else writes a voteNum.
LEMMA VoteCounters ==
    ASSUME Next, voters' # voters
    PROVE  \/ \E i \in Server : StartElection(i)
           \/ \E m \in calls, late \in BOOLEAN : VoteReturned(m, late)
BY DEF Next, ElectionTimeout, TurnLeader, Kill, Start, SendHeartBeat, RequestVote,
       AppendEntries, HeartBeatReturned, KilledAnswer, Lose, electionVars

\* No vote is forgotten: the variable that a new election starts counting in
\* is not one that holds the votes of an earlier election.
LEMMA VotersGrow ==
    ASSUME WonInv, Next, NEW i \in Server, NEW t \in Term
    PROVE  /\ voters[i][t] \subseteq voters'[i][t]
           /\ voters[i][t] = {} /\ voters'[i][t] # {} =>
                 currentTerm'[i] = t /\ ~electing'[i]
<1> USE ElectionTypes DEF WonInv
<1>1. CASE voters' = voters
  BY <1>1
<1>2. ASSUME NEW c \in Server, StartElection(c), voters' # voters
      PROVE  /\ voters[i][t] \subseteq voters'[i][t]
             /\ voters[i][t] = {} /\ voters'[i][t] # {} =>
                   currentTerm'[i] = t /\ ~electing'[i]
  <2>1. /\ currentTerm[c] \in Term
        /\ voters[c][currentTerm[c]] = {}
        /\ voters' = [voters EXCEPT ![c][currentTerm[c]] = {c}]
        /\ electing' = [electing EXCEPT ![c] = FALSE]
        /\ UNCHANGED currentTerm
    BY <1>2, StartElectionCounts
  <2>2. CASE c = i /\ currentTerm[c] = t
    BY <2>1, <2>2
  <2>3. CASE ~(c = i /\ currentTerm[c] = t)
    <3>1. voters'[i][t] = voters[i][t]
      BY <2>1, <2>3
    <3> QED BY <3>1
  <2> QED BY <2>2, <2>3
<1>3. ASSUME NEW m \in calls, NEW late \in BOOLEAN, VoteReturned(m, late),
             voters' # voters
      PROVE  voters[i][t] \subseteq voters'[i][t] /\ (voters[i][t] = {} => voters'[i][t] = {})
  <2>1. /\ m.src \in Server /\ m.dst \in Server /\ m.term \in Term
        /\ voters[m.src][m.term] # {}
        /\ voters' = [voters EXCEPT ![m.src][m.term] =
                          voters[m.src][m.term] \cup {m.dst}]
    BY <1>3, VoteReturnedCounts
  <2> QED BY <2>1
<1> QED BY <1>1, <1>2, <1>3, VoteCounters

LEMMA CountsAreOldStep ==
    ASSUME WonInv, Next, TypeInv'
    PROVE  CountsAreOld'
<1> USE ElectionTypes DEF WonInv
<1> SUFFICES ASSUME NEW i \in Server, NEW t \in Term, voters'[i][t] # {}
             PROVE  t <= currentTerm'[i] /\ (t = currentTerm'[i] => ~electing'[i])
  BY DEF CountsAreOld
<1>1. /\ t \in Nat /\ currentTerm[i] \in Nat /\ currentTerm'[i] \in Nat
      /\ currentTerm'[i] >= currentTerm[i]
  <2>1. currentTerm' \in [Server -> 0..MaxTerm] /\ MaxTerm \in Nat
    BY BoundAssumption DEF TypeInv, TypeOK
  <2> QED BY <2>1, TermsGrow, BoundAssumption DEF Term
<1>2. CASE voters[i][t] = {}
  <2>1. currentTerm'[i] = t /\ ~electing'[i]
    BY <1>2, VotersGrow
  <2> QED BY <1>1, <2>1
<1>3. CASE voters[i][t] # {}
  <2>1. t <= currentTerm[i] /\ (t = currentTerm[i] => ~electing[i])
    BY <1>3 DEF CountsAreOld
  <2>2. electing'[i] => electing[i] \/ currentTerm'[i] = currentTerm[i] + 1
    <3>1. ASSUME NEW c \in Server, ElectionTimeout(c)
          PROVE  electing'[i] => electing[i] \/ currentTerm'[i] = currentTerm[i] + 1
      BY <3>1 DEF ElectionTimeout
    <3>2. ASSUME NEW c \in Server, StartElection(c)
          PROVE  electing'[i] => electing[i]
      BY <3>2 DEF StartElection
    <3>3. UNCHANGED electing \/ \E c \in Server : ElectionTimeout(c) \/ StartElection(c)
      BY DEF Next, TurnLeader, Kill, Start, SendHeartBeat, RequestVote, VoteReturned,
             AppendEntries, HeartBeatReturned, KilledAnswer, Lose, electionVars
    <3> QED BY <3>1, <3>2, <3>3
  <2> QED BY <1>1, <2>1, <2>2
<1> QED BY <1>2, <1>3

\* A vote is asked for by startElection, and answered by a handler of the
\* peer that is asked.
LEMMA VoteCallsOrigin ==
    ASSUME TypeInv, CountsAreOld, Next, NEW r \in calls', r \notin calls,
           r.kind \in {"RequestVote", "RequestVoteReply"}
    PROVE  \/ r.src \in Server /\ r.term \in Term /\ voters'[r.src][r.term] # {}
           \/ \E m \in calls : /\ m.kind = "RequestVote"
                               /\ m.src = r.src /\ m.term = r.term
<1> DEFINE Goal == \/ r.src \in Server /\ r.term \in Term /\ voters'[r.src][r.term] # {}
                   \/ \E m \in calls : /\ m.kind = "RequestVote"
                                       /\ m.src = r.src /\ m.term = r.term
<1>1. ASSUME NEW i \in Server, StartElection(i)
      PROVE  Goal
  <2>1. PICK j \in Server \ {i} :
            r = [kind |-> "RequestVote", src |-> i, dst |-> j,
                 term |-> currentTerm[i], lastLogIndex |-> Len(log[i]),
                 lastLogTerm |-> LastTerm(log[i])]
    BY <1>1 DEF StartElection
  <2>2. voters' = [voters EXCEPT ![i][currentTerm[i]] = {i}]
    BY <1>1, <2>1 DEF StartElection, NewCount
  <2>3. currentTerm[i] \in Term
    BY <1>1 DEF StartElection, TypeInv, InATerm
  <2>4. voters'[i][currentTerm[i]] = {i}
    BY <2>2, <2>3, ElectionTypes
  <2>5. r.src = i /\ r.term = currentTerm[i]
    BY <2>1
  <2> QED BY <2>3, <2>4, <2>5
<1>2. ASSUME NEW i \in Server, NEW j \in Server, NEW id \in CallId,
             SendHeartBeat(i, j, id)
      PROVE  FALSE
  <2>1. r.kind = "AppendEntries"
    BY <1>2 DEF SendHeartBeat
  <2> QED BY <2>1
<1>3. ASSUME NEW m \in calls, NEW t, NEW ok, AppendAnswer(m, t, ok)
      PROVE  FALSE
  BY <1>3 DEF AppendAnswer, Answer
<1>4. ASSUME NEW m \in calls, AppendEntries(m)
      PROVE  FALSE
  <2>1. Finish(m) \/ \E t, ok : AppendAnswer(m, t, ok)
    BY <1>4, Zenon DEF AppendEntries, AppendRefused, AppendMismatch, AppendAccepted
  <2> QED BY <1>3, <2>1 DEF Finish
<1>5. ASSUME NEW m \in calls, RequestVote(m)
      PROVE  Goal
  <2>1. PICK t, ok :
            Answer(m, [kind |-> "RequestVoteReply", src |-> m.src, dst |-> m.dst,
                       term |-> m.term, replyTerm |-> t, voteGranted |-> ok])
    BY <1>5, Zenon DEF RequestVote
  <2>2. r.src = m.src /\ r.term = m.term
    BY <2>1 DEF Answer
  <2> QED BY <1>5, <2>2 DEF RequestVote
<1>6. ASSUME NEW m \in calls, KilledAnswer(m)
      PROVE  Goal
  <2>1. CASE m.kind = "RequestVote"
    <3>1. Answer(m, [kind |-> "RequestVoteReply", src |-> m.src, dst |-> m.dst,
                     term |-> m.term, replyTerm |-> 0, voteGranted |-> FALSE])
      BY <1>6, <2>1 DEF KilledAnswer
    <3> QED BY <2>1, <3>1 DEF Answer
  <2>2. CASE m.kind = "AppendEntries"
    BY <1>3, <1>6, <2>2 DEF KilledAnswer
  <2> QED BY <1>6, <2>1, <2>2 DEF KilledAnswer
<1>7. ASSUME calls' \subseteq calls
      PROVE  FALSE
  BY <1>7
<1>8. ASSUME NEW m \in calls,
             \/ HeartBeatReturned(m) \/ Lose(m)
             \/ \E late \in BOOLEAN : VoteReturned(m, late)
      PROVE  FALSE
  BY <1>7, <1>8 DEF HeartBeatReturned, Lose, VoteReturned, Finish
<1>9. ASSUME NEW i \in Server,
             \/ ElectionTimeout(i) \/ Kill(i)
             \/ \E late \in BOOLEAN : TurnLeader(i, late)
             \/ \E v \in Value : Start(i, v)
      PROVE  FALSE
  BY <1>7, <1>9 DEF ElectionTimeout, TurnLeader, Kill, Start
<1> QED BY <1>1, <1>2, <1>4, <1>5, <1>6, <1>8, <1>9 DEF Next

LEMMA VotesAreCountedStep ==
    ASSUME WonInv, Next
    PROVE  VotesAreCounted'
<1> USE ElectionTypes DEF WonInv
<1> SUFFICES ASSUME NEW r \in calls', r.kind \in {"RequestVote", "RequestVoteReply"}
             PROVE  voters'[r.src][r.term] # {}
  BY DEF VotesAreCounted
<1>1. ASSUME NEW m \in calls, m.kind \in {"RequestVote", "RequestVoteReply"}
      PROVE  voters'[m.src][m.term] # {}
  <2>1. m.src \in Server /\ m.term \in Term /\ voters[m.src][m.term] # {}
    BY <1>1, CallKinds DEF TypeInv, VotesAreCounted
  <2> QED BY <2>1, VotersGrow
<1>2. CASE r \in calls
  BY <1>1, <1>2
<1>3. CASE r \notin calls
  BY <1>1, <1>3, VoteCallsOrigin
<1> QED BY <1>2, <1>3

\* Only a vote that completes a majority makes a peer a leader.
LEMMA NewLeader ==
    ASSUME TypeInv, Next, NEW i \in Server,
           ~(state[i] = "LEADER" \/ winning[i] > 0),
           state'[i] = "LEADER" \/ winning'[i] > 0
    PROVE  \E m \in calls :
            /\ m.src = i /\ m.kind = "RequestVoteReply" /\ m.term \in Term
            /\ voters' = [voters EXCEPT ![i][m.term] = voters[i][m.term] \cup {m.dst}]
            /\ Majority(voters[i][m.term] \cup {m.dst})
            /\ currentTerm' = currentTerm
<1> USE ElectionTypes
<1>1. ~ UNCHANGED <<state, winning>>
  OBVIOUS
<1>2. ASSUME NEW m \in calls, RequestVote(m) \/ AppendEntries(m) \/ HeartBeatReturned(m)
      PROVE  FALSE
  <2>1. UNCHANGED winning
    BY <1>2 DEF RequestVote, AppendEntries, HeartBeatReturned, electionVars
  <2>2. state'[i] \in {state[i], "FOLLOWER"}
    <3>1. CASE RequestVote(m)
      <4>1. m.dst \in Server
        BY CallKinds DEF TypeInv
      <4>2. PICK v \in {"FOLLOWER", state[m.dst]} :
                state' = state \/ state' = [state EXCEPT ![m.dst] = v]
        BY <3>1, Zenon DEF RequestVote, peerVars
      <4> QED BY <4>1, <4>2
    <3>2. CASE AppendEntries(m)
      <4>1. state' = state \/ state' = [state EXCEPT ![m.dst] = "FOLLOWER"]
        BY <3>2 DEF AppendEntries, AppendRefused, AppendMismatch, AppendAccepted,
                    Acknowledge, TurnFollower, peerVars
      <4> QED BY <4>1
    <3>3. CASE HeartBeatReturned(m)
      <4>1. state' = state \/ state' = [state EXCEPT ![m.src] = "FOLLOWER"]
        BY <3>3 DEF HeartBeatReturned, TurnFollower, peerVars
      <4> QED BY <4>1
    <3> QED BY <1>2, <3>1, <3>2, <3>3
  <2> QED BY <2>1, <2>2
<1>3. ASSUME NEW c \in Server, ElectionTimeout(c)
      PROVE  FALSE
  BY <1>3 DEF ElectionTimeout
<1>4. ASSUME NEW c \in Server, NEW late \in BOOLEAN, TurnLeader(c, late)
      PROVE  FALSE
  BY <1>4 DEF TurnLeader, Lead
<1>5. PICK m \in calls, late \in BOOLEAN : VoteReturned(m, late)
  BY <1>1, <1>2, <1>3, <1>4 DEF Next, StartElection, Kill, Start, SendHeartBeat,
                                KilledAnswer, Lose, peerVars, electionVars
<1>6. m.src \in Server /\ m.term \in Term /\ m.kind = "RequestVoteReply"
  BY <1>5, CallKinds DEF TypeInv, VoteReturned
<1>7. CASE state' = state /\ winning' = winning
  BY <1>1, <1>7
<1>8. CASE state' = [state EXCEPT ![m.src] = "FOLLOWER"] /\ winning' = winning
  BY <1>6, <1>8
<1>9. CASE /\ voters' = [voters EXCEPT ![m.src][m.term] = voters[m.src][m.term] \cup {m.dst}]
           /\ Majority(voters[m.src][m.term] \cup {m.dst})
           /\ state' = [state EXCEPT ![m.src] = "LEADER"]
           /\ winning' = [winning EXCEPT ![m.src] = @ + 1]
           /\ currentTerm' = currentTerm
  <2>1. m.src = i
    BY <1>6, <1>9
  <2> QED BY <1>6, <1>9, <2>1
<1> QED BY <1>5, <1>7, <1>8, <1>9 DEF VoteReturned, TurnFollower, Lead, peerVars
LEMMA LeaderWonStep ==
    ASSUME WonInv, Next, TypeInv'
    PROVE  LeaderWonAnElection'
<1> USE ElectionTypes DEF WonInv
<1> SUFFICES ASSUME NEW i \in Server, state'[i] = "LEADER" \/ winning'[i] > 0
             PROVE  \E t \in 1..currentTerm'[i] : Majority(voters'[i][t])
  BY DEF LeaderWonAnElection, Majority
<1>1. /\ currentTerm[i] \in 0..MaxTerm /\ currentTerm'[i] \in 0..MaxTerm /\ MaxTerm \in Nat
      /\ currentTerm'[i] >= currentTerm[i]
      /\ voters' \in [Server -> [Term -> SUBSET Server]]
  BY TermsGrow, BoundAssumption DEF TypeInv, TypeOK
<1>2. ASSUME NEW t \in 1..currentTerm[i], NEW A \in SUBSET Server, Majority(A),
             A \subseteq voters'[i][t]
      PROVE  \E u \in 1..currentTerm'[i] : Majority(voters'[i][u])
  <2>1. t \in 1..currentTerm'[i] /\ t \in Term
    BY <1>1 DEF Term
  <2>2. voters'[i][t] \in SUBSET Server
    BY <1>1, <2>1
  <2>3. Majority(voters'[i][t])
    BY <1>2, <2>2, MajoritiesGrow
  <2> QED BY <2>1, <2>3
<1>3. CASE state[i] = "LEADER" \/ winning[i] > 0
  <2>1. PICK t \in 1..currentTerm[i] : Majority(voters[i][t])
    BY <1>3 DEF LeaderWonAnElection
  <2>2. t \in Term
    BY <1>1 DEF Term
  <2>3. voters[i][t] \in SUBSET Server /\ voters[i][t] \subseteq voters'[i][t]
    BY <2>2, VotersGrow
  <2> QED BY <1>2, <2>1, <2>3
<1>4. CASE ~(state[i] = "LEADER" \/ winning[i] > 0)
  <2>1. PICK m \in calls :
            /\ m.src = i /\ m.kind = "RequestVoteReply" /\ m.term \in Term
            /\ voters' = [voters EXCEPT ![i][m.term] = voters[i][m.term] \cup {m.dst}]
            /\ Majority(voters[i][m.term] \cup {m.dst})
            /\ currentTerm' = currentTerm
    BY <1>4, NewLeader
  <2>2. voters[i][m.term] # {}
    BY <2>1 DEF VotesAreCounted
  <2>3. m.term \in 1..currentTerm[i]
    BY <1>1, <2>1, <2>2 DEF CountsAreOld, Term
  <2>4. voters[i][m.term] \cup {m.dst} \in SUBSET Server
    BY <2>1, CallKinds DEF TypeInv
  <2>5. voters[i][m.term] \cup {m.dst} \subseteq voters'[i][m.term]
    BY <2>1
  <2> HIDE DEF WonInv
  <2> QED BY <1>2, <2>1, <2>3, <2>4, <2>5
<1> QED BY <1>3, <1>4

LEMMA WonInvInit == Init => WonInv
<1> SUFFICES ASSUME Init PROVE WonInv
  OBVIOUS
<1>1. \A i \in Server : state[i] = "FOLLOWER" /\ winning[i] = 0 /\ \A t \in Term : voters[i][t] = {}
  BY DEF Init
<1>2. calls = {}
  BY DEF Init
<1> QED BY <1>1, <1>2, TypeInvInit DEF WonInv, CountsAreOld, VotesAreCounted,
                                       LeaderWonAnElection

LEMMA WonInvStep == WonInv /\ [Next]_vars => WonInv'
<1> SUFFICES ASSUME WonInv, [Next]_vars PROVE WonInv'
  OBVIOUS
<1>1. TypeInv'
  BY TypeInvStep DEF WonInv
<1>2. CASE Next
  BY <1>1, <1>2, CountsAreOldStep, VotesAreCountedStep, LeaderWonStep DEF WonInv
<1>3. CASE UNCHANGED vars
  <2>1. UNCHANGED <<state, currentTerm, electing, voters, winning, calls>>
    BY <1>3 DEF vars, peerVars, electionVars
  <2> QED BY <1>1, <2>1 DEF WonInv, CountsAreOld, VotesAreCounted, LeaderWonAnElection,
                            Majority
<1> QED BY <1>2, <1>3

\* Nobody leads without a majority that voted for it, although sendvote does
\* not compare the term it asked for with the current one, peers that step
\* down may vote twice in a term, and replies may be as late as they like.
THEOREM LeadersWereElected == Spec => []LeaderWonAnElection
<1>1. WonInv => LeaderWonAnElection
  BY DEF WonInv
<1> QED BY <1>1, WonInvInit, WonInvStep, PTL DEF Spec

-----------------------------------------------------------------------------
(***************************************************************************)
(* Matching logs.                                                          *)
(*                                                                         *)
(* A link is an entry with its index and the term of the entry before it:  *)
(* what one step of the consistency check of AppendEntries compares.       *)
(***************************************************************************)
Link(k, before, e) == [index |-> k, before |-> before, entry |-> e]

LogLinks(l) == {Link(k, TermAt(l, k - 1), l[k]) : k \in 1..Len(l)}

RequestLinks(m) ==
    {Link(m.prevLogIndex + k,
          IF k = 1 THEN m.prevLogTerm ELSE m.entries[k - 1].term,
          m.entries[k]) : k \in 1..Len(m.entries)}

\* The links in the logs of the peers and in the AppendEntries requests.
Links ==
    (UNION {LogLinks(log[i]) : i \in Server})
        \cup (UNION {RequestLinks(m) : m \in {c \in calls : c.kind = "AppendEntries"}})

\* Peer j has led in term t.  It has voted for nobody else in t: as long as
\* t lasts it leads, and so does not step down.
Winner(j, t) ==
    /\ Majority(voters[j][t])
    /\ currentTerm[j] > t \/ (currentTerm[j] = t /\ state[j] = "LEADER")
    /\ \A i \in Server : i # j => ~Granted(j, i, t)

\* A heartbeat comes from another peer, which has led in its term.
HeartBeatsWon ==
    \A m \in calls :
        m.kind = "AppendEntries" => m.src # m.dst /\ Winner(m.src, m.term)

\* Somebody has led in the term of every entry.
EntriesWon == \A a \in Links : \E j \in Server : Winner(j, a.entry.term)

\* All entries of a leader's term are at indices that its log has.
LeaderHasIndex ==
    \A i \in Server : state[i] = "LEADER" =>
        \A a \in Links :
            a.entry.term = currentTerm[i] => a.index <= Len(log[i])

\* The index and the term of an entry determine its command and the term
\* of the entry before it.
OneLink ==
    \A a, b \in Links : a.index = b.index /\ a.entry.term = b.entry.term => a = b

\* The inductive strengthening of LogMatching.
MatchInv ==
    /\ ElectionInv
    /\ WonInv
    /\ HeartBeatsWon
    /\ EntriesWon
    /\ LeaderHasIndex
    /\ OneLink

-----------------------------------------------------------------------------
(***************************************************************************)
(* The links of what the handlers build.                                   *)
(***************************************************************************)
\* Where a link is in a log.
LEMMA LogLink ==
    ASSUME NEW l \in Seq(Entry), NEW k \in 1..Len(l)
    PROVE  Link(k, TermAt(l, k - 1), l[k]) \in LogLinks(l)
BY DEF LogLinks

\* The log that AppendEntries leaves is the head of the old one, and then
\* the request's entries.
LEMMA AppendNewCut ==
    ASSUME NEW l \in Seq(Entry), NEW prev \in Nat, prev <= Len(l),
           NEW entries \in Seq(Entry), AppendNew(l, prev, entries) # l
    PROVE  \E c \in Nat :
              /\ c > prev
              /\ \A k \in 1..Len(AppendNew(l, prev, entries)) :
                    /\ k < c => /\ k <= Len(l)
                               /\ AppendNew(l, prev, entries)[k] = l[k]
                    /\ k >= c => /\ k - prev \in 1..Len(entries)
                                /\ AppendNew(l, prev, entries)[k] = entries[k - prev]
<1> DEFINE differs == {k \in 1..Len(entries) :
                           \/ prev + k > Len(l)
                           \/ l[prev + k].term # entries[k].term}
           point == Min(differs)
           r == AppendNew(l, prev, entries)
<1>1. Len(l) \in Nat /\ Len(entries) \in Nat
  OBVIOUS
<1>2. differs # {}
  BY DEF AppendNew
<1>3. point \in differs /\ \A y \in differs : point <= y
  <2>1. differs \in SUBSET Nat
    OBVIOUS
  <2> HIDE DEF differs
  <2> QED BY <1>2, <2>1, MinOf
<1>4. r = [k \in 1..(prev + Len(entries)) |->
              IF k < prev + point THEN l[k] ELSE entries[k - prev]]
  BY <1>2 DEF AppendNew
<1>5. Len(r) = prev + Len(entries)
  <2>1. prev + Len(entries) \in Nat /\ DOMAIN r = 1..(prev + Len(entries))
    BY <1>1, <1>4
  <2>2. r \in Seq(Entry)
    BY AppendNewProps
  <2> HIDE DEF r
  <2> QED BY <2>1, <2>2
<1> HIDE DEF r, point
<1>6. prev + point \in Nat /\ prev + point > prev
  BY <1>1, <1>3
<1>7. ASSUME NEW k \in 1..Len(r)
      PROVE  /\ k < prev + point => k <= Len(l) /\ r[k] = l[k]
             /\ k >= prev + point => /\ k - prev \in 1..Len(entries)
                                    /\ r[k] = entries[k - prev]
  <2>1. ASSUME k < prev + point
        PROVE  k <= Len(l) /\ r[k] = l[k]
    <3>1. k <= Len(l)
      <4>1. CASE k <= prev
        BY <4>1, <1>1
      <4>2. CASE k > prev /\ k > Len(l)
        <5>1. k - prev \in differs
          BY <4>2, <1>1, <1>5
        <5> QED BY <5>1, <1>1, <1>3, <2>1
      <4> QED BY <4>1, <4>2, <1>1
    <3> QED BY <1>1, <1>4, <1>5, <2>1, <3>1
  <2>2. ASSUME k >= prev + point
        PROVE  k - prev \in 1..Len(entries) /\ r[k] = entries[k - prev]
    <3>1. ~(k < prev + point)
      BY <1>6, <2>2
    <3>2. point \in 1..Len(entries)
      BY <1>3
    <3>3. k - prev \in 1..Len(entries)
      BY <1>1, <1>5, <1>6, <2>2, <3>2
    <3> QED BY <1>4, <1>5, <3>1, <3>3
  <2> QED BY <2>1, <2>2
<1> QED BY <1>6, <1>7 DEF r

\* Splicing a request's entries into a log that has the entry before them
\* makes no new link, not even where the two parts meet.
LEMMA SpliceLinks ==
    ASSUME NEW m \in AppendRequest, NEW l \in Seq(Entry),
           m.prevLogIndex <= Len(l), TermAt(l, m.prevLogIndex) = m.prevLogTerm
    PROVE  LogLinks(AppendNew(l, m.prevLogIndex, m.entries))
              \subseteq LogLinks(l) \cup RequestLinks(m)
<1> DEFINE prev == m.prevLogIndex
           entries == m.entries
           r == AppendNew(l, prev, entries)
<1>1. prev \in Nat /\ entries \in Seq(Entry) /\ Len(l) \in Nat /\ Len(entries) \in Nat
  BY DEF AppendRequest
<1>2. CASE r = l
  BY <1>2
<1>3. CASE r # l
  <2>1. PICK c \in Nat :
            /\ c > prev
            /\ \A k \in 1..Len(r) :
                  /\ k < c => k <= Len(l) /\ r[k] = l[k]
                  /\ k >= c => k - prev \in 1..Len(entries) /\ r[k] = entries[k - prev]
    BY <1>1, <1>3, AppendNewCut
  <2>2. /\ r \in Seq(Entry) /\ Len(r) \in Nat
        /\ \A k \in 1..prev : r[k] = l[k]
        /\ \A k \in 1..Len(entries) : r[prev + k].term = entries[k].term
    BY <1>1, <1>3, AppendNewProps
  <2> HIDE DEF r
  <2>3. ASSUME NEW k \in 1..Len(r)
        PROVE  Link(k, TermAt(r, k - 1), r[k]) \in LogLinks(l) \cup RequestLinks(m)
    <3>1. CASE k < c
      <4>1. k \in 1..Len(l) /\ r[k] = l[k]
        BY <1>1, <2>1, <3>1
      <4>2. TermAt(r, k - 1) = TermAt(l, k - 1)
        <5>1. CASE k = 1
          BY <5>1 DEF TermAt
        <5>2. CASE k # 1
          <6>1. k - 1 \in 1..Len(r) /\ k - 1 < c
            BY <2>2, <3>1, <5>2
          <6>2. r[k - 1] = l[k - 1]
            BY <2>1, <6>1
          <6> QED BY <5>2, <6>2 DEF TermAt
        <5> QED BY <5>1, <5>2
      <4> QED BY <4>1, <4>2, LogLink
    <3>2. CASE k >= c
      <4> DEFINE n == k - prev
      <4>1. n \in 1..Len(entries) /\ r[k] = entries[n] /\ k = prev + n
        BY <1>1, <2>1, <3>2
      <4> HIDE DEF n
      <4>2. TermAt(r, k - 1) = IF n = 1 THEN m.prevLogTerm ELSE entries[n - 1].term
        <5>1. CASE n = 1
          <6>1. k - 1 = prev
            BY <1>1, <4>1, <5>1
          <6>2. TermAt(r, prev) = TermAt(l, prev)
            BY <1>1, <2>2, SMTT(20) DEF TermAt
          <6> QED BY <5>1, <6>1, <6>2
        <5>2. CASE n # 1
          <6>1. n - 1 \in 1..Len(entries) /\ k - 1 = prev + (n - 1) /\ k - 1 # 0
            BY <1>1, <4>1, <5>2
          <6>2. r[prev + (n - 1)].term = entries[n - 1].term
            BY <2>2, <6>1
          <6> QED BY <5>2, <6>1, <6>2 DEF TermAt
        <5> QED BY <5>1, <5>2
      <4>3. Link(prev + n, IF n = 1 THEN m.prevLogTerm ELSE entries[n - 1].term, entries[n])
               \in RequestLinks(m)
        BY <4>1 DEF RequestLinks
      <4> QED BY <4>1, <4>2, <4>3
    <3> QED BY <1>1, <2>1, <3>1, <3>2
  <2> QED BY <2>3 DEF LogLinks, r
<1> QED BY <1>2, <1>3

\* A heartbeat carries links of the log it is copied from.
LEMMA SliceLinks ==
    ASSUME NEW l \in Seq(Entry), NEW next \in 1..(Len(l) + 1), NEW m,
           m.prevLogIndex = next - 1, m.prevLogTerm = TermAt(l, next - 1),
           m.entries = SubSeq(l, next, Len(l))
    PROVE  RequestLinks(m) \subseteq LogLinks(l)
<1>1. Len(l) \in Nat
  OBVIOUS
<1>2. /\ Len(m.entries) = Len(l) + 1 - next
      /\ \A k \in 1..Len(m.entries) : m.entries[k] = l[next - 1 + k]
  BY <1>1
<1>3. ASSUME NEW k \in 1..Len(m.entries)
      PROVE  Link(m.prevLogIndex + k,
                  IF k = 1 THEN m.prevLogTerm ELSE m.entries[k - 1].term,
                  m.entries[k]) \in LogLinks(l)
  <2> DEFINE n == next - 1 + k
  <2>1. n \in 1..Len(l) /\ m.entries[k] = l[n] /\ m.prevLogIndex + k = n
    BY <1>1, <1>2
  <2>2. TermAt(l, n - 1) = IF k = 1 THEN m.prevLogTerm ELSE m.entries[k - 1].term
    <3>1. CASE k = 1
      BY <1>1, <3>1
    <3>2. CASE k # 1
      <4>1. k - 1 \in 1..Len(m.entries) /\ next - 1 + (k - 1) = n - 1 /\ n - 1 # 0
        BY <1>1, <1>2, <3>2
      <4>2. m.entries[k - 1] = l[n - 1]
        BY <1>2, <4>1
      <4> QED BY <3>2, <4>1, <4>2 DEF TermAt
    <3> QED BY <3>1, <3>2
  <2> HIDE DEF n
  <2> QED BY <2>1, <2>2, LogLink
<1> QED BY <1>3 DEF RequestLinks

\* A command given to Start makes one link, at the end of the log.
LEMMA AppendLinks ==
    ASSUME NEW l \in Seq(Entry), NEW e \in Entry
    PROVE  LogLinks(Append(l, e)) = LogLinks(l) \cup {Link(Len(l) + 1, LastTerm(l), e)}
<1> DEFINE r == Append(l, e)
<1>1. /\ Len(l) \in Nat /\ Len(r) = Len(l) + 1
      /\ \A k \in 1..Len(l) : r[k] = l[k]
      /\ r[Len(l) + 1] = e
  OBVIOUS
<1> HIDE DEF r
<1>2. \A k \in 0..Len(l) : TermAt(r, k) = TermAt(l, k)
  BY <1>1 DEF TermAt
<1>3. \A k \in 1..Len(l) : Link(k, TermAt(r, k - 1), r[k]) = Link(k, TermAt(l, k - 1), l[k])
  BY <1>1, <1>2
<1>4. Link(Len(l) + 1, TermAt(r, Len(l)), r[Len(l) + 1]) = Link(Len(l) + 1, LastTerm(l), e)
  BY <1>1, <1>2 DEF LastTerm
<1>5. 1..Len(r) = 1..Len(l) \cup {Len(l) + 1} /\ (Len(l) + 1) - 1 = Len(l)
  BY <1>1
<1>6. LogLinks(r) = {Link(k, TermAt(r, k - 1), r[k]) : k \in 1..Len(l) \cup {Len(l) + 1}}
  BY <1>5 DEF LogLinks
<1>7. LogLinks(r) = {Link(k, TermAt(r, k - 1), r[k]) : k \in 1..Len(l)}
                       \cup {Link(Len(l) + 1, LastTerm(l), e)}
  BY <1>4, <1>5, <1>6
<1>8. LogLinks(l) = {Link(k, TermAt(r, k - 1), r[k]) : k \in 1..Len(l)}
  BY <1>3 DEF LogLinks
<1> QED BY <1>7, <1>8 DEF r

\* Only Start makes a new link.
LEMMA LinksStep ==
    ASSUME TypeInv, Next, NEW a \in Links', a \notin Links
    PROVE  \E i \in Server, v \in Value :
              /\ Start(i, v)
              /\ a.entry \in Entry
              /\ a.index = Len(log[i]) + 1
              /\ a = Link(a.index, LastTerm(log[i]), a.entry)
              /\ a.entry.term = currentTerm[i]
              /\ log' = [log EXCEPT ![i] = Append(log[i], a.entry)]
              /\ calls' = calls
<1>1. log \in [Server -> Seq(Entry)]
  BY DEF TypeInv, TypeOK
<1>2. ASSUME NEW i \in Server, a \in LogLinks(log[i])
      PROVE  FALSE
  BY <1>2 DEF Links
<1>3. ASSUME NEW m \in calls, m.kind = "AppendEntries", a \in RequestLinks(m)
      PROVE  FALSE
  BY <1>3 DEF Links
<1>4. CASE \E m \in calls' : m.kind = "AppendEntries" /\ a \in RequestLinks(m)
  <2>1. PICK m \in calls' : m.kind = "AppendEntries" /\ a \in RequestLinks(m)
    BY <1>4
  <2>2. m \notin calls
    BY <1>3, <2>1
  <2>3. PICK i \in Server : \E next \in 1..(Len(log[i]) + 1) :
            /\ m.prevLogIndex = next - 1
            /\ m.prevLogTerm = TermAt(log[i], next - 1)
            /\ m.entries = SubSeq(log[i], next, Len(log[i]))
    BY <2>1, <2>2, HeartBeatSenders
  <2>4. log[i] \in Seq(Entry)
    BY <1>1
  <2>5. RequestLinks(m) \subseteq LogLinks(log[i])
    BY <2>3, <2>4, SliceLinks
  <2> QED BY <1>2, <2>1, <2>5
<1>5. CASE \E j \in Server : a \in LogLinks(log'[j])
  <2>1. PICK j \in Server : a \in LogLinks(log'[j])
    BY <1>5
  <2>2. log'[j] # log[j]
    BY <1>2, <2>1
  <2>3. ASSUME NEW m \in calls, AppendEntries(m), AppendAccepted(m)
        PROVE  FALSE
    <3>1. /\ m \in AppendRequest
          /\ m.dst \in Server
          /\ m.prevLogIndex <= Len(log[m.dst])
          /\ TermAt(log[m.dst], m.prevLogIndex) = m.prevLogTerm
          /\ log' = [log EXCEPT ![m.dst] =
                        AppendNew(log[m.dst], m.prevLogIndex, m.entries)]
      BY <2>3, AcceptedProps
    <3>2. j = m.dst
      BY <1>1, <2>2, <3>1
    <3>3. log'[j] = AppendNew(log[j], m.prevLogIndex, m.entries) /\ log[j] \in Seq(Entry)
      BY <1>1, <3>1, <3>2
    <3>4. a \in LogLinks(log[j]) \cup RequestLinks(m)
      BY <2>1, <3>1, <3>2, <3>3, SpliceLinks
    <3> QED BY <1>2, <1>3, <2>3, <3>4 DEF AppendEntries
  <2>4. ASSUME NEW i \in Server, NEW v \in Value, Start(i, v)
        PROVE  /\ a.entry \in Entry
               /\ a.index = Len(log[i]) + 1
               /\ a = Link(a.index, LastTerm(log[i]), a.entry)
               /\ a.entry.term = currentTerm[i]
               /\ log' = [log EXCEPT ![i] = Append(log[i], a.entry)]
               /\ calls' = calls
    <3> DEFINE e == [term |-> currentTerm[i], command |-> v]
    <3>1. /\ e \in Entry /\ e.term = currentTerm[i]
          /\ log' = [log EXCEPT ![i] = Append(log[i], e)]
          /\ calls' = calls
      BY <2>4, StartProps
    <3> HIDE DEF e
    <3>2. i = j
      BY <1>1, <2>2, <3>1
    <3>3. log'[i] = Append(log[i], e) /\ log[i] \in Seq(Entry)
      BY <1>1, <3>1
    <3>4. a = Link(Len(log[i]) + 1, LastTerm(log[i]), e)
      BY <1>2, <2>1, <3>1, <3>2, <3>3, AppendLinks
    <3> QED BY <3>1, <3>4 DEF Link
  <2> QED BY <2>2, <2>3, <2>4, LogWriters
<1> QED BY <1>4, <1>5 DEF Links

-----------------------------------------------------------------------------
(***************************************************************************)
(* Who has led in a term.                                                  *)
(***************************************************************************)
\* A leader has led in its term.
LeadersWon ==
    \A i \in Server : state[i] = "LEADER" =>
        currentTerm[i] \in Term /\ Winner(i, currentTerm[i])

\* No term has two winners, at the same time or one after the other.
OneWinner ==
    \A i, j \in Server, t \in Term : Winner(i, t) /\ Winner(j, t) => i = j

LEMMA LeadersHaveWon == ElectionInv => LeadersWon
<1> SUFFICES ASSUME ElectionInv, NEW i \in Server, state[i] = "LEADER"
             PROVE  currentTerm[i] \in Term /\ Winner(i, currentTerm[i])
  BY DEF LeadersWon
<1> USE ElectionTypes DEF ElectionInv
<1>1. currentTerm[i] \in Term /\ currentTerm[i] \in Nat
  BY BoundAssumption DEF TypeInv, InATerm, Term
<1>2. Majority(voters[i][currentTerm[i]])
  BY DEF Elected
<1>3. \A j \in Server : j # i => ~Granted(i, j, currentTerm[i])
  BY <1>1 DEF VotesKept
<1> QED BY <1>1, <1>2, <1>3 DEF Winner

LEMMA WinnersAreOne == ElectionInv => OneWinner
<1> SUFFICES ASSUME ElectionInv, NEW i \in Server, NEW j \in Server, NEW t \in Term,
                    Winner(i, t), Winner(j, t)
             PROVE  i = j
  BY DEF OneWinner
<1> USE ElectionTypes DEF ElectionInv
<1>1. /\ voters[i][t] \in SUBSET Server /\ voters[j][t] \in SUBSET Server
      /\ Majority(voters[i][t]) /\ Majority(voters[j][t])
  BY DEF Winner
<1>2. PICK k \in Server : k \in voters[i][t] /\ k \in voters[j][t]
  <2>1. voters[i][t] \cap voters[j][t] # {}
    BY <1>1, MajoritiesMeet, Zenon
  <2> QED BY <1>1, <2>1
<1>3. Granted(k, i, t) /\ Granted(k, j, t)
  BY <1>2 DEF Granted
<1>4. CASE k = i \/ k = j
  BY <1>3, <1>4 DEF Winner
<1>5. CASE k # i /\ k # j
  BY <1>3, <1>5 DEF OneVote
<1> QED BY <1>4, <1>5

\* AppendEntries is what makes a leader step down within its term.
LEMMA WhoDemotes ==
    ASSUME TimelyElections, ElectionInv, TimelyNext, NEW j \in Server,
           state[j] = "LEADER", state'[j] # "LEADER", currentTerm'[j] = currentTerm[j]
    PROVE  \E m \in calls : m.kind = "AppendEntries" /\ m.dst = j /\ m.term = currentTerm[j]
<1> USE ElectionTypes DEF ElectionInv
<1>1. ASSUME NEW i \in Server, ElectionTimeout(i)
      PROVE  FALSE
  <2>1. state' = [state EXCEPT ![i] = "CANDIDATE"] /\ state[i] # "LEADER"
    BY <1>1 DEF ElectionTimeout, Standing
  <2> QED BY <2>1
<1>2. ASSUME NEW i \in Server, NEW late, TurnLeader(i, late)
      PROVE  FALSE
  BY <1>2 DEF TurnLeader, Lead
<1>3. ASSUME NEW m \in calls, RequestVote(m)
      PROVE  FALSE
  <2>1. m.dst \in Server /\ m.src # m.dst /\ m.term \in Nat /\ m.src \in Server
    BY <1>3, CallKinds, BoundAssumption DEF TypeInv, Term, AsksOthers, RequestVote
  <2>2. CASE Refused(m)
    BY <1>3, <2>2 DEF RequestVote, peerVars
  <2>3. CASE ~Refused(m)
    <3>1. /\ currentTerm' = [currentTerm EXCEPT ![m.dst] = m.term]
          /\ state' = [state EXCEPT ![m.dst] =
                          IF m.term > currentTerm[m.dst] THEN "FOLLOWER" ELSE @]
      BY <1>3, <2>3, Zenon DEF RequestVote
    <3>2. m.dst = j
      BY <2>1, <3>1
    <3>3. m.term = currentTerm[j]
      BY <2>1, <3>1, <3>2
    <3> QED BY <2>1, <3>1, <3>2, <3>3
  <2> QED BY <2>2, <2>3
<1>4. ASSUME NEW i \in Server, NEW t, t > currentTerm[i], TurnFollower(i, t, NULL)
      PROVE  FALSE
  <2>1. currentTerm' = [currentTerm EXCEPT ![i] = t] /\ state' = [state EXCEPT ![i] = "FOLLOWER"]
    BY <1>4 DEF TurnFollower
  <2>2. i = j
    BY <2>1
  <2>3. t = currentTerm[i] /\ currentTerm[i] \in Nat
    BY <2>1, <2>2
  <2> QED BY <1>4, <2>3
<1>5. ASSUME NEW m \in calls, NEW late, VoteReturned(m, late)
      PROVE  FALSE
  <2>1. m.src \in Server
    BY CallKinds DEF TypeInv
  <2>2. \/ state' = state
        \/ m.replyTerm > currentTerm[m.src] /\ TurnFollower(m.src, m.replyTerm, NULL)
        \/ state' = [state EXCEPT ![m.src] = "LEADER"]
    BY <1>5 DEF VoteReturned, Lead, peerVars
  <2> QED BY <1>4, <2>1, <2>2
<1>6. ASSUME NEW m \in calls, HeartBeatReturned(m)
      PROVE  FALSE
  <2>1. m.src \in Server
    BY CallKinds DEF TypeInv
  <2>2. \/ state' = state
        \/ m.replyTerm > currentTerm[m.src] /\ TurnFollower(m.src, m.replyTerm, NULL)
    BY <1>6 DEF HeartBeatReturned, peerVars
  <2> QED BY <1>4, <2>1, <2>2
<1>7. ASSUME NEW m \in calls, AppendEntries(m)
      PROVE  m.kind = "AppendEntries" /\ m.dst = j /\ m.term = currentTerm[j]
  <2>1. m.dst \in Server
    BY CallKinds DEF TypeInv
  <2>2. \/ state' = state
        \/ /\ currentTerm' = [currentTerm EXCEPT ![m.dst] = m.term]
           /\ state' = [state EXCEPT ![m.dst] = "FOLLOWER"]
    BY <1>7 DEF AppendEntries, AppendRefused, AppendMismatch, AppendAccepted, Acknowledge,
                TurnFollower, peerVars
  <2> QED BY <1>7, <2>1, <2>2 DEF AppendEntries
<1>8. state' # state
  OBVIOUS
<1> QED BY <1>1, <1>2, <1>3, <1>5, <1>6, <1>7, <1>8 DEF TimelyNext, StartElection, Start,
           SendHeartBeat, Lose, peerVars

\* Who has led in a term has led in it ever after: it leads until it leaves
\* the term, and then votes for nobody in it.
LEMMA WinnerStays ==
    ASSUME TimelyElections, MatchInv, TimelyNext, ElectionInv',
           NEW j \in Server, NEW t \in Term, Winner(j, t)
    PROVE  Winner(j, t)'
<1> USE ElectionTypes DEF MatchInv
<1>1. Next /\ TypeInv
  BY TimelyIsRaft DEF WonInv
<1>2. /\ currentTerm[j] \in Nat /\ currentTerm'[j] \in Nat /\ t \in Nat
      /\ currentTerm'[j] >= currentTerm[j]
  <2>1. currentTerm' \in [Server -> 0..MaxTerm] /\ MaxTerm \in Nat
    BY BoundAssumption DEF ElectionInv, TypeInv, TypeOK
  <2> QED BY <1>1, <2>1, TermsGrow, BoundAssumption DEF Term
<1>3. Majority(voters'[j][t])
  <2>1. voters' \in [Server -> [Term -> SUBSET Server]]
    BY DEF ElectionInv, TypeInv, TypeOK
  <2>2. voters[j][t] \in SUBSET Server /\ voters'[j][t] \in SUBSET Server
    BY <1>1, <2>1
  <2>3. voters[j][t] \subseteq voters'[j][t]
    BY <1>1, VotersGrow
  <2> QED BY <2>2, <2>3, MajoritiesGrow DEF Winner
<1>4. currentTerm'[j] > t \/ (currentTerm'[j] = t /\ state'[j] = "LEADER")
  <2>1. CASE currentTerm[j] > t
    BY <1>2, <2>1
  <2>2. CASE currentTerm[j] = t /\ state[j] = "LEADER"
    <3>1. CASE currentTerm'[j] = t /\ state'[j] # "LEADER"
      <4>1. PICK m \in calls : m.kind = "AppendEntries" /\ m.dst = j /\ m.term = t
        BY <2>2, <3>1, WhoDemotes
      <4>2. m.src \in Server /\ m.src # j /\ Winner(m.src, t)
        BY <1>1, <4>1, CallKinds DEF HeartBeatsWon, TypeInv
      <4> QED BY <4>1, <4>2, WinnersAreOne DEF OneWinner
    <3> QED BY <1>2, <2>2, <3>1
  <2> QED BY <2>1, <2>2 DEF Winner
<1>5. \A i \in Server : i # j => ~Granted(j, i, t)'
  <2> SUFFICES ASSUME NEW i \in Server, i # j, Granted(j, i, t)'
               PROVE  FALSE
    OBVIOUS
  <2>1. \/ currentTerm'[j] > t
        \/ currentTerm'[j] = t /\ state'[j] = "FOLLOWER"
    BY DEF ElectionInv, VotesKept
  <2>2. currentTerm'[j] > t
    BY <1>4, <2>1
  <2>3. ~Granted(j, i, t)
    BY DEF Winner
  <2>4. PICK m \in calls : m.dst = j /\ m.term = t /\ Grants(m)
    BY <1>1, <2>3, GrantedOrigin
  <2>5. currentTerm'[j] = t
    BY <2>4 DEF Grants
  <2> QED BY <1>2, <2>2, <2>5
<1> QED BY <1>3, <1>4, <1>5 DEF Winner, Majority

-----------------------------------------------------------------------------
(***************************************************************************)
(* The matching invariant is inductive.                                    *)
(***************************************************************************)
LEMMA MatchInvInit == Init => MatchInv
<1> SUFFICES ASSUME Init PROVE MatchInv
  OBVIOUS
<1>1. ElectionInv /\ WonInv
  BY ElectionInvInit, WonInvInit
<1>2. calls = {} /\ \A i \in Server : log[i] = << >> /\ state[i] = "FOLLOWER"
  BY DEF Init
<1>3. \A i \in Server : LogLinks(log[i]) = {}
  BY <1>2 DEF LogLinks
<1>4. Links = {}
  BY <1>2, <1>3 DEF Links
<1> QED BY <1>1, <1>2, <1>4 DEF MatchInv, HeartBeatsWon, EntriesWon, LeaderHasIndex, OneLink

\* A link has the index and the term of an entry.
LEMMA LinkTerms ==
    ASSUME TypeInv, NEW a \in Links
    PROVE  a.index \in Nat /\ a.entry.term \in Term
<1>1. \A e \in Entry : e.term \in Term
  BY DEF Entry
<1>2. ASSUME NEW i \in Server, a \in LogLinks(log[i])
      PROVE  a.index \in Nat /\ a.entry.term \in Term
  <2>1. log[i] \in Seq(Entry)
    BY DEF TypeInv, TypeOK
  <2>2. PICK k \in 1..Len(log[i]) : a = Link(k, TermAt(log[i], k - 1), log[i][k])
    BY <1>2 DEF LogLinks
  <2>3. a.entry = log[i][k] /\ log[i][k] \in Entry /\ a.index = k /\ k \in Nat
    BY <2>1, <2>2 DEF Link
  <2> QED BY <1>1, <2>3
<1>3. ASSUME NEW m \in calls, m.kind = "AppendEntries", a \in RequestLinks(m)
      PROVE  a.index \in Nat /\ a.entry.term \in Term
  <2>1. m.entries \in Seq(Entry) /\ m.prevLogIndex \in Nat
    BY <1>3, CallKinds DEF TypeInv, AppendRequest
  <2>2. PICK k \in 1..Len(m.entries) : /\ a.entry = m.entries[k]
                                       /\ a.index = m.prevLogIndex + k
    BY <1>3 DEF RequestLinks, Link
  <2> QED BY <1>1, <2>1, <2>2
<1> QED BY <1>2, <1>3 DEF Links

LEMMA HeartBeatsWonStep ==
    ASSUME TimelyElections, MatchInv, TimelyNext, ElectionInv'
    PROVE  HeartBeatsWon'
<1> USE DEF MatchInv
<1>1. Next /\ TypeInv
  BY TimelyIsRaft DEF WonInv
<1> SUFFICES ASSUME NEW h \in calls', h.kind = "AppendEntries"
             PROVE  h.src # h.dst /\ Winner(h.src, h.term)'
  BY DEF HeartBeatsWon, Winner, Granted, Majority
<1>2. CASE h \in calls
  <2>1. h.src \in Server /\ h.term \in Term
    BY <1>1, <1>2, CallKinds DEF TypeInv
  <2>2. h.src # h.dst /\ Winner(h.src, h.term)
    BY <1>2 DEF HeartBeatsWon
  <2>3. \A j \in Server, t \in Term : Winner(j, t) => Winner(j, t)'
    BY WinnerStays
  <2> QED BY <2>1, <2>2, <2>3 DEF Winner, Granted, Majority
<1>3. CASE h \notin calls
  <2>1. PICK i, j \in Server : /\ state[i] = "LEADER" /\ i # j
                              /\ h.src = i /\ h.dst = j /\ h.term = currentTerm[i]
    BY <1>1, <1>3, HeartBeatSenders DEF SendHeartBeat
  <2>2. currentTerm[i] \in Term /\ Winner(i, currentTerm[i])
    BY <2>1, LeadersHaveWon DEF LeadersWon
  <2>3. \A c \in Server, t \in Term : Winner(c, t) => Winner(c, t)'
    BY WinnerStays
  <2> QED BY <2>1, <2>2, <2>3 DEF Winner, Granted, Majority
<1> QED BY <1>2, <1>3

LEMMA EntriesWonStep ==
    ASSUME TimelyElections, MatchInv, TimelyNext, ElectionInv'
    PROVE  EntriesWon'
<1> USE DEF MatchInv
<1>1. Next /\ TypeInv
  BY TimelyIsRaft DEF WonInv
<1>2. \A j \in Server, t \in Term : Winner(j, t) => Winner(j, t)'
  BY WinnerStays
<1>3. ASSUME NEW a \in Links'
      PROVE  \E j \in Server, t \in Term : t = a.entry.term /\ Winner(j, t)
  <2>1. CASE a \in Links
    BY <1>1, <2>1, LinkTerms DEF EntriesWon
  <2>2. CASE a \notin Links
    <3>1. PICK i \in Server : state[i] = "LEADER" /\ a.entry.term = currentTerm[i]
      BY <1>1, <2>2, LinksStep DEF Start
    <3> QED BY <3>1, LeadersHaveWon DEF LeadersWon
  <2> QED BY <2>1, <2>2
<1>4. ASSUME NEW a \in Links'
      PROVE  \E j \in Server : Winner(j, a.entry.term)'
  <2>1. PICK j \in Server, t \in Term : t = a.entry.term /\ Winner(j, t)
    BY <1>3
  <2>2. Winner(j, t)'
    BY <1>2, <2>1
  <2> QED BY <2>1, <2>2 DEF Winner, Granted, Majority
<1> QED BY <1>4 DEF EntriesWon, Winner, Granted, Majority

LEMMA LeaderHasIndexStep ==
    ASSUME TimelyElections, MatchInv, TimelyNext, ElectionInv'
    PROVE  LeaderHasIndex'
<1> USE DEF MatchInv
<1> SUFFICES ASSUME NEW i \in Server, state'[i] = "LEADER",
                    NEW a \in Links', a.entry.term = currentTerm'[i]
             PROVE  a.index <= Len(log'[i])
  BY DEF LeaderHasIndex
<1> DEFINE t == a.entry.term
<1>1. Next /\ TypeInv /\ log \in [Server -> Seq(Entry)]
  BY TimelyIsRaft DEF WonInv, TypeInv, TypeOK
<1>2. LeadersWon' /\ OneWinner'
  BY LeadersHaveWon, WinnersAreOne, PTL
<1>3. \A j \in Server, u \in Term : Winner(j, u) => Winner(j, u)'
  BY WinnerStays
<1>4. t \in Term /\ Winner(i, t)'
  BY <1>2 DEF LeadersWon, Winner, Granted, Majority
<1>5. Len(log[i]) \in Nat /\ Len(log'[i]) \in Nat
  BY <1>1, TypeInvStep, SMTT(20) DEF TypeInv, TypeOK
<1>6. CASE a \in Links
  <2>1. CASE state[i] = "LEADER"
    <3>1. Len(log'[i]) >= Len(log[i])
      BY <1>1, <2>1, AppendOnlyStep
    <3>2. currentTerm[i] = currentTerm'[i]
      BY <2>1, PeerSteps DEF PeerStep, Stays, Campaigns, StepsDown, Votes, Wins
    <3>3. a.index <= Len(log[i])
      BY <1>6, <2>1, <3>2 DEF LeaderHasIndex
    <3>4. a.index \in Nat
      BY <1>1, <1>6, LinkTerms
    <3> QED BY <1>5, <3>1, <3>3, <3>4
  <2>2. CASE state[i] # "LEADER"
    <3>1. state[i] = "CANDIDATE" /\ currentTerm[i] = t
      BY <2>2, PeerSteps DEF PeerStep, Stays, Campaigns, StepsDown, Votes, Wins
    <3>2. PICK j \in Server : Winner(j, t)
      BY <1>6 DEF EntriesWon
    <3>3. i = j
      <4>1. Winner(j, t)'
        BY <1>3, <1>4, <3>2
      <4> HIDE DEF t
      <4> QED BY <1>2, <1>4, <4>1 DEF OneWinner, Winner, Granted, Majority
    <3>4. ~(currentTerm[i] > t)
      BY <1>4, <3>1, BoundAssumption DEF Term
    <3> QED BY <3>1, <3>2, <3>3, <3>4 DEF Winner
  <2> QED BY <2>1, <2>2
<1>7. CASE a \notin Links
  <2>1. PICK c \in Server : /\ state[c] = "LEADER" /\ state' = state
                           /\ a.index = Len(log[c]) + 1 /\ t = currentTerm[c]
                           /\ log' = [log EXCEPT ![c] = Append(log[c], a.entry)]
    BY <1>1, <1>7, LinksStep DEF Start, peerVars
  <2>2. Winner(c, t)'
    BY <1>3, <1>4, <2>1, LeadersHaveWon DEF LeadersWon
  <2>3. c = i
    <3> HIDE DEF t
    <3> QED BY <1>2, <1>4, <2>2 DEF OneWinner, Winner, Granted, Majority
  <2> QED BY <1>1, <2>1, <2>3
<1> QED BY <1>6, <1>7

LEMMA OneLinkStep ==
    ASSUME MatchInv, Next
    PROVE  OneLink'
<1> USE DEF MatchInv
<1>1. TypeInv
  BY DEF WonInv
<1>2. ASSUME NEW a \in Links', NEW b \in Links', a \notin Links, b \in Links,
             a.index = b.index, a.entry.term = b.entry.term
      PROVE  FALSE
  <2>1. PICK i \in Server : /\ state[i] = "LEADER"
                           /\ a.index = Len(log[i]) + 1
                           /\ a.entry.term = currentTerm[i]
    BY <1>1, <1>2, LinksStep DEF Start
  <2>2. b.index <= Len(log[i])
    BY <1>2, <2>1 DEF LeaderHasIndex
  <2>3. Len(log[i]) \in Nat
    BY <1>1 DEF TypeInv, TypeOK
  <2> QED BY <1>2, <2>1, <2>2, <2>3
<1>3. ASSUME NEW a \in Links', NEW b \in Links', a \notin Links, b \notin Links
      PROVE  a = b
  <2>1. log \in [Server -> Seq(Entry)]
    BY <1>1 DEF TypeInv, TypeOK
  <2>2. PICK i \in Server : /\ a.entry \in Entry
                           /\ a.index = Len(log[i]) + 1
                           /\ a = Link(a.index, LastTerm(log[i]), a.entry)
                           /\ log' = [log EXCEPT ![i] = Append(log[i], a.entry)]
    BY <1>1, <1>3, LinksStep
  <2>3. PICK j \in Server : /\ b.entry \in Entry
                           /\ b.index = Len(log[j]) + 1
                           /\ b = Link(b.index, LastTerm(log[j]), b.entry)
                           /\ log' = [log EXCEPT ![j] = Append(log[j], b.entry)]
    BY <1>1, <1>3, LinksStep
  <2>4. ASSUME NEW l \in Seq(Entry), NEW e \in Entry
        PROVE  Append(l, e) # l /\ Append(l, e)[Len(l) + 1] = e
    <3>1. Len(Append(l, e)) = Len(l) + 1 /\ Len(l) \in Nat
      OBVIOUS
    <3> QED BY <3>1
  <2>5. log[i] \in Seq(Entry) /\ log[j] \in Seq(Entry)
    BY <2>1
  <2>6. i = j
    BY <2>1, <2>2, <2>3, <2>4, <2>5
  <2>7. Append(log[i], a.entry) = Append(log[i], b.entry)
    BY <2>1, <2>2, <2>3, <2>6
  <2>8. a.entry = b.entry
    BY <2>2, <2>3, <2>4, <2>5, <2>7
  <2> QED BY <2>2, <2>3, <2>6, <2>8
<1>4. ASSUME NEW a \in Links', NEW b \in Links',
             a.index = b.index, a.entry.term = b.entry.term
      PROVE  a = b
  BY <1>2, <1>3, <1>4 DEF OneLink
<1> QED BY <1>4 DEF OneLink

LEMMA MatchInvStep ==
    ASSUME TimelyElections, MatchInv, [TimelyNext]_vars
    PROVE  MatchInv'
<1>1. ElectionInv' /\ WonInv'
  <2>1. [Next]_vars
    BY TimelyIsRaft
  <2> QED BY <2>1, ElectionInvStep, WonInvStep DEF MatchInv
<1>2. CASE TimelyNext
  <2>1. HeartBeatsWon' /\ EntriesWon' /\ LeaderHasIndex'
    BY <1>1, <1>2, HeartBeatsWonStep, EntriesWonStep, LeaderHasIndexStep
  <2>2. OneLink'
    BY <1>2, TimelyIsRaft, OneLinkStep
  <2> QED BY <1>1, <2>1, <2>2 DEF MatchInv
<1>3. CASE UNCHANGED vars
  <2>1. UNCHANGED <<state, currentTerm, log, voters, calls>>
    BY <1>3 DEF vars, peerVars, logVars, electionVars
  <2>2. Links' = Links
    BY <2>1 DEF Links
  <2>3. HeartBeatsWon'
    BY <2>1 DEF MatchInv, HeartBeatsWon, Winner, Granted, Majority
  <2>4. EntriesWon' /\ LeaderHasIndex' /\ OneLink'
    BY <2>1, <2>2 DEF MatchInv, EntriesWon, LeaderHasIndex, OneLink, Winner, Granted, Majority
  <2> QED BY <1>1, <2>3, <2>4 DEF MatchInv
<1> QED BY <1>2, <1>3

-----------------------------------------------------------------------------
(***************************************************************************)
(* Log matching.                                                           *)
(***************************************************************************)
\* Two logs whose links agree, and that have an entry of the same term at
\* index k, have entries of the same terms up to it: else take the last
\* index below k where the terms differ, and the link after it.
LEMMA SameTermsBelow ==
    ASSUME NEW l \in Seq(Entry), NEW r \in Seq(Entry), NEW k \in 1..Len(l), k <= Len(r),
           l[k].term = r[k].term,
           \A a \in LogLinks(l), b \in LogLinks(r) :
              a.index = b.index /\ a.entry.term = b.entry.term => a = b
    PROVE  \A n \in 1..k : l[n].term = r[n].term
<1> DEFINE Differ == {d \in Nat : d < k /\ l[k - d].term # r[k - d].term}
<1>1. Len(l) \in Nat /\ Len(r) \in Nat
  OBVIOUS
<1>2. CASE Differ = {}
  <2> SUFFICES ASSUME NEW n \in 1..k, l[n].term # r[n].term PROVE FALSE
    OBVIOUS
  <2>1. k - n \in Nat /\ k - n < k /\ k - (k - n) = n
    BY <1>1
  <2>2. k - n \in Differ
    BY <2>1
  <2> QED BY <1>2, <2>2
<1>3. CASE Differ # {}
  <2>1. PICK d \in Differ : \A y \in Differ : d <= y
    <3>1. Differ \in SUBSET Nat
      OBVIOUS
    <3> HIDE DEF Differ
    <3> QED BY <1>3, <3>1, LeastNat
  <2>2. d # 0 /\ d \in Nat /\ d < k /\ l[k - d].term # r[k - d].term
    BY <2>1
  <2> DEFINE n == k - d + 1
  <2>3. n \in 1..Len(l) /\ n \in 1..Len(r) /\ n - 1 # 0 /\ n - 1 = k - d /\ n = k - (d - 1)
    BY <1>1, <2>2
  <2>4. l[n].term = r[n].term
    <3>1. d - 1 \in Nat /\ d - 1 < k /\ ~(d <= d - 1)
      BY <1>1, <2>2
    <3>2. d - 1 \notin Differ
      BY <2>1, <3>1
    <3> HIDE DEF n
    <3> QED BY <2>3, <3>1, <3>2
  <2> HIDE DEF n, Differ
  <2>5. Link(n, TermAt(l, n - 1), l[n]) = Link(n, TermAt(r, n - 1), r[n])
    <3>1. /\ Link(n, TermAt(l, n - 1), l[n]) \in LogLinks(l)
          /\ Link(n, TermAt(r, n - 1), r[n]) \in LogLinks(r)
      BY <2>3, LogLink
    <3> QED BY <2>4, <3>1 DEF Link
  <2>6. TermAt(l, n - 1) = TermAt(r, n - 1)
    BY <2>5 DEF Link
  <2>7. l[n - 1].term = r[n - 1].term
    BY <2>3, <2>6 DEF TermAt
  <2> QED BY <2>2, <2>3, <2>7
<1> QED BY <1>2, <1>3

LEMMA MatchInvSafe == MatchInv => LogMatching
<1> SUFFICES ASSUME MatchInv, NEW i \in Server, NEW j \in Server,
                    NEW k \in 1..Len(log[i]), k <= Len(log[j]),
                    log[i][k].term = log[j][k].term, NEW n \in 1..k
             PROVE  log[i][n] = log[j][n]
  BY DEF LogMatching
<1> DEFINE l == log[i]
           r == log[j]
<1>1. l \in Seq(Entry) /\ r \in Seq(Entry)
  BY DEF MatchInv, WonInv, TypeInv, TypeOK
<1>2. \A a \in LogLinks(l), b \in LogLinks(r) :
         a.index = b.index /\ a.entry.term = b.entry.term => a = b
  BY DEF MatchInv, OneLink, Links
<1> HIDE DEF l, r
<1>3. k \in 1..Len(l) /\ k <= Len(r) /\ l[k].term = r[k].term
  BY DEF l, r
<1>4. l[n].term = r[n].term
  BY <1>1, <1>2, <1>3, SameTermsBelow
<1>5. n \in 1..Len(l) /\ n \in 1..Len(r)
  BY <1>1, <1>3
<1>6. /\ Link(n, TermAt(l, n - 1), l[n]) \in LogLinks(l)
      /\ Link(n, TermAt(r, n - 1), r[n]) \in LogLinks(r)
  BY <1>1, <1>5, LogLink
<1>7. l[n] = r[n]
  BY <1>2, <1>4, <1>6 DEF Link
<1> QED BY <1>7 DEF l, r

\* Two logs that hold an entry of the same term at the same index are equal
\* up to it, although AppendEntries cuts a log only where terms differ and
\* lets the rest stand, and heartbeats may be late, overtake each other or
\* carry what their sender has since been made to overwrite.
THEOREM LogsMatch == TimelyElections => (TimelySpec => []LogMatching)
<1> SUFFICES ASSUME TimelyElections PROVE TimelySpec => []LogMatching
  OBVIOUS
<1>1. MatchInv /\ [TimelyNext]_vars => MatchInv'
  BY MatchInvStep
<1> QED BY <1>1, MatchInvInit, MatchInvSafe, PTL DEF TimelySpec
=============================================================================
