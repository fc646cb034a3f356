-------------------------------- MODULE Raft --------------------------------
(***************************************************************************)
(* The Raft peer of mp2/src/raft/raft.go and the calls its goroutines make *)
(* over the lossy network of mp2/src/labrpc/labrpc.go.                     *)
(*                                                                         *)
(* Every critical section under rf.mu is one action, and nothing larger    *)
(* is: where the code unlocks and locks again (maintain before             *)
(* checkElectionTimeout, that before startElection, sendvote before        *)
(* TurnLeader, the two halves of sendHeartBeat around Call) other steps of *)
(* the same peer may come between.                                         *)
(*                                                                         *)
(* rf.log always starts with the zero entry that Make puts there.  It is   *)
(* left out, so that entry k of the code is log[k] here, len(rf.log) is    *)
(* Len(log) + 1, and index 0 has term 0 (TermAt).                          *)
(*                                                                         *)
(* Time is not modelled here: a timer may fire whenever the code waits for *)
(* it, so stopping and resetting one has no effect on this module.         *)
(***************************************************************************)
EXTENDS Integers, Sequences, FiniteSets, FiniteSetsExt

CONSTANTS
    Server,     \* the indices into rf.peers
    Value,      \* the commands given to Start
    NULL,       \* votedFor when no vote has been cast (-1 in the code)
    CallId,     \* bound: at most this many heartbeat calls are outstanding
    Killable,   \* the peers on which the tester may call Kill
    MaxTerm,    \* bound: no election is started beyond this term
    MaxElections, \* bound: how many elections are started in all
    MaxLog      \* bound: no command is accepted beyond this index

ASSUME ServerAssumption == IsFiniteSet(Server) /\ Server # {}
ASSUME NullAssumption == NULL \notin Server
ASSUME KillableAssumption == Killable \subseteq Server
ASSUME BoundAssumption == {MaxTerm, MaxElections, MaxLog} \subseteq Nat

VARIABLES
    state,        \* LEADER, CANDIDATE or FOLLOWER
    currentTerm,
    votedFor,
    log,          \* rf.log without its zero entry
    commitIndex,
    nextIndex,
    matchIndex,
    dead,         \* "no", "killed" by Kill, or "panic" on a bad index
    applied,      \* applied[i][k]: the entry whose command i last sent on
                  \* applyCh for index k
    checking,     \* maintain found a peer that now leads not leading, and
                  \* has yet to look at its electionTimer
    electing,     \* maintain is between TurnCandidate and startElection
    voters,       \* voters[i][t]: whose votes voteNum counts in i's election
                  \* with args.Term = t; empty when there was none
    winning,      \* how many sendvote goroutines are about to call TurnLeader
    calls         \* the requests and replies that labrpc carries

peerVars == <<state, currentTerm, votedFor, checking>>
logVars == <<log, commitIndex, applied>>
leaderVars == <<nextIndex, matchIndex>>
electionVars == <<electing, voters, winning>>
vars == <<peerVars, logVars, leaderVars, dead, electionVars, calls>>

Term == 1..MaxTerm
Entry == [term : Term, command : Value]

(***************************************************************************)
(* The RPCs.  "term" is args.Term, in a request and in its reply, and      *)
(* "last" the index of the last entry that args carries: the goroutine     *)
(* that made the call still holds its arguments.                           *)
(***************************************************************************)
VoteRequest ==
    [kind : {"RequestVote"}, src : Server, dst : Server, term : Term,
     lastLogIndex : Nat, lastLogTerm : 0..MaxTerm]
VoteReply ==
    [kind : {"RequestVoteReply"}, src : Server, dst : Server, term : Term,
     replyTerm : 0..MaxTerm, voteGranted : BOOLEAN]
AppendRequest ==
    [kind : {"AppendEntries"}, id : CallId, src : Server, dst : Server,
     term : Term, prevLogIndex : Nat, prevLogTerm : 0..MaxTerm,
     entries : Seq(Entry), leaderCommit : Nat]
AppendReply ==
    [kind : {"AppendEntriesReply"}, id : CallId, src : Server, dst : Server,
     term : Term, last : Nat, replyTerm : 0..MaxTerm, success : BOOLEAN]

-----------------------------------------------------------------------------
(***************************************************************************)
(* Helpers.  Some definitions are preceded by a version of theirs with a   *)
(* slip in it (AppendMissing before AppendNew): nothing uses these; they   *)
(* are substituted to see that the properties notice.                      *)
(***************************************************************************)
\* The test voteNum > len(rf.peers)/2, and total > half in sendHeartBeat.
Majority(S) == Cardinality(S) > Cardinality(Server) \div 2

TermAt(l, k) == IF k = 0 THEN 0 ELSE l[k].term
LastTerm(l) == TermAt(l, Len(l))

Running(i) == dead[i] = "no"

\* The heartbeat calls that have not returned.
HeartBeats == {m \in calls : m.kind \in {"AppendEntries", "AppendEntriesReply"}}

\* The elections started so far, one for each voteNum.
Elections ==
    {e \in Server \X Term : voters[e[1]][e[2]] # {}}
        \cup {<<i, 0>> : i \in {j \in Server : electing[j]}}

\* Replace the call m by its reply r, or take it away.
Answer(m, r) == calls' = (calls \ {m}) \cup {r}
Finish(m) == calls' = calls \ {m}

TurnFollower(i, t, v) ==
    /\ state' = [state EXCEPT ![i] = "FOLLOWER"]
    /\ currentTerm' = [currentTerm EXCEPT ![i] = t]
    /\ votedFor' = [votedFor EXCEPT ![i] = v]
    /\ checking' = [checking EXCEPT ![i] = FALSE]

\* rf.log with the entries that follow index prev written over it, from the
\* first one whose term differs or that is not there; rf.log itself when it
\* holds them all, and then what follows them stays.
AppendMissing(l, prev, entries) ==
    l \o SubSeq(entries, Len(l) - prev + 1, Len(entries))
AppendNew(l, prev, entries) ==
    LET differs == {k \in 1..Len(entries) :
                        \/ prev + k > Len(l)
                        \/ l[prev + k].term # entries[k].term}
        point == Min(differs)
    IN  IF differs = {}
        THEN l
        ELSE [k \in 1..(prev + Len(entries)) |->
                 IF k < prev + point THEN l[k] ELSE entries[k - prev]]

\* applymsg: the commands of log l from lastApplied to index c are sent.  It
\* is called whenever commitIndex changes and ends with lastApplied equal to
\* it, so that commitIndex before the step is lastApplied.  Should c be lower,
\* nothing is sent now, and what follows c is sent again later.
Deliver(i, l, c) ==
    applied' = [applied EXCEPT ![i] =
                   [k \in 1..Max({Len(@), c}) |->
                       IF k \in (commitIndex[i] + 1)..c THEN l[k] ELSE @[k]]]

\* The commit index of a leader whose followers match as in match.
CommitOf(match, last, commit) ==
    Max({commit} \cup
        {k \in (commit + 1)..last : Majority({j \in Server : match[j] >= k})})

-----------------------------------------------------------------------------
\* Make
Init ==
    /\ state = [i \in Server |-> "FOLLOWER"]
    /\ currentTerm = [i \in Server |-> 0]
    /\ votedFor = [i \in Server |-> NULL]
    /\ log = [i \in Server |-> <<>>]
    /\ commitIndex = [i \in Server |-> 0]
    /\ nextIndex = [i \in Server |-> [j \in Server |-> 1]]
    /\ matchIndex = [i \in Server |-> [j \in Server |-> 0]]
    /\ dead = [i \in Server |-> "no"]
    /\ applied = [i \in Server |-> <<>>]
    /\ checking = [i \in Server |-> FALSE]
    /\ electing = [i \in Server |-> FALSE]
    /\ voters = [i \in Server |-> [t \in Term |-> {}]]
    /\ winning = [i \in Server |-> 0]
    /\ calls = {}

\* checkElectionTimeout finds the timer fired and calls TurnCandidate.  It is
\* called for a peer that did not lead when maintain last looked.
ElectionTimeout(i) ==
    /\ Running(i)
    /\ state[i] = "LEADER" => checking[i]
    /\ ~electing[i]
    /\ currentTerm[i] < MaxTerm
    /\ Cardinality(Elections) < MaxElections
    /\ state' = [state EXCEPT ![i] = "CANDIDATE"]
    /\ currentTerm' = [currentTerm EXCEPT ![i] = @ + 1]
    /\ votedFor' = [votedFor EXCEPT ![i] = i]
    /\ checking' = [checking EXCEPT ![i] = FALSE]
    /\ electing' = [electing EXCEPT ![i] = TRUE]
    /\ UNCHANGED <<logVars, leaderVars, dead, voters, winning, calls>>

\* The voteNum of an election of i in term t starts with i's own vote; those
\* of its earlier elections are other variables, which nothing resets.
SharedCount(i, t) == [voters EXCEPT ![i] = [u \in Term |-> IF u = t THEN {i} ELSE {}]]
NewCount(i, t) == [voters EXCEPT ![i][t] = {i}]

\* startElection: the arguments are read under the lock again, whatever the
\* peer has become since TurnCandidate.  A killed peer gives up.
StartElection(i) ==
    /\ electing[i]
    /\ electing' = [electing EXCEPT ![i] = FALSE]
    /\ \/ /\ Running(i)
          /\ voters' = NewCount(i, currentTerm[i])
          /\ calls' = calls \cup
                 {[kind |-> "RequestVote", src |-> i, dst |-> j,
                   term |-> currentTerm[i],
                   lastLogIndex |-> Len(log[i]),
                   lastLogTerm |-> LastTerm(log[i])] : j \in Server \ {i}}
       \/ /\ dead[i] = "killed"
          /\ UNCHANGED <<voters, calls>>
    /\ UNCHANGED <<peerVars, logVars, leaderVars, dead, winning>>

\* Step 1 of RequestVote: an old term, or a vote given to another peer.
RefusedOnTermOnly(m) == m.term < currentTerm[m.dst]
Refused(m) ==
    \/ m.term < currentTerm[m.dst]
    \/ /\ m.term = currentTerm[m.dst]
       /\ votedFor[m.dst] \notin {NULL, m.src}

\* Step 2: the candidate's log is at least as good as the log l.
UpToDateByTermOnly(m, l) == LastTerm(l) <= m.lastLogTerm
UpToDate(m, l) ==
    \/ LastTerm(l) < m.lastLogTerm
    \/ LastTerm(l) = m.lastLogTerm /\ Len(l) <= m.lastLogIndex

\* RequestVote on the peer m.dst.
RequestVote(m) ==
    LET i == m.dst
        newer == m.term > currentTerm[i]
        voted == IF newer THEN NULL ELSE votedFor[i]
        granted == ~Refused(m) /\ UpToDate(m, log[i])
    IN  /\ m.kind = "RequestVote"
        /\ Running(i)
        /\ IF Refused(m)
           THEN UNCHANGED peerVars
           ELSE /\ currentTerm' = [currentTerm EXCEPT ![i] = m.term]
                /\ state' = [state EXCEPT ![i] =
                                IF newer THEN "FOLLOWER" ELSE @]
                /\ votedFor' = [votedFor EXCEPT ![i] =
                                   IF granted THEN m.src ELSE voted]
                /\ checking' = [checking EXCEPT ![i] =
                                   IF newer THEN FALSE ELSE @]
        /\ Answer(m, [kind |-> "RequestVoteReply", src |-> m.src, dst |-> i,
                      term |-> m.term, replyTerm |-> currentTerm'[i],
                      voteGranted |-> granted])
        /\ UNCHANGED <<logVars, leaderVars, dead, electionVars>>

\* The peer becomes leader; late says whether maintain has just found that it
\* was not one.
Lead(i, late) ==
    /\ state' = [state EXCEPT ![i] = "LEADER"]
    /\ checking' = [checking EXCEPT ![i] =
                       IF state[i] = "LEADER" THEN @ ELSE late]

\* The rest of sendvote, once Call has returned.  Nothing compares m.term
\* with currentTerm: a vote is counted in its own election's voteNum, but it
\* makes the peer leader of whatever term it is a candidate in by now.
VoteReturned(m, late) ==
    LET i == m.src
        counted == voters[i][m.term] \cup {m.dst}
    IN  /\ m.kind = "RequestVoteReply"
        /\ Finish(m)
        /\ \/ /\ ~Running(i) \/ state[i] # "CANDIDATE"
              /\ UNCHANGED <<peerVars, voters, winning>>
           \/ /\ Running(i) /\ state[i] = "CANDIDATE"
              /\ m.replyTerm > currentTerm[i]
              /\ TurnFollower(i, m.replyTerm, NULL)
              /\ UNCHANGED <<voters, winning>>
           \/ /\ Running(i) /\ state[i] = "CANDIDATE"
              /\ m.replyTerm <= currentTerm[i]
              /\ ~m.voteGranted
              /\ UNCHANGED <<peerVars, voters, winning>>
           \/ /\ Running(i) /\ state[i] = "CANDIDATE"
              /\ m.replyTerm <= currentTerm[i]
              /\ m.voteGranted
              /\ voters' = [voters EXCEPT ![i][m.term] = counted]
              /\ IF Majority(counted)
                 THEN /\ Lead(i, late)
                      /\ winning' = [winning EXCEPT ![i] = @ + 1]
                 ELSE UNCHANGED <<state, checking, winning>>
              /\ UNCHANGED <<currentTerm, votedFor>>
        /\ UNCHANGED <<logVars, leaderVars, dead, electing>>

\* What a new leader takes its followers' logs to be.
PastTheEnd(l) == [j \in Server |-> Len(l) + 2]
InitialNextIndex(l) == [j \in Server |-> Len(l) + 1]
NoneMatched == [j \in Server |-> -1]
InitialMatchIndex == [j \in Server |-> 0]

\* TurnLeader, called by sendvote after it has released the lock.
TurnLeader(i, late) ==
    /\ winning[i] > 0
    /\ dead[i] # "panic"
    /\ winning' = [winning EXCEPT ![i] = @ - 1]
    /\ Lead(i, late)
    /\ nextIndex' = [nextIndex EXCEPT ![i] = InitialNextIndex(log[i])]
    /\ matchIndex' = [matchIndex EXCEPT ![i] = InitialMatchIndex]
    /\ UNCHANGED <<currentTerm, votedFor, logVars, dead, electing, voters, calls>>

\* A heartbeat goroutine, spawned by TurnLeader or handleLeader, up to Call.
\* It may run at any later time; an index outside rf.log panics.
SendHeartBeat(i, j, id) ==
    LET next == nextIndex[i][j]
    IN  /\ i # j
        /\ Running(i)
        /\ state[i] = "LEADER"
        /\ \A m \in HeartBeats : m.id # id
        /\ IF next \in 1..(Len(log[i]) + 1)
           THEN /\ calls' = calls \cup
                       {[kind |-> "AppendEntries", id |-> id,
                         src |-> i, dst |-> j,
                         term |-> currentTerm[i],
                         prevLogIndex |-> next - 1,
                         prevLogTerm |-> TermAt(log[i], next - 1),
                         entries |-> SubSeq(log[i], next, Len(log[i])),
                         leaderCommit |-> commitIndex[i]]}
                /\ UNCHANGED dead
           ELSE /\ dead' = [dead EXCEPT ![i] = "panic"]
                /\ UNCHANGED calls
        /\ UNCHANGED <<peerVars, logVars, leaderVars, electionVars>>

AppendAnswer(m, t, ok) ==
    Answer(m, [kind |-> "AppendEntriesReply", id |-> m.id, src |-> m.src,
               dst |-> m.dst, term |-> m.term,
               last |-> m.prevLogIndex + Len(m.entries),
               replyTerm |-> t, success |-> ok])

\* AppendEntries on the peer m.dst, from a leader of an older term.
AppendRefused(m) ==
    /\ m.term < currentTerm[m.dst]
    /\ AppendAnswer(m, currentTerm[m.dst], FALSE)
    /\ UNCHANGED <<peerVars, logVars, dead>>

\* Steps 2 and 3 of AppendEntries: take over the term and step down.
\* TurnFollower forgets a vote cast in the same term.
AcknowledgeKeepingTerm(m) ==
    /\ m.term >= currentTerm[m.dst]
    /\ IF state[m.dst] # "FOLLOWER"
       THEN TurnFollower(m.dst, m.term, NULL)
       ELSE UNCHANGED peerVars
AcknowledgeAsLeader(m) ==
    /\ m.term >= currentTerm[m.dst]
    /\ currentTerm' = [currentTerm EXCEPT ![m.dst] = m.term]
    /\ UNCHANGED <<state, votedFor, checking>>
Acknowledge(m) ==
    LET i == m.dst
    IN  /\ m.term >= currentTerm[i]
        /\ TurnFollower(i, m.term,
               IF m.term > currentTerm[i] \/ state[i] # "FOLLOWER"
               THEN NULL ELSE votedFor[i])

HasPrev(m) ==
    LET l == log[m.dst]
    IN  /\ m.prevLogIndex <= Len(l)
        /\ TermAt(l, m.prevLogIndex) = m.prevLogTerm

\* Step 5: the entry before the new ones is not there.
AppendMismatch(m) ==
    /\ Acknowledge(m)
    /\ ~HasPrev(m)
    /\ AppendAnswer(m, m.term, FALSE)
    /\ UNCHANGED <<logVars, dead>>

\* Steps 6 to 8.  reply.Term keeps its zero value.  commitIndex is bounded by
\* len(rf.log), one more than the last index: applymsg then panics.
AppendAccepted(m) ==
    LET i == m.dst
        l == AppendNew(log[i], m.prevLogIndex, m.entries)
        c == IF m.leaderCommit > commitIndex[i]
             THEN Min({Len(l) + 1, m.leaderCommit})
             ELSE commitIndex[i]
    IN  /\ Acknowledge(m)
        /\ HasPrev(m)
        /\ log' = [log EXCEPT ![i] = l]
        /\ commitIndex' = [commitIndex EXCEPT ![i] = c]
        /\ IF c <= Len(l) \/ c <= commitIndex[i]
           THEN /\ Deliver(i, l, c)
                /\ AppendAnswer(m, 0, TRUE)
                /\ UNCHANGED dead
           ELSE /\ Deliver(i, l, Len(l))
                /\ Finish(m)
                /\ dead' = [dead EXCEPT ![i] = "panic"]

AppendEntries(m) ==
    /\ m.kind = "AppendEntries"
    /\ Running(m.dst)
    /\ AppendRefused(m) \/ AppendMismatch(m) \/ AppendAccepted(m)
    /\ UNCHANGED <<leaderVars, electionVars>>

\* The rest of sendHeartBeat, once Call has returned.  Nothing compares
\* m.term with currentTerm, and success is taken to cover the whole log as
\* it is now, not as it was when the entries were copied.
HeartBeatReturned(m) ==
    LET i == m.src
        j == m.dst
        leading == Running(i) /\ state[i] = "LEADER"
        match == [matchIndex[i] EXCEPT ![j] = Len(log[i])]
        c == CommitOf(match, Len(log[i]), commitIndex[i])
    IN  /\ m.kind = "AppendEntriesReply"
        /\ Finish(m)
        /\ \/ /\ ~leading
              /\ UNCHANGED <<peerVars, logVars, leaderVars>>
           \/ /\ leading
              /\ m.replyTerm > currentTerm[i]
              /\ TurnFollower(i, m.replyTerm, NULL)
              /\ UNCHANGED <<logVars, leaderVars>>
           \/ /\ leading
              /\ m.replyTerm <= currentTerm[i]
              /\ m.success
              /\ nextIndex' = [nextIndex EXCEPT ![i][j] = Len(log[i]) + 1]
              /\ matchIndex' = [matchIndex EXCEPT ![i] = match]
              /\ commitIndex' = [commitIndex EXCEPT ![i] = c]
              /\ Deliver(i, log[i], c)
              /\ UNCHANGED <<peerVars, log>>
           \/ /\ leading
              /\ m.replyTerm <= currentTerm[i]
              /\ ~m.success
              /\ nextIndex' = [nextIndex EXCEPT ![i][j] = @ - 1]
              /\ UNCHANGED <<peerVars, logVars, matchIndex>>
        /\ UNCHANGED <<dead, electionVars>>

\* Start on a leader; on any other peer it returns false and changes nothing.
Start(i, v) ==
    LET l == Append(log[i], [term |-> currentTerm[i], command |-> v])
    IN  /\ dead[i] # "panic"
        /\ state[i] = "LEADER"
        /\ Len(log[i]) < MaxLog
        /\ log' = [log EXCEPT ![i] = l]
        /\ matchIndex' = [matchIndex EXCEPT ![i][i] = Len(l)]
        /\ nextIndex' = [nextIndex EXCEPT ![i][i] = Len(l) + 1]
        /\ UNCHANGED <<peerVars, commitIndex, applied, dead, electionVars, calls>>

\* Kill
Kill(i) ==
    /\ i \in Killable
    /\ Running(i)
    /\ dead' = [dead EXCEPT ![i] = "killed"]
    /\ UNCHANGED <<peerVars, logVars, leaderVars, electionVars, calls>>

\* A handler of a killed peer returns at once: the reply is all zeroes.
KilledAnswer(m) ==
    /\ dead[m.dst] = "killed"
    /\ \/ /\ m.kind = "RequestVote"
          /\ Answer(m, [kind |-> "RequestVoteReply", src |-> m.src,
                        dst |-> m.dst, term |-> m.term, replyTerm |-> 0,
                        voteGranted |-> FALSE])
       \/ /\ m.kind = "AppendEntries"
          /\ AppendAnswer(m, 0, FALSE)
    /\ UNCHANGED <<peerVars, logVars, leaderVars, dead, electionVars>>

\* labrpc loses a request or a reply, or finds the end disabled: Call returns
\* false and the goroutine that made it ends without changing anything.  Only
\* heartbeats need this, to free their slot: a lost vote call is one whose
\* request or reply is never taken.
Lose(m) ==
    /\ m \in HeartBeats
    /\ Finish(m)
    /\ UNCHANGED <<peerVars, logVars, leaderVars, dead, electionVars>>

Next ==
    \/ \E i \in Server :
          \/ ElectionTimeout(i)
          \/ StartElection(i)
          \/ \E late \in BOOLEAN : TurnLeader(i, late)
          \/ Kill(i)
          \/ \E v \in Value : Start(i, v)
          \/ \E j \in Server, id \in CallId : SendHeartBeat(i, j, id)
    \/ \E m \in calls :
          \/ RequestVote(m)
          \/ \E late \in BOOLEAN : VoteReturned(m, late)
          \/ AppendEntries(m)
          \/ HeartBeatReturned(m)
          \/ KilledAnswer(m)
          \/ Lose(m)

Spec == Init /\ [][Next]_vars
-----------------------------------------------------------------------------
(***************************************************************************)
(* What holds of this code whatever the network and the scheduler do.      *)
(***************************************************************************)
Calls == VoteRequest \cup VoteReply \cup AppendRequest \cup AppendReply

\* Every variable keeps the type the struct declarations of raft.go give it,
\* terms never leave the bound, and only requests and replies are in flight.
TypeOK ==
    /\ state \in [Server -> {"LEADER", "CANDIDATE", "FOLLOWER"}]
    /\ currentTerm \in [Server -> 0..MaxTerm]
    /\ votedFor \in [Server -> Server \cup {NULL}]
    /\ log \in [Server -> Seq(Entry)]
    /\ commitIndex \in [Server -> Nat]
    /\ nextIndex \in [Server -> [Server -> Int]]
    /\ matchIndex \in [Server -> [Server -> Nat]]
    /\ dead \in [Server -> {"no", "killed", "panic"}]
    /\ applied \in [Server -> Seq(Entry)]
    /\ checking \in [Server -> BOOLEAN]
    /\ electing \in [Server -> BOOLEAN]
    /\ voters \in [Server -> [Term -> SUBSET Server]]
    /\ winning \in [Server -> Nat]
    /\ calls \subseteq Calls

\* The terms in a log never decrease.
Ascending(l) ==
    \A a, b \in 1..Len(l) : a <= b => l[a].term <= l[b].term

\* The terms in every log ascend and none is later than the term of the peer
\* that holds it, although AppendEntries cuts logs and splices in entries
\* copied earlier by a peer that may have lost its leadership since.
LogsAscend ==
    \A i \in Server :
        /\ Ascending(log[i])
        /\ \A k \in 1..Len(log[i]) : log[i][k].term <= currentTerm[i]

\* A peer acts as leader only after a majority voted for it in an election
\* it started in this or an earlier term, and no later startElection of the
\* same peer reuses that election's args.Term and resets its voteNum.
LeaderWonAnElection ==
    \A i \in Server :
        state[i] = "LEADER" \/ winning[i] > 0 =>
            \E t \in 1..currentTerm[i] : Majority(voters[i][t])

\* A peer that stays leader never deletes or overwrites an entry of its own
\* log: AppendEntries steps down before it cuts the log.
LeaderAppendOnly ==
    [][\A i \in Server :
          state[i] = "LEADER" /\ state'[i] = "LEADER" =>
              /\ Len(log'[i]) >= Len(log[i])
              /\ \A k \in 1..Len(log[i]) : log'[i][k] = log[i][k]]_vars

-----------------------------------------------------------------------------
(***************************************************************************)
(* What the tester of config.go checks of a Raft group.  The code gives    *)
(* them only in a timely environment (module RaftTimely).                  *)
(***************************************************************************)
\* No term has two leaders (checkOneLeader).
ElectionSafety ==
    \A i, j \in Server :
        /\ state[i] = "LEADER" /\ state[j] = "LEADER"
        /\ currentTerm[i] = currentTerm[j]
        => i = j

\* No two peers apply different commands at the same index (the reader of
\* applyCh in start1, and nCommitted).  Entries of different terms come from
\* different calls of Start, whose commands the tester makes distinct.
StateMachineSafety ==
    \A i, j \in Server :
        \A k \in 1..Len(applied[i]) :
            k <= Len(applied[j]) => applied[i][k] = applied[j][k]
=============================================================================
