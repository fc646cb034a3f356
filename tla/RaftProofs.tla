----------------------------- MODULE RaftProofs -----------------------------
(***************************************************************************)
(* What is proved about module Raft, for every set of peers, every set of  *)
(* commands and all bounds.                                                *)
(***************************************************************************)
EXTENDS Raft, CountProofs, SequenceTheorems

\* Only a peer that has started an election, and so has a term, campaigns or
\* leads; TypeOK needs it for the term of the entries that Start appends.
InATerm(i) ==
    state[i] # "FOLLOWER" \/ electing[i] \/ winning[i] > 0
        => currentTerm[i] \in Term

\* The commands up to commitIndex have all been sent at some time: applied
\* has no holes.
AppliedToCommit ==
    \A i \in Server : dead[i] # "panic" => commitIndex[i] <= Len(applied[i])

\* The inductive strengthening of TypeOK.
TypeInv ==
    /\ TypeOK
    /\ AppliedToCommit
    /\ \A i \in Server : InATerm(i)

-----------------------------------------------------------------------------
(***************************************************************************)
(* The helpers.                                                            *)
(***************************************************************************)
\* Min, as AppendNew uses it to find the first entry that differs.
LEMMA MinOf ==
    ASSUME NEW T \in SUBSET Nat, T # {}
    PROVE  Min(T) \in T /\ \A y \in T : Min(T) <= y
BY LeastNat DEF Min

\* Max of a bounded set of numbers, as CommitOf uses it.
LEMMA MaxOf ==
    ASSUME NEW T \in SUBSET Nat, T # {}, NEW n \in Nat, \A y \in T : y <= n
    PROVE  Max(T) \in T /\ \A y \in T : y <= Max(T)
<1> DEFINE U == {k \in Nat : \A y \in T : y <= k}
<1>1. PICK k \in U : \A y \in U : k <= y
  <2>1. n \in U /\ U \in SUBSET Nat
    OBVIOUS
  <2> HIDE DEF U
  <2> QED BY <2>1, LeastNat
<1>2. k \in T
  <2>1. CASE k = 0
    <3>1. PICK y \in T : TRUE
      OBVIOUS
    <3>2. y = 0
      BY <2>1, <3>1
    <3> QED BY <2>1, <3>1, <3>2
  <2>2. CASE k # 0 /\ k \notin T
    <3>1. k - 1 \in U
      BY <2>2
    <3> QED BY <3>1, <1>1
  <2> QED BY <2>1, <2>2
<1>3. \A y \in T : k >= y
  OBVIOUS
<1>4. PICK z \in T : \A y \in T : z >= y
  BY <1>2, <1>3
<1>5. Max(T) \in T /\ \A y \in T : Max(T) >= y
  BY <1>4 DEF Max
<1> QED BY <1>5

\* The log that AppendEntries leaves: what it takes from where, and that it
\* holds the new entries.
LEMMA AppendNewProps ==
    ASSUME NEW S, NEW l \in Seq(S), NEW prev \in Nat, prev <= Len(l),
           NEW entries \in Seq(S)
    PROVE  LET r == AppendNew(l, prev, entries)
           IN  /\ r \in Seq(S)
               /\ Len(r) >= prev + Len(entries)
               /\ \A k \in 1..Len(r) :
                     \/ k <= Len(l) /\ r[k] = l[k]
                     \/ k - prev \in 1..Len(entries) /\ r[k] = entries[k - prev]
               /\ \/ r = l
                  \/ /\ Len(r) = prev + Len(entries)
                     /\ \A k \in 1..prev : r[k] = l[k]
                     /\ \A k \in 1..Len(entries) : r[prev + k].term = entries[k].term
<1> DEFINE differs == {k \in 1..Len(entries) :
                           \/ prev + k > Len(l)
                           \/ l[prev + k].term # entries[k].term}
           point == Min(differs)
           r == AppendNew(l, prev, entries)
<1>1. Len(l) \in Nat /\ Len(entries) \in Nat
  OBVIOUS
<1>2. CASE differs = {}
  <2>1. r = l
    BY <1>2 DEF AppendNew
  <2>2. Len(l) >= prev + Len(entries)
    <3>1. CASE Len(entries) = 0
      BY <3>1
    <3>2. CASE Len(entries) # 0
      <4>1. Len(entries) \in 1..Len(entries)
        BY <3>2, <1>1
      <4>2. Len(entries) \notin differs
        BY <1>2
      <4> QED BY <4>1, <4>2, <1>1
    <3> QED BY <3>1, <3>2
  <2> QED BY <2>1, <2>2
<1>3. CASE differs # {}
  <2>1. point \in differs /\ \A y \in differs : point <= y
    <3>1. differs \in SUBSET Nat
      OBVIOUS
    <3> HIDE DEF differs
    <3> QED BY <3>1, <1>3, MinOf
  <2>2. r = [k \in 1..(prev + Len(entries)) |->
                IF k < prev + point THEN l[k] ELSE entries[k - prev]]
    BY <1>3 DEF AppendNew
  <2> HIDE DEF r, point
  <2>3. ASSUME NEW k \in 1..(prev + Len(entries))
        PROVE  \/ k <= Len(l) /\ r[k] = l[k]
               \/ k - prev \in 1..Len(entries) /\ r[k] = entries[k - prev]
    <3>1. CASE k < prev + point
      <4>1. k <= Len(l)
        <5>1. CASE k <= prev
          BY <5>1
        <5>2. CASE k > prev /\ k > Len(l)
          <6>1. k - prev \in differs
            BY <5>2, <1>1
          <6> QED BY <6>1, <2>1, <3>1
        <5> QED BY <5>1, <5>2, <1>1
      <4> QED BY <4>1, <3>1, <2>2
    <3>2. CASE k >= prev + point
      BY <3>2, <2>1, <2>2, <1>1
    <3> QED BY <3>1, <3>2, <2>1, <1>1
  <2>4. r \in Seq(S) /\ Len(r) = prev + Len(entries)
    <3>1. prev + Len(entries) \in Nat
      BY <1>1
    <3>2. \A k \in 1..(prev + Len(entries)) : r[k] \in S
      BY <2>3, <1>1
    <3>3. r \in [1..(prev + Len(entries)) -> S]
      BY <2>2, <3>2
    <3> QED BY <3>1, <3>3
  <2>5. ASSUME NEW k \in 1..prev PROVE r[k] = l[k]
    BY <2>1, <2>2, <1>1
  <2>6. ASSUME NEW k \in 1..Len(entries) PROVE r[prev + k].term = entries[k].term
    <3>1. prev + k \in 1..(prev + Len(entries)) /\ (prev + k) - prev = k
      BY <1>1
    <3>2. CASE k < point
      <4>1. k \notin differs
        BY <3>2, <2>1, <1>1
      <4>2. r[prev + k] = l[prev + k]
        BY <3>1, <3>2, <2>1, <2>2, <1>1
      <4> QED BY <4>1, <4>2
    <3>3. CASE ~(k < point)
      <4>1. r[prev + k] = entries[k]
        BY <3>1, <3>3, <2>1, <2>2, <1>1
      <4> QED BY <4>1
    <3> QED BY <3>2, <3>3
  <2> QED BY <2>3, <2>4, <2>5, <2>6, <1>1 DEF r
<1> QED BY <1>2, <1>3

\* The commit index that sendHeartBeat computes.
LEMMA CommitOfProps ==
    ASSUME NEW match, NEW last \in Nat, NEW commit \in Nat
    PROVE  LET c == CommitOf(match, last, commit)
           IN  c \in Nat /\ c >= commit /\ (c = commit \/ c <= last)
<1> DEFINE T == {commit} \cup
                {k \in (commit + 1)..last : Majority({j \in Server : match[j] >= k})}
           c == CommitOf(match, last, commit)
<1>1. c = Max(T)
  BY DEF CommitOf
<1>2. T \in SUBSET Nat /\ commit \in T /\ \A y \in T : y <= commit + last
  OBVIOUS
<1>3. \A y \in T : y = commit \/ y <= last
  OBVIOUS
<1> HIDE DEF T
<1>4. Max(T) \in T /\ \A y \in T : y <= Max(T)
  BY <1>2, MaxOf, commit + last \in Nat
<1>5. Max(T) \in Nat /\ Max(T) >= commit /\ (Max(T) = commit \/ Max(T) <= last)
  BY <1>2, <1>3, <1>4
<1> QED BY <1>1, <1>5

\* What applymsg leaves in applied.
LEMMA DeliverProps ==
    ASSUME TypeOK, NEW i \in Server, NEW l \in Seq(Entry), NEW c \in Nat,
           commitIndex[i] <= Len(applied[i]), c <= Len(l) \/ c <= commitIndex[i],
           Deliver(i, l, c)
    PROVE  /\ applied' \in [Server -> Seq(Entry)]
           /\ Len(applied'[i]) >= c
           /\ \A j \in Server \ {i} : applied'[j] = applied[j]
<1> DEFINE top == Max({Len(applied[i]), c})
           new == [k \in 1..top |-> IF k \in (commitIndex[i] + 1)..c
                                    THEN l[k] ELSE applied[i][k]]
<1>1. applied \in [Server -> Seq(Entry)] /\ applied[i] \in Seq(Entry)
  BY DEF TypeOK
<1>2. Len(applied[i]) \in Nat /\ commitIndex[i] \in Nat
  BY <1>1 DEF TypeOK
<1>3. top \in {Len(applied[i]), c} /\ Len(applied[i]) <= top /\ c <= top
  <2> DEFINE T == {Len(applied[i]), c}
  <2>1. T \in SUBSET Nat /\ \A y \in T : y <= Len(applied[i]) + c
    BY <1>2
  <2>2. Len(applied[i]) \in T /\ c \in T /\ Len(applied[i]) + c \in Nat
    BY <1>2
  <2>3. Max(T) \in T /\ \A y \in T : y <= Max(T)
    <3> HIDE DEF T
    <3> QED BY <2>1, <2>2, MaxOf
  <2> QED BY <2>3
<1>4. applied' = [applied EXCEPT ![i] = new]
  BY DEF Deliver
<1> HIDE DEF top
<1>5. new \in Seq(Entry) /\ Len(new) = top
  <2>1. top \in Nat
    BY <1>2, <1>3
  <2>2. ASSUME NEW k \in 1..top PROVE new[k] \in Entry
    BY <1>1, <1>2, <1>3, <2>1
  <2>3. new \in [1..top -> Entry]
    BY <2>2
  <2> HIDE DEF new
  <2> QED BY <2>1, <2>3
<1> HIDE DEF new
<1> QED BY <1>1, <1>3, <1>4, <1>5

\* The kind of a call determines its fields.
LEMMA CallKinds ==
    ASSUME TypeOK, NEW m \in calls
    PROVE  /\ m.kind = "RequestVote" => m \in VoteRequest
           /\ m.kind = "RequestVoteReply" => m \in VoteReply
           /\ m.kind = "AppendEntries" => m \in AppendRequest
           /\ m.kind = "AppendEntriesReply" => m \in AppendReply
           /\ m.src \in Server /\ m.dst \in Server /\ m.term \in Term
<1>1. m \in Calls
  BY DEF TypeOK
<1> QED BY <1>1 DEF Calls, VoteRequest, VoteReply, AppendRequest, AppendReply

\* The term at an index of a log.
LEMMA TermAtType ==
    ASSUME NEW l \in Seq(Entry), NEW k \in 0..Len(l)
    PROVE  TermAt(l, k) \in 0..MaxTerm
<1>1. CASE k = 0
  BY <1>1, BoundAssumption DEF TermAt
<1>2. CASE k # 0
  <2>1. l[k] \in Entry
    BY <1>2
  <2> QED BY <1>2, <2>1, BoundAssumption DEF TermAt, Entry, Term
<1> QED BY <1>1, <1>2

-----------------------------------------------------------------------------
(***************************************************************************)
(* Every action keeps TypeInv.                                             *)
(***************************************************************************)
LEMMA TypeInvInit == Init => TypeInv
<1> USE BoundAssumption, NullAssumption
<1>1. ASSUME Init PROVE TypeOK
  BY <1>1 DEF Init, TypeOK, Entry, Term
<1>2. ASSUME Init PROVE AppliedToCommit /\ \A i \in Server : InATerm(i)
  BY <1>2 DEF Init, AppliedToCommit, InATerm
<1> QED BY <1>1, <1>2 DEF TypeInv

LEMMA ElectionTimeoutType ==
    ASSUME TypeInv, NEW i \in Server, ElectionTimeout(i)
    PROVE  TypeInv'
<1> USE BoundAssumption DEF ElectionTimeout, logVars, leaderVars
<1>1. currentTerm[i] + 1 \in Term
  BY DEF TypeInv, TypeOK, Term
<1>2. TypeOK'
  BY <1>1 DEF TypeInv, TypeOK, Term
<1>3. AppliedToCommit'
  BY DEF TypeInv, AppliedToCommit
<1>4. \A j \in Server : InATerm(j)'
  BY <1>1 DEF TypeInv, TypeOK, InATerm
<1> QED BY <1>2, <1>3, <1>4 DEF TypeInv

LEMMA StartElectionType ==
    ASSUME TypeInv, NEW i \in Server, StartElection(i)
    PROVE  TypeInv'
<1> USE DEF StartElection, peerVars, logVars, leaderVars
<1>1. currentTerm[i] \in Term
  BY DEF TypeInv, InATerm
<1>2. calls' \subseteq Calls
  <2>1. Len(log[i]) \in Nat /\ LastTerm(log[i]) \in 0..MaxTerm
    BY TermAtType DEF TypeInv, TypeOK, LastTerm
  <2> QED BY <1>1, <2>1 DEF TypeInv, TypeOK, Calls, VoteRequest
<1>3. voters' \in [Server -> [Term -> SUBSET Server]]
  <2>1. voters \in [Server -> [Term -> SUBSET Server]]
    BY DEF TypeInv, TypeOK
  <2>2. voters' = voters \/ voters' = [voters EXCEPT ![i][currentTerm[i]] = {i}]
    BY DEF NewCount
  <2> QED BY <1>1, <2>1, <2>2, SMTT(20)
<1>4. TypeOK'
  BY <1>2, <1>3 DEF TypeInv, TypeOK
<1>5. AppliedToCommit'
  BY DEF TypeInv, AppliedToCommit
<1>6. \A j \in Server : InATerm(j)'
  BY DEF TypeInv, TypeOK, InATerm
<1> QED BY <1>4, <1>5, <1>6 DEF TypeInv

LEMMA RequestVoteType ==
    ASSUME TypeInv, NEW m \in calls, RequestVote(m)
    PROVE  TypeInv'
<1> USE BoundAssumption DEF RequestVote, peerVars, logVars, leaderVars, electionVars
<1>1. m \in VoteRequest
  BY CallKinds DEF TypeInv
<1>2. m.src \in Server /\ m.dst \in Server /\ m.term \in Term
  BY <1>1 DEF VoteRequest
<1>3. /\ state' \in [Server -> {"LEADER", "CANDIDATE", "FOLLOWER"}]
      /\ currentTerm' \in [Server -> 0..MaxTerm]
      /\ votedFor' \in [Server -> Server \cup {NULL}]
      /\ checking' \in [Server -> BOOLEAN]
  <2>1. CASE Refused(m)
    BY <2>1 DEF TypeInv, TypeOK
  <2>2. CASE ~Refused(m)
    <3>1. m.term \in 0..MaxTerm
      BY <1>2 DEF Term
    <3>2. currentTerm' \in [Server -> 0..MaxTerm]
      BY <2>2, <3>1 DEF TypeInv, TypeOK
    <3>3. state' \in [Server -> {"LEADER", "CANDIDATE", "FOLLOWER"}]
      <4>1. state' = [state EXCEPT ![m.dst] =
                         IF m.term > currentTerm[m.dst] THEN "FOLLOWER" ELSE @]
        BY <2>2, Zenon
      <4> QED BY <4>1 DEF TypeInv, TypeOK
    <3>4. votedFor' \in [Server -> Server \cup {NULL}]
      <4>1. PICK v \in {m.src, NULL, votedFor[m.dst]} :
                votedFor' = [votedFor EXCEPT ![m.dst] = v]
        BY <2>2, Zenon
      <4> QED BY <4>1, <1>2 DEF TypeInv, TypeOK
    <3>5. checking' \in [Server -> BOOLEAN]
      <4>1. PICK b \in {FALSE, checking[m.dst]} :
                checking' = [checking EXCEPT ![m.dst] = b]
        BY <2>2, Zenon
      <4> QED BY <4>1, <1>2 DEF TypeInv, TypeOK
    <3> QED BY <3>2, <3>3, <3>4, <3>5
  <2> QED BY <2>1, <2>2
<1>4. calls' \subseteq Calls
  <2> DEFINE g == ~Refused(m) /\ UpToDate(m, log[m.dst])
             r == [kind |-> "RequestVoteReply", src |-> m.src, dst |-> m.dst,
                   term |-> m.term, replyTerm |-> currentTerm'[m.dst],
                   voteGranted |-> g]
  <2>1. calls' = (calls \ {m}) \cup {r}
    BY DEF Answer
  <2>2. g \in BOOLEAN
    OBVIOUS
  <2> HIDE DEF g
  <2>3. r \in VoteReply
    BY <2>2, <1>2, <1>3 DEF VoteReply
  <2> QED BY <2>1, <2>3 DEF TypeInv, TypeOK, Calls
<1>5. TypeOK'
  BY <1>3, <1>4 DEF TypeInv, TypeOK
<1>6. AppliedToCommit'
  BY DEF TypeInv, AppliedToCommit
<1>7. \A j \in Server : InATerm(j)'
  BY <1>2, ZenonT(40) DEF TypeInv, TypeOK, InATerm, Term, Refused
<1> QED BY <1>5, <1>6, <1>7 DEF TypeInv

LEMMA VoteReturnedType ==
    ASSUME TypeInv, NEW m \in calls, NEW late \in BOOLEAN, VoteReturned(m, late)
    PROVE  TypeInv'
<1> DEFINE i == m.src
           counted == voters[i][m.term] \cup {m.dst}
<1>1. m \in VoteReply
  BY CallKinds DEF TypeInv, VoteReturned
<1>2. m.src \in Server /\ m.dst \in Server /\ m.term \in Term /\ m.replyTerm \in 0..MaxTerm
  BY <1>1 DEF VoteReply
<1>3. /\ UNCHANGED <<logVars, leaderVars, dead, electing>>
      /\ calls' = calls \ {m}
  BY DEF VoteReturned, Finish
<1>4. CASE UNCHANGED <<peerVars, voters, winning>>
  BY <1>3, <1>4 DEF TypeInv, TypeOK, AppliedToCommit, InATerm, peerVars, logVars,
                    leaderVars
<1>5. CASE /\ m.replyTerm > currentTerm[i]
           /\ TurnFollower(i, m.replyTerm, NULL)
           /\ UNCHANGED <<voters, winning>>
  <2>1. TypeOK'
    BY <1>2, <1>3, <1>5 DEF TypeInv, TypeOK, TurnFollower, logVars, leaderVars
  <2>2. AppliedToCommit'
    BY <1>3 DEF TypeInv, AppliedToCommit, logVars
  <2>3. \A j \in Server : InATerm(j)'
    <3>1. m.replyTerm \in Term
      BY <1>2, <1>5, BoundAssumption DEF TypeInv, TypeOK, Term
    <3>2. currentTerm' = [currentTerm EXCEPT ![i] = m.replyTerm]
      BY <1>5 DEF TurnFollower
    <3>3. \A j \in Server \ {i} : state'[j] = state[j]
      BY <1>5 DEF TurnFollower, TypeInv, TypeOK
    <3> QED BY <1>3, <1>5, <3>1, <3>2, <3>3 DEF TypeInv, TypeOK, InATerm
  <2> QED BY <2>1, <2>2, <2>3 DEF TypeInv
<1>6. CASE /\ state[i] = "CANDIDATE"
           /\ voters' = [voters EXCEPT ![i][m.term] = counted]
           /\ UNCHANGED <<currentTerm, votedFor>>
           /\ \/ Lead(i, late) /\ winning' = [winning EXCEPT ![i] = @ + 1]
              \/ UNCHANGED <<state, checking, winning>>
  <2>1. voters' \in [Server -> [Term -> SUBSET Server]]
    <3>1. voters \in [Server -> [Term -> SUBSET Server]]
      BY DEF TypeInv, TypeOK
    <3>2. counted \in SUBSET Server
      BY <3>1, <1>2
    <3> HIDE DEF counted
    <3> QED BY <1>2, <1>6, <3>1, <3>2
  <2>2. checking' \in [Server -> BOOLEAN]
    BY <1>6 DEF TypeInv, TypeOK, Lead
  <2>3. TypeOK'
    <3>1. /\ state' \in [Server -> {"LEADER", "CANDIDATE", "FOLLOWER"}]
          /\ winning' \in [Server -> Nat]
      <4>1. CASE /\ state' = [state EXCEPT ![i] = "LEADER"]
                 /\ winning' = [winning EXCEPT ![i] = @ + 1]
        <5>1. winning[i] + 1 \in Nat
          <6>1. winning \in [Server -> Nat]
            BY DEF TypeInv, TypeOK
          <6> QED BY <1>2, <6>1
        <5> QED BY <4>1, <5>1 DEF TypeInv, TypeOK
      <4>2. CASE UNCHANGED <<state, winning>>
        BY <4>2 DEF TypeInv, TypeOK
      <4> QED BY <1>6, <4>1, <4>2 DEF Lead
    <3> QED BY <1>3, <1>6, <2>1, <2>2, <3>1 DEF TypeInv, TypeOK, logVars, leaderVars
  <2>4. AppliedToCommit'
    BY <1>3 DEF TypeInv, AppliedToCommit, logVars
  <2>5. \A j \in Server : InATerm(j)'
    BY <1>2, <1>3, <1>6 DEF TypeInv, TypeOK, InATerm, Lead
  <2> QED BY <2>3, <2>4, <2>5 DEF TypeInv
<1> QED BY <1>4, <1>5, <1>6 DEF VoteReturned

LEMMA TurnLeaderType ==
    ASSUME TypeInv, NEW i \in Server, NEW late \in BOOLEAN, TurnLeader(i, late)
    PROVE  TypeInv'
<1> USE DEF TurnLeader, Lead, logVars
<1>1. currentTerm[i] \in Term
  BY DEF TypeInv, InATerm
<1>2. checking' \in [Server -> BOOLEAN]
  BY DEF TypeInv, TypeOK
<1>3. /\ nextIndex' \in [Server -> [Server -> Int]]
      /\ matchIndex' \in [Server -> [Server -> Nat]]
  BY DEF TypeInv, TypeOK, InitialNextIndex, InitialMatchIndex
<1>4. TypeOK'
  <2>1. /\ state' \in [Server -> {"LEADER", "CANDIDATE", "FOLLOWER"}]
        /\ winning' \in [Server -> Nat]
    BY DEF TypeInv, TypeOK
  <2> QED BY <1>2, <1>3, <2>1 DEF TypeInv, TypeOK
<1>5. AppliedToCommit'
  BY DEF TypeInv, AppliedToCommit
<1>6. \A j \in Server : InATerm(j)'
  BY <1>1 DEF TypeInv, TypeOK, InATerm
<1> QED BY <1>4, <1>5, <1>6 DEF TypeInv

LEMMA SendHeartBeatType ==
    ASSUME TypeInv, NEW i \in Server, NEW j \in Server, NEW id \in CallId,
           SendHeartBeat(i, j, id)
    PROVE  TypeInv'
<1> DEFINE next == nextIndex[i][j]
           l == log[i]
           r == [kind |-> "AppendEntries", id |-> id, src |-> i, dst |-> j,
                 term |-> currentTerm[i], prevLogIndex |-> next - 1,
                 prevLogTerm |-> TermAt(l, next - 1),
                 entries |-> SubSeq(l, next, Len(l)),
                 leaderCommit |-> commitIndex[i]]
<1>1. /\ UNCHANGED <<peerVars, logVars, leaderVars, electionVars>>
      /\ state[i] = "LEADER"
  BY DEF SendHeartBeat
<1>2. /\ currentTerm[i] \in Term
      /\ l \in Seq(Entry) /\ Len(l) \in Nat
      /\ next \in Int
      /\ commitIndex[i] \in Nat
  BY <1>1, SMTT(20) DEF TypeInv, TypeOK, InATerm
<1>3. calls' \subseteq Calls
  <2>1. CASE next \in 1..(Len(l) + 1) /\ calls' = calls \cup {r}
    <3>1. next - 1 \in Nat /\ TermAt(l, next - 1) \in 0..MaxTerm
      BY <1>2, <2>1, TermAtType
    <3>2. SubSeq(l, next, Len(l)) \in Seq(Entry)
      BY <1>2, <2>1
    <3>3. r \in AppendRequest
      BY <1>2, <3>1, <3>2 DEF AppendRequest
    <3> QED BY <2>1, <3>3 DEF TypeInv, TypeOK, Calls
  <2>2. CASE calls' = calls
    BY <2>2 DEF TypeInv, TypeOK
  <2> QED BY <2>1, <2>2 DEF SendHeartBeat
<1>4. dead' \in [Server -> {"no", "killed", "panic"}]
  BY DEF TypeInv, TypeOK, SendHeartBeat
<1>5. TypeOK'
  BY <1>1, <1>3, <1>4 DEF TypeInv, TypeOK, peerVars, logVars, leaderVars, electionVars
<1>6. AppliedToCommit'
  <2>1. \A k \in Server : dead'[k] # "panic" => dead[k] # "panic"
    BY DEF TypeInv, TypeOK, SendHeartBeat
  <2> QED BY <1>1, <2>1 DEF TypeInv, AppliedToCommit, logVars
<1>7. \A k \in Server : InATerm(k)'
  BY <1>1 DEF TypeInv, InATerm, peerVars, electionVars
<1> QED BY <1>5, <1>6, <1>7 DEF TypeInv

\* Acknowledge leaves the peer a follower in the term of the heartbeat.
LEMMA AcknowledgeType ==
    ASSUME TypeInv, NEW m \in AppendRequest, Acknowledge(m)
    PROVE  /\ state' \in [Server -> {"LEADER", "CANDIDATE", "FOLLOWER"}]
           /\ currentTerm' \in [Server -> 0..MaxTerm]
           /\ votedFor' \in [Server -> Server \cup {NULL}]
           /\ checking' \in [Server -> BOOLEAN]
           /\ \A i \in Server : state'[i] = state[i] \/ state'[i] = "FOLLOWER"
           /\ \A i \in Server : currentTerm'[i] >= currentTerm[i]
<1> DEFINE i == m.dst
<1>1. i \in Server /\ m.term \in 0..MaxTerm /\ m.term >= currentTerm[i]
  BY BoundAssumption DEF AppendRequest, Term, Acknowledge
<1>2. PICK v \in {NULL, votedFor[i]} : TurnFollower(i, m.term, v)
  <2>1. CASE m.term > currentTerm[i] \/ state[i] # "FOLLOWER"
    BY <2>1, Zenon DEF Acknowledge
  <2>2. CASE ~(m.term > currentTerm[i] \/ state[i] # "FOLLOWER")
    BY <2>2, Zenon DEF Acknowledge
  <2> QED BY <2>1, <2>2
<1>3. /\ state' = [state EXCEPT ![i] = "FOLLOWER"]
      /\ currentTerm' = [currentTerm EXCEPT ![i] = m.term]
      /\ votedFor' = [votedFor EXCEPT ![i] = v]
      /\ checking' = [checking EXCEPT ![i] = FALSE]
  BY <1>2 DEF TurnFollower
<1>4. /\ state \in [Server -> {"LEADER", "CANDIDATE", "FOLLOWER"}]
      /\ currentTerm \in [Server -> 0..MaxTerm]
      /\ votedFor \in [Server -> Server \cup {NULL}]
      /\ checking \in [Server -> BOOLEAN]
  BY DEF TypeInv, TypeOK
<1>5. v \in Server \cup {NULL}
  BY <1>1, <1>2, <1>4
<1>6. \A k \in Server : currentTerm'[k] >= currentTerm[k]
  BY <1>1, <1>3, <1>4, BoundAssumption
<1> QED BY <1>1, <1>3, <1>4, <1>5, <1>6

LEMMA AppendEntriesType ==
    ASSUME TypeInv, NEW m \in calls, AppendEntries(m)
    PROVE  TypeInv'
<1> DEFINE i == m.dst
           l == AppendNew(log[i], m.prevLogIndex, m.entries)
           c == IF m.leaderCommit > commitIndex[i]
                THEN Min({Len(l) + 1, m.leaderCommit})
                ELSE commitIndex[i]
<1>1. /\ m \in AppendRequest
      /\ UNCHANGED <<leaderVars, electionVars>>
      /\ dead[i] = "no"
  BY CallKinds DEF TypeInv, AppendEntries, Running
<1>2. /\ m.id \in CallId /\ m.src \in Server /\ i \in Server /\ m.term \in Term
      /\ m.term \in 0..MaxTerm
      /\ m.prevLogIndex \in Nat /\ m.entries \in Seq(Entry) /\ m.leaderCommit \in Nat
  BY <1>1, BoundAssumption DEF AppendRequest, Term
<1>3. /\ log[i] \in Seq(Entry) /\ Len(log[i]) \in Nat /\ commitIndex[i] \in Nat
      /\ commitIndex[i] <= Len(applied[i]) /\ currentTerm[i] \in 0..MaxTerm
  <2>1. commitIndex[i] <= Len(applied[i])
    BY <1>1, <1>2 DEF TypeInv, AppliedToCommit
  <2> QED BY <1>2, <2>1 DEF TypeInv, TypeOK
<1>4. ASSUME NEW t \in 0..MaxTerm, NEW ok \in BOOLEAN, AppendAnswer(m, t, ok)
      PROVE  calls' \subseteq Calls
  <2> DEFINE r == [kind |-> "AppendEntriesReply", id |-> m.id, src |-> m.src,
                   dst |-> m.dst, term |-> m.term,
                   last |-> m.prevLogIndex + Len(m.entries),
                   replyTerm |-> t, success |-> ok]
  <2>1. r \in AppendReply
    <3>1. m.prevLogIndex + Len(m.entries) \in Nat
      BY <1>2
    <3> QED BY <1>2, <3>1 DEF AppendReply
  <2>2. calls' = (calls \ {m}) \cup {r}
    BY <1>4 DEF AppendAnswer, Answer
  <2> QED BY <2>1, <2>2 DEF TypeInv, TypeOK, Calls
<1>5. CASE AppendRefused(m)
  <2>1. calls' \subseteq Calls
    BY <1>3, <1>4, <1>5 DEF AppendRefused
  <2>2. TypeOK'
    BY <1>1, <1>5, <2>1 DEF AppendRefused, TypeInv, TypeOK, peerVars, logVars,
                            leaderVars, electionVars
  <2> QED BY <1>1, <1>5, <2>2 DEF AppendRefused, TypeInv, AppliedToCommit, InATerm,
                                  peerVars, logVars, electionVars
<1>6. CASE Acknowledge(m)
  <2>1. /\ state' \in [Server -> {"LEADER", "CANDIDATE", "FOLLOWER"}]
        /\ currentTerm' \in [Server -> 0..MaxTerm]
        /\ votedFor' \in [Server -> Server \cup {NULL}]
        /\ checking' \in [Server -> BOOLEAN]
        /\ \A j \in Server : state'[j] = state[j] \/ state'[j] = "FOLLOWER"
        /\ \A j \in Server : currentTerm'[j] >= currentTerm[j]
    BY <1>1, <1>6, AcknowledgeType
  <2>2. \A j \in Server : InATerm(j)'
    BY <1>1, <2>1, BoundAssumption DEF TypeInv, TypeOK, InATerm, Term, electionVars
  <2>3. CASE AppendMismatch(m)
    <3>1. calls' \subseteq Calls
      BY <1>2, <1>4, <2>3 DEF AppendMismatch
    <3>2. TypeOK'
      BY <1>1, <2>1, <2>3, <3>1 DEF AppendMismatch, TypeInv, TypeOK, logVars, leaderVars,
                                    electionVars
    <3>3. AppliedToCommit'
      BY <2>3 DEF AppendMismatch, TypeInv, AppliedToCommit, logVars
    <3> QED BY <2>2, <3>2, <3>3 DEF TypeInv
  <2>4. CASE AppendAccepted(m)
    <3>1. m.prevLogIndex <= Len(log[i])
      BY <2>4 DEF AppendAccepted, HasPrev
    <3>2. l \in Seq(Entry) /\ Len(l) \in Nat
      BY <1>2, <1>3, <3>1, AppendNewProps
    <3>3. /\ log' = [log EXCEPT ![i] = l]
          /\ commitIndex' = [commitIndex EXCEPT ![i] = c]
          /\ \/ /\ c <= Len(l) \/ c <= commitIndex[i]
                /\ Deliver(i, l, c)
                /\ AppendAnswer(m, 0, TRUE)
                /\ UNCHANGED dead
             \/ /\ ~(c <= Len(l) \/ c <= commitIndex[i])
                /\ Deliver(i, l, Len(l))
                /\ Finish(m)
                /\ dead' = [dead EXCEPT ![i] = "panic"]
      BY <2>4, Zenon DEF AppendAccepted
    <3> HIDE DEF l
    <3>4. c \in Nat
      <4>1. Min({Len(l) + 1, m.leaderCommit}) \in {Len(l) + 1, m.leaderCommit}
        <5>1. {Len(l) + 1, m.leaderCommit} \in SUBSET Nat
          BY <1>2, <3>2
        <5> QED BY <5>1, MinOf
      <4>2. CASE m.leaderCommit > commitIndex[i]
        <5>1. c = Min({Len(l) + 1, m.leaderCommit})
          BY <4>2
        <5> QED BY <1>2, <1>3, <3>2, <4>1, <4>2, <5>1
      <4>3. CASE ~(m.leaderCommit > commitIndex[i])
        BY <1>3, <3>2, <4>3
      <4> QED BY <4>2, <4>3
    <3> HIDE DEF c
    <3>5. CASE /\ c <= Len(l) \/ c <= commitIndex[i]
               /\ Deliver(i, l, c)
               /\ AppendAnswer(m, 0, TRUE)
               /\ UNCHANGED dead
      <4>1. /\ applied' \in [Server -> Seq(Entry)]
            /\ Len(applied'[i]) >= c
            /\ \A j \in Server \ {i} : applied'[j] = applied[j]
        BY <1>2, <1>3, <3>2, <3>4, <3>5, DeliverProps DEF TypeInv
      <4>2. calls' \subseteq Calls
        <5>1. 0 \in 0..MaxTerm /\ TRUE \in BOOLEAN
          BY BoundAssumption
        <5> QED BY <1>4, <3>5, <5>1
      <4>3. TypeOK'
        BY <1>1, <2>1, <3>2, <3>3, <3>4, <3>5, <4>1, <4>2
           DEF TypeInv, TypeOK, leaderVars, electionVars
      <4>4. AppliedToCommit'
        BY <3>3, <3>5, <4>1 DEF TypeInv, TypeOK, AppliedToCommit
      <4> QED BY <2>2, <4>3, <4>4 DEF TypeInv
    <3>6. CASE /\ ~(c <= Len(l) \/ c <= commitIndex[i])
               /\ Deliver(i, l, Len(l))
               /\ Finish(m)
               /\ dead' = [dead EXCEPT ![i] = "panic"]
      <4>2. /\ applied' \in [Server -> Seq(Entry)]
            /\ \A j \in Server \ {i} : applied'[j] = applied[j]
        <5>1. TypeOK /\ Len(l) <= Len(l)
          BY <3>2 DEF TypeInv
        <5> QED BY <1>2, <1>3, <3>2, <3>6, <5>1, DeliverProps
      <4>3. calls' \subseteq Calls
        BY <3>6 DEF Finish, TypeInv, TypeOK
      <4>4. TypeOK'
        BY <1>1, <2>1, <3>2, <3>3, <3>4, <3>6, <4>2, <4>3
           DEF TypeInv, TypeOK, leaderVars, electionVars
      <4>5. AppliedToCommit'
        BY <3>3, <3>6, <4>2 DEF TypeInv, TypeOK, AppliedToCommit
      <4> QED BY <2>2, <4>4, <4>5 DEF TypeInv
    <3> QED BY <3>3, <3>5, <3>6
  <2> QED BY <1>5, <2>3, <2>4 DEF AppendEntries
<1> QED BY <1>5, <1>6 DEF AppendEntries, AppendMismatch, AppendAccepted

LEMMA HeartBeatReturnedType ==
    ASSUME TypeInv, NEW m \in calls, HeartBeatReturned(m)
    PROVE  TypeInv'
<1> DEFINE i == m.src
           j == m.dst
           match == [matchIndex[i] EXCEPT ![j] = Len(log[i])]
           c == CommitOf(match, Len(log[i]), commitIndex[i])
<1>1. m \in AppendReply
  BY CallKinds DEF TypeInv, HeartBeatReturned
<1>2. i \in Server /\ j \in Server /\ m.replyTerm \in 0..MaxTerm
  BY <1>1 DEF AppendReply
<1>3. UNCHANGED <<dead, electionVars>> /\ calls' = calls \ {m}
  BY DEF HeartBeatReturned, Finish
<1>4. CASE UNCHANGED <<peerVars, logVars, leaderVars>>
  <2>1. TypeOK'
    BY <1>3, <1>4 DEF TypeInv, TypeOK, peerVars, logVars, leaderVars, electionVars
  <2> QED BY <1>3, <1>4, <2>1 DEF TypeInv, AppliedToCommit, InATerm, peerVars, logVars,
                                  electionVars
<1>5. CASE /\ m.replyTerm > currentTerm[i]
           /\ TurnFollower(i, m.replyTerm, NULL)
           /\ UNCHANGED <<logVars, leaderVars>>
  <2>1. TypeOK'
    BY <1>2, <1>3, <1>5 DEF TypeInv, TypeOK, TurnFollower, logVars, leaderVars,
                            electionVars
  <2>2. AppliedToCommit'
    BY <1>3, <1>5 DEF TypeInv, AppliedToCommit, logVars
  <2>3. \A k \in Server : InATerm(k)'
    <3>1. m.replyTerm \in Term
      BY <1>2, <1>5, BoundAssumption DEF TypeInv, TypeOK, Term
    <3>2. currentTerm' = [currentTerm EXCEPT ![i] = m.replyTerm]
      BY <1>5 DEF TurnFollower
    <3>3. \A k \in Server \ {i} : state'[k] = state[k]
      BY <1>5 DEF TurnFollower, TypeInv, TypeOK
    <3> QED BY <1>3, <3>1, <3>2, <3>3 DEF TypeInv, TypeOK, InATerm, electionVars
  <2> QED BY <2>1, <2>2, <2>3 DEF TypeInv
<1>6. CASE /\ Running(i)
           /\ nextIndex' = [nextIndex EXCEPT ![i][j] = Len(log[i]) + 1]
           /\ matchIndex' = [matchIndex EXCEPT ![i] = match]
           /\ commitIndex' = [commitIndex EXCEPT ![i] = c]
           /\ Deliver(i, log[i], c)
           /\ UNCHANGED <<peerVars, log>>
  <2>1. /\ log[i] \in Seq(Entry) /\ Len(log[i]) \in Nat
        /\ commitIndex[i] \in Nat
    BY <1>2 DEF TypeInv, TypeOK
  <2>2. commitIndex[i] <= Len(applied[i])
    BY <1>2, <1>6 DEF TypeInv, AppliedToCommit, Running
  <2>3. nextIndex' \in [Server -> [Server -> Int]]
    <3>1. nextIndex \in [Server -> [Server -> Int]] /\ Len(log[i]) + 1 \in Int
      BY <2>1 DEF TypeInv, TypeOK
    <3> QED BY <1>6, <3>1
  <2>4. matchIndex' \in [Server -> [Server -> Nat]]
    <3>1. matchIndex \in [Server -> [Server -> Nat]]
      BY DEF TypeInv, TypeOK
    <3>2. match \in [Server -> Nat]
      BY <1>2, <2>1, <3>1
    <3> HIDE DEF match
    <3> QED BY <1>6, <3>1, <3>2
  <2> HIDE DEF match
  <2>5. c \in Nat /\ (c <= Len(log[i]) \/ c <= commitIndex[i])
    BY <2>1, CommitOfProps
  <2> HIDE DEF c
  <2>6. /\ applied' \in [Server -> Seq(Entry)]
        /\ Len(applied'[i]) >= c
        /\ \A k \in Server \ {i} : applied'[k] = applied[k]
    <3>1. TypeOK
      BY DEF TypeInv
    <3> QED BY <1>2, <1>6, <2>1, <2>2, <2>5, <3>1, DeliverProps
  <2>7. TypeOK'
    BY <1>3, <1>6, <2>3, <2>4, <2>5, <2>6 DEF TypeInv, TypeOK, peerVars, electionVars
  <2>8. AppliedToCommit'
    BY <1>3, <1>6, <2>6 DEF TypeInv, TypeOK, AppliedToCommit
  <2>9. \A k \in Server : InATerm(k)'
    BY <1>3, <1>6 DEF TypeInv, InATerm, peerVars, electionVars
  <2> QED BY <2>7, <2>8, <2>9 DEF TypeInv
<1>7. CASE /\ nextIndex' = [nextIndex EXCEPT ![i][j] = @ - 1]
           /\ UNCHANGED <<peerVars, logVars, matchIndex>>
  <2>1. nextIndex' \in [Server -> [Server -> Int]]
    <3>1. nextIndex \in [Server -> [Server -> Int]]
      BY DEF TypeInv, TypeOK
    <3>2. nextIndex[i][j] - 1 \in Int
      BY <1>2, <3>1
    <3> QED BY <1>7, <3>1, <3>2
  <2>2. TypeOK'
    BY <1>3, <1>7, <2>1 DEF TypeInv, TypeOK, peerVars, logVars, electionVars
  <2> QED BY <1>3, <1>7, <2>2 DEF TypeInv, AppliedToCommit, InATerm, peerVars, logVars,
                                  electionVars
<1> QED BY <1>4, <1>5, <1>6, <1>7 DEF HeartBeatReturned

LEMMA StartType ==
    ASSUME TypeInv, NEW i \in Server, NEW v \in Value, Start(i, v)
    PROVE  TypeInv'
<1> DEFINE e == [term |-> currentTerm[i], command |-> v]
           l == Append(log[i], e)
<1>1. e \in Entry
  BY DEF TypeInv, InATerm, Start, Entry
<1>2. l \in Seq(Entry) /\ Len(l) \in Nat
  <2> HIDE DEF e
  <2> QED BY <1>1 DEF TypeInv, TypeOK
<1>3. /\ log' = [log EXCEPT ![i] = l]
      /\ matchIndex' = [matchIndex EXCEPT ![i][i] = Len(l)]
      /\ nextIndex' = [nextIndex EXCEPT ![i][i] = Len(l) + 1]
      /\ UNCHANGED <<peerVars, commitIndex, applied, dead, electionVars, calls>>
  BY Zenon DEF Start
<1> HIDE DEF l
<1>4. TypeOK'
  <2>1. nextIndex' \in [Server -> [Server -> Int]]
    <3>1. nextIndex \in [Server -> [Server -> Int]] /\ Len(l) + 1 \in Int
      BY <1>2 DEF TypeInv, TypeOK
    <3> QED BY <1>3, <3>1
  <2>2. matchIndex' \in [Server -> [Server -> Nat]]
    <3>1. matchIndex \in [Server -> [Server -> Nat]]
      BY DEF TypeInv, TypeOK
    <3> QED BY <1>2, <1>3, <3>1
  <2> QED BY <1>2, <1>3, <2>1, <2>2 DEF TypeInv, TypeOK, peerVars, electionVars
<1> QED BY <1>3, <1>4 DEF TypeInv, AppliedToCommit, InATerm, peerVars, electionVars

LEMMA KillType ==
    ASSUME TypeInv, NEW i \in Server, Kill(i)
    PROVE  TypeInv'
<1> USE DEF Kill, peerVars, logVars, leaderVars, electionVars
<1>1. TypeOK'
  BY DEF TypeInv, TypeOK
<1>2. AppliedToCommit'
  <2>1. dead[i] = "no" /\ \A k \in Server \ {i} : dead'[k] = dead[k]
    BY DEF TypeInv, TypeOK, Running
  <2> QED BY <2>1 DEF TypeInv, AppliedToCommit
<1> QED BY <1>1, <1>2 DEF TypeInv, InATerm

LEMMA KilledAnswerType ==
    ASSUME TypeInv, NEW m \in calls, KilledAnswer(m)
    PROVE  TypeInv'
<1> USE DEF KilledAnswer, peerVars, logVars, leaderVars, electionVars
<1>1. 0 \in 0..MaxTerm
  BY BoundAssumption
<1>2. calls' \subseteq Calls
  <2>1. CASE m.kind = "RequestVote"
    <3>1. m \in VoteRequest
      BY <2>1, CallKinds DEF TypeInv
    <3> DEFINE r == [kind |-> "RequestVoteReply", src |-> m.src, dst |-> m.dst,
                     term |-> m.term, replyTerm |-> 0, voteGranted |-> FALSE]
    <3>2. r \in VoteReply
      BY <1>1, <3>1 DEF VoteRequest, VoteReply
    <3>3. calls' = (calls \ {m}) \cup {r}
      BY <2>1, Zenon DEF Answer
    <3> QED BY <3>2, <3>3 DEF TypeInv, TypeOK, Calls
  <2>2. CASE m.kind = "AppendEntries"
    <3>1. m \in AppendRequest
      BY <2>2, CallKinds DEF TypeInv
    <3> DEFINE r == [kind |-> "AppendEntriesReply", id |-> m.id, src |-> m.src,
                     dst |-> m.dst, term |-> m.term,
                     last |-> m.prevLogIndex + Len(m.entries),
                     replyTerm |-> 0, success |-> FALSE]
    <3>2. r \in AppendReply
      <4>1. m.prevLogIndex \in Nat /\ m.entries \in Seq(Entry)
        BY <3>1 DEF AppendRequest
      <4>2. m.prevLogIndex + Len(m.entries) \in Nat
        BY <4>1
      <4> QED BY <1>1, <3>1, <4>2 DEF AppendRequest, AppendReply
    <3>3. calls' = (calls \ {m}) \cup {r}
      BY <2>2, Zenon DEF AppendAnswer, Answer
    <3> QED BY <3>2, <3>3 DEF TypeInv, TypeOK, Calls
  <2> QED BY <2>1, <2>2
<1>3. TypeOK'
  BY <1>2 DEF TypeInv, TypeOK
<1> QED BY <1>3 DEF TypeInv, AppliedToCommit, InATerm

LEMMA LoseType ==
    ASSUME TypeInv, NEW m \in calls, Lose(m)
    PROVE  TypeInv'
<1> USE DEF Lose, Finish, peerVars, logVars, leaderVars, electionVars
<1>1. TypeOK'
  BY DEF TypeInv, TypeOK
<1> QED BY <1>1 DEF TypeInv, AppliedToCommit, InATerm

LEMMA TypeInvStep == TypeInv /\ [Next]_vars => TypeInv'
<1> SUFFICES ASSUME TypeInv, [Next]_vars PROVE TypeInv'
  OBVIOUS
<1>1. CASE UNCHANGED vars
  <2>1. TypeOK'
    BY <1>1 DEF vars, peerVars, logVars, leaderVars, electionVars, TypeInv, TypeOK
  <2> QED BY <1>1, <2>1 DEF vars, peerVars, logVars, leaderVars, electionVars, TypeInv,
                            AppliedToCommit, InATerm
<1>2. CASE Next
  <2>1. ASSUME NEW i \in Server, ElectionTimeout(i) \/ StartElection(i) \/ Kill(i)
        PROVE  TypeInv'
    BY <2>1, ElectionTimeoutType, StartElectionType, KillType
  <2>2. ASSUME NEW i \in Server, NEW late \in BOOLEAN, TurnLeader(i, late)
        PROVE  TypeInv'
    BY <2>2, TurnLeaderType
  <2>3. ASSUME NEW i \in Server, NEW v \in Value, Start(i, v)
        PROVE  TypeInv'
    BY <2>3, StartType
  <2>4. ASSUME NEW i \in Server, NEW j \in Server, NEW id \in CallId,
               SendHeartBeat(i, j, id)
        PROVE  TypeInv'
    BY <2>4, SendHeartBeatType
  <2>5. ASSUME NEW m \in calls,
               \/ RequestVote(m) \/ AppendEntries(m) \/ HeartBeatReturned(m)
               \/ KilledAnswer(m) \/ Lose(m)
        PROVE  TypeInv'
    BY <2>5, RequestVoteType, AppendEntriesType, HeartBeatReturnedType,
       KilledAnswerType, LoseType
  <2>6. ASSUME NEW m \in calls, NEW late \in BOOLEAN, VoteReturned(m, late)
        PROVE  TypeInv'
    BY <2>6, VoteReturnedType
  <2> QED BY <1>2, <2>1, <2>2, <2>3, <2>4, <2>5, <2>6 DEF Next
<1> QED BY <1>1, <1>2

\* The type invariant of a Raft peer and its calls holds in every reachable
\* state: no goroutine of raft.go, in whatever order they run, writes a term
\* out of bounds, a vote for no peer, or an entry that is none.
THEOREM TypeCorrect == Spec => []TypeOK
<1>1. TypeInv => TypeOK
  BY DEF TypeInv
<1> QED BY <1>1, TypeInvInit, TypeInvStep, PTL DEF Spec

-----------------------------------------------------------------------------
(***************************************************************************)
(* The logs: the terms in a log ascend, and a leader only appends.         *)
(***************************************************************************)
\* What a heartbeat carries continues a log whose terms ascend: its entries
\* ascend from PrevLogTerm, and none is later than the leader's term.
HeartBeatAscends(m) ==
    m.kind = "AppendEntries" =>
        /\ Ascending(m.entries)
        /\ \A k \in 1..Len(m.entries) :
              m.prevLogTerm <= m.entries[k].term /\ m.entries[k].term <= m.term

\* The inductive strengthening of LogsAscend.
AscendInv ==
    /\ TypeInv
    /\ LogsAscend
    /\ \A m \in calls : HeartBeatAscends(m)

-----------------------------------------------------------------------------
(***************************************************************************)
(* What the actions do to the terms, the logs and the heartbeats.          *)
(***************************************************************************)
\* No handler of raft.go takes a peer back to an earlier term.
LEMMA TermsGrow ==
    ASSUME TypeInv, Next
    PROVE  \A i \in Server : currentTerm'[i] >= currentTerm[i]
<1>1. currentTerm \in [Server -> 0..MaxTerm] /\ MaxTerm \in Nat
  BY BoundAssumption DEF TypeInv, TypeOK
<1>2. CASE UNCHANGED currentTerm
  BY <1>1, <1>2
<1>3. ASSUME NEW i \in Server, ElectionTimeout(i)
      PROVE  \A j \in Server : currentTerm'[j] >= currentTerm[j]
  BY <1>1, <1>3 DEF ElectionTimeout
<1>4. ASSUME NEW m \in calls, RequestVote(m)
      PROVE  \A j \in Server : currentTerm'[j] >= currentTerm[j]
  <2>1. CASE Refused(m)
    BY <1>1, <1>4, <2>1 DEF RequestVote, peerVars
  <2>2. CASE ~Refused(m)
    <3>1. currentTerm' = [currentTerm EXCEPT ![m.dst] = m.term]
      BY <1>4, <2>2 DEF RequestVote
    <3>2. m.dst \in Server /\ m.term \in 0..MaxTerm
      BY <1>1, CallKinds DEF TypeInv, Term
    <3>3. m.term >= currentTerm[m.dst]
      BY <1>1, <2>2, <3>2 DEF Refused
    <3> QED BY <1>1, <3>1, <3>2, <3>3
  <2> QED BY <2>1, <2>2
<1>5. ASSUME NEW m \in calls, AppendEntries(m)
      PROVE  \A j \in Server : currentTerm'[j] >= currentTerm[j]
  <2>1. m \in AppendRequest
    BY <1>5, CallKinds DEF TypeInv, AppendEntries
  <2>2. UNCHANGED currentTerm \/ Acknowledge(m)
    BY <1>5 DEF AppendEntries, AppendRefused, AppendMismatch, AppendAccepted, peerVars
  <2> QED BY <1>1, <2>1, <2>2, AcknowledgeType
<1>6. ASSUME NEW m \in calls, m.replyTerm > currentTerm[m.src], m.replyTerm \in 0..MaxTerm,
             TurnFollower(m.src, m.replyTerm, NULL)
      PROVE  \A j \in Server : currentTerm'[j] >= currentTerm[j]
  <2>1. currentTerm' = [currentTerm EXCEPT ![m.src] = m.replyTerm]
    BY <1>6 DEF TurnFollower
  <2>2. m.src \in Server
    BY CallKinds DEF TypeInv
  <2> QED BY <1>1, <1>6, <2>1, <2>2
<1>7. ASSUME NEW m \in calls, NEW late \in BOOLEAN, VoteReturned(m, late)
      PROVE  \A j \in Server : currentTerm'[j] >= currentTerm[j]
  <2>1. m.replyTerm \in 0..MaxTerm
    BY <1>7, CallKinds DEF VoteReturned, TypeInv, VoteReply
  <2>2. \/ UNCHANGED currentTerm
        \/ m.replyTerm > currentTerm[m.src] /\ TurnFollower(m.src, m.replyTerm, NULL)
    BY <1>7 DEF VoteReturned, peerVars
  <2> QED BY <1>1, <1>6, <2>1, <2>2
<1>8. ASSUME NEW m \in calls, HeartBeatReturned(m)
      PROVE  \A j \in Server : currentTerm'[j] >= currentTerm[j]
  <2>1. m.replyTerm \in 0..MaxTerm
    BY <1>8, CallKinds DEF HeartBeatReturned, TypeInv, AppendReply
  <2>2. \/ UNCHANGED currentTerm
        \/ m.replyTerm > currentTerm[m.src] /\ TurnFollower(m.src, m.replyTerm, NULL)
    BY <1>8 DEF HeartBeatReturned, peerVars
  <2> QED BY <1>1, <1>6, <2>1, <2>2
<1>9. ASSUME ~ UNCHANGED currentTerm
      PROVE  \/ \E i \in Server : ElectionTimeout(i)
             \/ \E m \in calls : \/ RequestVote(m) \/ AppendEntries(m)
                                 \/ HeartBeatReturned(m)
                                 \/ \E late \in BOOLEAN : VoteReturned(m, late)
  BY <1>9 DEF Next, StartElection, TurnLeader, Kill, Start, SendHeartBeat, KilledAnswer,
              Lose, peerVars
<1> QED BY <1>2, <1>3, <1>4, <1>5, <1>7, <1>8, <1>9

\* Only Start and an accepted AppendEntries write a log.
LEMMA LogWriters ==
    ASSUME Next
    PROVE  \/ UNCHANGED log
           \/ \E i \in Server, v \in Value : Start(i, v)
           \/ \E m \in calls : AppendEntries(m) /\ AppendAccepted(m)
<1>1. ASSUME NEW m \in calls, AppendEntries(m)
      PROVE  UNCHANGED log \/ AppendAccepted(m)
  BY <1>1 DEF AppendEntries, AppendRefused, AppendMismatch, logVars
<1>2. ASSUME NEW m \in calls, HeartBeatReturned(m)
      PROVE  UNCHANGED log
  BY <1>2 DEF HeartBeatReturned, logVars
<1> QED BY <1>1, <1>2 DEF Next, ElectionTimeout, StartElection, TurnLeader, Kill,
                          SendHeartBeat, RequestVote, VoteReturned, KilledAnswer, Lose,
                          logVars

\* What an accepted AppendEntries does to the logs and the terms.
LEMMA AcceptedProps ==
    ASSUME TypeInv, NEW m \in calls, AppendEntries(m), AppendAccepted(m)
    PROVE  /\ m \in AppendRequest
           /\ m.dst \in Server
           /\ m.prevLogIndex <= Len(log[m.dst])
           /\ TermAt(log[m.dst], m.prevLogIndex) = m.prevLogTerm
           /\ log' = [log EXCEPT ![m.dst] =
                         AppendNew(log[m.dst], m.prevLogIndex, m.entries)]
           /\ currentTerm' = [currentTerm EXCEPT ![m.dst] = m.term]
           /\ state' = [state EXCEPT ![m.dst] = "FOLLOWER"]
<1>1. m \in AppendRequest /\ m.dst \in Server
  BY CallKinds DEF TypeInv, AppendEntries, AppendRequest
<1>2. Acknowledge(m) /\ HasPrev(m)
  BY DEF AppendAccepted
<1>3. log' = [log EXCEPT ![m.dst] = AppendNew(log[m.dst], m.prevLogIndex, m.entries)]
  BY Zenon DEF AppendAccepted
<1>4. /\ currentTerm' = [currentTerm EXCEPT ![m.dst] = m.term]
      /\ state' = [state EXCEPT ![m.dst] = "FOLLOWER"]
  BY <1>2 DEF Acknowledge, TurnFollower
<1>5. m.prevLogIndex <= Len(log[m.dst]) /\ TermAt(log[m.dst], m.prevLogIndex) = m.prevLogTerm
  BY <1>2 DEF HasPrev
<1> QED BY <1>1, <1>3, <1>4, <1>5

\* What Start does.
LEMMA StartProps ==
    ASSUME TypeInv, NEW i \in Server, NEW v \in Value, Start(i, v)
    PROVE  LET e == [term |-> currentTerm[i], command |-> v]
           IN  /\ e \in Entry
               /\ log' = [log EXCEPT ![i] = Append(log[i], e)]
               /\ UNCHANGED <<currentTerm, calls>>
<1> DEFINE e == [term |-> currentTerm[i], command |-> v]
<1>1. e \in Entry
  BY DEF TypeInv, InATerm, Start, Entry
<1>2. log' = [log EXCEPT ![i] = Append(log[i], e)]
  BY Zenon DEF Start
<1>3. UNCHANGED <<currentTerm, calls>>
  BY DEF Start, peerVars
<1> QED BY <1>1, <1>2, <1>3

\* Only SendHeartBeat puts an AppendEntries call on the network.
LEMMA HeartBeatSenders ==
    ASSUME TypeInv, Next, NEW h \in calls', h \notin calls, h.kind = "AppendEntries"
    PROVE  \E i, j \in Server, id \in CallId :
              /\ SendHeartBeat(i, j, id)
              /\ nextIndex[i][j] \in 1..(Len(log[i]) + 1)
              /\ h.src = i /\ h.dst = j
              /\ h.term = currentTerm[i]
              /\ h.prevLogIndex = nextIndex[i][j] - 1
              /\ h.prevLogTerm = TermAt(log[i], nextIndex[i][j] - 1)
              /\ h.entries = SubSeq(log[i], nextIndex[i][j], Len(log[i]))
<1>1. ASSUME NEW i \in Server, NEW j \in Server, NEW id \in CallId,
             SendHeartBeat(i, j, id)
      PROVE  /\ nextIndex[i][j] \in 1..(Len(log[i]) + 1)
             /\ h.src = i /\ h.dst = j
             /\ h.term = currentTerm[i]
             /\ h.prevLogIndex = nextIndex[i][j] - 1
             /\ h.prevLogTerm = TermAt(log[i], nextIndex[i][j] - 1)
             /\ h.entries = SubSeq(log[i], nextIndex[i][j], Len(log[i]))
  <2> DEFINE next == nextIndex[i][j]
             r == [kind |-> "AppendEntries", id |-> id, src |-> i, dst |-> j,
                   term |-> currentTerm[i], prevLogIndex |-> next - 1,
                   prevLogTerm |-> TermAt(log[i], next - 1),
                   entries |-> SubSeq(log[i], next, Len(log[i])),
                   leaderCommit |-> commitIndex[i]]
  <2>1. \/ UNCHANGED calls
        \/ next \in 1..(Len(log[i]) + 1) /\ calls' = calls \cup {r}
    BY <1>1, Zenon DEF SendHeartBeat
  <2>2. h = r /\ next \in 1..(Len(log[i]) + 1)
    BY <2>1
  <2> QED BY <2>2
<1>2. ASSUME NEW i \in Server, StartElection(i)
      PROVE  FALSE
  BY <1>2 DEF StartElection
<1>3. ASSUME NEW m \in calls, RequestVote(m)
      PROVE  FALSE
  <2>1. PICK r : r.kind = "RequestVoteReply" /\ Answer(m, r)
    BY <1>3 DEF RequestVote
  <2> QED BY <2>1 DEF Answer
<1>4. ASSUME NEW m \in calls, NEW t, NEW ok, AppendAnswer(m, t, ok)
      PROVE  FALSE
  BY <1>4 DEF AppendAnswer, Answer
<1>5. ASSUME NEW m \in calls, AppendEntries(m)
      PROVE  FALSE
  <2>1. Finish(m) \/ \E t, ok : AppendAnswer(m, t, ok)
    BY <1>5, Zenon DEF AppendEntries, AppendRefused, AppendMismatch, AppendAccepted
  <2> QED BY <1>4, <2>1 DEF Finish
<1>6. ASSUME NEW m \in calls, KilledAnswer(m)
      PROVE  FALSE
  <2>1. CASE m.kind = "RequestVote"
    <3>1. PICK r : r.kind = "RequestVoteReply" /\ Answer(m, r)
      BY <1>6, <2>1 DEF KilledAnswer
    <3> QED BY <3>1 DEF Answer
  <2>2. CASE m.kind = "AppendEntries"
    BY <1>4, <1>6, <2>2 DEF KilledAnswer
  <2> QED BY <1>6, <2>1, <2>2 DEF KilledAnswer
<1>7. ~ UNCHANGED calls
  OBVIOUS
<1>8. ASSUME NEW m \in calls,
             \/ HeartBeatReturned(m) \/ Lose(m)
             \/ \E late \in BOOLEAN : VoteReturned(m, late)
      PROVE  FALSE
  BY <1>8 DEF HeartBeatReturned, Lose, VoteReturned, Finish
<1>9. \E i, j \in Server, id \in CallId : SendHeartBeat(i, j, id)
  BY <1>2, <1>3, <1>5, <1>6, <1>7, <1>8 DEF Next, ElectionTimeout, TurnLeader, Kill, Start
<1> QED BY <1>1, <1>9

-----------------------------------------------------------------------------
(***************************************************************************)
(* The terms in a log ascend.                                              *)
(***************************************************************************)
\* Splicing entries that ascend from the term before them into a log that
\* ascends gives a log that ascends.
LEMMA SpliceAscends ==
    ASSUME NEW l \in Seq(Entry), NEW prev \in Nat, prev <= Len(l),
           NEW entries \in Seq(Entry), NEW t \in Nat,
           Ascending(l), Ascending(entries),
           \A k \in 1..Len(l) : l[k].term <= t,
           \A k \in 1..Len(entries) :
              TermAt(l, prev) <= entries[k].term /\ entries[k].term <= t
    PROVE  LET r == AppendNew(l, prev, entries)
           IN  Ascending(r) /\ \A k \in 1..Len(r) : r[k].term <= t
<1> DEFINE r == AppendNew(l, prev, entries)
<1>1. CASE r = l
  BY <1>1
<1>2. CASE r # l
  <2>1. /\ r \in Seq(Entry)
        /\ Len(r) = prev + Len(entries)
        /\ \A k \in 1..prev : r[k] = l[k]
        /\ \A k \in 1..Len(entries) : r[prev + k].term = entries[k].term
    BY <1>2, AppendNewProps
  <2> HIDE DEF r
  <2>2. Len(l) \in Nat /\ Len(entries) \in Nat /\ MaxTerm \in Nat
    BY BoundAssumption
  <2>3. /\ \A k \in 1..Len(l) : l[k].term \in 0..MaxTerm
        /\ \A k \in 1..Len(entries) : entries[k].term \in 0..MaxTerm
    <3>1. \A e \in Entry : e.term \in 0..MaxTerm
      BY <2>2 DEF Entry, Term
    <3> QED BY <3>1
  <2>4. ASSUME NEW k \in 1..Len(r)
        PROVE  \/ k \in 1..prev /\ r[k].term = l[k].term
               \/ /\ k - prev \in 1..Len(entries)
                  /\ r[k].term = entries[k - prev].term
    <3>1. CASE k <= prev
      BY <2>1, <3>1
    <3>2. CASE ~(k <= prev)
      <4>1. k - prev \in 1..Len(entries) /\ prev + (k - prev) = k
        BY <2>1, <2>2, <3>2
      <4> QED BY <2>1, <4>1
    <3> QED BY <3>1, <3>2
  <2>5. ASSUME NEW a \in 1..Len(r), NEW b \in 1..Len(r), a <= b
        PROVE  r[a].term <= r[b].term
    <3>1. CASE a \in 1..prev /\ b \in 1..prev
      <4>1. a \in 1..Len(l) /\ b \in 1..Len(l)
        BY <2>2, <3>1
      <4>2. l[a].term <= l[b].term
        BY <2>5, <4>1 DEF Ascending
      <4> QED BY <2>1, <3>1, <4>2
    <3>2. CASE a \in 1..prev /\ ~(b \in 1..prev)
      <4>1. prev \in 1..Len(l) /\ a \in 1..Len(l) /\ a <= prev
        BY <2>2, <3>2
      <4>2. l[a].term <= l[prev].term
        BY <4>1 DEF Ascending
      <4>3. TermAt(l, prev) = l[prev].term
        BY <4>1 DEF TermAt
      <4>4. b - prev \in 1..Len(entries) /\ r[b].term = entries[b - prev].term
        BY <2>4, <3>2
      <4>5. l[prev].term <= entries[b - prev].term
        BY <4>3, <4>4
      <4>6. r[a].term = l[a].term
        BY <2>1, <3>2
      <4>7. PICK x \in 0..MaxTerm, y \in 0..MaxTerm, z \in 0..MaxTerm :
               /\ x = l[a].term /\ y = l[prev].term
               /\ z = entries[b - prev].term
        BY <2>3, <4>1, <4>4
      <4>8. x <= y /\ y <= z
        BY <4>2, <4>5, <4>7
      <4>9. x <= z
        BY <2>2, <4>8
      <4> QED BY <4>4, <4>6, <4>7, <4>9
    <3>3. CASE ~(a \in 1..prev) /\ ~(b \in 1..prev)
      <4>1. /\ a - prev \in 1..Len(entries) /\ r[a].term = entries[a - prev].term
            /\ b - prev \in 1..Len(entries) /\ r[b].term = entries[b - prev].term
        BY <2>4, <3>3
      <4>2. a - prev <= b - prev
        BY <2>1, <2>2, <2>5
      <4> QED BY <4>1, <4>2 DEF Ascending
    <3> QED BY <2>1, <2>2, <2>5, <3>1, <3>2, <3>3
  <2>6. ASSUME NEW k \in 1..Len(r) PROVE r[k].term <= t
    <3>1. CASE k \in 1..prev /\ r[k].term = l[k].term
      <4>1. k \in 1..Len(l)
        BY <2>2, <3>1
      <4> QED BY <3>1, <4>1
    <3>2. CASE k - prev \in 1..Len(entries) /\ r[k].term = entries[k - prev].term
      BY <3>2
    <3> QED BY <2>4, <3>1, <3>2
  <2> QED BY <2>5, <2>6 DEF r, Ascending
<1> QED BY <1>1, <1>2

LEMMA AscendInvInit == Init => AscendInv
<1> SUFFICES ASSUME Init PROVE AscendInv
  OBVIOUS
<1>1. TypeInv
  BY TypeInvInit
<1>2. \A i \in Server : log[i] = << >>
  BY DEF Init
<1>3. calls = {}
  BY DEF Init
<1> QED BY <1>1, <1>2, <1>3 DEF AscendInv, LogsAscend, Ascending

LEMMA LogsAscendStep ==
    ASSUME AscendInv, Next
    PROVE  LogsAscend'
<1>1. /\ TypeInv
      /\ log \in [Server -> Seq(Entry)]
      /\ currentTerm \in [Server -> 0..MaxTerm]
      /\ MaxTerm \in Nat
  BY BoundAssumption DEF AscendInv, TypeInv, TypeOK
<1>2. \A i \in Server : currentTerm'[i] >= currentTerm[i] /\ currentTerm'[i] \in 0..MaxTerm
  <2>1. TypeInv'
    BY <1>1, TypeInvStep
  <2>2. currentTerm' \in [Server -> 0..MaxTerm]
    BY <2>1 DEF TypeInv, TypeOK
  <2> QED BY <1>1, <2>2, TermsGrow
<1>3. \A i \in Server : \A k \in 1..Len(log[i]) : log[i][k].term \in 0..MaxTerm
  <2>1. \A e \in Entry : e.term \in 0..MaxTerm
    BY <1>1 DEF Entry, Term
  <2> QED BY <1>1, <2>1
<1>4. ASSUME NEW i \in Server, log'[i] = log[i]
      PROVE  /\ Ascending(log'[i])
             /\ \A k \in 1..Len(log'[i]) : log'[i][k].term <= currentTerm'[i]
  <2>1. Ascending(log[i]) /\ \A k \in 1..Len(log[i]) : log[i][k].term <= currentTerm[i]
    BY DEF AscendInv, LogsAscend
  <2>2. \A k \in 1..Len(log[i]) : log[i][k].term <= currentTerm'[i]
    BY <1>1, <1>2, <1>3, <2>1
  <2> QED BY <1>4, <2>1, <2>2
<1>5. CASE UNCHANGED log
  BY <1>4, <1>5 DEF LogsAscend
<1>6. ASSUME NEW i \in Server, NEW v \in Value, Start(i, v)
      PROVE  LogsAscend'
  <2> DEFINE e == [term |-> currentTerm[i], command |-> v]
             l == Append(log[i], e)
  <2>1. /\ log' = [log EXCEPT ![i] = l]
        /\ e \in Entry
        /\ UNCHANGED currentTerm
    BY <1>1, <1>6, StartProps
  <2>2. e.term = currentTerm[i]
    OBVIOUS
  <2> HIDE DEF e
  <2>3. Ascending(log[i]) /\ \A k \in 1..Len(log[i]) : log[i][k].term <= currentTerm[i]
    BY DEF AscendInv, LogsAscend
  <2>4. /\ Len(log[i]) \in Nat /\ Len(l) = Len(log[i]) + 1
        /\ \A k \in 1..Len(log[i]) : l[k] = log[i][k]
        /\ l[Len(log[i]) + 1] = e
    BY <1>1, <2>1
  <2> HIDE DEF l
  <2>5. \A k \in 1..Len(l) : l[k].term <= currentTerm[i]
    BY <1>1, <2>2, <2>3, <2>4
  <2>6. Ascending(l)
    <3> SUFFICES ASSUME NEW a \in 1..Len(l), NEW b \in 1..Len(l), a <= b
                 PROVE  l[a].term <= l[b].term
      BY DEF Ascending
    <3>1. CASE b \in 1..Len(log[i])
      <4>1. a \in 1..Len(log[i])
        BY <2>4, <3>1
      <4> QED BY <2>3, <2>4, <3>1, <4>1 DEF Ascending
    <3>2. CASE b = Len(log[i]) + 1
      BY <2>2, <2>4, <2>5, <3>2
    <3> QED BY <2>4, <3>1, <3>2
  <2>7. ASSUME NEW j \in Server
        PROVE  /\ Ascending(log'[j])
               /\ \A k \in 1..Len(log'[j]) : log'[j][k].term <= currentTerm'[j]
    <3>1. CASE j = i
      BY <1>1, <2>1, <2>5, <2>6, <3>1
    <3>2. CASE j # i
      BY <1>1, <1>4, <2>1, <3>2
    <3> QED BY <3>1, <3>2
  <2> QED BY <2>7 DEF LogsAscend
<1>7. ASSUME NEW m \in calls, AppendEntries(m), AppendAccepted(m)
      PROVE  LogsAscend'
  <2> DEFINE i == m.dst
             l == log[i]
             r == AppendNew(l, m.prevLogIndex, m.entries)
  <2>1. /\ m \in AppendRequest
        /\ i \in Server
        /\ m.prevLogIndex <= Len(l)
        /\ TermAt(l, m.prevLogIndex) = m.prevLogTerm
        /\ log' = [log EXCEPT ![i] = r]
        /\ currentTerm' = [currentTerm EXCEPT ![i] = m.term]
    BY <1>1, <1>7, AcceptedProps
  <2>2. /\ m.prevLogIndex \in Nat /\ m.entries \in Seq(Entry) /\ m.term \in Nat
        /\ m.kind = "AppendEntries"
    BY <2>1, <1>1 DEF AppendRequest, Term
  <2>3. /\ Ascending(m.entries)
        /\ \A k \in 1..Len(m.entries) :
              TermAt(l, m.prevLogIndex) <= m.entries[k].term /\ m.entries[k].term <= m.term
    BY <2>1, <2>2 DEF AscendInv, HeartBeatAscends
  <2>4. Ascending(l) /\ \A k \in 1..Len(l) : l[k].term <= m.term
    <3>1. currentTerm'[i] = m.term
      BY <1>1, <2>1
    <3>2. m.term >= currentTerm[i]
      BY <1>2, <2>1, <3>1
    <3>3. Ascending(l) /\ \A k \in 1..Len(l) : l[k].term <= currentTerm[i]
      BY <2>1 DEF AscendInv, LogsAscend
    <3>4. \A k \in 1..Len(l) : l[k].term \in 0..MaxTerm
      BY <1>3, <2>1
    <3>5. currentTerm[i] \in Nat /\ MaxTerm \in Nat
      BY <1>1, <2>1
    <3> HIDE DEF l, i
    <3> QED BY <2>2, <3>2, <3>3, <3>4, <3>5
  <2>5. l \in Seq(Entry)
    BY <1>1, <2>1
  <2>6. Ascending(r) /\ \A k \in 1..Len(r) : r[k].term <= m.term
    <3> HIDE DEF l
    <3> QED BY <2>1, <2>2, <2>3, <2>4, <2>5, SpliceAscends
  <2> HIDE DEF r
  <2>7. ASSUME NEW j \in Server
        PROVE  /\ Ascending(log'[j])
               /\ \A k \in 1..Len(log'[j]) : log'[j][k].term <= currentTerm'[j]
    <3>1. CASE j = i
      BY <1>1, <2>1, <2>6, <3>1
    <3>2. CASE j # i
      BY <1>1, <1>4, <2>1, <3>2
    <3> QED BY <3>1, <3>2
  <2> QED BY <2>7 DEF LogsAscend
<1> QED BY <1>5, <1>6, <1>7, LogWriters

LEMMA HeartBeatsAscendStep ==
    ASSUME AscendInv, Next
    PROVE  \A h \in calls' : HeartBeatAscends(h)
<1> SUFFICES ASSUME NEW h \in calls', h.kind = "AppendEntries"
             PROVE  HeartBeatAscends(h)
  BY DEF HeartBeatAscends
<1>1. CASE h \in calls
  BY <1>1 DEF AscendInv
<1>2. CASE h \notin calls
  <2>1. TypeInv
    BY DEF AscendInv
  <2>2. PICK i, j \in Server, id \in CallId :
              /\ nextIndex[i][j] \in 1..(Len(log[i]) + 1)
              /\ h.term = currentTerm[i]
              /\ h.prevLogTerm = TermAt(log[i], nextIndex[i][j] - 1)
              /\ h.entries = SubSeq(log[i], nextIndex[i][j], Len(log[i]))
    BY <1>2, <2>1, HeartBeatSenders
  <2> DEFINE next == nextIndex[i][j]
             l == log[i]
  <2>3. l \in Seq(Entry) /\ Len(l) \in Nat /\ next \in 1..(Len(l) + 1)
    BY <2>1, <2>2 DEF TypeInv, TypeOK
  <2>4. Ascending(l) /\ \A k \in 1..Len(l) : l[k].term <= h.term
    BY <2>2 DEF AscendInv, LogsAscend
  <2>5. h.entries = SubSeq(l, next, Len(l)) /\ h.prevLogTerm = TermAt(l, next - 1)
    BY <2>2
  <2> HIDE DEF next, l
  <2>6. /\ Len(h.entries) = Len(l) + 1 - next
        /\ \A k \in 1..Len(h.entries) : h.entries[k] = l[next - 1 + k]
    BY <2>3, <2>5
  <2>7. ASSUME NEW k \in 1..Len(h.entries)
        PROVE  next - 1 + k \in 1..Len(l)
    BY <2>3, <2>6
  <2>8. Ascending(h.entries)
    <3> SUFFICES ASSUME NEW a \in 1..Len(h.entries), NEW b \in 1..Len(h.entries), a <= b
                 PROVE  h.entries[a].term <= h.entries[b].term
      BY DEF Ascending
    <3>1. next - 1 + a <= next - 1 + b
      BY <2>3
    <3> QED BY <2>4, <2>6, <2>7, <3>1 DEF Ascending
  <2>9. ASSUME NEW k \in 1..Len(h.entries)
        PROVE  h.prevLogTerm <= h.entries[k].term /\ h.entries[k].term <= h.term
    <3>1. next - 1 + k \in 1..Len(l) /\ h.entries[k] = l[next - 1 + k]
      BY <2>6, <2>7
    <3>2. l[next - 1 + k].term \in Nat
      <4>1. \A e \in Entry : e.term \in Nat
        BY BoundAssumption DEF Entry, Term
      <4> QED BY <2>3, <3>1, <4>1
    <3>3. CASE next = 1
      <4>1. h.prevLogTerm = 0
        BY <2>5, <3>3 DEF TermAt
      <4> QED BY <2>4, <3>1, <3>2, <4>1
    <3>4. CASE next # 1
      <4>1. next - 1 \in 1..Len(l) /\ next - 1 <= next - 1 + k
        BY <2>3, <3>4
      <4>2. h.prevLogTerm = l[next - 1].term
        BY <2>5, <4>1 DEF TermAt
      <4>3. l[next - 1].term <= l[next - 1 + k].term
        BY <2>4, <3>1, <4>1 DEF Ascending
      <4> QED BY <2>4, <3>1, <4>2, <4>3
    <3> QED BY <3>3, <3>4
  <2> QED BY <2>8, <2>9 DEF HeartBeatAscends
<1> QED BY <1>1, <1>2

LEMMA AscendInvStep == AscendInv /\ [Next]_vars => AscendInv'
<1> SUFFICES ASSUME AscendInv, [Next]_vars PROVE AscendInv'
  OBVIOUS
<1>1. TypeInv'
  BY TypeInvStep DEF AscendInv
<1>2. CASE Next
  <2>1. LogsAscend'
    BY <1>2, LogsAscendStep
  <2>2. \A h \in calls' : HeartBeatAscends(h)
    BY <1>2, HeartBeatsAscendStep
  <2> QED BY <1>1, <2>1, <2>2 DEF AscendInv, HeartBeatAscends
<1>3. CASE UNCHANGED vars
  BY <1>1, <1>3 DEF AscendInv, LogsAscend, HeartBeatAscends, vars, peerVars, logVars
<1> QED BY <1>2, <1>3

\* The terms in every log ascend and none is later than its peer's term,
\* whatever AppendEntries cuts and splices, from however old a leader, and
\* whoever is killed.
THEOREM LogsAscendAlways == Spec => []LogsAscend
<1>1. AscendInv => LogsAscend
  BY DEF AscendInv
<1> QED BY <1>1, AscendInvInit, AscendInvStep, PTL DEF Spec

-----------------------------------------------------------------------------
(***************************************************************************)
(* A leader only appends.                                                  *)
(***************************************************************************)
LEMMA AppendOnlyStep ==
    ASSUME TypeInv, Next, NEW i \in Server,
           state[i] = "LEADER", state'[i] = "LEADER"
    PROVE  /\ Len(log'[i]) >= Len(log[i])
           /\ \A k \in 1..Len(log[i]) : log'[i][k] = log[i][k]
<1>1. log \in [Server -> Seq(Entry)] /\ Len(log[i]) \in Nat
  BY DEF TypeInv, TypeOK
<1>2. CASE log'[i] = log[i]
  BY <1>1, <1>2
<1>3. ASSUME NEW j \in Server, NEW v \in Value, Start(j, v), log'[i] # log[i]
      PROVE  /\ Len(log'[i]) >= Len(log[i])
             /\ \A k \in 1..Len(log[i]) : log'[i][k] = log[i][k]
  <2> DEFINE e == [term |-> currentTerm[j], command |-> v]
  <2>1. log' = [log EXCEPT ![j] = Append(log[j], e)] /\ e \in Entry
    BY <1>3, StartProps
  <2> HIDE DEF e
  <2>2. j = i
    BY <1>1, <1>3, <2>1
  <2>3. log'[i] = Append(log[i], e)
    BY <1>1, <2>1, <2>2
  <2> QED BY <1>1, <2>1, <2>3
<1>4. ASSUME NEW m \in calls, AppendEntries(m), AppendAccepted(m)
      PROVE  log'[i] = log[i]
  <2>1. /\ m.dst \in Server
        /\ log' = [log EXCEPT ![m.dst] = AppendNew(log[m.dst], m.prevLogIndex, m.entries)]
        /\ state' = [state EXCEPT ![m.dst] = "FOLLOWER"]
    BY <1>4, AcceptedProps
  <2>2. i # m.dst
    BY <2>1 DEF TypeInv, TypeOK
  <2> QED BY <1>1, <2>1, <2>2
<1> QED BY <1>2, <1>3, <1>4, LogWriters

\* A peer that stays leader never deletes or overwrites an entry of its own
\* log, in any interleaving of Start, AppendEntries and the replies.
THEOREM LeaderAppendsOnly == Spec => LeaderAppendOnly
<1> DEFINE AppendOnly ==
        \A i \in Server :
          state[i] = "LEADER" /\ state'[i] = "LEADER" =>
              /\ Len(log'[i]) >= Len(log[i])
              /\ \A k \in 1..Len(log[i]) : log'[i][k] = log[i][k]
<1>1. TypeInv /\ [Next]_vars => [AppendOnly]_vars
  BY AppendOnlyStep
<1>2. Spec => [][AppendOnly]_vars
  <2> HIDE DEF AppendOnly
  <2> QED BY <1>1, TypeInvInit, TypeInvStep, PTL DEF Spec
<1> QED BY <1>2 DEF LeaderAppendOnly
=============================================================================
