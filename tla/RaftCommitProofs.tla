-------------------------- MODULE RaftCommitProofs --------------------------
(***************************************************************************)
(* What is proved about the entries that the peers of a timely group       *)
(* apply: StateMachineSafety, LeaderCompleteness, PanicsOnlyRefused and    *)
(* that the group implements AgreedOrder, for up to four peers, and        *)
(* however many terms, commands and heartbeats there are.  Commands come   *)
(* at any time, while heartbeats are under way too; what Fresh excludes is *)
(* that the leader takes a success for more than was sent.  Without it     *)
(* none of this holds: MCRaft_match_index.cfg shows why.                   *)
(*                                                                         *)
(* Four is where the argument ends, and the code with it.  sendHeartBeat   *)
(* counts a majority without asking whether its leader has an entry of its *)
(* own term, as Raft demands.  TurnLeader leaves the leader itself out of  *)
(* the count until Start puts it in, and so, before Start, a majority of   *)
(* the others is needed: with up to four peers that is all of them.        *)
(* MCRaftOldEntry shows what five peers do.                                *)
(***************************************************************************)
EXTENDS RaftElectionProofs

CommitAssumption ==
    /\ {"OnTime", "Settled", "Fresh"} \subseteq Assumed
    /\ Cardinality(Server) <= 4

(***************************************************************************)
(* Logs.                                                                   *)
(***************************************************************************)
\* Log l begins with p.
Heads(p, l) == Len(p) <= Len(l) /\ \A k \in 1..Len(p) : l[k] = p[k]

\* Log l is at least as good as p: the comparison of RequestVote.
AsGood(l, p) ==
    \/ LastTerm(p) < LastTerm(l)
    \/ LastTerm(p) = LastTerm(l) /\ Len(p) <= Len(l)

\* The request m goes with p: it continues p or something as late, or it is
\* of p as far as both go.
Fits(m, p) ==
    IF m.prevLogIndex >= Len(p)
    THEN m.prevLogTerm >= LastTerm(p)
    ELSE /\ m.prevLogTerm = TermAt(p, m.prevLogIndex)
         /\ \A k \in (m.prevLogIndex + 1)..Len(p) :
               k - m.prevLogIndex <= Len(m.entries) =>
                  m.entries[k - m.prevLogIndex] = p[k]

\* Its entries reach the end of p: a heartbeat that Start has overtaken does
\* not reach the end of its leader's log.
Reaches(m, p) == Len(p) <= m.prevLogIndex + Len(m.entries)

\* The request m asks for a piece of log l.
Window(m, l) ==
    /\ m.prevLogIndex + Len(m.entries) <= Len(l)
    /\ m.prevLogTerm = TermAt(l, m.prevLogIndex)
    /\ \A k \in 1..Len(m.entries) : m.entries[k] = l[m.prevLogIndex + k]

\* A log that is made of entries that the peers and requests hold.
Linked(l) == l \in Seq(Entry) /\ LogLinks(l) \subseteq Links

LEMMA LastTermType ==
    ASSUME NEW l \in Seq(Entry)
    PROVE  LastTerm(l) \in Nat
<1>1. Len(l) \in 0..Len(l)
  OBVIOUS
<1>2. TermAt(l, Len(l)) \in 0..MaxTerm
  BY <1>1, TermAtType
<1> QED BY <1>2, BoundAssumption DEF LastTerm

\* A log is as good as what it begins with, for its terms ascend.
LEMMA HeadsGood ==
    ASSUME NEW l \in Seq(Entry), NEW p \in Seq(Entry), Ascending(l), Heads(p, l)
    PROVE  AsGood(l, p)
<1>1. LastTerm(l) \in Nat /\ LastTerm(p) \in Nat /\ Len(p) \in Nat /\ Len(l) \in Nat
  BY LastTermType
<1>2. LastTerm(p) <= LastTerm(l)
  <2>1. CASE Len(p) = 0
    BY <1>1, <2>1 DEF LastTerm, TermAt
  <2>2. CASE Len(p) # 0
    <3>1. /\ Len(p) \in 1..Len(p) /\ Len(p) \in 1..Len(l) /\ Len(l) \in 1..Len(l)
          /\ Len(p) <= Len(l)
      BY <1>1, <2>2 DEF Heads
    <3>2. l[Len(p)].term <= l[Len(l)].term /\ l[Len(p)] = p[Len(p)]
      BY <3>1 DEF Ascending, Heads
    <3> QED BY <2>2, <3>1, <3>2 DEF LastTerm, TermAt
  <2> QED BY <2>1, <2>2
<1> QED BY <1>1, <1>2 DEF AsGood, Heads

LEMMA GoodTransitive ==
    ASSUME NEW a \in Seq(Entry), NEW b \in Seq(Entry), NEW c \in Seq(Entry),
           AsGood(a, b), AsGood(b, c)
    PROVE  AsGood(a, c)
<1>1. /\ LastTerm(a) \in Nat /\ LastTerm(b) \in Nat /\ LastTerm(c) \in Nat
      /\ Len(a) \in Nat /\ Len(b) \in Nat /\ Len(c) \in Nat
  BY LastTermType
<1> QED BY <1>1 DEF AsGood

LEMMA HeadsTransitive ==
    ASSUME NEW a \in Seq(Entry), NEW b \in Seq(Entry), NEW c \in Seq(Entry),
           Heads(a, b), Heads(b, c)
    PROVE  Heads(a, c)
BY DEF Heads

LEMMA HeadsAppend ==
    ASSUME NEW p \in Seq(Entry), NEW l \in Seq(Entry), NEW e \in Entry, Heads(p, l)
    PROVE  Heads(p, Append(l, e))
BY DEF Heads

LEMMA HeadAscends ==
    ASSUME NEW p \in Seq(Entry), NEW l \in Seq(Entry), Heads(p, l), Ascending(l)
    PROVE  Ascending(p)
<1> SUFFICES ASSUME NEW a \in 1..Len(p), NEW b \in 1..Len(p), a <= b
             PROVE  p[a].term <= p[b].term
  BY DEF Ascending
<1>1. a \in 1..Len(l) /\ b \in 1..Len(l) /\ l[a] = p[a] /\ l[b] = p[b]
  BY DEF Heads
<1> QED BY <1>1 DEF Ascending

\* The links of the head of a log are links of the log.
LEMMA HeadLinked ==
    ASSUME NEW p \in Seq(Entry), NEW l, Linked(l), Heads(p, l)
    PROVE  Linked(p)
<1>1. l \in Seq(Entry) /\ Len(p) \in Nat /\ Len(l) \in Nat /\ Len(p) <= Len(l)
  BY DEF Linked, Heads
<1>2. ASSUME NEW a \in LogLinks(p)
      PROVE  a \in Links
  <2>1. PICK k \in 1..Len(p) : a = Link(k, TermAt(p, k - 1), p[k])
    BY <1>2 DEF LogLinks
  <2>2. k \in 1..Len(l) /\ l[k] = p[k]
    BY <1>1 DEF Heads
  <2>3. TermAt(p, k - 1) = TermAt(l, k - 1)
    <3>1. k - 1 # 0 => k - 1 \in 1..Len(p)
      BY <1>1
    <3> QED BY <3>1 DEF TermAt, Heads
  <2>4. a \in LogLinks(l)
    BY <1>1, <2>1, <2>2, <2>3, LogLink
  <2> QED BY <2>4 DEF Linked
<1> QED BY <1>2 DEF Linked

\* Log matching, for logs that no peer need have.
LEMMA LinkedMatch ==
    ASSUME OneLink, NEW l, NEW r, Linked(l), Linked(r),
           NEW k \in 1..Len(l), k <= Len(r), l[k].term = r[k].term
    PROVE  \A n \in 1..k : l[n] = r[n]
<1> SUFFICES ASSUME NEW n \in 1..k PROVE l[n] = r[n]
  OBVIOUS
<1>1. l \in Seq(Entry) /\ r \in Seq(Entry)
  BY DEF Linked
<1>2. \A a \in LogLinks(l), b \in LogLinks(r) :
         a.index = b.index /\ a.entry.term = b.entry.term => a = b
  BY DEF OneLink, Linked
<1>3. l[n].term = r[n].term
  BY <1>1, <1>2, SameTermsBelow
<1>4. n \in 1..Len(l) /\ n \in 1..Len(r)
  BY <1>1
<1>5. /\ Link(n, TermAt(l, n - 1), l[n]) \in LogLinks(l)
      /\ Link(n, TermAt(r, n - 1), r[n]) \in LogLinks(r)
  BY <1>1, <1>4, LogLink
<1> QED BY <1>2, <1>3, <1>5 DEF Link

RequestsTyped == \A m \in calls : m.kind = "AppendEntries" => m \in AppendRequest

LEMMA RequestsAreTyped == TypeInv => RequestsTyped
BY CallKinds DEF RequestsTyped, TypeInv

LEMMA LogsLinked ==
    ASSUME TypeInv, NEW i \in Server
    PROVE  Linked(log[i])
BY DEF Linked, Links, TypeInv, TypeOK
-----------------------------------------------------------------------------
(***************************************************************************)
(* What a request does to a log.                                           *)
(***************************************************************************)
\* What AppendEntries takes from where.
LEMMA AppendNewParts ==
    ASSUME NEW l \in Seq(Entry), NEW prev \in Nat, prev <= Len(l),
           NEW entries \in Seq(Entry), NEW r, r = AppendNew(l, prev, entries)
    PROVE  /\ r \in Seq(Entry)
           /\ Len(r) >= prev + Len(entries)
           /\ \A k \in 1..Len(r) :
                 \/ k <= Len(l) /\ r[k] = l[k]
                 \/ k - prev \in 1..Len(entries) /\ r[k] = entries[k - prev]
           /\ \A k \in 1..prev : r[k] = l[k]
<1>1. r \in Seq(Entry) /\ Len(r) >= prev + Len(entries)
  BY AppendNewProps
<1>2. \A k \in 1..Len(r) :
         \/ k <= Len(l) /\ r[k] = l[k]
         \/ k - prev \in 1..Len(entries) /\ r[k] = entries[k - prev]
  BY AppendNewProps
<1>3. r = l \/ \A k \in 1..prev : r[k] = l[k]
  BY AppendNewProps
<1> QED BY <1>1, <1>2, <1>3

\* Whether it has to overwrite anything or not, AppendEntries leaves a log
\* that has the terms of the new entries.
LEMMA AppendNewTerms ==
    ASSUME NEW l \in Seq(Entry), NEW prev \in Nat, prev <= Len(l),
           NEW entries \in Seq(Entry), NEW k \in 1..Len(entries)
    PROVE  AppendNew(l, prev, entries)[prev + k].term = entries[k].term
<1> DEFINE differs == {d \in 1..Len(entries) :
                           \/ prev + d > Len(l)
                           \/ l[prev + d].term # entries[d].term}
           point == Min(differs)
           r == AppendNew(l, prev, entries)
<1>1. Len(l) \in Nat /\ Len(entries) \in Nat
  OBVIOUS
<1>2. r \in Seq(Entry) /\ Len(r) >= prev + Len(entries)
  BY AppendNewProps
<1>3. CASE r # l
  <2>1. \A d \in 1..Len(entries) : r[prev + d].term = entries[d].term
    BY <1>3, AppendNewProps
  <2> QED BY <2>1
<1>4. CASE differs = {}
  <2>1. r = l
    BY <1>4 DEF AppendNew
  <2>2. k \notin differs
    BY <1>4
  <2>3. l[prev + k].term = entries[k].term
    BY <2>2
  <2> QED BY <2>1, <2>3
<1>5. CASE r = l /\ differs # {}
  <2>1. point \in differs
    <3>1. differs \in SUBSET Nat
      OBVIOUS
    <3> HIDE DEF differs
    <3> QED BY <1>5, <3>1, MinOf
  <2>2. r = [d \in 1..(prev + Len(entries)) |->
                IF d < prev + point THEN l[d] ELSE entries[d - prev]]
    BY <1>5 DEF AppendNew
  <2> HIDE DEF r, point
  <2>3. point \in 1..Len(entries) /\ prev + point \in 1..(prev + Len(entries))
    BY <1>1, <2>1
  <2>4. r[prev + point] = entries[point]
    BY <1>1, <2>2, <2>3
  <2>5. prev + point <= Len(l)
    BY <1>1, <1>2, <1>5, <2>3
  <2> QED BY <1>5, <2>1, <2>3, <2>4, <2>5
<1> QED BY <1>3, <1>4, <1>5

\* AppendEntries cuts a log only where it differs from a new entry.
LEMMA AppendNewCuts ==
    ASSUME NEW l \in Seq(Entry), NEW prev \in Nat, prev <= Len(l),
           NEW entries \in Seq(Entry), NEW r, r = AppendNew(l, prev, entries), r # l
    PROVE  /\ Len(r) = prev + Len(entries)
           /\ \E d \in 1..Len(entries) :
                 prev + d > Len(l) \/ l[prev + d].term # entries[d].term
<1>1. Len(r) = prev + Len(entries)
  BY AppendNewProps
<1> DEFINE differs == {k \in 1..Len(entries) :
                           \/ prev + k > Len(l)
                           \/ l[prev + k].term # entries[k].term}
<1>2. differs # {}
  BY DEF AppendNew
<1> QED BY <1>1, <1>2

\* A log that has a head s of p keeps it when entries are spliced in that are
\* those of p as far as p goes.
LEMMA SpliceKeeps ==
    ASSUME NEW l \in Seq(Entry), NEW p \in Seq(Entry), NEW s \in Seq(Entry),
           NEW prev \in Nat, prev <= Len(l), NEW entries \in Seq(Entry),
           \A k \in (prev + 1)..Len(p) :
               k - prev <= Len(entries) => entries[k - prev] = p[k],
           Heads(s, p), Heads(s, l), NEW r, r = AppendNew(l, prev, entries)
    PROVE  Heads(s, r)
<1>1. /\ r \in Seq(Entry)
      /\ Len(r) >= prev + Len(entries)
      /\ \A k \in 1..Len(r) :
            \/ k <= Len(l) /\ r[k] = l[k]
            \/ k - prev \in 1..Len(entries) /\ r[k] = entries[k - prev]
  BY AppendNewParts
<1>2. /\ Len(s) \in Nat /\ Len(p) \in Nat /\ Len(l) \in Nat /\ Len(entries) \in Nat
      /\ Len(s) <= Len(p) /\ Len(s) <= Len(l)
      /\ \A k \in 1..Len(s) : s[k] = p[k] /\ s[k] = l[k]
  BY DEF Heads
<1>3. Len(s) <= Len(r)
  <2>1. CASE r = l
    BY <1>2, <2>1
  <2>2. CASE r # l
    <3>1. /\ Len(r) = prev + Len(entries)
          /\ \E d \in 1..Len(entries) :
                prev + d > Len(l) \/ l[prev + d].term # entries[d].term
      BY <2>2, AppendNewCuts
    <3>2. PICK d \in 1..Len(entries) :
             prev + d > Len(l) \/ l[prev + d].term # entries[d].term
      BY <3>1
    <3>3. ASSUME Len(s) > prev + Len(entries)
          PROVE  FALSE
      <4>1. prev + d \in 1..Len(s) /\ prev + d \in (prev + 1)..Len(p) /\ (prev + d) - prev = d
        BY <1>2, <3>3
      <4>2. l[prev + d] = p[prev + d] /\ entries[d] = p[prev + d]
        BY <1>2, <4>1
      <4> QED BY <1>2, <3>2, <4>1, <4>2
    <3> QED BY <1>2, <3>1, <3>3
  <2> QED BY <2>1, <2>2
<1>4. ASSUME NEW k \in 1..Len(s)
      PROVE  r[k] = s[k]
  <2>1. k \in 1..Len(r) /\ l[k] = s[k] /\ p[k] = s[k]
    BY <1>1, <1>2, <1>3
  <2>2. CASE k - prev \in 1..Len(entries) /\ r[k] = entries[k - prev]
    <3>1. k \in (prev + 1)..Len(p) /\ k - prev <= Len(entries)
      BY <1>2, <2>2
    <3> QED BY <2>1, <2>2, <3>1
  <2> QED BY <1>1, <2>1, <2>2
<1> QED BY <1>3, <1>4 DEF Heads

\* A peer that has a head s of p keeps it when it accepts a request that
\* fits p.
LEMMA AcceptKeeps ==
    ASSUME NEW m \in AppendRequest, NEW l \in Seq(Entry), NEW p \in Seq(Entry),
           NEW s \in Seq(Entry), m.prevLogIndex <= Len(l), Fits(m, p),
           Heads(s, p), Heads(s, l)
    PROVE  Heads(s, AppendNew(l, m.prevLogIndex, m.entries))
<1>1. m.prevLogIndex \in Nat /\ m.entries \in Seq(Entry) /\ Len(p) \in Nat
  BY DEF AppendRequest
<1>2. PICK prev \in Nat, entries \in Seq(Entry) :
         prev = m.prevLogIndex /\ entries = m.entries
  BY <1>1
<1>3. \A k \in (prev + 1)..Len(p) : k - prev <= Len(entries) => entries[k - prev] = p[k]
  <2>1. CASE prev >= Len(p)
    BY <1>1, <2>1
  <2>2. CASE prev < Len(p)
    BY <1>2, <2>2 DEF Fits
  <2> QED BY <1>1, <2>1, <2>2
<1>4. prev <= Len(l)
  BY <1>2
<1>5. Heads(s, AppendNew(l, prev, entries))
  BY <1>3, <1>4, SpliceKeeps
<1> QED BY <1>2, <1>5

\* A peer that accepts a request that carries all of p from an entry before
\* its end has p: the consistency check found what comes before.
LEMMA AcceptGives ==
    ASSUME OneLink, NEW m \in AppendRequest, NEW l, NEW p,
           Linked(l), Linked(p), Linked(AppendNew(l, m.prevLogIndex, m.entries)),
           m.prevLogIndex <= Len(l), TermAt(l, m.prevLogIndex) = m.prevLogTerm,
           m.prevLogIndex <= Len(p), TermAt(p, m.prevLogIndex) = m.prevLogTerm,
           Len(p) <= m.prevLogIndex + Len(m.entries),
           \A k \in (m.prevLogIndex + 1)..Len(p) : m.entries[k - m.prevLogIndex] = p[k]
    PROVE  Heads(p, AppendNew(l, m.prevLogIndex, m.entries))
<1> DEFINE prev == m.prevLogIndex
           r == AppendNew(l, prev, m.entries)
<1>1. /\ prev \in Nat /\ m.entries \in Seq(Entry)
      /\ l \in Seq(Entry) /\ p \in Seq(Entry)
      /\ Len(l) \in Nat /\ Len(p) \in Nat /\ Len(m.entries) \in Nat
  BY DEF AppendRequest, Linked
<1>2. r \in Seq(Entry) /\ Len(r) >= prev + Len(m.entries)
  BY <1>1, AppendNewProps, Zenon
<1>3. CASE Len(p) = 0
  BY <1>1, <1>2, <1>3 DEF Heads
<1>4. CASE Len(p) # 0
  <2>1. Len(p) \in 1..Len(p) /\ Len(p) <= Len(r)
    BY <1>1, <1>2, <1>4
  <2>2. r[Len(p)].term = p[Len(p)].term
    <3>1. CASE prev < Len(p)
      <4>1. Len(p) - prev \in 1..Len(m.entries) /\ prev + (Len(p) - prev) = Len(p)
            /\ Len(p) \in (prev + 1)..Len(p)
        BY <1>1, <3>1
      <4>2. r[prev + (Len(p) - prev)].term = m.entries[Len(p) - prev].term
        BY <1>1, <4>1, AppendNewTerms
      <4> QED BY <4>1, <4>2
    <3>2. CASE prev = Len(p)
      <4>1. \A k \in 1..prev : r[k] = l[k]
        BY <1>1, AppendNewParts
      <4>2. r[prev] = l[prev]
        BY <2>1, <3>2, <4>1
      <4>3. TermAt(l, prev) = l[prev].term /\ TermAt(p, prev) = p[prev].term
        BY <1>4, <3>2 DEF TermAt
      <4> QED BY <3>2, <4>2, <4>3
    <3> QED BY <1>1, <3>1, <3>2
  <2>3. \A n \in 1..Len(p) : p[n] = r[n]
    <3> HIDE DEF r
    <3>1. Linked(r)
      BY DEF r
    <3> QED BY <2>1, <2>2, <3>1, LinkedMatch
  <2> QED BY <2>1, <2>3 DEF Heads
<1> QED BY <1>3, <1>4

\* What sendHeartBeat copies is a piece of the log, to its end.
LEMMA SentWindow ==
    ASSUME NEW l \in Seq(Entry), NEW next \in 1..(Len(l) + 1), NEW m,
           m.prevLogIndex = next - 1, m.prevLogTerm = TermAt(l, next - 1),
           m.entries = SubSeq(l, next, Len(l))
    PROVE  Window(m, l) /\ m.prevLogIndex + Len(m.entries) = Len(l)
<1>1. PICK e \in Seq(Entry) : e = SubSeq(l, next, Len(l)) /\ e = m.entries
  <2>1. Len(l) \in Nat /\ next \in Nat /\ next >= 1
    OBVIOUS
  <2>2. SubSeq(l, next, Len(l)) \in Seq(Entry)
    BY <2>1
  <2> QED BY <2>2, Zenon
<1>2. Len(e) = Len(l) - next + 1 /\ Len(l) \in Nat
  BY <1>1
<1>3. \A k \in 1..Len(e) : e[k] = l[next + k - 1]
  BY <1>1, <1>2
<1>4. \A k \in 1..Len(e) : next + k - 1 = (next - 1) + k
  BY <1>2
<1> QED BY <1>1, <1>2, <1>3, <1>4 DEF Window

\* It is a piece of what the log grows to.
LEMMA WindowStays ==
    ASSUME NEW m \in AppendRequest, NEW l \in Seq(Entry), NEW r \in Seq(Entry),
           Window(m, l), Heads(l, r)
    PROVE  Window(m, r)
<1>1. PICK prev \in Nat, e \in Seq(Entry) : prev = m.prevLogIndex /\ e = m.entries
  BY DEF AppendRequest
<1>2. /\ Len(e) \in Nat /\ Len(l) \in Nat /\ Len(r) \in Nat
      /\ Len(l) <= Len(r) /\ \A k \in 1..Len(l) : r[k] = l[k]
      /\ prev + Len(e) <= Len(l) /\ m.prevLogTerm = TermAt(l, prev)
      /\ \A k \in 1..Len(e) : e[k] = l[prev + k]
  BY <1>1 DEF Window, Heads
<1>3. TermAt(r, prev) = TermAt(l, prev)
  <2>1. prev # 0 => prev \in 1..Len(l)
    BY <1>2
  <2> QED BY <1>2, <2>1 DEF TermAt
<1>4. \A k \in 1..Len(e) : e[k] = r[prev + k]
  BY <1>2
<1>5. prev + Len(e) <= Len(r)
  BY <1>2
<1> QED BY <1>1, <1>2, <1>3, <1>4, <1>5 DEF Window

\* A piece of a log that begins with p fits p.
LEMMA WindowFits ==
    ASSUME NEW m \in AppendRequest, NEW l \in Seq(Entry), NEW p \in Seq(Entry),
           p # <<>>, Ascending(l), Heads(p, l), Window(m, l)
    PROVE  Fits(m, p)
<1>1. PICK prev \in Nat, e \in Seq(Entry) : prev = m.prevLogIndex /\ e = m.entries
  BY DEF AppendRequest
<1>2. /\ Len(e) \in Nat /\ Len(l) \in Nat /\ Len(p) \in Nat /\ Len(p) # 0
      /\ Len(p) <= Len(l) /\ \A k \in 1..Len(p) : l[k] = p[k]
      /\ prev + Len(e) <= Len(l) /\ m.prevLogTerm = TermAt(l, prev)
      /\ \A k \in 1..Len(e) : e[k] = l[prev + k]
  BY <1>1 DEF Window, Heads
<1>3. CASE prev >= Len(p)
  <2>1. /\ Len(p) \in 1..Len(p) /\ Len(p) \in 1..Len(l) /\ prev \in 1..Len(l)
        /\ prev # 0 /\ Len(p) <= prev
    BY <1>2, <1>3
  <2>2. l[Len(p)].term <= l[prev].term /\ l[Len(p)] = p[Len(p)]
    BY <1>2, <2>1 DEF Ascending
  <2>3. m.prevLogTerm = l[prev].term /\ LastTerm(p) = p[Len(p)].term
    BY <1>2, <2>1 DEF LastTerm, TermAt
  <2>4. m.prevLogTerm >= LastTerm(p)
    <3>1. l[prev] \in Entry /\ p[Len(p)] \in Entry
      BY <2>1
    <3>2. \A x \in Entry : x.term \in Nat
      BY BoundAssumption DEF Entry, Term
    <3> QED BY <2>2, <2>3, <3>1, <3>2
  <2> QED BY <1>1, <1>3, <2>4 DEF Fits
<1>4. CASE prev < Len(p)
  <2>1. ASSUME NEW k \in (prev + 1)..Len(p), k - prev <= Len(e)
        PROVE  e[k - prev] = p[k]
    <3>1. k - prev \in 1..Len(e) /\ prev + (k - prev) = k /\ k \in 1..Len(p)
      BY <1>2, <2>1
    <3>2. e[k - prev] = l[prev + (k - prev)]
      BY <1>2, <3>1
    <3> QED BY <1>2, <3>1, <3>2
  <2>2. TermAt(l, prev) = TermAt(p, prev)
    <3>1. prev # 0 => prev \in 1..Len(p)
      BY <1>2, <1>4
    <3> QED BY <1>2, <3>1 DEF TermAt
  <2> QED BY <1>1, <1>2, <1>4, <2>1, <2>2 DEF Fits
<1> QED BY <1>2, <1>3, <1>4
-----------------------------------------------------------------------------
(***************************************************************************)
(* What makes an entry safe.                                               *)
(***************************************************************************)
\* A leader that has been through TurnLeader.
Leads(i) == state[i] = "LEADER" /\ winning[i] = 0

\* The peers that have acknowledged all of leader i's log, or whose answer
\* to that effect is on its way: an answer to a heartbeat that Start has
\* overtaken is none.
Acked(i) ==
    {q \in Server :
        \/ q # i /\ matchIndex[i][q] = Len(log[i])
        \/ \E m \in calls : /\ m.kind = "AppendEntriesReply" /\ m.success
                            /\ m.src = i /\ m.dst = q /\ m.term = currentTerm[i]
                            /\ m.last = Len(log[i])}

\* The peers Q have p, from a leader of term t or a later one.
MembersHave(p, t, Q) == \A q \in Q : currentTerm[q] >= t /\ Heads(p, log[q])

\* So has every leader of term t or a later one,
LeadersHave(p, t) ==
    \A j \in Server : state[j] = "LEADER" /\ currentTerm[j] >= t => Heads(p, log[j])

\* and what such a leader sends fits it.
RequestsFit(p, t) ==
    \A m \in calls : m.kind = "AppendEntries" /\ m.term >= t => Fits(m, p)

\* Whoever has the vote of one of Q after term t has p.
CandidatesHave(p, t, Q) ==
    \A c \in Server, v \in Q :
        state[c] # "FOLLOWER" /\ currentTerm[c] > t /\ Granted(v, c, currentTerm[c]) =>
            Heads(p, log[c])

\* When p ends in an entry of term t, every log as good as p has p.
GoodLogsHave(p, t) ==
    LastTerm(p) = t => \A j \in Server : AsGood(log[j], p) => Heads(p, log[j])

Secure(p, t, Q) ==
    /\ MembersHave(p, t, Q)
    /\ LeadersHave(p, t)
    /\ RequestsFit(p, t)
    /\ CandidatesHave(p, t, Q)
    /\ GoodLogsHave(p, t)

\* Nobody is elected after term t without the vote of one of Q.
Blocks(t, Q) ==
    \A V \in SUBSET Server :
        Majority(V) /\ (\A v \in V : currentTerm[v] > t) => V \cap Q # {}

\* Everybody who has gone past term t is one of Q.
AllIn(t, Q) == \A v \in Server : currentTerm[v] > t => v \in Q

\* Q is enough to keep p, although p need not end in an entry of term t.
Guards(p, t, Q) == Blocks(t, Q) /\ (LastTerm(p) = t \/ AllIn(t, Q))

\* Somebody has led in term t.
HasWinner(t) == \E w \in Server : Winner(w, t)

\* p is in the log of a leader of term t, or was.
Kept(p, t) ==
    /\ Linked(p) /\ p # <<>> /\ Ascending(p)
    /\ t \in Term /\ LastTerm(p) <= t
    /\ HasWinner(t)

\* A candidate's log is as good as it was when it asked for votes.
AsksBest ==
    \A m \in calls :
        /\ m.kind = "RequestVote"
        /\ m.term = currentTerm[m.src] /\ state[m.src] # "FOLLOWER"
        => \/ m.lastLogTerm < LastTerm(log[m.src])
           \/ /\ m.lastLogTerm = LastTerm(log[m.src])
              /\ m.lastLogIndex <= Len(log[m.src])

-----------------------------------------------------------------------------
(***************************************************************************)
(* What one step does to a log.                                            *)
(***************************************************************************)
\* Start on leader j.
Appends(j) ==
    /\ state[j] = "LEADER" /\ state'[j] = "LEADER"
    /\ currentTerm'[j] = currentTerm[j]
    /\ \E e \in Entry : e.term = currentTerm[j] /\ log'[j] = Append(log[j], e)

\* AppendEntries accepts the request m.
Accepts(m) ==
    /\ AppendEntries(m) /\ AppendAccepted(m)
    /\ m \in AppendRequest /\ m.kind = "AppendEntries"
    /\ m.term >= currentTerm[m.dst]
    /\ m.prevLogIndex <= Len(log[m.dst])
    /\ TermAt(log[m.dst], m.prevLogIndex) = m.prevLogTerm
    /\ log'[m.dst] = AppendNew(log[m.dst], m.prevLogIndex, m.entries)
    /\ currentTerm'[m.dst] = m.term
    /\ state'[m.dst] = "FOLLOWER"

LEMMA AcceptedAccepts ==
    ASSUME TypeInv, NEW m \in calls, AppendEntries(m), AppendAccepted(m)
    PROVE  Accepts(m)
<1>1. m.dst \in Server /\ m \in AppendRequest
  BY AcceptedProps
<1>2. /\ currentTerm \in [Server -> 0..MaxTerm]
      /\ log \in [Server -> Seq(Entry)]
      /\ state \in [Server -> {"LEADER", "CANDIDATE", "FOLLOWER"}]
  BY DEF TypeInv, TypeOK
<1>3. m.kind = "AppendEntries" /\ m.term >= currentTerm[m.dst]
  BY DEF AppendEntries, AppendAccepted, Acknowledge
<1> QED BY <1>1, <1>2, <1>3, AcceptedProps DEF Accepts

LEMMA LogStep ==
    ASSUME TypeInv, Next, NEW j \in Server
    PROVE  \/ log'[j] = log[j]
           \/ Appends(j)
           \/ \E m \in calls : m.dst = j /\ Accepts(m)
<1>1. CASE UNCHANGED log
  BY <1>1
<1>2. ASSUME NEW i \in Server, NEW v \in Value, Start(i, v)
      PROVE  log'[j] = log[j] \/ Appends(j)
  <2>1. /\ [term |-> currentTerm[i], command |-> v] \in Entry
        /\ log' = [log EXCEPT ![i] = Append(log[i], [term |-> currentTerm[i], command |-> v])]
        /\ currentTerm' = currentTerm
    BY <1>2, StartProps
  <2>2. state[i] = "LEADER" /\ state' = state
    BY <1>2 DEF Start, peerVars
  <2>3. log \in [Server -> Seq(Entry)]
    BY DEF TypeInv, TypeOK
  <2>4. CASE i = j
    <3>1. log'[j] = Append(log[j], [term |-> currentTerm[i], command |-> v])
      BY <2>1, <2>3, <2>4
    <3> QED BY <2>1, <2>2, <2>4, <3>1 DEF Appends
  <2>5. CASE i # j
    BY <2>1, <2>3, <2>5
  <2> QED BY <2>4, <2>5
<1>3. ASSUME NEW m \in calls, AppendEntries(m), AppendAccepted(m)
      PROVE  log'[j] = log[j] \/ (m.dst = j /\ Accepts(m))
  <2>1. Accepts(m)
    BY <1>3, AcceptedAccepts
  <2>2. log' = [log EXCEPT ![m.dst] = AppendNew(log[m.dst], m.prevLogIndex, m.entries)]
    BY <1>3, AcceptedProps
  <2>3. log \in [Server -> Seq(Entry)]
    BY DEF TypeInv, TypeOK
  <2> QED BY <2>1, <2>2, <2>3
<1> QED BY <1>1, <1>2, <1>3, LogWriters

\* The log that AppendEntries leaves is made of entries that were there.
LEMMA AcceptLinked ==
    ASSUME TypeInv, NEW m \in calls, Accepts(m)
    PROVE  Linked(AppendNew(log[m.dst], m.prevLogIndex, m.entries))
<1> DEFINE l == log[m.dst]
           r == AppendNew(l, m.prevLogIndex, m.entries)
<1>1. m.dst \in Server /\ m \in AppendRequest /\ l \in Seq(Entry)
  BY CallKinds DEF TypeInv, TypeOK, Accepts
<1>2. m.prevLogIndex \in Nat /\ m.entries \in Seq(Entry) /\ m.prevLogIndex <= Len(l)
  BY <1>1 DEF AppendRequest, Accepts
<1>3. r \in Seq(Entry)
  <2> HIDE DEF l
  <2> QED BY <1>1, <1>2, AppendNewProps, Zenon
<1>4. LogLinks(r) \subseteq LogLinks(l) \cup RequestLinks(m)
  BY <1>1, SpliceLinks DEF Accepts
<1>5. LogLinks(l) \cup RequestLinks(m) \subseteq Links
  BY <1>1 DEF Links, Accepts
<1> QED BY <1>3, <1>4, <1>5 DEF Linked

\* A log with an entry as late as the end of p, and as far on, is as good.
LEMMA PrevGood ==
    ASSUME TypeInv, LogsAscend, NEW m \in calls, Accepts(m),
           NEW p \in Seq(Entry), p # <<>>, m.prevLogIndex >= Len(p), Fits(m, p)
    PROVE  AsGood(log[m.dst], p)
<1>1. PICK l \in Seq(Entry), prev \in Nat :
         /\ l = log[m.dst] /\ prev = m.prevLogIndex
         /\ Ascending(l) /\ prev <= Len(l) /\ TermAt(l, prev) = m.prevLogTerm
         /\ prev >= Len(p) /\ m.prevLogTerm >= LastTerm(p)
  BY CallKinds DEF TypeInv, TypeOK, Accepts, AppendRequest, LogsAscend, Fits
<1>2. Len(p) \in Nat \ {0} /\ Len(l) \in Nat
  OBVIOUS
<1>3. prev \in 1..Len(l) /\ Len(l) \in 1..Len(l) /\ prev # 0 /\ Len(l) # 0
  BY <1>1, <1>2
<1>4. l[prev].term <= l[Len(l)].term
  BY <1>1, <1>3 DEF Ascending
<1>5. TermAt(l, prev) <= LastTerm(l)
  BY <1>3, <1>4 DEF LastTerm, TermAt
<1>6. LastTerm(l) \in Nat /\ LastTerm(p) \in Nat /\ TermAt(l, prev) \in Nat
  BY <1>1, <1>3, LastTermType, TermAtType, BoundAssumption
<1>7. Len(p) <= Len(l) /\ LastTerm(p) <= LastTerm(l)
  BY <1>1, <1>2, <1>5, <1>6
<1>8. AsGood(l, p)
  BY <1>6, <1>7 DEF AsGood
<1> QED BY <1>1, <1>8

\* After a request that has the end of p is accepted the peer has p, if it
\* had p when the request continues a log longer than p.
LEMMA AcceptHeads ==
    ASSUME TypeInv, OneLink, NEW m \in calls, Accepts(m),
           NEW p, Linked(p), Fits(m, p), Reaches(m, p),
           m.prevLogIndex >= Len(p) => Heads(p, log[m.dst])
    PROVE  Heads(p, log'[m.dst])
<1>1. /\ m.dst \in Server /\ m \in AppendRequest /\ log[m.dst] \in Seq(Entry)
      /\ p \in Seq(Entry) /\ Len(p) \in Nat /\ m.prevLogIndex \in Nat
      /\ m.prevLogIndex <= Len(log[m.dst])
      /\ TermAt(log[m.dst], m.prevLogIndex) = m.prevLogTerm
      /\ log'[m.dst] = AppendNew(log[m.dst], m.prevLogIndex, m.entries)
  BY CallKinds DEF TypeInv, TypeOK, Accepts, AppendRequest, Linked
<1>2. CASE m.prevLogIndex >= Len(p)
  <2>1. Heads(p, p)
    BY <1>1 DEF Heads
  <2> QED BY <1>1, <1>2, <2>1, AcceptKeeps
<1>3. CASE m.prevLogIndex < Len(p)
  <2>1. /\ m.prevLogTerm = TermAt(p, m.prevLogIndex)
        /\ Len(p) <= m.prevLogIndex + Len(m.entries)
        /\ \A k \in (m.prevLogIndex + 1)..Len(p) :
              m.entries[k - m.prevLogIndex] = p[k]
    <3>1. /\ m.prevLogTerm = TermAt(p, m.prevLogIndex)
          /\ Len(p) <= m.prevLogIndex + Len(m.entries)
          /\ \A k \in (m.prevLogIndex + 1)..Len(p) :
                k - m.prevLogIndex <= Len(m.entries) =>
                   m.entries[k - m.prevLogIndex] = p[k]
      BY <1>1, <1>3 DEF Fits, Reaches
    <3>2. Len(m.entries) \in Nat
      BY <1>1 DEF AppendRequest
    <3>3. \A k \in (m.prevLogIndex + 1)..Len(p) : k - m.prevLogIndex <= Len(m.entries)
      BY <1>1, <3>1, <3>2
    <3> QED BY <3>1, <3>3
  <2>2. Linked(log[m.dst]) /\ Linked(AppendNew(log[m.dst], m.prevLogIndex, m.entries))
    BY <1>1, LogsLinked, AcceptLinked
  <2>3. m.prevLogIndex <= Len(p)
    BY <1>1, <1>3
  <2>4. Heads(p, AppendNew(log[m.dst], m.prevLogIndex, m.entries))
    BY <1>1, <2>1, <2>2, <2>3, AcceptGives
  <2> QED BY <1>1, <2>4
<1> QED BY <1>1, <1>2, <1>3

\* A request that fits p and does not reach its end leaves a log as good as p
\* only if it leaves it as it is.
LEMMA ShortRequest ==
    ASSUME TypeInv, NEW m \in calls, Accepts(m),
           NEW p \in Seq(Entry), Ascending(p), Fits(m, p), ~Reaches(m, p),
           m.prevLogIndex < Len(p), AsGood(log'[m.dst], p)
    PROVE  log'[m.dst] = log[m.dst]
<1> SUFFICES ASSUME log'[m.dst] # log[m.dst] PROVE FALSE
  OBVIOUS
<1>1. PICK prev \in Nat, e \in Seq(Entry), l \in Seq(Entry) :
         /\ prev = m.prevLogIndex /\ e = m.entries /\ l = log[m.dst]
         /\ prev <= Len(l)
         /\ log'[m.dst] = AppendNew(l, prev, e)
  BY CallKinds DEF TypeInv, TypeOK, Accepts, AppendRequest
<1>2. PICK r \in Seq(Entry) : r = AppendNew(l, prev, e) /\ r = log'[m.dst] /\ r # l
  <2>1. AppendNew(l, prev, e) \in Seq(Entry)
    BY <1>1, AppendNewProps, Zenon
  <2> QED BY <1>1, <2>1
<1>3. Len(r) = prev + Len(e) /\ \E d \in 1..Len(e) : TRUE
  BY <1>1, <1>2, AppendNewCuts
<1>4. /\ Len(e) \in Nat /\ Len(p) \in Nat /\ Len(r) \in Nat
      /\ prev < Len(p) /\ prev + Len(e) < Len(p) /\ Len(e) \in 1..Len(e)
  <2>1. ~(Len(p) <= prev + Len(e)) /\ prev < Len(p)
    BY <1>1 DEF Reaches
  <2>2. Len(e) \in Nat /\ Len(p) \in Nat /\ Len(r) \in Nat
    OBVIOUS
  <2> QED BY <1>3, <2>1, <2>2
<1>5. r[Len(r)].term = e[Len(e)].term
  <2>1. prev <= Len(l) /\ Len(e) \in 1..Len(e)
    BY <1>1, <1>4
  <2>2. AppendNew(l, prev, e)[prev + Len(e)].term = e[Len(e)].term
    BY <2>1, AppendNewTerms
  <2> QED BY <1>2, <1>3, <2>2
<1>6. e[Len(e)] = p[Len(r)]
  <2>1. \A k \in (prev + 1)..Len(p) : k - prev <= Len(e) => e[k - prev] = p[k]
    BY <1>1, <1>4 DEF Fits
  <2>2. /\ Len(r) \in (prev + 1)..Len(p) /\ Len(r) - prev = Len(e)
        /\ Len(r) - prev <= Len(e)
    BY <1>3, <1>4
  <2>3. e[Len(r) - prev] = p[Len(r)]
    BY <2>1, <2>2
  <2> QED BY <2>2, <2>3
<1>7. p[Len(r)].term <= p[Len(p)].term
  <2>1. Len(r) \in 1..Len(p) /\ Len(p) \in 1..Len(p) /\ Len(r) <= Len(p)
    BY <1>3, <1>4
  <2> QED BY <2>1 DEF Ascending
<1>8. LastTerm(r) = r[Len(r)].term /\ LastTerm(p) = p[Len(p)].term
  BY <1>3, <1>4 DEF LastTerm, TermAt
<1>9. LastTerm(r) \in Nat /\ LastTerm(p) \in Nat
  BY LastTermType
<1>10. LastTerm(p) < LastTerm(r) \/ Len(p) <= Len(r)
  BY <1>2 DEF AsGood
<1> QED BY <1>3, <1>4, <1>5, <1>6, <1>7, <1>8, <1>9, <1>10
-----------------------------------------------------------------------------
(***************************************************************************)
(* One step keeps an entry safe.                                           *)
(***************************************************************************)
\* Who has voted in a term has come to it.
LEMMA GrantedTerm ==
    ASSUME MatchInv, NEW v \in Server, NEW c \in Server, NEW t \in Term, Granted(v, c, t)
    PROVE  currentTerm[v] >= t
<1>1. /\ currentTerm[v] \in Nat /\ t \in Nat
      /\ VotesKept /\ CountsAreOld /\ VotesAreCounted
  BY BoundAssumption DEF MatchInv, ElectionInv, WonInv, TypeInv, TypeOK, Term
<1>2. CASE v # c
  BY <1>1, <1>2 DEF VotesKept
<1>3. CASE v = c
  <2>1. voters[c][t] # {}
    BY <1>1, <1>3 DEF Granted, VotesAreCounted
  <2> QED BY <1>1, <1>3, <2>1 DEF CountsAreOld
<1> QED BY <1>2, <1>3

VotersCame ==
    \A v, c \in Server, t \in Term : Granted(v, c, t) => currentTerm[v] >= t

LEMMA VotersHaveCome == MatchInv => VotersCame
BY GrantedTerm DEF VotersCame

\* A majority has come to a term in which somebody has led.
LEMMA WinnerMajority ==
    ASSUME MatchInv, NEW j \in Server, NEW t \in Term, Winner(j, t)
    PROVE  /\ voters[j][t] \in SUBSET Server /\ Majority(voters[j][t])
           /\ \A v \in voters[j][t] : currentTerm[v] >= t
<1>1. voters[j][t] \in SUBSET Server
  BY DEF MatchInv, WonInv, TypeInv, TypeOK
<1>2. \A v \in voters[j][t] : currentTerm[v] >= t
  BY <1>1, GrantedTerm DEF Granted
<1> QED BY <1>1, <1>2 DEF Winner

\* A step of a timely group from and to a state in which what is known of
\* elections and logs holds.
Advances ==
    /\ TimelyElections
    /\ MatchInv /\ AscendInv /\ AsksBest
    /\ TimelyNext
    /\ MatchInv' /\ AscendInv'

LEMMA AdvanceTypes ==
    ASSUME Advances
    PROVE  /\ Next /\ TypeInv /\ ElectionInv /\ WonInv /\ OneLink /\ LogsAscend
           /\ TypeInv' /\ ElectionInv' /\ WonInv' /\ OneLink' /\ LogsAscend'
           /\ log \in [Server -> Seq(Entry)] /\ log' \in [Server -> Seq(Entry)]
           /\ currentTerm \in [Server -> Nat] /\ currentTerm' \in [Server -> Nat]
           /\ \A j \in Server : currentTerm'[j] >= currentTerm[j]
           /\ Term \subseteq Nat
<1>1. Next /\ TypeInv /\ TypeInv'
  BY TimelyIsRaft DEF Advances, AscendInv
<1>2. /\ log \in [Server -> Seq(Entry)] /\ log' \in [Server -> Seq(Entry)]
      /\ currentTerm \in [Server -> 0..MaxTerm] /\ currentTerm' \in [Server -> 0..MaxTerm]
  BY <1>1 DEF TypeInv, TypeOK
<1>3. /\ ElectionInv /\ WonInv /\ OneLink /\ LogsAscend
      /\ ElectionInv' /\ WonInv' /\ OneLink' /\ LogsAscend'
  BY DEF Advances, MatchInv, AscendInv
<1>4. 0..MaxTerm \subseteq Nat /\ Term \subseteq Nat
  BY BoundAssumption DEF Term
<1>5. \A j \in Server : currentTerm'[j] >= currentTerm[j]
  BY <1>1, TermsGrow
<1> QED BY <1>1, <1>2, <1>3, <1>4, <1>5

LEMMA KeptTypes ==
    ASSUME NEW p, NEW t, Kept(p, t)
    PROVE  /\ p \in Seq(Entry) /\ p # <<>> /\ Linked(p) /\ Ascending(p)
           /\ t \in Term /\ t \in Nat /\ LastTerm(p) \in Nat /\ LastTerm(p) <= t
<1>1. /\ p \in Seq(Entry) /\ p # <<>> /\ Linked(p) /\ Ascending(p)
      /\ t \in Term /\ LastTerm(p) <= t
  BY DEF Kept, Linked
<1>2. LastTerm(p) \in Nat
  BY <1>1, LastTermType
<1> QED BY <1>1, <1>2, BoundAssumption DEF Term

\* A peer of Q keeps p: whatever it accepts now fits p.
LEMMA MemberStep ==
    ASSUME Advances, NEW p, NEW t, Kept(p, t), RequestsFit(p, t),
           NEW q \in Server, currentTerm[q] >= t, Heads(p, log[q])
    PROVE  currentTerm'[q] >= t /\ Heads(p, log'[q])
<1>1. /\ Next /\ TypeInv /\ OneLink /\ log[q] \in Seq(Entry)
      /\ currentTerm[q] \in Nat /\ currentTerm'[q] \in Nat /\ t \in Nat
      /\ currentTerm'[q] >= currentTerm[q] /\ p \in Seq(Entry) /\ Linked(p)
  BY AdvanceTypes, KeptTypes
<1>2. CASE Appends(q)
  BY <1>1, <1>2, HeadsAppend DEF Appends
<1>3. ASSUME NEW m \in calls, m.dst = q, Accepts(m)
      PROVE  Heads(p, log'[q])
  <2>1. m.term >= t
    <3>1. m.term \in Nat /\ m.term >= currentTerm[q]
      BY <1>1, <1>3, CallKinds, AdvanceTypes DEF Accepts
    <3> QED BY <1>1, <3>1
  <2>2. Fits(m, p)
    BY <1>3, <2>1 DEF RequestsFit, Accepts
  <2>3. Heads(p, p)
    BY <1>1 DEF Heads
  <2>4. /\ m \in AppendRequest /\ m.prevLogIndex <= Len(log[q])
        /\ log'[q] = AppendNew(log[q], m.prevLogIndex, m.entries)
    BY <1>3 DEF Accepts
  <2> QED BY <1>1, <2>2, <2>3, <2>4, AcceptKeeps
<1>4. Heads(p, log'[q])
  BY <1>1, <1>2, <1>3, LogStep
<1> QED BY <1>1, <1>4

\* A new leader has the votes of a majority, which have come to its term.
LEMMA NewLeaderStep ==
    ASSUME Advances, NEW j \in Server, state[j] # "LEADER", state'[j] = "LEADER"
    PROVE  /\ state[j] # "FOLLOWER"
           /\ currentTerm'[j] = currentTerm[j] /\ currentTerm[j] \in Term
           /\ log'[j] = log[j]
           /\ \E V \in SUBSET Server :
                 /\ Majority(V)
                 /\ \A v \in V : /\ currentTerm[v] >= currentTerm[j]
                                 /\ v # j => Granted(v, j, currentTerm[j])
<1>1. Next /\ TypeInv /\ ElectionInv /\ TypeInv' /\ TimelyElections /\ TimelyNext
      /\ MatchInv /\ MatchInv' /\ currentTerm[j] \in Nat
  BY AdvanceTypes DEF Advances
<1>2. /\ state[j] = "CANDIDATE" /\ currentTerm'[j] = currentTerm[j]
      /\ Majority(voters'[j][currentTerm[j]])
  BY <1>1, PeerSteps DEF PeerStep, Stays, Campaigns, StepsDown, Votes, Wins
<1>3. currentTerm[j] \in Term
  BY <1>1, <1>2 DEF TypeInv, InATerm
<1>4. log'[j] = log[j]
  BY <1>1, LogStep DEF Appends, Accepts
<1>5. voters'[j][currentTerm[j]] \in SUBSET Server
  BY <1>1, <1>3 DEF TypeInv, TypeOK
<1>6. ASSUME NEW v \in voters'[j][currentTerm[j]]
      PROVE  /\ currentTerm[v] >= currentTerm[j]
             /\ v # j => Granted(v, j, currentTerm[j])
  <2>1. v \in Server
    BY <1>5
  <2>2. v # j => Granted(v, j, currentTerm[j])
    BY <1>1, <1>3, <1>6, <2>1, VotersOrigin
  <2> QED BY <1>1, <1>3, <2>1, <2>2, GrantedTerm
<1> QED BY <1>2, <1>3, <1>4, <1>5, <1>6

LEMMA LeadersStep ==
    ASSUME Advances, NEW p, NEW t, Kept(p, t), NEW Q \in SUBSET Server,
           Secure(p, t, Q), Blocks(t, Q)
    PROVE  LeadersHave(p, t)'
<1>1. SUFFICES ASSUME NEW j \in Server, state'[j] = "LEADER", currentTerm'[j] >= t
               PROVE  Heads(p, log'[j])
  BY DEF LeadersHave, Heads
<1>2. /\ Next /\ TypeInv /\ ElectionInv /\ log[j] \in Seq(Entry)
      /\ currentTerm[j] \in Nat /\ t \in Nat /\ t \in Term
      /\ p \in Seq(Entry) /\ TimelyElections /\ TimelyNext
      /\ MatchInv /\ MatchInv' /\ ElectionInv'
  BY AdvanceTypes, KeptTypes DEF Advances
<1>3. CASE state[j] = "LEADER"
  <2>1. currentTerm'[j] = currentTerm[j]
    BY <1>1, <1>2, <1>3, PeerSteps DEF PeerStep, Stays, Campaigns, StepsDown, Votes, Wins
  <2>2. Heads(p, log[j])
    BY <1>1, <1>3, <2>1 DEF Secure, LeadersHave
  <2>3. log'[j] = log[j] \/ Appends(j)
    BY <1>1, <1>2, LogStep DEF Accepts
  <2> QED BY <1>2, <2>2, <2>3, HeadsAppend DEF Appends
<1>4. CASE state[j] # "LEADER"
  <2>1. /\ state[j] # "FOLLOWER"
        /\ currentTerm'[j] = currentTerm[j] /\ currentTerm[j] \in Term
        /\ log'[j] = log[j]
    BY <1>1, <1>4, NewLeaderStep
  <2>2. PICK V \in SUBSET Server :
           /\ Majority(V)
           /\ \A v \in V : /\ currentTerm[v] >= currentTerm[j]
                           /\ v # j => Granted(v, j, currentTerm[j])
    BY <1>1, <1>4, NewLeaderStep
  <2>3. currentTerm[j] # t
    <3> SUFFICES ASSUME currentTerm[j] = t PROVE FALSE
      OBVIOUS
    <3>1. PICK w \in Server : Winner(w, t)
      BY DEF Kept, HasWinner
    <3>2. Winner(w, t)'
      BY <1>2, <3>1, WinnerStays
    <3>3. LeadersWon' /\ OneWinner'
      BY <1>2, LeadersHaveWon, WinnersAreOne, PTL
    <3>4. Winner(j, t)'
      BY <1>1, <2>1, <3>3 DEF LeadersWon, Winner, Granted, Majority
    <3>5. w = j
      BY <1>2, <3>2, <3>3, <3>4 DEF OneWinner
    <3> QED BY <1>2, <1>4, <3>1, <3>5 DEF Winner
  <2>4. currentTerm[j] > t
    BY <1>1, <1>2, <2>1, <2>3
  <2>5. \A v \in V : currentTerm[v] > t
    BY <1>2, <2>2, <2>4, AdvanceTypes
  <2>6. PICK v \in V : v \in Q
    BY <2>2, <2>5 DEF Blocks
  <2>7. Heads(p, log[j])
    BY <2>1, <2>2, <2>4, <2>6 DEF Secure, MembersHave, CandidatesHave
  <2> QED BY <2>1, <2>7
<1> QED BY <1>3, <1>4

LEMMA RequestsStep ==
    ASSUME Advances, NEW p, NEW t, Kept(p, t), LeadersHave(p, t), RequestsFit(p, t)
    PROVE  RequestsFit(p, t)'
<1>1. SUFFICES ASSUME NEW r \in calls', r.kind = "AppendEntries", r.term >= t
               PROVE  Fits(r, p)
  BY DEF RequestsFit, Fits
<1>2. CASE r \in calls
  BY <1>1, <1>2 DEF RequestsFit
<1>3. CASE r \notin calls
  <2>1. PICK i, j \in Server, id \in CallId :
              /\ SendHeartBeat(i, j, id)
              /\ nextIndex[i][j] \in 1..(Len(log[i]) + 1)
              /\ r.term = currentTerm[i]
              /\ r.prevLogIndex = nextIndex[i][j] - 1
              /\ r.prevLogTerm = TermAt(log[i], nextIndex[i][j] - 1)
              /\ r.entries = SubSeq(log[i], nextIndex[i][j], Len(log[i]))
    BY <1>1, <1>3, HeartBeatSenders, AdvanceTypes
  <2>2. Heads(p, log[i])
    BY <1>1, <2>1 DEF LeadersHave, SendHeartBeat
  <2>3. Ascending(log[i]) /\ log[i] \in Seq(Entry) /\ p \in Seq(Entry) /\ p # <<>>
    BY AdvanceTypes, KeptTypes DEF LogsAscend
  <2>4. Window(r, log[i])
    BY <2>1, <2>3, SentWindow
  <2>5. r \in AppendRequest
    <3>1. TypeInv'
      BY AdvanceTypes
    <3>2. RequestsTyped'
      BY <3>1, RequestsAreTyped, PTL
    <3> QED BY <1>1, <3>2 DEF RequestsTyped
  <2> QED BY <2>2, <2>3, <2>4, <2>5, WindowFits
<1> QED BY <1>2, <1>3

\* Whoever wins the vote of a peer that has p has a log as good as p.
LEMMA VoteGood ==
    ASSUME Advances, NEW p, NEW t, Kept(p, t), NEW c \in Server, NEW v \in Server, v # c,
           NEW m \in calls, m.src = c, m.dst = v, Grants(m),
           m.term = currentTerm'[c], state'[c] # "FOLLOWER", Heads(p, log[v])
    PROVE  AsGood(log[c], p) /\ log'[c] = log[c]
<1>1. /\ TypeInv /\ log[v] \in Seq(Entry) /\ log[c] \in Seq(Entry) /\ p \in Seq(Entry)
      /\ Ascending(log[v])
  BY AdvanceTypes, KeptTypes DEF LogsAscend
<1>2. /\ m.kind = "RequestVote" /\ ~Refused(m) /\ UpToDate(m, log[v])
      /\ currentTerm' = [currentTerm EXCEPT ![m.dst] = m.term]
      /\ UNCHANGED logVars
  BY Zenon DEF Grants, RequestVote
<1>3. state' = [state EXCEPT ![v] = IF m.term > currentTerm[v] THEN "FOLLOWER" ELSE @]
  BY Zenon DEF Grants, RequestVote
<1>4. currentTerm[c] = m.term /\ state[c] # "FOLLOWER"
  <2>1. state \in [Server -> {"LEADER", "CANDIDATE", "FOLLOWER"}]
    BY <1>1 DEF TypeInv, TypeOK
  <2> QED BY <1>2, <1>3, <2>1, AdvanceTypes
<1>5. m.lastLogTerm \in Nat /\ m.lastLogIndex \in Nat
  BY <1>1, <1>2, CallKinds, BoundAssumption DEF TypeInv, VoteRequest
<1>6. \/ m.lastLogTerm < LastTerm(log[c])
      \/ m.lastLogTerm = LastTerm(log[c]) /\ m.lastLogIndex <= Len(log[c])
  BY <1>2, <1>4 DEF Advances, AsksBest
<1>7. AsGood(log[c], log[v])
  <2>1. LastTerm(log[c]) \in Nat /\ LastTerm(log[v]) \in Nat
        /\ Len(log[c]) \in Nat /\ Len(log[v]) \in Nat
    BY <1>1, LastTermType
  <2> QED BY <1>2, <1>5, <1>6, <2>1 DEF UpToDate, AsGood
<1>8. AsGood(log[v], p)
  BY <1>1, HeadsGood
<1>9. log' = log
  BY <1>2 DEF logVars
<1> QED BY <1>1, <1>7, <1>8, <1>9, GoodTransitive

\* The peers R follow Q as those that guard p: they are of Q, or have just
\* accepted p in term t.
Replaces(p, t, Q, R) ==
    /\ Advances
    /\ Kept(p, t)
    /\ Q \in SUBSET Server /\ R \in SUBSET Server
    /\ \A q \in R : q \in Q \/ (currentTerm'[q] = t /\ Heads(p, log'[q]))
    /\ \A V \in SUBSET Server :
          Majority(V) /\ (\A v \in V : currentTerm'[v] > t) => V \cap R # {}
    /\ LastTerm(p) = t \/ \A v \in Server : currentTerm'[v] > t => v \in R

Renews(p, t, Q, R) == Replaces(p, t, Q, R) /\ Secure(p, t, Q)

LEMMA MembersStep ==
    ASSUME NEW p, NEW t, NEW Q, NEW R, Renews(p, t, Q, R)
    PROVE  MembersHave(p, t, R)'
<1>1. SUFFICES ASSUME NEW q \in R
               PROVE  currentTerm'[q] >= t /\ Heads(p, log'[q])
  BY DEF MembersHave, Heads
<1>2. CASE q \in Q
  <2>1. currentTerm[q] >= t /\ Heads(p, log[q]) /\ q \in Server
    BY <1>2 DEF Renews, Replaces, Secure, MembersHave
  <2> QED BY <2>1, MemberStep DEF Renews, Replaces, Secure
<1>3. CASE q \notin Q
  BY <1>3, KeptTypes DEF Renews, Replaces
<1> QED BY <1>2, <1>3

\* Whoever is past term t after the step and guards p has guarded it before.
LEMMA GuardsBefore ==
    ASSUME NEW p, NEW t, NEW Q, NEW R, Replaces(p, t, Q, R)
    PROVE  Guards(p, t, Q)
<1>1. \A v \in Server : currentTerm[v] > t => currentTerm'[v] > t
  BY AdvanceTypes, KeptTypes DEF Replaces
<1>2. \A v \in R : currentTerm'[v] > t => v \in Q
  BY AdvanceTypes, KeptTypes DEF Replaces
<1>3. Blocks(t, Q)
  <2>1. SUFFICES ASSUME NEW V \in SUBSET Server, Majority(V), \A v \in V : currentTerm[v] > t
                 PROVE  V \cap Q # {}
    BY DEF Blocks
  <2>2. \A v \in V : currentTerm'[v] > t
    BY <1>1, <2>1
  <2>3. PICK v \in V : v \in R
    BY <2>1, <2>2 DEF Replaces
  <2> QED BY <1>2, <2>2, <2>3
<1>4. LastTerm(p) = t \/ AllIn(t, Q)
  <2>1. CASE LastTerm(p) # t
    BY <1>1, <1>2, <2>1 DEF Replaces, AllIn
  <2> QED BY <2>1
<1> QED BY <1>3, <1>4 DEF Guards

LEMMA CandidatesStep ==
    ASSUME NEW p, NEW t, NEW Q, NEW R, Renews(p, t, Q, R)
    PROVE  CandidatesHave(p, t, R)'
<1>1. SUFFICES ASSUME NEW c \in Server, NEW v \in R,
                      state'[c] # "FOLLOWER", currentTerm'[c] > t,
                      Granted(v, c, currentTerm[c])'
               PROVE  Heads(p, log'[c])
  BY DEF CandidatesHave, Heads
<1>2. /\ Advances /\ Kept(p, t) /\ Secure(p, t, Q)
      /\ Q \in SUBSET Server /\ v \in Server
      /\ Next /\ TypeInv /\ TypeInv' /\ ElectionInv /\ WonInv /\ MatchInv /\ MatchInv'
      /\ TimelyElections /\ TimelyNext
      /\ p \in Seq(Entry) /\ t \in Nat /\ t \in Term
      /\ log[c] \in Seq(Entry) /\ currentTerm[c] \in Nat /\ currentTerm[v] \in Nat
      /\ currentTerm'[c] \in Nat /\ currentTerm'[v] \in Nat
  BY AdvanceTypes, KeptTypes DEF Renews, Replaces, Advances
<1>3. PICK T \in Term : T = currentTerm'[c] /\ T > t /\ Granted(v, c, T)'
  <2>1. currentTerm'[c] \in Term
    BY <1>1, <1>2 DEF TypeInv, TypeOK, Term
  <2> QED BY <1>1, <2>1 DEF Granted
<1>4. currentTerm'[v] >= T
  <2>1. VotersCame'
    BY <1>2, VotersHaveCome, PTL
  <2> QED BY <1>2, <1>3, <2>1 DEF VotersCame, Granted
<1>5. v \in Q
  BY <1>2, <1>3, <1>4 DEF Renews, Replaces
<1>6. MembersHave(p, t, R)'
  BY MembersStep DEF Renews, Replaces
<1>7. CASE v = c
  BY <1>1, <1>6, <1>7 DEF MembersHave, Heads
<1>8. CASE v # c /\ Granted(v, c, T)
  <2>1. currentTerm[c] >= T
    <3>1. voters[c][T] # {}
      BY <1>2, <1>8 DEF Granted, WonInv, VotesAreCounted
    <3> QED BY <1>2, <1>3, <3>1 DEF WonInv, CountsAreOld
  <2>2. currentTerm[c] = T /\ state[c] # "FOLLOWER"
    BY <1>1, <1>2, <1>3, <2>1, PeerSteps DEF PeerStep, Stays, Campaigns, StepsDown, Votes, Wins
  <2>3. Heads(p, log[c])
    BY <1>2, <1>3, <1>5, <1>8, <2>2 DEF Secure, CandidatesHave
  <2>4. log'[c] = log[c] \/ Appends(c)
    BY <1>1, <1>2, LogStep DEF Accepts
  <2> QED BY <1>2, <2>3, <2>4, HeadsAppend DEF Appends
<1>9. CASE v # c /\ ~Granted(v, c, T)
  <2>2. PICK m \in calls : m.src = c /\ m.dst = v /\ m.term = T /\ Grants(m)
    BY <1>2, <1>3, <1>9, GrantedOrigin
  <2>3. Heads(p, log[v])
    BY <1>2, <1>5 DEF Secure, MembersHave
  <2>4. AsGood(log[c], p) /\ log'[c] = log[c]
    BY <1>1, <1>2, <1>3, <1>9, <2>2, <2>3, VoteGood
  <2>5. CASE LastTerm(p) = t
    BY <1>2, <2>4, <2>5 DEF Secure, GoodLogsHave
  <2>6. CASE LastTerm(p) # t
    BY <1>1, <1>6, <2>6 DEF Renews, Replaces, MembersHave, Heads
  <2> QED BY <2>5, <2>6
<1> QED BY <1>7, <1>8, <1>9

LEMMA GoodLogsStep ==
    ASSUME NEW p, NEW t, NEW Q, NEW R, Renews(p, t, Q, R), LeadersHave(p, t)'
    PROVE  GoodLogsHave(p, t)'
<1>1. SUFFICES ASSUME LastTerm(p) = t, NEW j \in Server, AsGood(log'[j], p)
               PROVE  Heads(p, log'[j])
  BY DEF GoodLogsHave, Heads, AsGood, LastTerm, TermAt
<1>2. /\ Advances /\ Kept(p, t) /\ Secure(p, t, Q)
      /\ Next /\ TypeInv /\ OneLink /\ LogsAscend /\ LogsAscend'
      /\ p \in Seq(Entry) /\ t \in Nat /\ p # <<>> /\ Linked(p) /\ Ascending(p)
      /\ log[j] \in Seq(Entry) /\ log'[j] \in Seq(Entry)
      /\ currentTerm[j] \in Nat /\ currentTerm'[j] \in Nat
  BY AdvanceTypes, KeptTypes DEF Renews, Replaces
<1>3. LastTerm(log'[j]) >= t /\ Len(log'[j]) \in Nat /\ LastTerm(log'[j]) \in Nat
  <2>1. LastTerm(log'[j]) \in Nat
    BY <1>2, LastTermType
  <2> QED BY <1>1, <1>2, <2>1 DEF AsGood
<1>4. currentTerm'[j] >= t
  <2>1. CASE Len(log'[j]) = 0
    BY <1>2, <1>3, <2>1 DEF LastTerm, TermAt
  <2>2. CASE Len(log'[j]) # 0
    <3>1. Len(log'[j]) \in 1..Len(log'[j])
      BY <1>3, <2>2
    <3>2. LastTerm(log'[j]) <= currentTerm'[j]
      BY <1>2, <2>2, <3>1 DEF LastTerm, TermAt, LogsAscend
    <3> QED BY <1>2, <1>3, <3>2
  <2> QED BY <2>1, <2>2
<1>5. CASE log'[j] = log[j]
  BY <1>1, <1>2, <1>5 DEF Secure, GoodLogsHave
<1>6. CASE Appends(j)
  BY <1>4, <1>6 DEF LeadersHave, Appends, Heads
<1>7. ASSUME NEW m \in calls, m.dst = j, Accepts(m)
      PROVE  Heads(p, log'[j])
  <2>1. Fits(m, p)
    BY <1>2, <1>4, <1>7 DEF Secure, RequestsFit, Accepts
  <2>2. CASE Reaches(m, p) \/ m.prevLogIndex >= Len(p)
    <3>1. ASSUME m.prevLogIndex >= Len(p)
          PROVE  Heads(p, log[j])
      BY <1>1, <1>2, <1>7, <2>1, <3>1, PrevGood DEF Secure, GoodLogsHave
    <3>2. m \in AppendRequest
      BY <1>7 DEF Accepts
    <3>3. Reaches(m, p)
      <4>1. m.prevLogIndex \in Nat /\ Len(m.entries) \in Nat /\ Len(p) \in Nat
        BY <1>2, <3>2 DEF AppendRequest
      <4> QED BY <2>2, <4>1 DEF Reaches
    <3> QED BY <1>2, <1>7, <2>1, <3>1, <3>3, AcceptHeads
  <2>3. CASE ~Reaches(m, p) /\ m.prevLogIndex < Len(p)
    <3>1. log'[j] = log[j]
      BY <1>1, <1>2, <1>7, <2>1, <2>3, ShortRequest
    <3> QED BY <1>5, <3>1
  <2>4. m.prevLogIndex \in Nat /\ Len(p) \in Nat
    BY <1>2, <1>7 DEF Accepts, AppendRequest
  <2> QED BY <2>2, <2>3, <2>4
<1> QED BY <1>2, <1>5, <1>6, <1>7, LogStep

\* Whatever one step of the group does, what Q has made safe stays so.
LEMMA SecureStep ==
    ASSUME NEW p, NEW t, NEW Q, NEW R, Renews(p, t, Q, R)
    PROVE  Secure(p, t, R)'
<1>1. MembersHave(p, t, R)' /\ CandidatesHave(p, t, R)'
  BY MembersStep, CandidatesStep
<1>2. LeadersHave(p, t)'
  BY GuardsBefore, LeadersStep DEF Renews, Replaces, Guards
<1>3. RequestsFit(p, t)'
  BY RequestsStep DEF Renews, Replaces, Secure
<1>4. GoodLogsHave(p, t)'
  BY <1>2, GoodLogsStep
<1> QED BY <1>1, <1>2, <1>3, <1>4 DEF Secure
-----------------------------------------------------------------------------
(***************************************************************************)
(* Candidates, heartbeats and matchIndex.                                  *)
(***************************************************************************)
\* A heartbeat is of its sender's term or of an earlier one; in the first
\* case the sender leads, and what it sent is still a piece of its log.
HeartBeatsTimely ==
    \A m \in HeartBeats :
        /\ m.src # m.dst
        /\ m.term <= currentTerm[m.src]
        /\ m.term = currentTerm[m.src] =>
              /\ Leads(m.src)
              /\ m.kind = "AppendEntries" => Window(m, log[m.src])
              /\ m.kind = "AppendEntriesReply" => m.last <= Len(log[m.src])

\* TurnLeader clears matchIndex, Start sets the leader's own, which is
\* otherwise 0, and a reply says that a follower has all there is.
MatchIndexKnown ==
    \A i \in Server : Leads(i) =>
        /\ \A j \in Server : matchIndex[i][j] <= Len(log[i])
        /\ matchIndex[i][i] # 0 => LastTerm(log[i]) = currentTerm[i]
        /\ matchIndex[i][i] = 0 =>
              \A j \in Server : matchIndex[i][j] \in {0, Len(log[i])}

\* Which step makes a call, and from what.
LEMMA CallSource ==
    ASSUME TypeInv, TimelyNext, NEW r \in calls', r \notin calls
    PROVE  \/ \E i \in Server :
                 /\ StartElection(i)
                 /\ r.kind = "RequestVote" /\ r.src = i
                 /\ r.lastLogIndex = Len(log[i])
                 /\ r.lastLogTerm = LastTerm(log[i])
           \/ \E i, j \in Server, id \in CallId :
                 Settled(i) /\ SendHeartBeat(i, j, id) /\ r.kind = "AppendEntries"
           \/ \E m \in calls :
                 /\ AppendEntries(m)
                 /\ r.kind = "AppendEntriesReply"
                 /\ r.src = m.src /\ r.dst = m.dst /\ r.term = m.term
                 /\ r.last = m.prevLogIndex + Len(m.entries)
                 /\ r.success => AppendAccepted(m)
           \/ r.kind = "RequestVoteReply"
<1>1. ASSUME NEW i \in Server, StartElection(i)
      PROVE  /\ r.kind = "RequestVote" /\ r.src = i
             /\ r.lastLogIndex = Len(log[i])
             /\ r.lastLogTerm = LastTerm(log[i])
  BY <1>1 DEF StartElection
<1>2. ASSUME NEW i \in Server, NEW j \in Server, NEW id \in CallId,
             SendHeartBeat(i, j, id)
      PROVE  r.kind = "AppendEntries"
  BY <1>2 DEF SendHeartBeat
<1>3. ASSUME NEW m \in calls, AppendEntries(m)
      PROVE  /\ r.kind = "AppendEntriesReply"
             /\ r.src = m.src /\ r.dst = m.dst /\ r.term = m.term
             /\ r.last = m.prevLogIndex + Len(m.entries)
             /\ r.success => AppendAccepted(m)
  BY <1>3 DEF AppendEntries, AppendRefused, AppendMismatch, AppendAccepted,
              AppendAnswer, Answer, Finish
<1>4. ASSUME NEW m \in calls, RequestVote(m)
      PROVE  r.kind = "RequestVoteReply"
  <2>1. r \in {[kind |-> "RequestVoteReply", src |-> m.src, dst |-> m.dst,
                term |-> m.term, replyTerm |-> currentTerm'[m.dst],
                voteGranted |-> ~Refused(m) /\ UpToDate(m, log[m.dst])]}
    BY <1>4 DEF RequestVote, Answer
  <2> QED BY <2>1
<1>5. ASSUME NEW i \in Server,
             \/ ElectionTimeout(i)
             \/ \E late \in Late : TurnLeader(i, late)
             \/ \E v \in Value : Start(i, v)
      PROVE  FALSE
  BY <1>5 DEF ElectionTimeout, TurnLeader, Start
<1>6. ASSUME NEW m \in calls,
             \/ \E late \in Late : VoteReturned(m, late)
             \/ HeartBeatReturned(m)
             \/ Lose(m)
      PROVE  FALSE
  BY <1>6 DEF VoteReturned, HeartBeatReturned, Lose, Finish
<1> QED BY <1>1, <1>2, <1>3, <1>4, <1>5, <1>6 DEF TimelyNext

LEMMA AsksBestStep ==
    ASSUME Advances
    PROVE  AsksBest'
<1>1. SUFFICES ASSUME NEW r \in calls', r.kind = "RequestVote",
                      r.term = currentTerm'[r.src], state'[r.src] # "FOLLOWER"
               PROVE  \/ r.lastLogTerm < LastTerm(log'[r.src])
                      \/ /\ r.lastLogTerm = LastTerm(log'[r.src])
                         /\ r.lastLogIndex <= Len(log'[r.src])
  BY DEF AsksBest, LastTerm, TermAt
<1>2. Next /\ TypeInv /\ ElectionInv /\ WonInv /\ TimelyElections /\ TimelyNext
  BY AdvanceTypes DEF Advances
<1>3. CASE r \in calls
  <2>1. PICK i \in Server, T \in Term : i = r.src /\ T = r.term
    BY <1>2, <1>3, CallKinds DEF TypeInv
  <2>2. /\ log[i] \in Seq(Entry) /\ log'[i] \in Seq(Entry)
        /\ currentTerm[i] \in Nat /\ currentTerm'[i] \in Nat /\ T \in Nat
        /\ currentTerm'[i] >= currentTerm[i]
        /\ LogsAscend
    BY AdvanceTypes
  <2>3. currentTerm[i] >= T
    <3>1. voters[i][T] # {}
      BY <1>1, <1>2, <1>3, <2>1 DEF WonInv, VotesAreCounted
    <3> QED BY <1>2, <3>1 DEF WonInv, CountsAreOld
  <2>4. currentTerm[i] = T /\ currentTerm'[i] = T
    BY <1>1, <2>1, <2>2, <2>3
  <2>5. state[i] # "FOLLOWER"
    BY <1>1, <1>2, <2>1, <2>2, <2>4, PeerSteps
       DEF PeerStep, Stays, Campaigns, StepsDown, Votes, Wins
  <2>6. \/ r.lastLogTerm < LastTerm(log[i])
        \/ r.lastLogTerm = LastTerm(log[i]) /\ r.lastLogIndex <= Len(log[i])
    BY <1>1, <1>3, <2>1, <2>4, <2>5 DEF Advances, AsksBest
  <2>7. CASE log'[i] = log[i]
    BY <2>1, <2>6, <2>7
  <2>8. CASE Appends(i)
    <3>1. PICK e \in Entry : e.term = T /\ log'[i] = Append(log[i], e)
      BY <2>4, <2>8 DEF Appends
    <3>2. LastTerm(log'[i]) = T /\ Len(log'[i]) = Len(log[i]) + 1
      BY <2>2, <3>1 DEF LastTerm, TermAt
    <3>3. LastTerm(log[i]) <= T /\ LastTerm(log[i]) \in Nat
      <4>1. LastTerm(log[i]) \in Nat /\ Len(log[i]) \in Nat
        BY <2>2, LastTermType
      <4>2. Len(log[i]) # 0 => Len(log[i]) \in 1..Len(log[i])
        BY <4>1
      <4>3. Len(log[i]) # 0 => log[i][Len(log[i])].term <= T
        BY <2>2, <2>4, <4>2 DEF LogsAscend
      <4> QED BY <2>2, <4>1, <4>3 DEF LastTerm, TermAt
    <3>4. r.lastLogTerm \in Nat /\ r.lastLogIndex \in Nat
      BY <1>1, <1>2, <1>3, CallKinds, BoundAssumption DEF TypeInv, VoteRequest
    <3> QED BY <2>1, <2>2, <2>6, <3>2, <3>3, <3>4
  <2> QED BY <1>1, <1>2, <2>1, <2>7, <2>8, LogStep DEF Accepts
<1>4. CASE r \notin calls
  <2>1. PICK i \in Server : StartElection(i) /\ r.src = i
                           /\ r.lastLogTerm = LastTerm(log[i])
                           /\ r.lastLogIndex = Len(log[i])
    BY <1>1, <1>2, <1>4, CallSource
  <2>2. log' = log /\ log[i] \in Seq(Entry)
    BY <2>1, AdvanceTypes DEF StartElection, logVars
  <2> QED BY <2>1, <2>2
<1> QED BY <1>3, <1>4

\* Only Start makes a leader's log grow.
LEMMA AppendsIsStart ==
    ASSUME TypeInv, TimelyNext, NEW i \in Server, Appends(i)
    PROVE  \E v \in Value : Start(i, v)
<1>1. log \in [Server -> Seq(Entry)] /\ log'[i] # log[i]
  <2>1. log \in [Server -> Seq(Entry)]
    BY DEF TypeInv, TypeOK
  <2>2. PICK e \in Entry : log'[i] = Append(log[i], e)
    BY DEF Appends
  <2>3. Len(Append(log[i], e)) = Len(log[i]) + 1 /\ Len(log[i]) \in Nat
    BY <2>1
  <2> QED BY <2>1, <2>2, <2>3
<1>2. ASSUME NEW k \in Server, NEW v \in Value, Start(k, v)
      PROVE  Start(i, v)
  <2>1. k = i
    BY <1>1, <1>2, StartProps
  <2> QED BY <1>2, <2>1
<1>3. ASSUME NEW m \in calls, AppendEntries(m)
      PROVE  FALSE
  <2>1. AppendAccepted(m)
    BY <1>1, <1>3 DEF AppendEntries, AppendRefused, AppendMismatch, logVars
  <2>2. m.dst = i
    BY <1>1, <1>3, <2>1, AcceptedProps
  <2> QED BY <1>3, <2>1, <2>2, AcceptedAccepts DEF Accepts, Appends
<1>4. ASSUME NEW m \in calls, HeartBeatReturned(m)
      PROVE  FALSE
  BY <1>1, <1>4 DEF HeartBeatReturned, logVars
<1>5. ASSUME NEW m \in calls,
             RequestVote(m) \/ (\E late \in Late : VoteReturned(m, late)) \/ Lose(m)
      PROVE  FALSE
  <2>1. UNCHANGED logVars
    BY <1>5, Zenon DEF RequestVote, VoteReturned, Lose
  <2> QED BY <1>1, <2>1 DEF logVars
<1>6. ASSUME NEW k \in Server,
             \/ ElectionTimeout(k)
             \/ StartElection(k)
             \/ \E late \in Late : TurnLeader(k, late)
             \/ \E j \in Server, id \in CallId : SendHeartBeat(k, j, id)
      PROVE  FALSE
  <2>1. UNCHANGED logVars
    BY <1>6, Zenon DEF ElectionTimeout, StartElection, TurnLeader, SendHeartBeat
  <2> QED BY <1>1, <2>1 DEF logVars
<1> QED BY <1>2, <1>3, <1>4, <1>5, <1>6 DEF TimelyNext

\* While a heartbeat of the sender's term is under way the sender leads on,
\* and its log only grows.
LEMMA SenderStays ==
    ASSUME Advances, HeartBeatsTimely,
           NEW m \in HeartBeats, m.term = currentTerm'[m.src]
    PROVE  /\ m.term = currentTerm[m.src]
           /\ Leads(m.src) /\ Leads(m.src)'
           /\ Heads(log[m.src], log'[m.src])
<1>1. /\ Next /\ TypeInv /\ TypeInv' /\ ElectionInv /\ ElectionInv'
      /\ MatchInv /\ MatchInv' /\ TimelyElections /\ TimelyNext
  BY AdvanceTypes DEF Advances
<1>2. PICK i \in Server, T \in Term : i = m.src /\ T = m.term
  BY <1>1, CallKinds DEF TypeInv, HeartBeats
<1>3. /\ currentTerm[i] \in Nat /\ currentTerm'[i] \in Nat /\ T \in Nat
      /\ currentTerm'[i] >= currentTerm[i]
  BY AdvanceTypes
<1>4. T <= currentTerm[i] /\ (T = currentTerm[i] => Leads(i))
  BY <1>2 DEF HeartBeatsTimely
<1>5. T = currentTerm[i] /\ Leads(i) /\ T = currentTerm'[i]
  BY <1>2, <1>3, <1>4
<1>6. Winner(i, T)'
  <2>1. Winner(i, T)
    BY <1>1, <1>5, LeadersHaveWon DEF LeadersWon, Leads
  <2> QED BY <1>1, <2>1, WinnerStays
<1>7. state'[i] = "LEADER"
  BY <1>3, <1>5, <1>6 DEF Winner
<1>8. winning'[i] = 0
  <2>1. winning'[i] > 0 => winning[i] > 0
    BY <1>1, <1>5, <1>7, PeerSteps
       DEF PeerStep, Stays, Campaigns, StepsDown, Votes, Wins, Leads
  <2>2. winning'[i] \in Nat
    BY <1>1 DEF TypeInv, TypeOK
  <2> QED BY <1>5, <2>1, <2>2 DEF Leads
<1>9. Heads(log[i], log'[i])
  <2>1. log[i] \in Seq(Entry) /\ Heads(log[i], log[i])
    BY <1>1 DEF TypeInv, TypeOK, Heads
  <2>2. log'[i] = log[i] \/ Appends(i)
    BY <1>1, <1>7, LogStep DEF Accepts
  <2> QED BY <2>1, <2>2, HeadsAppend DEF Appends
<1> QED BY <1>2, <1>5, <1>7, <1>8, <1>9 DEF Leads

LEMMA HeartBeatsTimelyStep ==
    ASSUME Advances, "Settled" \in Assumed, HeartBeatsTimely
    PROVE  HeartBeatsTimely'
<1>1. SUFFICES ASSUME NEW r \in HeartBeats'
               PROVE  /\ r.src # r.dst
                      /\ r.term <= currentTerm'[r.src]
                      /\ r.term = currentTerm'[r.src] =>
                            /\ state'[r.src] = "LEADER" /\ winning'[r.src] = 0
                            /\ r.kind = "AppendEntries" => Window(r, log'[r.src])
                            /\ r.kind = "AppendEntriesReply" => r.last <= Len(log'[r.src])
  BY DEF HeartBeatsTimely, Window, TermAt, Leads
<1>2. /\ Next /\ TypeInv /\ TypeInv' /\ TimelyNext
      /\ log \in [Server -> Seq(Entry)] /\ log' \in [Server -> Seq(Entry)]
  BY AdvanceTypes DEF Advances
<1>3. ASSUME NEW m \in HeartBeats
      PROVE  m.src # m.dst /\ m.term <= currentTerm'[m.src]
  <2>1. m.src \in Server /\ m.term \in Term
    BY <1>2, CallKinds DEF TypeInv, HeartBeats
  <2>2. /\ currentTerm[m.src] \in Nat /\ currentTerm'[m.src] \in Nat /\ m.term \in Nat
        /\ currentTerm'[m.src] >= currentTerm[m.src]
    BY <2>1, AdvanceTypes
  <2> QED BY <2>2 DEF HeartBeatsTimely
<1>4. CASE r \in calls
  <2>1. r \in HeartBeats
    BY <1>1, <1>4 DEF HeartBeats
  <2>2. ASSUME r.term = currentTerm'[r.src]
        PROVE  /\ state'[r.src] = "LEADER" /\ winning'[r.src] = 0
               /\ r.kind = "AppendEntries" => Window(r, log'[r.src])
               /\ r.kind = "AppendEntriesReply" => r.last <= Len(log'[r.src])
    <3>1. /\ r.term = currentTerm[r.src]
          /\ Leads(r.src) /\ Leads(r.src)'
          /\ Heads(log[r.src], log'[r.src])
      BY <1>2, <2>1, <2>2, SenderStays
    <3>2. /\ r.src \in Server
          /\ r.kind = "AppendEntries" => r \in AppendRequest
          /\ r.kind = "AppendEntriesReply" => r.last \in Nat
      BY <1>2, <1>4, CallKinds DEF TypeInv, AppendReply
    <3>3. log[r.src] \in Seq(Entry) /\ log'[r.src] \in Seq(Entry)
      BY <1>2, <3>2
    <3>4. r.kind = "AppendEntries" => Window(r, log'[r.src])
      BY <2>1, <3>1, <3>2, <3>3, WindowStays DEF HeartBeatsTimely
    <3>5. r.kind = "AppendEntriesReply" => r.last <= Len(log'[r.src])
      <4>1. /\ r.kind = "AppendEntriesReply" => r.last <= Len(log[r.src])
            /\ Len(log[r.src]) <= Len(log'[r.src])
        BY <2>1, <3>1 DEF HeartBeatsTimely, Heads
      <4>2. Len(log[r.src]) \in Nat /\ Len(log'[r.src]) \in Nat
        BY <3>3
      <4> QED BY <3>2, <4>1, <4>2
    <3> QED BY <3>1, <3>4, <3>5 DEF Leads
  <2> QED BY <1>3, <2>1, <2>2
<1>5. CASE r \notin calls
  <2>1. CASE r.kind = "AppendEntries"
    <3>1. PICK i \in Server, j \in Server, id \in CallId :
              /\ SendHeartBeat(i, j, id)
              /\ nextIndex[i][j] \in 1..(Len(log[i]) + 1)
              /\ r.src = i /\ r.dst = j
              /\ r.term = currentTerm[i]
              /\ r.prevLogIndex = nextIndex[i][j] - 1
              /\ r.prevLogTerm = TermAt(log[i], nextIndex[i][j] - 1)
              /\ r.entries = SubSeq(log[i], nextIndex[i][j], Len(log[i]))
      BY <1>1, <1>2, <1>5, <2>1, HeartBeatSenders DEF HeartBeats
    <3>2. i # j /\ state[i] = "LEADER" /\ UNCHANGED <<peerVars, logVars, electionVars>>
      BY <3>1 DEF SendHeartBeat
    <3>3. winning[i] = 0
      <4>1. PICK k \in Server, d \in Server, n \in CallId : Settled(k) /\ SendHeartBeat(k, d, n)
        BY <1>1, <1>2, <1>5, <2>1, CallSource DEF HeartBeats
      <4>2. r.src = k
        <5>1. r \in calls \cup
                 {[kind |-> "AppendEntries", id |-> n, src |-> k, dst |-> d,
                   term |-> currentTerm[k],
                   prevLogIndex |-> nextIndex[k][d] - 1,
                   prevLogTerm |-> TermAt(log[k], nextIndex[k][d] - 1),
                   entries |-> SubSeq(log[k], nextIndex[k][d], Len(log[k])),
                   leaderCommit |-> commitIndex[k]]}
          BY <1>1, <1>5, <4>1, Zenon DEF SendHeartBeat, HeartBeats
        <5> QED BY <1>5, <5>1
      <4> QED BY <3>1, <4>1, <4>2 DEF Settled
    <3>4. Window(r, log[i])
      <4>1. log[i] \in Seq(Entry)
        BY AdvanceTypes
      <4> QED BY <3>1, <4>1, SentWindow
    <3>5. currentTerm[i] \in Nat
      BY AdvanceTypes
    <3> QED BY <2>1, <3>1, <3>2, <3>3, <3>4, <3>5 DEF peerVars, logVars, electionVars
  <2>2. CASE r.kind = "AppendEntriesReply"
    <3>1. PICK m \in calls : /\ AppendEntries(m)
                             /\ r.src = m.src /\ r.dst = m.dst /\ r.term = m.term
                             /\ r.last = m.prevLogIndex + Len(m.entries)
      <4>1. r \in calls' /\ r.kind \notin {"RequestVote", "AppendEntries", "RequestVoteReply"}
        BY <1>1, <2>2 DEF HeartBeats
      <4> QED BY <1>2, <1>5, <4>1, CallSource
    <3>2. m \in HeartBeats
      BY <3>1 DEF AppendEntries, HeartBeats
    <3>3. ASSUME r.term = currentTerm'[r.src]
          PROVE  /\ state'[r.src] = "LEADER" /\ winning'[r.src] = 0
                 /\ r.last <= Len(log'[r.src])
      <4>1. /\ m.term = currentTerm[m.src]
            /\ Leads(m.src)' /\ Heads(log[m.src], log'[m.src])
        BY <1>2, <3>1, <3>2, <3>3, SenderStays
      <4>2. r.last <= Len(log[m.src])
        BY <3>1, <3>2, <4>1 DEF HeartBeatsTimely, Window, AppendEntries
      <4>3. m.src \in Server /\ r.last \in Nat
        <5>1. m \in AppendRequest /\ m.src \in Server
          BY <1>2, <3>1, CallKinds DEF TypeInv, AppendEntries
        <5> QED BY <3>1, <5>1 DEF AppendRequest
      <4>4. Len(log[m.src]) \in Nat /\ Len(log'[m.src]) \in Nat
        BY <1>2, <4>3
      <4> QED BY <3>1, <4>1, <4>2, <4>3, <4>4 DEF Leads, Heads
    <3> QED BY <1>3, <2>2, <3>1, <3>2, <3>3
  <2> QED BY <1>1, <2>1, <2>2 DEF HeartBeats
<1> QED BY <1>4, <1>5

\* sendvote and TurnLeader have made peer i a leader: its log is not touched.
BeginsToLead(i) ==
    /\ ~Leads(i)
    /\ log' = log /\ calls' = calls /\ currentTerm' = currentTerm
    /\ matchIndex'[i] = InitialMatchIndex
    /\ nextIndex'[i] = InitialNextIndex(log[i])

LEMMA LeadsStep ==
    ASSUME TypeInv, TimelyNext, NEW i \in Server, Leads(i)', ~Leads(i)
    PROVE  BeginsToLead(i)
<1>1. /\ state \in [Server -> {"LEADER", "CANDIDATE", "FOLLOWER"}]
      /\ winning \in [Server -> Nat]
      /\ matchIndex \in [Server -> [Server -> Nat]]
      /\ nextIndex \in [Server -> [Server -> Int]]
      /\ state'[i] = "LEADER" /\ winning'[i] = 0
      /\ ~(state[i] = "LEADER" /\ winning[i] = 0)
  BY DEF TypeInv, TypeOK, Leads
<1>2. ASSUME NEW k \in Server, NEW late \in Late, TurnLeader(k, late)
      PROVE  BeginsToLead(i)
  <2>1. /\ state' = [state EXCEPT ![k] = "LEADER"]
        /\ winning' = [winning EXCEPT ![k] = @ - 1]
        /\ matchIndex' = [matchIndex EXCEPT ![k] = InitialMatchIndex]
        /\ nextIndex' = [nextIndex EXCEPT ![k] = InitialNextIndex(log[k])]
        /\ log' = log /\ calls' = calls /\ currentTerm' = currentTerm
    BY <1>2, Zenon DEF TurnLeader, Lead, logVars
  <2>2. i = k
    BY <1>1, <2>1
  <2> QED BY <1>1, <2>1, <2>2 DEF BeginsToLead, Leads
<1>3. ASSUME UNCHANGED winning, state' = state \/ state'[i] # "LEADER"
      PROVE  FALSE
  BY <1>1, <1>3
<1>4. ASSUME NEW k \in Server, ElectionTimeout(k)
      PROVE  FALSE
  <2>1. state' = [state EXCEPT ![k] = "CANDIDATE"] /\ UNCHANGED winning
    BY <1>4 DEF ElectionTimeout
  <2> QED BY <1>1, <1>3, <2>1
<1>5. ASSUME NEW k \in Server, StartElection(k)
      PROVE  FALSE
  BY <1>3, <1>5 DEF StartElection, peerVars
<1>6. ASSUME NEW k \in Server, NEW v \in Value, Start(k, v)
      PROVE  FALSE
  BY <1>3, <1>6 DEF Start, peerVars, electionVars
<1>7. ASSUME NEW k \in Server, NEW j \in Server, NEW id \in CallId, SendHeartBeat(k, j, id)
      PROVE  FALSE
  <2>1. UNCHANGED <<peerVars, electionVars>>
    BY <1>7, Zenon DEF SendHeartBeat
  <2> QED BY <1>3, <2>1 DEF peerVars, electionVars
<1>8. ASSUME NEW m \in calls, RequestVote(m)
      PROVE  FALSE
  <2>1. /\ \/ UNCHANGED peerVars
           \/ state' = [state EXCEPT ![m.dst] =
                           IF m.term > currentTerm[m.dst] THEN "FOLLOWER" ELSE @]
        /\ UNCHANGED electionVars
    BY <1>8, Zenon DEF RequestVote
  <2> QED BY <1>1, <1>3, <2>1 DEF peerVars, electionVars
<1>9. ASSUME NEW m \in calls, NEW late \in Late, VoteReturned(m, late)
      PROVE  FALSE
  <2>1. m.src \in Server
    BY CallKinds DEF TypeInv
  <2>2. \/ UNCHANGED <<state, winning>>
        \/ state' = [state EXCEPT ![m.src] = "FOLLOWER"] /\ UNCHANGED winning
        \/ /\ state' = [state EXCEPT ![m.src] = "LEADER"]
           /\ winning' = [winning EXCEPT ![m.src] = @ + 1]
    BY <1>9, Zenon DEF VoteReturned, Lead, TurnFollower, peerVars
  <2> QED BY <1>1, <2>1, <2>2
<1>10. ASSUME NEW m \in calls, AppendEntries(m)
       PROVE  FALSE
  <2>1. /\ UNCHANGED winning
        /\ UNCHANGED state \/ state' = [state EXCEPT ![m.dst] = "FOLLOWER"]
    BY <1>10 DEF AppendEntries, AppendRefused, AppendMismatch, AppendAccepted,
                 Acknowledge, TurnFollower, peerVars, electionVars
  <2> QED BY <1>1, <1>3, <2>1
<1>11. ASSUME NEW m \in calls, HeartBeatReturned(m)
       PROVE  FALSE
  <2>1. /\ UNCHANGED winning
        /\ UNCHANGED state \/ state' = [state EXCEPT ![m.src] = "FOLLOWER"]
    BY <1>11 DEF HeartBeatReturned, TurnFollower, peerVars, electionVars
  <2> QED BY <1>1, <1>3, <2>1
<1>12. ASSUME NEW m \in calls, Lose(m)
       PROVE  FALSE
  BY <1>3, <1>12 DEF Lose, peerVars, electionVars
<1> QED BY <1>2, <1>4, <1>5, <1>6, <1>7, <1>8, <1>9, <1>10, <1>11, <1>12 DEF TimelyNext

\* A follower's success reaches its leader in the term of the heartbeat, and
\* before the leader's log has grown.
Succeeds(m) ==
    /\ HeartBeatReturned(m) /\ m.kind = "AppendEntriesReply" /\ m.success
    /\ m.last = Len(log[m.src])
    /\ Leads(m.src) /\ m.term = currentTerm[m.src]
    /\ UNCHANGED <<peerVars, log, winning>>
    /\ matchIndex' = [matchIndex EXCEPT ![m.src] =
                         [matchIndex[m.src] EXCEPT ![m.dst] = Len(log[m.src])]]

\* Three steps write matchIndex.
LEMMA MatchStep ==
    ASSUME TypeInv, TimelyNext, {"OnTime", "Settled", "Fresh"} \subseteq Assumed,
           NEW i \in Server, Leads(i), Leads(i)'
    PROVE  \/ matchIndex'[i] = matchIndex[i]
           \/ \E v \in Value : Start(i, v)
           \/ \E m \in calls : m.src = i /\ Succeeds(m)
<1>1. /\ matchIndex \in [Server -> [Server -> Nat]]
      /\ winning[i] = 0 /\ state[i] = "LEADER"
  BY DEF TypeInv, TypeOK, Leads
<1>2. ASSUME NEW k \in Server, NEW late \in Late, TurnLeader(k, late)
      PROVE  matchIndex'[i] = matchIndex[i]
  <2>1. matchIndex' = [matchIndex EXCEPT ![k] = InitialMatchIndex] /\ winning[k] > 0
    BY <1>2 DEF TurnLeader
  <2> QED BY <1>1, <2>1
<1>3. ASSUME NEW k \in Server, NEW v \in Value, Start(k, v)
      PROVE  matchIndex'[i] = matchIndex[i] \/ (\E u \in Value : Start(i, u))
  <2>1. matchIndex' = [matchIndex EXCEPT ![k][k] = Len(log[k]) + 1]
    <3>1. log[k] \in Seq(Entry)
      BY DEF TypeInv, TypeOK
    <3>2. Len(Append(log[k], [term |-> currentTerm[k], command |-> v])) = Len(log[k]) + 1
      BY <3>1, <1>3, StartProps
    <3> QED BY <1>3, <3>2, Zenon DEF Start
  <2> QED BY <1>1, <1>3, <2>1
<1>4. ASSUME NEW m \in calls, HeartBeatReturned(m), OnTime(m), Settled(m.src), Fresh(m)
      PROVE  matchIndex'[i] = matchIndex[i] \/ (m.src = i /\ Succeeds(m))
  <2>1. m.src \in Server
    BY CallKinds DEF TypeInv
  <2>2. \/ matchIndex' = matchIndex
        \/ /\ state[m.src] = "LEADER" /\ m.success
           /\ matchIndex' = [matchIndex EXCEPT ![m.src] =
                                [matchIndex[m.src] EXCEPT ![m.dst] = Len(log[m.src])]]
           /\ UNCHANGED <<peerVars, log>>
    BY <1>4, Zenon DEF HeartBeatReturned, leaderVars
  <2>3. m.kind = "AppendEntriesReply" /\ UNCHANGED winning
    BY <1>4 DEF HeartBeatReturned, electionVars
  <2>4. /\ m.term = currentTerm[m.src] /\ winning[m.src] = 0
        /\ m.success => m.last = Len(log[m.src])
    BY <1>4 DEF OnTime, Settled, Fresh
  <2> QED BY <1>1, <1>4, <2>1, <2>2, <2>3, <2>4 DEF Succeeds, Leads
<1>5. ASSUME UNCHANGED leaderVars
      PROVE  matchIndex'[i] = matchIndex[i]
  BY <1>5 DEF leaderVars
<1>6. ASSUME NEW k \in Server,
             \/ ElectionTimeout(k)
             \/ StartElection(k)
             \/ \E j \in Server, id \in CallId : SendHeartBeat(k, j, id)
      PROVE  UNCHANGED leaderVars
  BY <1>6, Zenon DEF ElectionTimeout, StartElection, SendHeartBeat
<1>7. ASSUME NEW m \in calls,
             \/ RequestVote(m)
             \/ \E late \in Late : VoteReturned(m, late)
             \/ AppendEntries(m)
             \/ Lose(m)
      PROVE  UNCHANGED leaderVars
  BY <1>7, Zenon DEF RequestVote, VoteReturned, AppendEntries, Lose
<1> QED BY <1>2, <1>3, <1>4, <1>5, <1>6, <1>7 DEF TimelyNext

LEMMA MatchIndexStep ==
    ASSUME Advances, {"OnTime", "Settled", "Fresh"} \subseteq Assumed,
           HeartBeatsTimely, MatchIndexKnown
    PROVE  MatchIndexKnown'
<1>1. SUFFICES ASSUME NEW i \in Server, Leads(i)'
               PROVE  /\ \A j \in Server : matchIndex'[i][j] <= Len(log'[i])
                      /\ matchIndex'[i][i] # 0 => LastTerm(log'[i]) = currentTerm'[i]
                      /\ matchIndex'[i][i] = 0 =>
                            \A j \in Server : matchIndex'[i][j] \in {0, Len(log'[i])}
  BY DEF MatchIndexKnown, LastTerm, TermAt
<1>2. /\ Next /\ TypeInv /\ ElectionInv /\ TimelyNext /\ TimelyElections
      /\ log[i] \in Seq(Entry) /\ log'[i] \in Seq(Entry)
      /\ matchIndex \in [Server -> [Server -> Nat]]
  BY AdvanceTypes DEF Advances, TypeInv, TypeOK
<1>3. CASE ~Leads(i)
  <2>1. matchIndex'[i] = InitialMatchIndex
    BY <1>1, <1>2, <1>3, LeadsStep DEF BeginsToLead
  <2>2. \A j \in Server : matchIndex'[i][j] = 0
    BY <2>1 DEF InitialMatchIndex
  <2> QED BY <1>2, <2>2
<1>4. CASE Leads(i)
  <2>1. /\ \A j \in Server : matchIndex[i][j] <= Len(log[i])
        /\ matchIndex[i][i] # 0 => LastTerm(log[i]) = currentTerm[i]
        /\ matchIndex[i][i] = 0 =>
              \A j \in Server : matchIndex[i][j] \in {0, Len(log[i])}
    BY <1>4 DEF MatchIndexKnown
  <2>2. currentTerm'[i] = currentTerm[i]
    BY <1>1, <1>2, <1>4, PeerSteps DEF Leads, PeerStep, Stays, Campaigns, StepsDown, Votes, Wins
  <2>3. ASSUME NEW v \in Value, Start(i, v)
        PROVE  /\ Appends(i)
               /\ \A j \in Server : matchIndex'[i][j] <= Len(log'[i])
               /\ matchIndex'[i][i] # 0 /\ LastTerm(log'[i]) = currentTerm'[i]
    <3> DEFINE e == [term |-> currentTerm[i], command |-> v]
    <3>1. e \in Entry /\ log' = [log EXCEPT ![i] = Append(log[i], e)] /\ e.term = currentTerm[i]
      BY <1>2, <2>3, StartProps
    <3>2. log \in [Server -> Seq(Entry)]
      BY AdvanceTypes
    <3>3. matchIndex' = [matchIndex EXCEPT ![i][i] = Len(Append(log[i], e))]
      BY <2>3, Zenon DEF Start
    <3> HIDE DEF e
    <3>4. log'[i] = Append(log[i], e) /\ Len(log'[i]) = Len(log[i]) + 1
      BY <3>1, <3>2
    <3>5. log'[i][Len(log'[i])] = e
      BY <1>2, <3>1, <3>4
    <3>6. LastTerm(log'[i]) = currentTerm'[i]
      BY <1>2, <2>2, <3>1, <3>4, <3>5 DEF LastTerm, TermAt
    <3>7. \A j \in Server : matchIndex'[i][j] = IF j = i THEN Len(log'[i]) ELSE matchIndex[i][j]
      BY <1>2, <3>3, <3>4
    <3>8. Len(log[i]) \in Nat /\ Len(log'[i]) \in Nat
      BY <1>2
    <3>9. Appends(i)
      BY <1>1, <1>4, <2>2, <3>1, <3>4 DEF Appends, Leads
    <3>10. ASSUME NEW j \in Server
           PROVE  matchIndex'[i][j] <= Len(log'[i])
      <4>1. matchIndex[i][j] \in Nat /\ matchIndex[i][j] <= Len(log[i])
        BY <1>2, <2>1
      <4>2. CASE j = i
        BY <3>7, <3>8, <4>2
      <4>3. CASE j # i
        <5>1. matchIndex'[i][j] = matchIndex[i][j]
          BY <3>7, <4>3
        <5> QED BY <3>4, <3>8, <4>1, <5>1
      <4> QED BY <4>2, <4>3
    <3>11. matchIndex'[i][i] # 0
      BY <3>4, <3>7, <3>8
    <3> QED BY <3>6, <3>9, <3>10, <3>11
  <2>4. CASE Appends(i)
    <3>1. PICK v \in Value : Start(i, v)
      BY <1>2, <2>4, AppendsIsStart
    <3> QED BY <2>3, <3>1
  <2>5. CASE ~Appends(i)
    <3>1. log'[i] = log[i]
      BY <1>1, <1>2, <2>5, LogStep DEF Accepts, Leads
    <3>2. CASE matchIndex'[i] = matchIndex[i]
      BY <2>1, <2>2, <3>1, <3>2
    <3>3. ASSUME NEW m \in calls, m.src = i, Succeeds(m)
          PROVE  \A j \in Server :
                    matchIndex'[i][j] = IF j = m.dst THEN Len(log[i]) ELSE matchIndex[i][j]
      BY <1>2, <3>3 DEF Succeeds
    <3>4. ASSUME NEW m \in calls, m.src = i, Succeeds(m)
          PROVE  m.dst # i
      BY <3>4 DEF Succeeds, HeartBeatsTimely, HeartBeats
    <3>5. CASE \E m \in calls : m.src = i /\ Succeeds(m)
      <4>1. PICK k \in Server \ {i} :
               \A j \in Server : matchIndex'[i][j] = IF j = k THEN Len(log[i]) ELSE matchIndex[i][j]
        <5>1. PICK m \in calls : m.src = i /\ Succeeds(m)
          BY <3>5
        <5>2. m.dst \in Server
          BY <1>2, CallKinds DEF TypeInv
        <5> QED BY <3>3, <3>4, <5>1, <5>2
      <4>2. matchIndex'[i][i] = matchIndex[i][i] /\ Len(log[i]) \in Nat
        BY <1>2, <4>1
      <4>3. ASSUME NEW j \in Server
            PROVE  /\ matchIndex'[i][j] <= Len(log[i])
                   /\ matchIndex[i][i] = 0 => matchIndex'[i][j] \in {0, Len(log[i])}
        <5>1. CASE j = k
          <6>1. matchIndex'[i][j] = Len(log[i])
            BY <4>1, <5>1
          <6> QED BY <4>2, <6>1
        <5>2. CASE j # k
          <6>1. matchIndex'[i][j] = matchIndex[i][j]
            BY <4>1, <5>2
          <6> QED BY <2>1, <6>1
        <5> QED BY <5>1, <5>2
      <4> QED BY <2>1, <2>2, <3>1, <4>2, <4>3
    <3> QED BY <1>1, <1>2, <1>4, <2>3, <2>5, <3>2, <3>5, MatchStep
  <2> QED BY <2>4, <2>5
<1> QED BY <1>3, <1>4

-----------------------------------------------------------------------------
(***************************************************************************)
(* A leader's log is safe once enough peers have acknowledged it.          *)
(***************************************************************************)
\* Leader i's log p in term t, acknowledged by Q, is safe if Q guards it.
SecureIfGuarded(i, p, t, Q) ==
    /\ Leads(i) /\ log[i] = p /\ currentTerm[i] = t /\ Acked(i) = Q
    /\ p # <<>> /\ Guards(p, t, Q)
    => Secure(p, t, Q)

LeadersSecure ==
    \A i \in Server, p \in Seq(Entry), t \in Term, Q \in SUBSET Server :
        SecureIfGuarded(i, p, t, Q)

\* With no acknowledgement, a leader's log is guarded only if no majority has
\* gone past its term.
FreshSecure ==
    \A i \in Server, p \in Seq(Entry), t \in Term :
        /\ Leads(i) /\ log[i] = p /\ currentTerm[i] = t
        /\ p # <<>> /\ Guards(p, t, {})
        => Secure(p, t, {})

LEMMA FreshIsSecure == MatchInv /\ LogsAscend /\ HeartBeatsTimely => FreshSecure
<1>1. SUFFICES ASSUME MatchInv, LogsAscend, HeartBeatsTimely,
                      NEW i \in Server, NEW p \in Seq(Entry), NEW t \in Term,
                      Leads(i), log[i] = p, currentTerm[i] = t,
                      p # <<>>, Guards(p, t, {})
               PROVE  Secure(p, t, {})
  BY DEF FreshSecure
<1>2. /\ TypeInv /\ ElectionInv /\ OneLink /\ EntriesWon /\ LeaderHasIndex
      /\ HeartBeatsWon /\ OneWinner /\ LeadersWon
      /\ t \in Nat /\ Term \subseteq Nat
  BY <1>1, WinnersAreOne, LeadersHaveWon, BoundAssumption DEF MatchInv, WonInv, Term
<1>3. Winner(i, t) /\ state[i] = "LEADER"
  BY <1>1, <1>2 DEF LeadersWon, Leads
<1>4. ASSUME NEW w \in Server, NEW u \in Term, Winner(w, u), u >= t
      PROVE  w = i /\ u = t
  <2>1. CASE u > t
    <3>1. /\ voters[w][u] \in SUBSET Server /\ Majority(voters[w][u])
          /\ \A v \in voters[w][u] : currentTerm[v] >= u
      BY <1>1, <1>4, WinnerMajority
    <3>2. \A v \in voters[w][u] : currentTerm[v] > t
      <4> SUFFICES ASSUME NEW v \in voters[w][u] PROVE currentTerm[v] > t
        OBVIOUS
      <4>1. currentTerm[v] \in Nat /\ currentTerm[v] >= u
        BY <1>2, <3>1, ElectionTypes
      <4>2. u \in Nat /\ t \in Nat
        BY <1>2
      <4> QED BY <2>1, <4>1, <4>2
    <3> QED BY <1>1, <3>1, <3>2 DEF Guards, Blocks
  <2>2. CASE u = t
    BY <1>2, <1>3, <1>4, <2>2 DEF OneWinner
  <2> QED BY <1>2, <1>4, <2>1, <2>2
<1>5. MembersHave(p, t, {}) /\ CandidatesHave(p, t, {})
  BY DEF MembersHave, CandidatesHave
<1>6. LeadersHave(p, t)
  <2> SUFFICES ASSUME NEW j \in Server, state[j] = "LEADER", currentTerm[j] >= t
               PROVE  Heads(p, log[j])
    BY DEF LeadersHave
  <2>1. j = i
    BY <1>2, <1>4 DEF LeadersWon
  <2> QED BY <1>1, <2>1 DEF Heads
<1>7. RequestsFit(p, t)
  <2> SUFFICES ASSUME NEW m \in calls, m.kind = "AppendEntries", m.term >= t
               PROVE  Fits(m, p)
    BY DEF RequestsFit
  <2>1. m.src \in Server /\ m.term \in Term /\ Winner(m.src, m.term)
    BY <1>2, CallKinds DEF TypeInv, HeartBeatsWon
  <2>2. m.src = i /\ m.term = t
    BY <1>4, <2>1
  <2>3. Window(m, p)
    BY <1>1, <2>2 DEF HeartBeatsTimely, HeartBeats
  <2>4. m \in AppendRequest
    BY <1>2, RequestsAreTyped DEF RequestsTyped
  <2>5. Ascending(p) /\ Heads(p, p)
    BY <1>1 DEF LogsAscend, Heads
  <2> QED BY <1>1, <2>3, <2>4, <2>5, WindowFits
<1>8. GoodLogsHave(p, t)
  <2> SUFFICES ASSUME LastTerm(p) = t, NEW j \in Server, AsGood(log[j], p)
               PROVE  Heads(p, log[j])
    BY DEF GoodLogsHave
  <2>1. PICK l \in Seq(Entry) : l = log[j] /\ Linked(l) /\ LogLinks(l) \subseteq Links
    BY <1>2, LogsLinked DEF TypeInv, TypeOK, Linked
  <2>2. Linked(p)
    BY <1>1, <1>2, LogsLinked
  <2>3. Len(l) \in Nat /\ Len(p) \in Nat /\ LastTerm(l) \in Nat /\ LastTerm(l) >= t /\ t # 0
    <3>1. LastTerm(l) \in Nat /\ Len(l) \in Nat /\ Len(p) \in Nat
      BY LastTermType
    <3>2. AsGood(l, p) /\ LastTerm(p) = t
      BY <2>1
    <3>3. t # 0
      BY DEF Term
    <3> QED BY <1>2, <3>1, <3>2, <3>3 DEF AsGood
  <2>4. Len(l) \in 1..Len(l) /\ LastTerm(l) = l[Len(l)].term
    <3>1. LastTerm(l) = IF Len(l) = 0 THEN 0 ELSE l[Len(l)].term
      BY Zenon DEF LastTerm, TermAt
    <3>2. Len(l) # 0
      BY <1>2, <2>3, <3>1
    <3> QED BY <2>3, <3>1, <3>2
  <2>5. Link(Len(l), TermAt(l, Len(l) - 1), l[Len(l)]) \in Links
    BY <2>1, <2>4, LogLink
  <2>6. /\ l[Len(l)].term \in Term
        /\ \E w \in Server : Winner(w, l[Len(l)].term)
    BY <1>2, <2>5, LinkTerms DEF EntriesWon, Link
  <2>7. LastTerm(l) = t
    BY <1>4, <2>3, <2>4, <2>6
  <2>8. Len(l) <= Len(p)
    BY <1>1, <1>2, <1>3, <2>4, <2>5, <2>7 DEF LeaderHasIndex, Link
  <2>9. Len(p) = Len(l)
    BY <2>1, <2>3, <2>7, <2>8 DEF AsGood
  <2>10. p[Len(p)].term = l[Len(p)].term
    BY <2>3, <2>4, <2>7, <2>9 DEF LastTerm, TermAt
  <2>11. \A n \in 1..Len(p) : p[n] = l[n]
    <3>1. Len(p) \in 1..Len(p) /\ Len(p) <= Len(l)
      BY <2>3, <2>4, <2>9
    <3> QED BY <1>2, <2>1, <2>2, <2>10, <3>1, LinkedMatch
  <2> QED BY <2>1, <2>3, <2>9, <2>11 DEF Heads
<1> QED BY <1>5, <1>6, <1>7, <1>8 DEF Secure

\* A leader that has just been through TurnLeader, or whose log has just
\* grown, has no acknowledgement: what is under way does not reach the end.
LEMMA FreshLeader ==
    ASSUME MatchInv', LogsAscend', HeartBeatsTimely', NEW i \in Server, Leads(i)',
           \A q \in Server : q # i => matchIndex'[i][q] # Len(log'[i]),
           \A m \in calls' :
              m.kind = "AppendEntriesReply" /\ m.src = i /\ m.term = currentTerm'[i] =>
                 m.last # Len(log'[i]),
           NEW p \in Seq(Entry), NEW t \in Term, NEW Q \in SUBSET Server
    PROVE  SecureIfGuarded(i, p, t, Q)'
<1>1. FreshSecure'
  BY FreshIsSecure, PTL
<1>2. SUFFICES ASSUME log'[i] = p, currentTerm'[i] = t, Acked(i)' = Q,
                      p # <<>>, Guards(p, t, Q)'
               PROVE  Secure(p, t, Q)'
  BY DEF SecureIfGuarded
<1>3. Q = {}
  BY <1>2 DEF Acked
<1> QED BY <1>1, <1>2, <1>3 DEF FreshSecure

\* Whoever has newly acknowledged a leader's log has just accepted it.
LEMMA AckedStep ==
    ASSUME Advances, {"OnTime", "Settled", "Fresh"} \subseteq Assumed, HeartBeatsTimely,
           NEW i \in Server, Leads(i), Leads(i)', log'[i] = log[i],
           currentTerm'[i] = currentTerm[i],
           NEW q \in Acked(i)', q \notin Acked(i)
    PROVE  currentTerm'[q] = currentTerm[i] /\ Heads(log[i], log'[q])
<1>1. /\ Next /\ TypeInv /\ TypeOK /\ OneLink /\ TimelyNext
      /\ log[i] \in Seq(Entry)
      /\ matchIndex \in [Server -> [Server -> Nat]]
  BY AdvanceTypes DEF Advances, TypeInv, TypeOK
<1>2. q \in Server
  BY DEF Acked
<1>3. CASE q # i /\ matchIndex'[i][q] = Len(log'[i])
  <2>1. CASE matchIndex'[i] = matchIndex[i]
    BY <1>2, <1>3, <2>1 DEF Acked
  <2>2. ASSUME NEW v \in Value, Start(i, v)
        PROVE  FALSE
    <3>1. PICK e \in Entry : log' = [log EXCEPT ![i] = Append(log[i], e)]
      BY <1>1, <2>2, StartProps
    <3>2. log'[i] = Append(log[i], e)
      BY <1>1, <3>1 DEF TypeOK
    <3>3. Len(log'[i]) = Len(log[i]) + 1 /\ Len(log[i]) \in Nat
      BY <1>1, <3>2
    <3> QED BY <3>3
  <2>3. ASSUME NEW m \in calls, m.src = i, Succeeds(m)
        PROVE  FALSE
    <3>1. matchIndex'[i][q] = IF q = m.dst THEN Len(log[i]) ELSE matchIndex[i][q]
      BY <1>1, <1>2, <2>3 DEF Succeeds
    <3>2. /\ m.kind = "AppendEntriesReply" /\ m.success /\ m.term = currentTerm[i]
          /\ m.last = Len(log[i])
      BY <2>3 DEF Succeeds
    <3> QED BY <1>2, <1>3, <2>3, <3>1, <3>2 DEF Acked
  <2> QED BY <1>1, <2>1, <2>2, <2>3, MatchStep
<1>4. ASSUME NEW r \in calls', r.kind = "AppendEntriesReply", r.success,
             r.src = i, r.dst = q, r.term = currentTerm'[i], r.last = Len(log'[i])
      PROVE  currentTerm'[q] = currentTerm[i] /\ Heads(log[i], log'[q])
  <2>1. r \notin calls
    BY <1>2, <1>4 DEF Acked
  <2>2. PICK m \in calls :
           /\ AppendEntries(m) /\ AppendAccepted(m)
           /\ r.src = m.src /\ r.dst = m.dst /\ r.term = m.term
           /\ r.last = m.prevLogIndex + Len(m.entries)
    BY <1>1, <1>4, <2>1, CallSource
  <2>3. Accepts(m) /\ m.src = i /\ m.dst = q /\ m.term = currentTerm[i]
    BY <1>1, <1>4, <2>2, AcceptedAccepts
  <2>4. Window(m, log[i])
    BY <2>3 DEF HeartBeatsTimely, HeartBeats, Accepts
  <2>5. /\ m \in AppendRequest /\ m.prevLogIndex \in Nat
        /\ log'[q] = AppendNew(log[q], m.prevLogIndex, m.entries)
        /\ currentTerm'[q] = currentTerm[i]
        /\ m.prevLogIndex <= Len(log[q])
        /\ TermAt(log[q], m.prevLogIndex) = m.prevLogTerm
    BY <2>3 DEF Accepts, AppendRequest
  <2>6. /\ Linked(log[q]) /\ Linked(log[i])
        /\ Linked(AppendNew(log[q], m.prevLogIndex, m.entries))
    BY <1>1, <1>2, <2>3, LogsLinked, AcceptLinked
  <2>7. /\ m.prevLogIndex <= Len(log[i])
        /\ TermAt(log[i], m.prevLogIndex) = m.prevLogTerm
        /\ Len(log[i]) <= m.prevLogIndex + Len(m.entries)
        /\ \A k \in (m.prevLogIndex + 1)..Len(log[i]) :
              m.entries[k - m.prevLogIndex] = log[i][k]
    <3>1. PICK l \in Seq(Entry), n \in Nat, e \in Seq(Entry) :
             l = log[i] /\ n = m.prevLogIndex /\ e = m.entries
      BY <1>1, <2>5 DEF AppendRequest
    <3>2. /\ n + Len(e) <= Len(l) /\ TermAt(l, n) = m.prevLogTerm
          /\ \A k \in 1..Len(e) : e[k] = l[n + k]
      BY <2>4, <3>1 DEF Window
    <3>3. Len(l) = n + Len(e) /\ Len(l) \in Nat /\ Len(e) \in Nat
      <4>1. r.last = Len(l)
        BY <1>4, <3>1
      <4>2. r.last = n + Len(e)
        BY <2>2, <3>1, Zenon
      <4> QED BY <4>1, <4>2
    <3>4. ASSUME NEW k \in (n + 1)..Len(l)
          PROVE  e[k - n] = l[k]
      <4>1. k - n \in 1..Len(e) /\ n + (k - n) = k
        BY <3>3
      <4> QED BY <3>2, <4>1
    <3>5. n <= Len(l) /\ Len(l) <= n + Len(e)
      BY <3>3
    <3> QED BY <3>1, <3>2, <3>4, <3>5
  <2>8. Heads(log[i], AppendNew(log[q], m.prevLogIndex, m.entries))
    BY <1>1, <2>5, <2>6, <2>7, AcceptGives
  <2> QED BY <2>5, <2>8
<1> QED BY <1>3, <1>4 DEF Acked

\* A leader's log is one that somebody leads with.
LEMMA LeaderKeeps ==
    ASSUME MatchInv, LogsAscend, NEW i \in Server, state[i] = "LEADER", log[i] # <<>>
    PROVE  Kept(log[i], currentTerm[i])
<1>1. TypeInv /\ LeadersWon
  BY LeadersHaveWon DEF MatchInv, ElectionInv
<1>2. Linked(log[i])
  BY <1>1, LogsLinked
<1>3. currentTerm[i] \in Term /\ HasWinner(currentTerm[i])
  BY <1>1 DEF LeadersWon, HasWinner
<1>4. LastTerm(log[i]) <= currentTerm[i]
  <2>1. log[i] \in Seq(Entry) /\ Len(log[i]) \in 1..Len(log[i])
    BY <1>1 DEF TypeInv, TypeOK
  <2> QED BY <2>1 DEF LogsAscend, LastTerm, TermAt
<1>5. Ascending(log[i])
  BY DEF LogsAscend
<1> QED BY <1>2, <1>3, <1>4, <1>5 DEF Kept

\* While a leader's log stays as it is, and its acknowledgements come in, the
\* log is safe from the moment that enough of them guard it.
LEMMA LeadersSecureStep ==
    ASSUME Advances, {"OnTime", "Settled", "Fresh"} \subseteq Assumed,
           HeartBeatsTimely, MatchIndexKnown, LeadersSecure
    PROVE  LeadersSecure'
<1>1. SUFFICES ASSUME NEW i \in Server, NEW p \in Seq(Entry), NEW t \in Term,
                      NEW R \in SUBSET Server,
                      Leads(i)', log'[i] = p, currentTerm'[i] = t, Acked(i)' = R,
                      p # <<>>, Guards(p, t, R)'
               PROVE  Secure(p, t, R)'
  BY DEF LeadersSecure, SecureIfGuarded
<1>2. /\ Next /\ TypeInv /\ ElectionInv /\ TimelyNext /\ TimelyElections
      /\ LogsAscend /\ LogsAscend' /\ MatchInv /\ MatchInv' /\ HeartBeatsTimely'
      /\ log[i] \in Seq(Entry) /\ log'[i] \in Seq(Entry)
      /\ matchIndex \in [Server -> [Server -> Nat]]
  BY AdvanceTypes, HeartBeatsTimelyStep DEF Advances, TypeInv, TypeOK
<1>3. SUFFICES ASSUME Leads(i) \/ BeginsToLead(i)
               PROVE  Secure(p, t, R)'
  BY <1>1, <1>2, LeadsStep
<1>4. CASE BeginsToLead(i)
  <2>1. /\ ~Leads(i) /\ log'[i] = log[i] /\ calls' = calls
        /\ currentTerm'[i] = currentTerm[i]
        /\ \A q \in Server : matchIndex'[i][q] = 0
    BY <1>4 DEF BeginsToLead, InitialMatchIndex
  <2>2. \A q \in Server : q # i => matchIndex'[i][q] # Len(log'[i])
    BY <1>1, <2>1
  <2>3. \A m \in calls' :
           m.kind = "AppendEntriesReply" /\ m.src = i /\ m.term = currentTerm'[i] =>
              m.last # Len(log'[i])
    BY <2>1 DEF HeartBeatsTimely, HeartBeats
  <2>4. SecureIfGuarded(i, p, t, R)'
    BY <1>1, <1>2, <2>2, <2>3, FreshLeader
  <2> QED BY <1>1, <2>4 DEF SecureIfGuarded
<1>5. CASE Leads(i)
  <2>1. currentTerm'[i] = currentTerm[i]
    BY <1>1, <1>2, <1>5, PeerSteps DEF Leads, PeerStep, Stays, Campaigns, StepsDown, Votes, Wins
  <2>2. CASE Appends(i)
    <3>1. PICK v \in Value : Start(i, v)
      BY <1>2, <2>2, AppendsIsStart
    <3>2. calls' = calls
      BY <1>2, <3>1, StartProps
    <3>3. Len(log'[i]) = Len(log[i]) + 1 /\ Len(log[i]) \in Nat
      BY <1>2, <2>2 DEF Appends
    <3>4. ASSUME NEW m \in calls', m.kind = "AppendEntriesReply",
                 m.src = i, m.term = currentTerm'[i]
          PROVE  m.last # Len(log'[i])
      <4>1. m.last <= Len(log[i])
        BY <2>1, <3>2, <3>4 DEF HeartBeatsTimely, HeartBeats
      <4>2. m.last \in Nat
        BY <1>2, <3>2, <3>4, CallKinds DEF TypeInv, AppendReply
      <4> QED BY <3>3, <4>1, <4>2
    <3>5. Len(log'[i]) = Len(log[i]) + 1
      BY <3>3
    <3>6. ASSUME NEW q \in Server, q # i
          PROVE  matchIndex'[i][q] # Len(log'[i])
      <4>1. matchIndex'[i][q] = matchIndex[i][q]
        BY <1>2, <3>1, <3>6 DEF Start
      <4>2. matchIndex[i][q] \in Nat /\ matchIndex[i][q] <= Len(log[i])
        BY <1>2, <1>5 DEF MatchIndexKnown
      <4> QED BY <1>2, <3>5, <4>1, <4>2
    <3>7. SecureIfGuarded(i, p, t, R)'
      BY <1>1, <1>2, <3>4, <3>6, FreshLeader
    <3> QED BY <1>1, <3>7 DEF SecureIfGuarded
  <2>3. CASE ~Appends(i)
    <3>1. log'[i] = log[i]
      BY <1>1, <1>2, <2>3, LogStep DEF Accepts, Leads
    <3>2. PICK Q \in SUBSET Server : Q = Acked(i)
      BY DEF Acked
    <3>3. log[i] = p /\ currentTerm[i] = t
      BY <1>1, <2>1, <3>1
    <3>4. Kept(p, t)
      BY <1>1, <1>2, <1>5, <3>3, LeaderKeeps DEF Leads
    <3>5. \A q \in R : q \in Q \/ (currentTerm'[q] = t /\ Heads(p, log'[q]))
      BY <1>1, <1>2, <1>5, <2>1, <3>1, <3>2, <3>3, AckedStep
    <3>6. Replaces(p, t, Q, R)
      BY <1>1, <3>4, <3>5 DEF Replaces, Guards, Blocks, AllIn
    <3>7. Guards(p, t, Q)
      BY <3>6, GuardsBefore
    <3>8. Secure(p, t, Q)
      BY <1>1, <1>5, <3>2, <3>3, <3>7 DEF LeadersSecure, SecureIfGuarded
    <3> QED BY <3>6, <3>8, SecureStep DEF Renews
  <2> QED BY <2>2, <2>3
<1> QED BY <1>3, <1>4, <1>5

-----------------------------------------------------------------------------
(***************************************************************************)
(* Committing.                                                             *)
(***************************************************************************)
\* No majority can do without Q.
MeetsAll(Q) == \A V \in SUBSET Server : Majority(V) => V \cap Q # {}

\* The log p of a leader of term t is safe for good.
Committed(p, t) ==
    /\ p \in Seq(Entry) /\ p # <<>>
    /\ t \in Term /\ LastTerm(p) <= t /\ HasWinner(t)
    /\ \E Q \in SUBSET Server :
          /\ Secure(p, t, Q)
          /\ MeetsAll(Q)
          /\ LastTerm(p) = t \/ Q = Server

LEMMA AllAreMajority == Majority(Server)
<1>1. Cardinality(Server) \in Nat /\ Cardinality(Server) # 0
  BY ServerAssumption, FS_CardinalityType, FS_EmptySet
<1> QED BY <1>1 DEF Majority

LEMMA CommittedKept ==
    ASSUME NEW p, NEW t, TypeInv, LogsAscend, Committed(p, t)
    PROVE  Kept(p, t)
<1>1. PICK Q \in SUBSET Server : Secure(p, t, Q) /\ MeetsAll(Q)
  BY DEF Committed
<1>2. PICK q \in Q : TRUE
  BY <1>1, AllAreMajority DEF MeetsAll
<1>3. Heads(p, log[q]) /\ Linked(log[q])
  BY <1>1, <1>2, LogsLinked DEF Secure, MembersHave
<1>4. Linked(p)
  BY <1>3, HeadLinked DEF Committed
<1>5. Ascending(p)
  BY <1>2, <1>3, HeadAscends DEF Committed, LogsAscend, TypeInv, TypeOK
<1> QED BY <1>4, <1>5 DEF Kept, Committed

\* Whatever one step of the group does, what is committed stays so.
LEMMA CommittedStep ==
    ASSUME Advances, NEW p, NEW t, Committed(p, t)
    PROVE  Committed(p, t)'
<1>1. /\ TimelyElections /\ MatchInv /\ TimelyNext /\ ElectionInv'
      /\ TypeInv /\ LogsAscend /\ currentTerm \in [Server -> Nat]
  BY AdvanceTypes DEF Advances
<1>2. PICK Q \in SUBSET Server :
         /\ Secure(p, t, Q) /\ MeetsAll(Q)
         /\ LastTerm(p) = t \/ Q = Server
  BY DEF Committed
<1>3. Kept(p, t)
  BY <1>1, CommittedKept
<1>4. Replaces(p, t, Q, Q)
  BY <1>2, <1>3 DEF Replaces, MeetsAll
<1>5. Secure(p, t, Q)'
  BY <1>2, <1>4, SecureStep DEF Renews
<1>6. HasWinner(t)'
  <2>1. PICK w \in Server : Winner(w, t)
    BY DEF Committed, HasWinner
  <2>2. t \in Term
    BY DEF Committed
  <2>3. Winner(w, t)'
    BY <1>1, <2>1, <2>2, WinnerStays
  <2> QED BY <2>3 DEF HasWinner
<1> QED BY <1>2, <1>5, <1>6 DEF Committed, MeetsAll

\* What sendHeartBeat counts when it raises commitIndex.
LEMMA CommitOfMajority ==
    ASSUME NEW match, NEW last \in Nat, NEW commit \in Nat,
           NEW c, c = CommitOf(match, last, commit), c # commit
    PROVE  c \in (commit + 1)..last /\ Majority({j \in Server : match[j] >= c})
<1> DEFINE T == {commit} \cup
                {k \in (commit + 1)..last : Majority({j \in Server : match[j] >= k})}
<1>1. c = Max(T)
  BY DEF CommitOf
<1>2. T \in SUBSET Nat /\ commit \in T /\ \A y \in T : y <= commit + last
  OBVIOUS
<1>3. Max(T) \in T
  <2> HIDE DEF T
  <2> QED BY <1>2, MaxOf, commit + last \in Nat
<1> QED BY <1>1, <1>3

\* Of up to four peers, no majority can do without two of them.
LEMMA TwoMeet ==
    ASSUME Cardinality(Server) <= 4, NEW i \in Server, NEW j \in Server, i # j,
           NEW V \in SUBSET Server, Majority(V)
    PROVE  V \cap {i, j} # {}
<1> SUFFICES ASSUME V \cap {i, j} = {} PROVE FALSE
  OBVIOUS
<1> DEFINE rest == (Server \ {i}) \ {j}
<1>1. /\ IsFiniteSet(Server \ {i}) /\ Cardinality(Server \ {i}) = Cardinality(Server) - 1
  BY ServerAssumption, FS_RemoveElement
<1>2. IsFiniteSet(rest) /\ Cardinality(rest) = Cardinality(Server) - 2
  <2>1. /\ IsFiniteSet(rest)
        /\ Cardinality(rest) = Cardinality(Server \ {i}) - 1
    BY <1>1, FS_RemoveElement
  <2>2. Cardinality(Server) \in Nat
    BY ServerAssumption, FS_CardinalityType
  <2> QED BY <1>1, <2>1, <2>2
<1>3. V \subseteq rest
  OBVIOUS
<1> HIDE DEF rest
<1>4. Cardinality(V) <= Cardinality(rest)
  BY <1>2, <1>3, FS_Subset
<1>5. Cardinality(V) \in Nat /\ Cardinality(Server) \in Nat
  BY ServerAssumption, FS_CardinalityType, FS_Subset
<1>6. Cardinality(V) > Cardinality(Server) \div 2
  BY DEF Majority
<1>7. \A n \in 0..4, v \in Nat : ~(v > n \div 2 /\ v <= n - 2)
  <2> SUFFICES ASSUME NEW n \in 0..4, NEW v \in Nat, v > n \div 2, v <= n - 2
               PROVE  FALSE
    OBVIOUS
  <2>1. n = 0 \/ n = 1 \/ n = 2 \/ n = 3 \/ n = 4
    OBVIOUS
  <2> QED BY <2>1
<1> QED BY <1>2, <1>4, <1>5, <1>6, <1>7

LEMMA LeaderCommits ==
    ASSUME TypeInv, MatchInv, LogsAscend, Cardinality(Server) <= 4,
           HeartBeatsTimely, MatchIndexKnown, LeadersSecure,
           NEW i \in Server, Leads(i),
           NEW q \in Acked(i), q # i, NEW c \in 1..Len(log[i]),
           NEW S \in SUBSET Server, Majority(S),
           \A j \in S : j # q => matchIndex[i][j] >= c
    PROVE  Committed(log[i], currentTerm[i])
<1> DEFINE p == log[i]
           t == currentTerm[i]
           Q == Acked(i)
<1>1. /\ Q \in SUBSET Server /\ q \in Server
      /\ p \in Seq(Entry) /\ p # <<>> /\ Len(p) \in Nat
      /\ matchIndex \in [Server -> [Server -> Nat]]
      /\ state[i] = "LEADER"
      /\ currentTerm \in [Server -> Nat]
      /\ ElectionInv
  <2>1. Q \in SUBSET Server /\ q \in Server
    BY DEF Acked
  <2>2. p \in Seq(Entry) /\ matchIndex \in [Server -> [Server -> Nat]]
    BY DEF TypeInv, TypeOK
  <2>3. p # <<>> /\ Len(p) \in Nat
    BY <2>2
  <2>4. state[i] = "LEADER" /\ currentTerm \in [Server -> Nat] /\ ElectionInv
    BY ElectionTypes DEF Leads, MatchInv
  <2> QED BY <2>1, <2>2, <2>3, <2>4
<1>2. /\ p \in Seq(Entry) /\ p # <<>> /\ t \in Term /\ LastTerm(p) <= t /\ HasWinner(t)
  BY <1>1, LeaderKeeps DEF Kept
<1>4. ASSUME Guards(p, t, Q)
      PROVE  Secure(p, t, Q \cup {i})
  <2>1. Secure(p, t, Q)
    BY <1>1, <1>2, <1>4 DEF LeadersSecure, SecureIfGuarded
  <2>2. MembersHave(p, t, Q \cup {i})
    <3>1. MembersHave(p, t, Q)
      BY <2>1 DEF Secure
    <3>2. t \in Nat /\ currentTerm[i] >= t
      BY <1>1
    <3>3. Heads(p, log[i])
      BY <1>1 DEF Heads
    <3> QED BY <3>1, <3>2, <3>3 DEF MembersHave
  <2>3. ASSUME NEW d \in Server, state[d] # "FOLLOWER", currentTerm[d] > t,
               Granted(i, d, currentTerm[d])
        PROVE  FALSE
    <3>1. currentTerm[d] \in Term
      BY <2>3 DEF TypeInv, InATerm
    <3>2. currentTerm[i] >= currentTerm[d]
      BY <2>3, <3>1, VotersHaveCome DEF VotersCame
    <3> QED BY <1>1, <2>3, <3>2
  <2>4. CandidatesHave(p, t, Q \cup {i})
    BY <2>1, <2>3 DEF Secure, CandidatesHave
  <2> QED BY <2>1, <2>2, <2>4 DEF Secure
<1>5. \A V \in SUBSET Server : (\A v \in V : currentTerm[v] > t) => i \notin V
  BY <1>1
<1>6. MeetsAll(Q \cup {i})
  BY <1>1, TwoMeet DEF MeetsAll
<1>7. CASE matchIndex[i][i] # 0
  <2>1. LastTerm(p) = t
    BY <1>1, <1>7 DEF MatchIndexKnown
  <2>2. Blocks(t, Q)
    <3> SUFFICES ASSUME NEW V \in SUBSET Server, Majority(V), \A v \in V : currentTerm[v] > t
                 PROVE  V \cap Q # {}
      BY DEF Blocks
    <3>1. V \cap {i, q} # {} /\ i \notin V
      BY <1>1, <1>5, TwoMeet
    <3> QED BY <3>1
  <2>3. Secure(p, t, Q \cup {i})
    BY <1>4, <2>1, <2>2 DEF Guards
  <2> QED BY <1>1, <1>2, <1>6, <2>1, <2>3 DEF Committed
<1>8. CASE matchIndex[i][i] = 0
  <2>1. i \notin S
    BY <1>8
  <2>2. ASSUME NEW j \in Server, j # i
        PROVE  j \in Q
    <3>1. j \in S
      <4>1. S \cap {i, j} # {}
        BY <2>2, TwoMeet
      <4> QED BY <2>1, <4>1
    <3>2. CASE j # q
      <4>1. matchIndex[i][j] >= c /\ matchIndex[i][j] \in Nat
        BY <1>1, <3>1, <3>2
      <4>2. matchIndex[i][j] \in {0, Len(log[i])}
        BY <1>8 DEF MatchIndexKnown
      <4>3. matchIndex[i][j] = Len(log[i])
        BY <1>1, <4>1, <4>2
      <4> QED BY <2>2, <4>3 DEF Acked
    <3> QED BY <3>2
  <2>3. AllIn(t, Q)
    BY <1>1, <2>2 DEF AllIn
  <2>4. Blocks(t, Q)
    <3> SUFFICES ASSUME NEW V \in SUBSET Server, Majority(V), \A v \in V : currentTerm[v] > t
                 PROVE  V \cap Q # {}
      BY DEF Blocks
    <3>1. V \cap {i, q} # {} /\ i \notin V
      BY <1>1, <1>5, TwoMeet
    <3> QED BY <3>1
  <2>5. Q \cup {i} = Server
    BY <1>1, <2>2
  <2>6. Secure(p, t, Q \cup {i})
    BY <1>4, <2>3, <2>4 DEF Guards
  <2> QED BY <1>1, <1>2, <1>6, <2>5, <2>6 DEF Committed
<1> QED BY <1>7, <1>8

\* The entries s are the head of a log that was committed by term t.
IsCommitted(s, t) ==
    \/ s = <<>>
    \/ \E p \in Seq(Entry), u \in Term : u <= t /\ Committed(p, u) /\ Heads(s, p)

\* A peer applies what is committed, and has it in its log.
AppliedCommitted ==
    \A i \in Server :
        /\ commitIndex[i] = Len(applied[i])
        /\ Heads(applied[i], log[i])
        /\ IsCommitted(applied[i], currentTerm[i])

\* A request tells of entries that are committed, and reaches them.
CommitsCarried ==
    \A m \in calls :
        m.kind = "AppendEntries" /\ m.leaderCommit > 0 =>
            \E p \in Seq(Entry), u \in Term :
                /\ u <= m.term /\ Committed(p, u)
                /\ m.leaderCommit <= Len(p) /\ Reaches(m, p)

\* applymsg, called for an index that the log has.
LEMMA DeliverHeads ==
    ASSUME TypeOK, NEW i \in Server, NEW l \in Seq(Entry), NEW c \in Nat,
           commitIndex[i] = Len(applied[i]), Heads(applied[i], l),
           commitIndex[i] <= c, c <= Len(l),
           Deliver(i, l, c)
    PROVE  /\ Len(applied'[i]) = c
           /\ Heads(applied'[i], l)
           /\ \A j \in Server \ {i} : applied'[j] = applied[j]
<1> DEFINE top == Max({Len(applied[i]), c})
           new == [k \in 1..top |-> IF k \in (commitIndex[i] + 1)..c
                                    THEN l[k] ELSE applied[i][k]]
<1>1. /\ applied \in [Server -> Seq(Entry)] /\ applied[i] \in Seq(Entry)
      /\ Len(applied[i]) \in Nat /\ commitIndex[i] \in Nat
  BY DEF TypeOK
<1>2. top = c
  <2> DEFINE T == {Len(applied[i]), c}
  <2>1. T \in SUBSET Nat /\ \A y \in T : y <= c
    BY <1>1
  <2>2. c \in T
    OBVIOUS
  <2>3. Max(T) \in T /\ \A y \in T : y <= Max(T)
    <3> HIDE DEF T
    <3> QED BY <2>1, <2>2, MaxOf
  <2> HIDE DEF T
  <2>4. PICK x \in T : x = Max(T) /\ \A y \in T : y <= x
    BY <2>3
  <2>5. x \in Nat /\ x <= c /\ c <= x
    BY <2>1, <2>2, <2>4
  <2>6. Max(T) = c
    BY <2>4, <2>5
  <2> QED BY <2>6 DEF T
<1>3. applied' = [applied EXCEPT ![i] = new]
  BY DEF Deliver
<1> HIDE DEF top
<1>4. \A k \in 1..c : new[k] = l[k]
  <2> SUFFICES ASSUME NEW k \in 1..c PROVE new[k] = l[k]
    OBVIOUS
  <2>1. CASE k \in (commitIndex[i] + 1)..c
    BY <1>2, <2>1
  <2>2. CASE k \notin (commitIndex[i] + 1)..c
    <3>1. k \in 1..Len(applied[i])
      BY <1>1, <2>2
    <3>2. new[k] = applied[i][k]
      BY <1>2, <2>2
    <3> QED BY <3>1, <3>2 DEF Heads
  <2> QED BY <2>1, <2>2
<1>5. Len(new) = c
  <2>1. DOMAIN new = 1..c
    BY <1>2
  <2>2. new \in Seq(Entry)
    <3>1. \A k \in 1..c : l[k] \in Entry
      OBVIOUS
    <3>2. new \in [1..c -> Entry]
      BY <1>2, <1>4, <3>1
    <3> HIDE DEF new
    <3> QED BY <3>2
  <2> HIDE DEF new
  <2> QED BY <2>1, <2>2
<1> HIDE DEF new
<1>6. applied'[i] = new /\ \A j \in Server \ {i} : applied'[j] = applied[j]
  BY <1>1, <1>3
<1> QED BY <1>4, <1>5, <1>6 DEF Heads

\* Who has entries of a committed log keeps them, whatever it accepts in the
\* term of that log or a later one.
LEMMA AcceptKeepsCommitted ==
    ASSUME Advances, NEW m \in calls, Accepts(m),
           NEW p, NEW u, Committed(p, u), u <= m.term,
           NEW s \in Seq(Entry), Heads(s, p), Heads(s, log[m.dst])
    PROVE  Heads(s, log'[m.dst])
<1>1. Fits(m, p) /\ p \in Seq(Entry)
  BY DEF Committed, Secure, RequestsFit, Accepts
<1>2. /\ m \in AppendRequest /\ log[m.dst] \in Seq(Entry)
      /\ m.prevLogIndex <= Len(log[m.dst])
      /\ log'[m.dst] = AppendNew(log[m.dst], m.prevLogIndex, m.entries)
  BY AdvanceTypes, CallKinds DEF TypeInv, Accepts
<1> QED BY <1>1, <1>2, AcceptKeeps

\* Who accepts such a request that reaches the end of a committed log has that
\* log: if the request continues a longer one, its entries are as good.
LEMMA AcceptCommitted ==
    ASSUME Advances, NEW m \in calls, Accepts(m),
           NEW p, NEW u, Committed(p, u), u <= m.term, Reaches(m, p)
    PROVE  Heads(p, log'[m.dst])
<1>1. TypeInv /\ OneLink /\ LogsAscend /\ m.dst \in Server
  BY AdvanceTypes, CallKinds DEF TypeInv
<1>2. Kept(p, u)
  BY <1>1, CommittedKept
<1>3. PICK Q \in SUBSET Server : Secure(p, u, Q) /\ (LastTerm(p) = u \/ Q = Server)
  BY DEF Committed
<1>4. Fits(m, p)
  BY <1>3 DEF Secure, RequestsFit, Accepts
<1>5. ASSUME m.prevLogIndex >= Len(p)
      PROVE  Heads(p, log[m.dst])
  <2>1. CASE Q = Server
    BY <1>1, <1>3, <2>1 DEF Secure, MembersHave
  <2>2. CASE LastTerm(p) = u
    <3>1. AsGood(log[m.dst], p)
      BY <1>1, <1>2, <1>4, <1>5, PrevGood, KeptTypes
    <3> QED BY <1>1, <1>3, <2>2, <3>1 DEF Secure, GoodLogsHave
  <2> QED BY <1>3, <2>1, <2>2
<1> QED BY <1>1, <1>2, <1>4, <1>5, AcceptHeads DEF Kept

\* Two steps write commitIndex.
LEMMA CommitWriters ==
    ASSUME TypeInv, TimelyNext
    PROVE  \/ UNCHANGED <<commitIndex, applied>>
           \/ \E m \in calls : AppendEntries(m) /\ AppendAccepted(m)
           \/ \E m \in calls : /\ HeartBeatReturned(m)
                               /\ OnTime(m) /\ Settled(m.src) /\ Fresh(m)
<1>1. ASSUME NEW i \in Server,
             \/ ElectionTimeout(i)
             \/ StartElection(i)
             \/ \E late \in Late : TurnLeader(i, late)
             \/ \E v \in Value : Start(i, v)
             \/ \E j \in Server, id \in CallId : SendHeartBeat(i, j, id)
      PROVE  UNCHANGED <<commitIndex, applied>>
  BY <1>1, Zenon DEF ElectionTimeout, StartElection, TurnLeader, Start, SendHeartBeat, logVars
<1>2. ASSUME NEW m \in calls,
             \/ RequestVote(m)
             \/ \E late \in Late : VoteReturned(m, late)
             \/ Lose(m)
      PROVE  UNCHANGED <<commitIndex, applied>>
  BY <1>2, Zenon DEF RequestVote, VoteReturned, Lose, logVars
<1>3. ASSUME NEW m \in calls, AppendEntries(m)
      PROVE  UNCHANGED <<commitIndex, applied>> \/ AppendAccepted(m)
  BY <1>3, Zenon DEF AppendEntries, AppendRefused, AppendMismatch, logVars
<1> QED BY <1>1, <1>2, <1>3 DEF TimelyNext

\* AppendEntries takes over the leader's commit index, if its log reaches it.
LEMMA AcceptedCommits ==
    ASSUME TypeInv, NEW m \in calls, AppendEntries(m), AppendAccepted(m),
           m.leaderCommit > commitIndex[m.dst] => m.leaderCommit <= Len(log'[m.dst])
    PROVE  /\ UNCHANGED dead
           /\ \E c \in Nat :
                 /\ c = IF m.leaderCommit > commitIndex[m.dst]
                        THEN m.leaderCommit ELSE commitIndex[m.dst]
                 /\ commitIndex' = [commitIndex EXCEPT ![m.dst] = c]
                 /\ Deliver(m.dst, log'[m.dst], c)
<1> DEFINE i == m.dst
           l == AppendNew(log[i], m.prevLogIndex, m.entries)
           c == IF m.leaderCommit > commitIndex[i]
                THEN Min({Len(l) + 1, m.leaderCommit})
                ELSE commitIndex[i]
<1>1. Accepts(m)
  BY AcceptedAccepts
<1>2. m \in AppendRequest /\ log'[i] = l
  BY <1>1 DEF Accepts
<1>3. /\ m.leaderCommit \in Nat /\ commitIndex[i] \in Nat
      /\ i \in Server /\ Len(log'[i]) \in Nat
  <2>1. TypeInv' => log'[i] \in Seq(Entry)
    BY CallKinds DEF TypeInv, TypeOK
  <2>2. TypeInv'
    BY AppendEntriesType
  <2> QED BY <1>2, <2>1, <2>2, CallKinds DEF AppendRequest, TypeInv, TypeOK
<1>4. /\ commitIndex' = [commitIndex EXCEPT ![i] = c]
      /\ \/ /\ c <= Len(l) \/ c <= commitIndex[i]
            /\ Deliver(i, l, c)
            /\ UNCHANGED dead
         \/ ~(c <= Len(l) \/ c <= commitIndex[i])
  BY Zenon DEF AppendAccepted
<1> HIDE DEF l
<1>5. CASE m.leaderCommit > commitIndex[i]
  <2>1. m.leaderCommit <= Len(l) /\ Len(l) \in Nat
    BY <1>2, <1>3, <1>5
  <2> DEFINE T == {Len(l) + 1, m.leaderCommit}
  <2>2. T \in SUBSET Nat /\ T # {} /\ m.leaderCommit \in T /\ \A y \in T : y >= m.leaderCommit
    BY <1>3, <2>1
  <2>3. c = Min(T)
    BY <1>5
  <2> HIDE DEF T
  <2>4. PICK x \in T : x = Min(T) /\ \A y \in T : x <= y
    BY <2>2, MinOf
  <2>5. x \in Nat /\ x <= m.leaderCommit /\ m.leaderCommit <= x
    BY <2>2, <2>4
  <2>6. c = m.leaderCommit
    BY <1>3, <2>3, <2>4, <2>5
  <2> HIDE DEF c
  <2> QED BY <1>2, <1>3, <1>4, <1>5, <2>1, <2>6
<1>6. CASE ~(m.leaderCommit > commitIndex[i])
  <2>1. c = commitIndex[i]
    BY <1>6
  <2> HIDE DEF c
  <2>2. c <= commitIndex[i]
    BY <1>3, <2>1
  <2>3. /\ commitIndex' = [commitIndex EXCEPT ![i] = c]
        /\ Deliver(i, log'[i], c)
        /\ UNCHANGED dead
    BY <1>2, <1>4, <2>2
  <2>4. c \in Nat /\ c = IF m.leaderCommit > commitIndex[i]
                         THEN m.leaderCommit ELSE commitIndex[i]
    BY <1>3, <1>6, <2>1
  <2> QED BY <2>3, <2>4
<1> QED BY <1>5, <1>6

\* sendHeartBeat raises commitIndex when a follower has accepted.
LEMMA ReturnedCommits ==
    ASSUME TypeInv, {"OnTime", "Settled", "Fresh"} \subseteq Assumed,
           NEW m \in calls, HeartBeatReturned(m), OnTime(m), Settled(m.src), Fresh(m)
    PROVE  /\ UNCHANGED <<dead, log>>
           /\ \/ UNCHANGED <<commitIndex, applied>>
              \/ /\ Succeeds(m)
                 /\ \E c : /\ c = CommitOf([matchIndex[m.src] EXCEPT ![m.dst] = Len(log[m.src])],
                                           Len(log[m.src]), commitIndex[m.src])
                           /\ commitIndex' = [commitIndex EXCEPT ![m.src] = c]
                           /\ Deliver(m.src, log[m.src], c)
<1>1. /\ UNCHANGED <<dead, log, winning>>
      /\ m.kind = "AppendEntriesReply"
      /\ \/ UNCHANGED <<commitIndex, applied>>
         \/ /\ state[m.src] = "LEADER" /\ m.success
            /\ matchIndex' = [matchIndex EXCEPT ![m.src] =
                                 [matchIndex[m.src] EXCEPT ![m.dst] = Len(log[m.src])]]
            /\ UNCHANGED <<peerVars, log>>
            /\ \E c : /\ c = CommitOf([matchIndex[m.src] EXCEPT ![m.dst] = Len(log[m.src])],
                                      Len(log[m.src]), commitIndex[m.src])
                      /\ commitIndex' = [commitIndex EXCEPT ![m.src] = c]
                      /\ Deliver(m.src, log[m.src], c)
  BY Zenon DEF HeartBeatReturned, logVars, electionVars
<1>2. /\ m.term = currentTerm[m.src] /\ winning[m.src] = 0
      /\ m.success => m.last = Len(log[m.src])
  BY DEF OnTime, Settled, Fresh
<1> QED BY <1>1, <1>2 DEF Succeeds, Leads

LEMMA HeadsShorter ==
    ASSUME NEW a \in Seq(Entry), NEW b \in Seq(Entry), NEW l \in Seq(Entry),
           Heads(a, l), Heads(b, l), Len(a) <= Len(b)
    PROVE  Heads(a, b)
BY DEF Heads

LEMMA IsCommittedHead ==
    ASSUME NEW a \in Seq(Entry), NEW b \in Seq(Entry), Heads(a, b),
           NEW t \in Nat, NEW u \in Nat, t <= u, IsCommitted(b, t)
    PROVE  IsCommitted(a, u)
<1>1. CASE b = <<>>
  <2>1. a = <<>>
    BY <1>1 DEF Heads
  <2> QED BY <2>1 DEF IsCommitted
<1>2. CASE b # <<>>
  <2>1. PICK p \in Seq(Entry), w \in Term : w <= t /\ Committed(p, w) /\ Heads(b, p)
    BY <1>2 DEF IsCommitted
  <2>2. Heads(a, p)
    BY <2>1, HeadsTransitive
  <2>3. w <= u
    BY <2>1, BoundAssumption DEF Term
  <2> QED BY <2>1, <2>2, <2>3 DEF IsCommitted
<1> QED BY <1>1, <1>2

\* AppendEntries applies committed entries, and cuts off none.
LEMMA AcceptApplied ==
    ASSUME Advances, AppliedCommitted, CommitsCarried,
           NEW m \in calls, Accepts(m), NEW j \in Server
    PROVE  /\ UNCHANGED dead
           /\ commitIndex'[j] = Len(applied'[j])
           /\ Heads(applied[j], applied'[j])
           /\ j # m.dst => applied'[j] = applied[j]
           /\ j = m.dst => /\ Heads(applied'[j], log'[j])
                           /\ IsCommitted(applied'[j], currentTerm'[j])
<1> DEFINE i == m.dst
<1>1. /\ TypeInv /\ TypeOK /\ i \in Server
      /\ m.kind = "AppendEntries" /\ m.leaderCommit \in Nat
      /\ AppendEntries(m) /\ AppendAccepted(m)
      /\ currentTerm[i] \in Nat /\ currentTerm[i] <= m.term /\ m.term \in Nat
      /\ currentTerm'[i] = m.term
  <2>1. m \in AppendRequest /\ m.term >= currentTerm[i]
    BY DEF Accepts
  <2> QED BY <2>1, AdvanceTypes, CallKinds DEF TypeInv, Accepts, AppendRequest
<1>2. /\ applied \in [Server -> Seq(Entry)] /\ applied' \in [Server -> Seq(Entry)]
      /\ log'[i] \in Seq(Entry)
      /\ commitIndex \in [Server -> Nat]
      /\ applied[i] \in Seq(Entry) /\ applied'[i] \in Seq(Entry)
  BY <1>1, AdvanceTypes DEF TypeInv, TypeOK
<1>3. /\ commitIndex[i] = Len(applied[i]) /\ IsCommitted(applied[i], currentTerm[i])
      /\ commitIndex[i] \in Nat
  BY <1>1, <1>2 DEF AppliedCommitted
<1>4. Heads(applied[i], log'[i])
  <2>1. CASE applied[i] = <<>>
    BY <1>2, <2>1 DEF Heads
  <2>2. CASE applied[i] # <<>>
    <3>1. PICK p \in Seq(Entry), u \in Term :
             u <= currentTerm[i] /\ Committed(p, u) /\ Heads(applied[i], p)
      BY <1>3, <2>2 DEF IsCommitted
    <3>2. u <= m.term
      BY <1>1, <3>1, BoundAssumption DEF Term
    <3>3. Heads(applied[i], log[i])
      BY <1>1 DEF AppliedCommitted
    <3> QED BY <1>2, <3>1, <3>2, <3>3, AcceptKeepsCommitted
  <2> QED BY <2>1, <2>2
<1>5. ASSUME m.leaderCommit > commitIndex[i]
      PROVE  \E p \in Seq(Entry), u \in Term :
                /\ u <= m.term /\ Committed(p, u)
                /\ m.leaderCommit <= Len(p) /\ Heads(p, log'[i])
  <2>1. m.leaderCommit > 0
    BY <1>1, <1>3, <1>5
  <2>2. PICK p \in Seq(Entry), u \in Term :
           /\ u <= m.term /\ Committed(p, u)
           /\ m.leaderCommit <= Len(p) /\ Reaches(m, p)
    BY <1>1, <2>1 DEF CommitsCarried
  <2>3. Heads(p, log'[i])
    BY <2>2, AcceptCommitted
  <2> QED BY <2>2, <2>3
<1>6. m.leaderCommit > commitIndex[i] => m.leaderCommit <= Len(log'[i])
  <2> SUFFICES ASSUME m.leaderCommit > commitIndex[i]
               PROVE  m.leaderCommit <= Len(log'[i])
    OBVIOUS
  <2>1. PICK p \in Seq(Entry) : m.leaderCommit <= Len(p) /\ Heads(p, log'[i])
    BY <1>5
  <2>2. Len(p) \in Nat /\ Len(log'[i]) \in Nat /\ Len(p) <= Len(log'[i])
    BY <1>2, <2>1 DEF Heads
  <2> QED BY <1>1, <2>1, <2>2
<1>7. UNCHANGED dead
  BY <1>1, <1>6, AcceptedCommits
<1>8. PICK c \in Nat :
         /\ c = IF m.leaderCommit > commitIndex[i] THEN m.leaderCommit ELSE commitIndex[i]
         /\ commitIndex' = [commitIndex EXCEPT ![i] = c]
         /\ Deliver(i, log'[i], c)
  BY <1>1, <1>6, AcceptedCommits
<1>9. commitIndex[i] <= c /\ c <= Len(log'[i])
  <2>1. commitIndex[i] <= Len(log'[i])
    BY <1>3, <1>4 DEF Heads
  <2> QED BY <1>1, <1>3, <1>6, <1>8, <2>1
<1>10. /\ Len(applied'[i]) = c
       /\ Heads(applied'[i], log'[i])
       /\ \A k \in Server \ {i} : applied'[k] = applied[k]
  BY <1>1, <1>2, <1>3, <1>4, <1>8, <1>9, DeliverHeads
<1>11. /\ commitIndex'[i] = c
       /\ \A k \in Server \ {i} : commitIndex'[k] = commitIndex[k]
  BY <1>1, <1>2, <1>8
<1>12. Heads(applied[i], applied'[i])
  BY <1>2, <1>3, <1>4, <1>9, <1>10, HeadsShorter
<1>13. IsCommitted(applied'[i], m.term)
  <2>1. CASE m.leaderCommit > commitIndex[i]
    <3>1. PICK p \in Seq(Entry), u \in Term :
             /\ u <= m.term /\ Committed(p, u)
             /\ m.leaderCommit <= Len(p) /\ Heads(p, log'[i])
      BY <1>5, <2>1
    <3>2. Heads(applied'[i], p)
      <4>1. Len(applied'[i]) <= Len(p)
        BY <1>8, <1>10, <2>1, <3>1
      <4> QED BY <1>2, <1>10, <3>1, <4>1, HeadsShorter
    <3> QED BY <3>1, <3>2 DEF IsCommitted
  <2>2. CASE ~(m.leaderCommit > commitIndex[i])
    <3>1. Len(applied'[i]) <= Len(applied[i])
      BY <1>3, <1>8, <1>10, <2>2
    <3>2. Heads(applied'[i], applied[i])
      BY <1>2, <1>4, <1>10, <3>1, HeadsShorter
    <3> QED BY <1>1, <1>2, <1>3, <3>2, IsCommittedHead
  <2> QED BY <2>1, <2>2
<1>14. ASSUME j # i
       PROVE  /\ commitIndex'[j] = Len(applied'[j])
              /\ Heads(applied[j], applied'[j])
  <2>1. applied'[j] = applied[j] /\ commitIndex'[j] = commitIndex[j]
    BY <1>10, <1>11, <1>14
  <2>2. applied[j] \in Seq(Entry)
    BY <1>2
  <2>3. Heads(applied[j], applied[j])
    BY <2>2 DEF Heads
  <2> QED BY <2>1, <2>3 DEF AppliedCommitted
<1> QED BY <1>1, <1>7, <1>10, <1>11, <1>12, <1>13, <1>14

\* What the applied entries follow from.
Commits ==
    /\ Cardinality(Server) <= 4
    /\ {"OnTime", "Settled", "Fresh"} \subseteq Assumed
    /\ HeartBeatsTimely /\ MatchIndexKnown /\ LeadersSecure
    /\ AppliedCommitted /\ CommitsCarried

\* sendHeartBeat applies what enough followers have.
LEMMA ReturnApplied ==
    ASSUME Advances, Commits, NEW m \in calls,
           HeartBeatReturned(m), OnTime(m), Settled(m.src), Fresh(m), NEW j \in Server
    PROVE  /\ UNCHANGED dead
           /\ commitIndex'[j] = Len(applied'[j])
           /\ Heads(applied[j], applied'[j])
           /\ Heads(applied'[j], log'[j])
           /\ IsCommitted(applied'[j], currentTerm'[j])
<1> DEFINE i == m.src
           q == m.dst
           match == [matchIndex[i] EXCEPT ![q] = Len(log[i])]
<1>1. /\ TypeInv /\ TypeOK /\ MatchInv /\ LogsAscend /\ TypeInv'
      /\ i \in Server /\ q \in Server
      /\ currentTerm \in [Server -> Nat] /\ currentTerm' \in [Server -> Nat]
      /\ \A k \in Server : currentTerm'[k] >= currentTerm[k]
      /\ {"OnTime", "Settled", "Fresh"} \subseteq Assumed
  BY AdvanceTypes, CallKinds DEF Advances, TypeInv, Commits
<1>2. /\ applied \in [Server -> Seq(Entry)] /\ applied' \in [Server -> Seq(Entry)]
      /\ log \in [Server -> Seq(Entry)]
      /\ commitIndex \in [Server -> Nat]
      /\ matchIndex \in [Server -> [Server -> Nat]]
  BY <1>1 DEF TypeInv, TypeOK
<1>3. /\ UNCHANGED <<dead, log>>
      /\ \/ UNCHANGED <<commitIndex, applied>>
         \/ /\ Succeeds(m)
            /\ \E c : /\ c = CommitOf(match, Len(log[i]), commitIndex[i])
                      /\ commitIndex' = [commitIndex EXCEPT ![i] = c]
                      /\ Deliver(i, log[i], c)
  BY <1>1, ReturnedCommits
<1>4. \A k \in Server : /\ commitIndex[k] = Len(applied[k])
                        /\ Heads(applied[k], log[k])
                        /\ IsCommitted(applied[k], currentTerm[k])
                        /\ Heads(applied[k], applied[k])
  <2> SUFFICES ASSUME NEW k \in Server
               PROVE  /\ commitIndex[k] = Len(applied[k])
                      /\ Heads(applied[k], log[k])
                      /\ IsCommitted(applied[k], currentTerm[k])
                      /\ Heads(applied[k], applied[k])
    OBVIOUS
  <2>1. applied[k] \in Seq(Entry)
    BY <1>2
  <2>2. Heads(applied[k], applied[k])
    BY <2>1 DEF Heads
  <2> QED BY <2>2 DEF Commits, AppliedCommitted
<1>5. ASSUME NEW k \in Server, applied'[k] = applied[k], commitIndex'[k] = commitIndex[k]
      PROVE  /\ commitIndex'[k] = Len(applied'[k])
             /\ Heads(applied[k], applied'[k])
             /\ Heads(applied'[k], log'[k])
             /\ IsCommitted(applied'[k], currentTerm'[k])
  <2>1. IsCommitted(applied'[k], currentTerm'[k])
    <3>1. /\ applied[k] \in Seq(Entry)
          /\ currentTerm[k] \in Nat /\ currentTerm'[k] \in Nat
          /\ currentTerm[k] <= currentTerm'[k]
      BY <1>1, <1>2
    <3> QED BY <1>4, <1>5, <3>1, IsCommittedHead
  <2> QED BY <1>3, <1>4, <1>5, <2>1
<1>6. CASE UNCHANGED <<commitIndex, applied>>
  BY <1>3, <1>5, <1>6
<1>7. ASSUME Succeeds(m), NEW c, c = CommitOf(match, Len(log[i]), commitIndex[i]),
             commitIndex' = [commitIndex EXCEPT ![i] = c], Deliver(i, log[i], c)
      PROVE  /\ commitIndex'[j] = Len(applied'[j])
             /\ Heads(applied[j], applied'[j])
             /\ Heads(applied'[j], log'[j])
             /\ IsCommitted(applied'[j], currentTerm'[j])
  <2>1. /\ log[i] \in Seq(Entry) /\ Len(log[i]) \in Nat /\ commitIndex[i] \in Nat
        /\ applied[i] \in Seq(Entry) /\ applied'[i] \in Seq(Entry)
    <3>1. i \in Server
      BY <1>1
    <3> HIDE DEF i
    <3>2. log[i] \in Seq(Entry) /\ applied[i] \in Seq(Entry) /\ applied'[i] \in Seq(Entry)
      BY <1>2, <3>1
    <3>3. Len(log[i]) \in Nat /\ commitIndex[i] \in Nat
      BY <1>2, <3>1, <3>2
    <3> QED BY <3>2, <3>3
  <2>2. c \in Nat /\ c >= commitIndex[i] /\ (c = commitIndex[i] \/ c <= Len(log[i]))
    BY <1>7, <2>1, CommitOfProps
  <2>3. commitIndex[i] <= Len(log[i])
    BY <1>1, <1>4 DEF Heads
  <2>4. /\ Len(applied'[i]) = c
        /\ Heads(applied'[i], log[i])
        /\ \A k \in Server \ {i} : applied'[k] = applied[k]
    BY <1>1, <1>4, <1>7, <2>1, <2>2, <2>3, DeliverHeads
  <2>5. /\ commitIndex'[i] = c
        /\ \A k \in Server \ {i} : commitIndex'[k] = commitIndex[k]
    BY <1>1, <1>2, <1>7
  <2>6. Heads(applied[i], applied'[i])
    BY <1>1, <1>4, <2>1, <2>2, <2>4, HeadsShorter
  <2>7. IsCommitted(applied'[i], currentTerm'[i])
    <3>1. CASE c = commitIndex[i]
      <4>1. Heads(applied'[i], applied[i])
        BY <1>1, <1>4, <2>1, <2>4, <3>1, HeadsShorter
      <4>2. /\ currentTerm[i] \in Nat /\ currentTerm'[i] \in Nat
            /\ currentTerm[i] <= currentTerm'[i]
        BY <1>1
      <4> QED BY <1>1, <1>4, <2>1, <4>1, <4>2, IsCommittedHead
    <3>2. CASE c # commitIndex[i]
      <4>1. PICK S \in SUBSET Server :
               /\ c \in (commitIndex[i] + 1)..Len(log[i])
               /\ Majority(S)
               /\ \A k \in S : match[k] >= c
        <5> HIDE DEF match
        <5>1. /\ c \in (commitIndex[i] + 1)..Len(log[i])
              /\ Majority({k \in Server : match[k] >= c})
          BY <1>7, <2>1, <3>2, CommitOfMajority
        <5> QED BY <5>1
      <4>2. Leads(i) /\ q \in Acked(i) /\ q # i
        BY <1>1, <1>7 DEF Succeeds, Acked, Commits, HeartBeatsTimely, HeartBeats
      <4>3. \A k \in S : k # q => matchIndex[i][k] >= c
        BY <1>1, <1>2, <4>1
      <4>4. c \in 1..Len(log[i])
        BY <2>1, <4>1
      <4>5. Committed(log[i], currentTerm[i])
        BY <1>1, <4>1, <4>2, <4>3, <4>4, LeaderCommits DEF Commits
      <4>6. currentTerm[i] \in Term /\ currentTerm[i] <= currentTerm'[i]
        BY <1>1, <4>5 DEF Committed
      <4> QED BY <2>1, <2>4, <4>5, <4>6 DEF IsCommitted
    <3> QED BY <3>1, <3>2
  <2>8. CASE j = i
    BY <1>3, <2>4, <2>5, <2>6, <2>7, <2>8
  <2>9. CASE j # i
    BY <1>5, <2>4, <2>5, <2>9
  <2> QED BY <2>8, <2>9
<1> QED BY <1>3, <1>6, <1>7

\* No other step touches what is applied, or what follows it in a log.
LEMMA AppliedStep ==
    ASSUME Advances, Commits, NEW j \in Server
    PROVE  /\ commitIndex'[j] = Len(applied'[j])
           /\ Heads(applied[j], applied'[j])
           /\ Heads(applied'[j], log'[j])
           /\ IsCommitted(applied'[j], currentTerm'[j])
<1>1. /\ TypeInv /\ TimelyNext /\ Next
      /\ currentTerm[j] \in Nat /\ currentTerm'[j] \in Nat
      /\ currentTerm[j] <= currentTerm'[j]
      /\ log[j] \in Seq(Entry)
      /\ AppliedCommitted /\ CommitsCarried
  BY AdvanceTypes DEF Advances, Commits
<1>2. applied[j] \in Seq(Entry)
  BY <1>1 DEF TypeInv, TypeOK
<1>3. CASE \E m \in calls : m.dst = j /\ Accepts(m)
  BY <1>1, <1>3, AcceptApplied
<1>4. CASE \E m \in calls : /\ HeartBeatReturned(m)
                             /\ OnTime(m) /\ Settled(m.src) /\ Fresh(m)
  BY <1>4, ReturnApplied
<1>5. CASE /\ \A m \in calls : ~(m.dst = j /\ Accepts(m))
           /\ \A m \in calls : ~(/\ HeartBeatReturned(m)
                                 /\ OnTime(m) /\ Settled(m.src) /\ Fresh(m))
  <2>1. commitIndex'[j] = Len(applied'[j]) /\ applied'[j] = applied[j]
    <3>1. CASE UNCHANGED <<commitIndex, applied>>
      BY <1>1, <3>1 DEF AppliedCommitted
    <3>2. ASSUME NEW m \in calls, AppendEntries(m), AppendAccepted(m)
          PROVE  commitIndex'[j] = Len(applied'[j]) /\ applied'[j] = applied[j]
      <4>1. Accepts(m)
        BY <1>1, <3>2, AcceptedAccepts
      <4>2. m.dst # j
        BY <1>5, <4>1
      <4> QED BY <1>1, <4>1, <4>2, AcceptApplied
    <3> QED BY <1>1, <1>5, <3>1, <3>2, CommitWriters
  <2>2. Heads(applied[j], log'[j])
    <3>1. Heads(applied[j], log[j])
      BY <1>1 DEF AppliedCommitted
    <3>2. CASE log'[j] = log[j]
      BY <3>1, <3>2
    <3>3. CASE Appends(j)
      BY <1>1, <1>2, <3>1, <3>3, HeadsAppend DEF Appends
    <3> QED BY <1>1, <1>5, <3>2, <3>3, LogStep
  <2>3. Heads(applied[j], applied[j])
    BY <1>2 DEF Heads
  <2>4. IsCommitted(applied[j], currentTerm'[j])
    BY <1>1, <1>2, <2>3, IsCommittedHead DEF AppliedCommitted
  <2> QED BY <2>1, <2>2, <2>3, <2>4
<1> QED BY <1>3, <1>4, <1>5

LEMMA AppliedCommittedStep ==
    ASSUME Advances, Commits
    PROVE  AppliedCommitted'
<1>1. SUFFICES ASSUME NEW j \in Server
               PROVE  /\ commitIndex'[j] = Len(applied'[j])
                      /\ Heads(applied'[j], log'[j])
                      /\ IsCommitted(applied[j], currentTerm[j])'
  BY DEF AppliedCommitted, Heads
<1>2. /\ commitIndex'[j] = Len(applied'[j])
      /\ Heads(applied'[j], log'[j])
      /\ IsCommitted(applied'[j], currentTerm'[j])
  BY AppliedStep
<1>3. CASE applied'[j] = <<>>
  BY <1>2, <1>3 DEF IsCommitted
<1>4. ASSUME NEW p \in Seq(Entry), NEW u \in Term,
             u <= currentTerm'[j], Committed(p, u), Heads(applied'[j], p)
      PROVE  IsCommitted(applied[j], currentTerm[j])'
  <2>1. Committed(p, u)'
    BY <1>4, CommittedStep
  <2> QED BY <1>4, <2>1 DEF IsCommitted, Heads
<1> QED BY <1>2, <1>3, <1>4 DEF IsCommitted

\* A leader that sends a heartbeat has applied what it tells of, and sends its
\* log to the end.
LEMMA CommitsCarriedStep ==
    ASSUME Advances, Commits
    PROVE  CommitsCarried'
<1>1. /\ TypeInv /\ TimelyNext /\ Next /\ AppliedCommitted /\ CommitsCarried
      /\ applied \in [Server -> Seq(Entry)]
  BY AdvanceTypes DEF Advances, Commits, TypeInv, TypeOK
<1>2. ASSUME NEW r \in calls', r.kind = "AppendEntries", r.leaderCommit > 0
      PROVE  \E p \in Seq(Entry), u \in Term :
                /\ u <= r.term /\ Committed(p, u)
                /\ r.leaderCommit <= Len(p) /\ Reaches(r, p)
  <2>1. CASE r \in calls
    BY <1>1, <1>2, <2>1 DEF CommitsCarried
  <2>2. CASE r \notin calls
    <3>1. PICK i \in Server, j \in Server, id \in CallId :
              /\ SendHeartBeat(i, j, id)
              /\ nextIndex[i][j] \in 1..(Len(log[i]) + 1)
              /\ r.prevLogIndex = nextIndex[i][j] - 1
              /\ r.prevLogTerm = TermAt(log[i], nextIndex[i][j] - 1)
              /\ r.entries = SubSeq(log[i], nextIndex[i][j], Len(log[i]))
      BY <1>1, <1>2, <2>2, HeartBeatSenders
    <3>2. r \in calls \cup
             {[kind |-> "AppendEntries", id |-> id, src |-> i, dst |-> j,
               term |-> currentTerm[i],
               prevLogIndex |-> nextIndex[i][j] - 1,
               prevLogTerm |-> TermAt(log[i], nextIndex[i][j] - 1),
               entries |-> SubSeq(log[i], nextIndex[i][j], Len(log[i])),
               leaderCommit |-> commitIndex[i]]}
      BY <1>2, <2>2, <3>1, Zenon DEF SendHeartBeat
    <3>3. r.term = currentTerm[i] /\ r.leaderCommit = commitIndex[i]
      BY <2>2, <3>2
    <3>4. /\ commitIndex[i] = Len(applied[i]) /\ applied[i] \in Seq(Entry)
          /\ IsCommitted(applied[i], currentTerm[i])
      BY <1>1 DEF AppliedCommitted
    <3>5. applied[i] # <<>>
      BY <1>2, <3>3, <3>4
    <3>6. PICK p \in Seq(Entry), u \in Term :
             u <= currentTerm[i] /\ Committed(p, u) /\ Heads(applied[i], p)
      BY <3>4, <3>5 DEF IsCommitted
    <3>7. r.prevLogIndex + Len(r.entries) = Len(log[i]) /\ log[i] \in Seq(Entry)
      <4>1. log[i] \in Seq(Entry)
        BY AdvanceTypes
      <4> QED BY <3>1, <4>1, SentWindow
    <3>8. Heads(p, log[i])
      <4>1. state[i] = "LEADER" /\ currentTerm[i] >= u
        BY <3>1, <3>6, AdvanceTypes DEF SendHeartBeat
      <4> QED BY <3>6, <4>1 DEF Committed, Secure, LeadersHave
    <3>9. Reaches(r, p)
      BY <3>7, <3>8 DEF Reaches, Heads
    <3> QED BY <3>3, <3>4, <3>6, <3>9 DEF Heads
  <2> QED BY <2>1, <2>2
<1>3. ASSUME NEW r \in calls', r.kind = "AppendEntries", r.leaderCommit > 0
      PROVE  \E p \in Seq(Entry), u \in Term :
                /\ u <= r.term /\ Committed(p, u)'
                /\ r.leaderCommit <= Len(p) /\ Reaches(r, p)
  <2>1. PICK p \in Seq(Entry), u \in Term :
           /\ u <= r.term /\ Committed(p, u)
           /\ r.leaderCommit <= Len(p) /\ Reaches(r, p)
    BY <1>2, <1>3
  <2>2. Committed(p, u)'
    BY <2>1, CommittedStep
  <2> QED BY <2>1, <2>2
<1> QED BY <1>3 DEF CommitsCarried, Reaches

-----------------------------------------------------------------------------
\* The inductive strengthening of StateMachineSafety and LeaderCompleteness.
CommitInv ==
    /\ MatchInv /\ AscendInv /\ AsksBest
    /\ HeartBeatsTimely /\ MatchIndexKnown /\ LeadersSecure
    /\ AppliedCommitted /\ CommitsCarried

LEMMA CommitInvInit == Init => CommitInv
<1> SUFFICES ASSUME Init PROVE CommitInv
  OBVIOUS
<1>1. MatchInv /\ AscendInv
  BY MatchInvInit, AscendInvInit
<1>2. calls = {} /\ \A i \in Server : ~Leads(i) /\ commitIndex[i] = 0 /\ applied[i] = <<>>
  BY DEF Init, Leads
<1>3. AsksBest /\ HeartBeatsTimely /\ MatchIndexKnown
  BY <1>2 DEF AsksBest, HeartBeatsTimely, HeartBeats, MatchIndexKnown
<1>4. LeadersSecure
  BY <1>2 DEF LeadersSecure, SecureIfGuarded
<1>5. AppliedCommitted
  BY <1>2 DEF AppliedCommitted, Heads, IsCommitted
<1>6. CommitsCarried
  BY <1>2 DEF CommitsCarried
<1> QED BY <1>1, <1>3, <1>4, <1>5, <1>6 DEF CommitInv

LEMMA CommitInvStep ==
    ASSUME CommitAssumption, CommitInv, [TimelyNext]_vars
    PROVE  CommitInv'
<1>1. TimelyElections
  BY DEF CommitAssumption, TimelyElections
<1>2. MatchInv'
  BY <1>1, MatchInvStep DEF CommitInv
<1>3. AscendInv'
  BY TimelyIsRaft, AscendInvStep DEF CommitInv
<1>4. CASE TimelyNext
  <2>1. Advances
    BY <1>1, <1>2, <1>3, <1>4 DEF Advances, CommitInv
  <2>2. Commits
    BY DEF Commits, CommitInv, CommitAssumption
  <2>3. AsksBest'
    BY <2>1, AsksBestStep
  <2>4. HeartBeatsTimely' /\ MatchIndexKnown' /\ LeadersSecure'
    BY <2>1, <2>2, HeartBeatsTimelyStep, MatchIndexStep, LeadersSecureStep DEF Commits
  <2>5. AppliedCommitted' /\ CommitsCarried'
    BY <2>1, <2>2, AppliedCommittedStep, CommitsCarriedStep
  <2> QED BY <1>2, <1>3, <2>3, <2>4, <2>5 DEF CommitInv
<1>5. CASE UNCHANGED vars
  <2> USE DEF CommitInv
  <2>1. /\ UNCHANGED <<state, currentTerm, votedFor, log, commitIndex, matchIndex>>
        /\ UNCHANGED <<applied, voters, winning, calls>>
    BY <1>5 DEF vars, peerVars, logVars, leaderVars, electionVars
  <2>2. AsksBest'
    BY <2>1 DEF AsksBest, LastTerm, TermAt
  <2>3. HeartBeatsTimely'
    BY <2>1 DEF HeartBeatsTimely, HeartBeats, Leads, Window, TermAt
  <2>4. MatchIndexKnown'
    BY <2>1 DEF MatchIndexKnown, Leads, LastTerm, TermAt
  <2>5. ASSUME NEW p, NEW t, NEW Q
        PROVE  Secure(p, t, Q)' <=> Secure(p, t, Q)
    BY <2>1 DEF Secure, MembersHave, LeadersHave, RequestsFit, CandidatesHave,
                GoodLogsHave, Granted, Heads, AsGood, LastTerm, TermAt
  <2>6. LeadersSecure'
    BY <2>1, <2>5 DEF LeadersSecure, SecureIfGuarded, Leads, Acked, Guards, Blocks, AllIn
  <2>7. ASSUME NEW p, NEW t, Committed(p, t)
        PROVE  Committed(p, t)'
    BY <2>1, <2>5, <2>7 DEF Committed, HasWinner, Winner, Granted
  <2>8. AppliedCommitted'
    BY <2>1, <2>7 DEF AppliedCommitted, IsCommitted, Heads
  <2>9. CommitsCarried'
    BY <2>1, <2>7 DEF CommitsCarried
  <2> QED BY <1>2, <1>3, <2>2, <2>3, <2>4, <2>6, <2>8, <2>9
<1> QED BY <1>4, <1>5

\* Two committed logs agree as far as both go.
LEMMA CommittedAgree ==
    ASSUME TypeInv, LogsAscend, NEW p, NEW t, Committed(p, t),
           NEW r, NEW u, Committed(r, u), NEW k \in 1..Len(p), k <= Len(r)
    PROVE  p[k] = r[k]
<1>1. p \in Seq(Entry) /\ r \in Seq(Entry)
  BY DEF Committed
<1>2. PICK P \in SUBSET Server :
         Secure(p, t, P) /\ MeetsAll(P) /\ (LastTerm(p) = t \/ P = Server)
  BY DEF Committed
<1>3. PICK R \in SUBSET Server :
         Secure(r, u, R) /\ MeetsAll(R) /\ (LastTerm(r) = u \/ R = Server)
  BY DEF Committed
<1>4. PICK a \in P : TRUE
  BY <1>2, AllAreMajority DEF MeetsAll
<1>5. PICK b \in R : TRUE
  BY <1>3, AllAreMajority DEF MeetsAll
<1>6. Heads(p, log[a]) /\ Heads(r, log[b])
  BY <1>2, <1>3, <1>4, <1>5 DEF Secure, MembersHave
<1>7. /\ log[a] \in Seq(Entry) /\ log[b] \in Seq(Entry)
      /\ AsGood(log[a], p) /\ AsGood(log[b], r)
  <2>1. log[a] \in Seq(Entry) /\ log[b] \in Seq(Entry)
    BY <1>4, <1>5 DEF TypeInv, TypeOK
  <2> QED BY <1>1, <1>4, <1>5, <1>6, <2>1, HeadsGood DEF LogsAscend
<1>8. \E l \in Seq(Entry) : Heads(p, l) /\ Heads(r, l)
  <2>1. CASE P = Server
    BY <1>2, <1>5, <1>6, <1>7, <2>1 DEF Secure, MembersHave
  <2>2. CASE R = Server
    BY <1>3, <1>4, <1>6, <1>7, <2>2 DEF Secure, MembersHave
  <2>3. CASE LastTerm(p) = t /\ LastTerm(r) = u
    <3>1. AsGood(p, r) \/ AsGood(r, p)
      <4>1. LastTerm(p) \in Nat /\ LastTerm(r) \in Nat /\ Len(p) \in Nat /\ Len(r) \in Nat
        BY <1>1, LastTermType
      <4> QED BY <4>1 DEF AsGood
    <3>2. CASE AsGood(p, r)
      <4>1. AsGood(log[a], r)
        BY <1>1, <1>7, <3>2, GoodTransitive
      <4>2. Heads(r, log[a])
        BY <1>3, <1>4, <2>3, <4>1 DEF Secure, GoodLogsHave
      <4> QED BY <1>6, <1>7, <4>2
    <3>3. CASE AsGood(r, p)
      <4>1. AsGood(log[b], p)
        BY <1>1, <1>7, <3>3, GoodTransitive
      <4>2. Heads(p, log[b])
        BY <1>2, <1>5, <2>3, <4>1 DEF Secure, GoodLogsHave
      <4> QED BY <1>6, <1>7, <4>2
    <3> QED BY <3>1, <3>2, <3>3
  <2> QED BY <1>2, <1>3, <2>1, <2>2, <2>3
<1> QED BY <1>1, <1>8 DEF Heads

LEMMA CommitInvSafe == CommitInv => StateMachineSafety
<1> SUFFICES ASSUME CommitInv, NEW i \in Server, NEW j \in Server,
                    NEW k \in 1..Len(applied[i]), k <= Len(applied[j])
             PROVE  applied[i][k] = applied[j][k]
  BY DEF StateMachineSafety
<1>1. TypeInv /\ LogsAscend /\ AppliedCommitted
  BY DEF CommitInv, AscendInv
<1>2. applied[i] \in Seq(Entry) /\ applied[j] \in Seq(Entry)
  BY <1>1 DEF TypeInv, TypeOK
<1>3. applied[i] # <<>> /\ applied[j] # <<>>
  BY <1>2
<1>4. PICK p \in Seq(Entry), t \in Term : Committed(p, t) /\ Heads(applied[i], p)
  BY <1>1, <1>3 DEF AppliedCommitted, IsCommitted
<1>5. PICK r \in Seq(Entry), u \in Term : Committed(r, u) /\ Heads(applied[j], r)
  BY <1>1, <1>3 DEF AppliedCommitted, IsCommitted
<1>6. /\ k \in 1..Len(p) /\ k <= Len(r) /\ k \in 1..Len(applied[j])
      /\ p[k] = applied[i][k] /\ r[k] = applied[j][k]
  BY <1>2, <1>4, <1>5 DEF Heads
<1>7. p[k] = r[k]
  BY <1>1, <1>4, <1>5, <1>6, CommittedAgree
<1> QED BY <1>6, <1>7

LEMMA CommitInvComplete == CommitInv => LeaderCompleteness
<1> SUFFICES ASSUME CommitInv, NEW i \in Server, NEW j \in Server,
                    i = j \/ (state[j] = "LEADER" /\ currentTerm[j] >= currentTerm[i])
             PROVE  Heads(applied[i], log[j])
  BY DEF LeaderCompleteness, Heads
<1>1. /\ TypeInv /\ AppliedCommitted
      /\ currentTerm \in [Server -> Nat]
  BY ElectionTypes DEF CommitInv, AscendInv
<1>2. applied[i] \in Seq(Entry) /\ log[j] \in Seq(Entry)
  BY <1>1 DEF TypeInv, TypeOK
<1>3. CASE i = j
  BY <1>1, <1>3 DEF AppliedCommitted
<1>4. CASE applied[i] = <<>>
  BY <1>2, <1>4 DEF Heads
<1>5. CASE /\ state[j] = "LEADER" /\ currentTerm[j] >= currentTerm[i]
           /\ applied[i] # <<>>
  <2>1. PICK p \in Seq(Entry), t \in Term :
           t <= currentTerm[i] /\ Committed(p, t) /\ Heads(applied[i], p)
    BY <1>1, <1>5 DEF AppliedCommitted, IsCommitted
  <2>2. currentTerm[j] >= t
    BY <1>1, <1>5, <2>1, BoundAssumption DEF Term
  <2>3. Heads(p, log[j])
    BY <1>5, <2>1, <2>2 DEF Committed, Secure, LeadersHave
  <2> QED BY <1>2, <2>1, <2>3, HeadsTransitive
<1> QED BY <1>3, <1>4, <1>5

\* No two peers apply different commands at the same index, in a timely group
\* of up to four: commands come at any time, but the success of a heartbeat
\* that Start has overtaken is lost (Fresh).  A leader then commits what enough
\* followers have of its present log, so that nobody without it is elected,
\* and who accepts the commit index of a heartbeat has the entries that it
\* speaks of, although raft.go compares neither the term of the entry it
\* commits, nor that of the reply.
THEOREM StateMachineSafe == CommitAssumption => (TimelySpec => []StateMachineSafety)
<1> SUFFICES ASSUME CommitAssumption PROVE TimelySpec => []StateMachineSafety
  OBVIOUS
<1>1. Init => CommitInv
  BY CommitInvInit
<1>2. CommitInv /\ [TimelyNext]_vars => CommitInv'
  BY CommitInvStep
<1>3. CommitInv => StateMachineSafety
  BY CommitInvSafe
<1> QED BY <1>1, <1>2, <1>3, PTL DEF TimelySpec

\* What a peer has applied is in its log, and in that of every leader of its
\* term or a later one: no election and no heartbeat takes it away, not even
\* one that was sent before later commands came, in a timely group of up to
\* four in which the success of such a heartbeat is lost (Fresh).
THEOREM LeadersAreComplete == CommitAssumption => (TimelySpec => []LeaderCompleteness)
<1> SUFFICES ASSUME CommitAssumption PROVE TimelySpec => []LeaderCompleteness
  OBVIOUS
<1>1. Init => CommitInv
  BY CommitInvInit
<1>2. CommitInv /\ [TimelyNext]_vars => CommitInv'
  BY CommitInvStep
<1>3. CommitInv => LeaderCompleteness
  BY CommitInvComplete
<1> QED BY <1>1, <1>2, <1>3, PTL DEF TimelySpec

-----------------------------------------------------------------------------
(***************************************************************************)
(* The group implements AgreedOrder.                                       *)
(***************************************************************************)
LEMMA HeadIsPrefix ==
    ASSUME NEW s \in Seq(Entry), NEW t \in Seq(Entry), Heads(s, t)
    PROVE  Log!IsPrefix(s, t)
<1>1. Len(s) \in Nat /\ Len(t) \in Nat /\ Len(s) <= Len(t)
  BY DEF Heads
<1>2. SubSeq(s, 1, Len(s)) = SubSeq(t, 1, Len(s))
  <2>1. \A k \in 1..Len(s) : s[k] = t[k]
    BY DEF Heads
  <2> QED BY <1>1, <2>1
<1> QED BY <1>1, <1>2 DEF Log!IsPrefix

\* No log is longer than Start lets it be.
LogsBounded == \A a \in Links : a.index <= MaxLog

LEMMA LogsBoundedStep ==
    ASSUME TypeInv, LogsBounded, [Next]_vars
    PROVE  LogsBounded'
<1>1. CASE Next
  <2>1. ASSUME NEW a \in Links', a \notin Links
        PROVE  a.index <= MaxLog
    <3>1. PICK i \in Server, v \in Value : Start(i, v) /\ a.index = Len(log[i]) + 1
      BY <1>1, <2>1, LinksStep
    <3>2. Len(log[i]) < MaxLog
      BY <3>1 DEF Start
    <3>3. Len(log[i]) \in Nat /\ MaxLog \in Nat
      BY BoundAssumption DEF TypeInv, TypeOK
    <3> QED BY <3>1, <3>2, <3>3
  <2> QED BY <2>1 DEF LogsBounded
<1>2. CASE UNCHANGED vars
  <2>1. log' = log /\ calls' = calls
    BY <1>2 DEF vars, logVars
  <2>2. Links' = Links
    BY <2>1 DEF Links
  <2> QED BY <2>2 DEF LogsBounded
<1> QED BY <1>1, <1>2

LogsShort == \A i \in Server : Len(log[i]) <= MaxLog

LEMMA LogsAreShort == TypeInv /\ LogsBounded => LogsShort
<1> SUFFICES ASSUME TypeInv, LogsBounded, NEW i \in Server
             PROVE  Len(log[i]) <= MaxLog
  BY DEF LogsShort
<1>1. log[i] \in Seq(Entry) /\ Len(log[i]) \in Nat /\ MaxLog \in Nat
  BY BoundAssumption DEF TypeInv, TypeOK
<1>2. CASE Len(log[i]) = 0
  BY <1>1, <1>2
<1>3. CASE Len(log[i]) # 0
  <2>1. Len(log[i]) \in 1..Len(log[i])
    BY <1>1, <1>3
  <2>2. Link(Len(log[i]), TermAt(log[i], Len(log[i]) - 1), log[i][Len(log[i])]) \in Links
    BY <1>1, <2>1, LogLink DEF Links
  <2> QED BY <2>2 DEF LogsBounded, Link
<1> QED BY <1>2, <1>3

\* One step gives commands to one peer.
LEMMA OneApplies ==
    ASSUME TypeInv, TimelyNext
    PROVE  \E i \in Server : \A k \in Server \ {i} : applied'[k] = applied[k]
<1>1. applied \in [Server -> Seq(Entry)] /\ Server # {}
  BY ServerAssumption DEF TypeInv, TypeOK
<1>2. ASSUME NEW i \in Server, NEW l, NEW c, Deliver(i, l, c)
      PROVE  \A k \in Server \ {i} : applied'[k] = applied[k]
  BY <1>1, <1>2 DEF Deliver
<1>3. ASSUME NEW m \in calls, AppendEntries(m), AppendAccepted(m)
      PROVE  \E i \in Server : \A k \in Server \ {i} : applied'[k] = applied[k]
  <2>1. \E l, c : Deliver(m.dst, l, c)
    BY <1>3, Zenon DEF AppendAccepted
  <2>2. m.dst \in Server
    BY CallKinds DEF TypeInv
  <2> QED BY <1>2, <2>1, <2>2
<1>4. ASSUME NEW m \in calls, HeartBeatReturned(m)
      PROVE  \E i \in Server : \A k \in Server \ {i} : applied'[k] = applied[k]
  <2>1. UNCHANGED applied \/ \E l, c : Deliver(m.src, l, c)
    BY <1>4, Zenon DEF HeartBeatReturned, logVars
  <2>2. m.src \in Server
    BY CallKinds DEF TypeInv
  <2> QED BY <1>2, <2>1, <2>2
<1> QED BY <1>1, <1>3, <1>4, CommitWriters

\* The inductive invariant of the refinement.
OrderInv == CommitInv /\ LogsBounded

LEMMA OrderInvInit == Init => OrderInv
<1> SUFFICES ASSUME Init PROVE OrderInv
  OBVIOUS
<1>1. Links = {}
  BY DEF Init, Links, LogLinks
<1> QED BY <1>1, CommitInvInit DEF OrderInv, LogsBounded

LEMMA OrderInvStep ==
    ASSUME CommitAssumption, OrderInv, [TimelyNext]_vars
    PROVE  OrderInv'
BY CommitInvStep, LogsBoundedStep, TimelyIsRaft DEF OrderInv, CommitInv, AscendInv

\* applymsg gives the peer what its log has next, which is what any other
\* peer was given at the same place.
LEMMA OrderStep ==
    ASSUME CommitAssumption, OrderInv, TimelyNext, OrderInv'
    PROVE  Log!Next \/ UNCHANGED applied
<1>1. /\ TypeInv /\ TypeInv' /\ Advances /\ Commits
      /\ LogsBounded' /\ StateMachineSafety'
  <2>1. StateMachineSafety'
    BY CommitInvSafe, PTL DEF OrderInv
  <2> QED BY <2>1 DEF OrderInv, CommitInv, AscendInv, CommitAssumption, TimelyElections,
                      Advances, Commits
<1>2. PICK i \in Server : \A k \in Server \ {i} : applied'[k] = applied[k]
  BY <1>1, OneApplies
<1>3. /\ applied \in [Server -> Seq(Entry)] /\ applied' \in [Server -> Seq(Entry)]
      /\ log'[i] \in Seq(Entry) /\ MaxLog \in Nat
  BY <1>1, BoundAssumption DEF TypeInv, TypeOK
<1>4. Heads(applied[i], applied'[i]) /\ Heads(applied'[i], log'[i])
  BY <1>1, AppliedStep
<1>5. Len(log'[i]) <= MaxLog
  <2>1. LogsShort'
    BY <1>1, LogsAreShort, PTL
  <2> QED BY <2>1 DEF LogsShort
<1>6. PICK s \in Seq(Entry), t \in Seq(Entry) : s = applied[i] /\ t = applied'[i]
  BY <1>3
<1> DEFINE items == SubSeq(t, Len(s) + 1, Len(t))
<1>7. /\ Len(s) \in Nat /\ Len(t) \in Nat /\ Len(s) <= Len(t)
      /\ \A k \in 1..Len(s) : t[k] = s[k]
      /\ Len(t) <= MaxLog
  <2>1. Len(log'[i]) \in Nat
    BY <1>3
  <2> QED BY <1>3, <1>4, <1>5, <1>6, <2>1 DEF Heads
<1>8. items \in Seq(Entry) /\ Len(items) = Len(t) - Len(s)
  BY <1>7
<1>9. t = s \o items
  <2>1. \A k \in (Len(s) + 1)..Len(t) : items[k - Len(s)] = t[k]
    BY <1>7
  <2> HIDE DEF items
  <2>2. s \o items \in Seq(Entry) /\ Len(s \o items) = Len(t)
    BY <1>7, <1>8
  <2>3. ASSUME NEW k \in 1..Len(t)
        PROVE  (s \o items)[k] = t[k]
    <3>1. CASE k <= Len(s)
      BY <1>7, <1>8, <3>1
    <3>2. CASE k > Len(s)
      <4>1. (s \o items)[k] = items[k - Len(s)] /\ k \in (Len(s) + 1)..Len(t)
        BY <1>7, <1>8, <3>2
      <4> QED BY <2>1, <4>1
    <3>3. k <= Len(s) \/ k > Len(s)
      BY <1>7
    <3> QED BY <3>1, <3>2, <3>3, Zenon
  <2> DEFINE u == s \o items
  <2>4. /\ u \in Seq(Entry) /\ Len(t) = Len(u)
        /\ \A k \in 1..Len(t) : t[k] = u[k]
    BY <2>2, <2>3
  <2> HIDE DEF u
  <2>5. t = u
    BY <2>4, SeqEqual
  <2> QED BY <2>5 DEF u
<1>10. items \in Log!BoundedSeq(Entry, MaxLog)
  <2> HIDE DEF items
  <2>1. Len(items) \in 0..MaxLog
    BY <1>3, <1>7, <1>8
  <2>2. items \in [1..Len(items) -> Entry]
    BY <1>8
  <2> QED BY <2>1, <2>2 DEF Log!BoundedSeq, Log!SeqOf
<1>11. applied' = [applied EXCEPT ![i] = @ \o items]
  <2> HIDE DEF items
  <2>1. applied'[i] = applied[i] \o items
    BY <1>6, <1>9
  <2> QED BY <1>2, <1>3, <2>1
<1>12. ASSUME NEW n \in Server
       PROVE  Log!Agree(applied'[i], applied[n])
  <2>1. CASE n = i
    <3>1. Log!IsPrefix(applied[n], applied'[i])
      BY <1>3, <1>4, <2>1, HeadIsPrefix
    <3> QED BY <3>1 DEF Log!Agree
  <2>2. CASE n # i
    <3>1. PICK a \in Seq(Entry) : a = applied[n] /\ a = applied'[n]
      BY <1>2, <1>3, <2>2
    <3>2. \A k \in 1..Len(t) : k <= Len(a) => t[k] = a[k]
      BY <1>1, <1>6, <3>1 DEF StateMachineSafety
    <3>3. Heads(t, a) \/ Heads(a, t)
      BY <3>2 DEF Heads
    <3>4. Log!IsPrefix(t, a) \/ Log!IsPrefix(a, t)
      BY <3>3, HeadIsPrefix
    <3> QED BY <1>6, <3>1, <3>4 DEF Log!Agree
  <2> QED BY <2>1, <2>2
<1> HIDE DEF items
<1> QED BY <1>10, <1>11, <1>12 DEF Log!Next, Log!Deliver

\* The peers of a timely group of up to four (OnTime, Settled and Fresh) apply
\* one log: module AgreedOrder is what a group of Raft peers promises, and
\* every step of sendHeartBeat and AppendEntries that applies commands is one
\* of its steps.
THEOREM OneLogApplied == CommitAssumption => (TimelySpec => AppliesOneLog)
<1> SUFFICES ASSUME CommitAssumption PROVE TimelySpec => AppliesOneLog
  OBVIOUS
<1>1. Init => Log!Init
  BY DEF Init, Log!Init
<1>2. Init => OrderInv
  BY OrderInvInit
<1>3. OrderInv /\ [TimelyNext]_vars => OrderInv'
  BY OrderInvStep
<1>4. OrderInv /\ OrderInv' /\ [TimelyNext]_vars => [Log!Next]_applied
  <2> SUFFICES ASSUME OrderInv, OrderInv', [TimelyNext]_vars
               PROVE  Log!Next \/ UNCHANGED applied
    OBVIOUS
  <2>1. CASE TimelyNext
    BY <2>1, OrderStep
  <2>2. CASE UNCHANGED vars
    BY <2>2 DEF vars, logVars
  <2> QED BY <2>1, <2>2
<1> QED BY <1>1, <1>2, <1>3, <1>4, PTL DEF TimelySpec, AppliesOneLog, Log!Spec

-----------------------------------------------------------------------------
(***************************************************************************)
(* Which index can be out of range.                                        *)
(***************************************************************************)
\* A leader's nextIndex for another peer never points further than just past
\* the end of its log.
NextInLog ==
    \A i, j \in Server :
        Leads(i) /\ j # i => nextIndex[i][j] <= Len(log[i]) + 1

\* What a reply does to a leader's nextIndex for another peer.
NextAnswered(i, j) ==
    /\ UNCHANGED log
    /\ \/ nextIndex'[i][j] = Len(log[i]) + 1
       \/ nextIndex'[i][j] = nextIndex[i][j] - 1

LEMMA NextStep ==
    ASSUME TypeInv, TimelyNext, NEW i \in Server, NEW j \in Server, j # i, Leads(i)
    PROVE  nextIndex'[i][j] = nextIndex[i][j] \/ NextAnswered(i, j)
<1>1. /\ nextIndex \in [Server -> [Server -> Int]]
      /\ winning[i] = 0
  BY DEF TypeInv, TypeOK, Leads
<1>2. ASSUME NEW k \in Server, NEW late \in Late, TurnLeader(k, late)
      PROVE  nextIndex'[i][j] = nextIndex[i][j]
  <2>1. nextIndex' = [nextIndex EXCEPT ![k] = InitialNextIndex(log[k])] /\ winning[k] > 0
    BY <1>2 DEF TurnLeader
  <2> QED BY <1>1, <2>1
<1>3. ASSUME NEW k \in Server, NEW v \in Value, Start(k, v)
      PROVE  nextIndex'[i][j] = nextIndex[i][j]
  <2>1. \E n : nextIndex' = [nextIndex EXCEPT ![k][k] = n]
    BY <1>3, Zenon DEF Start
  <2> QED BY <1>1, <2>1
<1>4. ASSUME NEW m \in calls, HeartBeatReturned(m)
      PROVE  nextIndex'[i][j] = nextIndex[i][j] \/ NextAnswered(i, j)
  <2>1. m.src \in Server /\ m.dst \in Server
    BY CallKinds DEF TypeInv
  <2>2. \/ nextIndex' = nextIndex
        \/ /\ \/ nextIndex' = [nextIndex EXCEPT ![m.src][m.dst] = Len(log[m.src]) + 1]
              \/ nextIndex' = [nextIndex EXCEPT ![m.src][m.dst] = @ - 1]
           /\ UNCHANGED log
    BY <1>4, Zenon DEF HeartBeatReturned, leaderVars, logVars
  <2>3. CASE nextIndex' = nextIndex
    BY <2>3
  <2>4. ASSUME NEW n, nextIndex' = [nextIndex EXCEPT ![m.src][m.dst] = n]
        PROVE  nextIndex'[i][j] = IF m.src = i /\ m.dst = j THEN n ELSE nextIndex[i][j]
    <3>1. CASE m.src # i
      BY <1>1, <2>4, <3>1
    <3>2. CASE m.src = i
      <4>1. nextIndex'[i] = [nextIndex[i] EXCEPT ![m.dst] = n] /\ nextIndex[i] \in [Server -> Int]
        BY <1>1, <2>4, <3>2
      <4> QED BY <3>2, <4>1
    <3> QED BY <3>1, <3>2
  <2>5. CASE nextIndex' = [nextIndex EXCEPT ![m.src][m.dst] = Len(log[m.src]) + 1] /\ UNCHANGED log
    BY <2>4, <2>5 DEF NextAnswered
  <2>6. CASE nextIndex' = [nextIndex EXCEPT ![m.src][m.dst] = @ - 1] /\ UNCHANGED log
    <3>1. nextIndex' = [nextIndex EXCEPT ![m.src][m.dst] = nextIndex[m.src][m.dst] - 1]
      BY <2>6
    <3> QED BY <2>4, <2>6, <3>1 DEF NextAnswered
  <2> QED BY <2>2, <2>3, <2>5, <2>6
<1>5. ASSUME UNCHANGED leaderVars
      PROVE  nextIndex'[i][j] = nextIndex[i][j]
  BY <1>5 DEF leaderVars
<1>6. ASSUME NEW k \in Server,
             \/ ElectionTimeout(k)
             \/ StartElection(k)
             \/ \E d \in Server, id \in CallId : SendHeartBeat(k, d, id)
      PROVE  UNCHANGED leaderVars
  BY <1>6, Zenon DEF ElectionTimeout, StartElection, SendHeartBeat
<1>7. ASSUME NEW m \in calls,
             \/ RequestVote(m)
             \/ \E late \in Late : VoteReturned(m, late)
             \/ AppendEntries(m)
             \/ Lose(m)
      PROVE  UNCHANGED leaderVars
  BY <1>7, Zenon DEF RequestVote, VoteReturned, AppendEntries, Lose
<1> QED BY <1>2, <1>3, <1>4, <1>5, <1>6, <1>7 DEF TimelyNext

LEMMA NextInLogStep ==
    ASSUME Advances, NextInLog
    PROVE  NextInLog'
<1>1. SUFFICES ASSUME NEW i \in Server, NEW j \in Server, Leads(i)', j # i
               PROVE  nextIndex'[i][j] <= Len(log'[i]) + 1
  BY DEF NextInLog, Leads
<1>2. /\ Next /\ TypeInv /\ ElectionInv /\ TimelyNext /\ TimelyElections
      /\ log[i] \in Seq(Entry) /\ log'[i] \in Seq(Entry)
      /\ Len(log[i]) \in Nat /\ Len(log'[i]) \in Nat
      /\ nextIndex[i][j] \in Int
  <2>1. log[i] \in Seq(Entry) /\ log'[i] \in Seq(Entry)
    BY AdvanceTypes
  <2>2. TypeInv /\ nextIndex[i][j] \in Int
    BY AdvanceTypes DEF TypeInv, TypeOK
  <2> QED BY <2>1, <2>2, AdvanceTypes DEF Advances
<1>3. CASE ~Leads(i)
  <2>1. nextIndex'[i] = InitialNextIndex(log[i]) /\ log' = log
    BY <1>1, <1>2, <1>3, LeadsStep DEF BeginsToLead
  <2>2. nextIndex'[i][j] = Len(log[i]) + 1
    BY <2>1 DEF InitialNextIndex
  <2> QED BY <1>2, <2>1, <2>2
<1>4. CASE Leads(i)
  <2>1. nextIndex[i][j] <= Len(log[i]) + 1
    BY <1>1, <1>4 DEF NextInLog
  <2>2. Len(log'[i]) >= Len(log[i])
    BY <1>1, <1>2, <1>4, AppendOnlyStep DEF Leads
  <2>3. CASE nextIndex'[i][j] = nextIndex[i][j]
    BY <1>2, <2>1, <2>2, <2>3
  <2>4. CASE NextAnswered(i, j)
    <3>1. log'[i] = log[i]
      BY <2>4 DEF NextAnswered
    <3> QED BY <1>2, <2>1, <2>4, <3>1 DEF NextAnswered
  <2> QED BY <1>1, <1>2, <1>4, <2>3, <2>4, NextStep
<1> QED BY <1>3, <1>4

\* TurnLeader, Start and the rest of sendHeartBeat, which write nextIndex, do
\* not run on a peer whose process has panicked.
LEMMA PanickedStays ==
    ASSUME TypeInv, TimelyNext, NEW i \in Server, dead[i] = "panic"
    PROVE  nextIndex'[i] = nextIndex[i]
<1>1. nextIndex \in [Server -> [Server -> Int]]
  BY DEF TypeInv, TypeOK
<1>2. ASSUME NEW k \in Server, NEW late \in Late, TurnLeader(k, late)
      PROVE  nextIndex'[i] = nextIndex[i]
  <2>1. nextIndex' = [nextIndex EXCEPT ![k] = InitialNextIndex(log[k])] /\ dead[k] # "panic"
    BY <1>2 DEF TurnLeader
  <2> QED BY <1>1, <2>1
<1>3. ASSUME NEW k \in Server, NEW v \in Value, Start(k, v)
      PROVE  nextIndex'[i] = nextIndex[i]
  <2>1. dead[k] # "panic" /\ \E n : nextIndex' = [nextIndex EXCEPT ![k][k] = n]
    BY <1>3, Zenon DEF Start
  <2> QED BY <1>1, <2>1
<1>4. ASSUME NEW m \in calls, HeartBeatReturned(m)
      PROVE  nextIndex'[i] = nextIndex[i]
  <2>1. m.src \in Server
    BY CallKinds DEF TypeInv
  <2>2. \/ nextIndex' = nextIndex
        \/ /\ dead[m.src] = "no"
           /\ \E n : nextIndex' = [nextIndex EXCEPT ![m.src][m.dst] = n]
    BY <1>4, Zenon DEF HeartBeatReturned, leaderVars, Running
  <2> QED BY <1>1, <2>1, <2>2
<1>5. ASSUME UNCHANGED leaderVars
      PROVE  nextIndex'[i] = nextIndex[i]
  BY <1>5 DEF leaderVars
<1>6. ASSUME NEW k \in Server,
             \/ ElectionTimeout(k)
             \/ StartElection(k)
             \/ \E d \in Server, id \in CallId : SendHeartBeat(k, d, id)
      PROVE  UNCHANGED leaderVars
  BY <1>6, Zenon DEF ElectionTimeout, StartElection, SendHeartBeat
<1>7. ASSUME NEW m \in calls,
             \/ RequestVote(m)
             \/ \E late \in Late : VoteReturned(m, late)
             \/ AppendEntries(m)
             \/ Lose(m)
      PROVE  UNCHANGED leaderVars
  BY <1>7, Zenon DEF RequestVote, VoteReturned, AppendEntries, Lose
<1> QED BY <1>2, <1>3, <1>4, <1>5, <1>6, <1>7 DEF TimelyNext

\* Which step panics, and on what.
LEMMA PanicStep ==
    ASSUME Advances, Commits, NextInLog, NEW i \in Server
    PROVE  \/ dead'[i] = dead[i]
           \/ UNCHANGED nextIndex /\ \E j \in Server : nextIndex[i][j] < 1
<1>1. /\ TypeInv /\ TimelyNext /\ "Settled" \in Assumed
      /\ AppliedCommitted /\ CommitsCarried
      /\ nextIndex \in [Server -> [Server -> Int]]
      /\ dead \in [Server -> {"no", "killed", "panic"}]
      /\ log \in [Server -> Seq(Entry)]
  BY AdvanceTypes DEF Advances, Commits, TypeInv, TypeOK
<1>2. ASSUME NEW k \in Server, NEW j \in Server, NEW id \in CallId,
             Settled(k), SendHeartBeat(k, j, id)
      PROVE  \/ dead'[i] = dead[i]
             \/ UNCHANGED nextIndex /\ nextIndex[i][j] < 1
  <2>1. k # j /\ Leads(k) /\ UNCHANGED nextIndex
    BY <1>1, <1>2 DEF SendHeartBeat, Settled, Leads, leaderVars
  <2>2. nextIndex[k][j] <= Len(log[k]) + 1 /\ nextIndex[k][j] \in Int /\ Len(log[k]) \in Nat
    BY <1>1, <2>1 DEF NextInLog
  <2>3. CASE nextIndex[k][j] \in 1..(Len(log[k]) + 1)
    BY <1>2, <2>3, Zenon DEF SendHeartBeat
  <2>4. CASE nextIndex[k][j] \notin 1..(Len(log[k]) + 1)
    <3>1. nextIndex[k][j] < 1
      BY <2>2, <2>4
    <3>2. dead' = [dead EXCEPT ![k] = "panic"]
      BY <1>2, <2>4, Zenon DEF SendHeartBeat
    <3> QED BY <1>1, <2>1, <3>1, <3>2
  <2> QED BY <2>3, <2>4
<1>3. ASSUME NEW m \in calls, AppendEntries(m)
      PROVE  UNCHANGED dead
  <2>1. CASE AppendAccepted(m)
    <3>1. Accepts(m) /\ m.dst \in Server
      BY <1>1, <1>3, <2>1, AcceptedAccepts, CallKinds DEF TypeInv
    <3> QED BY <1>1, <3>1, AcceptApplied
  <2>2. CASE AppendRefused(m) \/ AppendMismatch(m)
    BY <2>2, Zenon DEF AppendRefused, AppendMismatch
  <2> QED BY <1>3, <2>1, <2>2 DEF AppendEntries
<1>4. ASSUME NEW k \in Server,
             \/ ElectionTimeout(k)
             \/ StartElection(k)
             \/ \E late \in Late : TurnLeader(k, late)
             \/ \E v \in Value : Start(k, v)
      PROVE  UNCHANGED dead
  BY <1>4, Zenon DEF ElectionTimeout, StartElection, TurnLeader, Start
<1>5. ASSUME NEW m \in calls,
             \/ RequestVote(m)
             \/ \E late \in Late : VoteReturned(m, late)
             \/ HeartBeatReturned(m)
             \/ Lose(m)
      PROVE  UNCHANGED dead
  BY <1>5, Zenon DEF RequestVote, VoteReturned, HeartBeatReturned, Lose
<1> QED BY <1>1, <1>2, <1>3, <1>4, <1>5 DEF TimelyNext

\* The inductive strengthening of PanicsOnlyRefused.
PanicInv == CommitInv /\ NextInLog /\ PanicsOnlyRefused

LEMMA PanicInvInit == Init => PanicInv
<1> SUFFICES ASSUME Init PROVE PanicInv
  OBVIOUS
<1>1. \A i \in Server : ~Leads(i) /\ dead[i] # "panic"
  BY DEF Init, Leads
<1> QED BY <1>1, CommitInvInit DEF PanicInv, NextInLog, PanicsOnlyRefused

LEMMA PanicInvStep ==
    ASSUME CommitAssumption, PanicInv, [TimelyNext]_vars
    PROVE  PanicInv'
<1>1. CommitInv'
  BY CommitInvStep DEF PanicInv
<1>2. CASE TimelyNext
  <2>1. Advances /\ Commits /\ TypeInv
    BY <1>1, <1>2 DEF PanicInv, CommitInv, CommitAssumption, TimelyElections,
                      Advances, Commits, AscendInv
  <2>2. NextInLog'
    BY <2>1, NextInLogStep DEF PanicInv
  <2>3. ASSUME NEW i \in Server, dead'[i] = "panic"
        PROVE  \E j \in Server : nextIndex'[i][j] < 1
    <3>1. CASE dead[i] = "panic"
      <4>1. \E j \in Server : nextIndex[i][j] < 1
        BY <3>1 DEF PanicInv, PanicsOnlyRefused
      <4>2. nextIndex'[i] = nextIndex[i]
        BY <1>2, <2>1, <3>1, PanickedStays
      <4> QED BY <4>1, <4>2
    <3>2. CASE dead[i] # "panic"
      BY <2>1, <2>3, <3>2, PanicStep DEF PanicInv
    <3> QED BY <3>1, <3>2
  <2> QED BY <1>1, <2>2, <2>3 DEF PanicInv, PanicsOnlyRefused
<1>3. CASE UNCHANGED vars
  <2>1. UNCHANGED <<state, log, nextIndex, dead, winning>>
    BY <1>3 DEF vars, peerVars, logVars, leaderVars, electionVars
  <2> QED BY <1>1, <2>1 DEF PanicInv, NextInLog, PanicsOnlyRefused, Leads
<1> QED BY <1>2, <1>3

\* Only one kind of step indexes rf.log out of range: a heartbeat to a peer
\* that has refused more often than the leader has entries, so that nextIndex,
\* which nothing bounds from below, has fallen to 0.  nextIndex never passes
\* the end of the leader's log, and the commit index of a heartbeat is in the
\* log that a follower has when it has accepted, so that the bound one too
\* high in AppendEntries is never reached: in a timely group of up to four, in
\* which the success of an overtaken heartbeat is lost (Fresh).
THEOREM OnlyRefusalsPanic == CommitAssumption => (TimelySpec => []PanicsOnlyRefused)
<1> SUFFICES ASSUME CommitAssumption PROVE TimelySpec => []PanicsOnlyRefused
  OBVIOUS
<1>1. Init => PanicInv
  BY PanicInvInit
<1>2. PanicInv /\ [TimelyNext]_vars => PanicInv'
  BY PanicInvStep
<1>3. PanicInv => PanicsOnlyRefused
  BY DEF PanicInv
<1> QED BY <1>1, <1>2, <1>3, PTL DEF TimelySpec
=============================================================================
