---------------------------- MODULE TesterProofs ----------------------------
(***************************************************************************)
(* No disagreement of peers escapes the readers of the tester, what it     *)
(* reports as committed is, and connect and disconnect keep the net what   *)
(* connected says, for any number of peers, commands, indices and          *)
(* messages.                                                               *)
(***************************************************************************)
EXTENDS Tester, FiniteSetTheorems, TLAPS

\* What a reader holds and what it has recorded: a message while it is "got",
\* and NULL in logs only where nothing has been applied.
ReadersOK ==
    /\ sending \in [Peer -> ApplyMsg \cup {NULL}]
    /\ reader \in [Peer -> [at : {"reading", "got", "bad", "gone"},
                            msg : ApplyMsg \cup {NULL}]]
    /\ \A i \in Peer : reader[i].at = "got" <=> reader[i].msg # NULL
    /\ logs \in [Peer -> [Index -> Command \cup {NULL}]]
    /\ applyErr \in [Peer -> BOOLEAN]

NetInv == connected \subseteq Peer /\ Partitioned

\* The test thread is within the group, and has found something exactly when
\* it has counted something.
TestShape ==
    test = [at |-> test.at, what |-> test.what, cmd |-> test.cmd,
            expected |-> test.expected, starts |-> test.starts, asked |-> test.asked,
            index |-> test.index, peer |-> test.peer, count |-> test.count,
            seen |-> test.seen, last |-> test.last, impatient |-> test.impatient,
            over |-> test.over]
TestFields ==
    /\ test.starts \in Peer /\ test.asked \in 0..n /\ test.peer \in 0..n
    /\ test.seen \in Command \cup {NULL}
TestCount ==
    /\ test.count \in 0..test.peer
    /\ test.count > 0 <=> test.seen # NULL
TestStage ==
    /\ test.at \in {"count", "states"} => test.peer < n
    /\ test.at \in {"check", "count", "states", "returned"} => test.index \in Index
    /\ test.at \notin {"check", "count"} => test.seen = NULL
    /\ test.at = "returned" => test.cmd \in Command
TestExpects ==
    /\ test.expected \in 0..n
    /\ test.at \in {"ask", "check", "count", "states"} => test.expected > 0
TestOK == TestShape /\ TestFields /\ TestCount /\ TestStage /\ TestExpects

\* What is counted so far is held by as many peers, of those looked at, and
\* still so when the call returns.
Holding(k, v) == {i \in Peer : logs[i][k] = v}
Counted == {i \in Holding(test.index, test.seen) : i < test.peer}
CountInv ==
    \/ Noticed
    \/ /\ test.count > 0 => Cardinality(Counted) >= test.count
       /\ Is("returned") => Cardinality(Holding(test.index, test.cmd)) >= test.expected

\* To what is counted, a step of the test thread is one of four.
Restarts == test'.count = 0 /\ test'.at # "returned"
KeepsCount ==
    /\ test'.count = test.count /\ test'.index = test.index /\ test'.seen = test.seen
    /\ test'.peer >= test.peer /\ test'.at # "returned"
CountsOne ==
    LET v == logs[test.peer][test.index]
    IN  /\ test.peer \in Peer /\ test.index \in Index /\ v # NULL
        /\ test.count > 0 => test.seen = v
        /\ test'.count = test.count + 1 /\ test'.index = test.index
        /\ test'.seen = v /\ test'.peer = test.peer + 1 /\ test'.at # "returned"
ReturnsFound ==
    /\ test'.count = 0 /\ test'.at = "returned"
    /\ test'.cmd = test.seen /\ test'.index = test.index
    /\ test'.expected = test.expected
    /\ test.count > 0 /\ test.count >= test.expected

\* The steps of others than the readers.
Elsewhere ==
    /\ UNCHANGED readers
    /\ \/ UNCHANGED sending
       \/ \E i \in Peer, msg \in ApplyMsg : Apply(i, msg)

NetStep ==
    \/ UNCHANGED net
    \/ \E i \in Peer : Connect(i) \/ Disconnect(i)

-----------------------------------------------------------------------------
\* Every step is one of a reader, or does not touch what the readers keep.
LEMMA WhoseStep ==
    ASSUME [Next]_vars
    PROVE  Elsewhere \/ \E i \in Peer : Read(i)
<1>1. CASE UNCHANGED vars
  BY <1>1 DEF vars, Elsewhere
<1>2. ASSUME NEW i \in Peer, NEW msg \in ApplyMsg, Apply(i, msg)
      PROVE  Elsewhere
  BY <1>2 DEF Apply, Elsewhere
<1>3. ASSUME NEW i \in Peer, Connect(i) \/ Disconnect(i)
      PROVE  Elsewhere
  BY <1>3 DEF Connect, Disconnect, Elsewhere
<1>4. ASSUME NEW expected, NEW c, One(c, expected) \/ Wait(c, expected)
      PROVE  Elsewhere
  BY <1>4 DEF One, Wait, Elsewhere
<1>5. CASE TestThread
  BY <1>5 DEF TestThread, Ask, NoLeader, CheckErr, Count, OneCounted,
              WaitCounted, GetState, Elsewhere
<1>6. CASE Impatient \/ Over
  BY <1>6 DEF Impatient, Over, Elsewhere
<1> QED
  BY <1>1, <1>2, <1>3, <1>4, <1>5, <1>6 DEF Next

\* What the readers keep is of its type in every reachable state.
LEMMA ReadersCorrect == Spec => []ReadersOK
<1>1. Init => ReadersOK
  BY DEF Init, ReadersOK, Reading
<1>2. ReadersOK /\ [Next]_vars => ReadersOK'
  <2> SUFFICES ASSUME ReadersOK, [Next]_vars PROVE ReadersOK'
    OBVIOUS
  <2>1. CASE Elsewhere
    BY <2>1 DEF Elsewhere, ReadersOK, readers, Apply
  <2>2. ASSUME NEW i \in Peer, Receive(i) PROVE ReadersOK'
    <3>1. sending[i] \in ApplyMsg /\ sending[i] # NULL
      BY <2>2 DEF Receive, Free, ReadersOK
    <3>2. UNCHANGED <<logs, applyErr>>
      BY <2>2 DEF Receive
    <3>3. /\ sending' = [sending EXCEPT ![i] = NULL]
          /\ reader' = [reader EXCEPT ![i] = [at |-> "got", msg |-> sending[i]]]
      BY <2>2 DEF Receive
    <3> QED
      BY <3>1, <3>2, <3>3 DEF ReadersOK
  <2>3. ASSUME NEW i \in Peer, Record(i) PROVE ReadersOK'
    <3> DEFINE msg == reader[i].msg
    <3>1. msg.index \in Index /\ msg.command \in Command
      BY <2>3 DEF Record, ReadersOK, ApplyMsg
    <3>2. logs' \in [Peer -> [Index -> Command \cup {NULL}]]
      BY <2>3, <3>1 DEF Record, ReadersOK
    <3> DEFINE next(bad) == [at |-> IF bad THEN "bad" ELSE "reading", msg |-> NULL]
    <3>3. PICK bad \in BOOLEAN : reader' = [reader EXCEPT ![i] = next(bad)]
      <4>1. PICK bad \in BOOLEAN : reader' = [reader EXCEPT ![i] = NextMessage(bad)]
        BY <2>3 DEF Record, Conflicts, OutOfOrder
      <4>2. NextMessage(bad) = next(bad)
        BY DEF NextMessage, Reading
      <4> QED BY <4>1, <4>2
    <3>4. UNCHANGED <<sending, applyErr>>
      BY <2>3 DEF Record
    <3> QED
      BY <3>2, <3>3, <3>4 DEF ReadersOK
  <2>4. ASSUME NEW i \in Peer, Complain(i) PROVE ReadersOK'
    <3>1. reader[i].msg = NULL
      BY <2>4 DEF Complain, ReadersOK
    <3>2. reader' = [reader EXCEPT ![i] = [at |-> "gone", msg |-> NULL]]
      <4>1. reader' = [reader EXCEPT ![i] = [reader[i] EXCEPT !.at = "gone"]]
        BY <2>4 DEF Complain
      <4>2. reader[i] \in [at : {"reading", "got", "bad", "gone"},
                           msg : ApplyMsg \cup {NULL}]
        BY DEF ReadersOK
      <4>3. [reader[i] EXCEPT !.at = "gone"] = [at |-> "gone", msg |-> NULL]
        BY <3>1, <4>2
      <4> QED BY <4>1, <4>3
    <3>3. /\ applyErr' \in [Peer -> BOOLEAN]
          /\ UNCHANGED <<sending, logs>>
      BY <2>4 DEF Complain, ReadersOK
    <3> QED
      BY <3>2, <3>3 DEF ReadersOK
  <2> QED
    BY <2>1, <2>2, <2>3, <2>4, WhoseStep DEF Read
<1> QED
  BY <1>1, <1>2, PTL DEF Spec

-----------------------------------------------------------------------------
\* An error that has been found is passed on to the test thread and never lost.
LEMMA NoticedForGood ==
    ASSUME ReadersOK, [Next]_vars, Noticed
    PROVE  Noticed'
<1>1. CASE Elsewhere
  BY <1>1 DEF Elsewhere, readers, Noticed
<1>2. ASSUME NEW i \in Peer, Receive(i) \/ Record(i) PROVE Noticed'
  BY <1>2 DEF Receive, Record, Noticed, ReadersOK
<1>3. ASSUME NEW i \in Peer, Complain(i) PROVE Noticed'
  BY <1>3 DEF Complain, Noticed, ReadersOK
<1> QED
  BY <1>1, <1>2, <1>3, WhoseStep DEF Read

\* What a reader records agrees with what all have recorded, or it is bad.
LEMMA RecordedOrBad ==
    ASSUME ReadersOK, DisagreementNoticed, NEW i \in Peer, Record(i), ~Noticed'
    PROVE  DisagreementNoticed'
<1> DEFINE k == reader[i].msg.index
           v == reader[i].msg.command
<1>1. k \in Index /\ v \in Command /\ v # NULL
  BY NullAssumption DEF Record, ReadersOK, ApplyMsg
<1>2. logs' = [logs EXCEPT ![i][k] = v] /\ UNCHANGED applyErr
  BY DEF Record
<1>3. ~Conflicts(i, k, v) /\ ~OutOfOrder(i, k)
  <2>1. SUFFICES ASSUME Conflicts(i, k, v) \/ OutOfOrder(i, k) PROVE FALSE
    OBVIOUS
  <2>2. reader'[i].at = "bad"
    BY <2>1 DEF Record, NextMessage, Reading, ReadersOK
  <2> QED
    BY <2>2 DEF Noticed
<1>4. ~Noticed
  <2>1. \A j \in Peer : reader[j].at = "bad" => reader'[j].at = "bad"
    BY DEF Record, ReadersOK
  <2> QED
    BY <2>1, <1>2 DEF Noticed
<1>5. \A j, l \in Peer, m \in Index :
         /\ logs[j][m] = logs[l][m] \/ NULL \in {logs[j][m], logs[l][m]}
         /\ m > 1 /\ logs[j][m] # NULL => logs[j][m - 1] # NULL
  BY <1>4 DEF DisagreementNoticed
<1>6. \A j \in Peer, m \in Index :
         logs'[j][m] = IF j = i /\ m = k THEN v ELSE logs[j][m]
  BY <1>1, <1>2 DEF ReadersOK
<1>7. \A j, l \in Peer, m \in Index :
         logs'[j][m] = logs'[l][m] \/ NULL \in {logs'[j][m], logs'[l][m]}
  BY <1>3, <1>5, <1>6 DEF Conflicts
<1>8. ASSUME NEW j \in Peer, NEW m \in Index, m > 1, logs'[j][m] # NULL
      PROVE  logs'[j][m - 1] # NULL
  <2>1. m - 1 \in Index
    BY <1>8, SizeAssumption DEF Index
  <2>2. logs[j][m - 1] # NULL
    BY <1>3, <1>5, <1>6, <1>8 DEF OutOfOrder
  <2> QED
    BY <1>1, <1>6, <2>1, <2>2
<1> QED
  BY <1>7, <1>8 DEF DisagreementNoticed

\* However many readers run at once: where two peers have applied different
\* commands at an index, or one has left an index out (start1 of config.go),
\* an error has been or is being left for the test thread.
THEOREM DisagreementAlwaysNoticed == Spec => []DisagreementNoticed
<1>1. Init => DisagreementNoticed
  BY DEF Init, DisagreementNoticed
<1>2. ReadersOK /\ DisagreementNoticed /\ [Next]_vars => DisagreementNoticed'
  <2> SUFFICES ASSUME ReadersOK, DisagreementNoticed, [Next]_vars
               PROVE  DisagreementNoticed'
    OBVIOUS
  <2>1. CASE Noticed'
    BY <2>1 DEF DisagreementNoticed
  <2>2. CASE ~Noticed'
    <3>1. ~Noticed
      BY <2>2, NoticedForGood
    <3>2. CASE UNCHANGED logs
      BY <3>1, <3>2 DEF DisagreementNoticed
    <3>3. ASSUME NEW i \in Peer, Record(i) PROVE DisagreementNoticed'
      BY <2>2, <3>3, RecordedOrBad
    <3> QED
      BY <3>2, <3>3, WhoseStep DEF Elsewhere, readers, Read, Receive, Complain
  <2> QED
    BY <2>1, <2>2
<1> QED
  BY <1>1, <1>2, ReadersCorrect, PTL DEF Spec

-----------------------------------------------------------------------------
LEMMA NetCorrect == Spec => []NetInv
<1>1. Init => NetInv
  BY DEF Init, NetInv, Partitioned
<1>2. NetInv /\ [Next]_vars => NetInv'
  <2> SUFFICES ASSUME NetInv, [Next]_vars PROVE NetInv'
    OBVIOUS
  <2>1. NetStep
    <3>1. CASE UNCHANGED vars
      BY <3>1 DEF vars, NetStep
    <3>2. ASSUME NEW i \in Peer, NEW msg \in ApplyMsg, Apply(i, msg)
          PROVE  NetStep
      BY <3>2 DEF Apply, NetStep
    <3>3. ASSUME NEW i \in Peer, Read(i)
          PROVE  NetStep
      BY <3>3 DEF Read, Receive, Record, Complain, NetStep
    <3>4. ASSUME NEW expected, NEW c, One(c, expected) \/ Wait(c, expected)
          PROVE  NetStep
      BY <3>4 DEF One, Wait, NetStep
    <3>5. CASE TestThread
      BY <3>5 DEF TestThread, Ask, NoLeader, CheckErr, Count, OneCounted,
                  WaitCounted, GetState, NetStep
    <3>6. CASE Impatient \/ Over
      BY <3>6 DEF Impatient, Over, NetStep
    <3> QED
      BY <3>1, <3>2, <3>3, <3>4, <3>5, <3>6 DEF Next, NetStep
  <2>2. CASE UNCHANGED net
    BY <2>2 DEF net, NetInv, Partitioned
  <2>3. ASSUME NEW i \in Peer, Connect(i) PROVE NetInv'
    BY <2>3 DEF Connect, EndsBetween, NetInv, Partitioned
  <2>4. ASSUME NEW i \in Peer, Disconnect(i) PROVE NetInv'
    BY <2>4 DEF Disconnect, AllEnds, NetInv, Partitioned
  <2> QED
    BY <2>1, <2>2, <2>3, <2>4 DEF NetStep
<1> QED
  BY <1>1, <1>2, PTL DEF Spec

\* Whatever the order of connect and disconnect (config.go), the enabled ends
\* are those between two peers that are on the net.
THEOREM PartitionedAlways == Spec => []Partitioned
BY NetCorrect, PTL DEF NetInv

-----------------------------------------------------------------------------
\* What the test thread turns to keeps its fields in order.
LEMMA GroupNotEmpty == Peer \subseteq Nat /\ 0 \in Peer /\ n \in Nat /\ n > 0
BY SizeAssumption DEF Peer

\* The call that was running is over.
\* Nothing has been counted: the call is over, or goes round once more.
LEMMA NothingCounted ==
    ASSUME TestShape', test'.count = 0, test'.seen = NULL, test'.at # "returned",
           test'.starts \in Peer, test'.asked \in 0..n,
           test'.at = "states" => test'.peer \in Peer, test'.at # "count",
           test'.peer \in 0..n, test'.expected \in 0..n,
           test'.at \in {"ask", "check", "states"} => test'.expected > 0,
           test'.at \in {"check", "states"} => test'.index \in Index
    PROVE  TestOK' /\ Restarts
<1>1. TestFields'
  BY DEF TestFields
<1>2. TestCount'
  <2>1. test'.peer \in Nat
    BY GroupNotEmpty
  <2> QED BY <2>1 DEF TestCount
<1>3. TestStage'
  BY GroupNotEmpty DEF TestStage, Peer
<1>4. TestExpects'
  BY DEF TestExpects
<1> QED BY <1>1, <1>2, <1>3, <1>4 DEF TestOK, Restarts

LEMMA RestingOK ==
    ASSUME test' \in {Failed, MovedOn}
    PROVE  TestOK' /\ Restarts
<1>1. /\ TestShape' /\ test'.at \in {"failed", "moved on"}
      /\ test'.count = 0 /\ test'.seen = NULL /\ test'.starts = 0
      /\ test'.asked = 0 /\ test'.peer = 0 /\ test'.expected = 0
  BY DEF Failed, MovedOn, Resting, TestShape
<1>2. 0 \in Peer /\ 0 \in 0..n
  BY GroupNotEmpty
<1> QED BY <1>1, <1>2, NothingCounted

LEMMA LookOK ==
    ASSUME TestOK, test.at \in {"check", "states"},
           \/ test' = Look(test)
           \/ test' = [Look(test) EXCEPT !.at = "states"]
           \/ test' = [Look(test) EXCEPT !.last = TRUE, !.impatient = FALSE]
    PROVE  TestOK' /\ Restarts
<1>1. /\ TestShape' /\ test'.at \in {"check", "states"}
      /\ test'.count = 0 /\ test'.seen = NULL /\ test'.starts = test.starts
      /\ test'.asked = test.asked /\ test'.peer = 0
      /\ test'.expected = test.expected /\ test'.index = test.index
  BY DEF Look, TestShape, TestOK
<1>2. 0 \in Peer /\ 0 \in 0..n
  BY GroupNotEmpty
<1>3. test'.starts \in Peer /\ test'.asked \in 0..n
  BY <1>1 DEF TestOK, TestFields
<1>4. test'.expected \in 0..n /\ test'.expected > 0 /\ test'.index \in Index
  BY <1>1 DEF TestOK, TestExpects, TestStage
<1> QED BY <1>1, <1>2, <1>3, <1>4, NothingCounted

LEMMA AgainOK ==
    ASSUME TestOK, test.at \in {"ask", "check"}, test' = Again
    PROVE  TestOK' /\ Restarts
<1>1. CASE test.over
  BY <1>1, RestingOK DEF Again
<1>2. CASE ~test.over
  <2>1. /\ TestShape' /\ test'.at = "ask"
        /\ test'.count = 0 /\ test'.seen = NULL /\ test'.starts = test.starts
        /\ test'.asked = 0 /\ test'.peer = 0 /\ test'.expected = test.expected
    BY <1>2 DEF Again, TestShape, TestOK
  <2>2. 0 \in Peer /\ 0 \in 0..n
    BY GroupNotEmpty
  <2>3. test'.starts \in Peer /\ test'.expected \in 0..n /\ test'.expected > 0
    BY <2>1 DEF TestOK, TestFields, TestExpects
  <2> QED BY <2>1, <2>2, <2>3, NothingCounted
<1> QED BY <1>1, <1>2

LEMMA OneOK ==
    ASSUME TestOK, NEW cmd, NEW expected \in 1..n, One(cmd, expected)
    PROVE  TestOK' /\ Restarts
<1>1. test.at = "rest" /\ test.seen = NULL /\ test.count = 0
  BY DEF One, Is, TestOK, TestStage, TestCount, TestFields
<1>2. /\ TestShape' /\ test'.at = "ask"
      /\ test'.count = test.count /\ test'.seen = test.seen
      /\ test'.starts = test.starts /\ test'.asked = test.asked
      /\ test'.peer = test.peer /\ test'.expected = expected
  BY DEF One, TestOK, TestShape
<1>3. test'.starts \in Peer /\ test'.asked \in 0..n /\ test'.peer \in 0..n
  BY <1>2 DEF TestOK, TestFields
<1>4. test'.expected \in 0..n /\ test'.expected > 0
  BY <1>2, GroupNotEmpty
<1> QED BY <1>1, <1>2, <1>3, <1>4, NothingCounted

LEMMA WaitOK ==
    ASSUME TestOK, NEW index \in Index, NEW expected \in 1..n, Wait(index, expected)
    PROVE  TestOK' /\ Restarts
<1>1. /\ TestShape' /\ test'.at = "check" /\ test'.count = 0 /\ test'.seen = NULL
      /\ test'.starts = test.starts /\ test'.asked = test.asked
      /\ test'.peer = 0 /\ test'.expected = expected /\ test'.index = index
  BY DEF Wait, Look, TestOK, TestShape
<1>2. test'.starts \in Peer /\ test'.asked \in 0..n
  BY <1>1 DEF TestOK, TestFields
<1>3. test'.expected \in 0..n /\ test'.expected > 0 /\ 0 \in 0..n
  BY <1>1, GroupNotEmpty
<1> QED BY <1>1, <1>2, <1>3, NothingCounted

LEMMA AskOK ==
    ASSUME TestOK, Ask
    PROVE  TestOK' /\ Restarts
<1> DEFINE i == (test.starts + 1) % n
           t == [test EXCEPT !.starts = i, !.asked = @ + 1]
<1>1. i \in Peer
  BY GroupNotEmpty DEF TestOK, TestFields, Peer
<1>0. test.at = "ask" /\ test.asked < n
  BY DEF Ask, Is
<1>2. test.at = "ask" /\ test.seen = NULL /\ test.count = 0
  BY <1>0 DEF TestOK, TestStage, TestCount, TestFields
<1>3. test.asked + 1 \in 0..n /\ 0 \in 0..n
  BY <1>0, GroupNotEmpty DEF TestOK, TestFields
<1>4. test.peer \in 0..n /\ test.expected \in 0..n /\ test.expected > 0
  BY <1>2 DEF TestOK, TestFields, TestExpects
<1> HIDE DEF i
<1>5. ASSUME test' = t
      PROVE  TestOK' /\ Restarts
  <2>1. /\ TestShape' /\ test'.at = "ask"
        /\ test'.count = test.count /\ test'.seen = test.seen
        /\ test'.starts = i /\ test'.asked = test.asked + 1
        /\ test'.peer = test.peer /\ test'.expected = test.expected
    BY <1>2, <1>5 DEF TestOK, TestShape
  <2> QED BY <1>1, <1>2, <1>3, <1>4, <2>1, NothingCounted
<1>6. ASSUME NEW k \in Index, test' = [Look(t) EXCEPT !.index = k, !.asked = 0]
      PROVE  TestOK' /\ Restarts
  <2>1. /\ TestShape' /\ test'.at = "check" /\ test'.count = 0 /\ test'.seen = NULL
        /\ test'.starts = i /\ test'.asked = 0 /\ test'.peer = 0
        /\ test'.expected = test.expected /\ test'.index = k
    BY <1>6 DEF TestOK, TestShape, Look
  <2> QED BY <1>1, <1>3, <1>4, <2>1, <1>6, NothingCounted
<1> QED BY <1>5, <1>6 DEF Ask, i


\* The fields that decide over the tally stay, or the peer moves on.
LEMMA KeepsOK ==
    ASSUME TestOK, TestShape', KeepsCount, test'.peer \in 0..n,
           test.at \in {"check", "count", "states"},
           test'.at \in {test.at, "check", "count", "states"},
           test'.at = "states" => test.at = "states",
           test'.at \in {"count", "states"} => test'.peer < n,
           test'.starts = test.starts, test'.asked = test.asked,
           test'.expected = test.expected
    PROVE  TestOK'
<1>1. TestFields'
  BY DEF TestOK, TestFields, KeepsCount
<1>2. TestCount'
  <2>1. test.count \in 0..test.peer /\ test.peer \in Nat
    BY GroupNotEmpty DEF TestOK, TestCount, TestFields
  <2>2. test.count > 0 <=> test.seen # NULL
    BY DEF TestOK, TestCount
  <2> QED BY <2>1, <2>2 DEF TestCount, KeepsCount
<1>3. TestStage'
  BY DEF TestOK, TestStage, KeepsCount
<1>4. TestExpects'
  BY DEF TestOK, TestExpects
<1> QED BY <1>1, <1>2, <1>3, <1>4 DEF TestOK

LEMMA CheckErrOK ==
    ASSUME TestOK, CheckErr
    PROVE  TestOK' /\ (Restarts \/ KeepsCount)
<1>1. CASE test' = Failed
  BY <1>1, RestingOK
<1>2. CASE test' = [test EXCEPT !.at = "count"]
  <2>1. test.at = "check" /\ test.peer < n
    BY DEF CheckErr, Is
  <2>2. /\ TestShape' /\ test'.at = "count"
        /\ test'.count = test.count /\ test'.seen = test.seen
        /\ test'.starts = test.starts /\ test'.asked = test.asked
        /\ test'.peer = test.peer /\ test'.expected = test.expected
        /\ test'.index = test.index
    BY <1>2 DEF TestOK, TestShape
  <2>3. test'.peer \in 0..n /\ test'.peer >= test.peer
    BY <2>2, GroupNotEmpty DEF TestOK, TestFields
  <2>4. KeepsCount
    BY <2>2, <2>3 DEF KeepsCount
  <2> QED BY <2>1, <2>2, <2>3, <2>4, KeepsOK
<1> QED BY <1>1, <1>2 DEF CheckErr

LEMMA CountOK ==
    ASSUME ReadersOK, TestOK, Count
    PROVE  TestOK' /\ (Restarts \/ KeepsCount \/ CountsOne)
<1> DEFINE v == logs[test.peer][test.index]
           t == [test EXCEPT !.at = "check", !.peer = @ + 1]
<1>1. test.at = "count"
  BY DEF Count, Is
<1>2. test.peer \in Peer /\ test.peer + 1 \in 0..n /\ test.index \in Index
  BY <1>1, GroupNotEmpty DEF TestOK, TestFields, TestStage, Peer
<1>3. v \in Command \cup {NULL}
  BY <1>2 DEF ReadersOK
<1>4. CASE test' = Failed
  BY <1>4, RestingOK
<1>5. CASE v = NULL /\ test' = t
  <2>1. /\ TestShape' /\ test'.at = "check"
        /\ test'.count = test.count /\ test'.seen = test.seen
        /\ test'.starts = test.starts /\ test'.asked = test.asked
        /\ test'.peer = test.peer + 1 /\ test'.expected = test.expected
        /\ test'.index = test.index
    BY <1>5 DEF TestOK, TestShape
  <2>2. test'.peer \in 0..n /\ test'.peer >= test.peer
    BY <1>2, <2>1 DEF Peer
  <2>3. KeepsCount
    BY <2>1, <2>2 DEF KeepsCount
  <2> QED BY <1>1, <2>1, <2>2, <2>3, KeepsOK
<1>6. CASE /\ v # NULL /\ ~(test.count > 0 /\ test.seen # v)
           /\ test' = [t EXCEPT !.count = @ + 1, !.seen = v]
  <2> HIDE DEF v
  <2>1. /\ TestShape' /\ test'.at = "check"
        /\ test'.count = test.count + 1 /\ test'.seen = v
        /\ test'.starts = test.starts /\ test'.asked = test.asked
        /\ test'.peer = test.peer + 1 /\ test'.expected = test.expected
        /\ test'.index = test.index
    BY <1>6 DEF TestOK, TestShape
  <2>2. CountsOne
    BY <1>2, <1>6, <2>1 DEF CountsOne, v
  <2>3. TestFields'
    BY <1>2, <1>3, <2>1 DEF TestOK, TestFields
  <2>4. TestCount'
    <3>1. test.count \in 0..test.peer /\ test.peer \in Nat
      BY GroupNotEmpty DEF TestOK, TestCount, TestFields
    <3> QED BY <1>6, <2>1, <3>1 DEF TestCount
  <2>5. TestStage'
    BY <1>2, <2>1 DEF TestStage
  <2>6. TestExpects'
    BY <1>1, <2>1 DEF TestOK, TestExpects
  <2> QED BY <2>1, <2>2, <2>3, <2>4, <2>5, <2>6 DEF TestOK
<1> QED BY <1>4, <1>5, <1>6 DEF Count

LEMMA FoundOK ==
    ASSUME TestOK, test.at = "check", test.peer = n,
           test.count > 0, test.count >= test.expected, test' = Found(test)
    PROVE  TestOK' /\ ReturnsFound
<1>1. /\ TestShape' /\ test'.at = "returned" /\ test'.cmd = test.seen
      /\ test'.index = test.index /\ test'.expected = test.expected
      /\ test'.count = 0 /\ test'.seen = NULL /\ test'.starts = 0
      /\ test'.asked = 0 /\ test'.peer = 0
  BY DEF Found, Resting, TestShape
<1>2. ReturnsFound
  BY <1>1 DEF ReturnsFound
<1>3. TestFields'
  BY <1>1, GroupNotEmpty DEF TestFields
<1>4. TestCount'
  BY <1>1 DEF TestCount
<1>5. TestStage'
  BY <1>1 DEF TestOK, TestStage, TestCount, TestFields
<1>6. TestExpects'
  BY <1>1 DEF TestOK, TestExpects
<1> QED BY <1>1, <1>2, <1>3, <1>4, <1>5, <1>6 DEF TestOK

LEMMA OneCountedOK ==
    ASSUME TestOK, OneCounted
    PROVE  TestOK' /\ (Restarts \/ ReturnsFound)
<1>1. test.at = "check" /\ test.peer = n
  BY DEF OneCounted, Is
<1>2. CASE Enough(test) /\ test' = Found(test)
  BY <1>1, <1>2, FoundOK DEF Enough
<1>3. CASE ~test.impatient /\ test' = Look(test)
  BY <1>1, <1>3, LookOK
<1>4. CASE test' \in {Again, Failed}
  BY <1>1, <1>4, AgainOK, RestingOK
<1> QED BY <1>2, <1>3, <1>4 DEF OneCounted

LEMMA WaitCountedOK ==
    ASSUME TestOK, WaitCounted
    PROVE  TestOK' /\ (Restarts \/ ReturnsFound)
<1>1. test.at = "check" /\ test.peer = n
  BY DEF WaitCounted, Is
<1>2. CASE test.count >= test.expected /\ test' = Found(test)
  <2>1. test.count > 0
    BY <1>1, <1>2, GroupNotEmpty DEF TestOK, TestCount, TestExpects
  <2> QED BY <1>1, <1>2, <2>1, FoundOK
<1>3. CASE test' = Failed
  BY <1>3, RestingOK
<1>4. CASE test' = [Look(test) EXCEPT !.last = TRUE, !.impatient = FALSE]
  BY <1>1, <1>4, LookOK
<1>5. CASE test' \in {Look(test), [Look(test) EXCEPT !.at = "states"]}
  BY <1>1, <1>5, LookOK
<1>6. test.count \in Int /\ test.expected \in Int
  BY <1>1, GroupNotEmpty DEF TestOK, TestCount, TestExpects
<1> QED BY <1>2, <1>3, <1>4, <1>5, <1>6 DEF WaitCounted

LEMMA GetStateOK ==
    ASSUME TestOK, GetState
    PROVE  TestOK' /\ (Restarts \/ KeepsCount)
<1>1. test.at = "states"
  BY DEF GetState, Is
<1>2. CASE test' = MovedOn
  BY <1>2, RestingOK
<1>3. CASE test' = Look(test)
  BY <1>1, <1>3, LookOK
<1>4. CASE test.peer # n - 1 /\ test' = [test EXCEPT !.peer = @ + 1]
  <2>1. /\ TestShape' /\ test'.at = "states"
        /\ test'.count = test.count /\ test'.seen = test.seen
        /\ test'.starts = test.starts /\ test'.asked = test.asked
        /\ test'.peer = test.peer + 1 /\ test'.expected = test.expected
        /\ test'.index = test.index
    BY <1>1, <1>4 DEF TestOK, TestShape
  <2>2. test.peer \in 0..n /\ test.peer < n
    BY <1>1 DEF TestOK, TestFields, TestStage
  <2>3. test'.peer \in 0..n /\ test'.peer < n /\ test'.peer >= test.peer
    BY <1>4, <2>1, <2>2, GroupNotEmpty
  <2>4. KeepsCount
    BY <2>1, <2>3 DEF KeepsCount
  <2> QED BY <1>1, <2>1, <2>3, <2>4, KeepsOK
<1> QED BY <1>2, <1>3, <1>4 DEF GetState

LEMMA TimeOK ==
    ASSUME TestOK, Impatient \/ Over
    PROVE  TestOK' /\ (Restarts \/ KeepsCount)
<1>1. /\ test.at \in {"ask", "check", "count", "states"}
      /\ TestShape' /\ test'.at = test.at
      /\ test'.count = test.count /\ test'.seen = test.seen
      /\ test'.starts = test.starts /\ test'.asked = test.asked
      /\ test'.peer = test.peer /\ test'.expected = test.expected
      /\ test'.index = test.index
  BY DEF Impatient, Over, Running, TestOK, TestShape
<1>2. test'.peer \in 0..n /\ test'.peer >= test.peer
  BY <1>1, GroupNotEmpty DEF TestOK, TestFields
<1>3. CASE test.at = "ask"
  <2>1. test.count = 0 /\ test.seen = NULL
    BY <1>3 DEF TestOK, TestStage, TestCount, TestFields
  <2>2. test.starts \in Peer /\ test.asked \in 0..n
    BY DEF TestOK, TestFields
  <2>3. test.expected \in 0..n /\ test.expected > 0
    BY <1>3 DEF TestOK, TestExpects
  <2> QED BY <1>1, <1>2, <1>3, <2>1, <2>2, <2>3, NothingCounted
<1>4. CASE test.at # "ask"
  <2>1. KeepsCount
    BY <1>1, <1>2, <1>4 DEF KeepsCount
  <2>2. test.at \in {"count", "states"} => test.peer < n
    BY DEF TestOK, TestStage
  <2> QED BY <1>1, <1>2, <1>4, <2>1, <2>2, KeepsOK
<1> QED BY <1>3, <1>4

-----------------------------------------------------------------------------
\* A step is one of the test thread, or it leaves the test thread alone.
LEMMA TestStep ==
    ASSUME ReadersOK, TestOK, [Next]_vars
    PROVE  \/ TestOK' /\ UNCHANGED test
           \/ /\ TestOK' /\ UNCHANGED readers
              /\ Restarts \/ KeepsCount \/ CountsOne \/ ReturnsFound
<1>1. UNCHANGED test => TestOK' /\ UNCHANGED test
  BY DEF TestOK, TestShape, TestFields, TestCount, TestStage, TestExpects
<1>2. ASSUME NEW i \in Peer, NEW msg \in ApplyMsg, Apply(i, msg)
      PROVE  UNCHANGED test
  BY <1>2 DEF Apply
<1>3. ASSUME NEW i \in Peer, Read(i) \/ Connect(i) \/ Disconnect(i)
      PROVE  UNCHANGED test
  BY <1>3 DEF Read, Receive, Record, Complain, Connect, Disconnect
<1>4. ASSUME NEW expected \in 1..n, NEW c \in Command, One(c, expected)
      PROVE  TestOK' /\ UNCHANGED readers /\ Restarts
  BY <1>4, OneOK DEF One
<1>5. ASSUME NEW expected \in 1..n, NEW k \in Index, Wait(k, expected)
      PROVE  TestOK' /\ UNCHANGED readers /\ Restarts
  BY <1>5, WaitOK DEF Wait
<1>6. CASE Ask
  BY <1>6, AskOK DEF Ask
<1>7. CASE NoLeader
  <2>1. test.at = "ask" /\ test' = Again /\ UNCHANGED readers
    BY <1>7 DEF NoLeader, Is
  <2> QED BY <2>1, AgainOK
<1>8. CASE CheckErr
  BY <1>8, CheckErrOK DEF CheckErr
<1>9. CASE Count
  BY <1>9, CountOK DEF Count
<1>10. CASE OneCounted
  BY <1>10, OneCountedOK DEF OneCounted
<1>11. CASE WaitCounted
  BY <1>11, WaitCountedOK DEF WaitCounted
<1>12. CASE GetState
  BY <1>12, GetStateOK DEF GetState
<1>13. CASE Impatient \/ Over
  BY <1>13, TimeOK DEF Impatient, Over
<1>14. CASE UNCHANGED vars
  BY <1>14, <1>1 DEF vars
<1> QED
  BY <1>1, <1>2, <1>3, <1>4, <1>5, <1>6, <1>7, <1>8, <1>9, <1>10, <1>11, <1>12,
     <1>13, <1>14 DEF Next, TestThread

LEMMA TestCorrect == Spec => []TestOK
<1>1. Init => TestOK
  <2> SUFFICES ASSUME Init PROVE TestOK
    OBVIOUS
  <2>1. /\ TestShape /\ test.at = "rest" /\ test.count = 0 /\ test.seen = NULL
        /\ test.starts = 0 /\ test.asked = 0 /\ test.peer = 0 /\ test.expected = 0
    BY DEF Init, Resting, TestShape
  <2>2. TestFields
    BY <2>1, GroupNotEmpty DEF TestFields
  <2> QED BY <2>1, <2>2, GroupNotEmpty DEF TestOK, TestCount, TestStage, TestExpects
<1>2. ReadersOK /\ TestOK /\ [Next]_vars => TestOK'
  BY TestStep
<1> QED
  BY <1>1, <1>2, ReadersCorrect, PTL DEF Spec

LEMMA TypesAre == ReadersOK /\ NetInv /\ TestOK => TypeOK
<1> SUFFICES ASSUME ReadersOK, NetInv, TestOK PROVE TypeOK
  OBVIOUS
<1>1. \A i \in Peer :
         /\ reader[i].at \in {"reading", "got", "bad", "gone"}
         /\ reader[i].msg \in ApplyMsg \cup {NULL}
         /\ reader[i].at = "got" <=> reader[i].msg # NULL
  BY DEF ReadersOK
<1>2. connected \subseteq Peer /\ enabled \subseteq Peer \X Peer
  BY DEF NetInv, Partitioned
<1>3. test.peer \in 0..n /\ test.starts \in Peer /\ test.asked \in 0..n
  BY DEF TestOK, TestFields
<1>4. test.count \in 0..test.peer /\ (test.count > 0 <=> test.seen # NULL)
  BY DEF TestOK, TestCount
<1> QED BY <1>1, <1>2, <1>3, <1>4 DEF TypeOK, ReadersOK

\* The fields of the harness hold what their declarations say: each reader
\* (start1) has a message exactly when it has yet to record it, and nCommitted
\* stays within the group, whatever the peers say and apply.
THEOREM TypeCorrect == Spec => []TypeOK
BY ReadersCorrect, TestCorrect, NetCorrect, TypesAre, PTL

-----------------------------------------------------------------------------
\* Unless an error has been noticed, what a peer has applied stays.
LEMMA RecordedStays ==
    ASSUME ReadersOK, [Next]_vars, ~Noticed', NEW j \in Peer, NEW k \in Index,
           logs[j][k] # NULL
    PROVE  logs'[j][k] = logs[j][k]
<1>1. CASE UNCHANGED logs
  BY <1>1
<1>2. ASSUME NEW i \in Peer, Record(i)
      PROVE  logs'[j][k] = logs[j][k]
  <2> DEFINE h == reader[i].msg.index
             v == reader[i].msg.command
  <2>1. reader[i].msg \in ApplyMsg
    BY <1>2 DEF Record, ReadersOK
  <2>2. h \in Index /\ v \in Command
    BY <2>1 DEF ApplyMsg
  <2>3. logs' = [logs EXCEPT ![i][h] = v]
    BY <1>2 DEF Record
  <2>4. ~Conflicts(i, h, v)
    <3>1. SUFFICES ASSUME Conflicts(i, h, v) PROVE FALSE
      OBVIOUS
    <3>2. reader'[i].at = "bad"
      BY <1>2, <3>1 DEF Record, NextMessage, Reading, ReadersOK
    <3> QED
      BY <3>2 DEF Noticed
  <2>5. logs'[j][k] = IF j = i /\ k = h THEN v ELSE logs[j][k]
    BY <2>2, <2>3 DEF ReadersOK
  <2> QED BY <2>4, <2>5 DEF Conflicts
<1> QED BY <1>1, <1>2, WhoseStep DEF Elsewhere, readers, Read, Receive, Complain

LEMMA HoldingFinite ==
    ASSUME NEW S, S \subseteq Peer
    PROVE  IsFiniteSet(S) /\ Cardinality(S) \in Nat
<1>1. IsFiniteSet(Peer)
  <2>1. 0 \in Int /\ n - 1 \in Int
    BY GroupNotEmpty
  <2> QED BY <2>1, FS_Interval, Zenon DEF Peer
<1> QED BY <1>1, FS_Subset, FS_CardinalityType

\* The peers counted so far are not counted again.
LEMMA OneMoreCounted ==
    ASSUME NEW S, NEW i \in Peer, S \subseteq Peer, i \notin S
    PROVE  Cardinality(S \cup {i}) = Cardinality(S) + 1
BY HoldingFinite, FS_AddElement

LEMMA MoreHold ==
    ASSUME NEW S, NEW T, S \subseteq T, T \subseteq Peer
    PROVE  Cardinality(S) <= Cardinality(T)
BY HoldingFinite, FS_Subset

LEMMA CountInvStep == ReadersOK /\ TestOK /\ CountInv /\ [Next]_vars => CountInv'
<1> SUFFICES ASSUME ReadersOK, TestOK, CountInv, [Next]_vars, ~Noticed'
             PROVE  CountInv'
  BY DEF CountInv
<1>1. /\ test.count > 0 => Cardinality(Counted) >= test.count
      /\ test.at = "returned" => Cardinality(Holding(test.index, test.cmd)) >= test.expected
  BY NoticedForGood DEF CountInv, Is
<1>2. test.count \in Nat /\ test.peer \in Nat /\ test.expected \in Nat
  <2>1. test.peer \in Nat /\ test.expected \in Nat
    BY GroupNotEmpty DEF TestOK, TestFields, TestExpects
  <2> QED BY <2>1 DEF TestOK, TestCount
<1>3. test.count > 0 => test.index \in Index /\ test.seen # NULL
  BY DEF TestOK, TestCount, TestStage, TestFields
<1>4. test.at = "returned" => test.index \in Index /\ test.cmd # NULL
  BY NullAssumption DEF TestOK, TestStage
<1>5. CASE UNCHANGED test
  <2>1. ASSUME test.count > 0
        PROVE  Cardinality(Counted') >= test.count
    <3>1. Counted \subseteq Counted' /\ Counted' \subseteq Peer
      BY <1>3, <1>5, <2>1, RecordedStays DEF Counted, Holding
    <3> QED BY <1>1, <1>2, <2>1, <3>1, MoreHold, HoldingFinite
  <2>2. ASSUME test.at = "returned"
        PROVE  Cardinality(Holding(test.index, test.cmd)') >= test.expected
    <3>1. /\ Holding(test.index, test.cmd) \subseteq Holding(test.index, test.cmd)'
          /\ Holding(test.index, test.cmd)' \subseteq Peer
      BY <1>4, <1>5, <2>2, RecordedStays DEF Holding
    <3> QED BY <1>1, <1>2, <2>2, <3>1, MoreHold, HoldingFinite
  <2> QED BY <1>5, <2>1, <2>2 DEF CountInv, Is
<1>6. CASE Restarts
  BY <1>6 DEF CountInv, Is, Restarts
<1>7. CASE UNCHANGED readers /\ KeepsCount /\ TestOK'
  <2>1. ASSUME test.count > 0
        PROVE  Cardinality(Counted') >= test.count
    <3>1. /\ test'.index = test.index /\ test'.seen = test.seen
          /\ test'.peer >= test.peer /\ test'.peer \in Nat /\ logs' = logs
      BY <1>7, GroupNotEmpty DEF TestOK, TestFields, KeepsCount, readers
    <3>2. Counted \subseteq Counted' /\ Counted' \subseteq Peer
      <4>1. \A i \in Peer : i < test.peer => i < test'.peer
        BY <1>2, <3>1, GroupNotEmpty
      <4> QED BY <3>1, <4>1 DEF Counted, Holding
    <3> QED BY <1>1, <1>2, <2>1, <3>2, MoreHold, HoldingFinite
  <2> QED BY <1>7, <2>1 DEF CountInv, Is, KeepsCount
<1>8. CASE UNCHANGED readers /\ CountsOne
  <2> DEFINE v == logs[test.peer][test.index]
  <2>1. /\ test.peer \in Peer /\ v # NULL /\ test'.index = test.index
        /\ test.count > 0 => test.seen = v
        /\ test'.seen = v /\ test'.peer = test.peer + 1
        /\ test'.count = test.count + 1 /\ test'.at # "returned"
        /\ logs' = logs
    BY <1>8 DEF CountsOne, readers
  <2>2. PICK S : S = IF test.count > 0 THEN Counted ELSE {}
    OBVIOUS
  <2>3. S \subseteq Peer /\ test.peer \notin S /\ Cardinality(S) >= test.count
    <3>1. CASE test.count > 0
      BY <1>1, <1>2, <2>2, <3>1 DEF Counted, Holding
    <3>2. CASE ~(test.count > 0)
      BY <1>2, <2>2, <3>2, FS_EmptySet
    <3> QED BY <3>1, <3>2
  <2>4. Cardinality(S \cup {test.peer}) = Cardinality(S) + 1
    BY <2>1, <2>3, OneMoreCounted
  <2>5. S \cup {test.peer} \subseteq Counted' /\ Counted' \subseteq Peer
    <3>1. \A i \in S : i \in Peer /\ logs[i][test.index] = v /\ i < test.peer
      BY <2>1, <2>2 DEF Counted, Holding
    <3>2. \A i \in Peer : i < test.peer => i < test.peer + 1
      BY <1>2, GroupNotEmpty
    <3> QED BY <1>2, <2>1, <3>1, <3>2 DEF Counted, Holding
  <2>6. Cardinality(Counted') >= test'.count
    BY <1>2, <2>1, <2>3, <2>4, <2>5, MoreHold, HoldingFinite
  <2> QED BY <2>1, <2>6 DEF CountInv, Is
<1>9. CASE UNCHANGED readers /\ ReturnsFound
  <2>1. /\ test'.count = 0 /\ test'.cmd = test.seen /\ test'.index = test.index
        /\ test'.expected = test.expected /\ test.count > 0
        /\ test.count >= test.expected /\ logs' = logs
    BY <1>9 DEF ReturnsFound, readers
  <2>2. /\ Counted \subseteq Holding(test.index, test.cmd)'
        /\ Holding(test.index, test.cmd)' \subseteq Peer
    BY <2>1 DEF Counted, Holding
  <2>3. Cardinality(Holding(test.index, test.cmd)') >= test'.expected
    BY <1>1, <1>2, <2>1, <2>2, MoreHold, HoldingFinite
  <2> QED BY <2>1, <2>3 DEF CountInv, Is
<1> QED BY <1>5, <1>6, <1>7, <1>8, <1>9, TestStep

\* What one or wait returns has been applied by as many peers as were asked for,
\* unless an error is on its way: though nCommitted takes cfg.mu anew for each
\* peer and the readers go on in between, what it has counted only changes with a
\* disagreement that they find.
THEOREM ReturnedIsAlwaysCommitted == Spec => []ReturnedIsCommitted
<1>1. Init => CountInv
  BY DEF Init, CountInv, Resting, Is
<1>2. CountInv => ReturnedIsCommitted
  BY DEF CountInv, ReturnedIsCommitted, Holding
<1> QED
  BY <1>1, <1>2, CountInvStep, ReadersCorrect, TestCorrect, PTL DEF Spec
=============================================================================
