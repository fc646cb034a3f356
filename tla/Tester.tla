------------------------------- MODULE Tester -------------------------------
(***************************************************************************)
(* The harness of mp2/src/raft/config.go around a group of peers: the      *)
(* goroutines that read every peer's applyCh (start1), the test thread in  *)
(* one or wait, and connect and disconnect.                                *)
(*                                                                         *)
(* The peers are whatever might be tested: they say what they like of      *)
(* being leader, and apply any command at any index.  Only the locking is  *)
(* that of raft.go: a peer sends on applyCh with rf.mu held, which Start   *)
(* and GetState need.  Durations are left to chance: what the code waits   *)
(* for may come before or after each time it looks.  The calls of Enable   *)
(* that connect or disconnect makes are one step.                          *)
(***************************************************************************)
EXTENDS Integers, FiniteSets

CONSTANTS
    n,          \* cfg.n: the peers are 0..n-1
    Command,
    NULL,       \* nothing in logs, or no message
    MaxIndex,   \* bound: commands are applied up to this index
    MaxApplies  \* bound: so many messages are sent on applyCh in all

ASSUME SizeAssumption == n \in Nat \ {0} /\ MaxIndex \in Nat /\ MaxApplies \in Nat
ASSUME NullAssumption == NULL \notin Command

Peer == 0..(n - 1)
Index == 1..MaxIndex
ApplyMsg == [index : Index, command : Command]

VARIABLES
    sending,    \* sending[i]: the message peer i is about to send, rf.mu held
    applies,    \* how many messages have been sent
    reader,     \* reader[i]: where the goroutine that reads applyCh is
    logs,       \* logs[i][k]: what peer i has applied at index k, or NULL
    applyErr,   \* applyErr[i]: whether it is set
    connected,  \* the peers that are on the net
    enabled,    \* the pairs <<i, j>> for which endnames[i][j] is enabled
    test        \* what the test thread is doing

readers == <<reader, logs, applyErr>>
net == <<connected, enabled>>
vars == <<sending, applies, readers, net, test>>

Reading == [at |-> "reading", msg |-> NULL]

\* The fields of the test thread: what it runs, with which arguments (retry of
\* one, startTerm of wait are choices where they matter); the peer it asked last
\* in the loop of one, and how many it has asked; where nCommitted is in its
\* loop, and what that has found; whether it is wait's last look; and which of
\* its times are over.
Resting ==
    [at |-> "rest", what |-> "none", cmd |-> NULL, expected |-> 0, starts |-> 0,
     asked |-> 0, index |-> 0, peer |-> 0, count |-> 0, seen |-> NULL,
     last |-> FALSE, impatient |-> FALSE, over |-> FALSE]

-----------------------------------------------------------------------------
(***************************************************************************)
(* Helpers.  A definition may be preceded by versions of it with a slip in *)
(* it (ConflictsBelow before Conflicts): these are not used in the module. *)
(***************************************************************************)
\* Another value than v has been applied at index k, by whichever peer.
ConflictsBelow(i, k, v) == \E j \in 0..i : logs[j][k] \notin {NULL, v}
Conflicts(i, k, v) == \E j \in Peer : logs[j][k] \notin {NULL, v}

OutOfOrder(i, k) == k > 1 /\ logs[i][k - 1] = NULL

\* Where the reader goes on after a message, good or bad.
OneMessage(bad) == [Reading EXCEPT !.at = IF bad THEN "bad" ELSE "gone"]
NextMessage(bad) == [Reading EXCEPT !.at = IF bad THEN "bad" ELSE "reading"]

\* nd >= expectedServers, in one, for a command that nCommitted has found.
NearlyEnough(t) == t.count > 0 /\ t.count + 1 >= t.expected
Enough(t) == t.count > 0 /\ t.count >= t.expected

\* The pairs that connect(i) enables; connected is to hold i already.
AllEnds(i, on) == ({i} \X Peer) \cup (Peer \X {i})
EndsBetween(i, on) == ({i} \X on) \cup (on \X {i})

Is(place) == test.at = place

\* The test fails, or its caller goes on.
Failed == [Resting EXCEPT !.at = "failed"]
MovedOn == [Resting EXCEPT !.at = "moved on"]

\* The call returns with a command that has been found at the index.
Found(t) == [Resting EXCEPT !.at = "returned", !.cmd = t.seen, !.index = t.index,
                            !.expected = t.expected]

\* nCommitted starts from the first peer, with nothing counted.
LookFurther(t) == [t EXCEPT !.at = "check", !.peer = 0, !.seen = NULL]
Look(t) == [t EXCEPT !.at = "check", !.peer = 0, !.count = 0, !.seen = NULL]

\* rf.mu of peer i is free.
Free(i) == sending[i] = NULL

-----------------------------------------------------------------------------
\* make_config: all peers are there and connected.
Init ==
    /\ sending = [i \in Peer |-> NULL]
    /\ applies = 0
    /\ reader = [i \in Peer |-> Reading]
    /\ logs = [i \in Peer |-> [k \in Index |-> NULL]]
    /\ applyErr = [i \in Peer |-> FALSE]
    /\ connected = Peer
    /\ enabled = Peer \X Peer
    /\ test = Resting

\* applymsg of peer i reaches its next command.
Apply(i, msg) ==
    /\ Free(i) /\ applies < MaxApplies
    /\ sending' = [sending EXCEPT ![i] = msg]
    /\ applies' = applies + 1
    /\ UNCHANGED <<readers, net, test>>

(***************************************************************************)
(* The readers of start1                                                   *)
(***************************************************************************)
Receive(i) ==
    /\ reader[i].at = "reading" /\ ~Free(i)
    /\ reader' = [reader EXCEPT ![i] = [at |-> "got", msg |-> sending[i]]]
    /\ sending' = [sending EXCEPT ![i] = NULL]
    /\ UNCHANGED <<applies, logs, applyErr, net, test>>

\* The message is compared with what all peers have applied, and recorded,
\* under cfg.mu.
Record(i) ==
    /\ reader[i].at = "got"
    /\ LET k == reader[i].msg.index
           v == reader[i].msg.command
       IN  /\ logs' = [logs EXCEPT ![i][k] = v]
           /\ reader' = [reader EXCEPT ![i] =
                            NextMessage(Conflicts(i, k, v) \/ OutOfOrder(i, k))]
    /\ UNCHANGED <<sending, applies, applyErr, net, test>>

\* An error is left for the test thread, and the reader leaves its loop.
Complain(i) ==
    /\ reader[i].at = "bad"
    /\ applyErr' = [applyErr EXCEPT ![i] = TRUE]
    /\ reader' = [reader EXCEPT ![i].at = "gone"]
    /\ UNCHANGED <<sending, applies, logs, net, test>>

Read(i) == Receive(i) \/ Record(i) \/ Complain(i)

(***************************************************************************)
(* The test thread                                                         *)
(***************************************************************************)
Connect(i) ==
    /\ Is("rest") /\ test.what = "none"
    /\ connected' = connected \cup {i}
    /\ enabled' = enabled \cup EndsBetween(i, connected')
    /\ UNCHANGED <<sending, applies, readers, test>>

Disconnect(i) ==
    /\ Is("rest") /\ test.what = "none"
    /\ connected' = connected \ {i}
    /\ enabled' = enabled \ AllEnds(i, connected)
    /\ UNCHANGED <<sending, applies, readers, test>>

One(cmd, expected) ==
    /\ Is("rest")
    /\ test' = [test EXCEPT !.at = "ask", !.what = "one", !.cmd = cmd,
                            !.expected = expected]
    /\ UNCHANGED <<sending, applies, readers, net>>

Wait(index, expected) ==
    /\ Is("rest")
    /\ test' = [Look(test) EXCEPT !.what = "wait", !.index = index,
                                  !.expected = expected]
    /\ UNCHANGED <<sending, applies, readers, net>>

\* one tries the next peer, if it is connected: Start takes rf.mu, and returns
\* an index if the peer takes itself for the leader.
Ask ==
    /\ Is("ask") /\ test.asked < n
    /\ LET i == (test.starts + 1) % n
           t == [test EXCEPT !.starts = i, !.asked = @ + 1]
       IN  \/ /\ i \in connected => Free(i)
              /\ test' = t
           \/ /\ i \in connected /\ Free(i)
              /\ \E k \in Index :
                    test' = [Look(t) EXCEPT !.index = k, !.asked = 0]
    /\ UNCHANGED <<sending, applies, readers, net>>

\* The outer loop of one goes round, unless ten seconds have passed.
Again == IF test.over THEN Failed
         ELSE [test EXCEPT !.at = "ask", !.asked = 0, !.index = 0, !.peer = 0,
                           !.count = 0, !.seen = NULL, !.impatient = FALSE]

NoLeader ==
    /\ Is("ask") /\ test.asked = n
    /\ test' = Again
    /\ UNCHANGED <<sending, applies, readers, net>>

\* nCommitted looks at the error of the next peer, and then at its log.
CheckErr ==
    /\ Is("check") /\ test.peer < n
    /\ test' = IF applyErr[test.peer] THEN Failed ELSE [test EXCEPT !.at = "count"]
    /\ UNCHANGED <<sending, applies, readers, net>>

Count ==
    /\ Is("count")
    /\ LET v == logs[test.peer][test.index]
           t == [test EXCEPT !.at = "check", !.peer = @ + 1]
       IN  test' = IF v = NULL THEN t
                   ELSE IF test.count > 0 /\ test.seen # v THEN Failed
                   ELSE [t EXCEPT !.count = @ + 1, !.seen = v]
    /\ UNCHANGED <<sending, applies, readers, net>>

\* What one does with what nCommitted has counted: it looks again for two
\* seconds, and then starts over if it is to retry.
OneCounted ==
    /\ Is("check") /\ test.peer = n /\ test.what = "one"
    /\ IF Enough(test) /\ test.seen = test.cmd THEN test' = Found(test)
       ELSE IF ~test.impatient THEN test' = Look(test)
       ELSE test' \in {Again, Failed}
    /\ UNCHANGED <<sending, applies, readers, net>>

\* What wait does with it: it counts once more when there are enough, or when
\* it has been round often enough, and then returns what it finds.  Between two
\* looks it may ask the peers for their terms.
WaitCounted ==
    /\ Is("check") /\ test.peer = n /\ test.what = "wait"
    /\ IF test.last
       THEN test' = IF test.count < test.expected THEN Failed ELSE Found(test)
       ELSE IF test.count >= test.expected \/ test.impatient
       THEN test' = [Look(test) EXCEPT !.last = TRUE, !.impatient = FALSE]
       ELSE test' \in {Look(test), [Look(test) EXCEPT !.at = "states"]}
    /\ UNCHANGED <<sending, applies, readers, net>>

\* It asks them one after another, and gives up at a later term.
GetState ==
    /\ Is("states") /\ Free(test.peer)
    /\ test' \in {MovedOn, IF test.peer = n - 1 THEN Look(test)
                             ELSE [test EXCEPT !.peer = @ + 1]}
    /\ UNCHANGED <<sending, applies, readers, net>>

TestThread ==
    Ask \/ NoLeader \/ CheckErr \/ Count \/ OneCounted \/ WaitCounted \/ GetState

Running == test.at \in {"ask", "check", "count", "states"}

\* The two seconds of one, or the thirty rounds of wait; the ten seconds of one.
Impatient ==
    /\ Running /\ ~Is("ask") /\ ~test.impatient /\ ~test.last
    /\ test' = [test EXCEPT !.impatient = TRUE]
    /\ UNCHANGED <<sending, applies, readers, net>>

Over ==
    /\ Running /\ test.what = "one" /\ ~test.over
    /\ test' = [test EXCEPT !.over = TRUE]
    /\ UNCHANGED <<sending, applies, readers, net>>

-----------------------------------------------------------------------------
Next ==
    \/ \E i \in Peer :
          \/ \E msg \in ApplyMsg : Apply(i, msg)
          \/ Read(i)
          \/ Connect(i)
          \/ Disconnect(i)
    \/ \E expected \in 1..n :
          \/ \E c \in Command : One(c, expected)
          \/ \E k \in Index : Wait(k, expected)
    \/ TestThread
    \/ Impatient
    \/ Over

\* Readers read, the test thread goes on, and time passes.
Fairness ==
    /\ \A i \in Peer : WF_vars(Read(i))
    /\ WF_vars(TestThread)
    /\ WF_vars(Impatient)
    /\ WF_vars(Over)

Spec == Init /\ [][Next]_vars /\ Fairness

-----------------------------------------------------------------------------
(***************************************************************************)
(* Properties                                                              *)
(***************************************************************************)
\* A reader has a message exactly when it has yet to record it, and the test
\* thread counts within the group.
TypeOK ==
    /\ sending \in [Peer -> ApplyMsg \cup {NULL}]
    /\ \A i \in Peer :
          /\ reader[i].at \in {"reading", "got", "bad", "gone"}
          /\ reader[i].msg \in ApplyMsg \cup {NULL}
          /\ reader[i].at = "got" <=> reader[i].msg # NULL
    /\ logs \in [Peer -> [Index -> Command \cup {NULL}]]
    /\ applyErr \in [Peer -> BOOLEAN]
    /\ connected \subseteq Peer /\ enabled \subseteq Peer \X Peer
    /\ test.peer \in 0..n /\ test.starts \in Peer /\ test.asked \in 0..n
    /\ test.count \in 0..test.peer
    /\ test.count > 0 <=> test.seen # NULL

\* An error has been or is being left for the test thread.
Noticed == \E i \in Peer : applyErr[i] \/ reader[i].at = "bad"

\* No disagreement escapes the readers, whichever of them run at once: if two
\* peers have applied different commands at an index, or one has left an index
\* out, then the test fails the next time it looks.
DisagreementNoticed ==
    \A i, j \in Peer, k \in Index :
        \/ Noticed
        \/ /\ logs[i][k] = logs[j][k] \/ NULL \in {logs[i][k], logs[j][k]}
           /\ k > 1 /\ logs[i][k] # NULL => logs[i][k - 1] # NULL

\* What one or wait returns has been applied by as many peers as were asked
\* for, though they are looked at one after another while others apply.
ReturnedIsCommitted ==
    Is("returned") =>
        \/ Noticed
        \/ Cardinality({i \in Peer : logs[i][test.index] = test.cmd}) >= test.expected

\* one and wait come to an end, unless a reader has stopped at an error: then
\* its peer may be waiting for it with rf.mu held, and Start for rf.mu.
TestEnds == Running ~> ~Running \/ \E i \in Peer : applyErr[i]

\* What connect and disconnect enable, in whatever order they are called, is
\* just what connects the peers that are to be on the net.
Partitioned == enabled = connected \X connected
=============================================================================
