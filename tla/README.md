# A verification development for cs425

The repository holds the four machine problems of a distributed systems course.
Three of them are distributed protocols with state worth modelling: a total order
multicast (mp1), a Raft peer (mp2) and a bank with distributed transactions (mp3).
This directory has TLA+ modules translated from their source, TLC configurations that
check them on small instances, and TLAPS proofs for every instance where the prover
can reach.

Line numbers below are those of `src/`.

## 1. The system

### Inventory

| part | state | operations | talks to |
|---|---|---|---|
| **Raft peer** `mp2/src/raft/raft.go` | `state`, `currentTerm`, `votedFor`, `log`, `commitIndex`, `lastApplied`, `nextIndex`, `matchIndex`, two timers, `dead`; in goroutines: `voteNum`, the arguments of outstanding calls | `Make`, `maintain`/`handleLeader`/`checkElectionTimeout`, `startElection`, `sendvote`, `TurnLeader`/`TurnFollower`/`TurnCandidate`, `sendHeartBeat`, handlers `RequestVote` and `AppendEntries`, `Start`, `Kill`, `applymsg` | other peers through labrpc; its service through `applyCh` |
| **labrpc** `mp2/src/labrpc/labrpc.go` | which ends are enabled, which server an end leads to and a name stands for, reliable or not, reordering or not, done | `Call`, `processReq` (delay, loss, reordering) and the goroutines it starts, `Enable`, `Connect`, `AddServer`, `DeleteServer`, `Reliable`, `LongReordering`, `Cleanup` | every peer, the tester |
| **labgob** `mp2/src/labgob` | none of a protocol | encoding with warnings | labrpc |
| **Raft tester** `mp2/src/raft/config.go`, `test_test.go` | the commands applied by each peer, the error of each reader, who is connected | `start1` and its reader of `applyCh`, `connect`, `disconnect`, `nCommitted`, `one`, `wait` | the group, the network |
| **bank branch** `mp3/server/server.go` | `accounts`, tentative writes `TW`, read timestamps `RTS`, commit counters, two locks (`mu_TW`, an account's `mu`) | `read`, `write`, `DoAbort`, `CheckCommit`, `DoCommit`, `handleConnection` (a client), `handleBranch` (another branch) | four other branches and its clients, over TCP |
| **bank client** `mp3/client/client.go` | its transaction, its coordinator | BEGIN, commands one at a time, COMMIT, ABORT | one branch |
| **ISIS multicast** `mp1/isis.py`, `mp1_node.py`, `message.py` | hold-back queue, proposals, sequence numbers, messages seen, `node_n` | propose, agree, flood, deliver, drop a dead node | every node, over TCP |
| **ISIS accounts** `mp1/account.py` | balances | `updateBalance` in delivery order | the multicast |
| **event logger** `mp0` | log files | send a line, receive a line, plot | one way to a server |

### What is hard, and what would be right

*Raft.* Every handler and goroutine takes `rf.mu`, but a goroutine that calls out
unlocks first and comes back to a different peer. The code never compares
`args.Term` with `currentTerm` when a reply returns (raft.go:582 and 495), unlocks
between deciding to become a leader and doing it (586), and between becoming a
candidate and reading the term it campaigns in (604). A candidate that steps down in
its own term forgets that it has voted (258). Right means: one leader a term, logs
that match, no committed entry lost, nothing different applied at one index, no index
out of range, and a peer that is left alone campaigns.

*Bank.* Two transactions interleave at several branches; either may be refused, wait
for the other, or be aborted by its coordinator while one of its commands is on the
way. A panic in one goroutine ends the branch, and its closed connections make the
other branches panic in turn. Right means: the branches of a transaction end alike, an
aborted one leaves nothing behind, committed balances are made of committed writes,
reads stand, and waiting ends.

*ISIS.* Proposals, agreements and deaths of nodes interleave in threads without a
lock around the whole: a message is marked before it is proposed (mp1_node.py:212), a
decision compares with a number of nodes that another thread lowers (239), and what
is handed over is applied under another lock (269). Right means: all nodes hand over
the same messages in one order, none is left behind, and no money is made or lost.

*labrpc.* A call is spread over four goroutines, while the owner of the network may
replace the server under it. Right means: true only if the server executed the call
and was still in place, false only for a reason, every call returns, no goroutine is
left at a channel.

*Tester.* Readers record while the test thread counts, and each peer holds its lock
while it waits for its reader. Right means: a disagreement is always noticed, what is
reported as committed is, and a test ends.

`PROJECT.json` lists each hazard with its line and the properties aimed at it.

## 2. Modules

| module | what it is |
|---|---|
| `Raft` | the peer and its calls; one action per critical section under `rf.mu` |
| `RaftTimely` | the same actions in an environment restricted by the set `Assumed` |
| `RaftTimers` | one peer's `maintain` goroutine and its two timers, for liveness |
| `MCRaft`, `MCRaftOldEntry` | instances for TLC |
| `RaftProofs`, `RaftElectionProofs`, `RaftCommitProofs` | theorems about `Raft` and `RaftTimely` |
| `BankProofs`, `IsisProofs`, `LabrpcProofs`, `TesterProofs` | theorems about the module named |
| `CountProofs` | lemmas about least numbers, the n-th member of a set and sums over finite sets |
| `Labrpc` | the simulated network of mp2 and its calls |
| `Tester` | the harness of mp2 around peers that do as they like |
| `Isis`, `MCIsis` | the multicast and the accounts of mp1; its instances |
| `AgreedOrder` | what a replicated log and a total order multicast both promise |
| `Bank` | branches, clients and connections of mp3 |
| `AtomicCommit` | what a distributed transaction promises, abstractly |
| `MCBank` | instances for TLC |

`RaftTimely` EXTENDS `Raft` and adds guards to its actions, none of them to a peer's
own logic.

Two abstract specifications say what a component promises without saying how.
`AgreedOrder` has one sequence for each member, to which items are added so that any
two sequences agree as far as both go. `RaftTimely` implements it with what the peers
have applied (`AppliesOneLog`), and `Isis` with what the nodes have handed over
(`OneOrder`). `AtomicCommit` has the outcome of a transaction at each branch; `Bank`
implements it (`BranchesEndAlike`) with its history variable `outcome`.

`Raft` has calls of its own, coarser than those of `Labrpc`: a request or reply may be
lost or late at any time. What it takes from the network is what `Labrpc` shows: a
reply is one that the handler gave, and a call without one returns false. `Tester`
has peers that apply anything, so that its verdict does not rest on `Raft` being right.

### Raft: how the model corresponds to the code

`rf.log` always begins with a zero entry; it is left out. A variable of the code that
lives in a goroutine is a variable of the model: `electing[i]` says that `maintain` is
between `TurnCandidate` and `startElection`, `winning[i]` counts `sendvote` goroutines
between their unlock and `TurnLeader`, `checking[i]` says that `maintain` saw a
non-leader and has yet to look at the timer, `voters[i][t]` is the `voteNum` of one
election, kept as a set. `calls` holds the requests and the replies under way; a
reply keeps `args.Term`, which its caller still has.

| action | code |
|---|---|
| `ElectionTimeout`, `StartElection` | `checkElectionTimeout` with `TurnCandidate`; `startElection` |
| `RequestVote`, `AppendEntries` | the handlers, with `TurnFollower`, the splice of the log and `applymsg` inside the step |
| `VoteReturned`, `TurnLeader` | `sendvote` after `Call`; `TurnLeader` after the second lock |
| `SendHeartBeat`, `HeartBeatReturned` | the two halves of `sendHeartBeat` around `Call`, the second with the commit rule and `applymsg` |
| `Start`, `Kill`, `KilledAnswer`, `Lose` | the service's calls; the zero reply of a killed peer; labrpc |

Two choices of granularity: the test of `killed()` before a lock is one step with the
critical section that follows, and a Go panic (an index outside `rf.log`) makes
`dead[i] = "panic"`, after which that peer takes no step. A request for a vote is
never removed from `calls` without being answered; that it may be lost is covered by
behaviours in which it is never taken.

Time is absent from `Raft`: a timer may fire at any moment. `RaftTimers` has the
timers and nothing else: the RPCs that reach the peer are whatever stops or resets
one, at most `MaxEvents` of them.

### The timely environment

Without assumptions the code does not keep the properties its tester checks (the
`violation` runs). `RaftTimely` names three and says exactly what each excludes:

- `OnTime`: a reply that returns after its caller has changed terms is lost;
- `Settled`: where the code unlocks and locks again at once, no other goroutine of the
  peer gets in between;
- `Fresh`: the success of a heartbeat that `Start` has overtaken, so that its entries no
  longer end where the leader's log does, is lost.

Commands come at any time, and a heartbeat that a command overtakes still reaches its
follower and changes its log; only its success does not come back. `Fresh` rules out
what the code gets wrong at raft.go:507, where a success is taken to cover the log as it
is by then. A reply keeps for this where its entries ended (`last`), which the code
does not.

These are not claims about labrpc. They are what has to be true for the code as
written to work; `MCRaft_stale_vote.cfg`, `MCRaft_unsettled.cfg` and the run
`raft_match_index` each drop one of the three and show what happens.

### Bank: how the model corresponds to the code

A step is what a goroutine does between two places where it waits: for a message, for
`mu_TW`, or for an account's `mu`. Handlers that wait in the middle are records in
`jobs`: "lock" holds an account's `mu` and wants `mu_TW`; "wait" and "stuck" are the
loop in `read` before and after its single look at the tentative write; "spin" is
`DoCommit` that cannot go on and holds `mu_TW`; "abort" has replied and has `DoAbort`
yet to call. `link[b][c]` is the TCP stream; one `Read` may return up to `MaxRead`
messages, of which `handleBranch` looks at the first word only. `up[b]` turns FALSE at
a panic, and `PeerGone` passes it on.

The code counts `== 4` COMMIT_READYs because it has five branches; the model counts
one fewer than there are branches. A `DoCommit` that hangs on one account commits all
accounts at once when it gets past it. The maps that handlers share without a lock
are not torn. `outcome`, `seen` and the field `from` of an account are history: they
record what happened for the properties, and no guard reads them.

### Isis: how the model corresponds to the code

`thread[n][s]` is the thread of node `n` that listens to node `s`; a step is what it
does under one lock.

| action | code |
|---|---|
| `Send` | `send`: a line is read and broadcast |
| `TakeMessage`, `TakeProposal`, `TakeAgreement` | `listen` up to the release of the lock under which a message is marked, a proposal recorded (and the priority decided), an agreement marked |
| `Flood` | the broadcast that follows, under `sends_lock` |
| `Propose`, `Reply` | `proposeSeq` under `isis_mutex`, the unicast to the origin |
| `Deliver`, `UpdateBalance` | `deliverMsg`; `updateBalance` for one message |
| `Die` | a node ends; of what it had sent on each connection a first part still arrives |
| `Notice`, `DeleteNode`, `Recount` | the three parts of what a thread does at the end of its connection |

A copy of a `MESSAGE` or `AGREE` that the receiver has already marked is not kept in
`link`: reading it changes nothing. `Recount` keeps two facts of the code: the loop at
mp1_node.py:180 compares the origin of a message, which is the node itself, so that it
drops no proposal of a dead node; and it leaves `msg` at the last message it saw, whose
id is then announced with the priority found for another one (193). The heap is a set:
equal priorities do not occur below ten nodes, which is `NodeAssumption`; from ten on,
node 10 proposes the numbers of node 0 (isis.py:30). At most one node dies
(`MortalAssumption`): `node_n -= 1` is not atomic in Python (mp1_node.py:172).

### Labrpc: how the model corresponds to the code

`call[c].at` is where the caller and `processReq` are: "offered" in the `select` of
`Call`, "taken" until `readEndnameInfo`, then "no server" or "found", "waiting" in the
loop at 248, "result" before the second look at the server, "delayed" in the timer of
the reordered reply. `handler[c]` is the goroutine at 237 and `drain` the one at 255.
Every `AddServer` adds a new server, as config.go does, so that a number stands for
it. `trouble` and `late` are history. A pause may take any time, and every timer runs
out in the end.

### Tester: how the model corresponds to the code

A peer may put any message on its `applyCh` (`Apply`) and holds `rf.mu` until its
reader takes it, as `applymsg` does (raft.go:667). `Receive`, `Record`
and `Complain` are the reader of `start1`, `Ask` is `Start` in the loop of `one`,
`CheckErr` and `Count` the two parts of each round of `nCommitted`, `OneCounted` and
`WaitCounted` what its callers do with the result, `GetState` the look at terms in
`wait`. `Impatient` and `Over` are the two and the ten seconds (and the thirty rounds
of `wait`). A test makes one call: what a second would add is another state of `logs`,
which is arbitrary already.

## 3. What TLC checks

### Runs that pass

| run | instance | what it shows |
|---|---|---|
| `raft_replication` | 3 timely peers, 2 terms, 2 elections, 2 entries, one heartbeat at a time to each peer (`CallId`); all three assumptions | ElectionSafety, LogsAscend, LogMatching, StateMachineSafety, LeaderCompleteness, NoPanic, AppliesOneLog (refinement of `AgreedOrder`) |
| `raft_async` | 2 peers, one killable, 3 terms, 1 entry; no assumption | TypeOK, LeaderWonAnElection, LeaderAppendOnly |
| `timers_leader` | 6 RPCs | LeaderBeats, LoopCampaigns (liveness) |
| `bank_commit` | 3 branches, 2 transactions of 2 commands at once, one client may exit | TypeOK, AbortLeavesNothing, BranchesEndAlike (refinement of `AtomicCommit`) |
| `bank_reads` | 2 branches, 3 transactions at once: one opens an account, one writes and reads, a younger one reads | ReadsStand |
| `isis_delivery` | 3 nodes, one of which may die, 2 messages of one node, the second sent when the first is agreed somewhere | TypeOK, AgreedByAll, MoneyKept, AllDelivered (liveness), OneOrder (refinement of `AgreedOrder`) |
| `labrpc` | 2 calls over one end, 2 servers of one name, 6 changes of the network | TypeOK, TrueMeansServed, FalseHasReason, CallReturns and NoneLeftBehind (liveness) |
| `tester` | 2 peers, 2 commands at 2 indices, 2 of them applied | TypeOK, DisagreementNoticed, ReturnedIsCommitted, Partitioned, TestEnds (liveness) |

### Why the bounds are enough, and what they leave out

- `raft_replication`: two elections suffice for two rival candidates of one term, or a
  leader, its successor, and the overwriting of what the first left uncommitted. Two
  entries suffice for a log that must be cut in the middle, and for
  `nextIndex` to go back twice. It is one change of leader: `LogMatching` against three
  terms in one log is out of its reach, and so is the commit of an old entry, which
  takes five peers (`MCRaftOldEntry`). `ElectionSafety` is proved without bounds.
  One heartbeat at a time to each peer leaves out two things: a heartbeat delayed past
  a newer one (raft.go:268), and two refusals of the same entry (raft.go:529).
  `MCRaft_two_calls.cfg` has two at a time and one entry, and passes in a minute with
  `PanicsOnlyRefused` in the place of `NoPanic`; the theorems have any number.
- `raft_async`: with two peers a majority is both, so that every election needs the
  other's vote; three terms let a peer lead, lose and return with calls of its earlier
  leadership under way.
- `timers_leader`: a tick is lost or left behind by one `Stop`, one expiry and one
  `Reset`; six RPCs allow two whole changes of role.
- `bank_commit`: a third branch is needed for a coordinator to have two to wait for,
  and one to commit while another has not. `MaxRead = 1` here and in `bank_reads`:
  messages arrive one at a time. What happens when they do not is
  `MCBank_coalesced.cfg`.
- `bank_reads`: one account at two branches, three timestamps: the least with a write
  between a committed timestamp and a read. Two transactions read, because `DoAbort`
  panics unless as many reads of others are left in every list as accounts have been read
  (server.go:461): a branch survives no abort of its only reader. What is claimed ends
  with the account: `DoAbort` of the transaction that opened it deletes it, and with it
  what others committed there (`MCBank_deleted.cfg`).
- `isis_delivery`: with three nodes an agreement can arrive through a third node before
  the first copy has, and the two that are left must decide without the third. A death
  counts as one of the two events: either both messages are sent, or one is sent and a
  node dies at any point of it, before, during or after. The order also holds
  when the two messages come from different nodes, as long as one is agreed somewhere
  before the other is sent; when both are under way at once it does not (`isis_order`).
- `labrpc`: six changes are needed to set up an end (add, connect, enable) and then
  delete, replace and disable, or lose and tear down. Two calls share nothing but the network.
- `tester`: two applied commands are a conflict between two peers, a gap at one, or a
  command and one that waits behind a reader that has left.

### Fairness

Safety runs need none. `RaftTimers` assumes that a goroutine that can run does
(`maintain`, `TurnLeader` and its end) and that a timer that is on expires, which the
Go runtime gives; nothing is assumed of RPCs. `Bank` assumes that handlers that can go
on do and messages arrive (`WF_vars(Server)`), nothing of clients. `Isis` assumes that as long
as some thread can go on one does: what threads have to do for the messages sent is
finite, so that each gets its turn; nothing is assumed of users or deaths. `Labrpc`
assumes for each call that its goroutines go on and its timers run out; nothing of the
owner, and a handler may choose to hang. `Tester` assumes that every reader and the
test thread go on and that time passes, nothing of the peers.

### Runs that must fail

Each shows something the code does that a comment or test of the repository denies.
All are the code's own behaviour; no module is changed for them.

| run | what the code does |
|---|---|
| `raft_match_index` | without `Fresh`: a success covers commands appended after the heartbeat was sent (raft.go:507), and two peers apply different commands |
| `bank_dirty` | a coordinator that refuses a command tells no other branch (server.go:563; the TODO at 475), and the write left there enters the next commit |
| `bank_wait` | `read` looks once for the write it waits for and then loops for ever (server.go:225) |
| `isis_order` | `agrSeq` is raised only where a message is decided (isis.py:51): two nodes hand over two messages in different orders |

Seven more configurations show further disagreements. They are not among the runs
of `PROJECT.json`; TLC finds each violated within minutes.

| configuration (module) | property | what the code does |
|---|---|---|
| `MCRaft_stale_vote.cfg` (`MCRaft`) | `ElectionSafety` | without `OnTime`: a vote of an old term makes its candidate leader of the next (raft.go:582), beside the one elected there; the tester fails at config.go:275 |
| `MCRaft_unsettled.cfg` (`MCRaft`) | `ElectionSafety` | without `Settled`: between the unlock in `sendvote` and the lock in `TurnLeader` (raft.go:586) the peer follows another into the next term, and leads that one unelected |
| `MCRaft_refused_twice.cfg` (`MCRaft`) | `NoPanic` | all three assumptions, two heartbeats at a time to each peer: both are refused, `nextIndex` goes down twice to 0 (raft.go:529), and the next heartbeat indexes `rf.log` with -1 |
| `MCRaftOldEntry.cfg` (`MCRaftOldEntry`) | `StateMachineSafety` | all three assumptions, five peers: an entry of an older term is committed by counting (raft.go:517) and then overwritten by a leader with a later last term |
| `RaftTimers_former_leader.cfg` (`RaftTimers`) | `Campaigns` | a leader deposed while `handleLeader` waits for a stopped timer never campaigns again (raft.go:446), against test_test.go:61 |
| `MCBank_coalesced.cfg` (`MCBank`) | `BranchesEndAlike` | two messages in one `Read`: the second is lost (server.go:724), and branches end differently |
| `MCBank_deleted.cfg` (`MCBank`) | `CommittedIsKept` | the abort of the transaction whose deposit opened an account deletes it (server.go:470), with the balance that another has committed there |

`MCRaftOldEntry.cfg` follows part of the behaviours of a five-peer group only: those in
which two candidates take turns. Every step it takes is a step of `RaftTimely`, from
`Init`. Three peers cannot show it, for a reason of the code: `TurnLeader` sets
`matchIndex[me]` to 0 and only `Start` raises it, so that a leader counts itself only
once its log ends with an entry of its own term. Until then an old entry needs both
followers, and nobody is left who could win without it. The same is true of four peers,
and both are proved (`StateMachineSafe`).

One more is stated where it bites: config.go:154 has `break` and after it the comment
"keep reading after error so that Raft doesn't block holding locks...". A reader that
has found an error therefore leaves its peer blocked with `rf.mu` held at its next
command, and a test that then calls `Start` or `GetState` on that peer never ends.
`TestEnds` excepts just this case.

## 4. What is proved

The theorems hold for every value of the constants that the modules' assumptions
allow: any set of peers, nodes or branches, any number of terms, elections, entries,
messages or transactions. Where one needs more than that it is a hypothesis of the
theorem, and is named below: the timely environment and the size of the group for
Raft, one message per `Read` for the bank, one message at a time for the order in `Isis`.

- **`TypeCorrect`** (`RaftProofs`): `Spec => []TypeOK`. The inductive invariant
  `TypeInv` adds that a peer that campaigns or leads is in a term (else `Start` would
  append an entry without one) and that `applied` has no holes up to `commitIndex`
  (else `applymsg`, modelled by `Deliver`, would leave a gap).
- **`LogsAscendAlways`** (`RaftProofs`): `Spec => []LogsAscend`, with no assumption
  on timing. The log alone is not inductive: what a heartbeat carries was copied
  earlier. The invariant says that the copied entries also ascend, none earlier
  than `PrevLogTerm` or later than `args.Term`.
- **`LeaderAppendsOnly`** (`RaftProofs`): `LeaderAppendOnly`, step by step.
- **`ElectionSafe`** (`RaftElectionProofs`): with `OnTime` and `Settled`,
  `TimelySpec => []ElectionSafety`. `Fresh` is not needed. The code makes this less than obvious: `TurnFollower(term, NULL)` forgets a vote without a change of
  term. The argument: a peer that forgets is a candidate or leader, and
  the vote it forgets is its own (`Standing`); a vote for another is remembered as
  long as the term lasts (`VotesKept`), so that no peer votes for two others
  (`OneVote`); a leader has a majority of votes of its present term (`Elected`, which
  is where the two assumptions enter); two majorities meet
  (`MajoritiesMeet`), and the peer in both is neither of the leaders.
  Each step is summed up for one peer as one of five things (`PeerStep`), so that the
  invariants are checked against those and not against ten actions.
- **`LeadersWereElected`** (`RaftElectionProofs`): `Spec => []LeaderWonAnElection`, with
  no assumption on timing. `CountsAreOld` says that a peer has held no election of a
  later term, nor of its own term before `startElection` has run, so that the `voteNum`
  it sets is a new one; `VotesAreCounted` that every vote asked for or given belongs to
  an election that has begun.
- **`LogsMatch`** (`RaftElectionProofs`): with `OnTime` and `Settled`,
  `TimelySpec => []LogMatching`. What is compared, one step of the consistency check at
  a time, is a link: an index, its entry and the term of the entry before it. The
  invariant `MatchInv` is about all links there are, in logs and in requests under way:
  index and term determine a link (`OneLink`); somebody has led in the term of each
  (`EntriesWon`), nobody else ever will (`Winner`), and its log is as long as the links of
  its term are high (`LeaderHasIndex`), so that `Start` makes a new one. Two logs with a
  common link agree below it: else take the highest index at which they differ, and the
  link after it. `Fresh` is not needed.
- **`StateMachineSafe`**, **`LeadersAreComplete`** and **`OneLogApplied`**
  (`RaftCommitProofs`): with `OnTime`, `Settled` and `Fresh` and at most four peers,
  `TimelySpec` implies `[]StateMachineSafety`, `[]LeaderCompleteness` and
  `AppliesOneLog`, for every number of terms, entries, commands and heartbeats under way.
  Commands may come at any time, also while heartbeats are under way; what is lost is
  the success of a heartbeat that a command has overtaken. Without that the code is
  not right (`raft_match_index`), nor beyond four peers: `MCRaftOldEntry.cfg` is
  the counterexample with five. The argument is below.
- **`OnlyRefusalsPanic`** (`RaftCommitProofs`): under the same assumptions,
  `TimelySpec => []PanicsOnlyRefused`: a peer panics only if its `nextIndex` for somebody
  has fallen below 1, which only refusals bring about (`MCRaft_refused_twice.cfg`). That `len(rf.log)`, one too many, is never reached by
  the commit index a follower takes over needs `CommitInv`: what the heartbeat says is
  committed is in the log of a follower that accepts it. That `nextIndex` never passes
  the end of the leader's log (`NextInLog`) is what keeps `rf.log[nextIndex:]` in range.

The argument for commitment. `sendHeartBeat` counts followers whose `matchIndex` has
reached an index, and never asks whether the entry there is of its own term
(raft.go:517). What saves a small group is that `TurnLeader` sets `matchIndex[me]` to 0,
so that a leader does not count itself before its log ends in an entry of its own term.

- The log `p` of a leader of term `t` is `Secure` with a set `Q` of peers if all of `Q`
  have `p` at the head of their logs, and so do every leader of `t` or later, every
  request of such a leader once accepted, and every candidate that has the vote of one
  of `Q`; and, where `p` ends in an entry of term `t`, every log as good as `p` in the
  sense of `RequestVote`. A step keeps this if `Q` `Guards` `p`: nobody is elected after
  `t` without the vote of one of `Q`, and either `p` ends in an entry of `t` or
  everybody who is past `t` is one of `Q`. The second is the way out for entries of
  older terms: then `Q` has to be everybody.
- A leader's log is secure with the peers that have acknowledged all of it (`Acked`),
  whenever these guard it (`LeadersSecure`). This needs no majority yet, and it is
  inductive because an acknowledgement speaks of the log as it still is
  (`HeartBeatsTimely`, `MatchIndexKnown`, where `OnTime` and `Fresh` enter).
- A request that a command has overtaken carries a first part of the leader's log and
  still reaches followers. It takes nothing away: it fits the log it was copied from
  (`Fits`), so that a follower keeps the head of that log that it has (`AcceptKeeps`),
  and unless it carries the log to its end (`Reaches`) it leaves nobody with a log as
  good that was not so before (`ShortRequest`).
- When the leader commits, its log becomes `Committed` (`LeaderCommits`): secure with a
  `Q` that every majority meets. If it counted itself, its log ends in an entry of
  its own term. If it did not, a majority of the group had to come from the others: with
  up to four peers that is all of them, and with the leader `Q` is everybody.
- What is committed stays so (`CommittedStep`), and of two committed logs one begins with
  the other (`CommittedAgree`): the later leader has the earlier log.
- `CommitInv` adds that what a peer has applied is the head of its log and of a committed
  one (`AppliedCommitted`), and that the `leaderCommit` of a request is within one
  (`CommitsCarried`). The three theorems follow; for the refinement, `OrderInv` adds that
  no log is longer than `MaxLog`, the largest batch that `AgreedOrder` delivers.

- **`CommitmentIsAtomic`** (`BankProofs`): with `OneMessagePerRead` (`MaxRead = 1`),
  `Spec => BranchesEndAlike`: every step is a step of `AtomicCommit` or leaves the
  outcomes alone. The assumption is about TCP, not about the bank, and is needed:
  `MCBank_coalesced.cfg` violates the property with two messages in one `Read`. The
  invariant `PhaseInv` says, for each state of the client, where the transaction is:
  `IdlePhase`; a command that travels, is executed or was refused; `VotingPhase`, where
  the branches counted so far are prepared and will not refuse; `DecidedPhase` and
  `FinishedPhase`; and `DoomedPhase`, in which the count of COMMIT_READYs stays one short
  for ever. That nothing but an order to abort ever follows a message of the same
  transaction on its connection (`OnlyAbortFollows`) is what makes a refused branch stay
  refused. A step changes the messages, handlers and outcomes of one transaction, and
  keeps the phase of every other (`SameForKeeps`).
- **`AbortsLeaveNothing`** (`BankProofs`): with the same assumption,
  `Spec => []AbortLeavesNothing`. The phases show that a command opens an account or
  writes only while every branch still works on its transaction (`BankStores`), so that
  nothing comes after `DoAbort`; the rest is what one step does to a store
  (`StoreKeeps`).
- **`TypeCorrect`** (`BankProofs`): with the same assumption, `Spec => []TypeOK`. Balances
  are sums of tentative writes, which `CountProofs` shows to be integers; that the
  count of COMMIT_READYs stays within the group follows from the phases (`CountBound`).
- **`ReadsAlwaysStand`** (`BankProofs`): with the same assumption,
  `Spec => []ReadsStand`. The invariant `ReadHolds` says of every read of a transaction
  that is not aborted: it is still in `RTS`, because what `DoAbort` removes, whichever
  positions it looks at, are reads of its own transaction (`ForgetKeeps`); no
  earlier transaction has a tentative write on the account, since the read found none
  and the write rule refuses one below a read; the account is the one that was read,
  unless its creator has been aborted; and its balance has not changed below the
  reader's timestamp. The last is where a commit could hurt: `DoCommit` sums the tentative
  writes up to its own timestamp, none of which is below the read.

- **`TypeCorrect`** (`IsisProofs`): `Spec => []TypeOK`. `TypeInv` adds that nothing under
  way is about a message not sent, that a thread holds the kind of wire its place asks
  for, and that `node_n[n]` is the number of nodes less that of the threads of `n` whose
  connection has ended (`CountOK`); as at most one node dies and `n` lives, it stays above
  zero.
- **`AgreementFindsAll`** (`IsisProofs`): `Spec => []AgreedByAll`, for any number of nodes
  and of messages under way at once. A thread marks a message, floods it and only then
  proposes, while the other threads of its node read on. `ReceivedOnce` says that
  just one thread takes the message. `AgreementInv` follows a message from there: a node
  that has yet to propose knows nothing of it, and nobody has a proposal of that node
  (`PendingUnknown`); a node proposes one priority, recognised by its last digit
  (`OneProposal`), and keeps it in its heap until the message is agreed
  (`ProposedHere`); what is agreed is the highest and the only one
  (`AgreedHighest`, `OneAgreement`) and finds the message at every node (`AgreedFinds`).
  The step that needs an argument is the decision: as many different priorities as there
  are nodes, one for each, means that every node has proposed (`EveryNodeProposed`). To the
  agreements every step is one of four: it proposes, decides, hands over, or stands still.
  With a dead node the count of proposals is another one, and the invariant is
  not claimed.
- **`MoneyAlwaysKept`** (`IsisProofs`): `Spec => []MoneyKept`, whoever dies. The
  balances add up to the deposits applied so far (`Balanced`, with the sums of
  `CountProofs`); this needs every message applied once. What a node has handed over and
  not applied is in the hands of just one thread (`AppliedOnce`); a message has one entry
  in a heap and none once it is handed over (`QueuedOnce`), so that `deliver` never hands
  it over twice; and a node that has yet to propose a message has neither an entry for it
  nor handed it over (`PendingNew`), so that what it then puts there is new. The
  only assumption is that there are finitely many accounts.
- **`OneOrderOneByOne`** (`IsisProofs`): with `OneByOne`, `Spec => OneOrder`: every step
  of `deliverMsg` is a step of `AgreedOrder`, for any number of nodes and of messages and
  any interleaving of the threads. `OneByOne` says that nobody dies, that a message is
  sent only when each one before it has been marked as agreed by some node, and that
  there are finitely many. More is not to be had: with two messages at once `isis_order`
  shows the order to break. One message at a time does not make it obvious: when the next
  is sent, the agreement on the last may be known to a single node, and the others
  propose for the new one with the old one still in their heaps.
  What is decided is `Settled` (here, of a message): every node has proposed for it and
  keeps it until it hands it over. `WithinProSeq` says that no node has a priority above
  its `proSeq`, so that what it proposes next is above all it has proposed; the highest
  of these is then above every proposal for the settled message (`HighestIsAbove`).
  `Precedes` is that relation between two messages, and every step keeps it
  (`PrecedesKept`). The messages sent are in a line (`OneLine`) in which each precedes
  all that follow, and each node has handed over a first part of it (`HandsInLine`): a
  message that is popped has all that precede it popped before it. The other invariants
  serve here again:
  `AgreementInv` for what is known of a message and `QueuedOnce` for one entry each.
- **`TrueAlwaysMeansServed`** (`LabrpcProofs`): `Spec => []TrueMeansServed`. `TypeInv`
  relates how far a call is to how far its handler is, and says that a call that waits
  knows a server that has been made. The argument (`LateKnown`): a handler that
  returned after its server was gone stays late, because `AddServer` never gives an
  old number again; so the second look at the server finds it gone,
  and no reply of such a handler is under way.
- **`FalseAlwaysHasReason`** (`LabrpcProofs`): `Spec => []FalseHasReason`. The invariant
  `Untroubled` is about the calls not in `trouble`: the network is in order for their
  end, and the server they found is still the one it leads to, so that none of the
  ways to return false is open to them.
- **`DisagreementAlwaysNoticed`** (`TesterProofs`): `Spec => []DisagreementNoticed`.
  `ReadersOK` says that a reader that records has a message. An error once found is
  never lost (`NoticedForGood`); one that records without an error leaves agreement
  and no gap (`RecordedOrBad`), because it compares with all peers under `cfg.mu`.
- **`ReturnedIsAlwaysCommitted`** (`TesterProofs`): `Spec => []ReturnedIsCommitted`.
  `nCommitted` looks at one peer after another with `cfg.mu` released in between. The
  invariant `CountInv` says that the value it has counted so far is held by as many of
  the peers it has looked at, or an error is on its way: what a reader has recorded
  changes only when one is noticed (`RecordedStays`).
- **`TypeCorrect`** (`LabrpcProofs`, `TesterProofs`): `Spec => []TypeOK`. For `Labrpc`,
  a call from `readEndnameInfo` on knows a server that was made; for `Tester`, a reader
  has a message exactly when it records, and `nCommitted` a value exactly when it has
  counted one.
- **`PartitionedAlways`** (`TesterProofs`): `Spec => []Partitioned`, which is inductive
  with `connected \subseteq Peer`.

Only model-checked:

- liveness (`LeaderBeats`, `LoopCampaigns`, `AllDelivered`, `CallReturns`,
  `NoneLeftBehind`, `TestEnds`), which the prover does not treat;
- `OneOrder` of `Isis` when a node may die, which `isis_delivery` checks with one
  message at a time.

## 5. What is not modelled

- labgob: it wraps `encoding/gob` and warns; nothing of a protocol.
- Of labrpc: counts of RPCs and bytes, the look-up of services by reflection.
- Of the tester: `checkOneLeader`, `checkTerms` and `checkNoLeader`, which ask and
  compare (what they ask for is `ElectionSafety` of `Raft`), the two-minute limit,
  the counts of `begin` and `end`. Its calls of `Enable` are one step for one peer.
- Persistence: the code has none; a killed peer does not come back.
- mp0, the plotting and generating scripts: pure I/O.
- `isis_l.py`, `isis_new.py`, `mp1_node_new.py`: drafts that the node does not import.
- Of mp3: `DoCommit` puts a new mutex into the account (server.go:538), so that a handler
  that waited for the old one unlocks the new one, and a handler that waits while
  the account is deleted finds a nil one. Either is a further way to panic, and what a
  panic does is modelled.
- Of mp1: a connection that ends with `ConnectionResetError` (mp1_node.py:166), which ends
  the thread without lowering `node_n`; that `msg.priority = decided_seq`
  (mp1_node.py:193) changes an object that is still in `allproposed`, and the steps
  between two announcements there, both of which take two open messages at a death.
- Of mp1: a `recv(256)` that returns part of a message (mp1_node.py:166), two
  transactions typed at the same `time.time()`, which is their id, and the second of two deaths.
- Two threads of a node may apply what they were handed in the other order
  (mp1_node.py:268): the balances of two nodes may then differ for good. The model has
  it; no property denies it.
- The maps of mp3 that handlers share without a lock (server.go:631) are not torn.
- Reading the terminal, configuration files and start-up of `mp3`: the initial state
  has all branches connected.

## 6. Plan

Done in this order, the most important behaviour first: `Raft`, `RaftTimely`,
`RaftTimers`, proofs of types, logs and elections, `Bank` with `AtomicCommit`, `Isis`
with `AgreedOrder`, `Labrpc`, `Tester`, proofs of what calls return and of what the
tester notices and returns, of matching logs, of atomic commitment and of reads, of
agreements and of money in `Isis`, of commitment in groups of up to four Raft peers, and
of the one order in `Isis`.

Two things stay with TLC: the liveness properties, and what the nodes of `Isis` hand over
when one of them dies. For the latter the invariants that say "as long as nobody has died"
would need a count of proposals that knows whose have come in.
