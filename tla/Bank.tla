-------------------------------- MODULE Bank --------------------------------
(***************************************************************************)
(* The branches of mp3/server/server.go, their clients                     *)
(* (mp3/client/client.go) and the TCP connections between branches.        *)
(*                                                                         *)
(* A client runs one transaction, against a branch it picks to be its      *)
(* coordinator, and sends a command when it has the reply to the last.     *)
(* The coordinator forwards a command on another branch's account to that  *)
(* branch, whose reply it passes on.  Timestamps order the transactions;   *)
(* commitment is in two phases, run by the coordinator.                    *)
(*                                                                         *)
(* One step is what a goroutine does between two places where it waits,    *)
(* for a message, for mu_TW or for an account's mu.  The maps that the     *)
(* handlers of one branch share are not torn: DoAbort, which takes no      *)
(* lock, is one step, and one that may come while DoCommit has mu_TW.      *)
(***************************************************************************)
EXTENDS Integers, Sequences, FiniteSets, FiniteSetsExt

CONSTANTS
    Branch,
    Account,        \* the names of accounts, the same at every branch
    Transactions,   \* how many transactions there are
    NULL,           \* no account, no coordinator
    Commands,       \* Commands[t]: the kinds of command that t's client sends
    Deserters,      \* the transactions whose client may exit in the middle
    MaxOps,         \* bound: commands before a transaction's COMMIT or ABORT
    MaxActive,      \* bound: transactions that run at the same time
    MaxRead         \* bound: messages that one Read of a connection returns

ASSUME BranchAssumption == IsFiniteSet(Branch) /\ Branch # {} /\ NULL \notin Branch
ASSUME CountAssumption == {Transactions, MaxOps, MaxActive, MaxRead} \subseteq Nat

\* The timestamps of the transactions, from their clients' clocks.  They may
\* begin in any order.
Tx == 1..Transactions

ASSUME ClientAssumption ==
    /\ Commands \in [Tx -> SUBSET {"DEPOSIT", "WITHDRAW", "BALANCE"}]
    /\ Deserters \subseteq Tx

VARIABLES
    accounts,       \* sv.accounts of every branch
    TW,             \* TW[b][a]: tentative writes, by transaction
    RTS,            \* RTS[b]: the reads of every account that has been read
    commitCount,    \* COMMIT_READYs that t's coordinator has counted
    up,             \* the server has not panicked
    link,           \* link[b][c]: messages on the connection from b to c
    jobs,           \* handlers that wait in the middle: "lock" with an
                    \* account's mu and without mu_TW, "wait" and "stuck" in
                    \* read, "spin" in DoCommit, "abort" before DoAbort
    client,         \* what the client of t does
    coordinator,    \* the branch that t's client is connected to
    ops,            \* how many commands t's client has sent
    outcome,        \* what branch b has made of t: see AtomicCommit
    seen            \* committed balances that t has been told, of an account
                    \* that a transaction has created

store == <<accounts, TW, RTS>>
session == <<client, coordinator, ops>>
vars == <<store, commitCount, up, link, jobs, session, outcome, seen>>

\* Amounts are units.  "from" is not in the code: whose writes the committed
\* value is made of.
OpenAccount ==
    [value : Int, timestamp : 0..Transactions, created : Tx, from : SUBSET Tx]

ASSUME AccountAssumption == NULL \notin OpenAccount

NewAccountUndated(t) == [value |-> 0, timestamp |-> 0, created |-> 0, from |-> {}]
NewAccount(t) == [value |-> 0, timestamp |-> 0, created |-> t, from |-> {}]

Operation ==
    [kind : {"DEPOSIT", "WITHDRAW", "BALANCE"}, tx : Tx, branch : Branch,
     account : Account]

Notice ==
    [kind : {"OK", "ABORTED", "NOT", "ABORT_Coordinator", "COMMIT_PREPARE",
             "COMMIT_READY", "COMMIT_OK"}, tx : Tx]

Init ==
    /\ accounts = [b \in Branch |-> [a \in Account |-> NULL]]
    /\ TW = [b \in Branch |-> [a \in Account |-> <<>>]]
    /\ RTS = [b \in Branch |-> <<>>]
    /\ commitCount = [t \in Tx |-> 0]
    /\ up = [b \in Branch |-> TRUE]
    /\ link = [b \in Branch |-> [c \in Branch |-> <<>>]]
    /\ jobs = {}
    /\ client = [t \in Tx |-> "new"]
    /\ coordinator = [t \in Tx |-> NULL]
    /\ ops = [t \in Tx |-> 0]
    /\ outcome = [t \in Tx |-> [b \in Branch |-> "working"]]
    /\ seen = [t \in Tx |-> {}]

-----------------------------------------------------------------------------
(***************************************************************************)
(* Messages, locks and panics.                                             *)
(***************************************************************************)
Send(l, b, c, m) == [l EXCEPT ![b][c] = Append(@, m)]

Broadcast(l, b, m) ==
    [l EXCEPT ![b] = [c \in Branch |-> IF c = b THEN @[c] ELSE Append(@[c], m)]]

Notify(kind, t) == [kind |-> kind, tx |-> t]

\* A Read returns what has arrived: the first k messages run together.
Consumed(c, b, k) == [link EXCEPT ![c][b] = SubSeq(@, k + 1, Len(@))]

\* The handleBranch goroutine of c in b is back in readClient.
Idle(b, c) == \A j \in jobs : ~(j.branch = b /\ j.source = c)

\* mu_TW: DoCommit keeps it for as long as it goes round its loop, or waits
\* for an account.
LockFree(b) == \A j \in jobs : ~(j.branch = b /\ j.do = "spin")

\* The mu of account a, which readers share.
AccountFree(b, op) ==
    \A j \in jobs :
        ~ /\ j.do = "lock" /\ j.branch = b /\ j.op.account = op.account
          /\ op.kind # "BALANCE" \/ j.op.kind # "BALANCE"

\* A panic in any goroutine ends the server.
Panic(b) ==
    /\ up' = [up EXCEPT ![b] = FALSE]
    /\ UNCHANGED <<store, commitCount, link, jobs, session, outcome, seen>>

\* A reply to t's client, through its coordinator if that is not b.
Reply(b, t, kind, l) ==
    IF coordinator[t] = b
    THEN /\ client' = [client EXCEPT ![t] =
                          IF kind = "OK" THEN "ready" ELSE "ended"]
         /\ link' = l
    ELSE /\ link' = Send(l, b, coordinator[t], Notify(kind, t))
         /\ UNCHANGED client

Job(do, b, c, t) == [do |-> do, branch |-> b, source |-> c, tx |-> t]

-----------------------------------------------------------------------------
(***************************************************************************)
(* The store of a branch.                                                  *)
(***************************************************************************)
Written(b, a) == DOMAIN TW[b][a]

Value(b, a) == IF accounts[b][a] = NULL THEN 0 ELSE accounts[b][a].value
Timestamp(b, a) ==
    IF accounts[b][a] = NULL THEN 0 ELSE accounts[b][a].timestamp

\* The tentative writes to a up to t, summed.
Tentative(b, a, t) ==
    MapThenSumSet(LAMBDA u : TW[b][a][u], {u \in Written(b, a) : u <= t})

Reads(b, a) == IF a \in DOMAIN RTS[b] THEN RTS[b][a] ELSE <<>>

\* The write rule.  A committed write is only looked at when there are
\* tentative ones.
MayWriteUnderRead(b, a, t) == Written(b, a) = {} \/ t > Timestamp(b, a)
MayWrite(b, a, t) ==
    /\ \A k \in 1..Len(Reads(b, a)) : t >= Reads(b, a)[k]
    /\ Written(b, a) = {} \/ t > Timestamp(b, a)

Amount(op) == IF op.kind = "DEPOSIT" THEN 1 ELSE -1

\* f with v added to its value at t, or v there if it had none.
Added(f, t, v) ==
    [u \in DOMAIN f \cup {t} |->
        IF u # t THEN f[u] ELSE IF t \in DOMAIN f THEN f[t] + v ELSE v]

Removed(f, t) == [u \in DOMAIN f \ {t} |-> f[u]]

\* The reply of a handler that refuses op; it has DoAbort yet to call.
Refuse(b, op, l, rest) ==
    /\ Reply(b, op.tx, IF op.kind = "DEPOSIT" THEN "ABORTED" ELSE "NOT", l)
    /\ jobs' = rest \cup {Job("abort", b, coordinator[op.tx], op.tx)}
    /\ UNCHANGED <<TW, RTS, seen>>

NotFound(b, op, l, rest) ==
    /\ op.kind # "DEPOSIT"
    /\ accounts[b][op.account] = NULL
    /\ Refuse(b, op, l, rest)
    /\ UNCHANGED accounts

\* read, of an account that was written at or after t.
ReadTooLate(b, op, l, rest) ==
    /\ op.kind = "BALANCE"
    /\ accounts[b][op.account] # NULL
    /\ op.tx <= Timestamp(b, op.account)
    /\ Refuse(b, op, l, rest)
    /\ UNCHANGED accounts

\* The rest of read and write up to mu_TW, with the account's mu.  A deposit
\* opens the account, even if it is then refused.
Enter(b, op, l, rest) ==
    LET a == op.account
        t == op.tx
    IN  /\ \/ op.kind = "DEPOSIT"
           \/ accounts[b][a] # NULL /\ (op.kind = "BALANCE" => t > Timestamp(b, a))
        /\ AccountFree(b, op)
        /\ accounts' = [accounts EXCEPT ![b][a] =
                           IF @ = NULL THEN NewAccount(t) ELSE @]
        /\ jobs' = rest \cup
               {[do |-> "lock", branch |-> b, source |-> coordinator[t],
                 tx |-> t, op |-> op]}
        /\ client' = [client EXCEPT ![t] = "asked"]
        /\ link' = l
        /\ UNCHANGED <<TW, RTS, seen>>

\* A command on an account of branch b.
Execute(b, op, l, rest) ==
    /\ \/ NotFound(b, op, l, rest)
       \/ ReadTooLate(b, op, l, rest)
       \/ Enter(b, op, l, rest)
    /\ UNCHANGED <<commitCount, up, coordinator, outcome>>

\* The rest of write.
Write(b, op, rest) ==
    /\ op.kind # "BALANCE"
    /\ IF MayWrite(b, op.account, op.tx)
       THEN /\ TW' = [TW EXCEPT ![b][op.account] = Added(@, op.tx, Amount(op))]
            /\ Reply(b, op.tx, "OK", link)
            /\ jobs' = rest
            /\ UNCHANGED <<RTS, seen>>
       ELSE Refuse(b, op, link, rest)
    /\ UNCHANGED <<accounts, commitCount, up, coordinator, ops, outcome>>

\* The rest of read: the committed value if no earlier write is tentative; a
\* sum of tentative ones if the last of them is its own; else it waits.
Read(b, op, rest) ==
    LET a == op.account
        t == op.tx
        earlier == {u \in Written(b, a) : u <= t}
        TS == Max(earlier \cup {Timestamp(b, a)})
    IN  /\ op.kind = "BALANCE"
        /\ accounts[b][a] # NULL
        /\ \/ /\ earlier = {}
              /\ RTS' = [RTS EXCEPT ![b] =
                            [x \in DOMAIN @ \cup {a} |->
                                IF x = a THEN Append(Reads(b, a), t) ELSE @[x]]]
              /\ seen' = [seen EXCEPT ![t] = @ \cup
                             {[branch |-> b, account |-> a, value |-> Value(b, a),
                               created |-> accounts[b][a].created]}]
              /\ Reply(b, t, "OK", link)
              /\ jobs' = rest
           \/ /\ t \in earlier
              /\ Reply(b, t, "OK", link)
              /\ jobs' = rest
              /\ UNCHANGED <<RTS, seen>>
           \/ /\ earlier # {} /\ t \notin earlier
              /\ jobs' = rest \cup
                     {[do |-> "wait", branch |-> b, source |-> coordinator[t],
                       tx |-> t, op |-> op, writer |-> TS]}
              /\ UNCHANGED <<RTS, seen, client, link>>
        /\ UNCHANGED <<accounts, TW, commitCount, up, coordinator, ops, outcome>>

\* DoAbort takes the number of accounts read for the length of every list of
\* reads: it goes past the end of a list that is left shorter than that, and
\* keeps what follows that many reads of others.
ReadsOfOthers(s, t, k) == Cardinality({i \in 1..k : s[i] # t})

AbortPanics(b, t) ==
    \E a \in DOMAIN RTS[b] :
        ReadsOfOthers(RTS[b][a], t, Len(RTS[b][a])) < Cardinality(DOMAIN RTS[b])

Forget(s, t, n) ==
    LET kept == {k \in 1..Len(s) : s[k] # t \/ ReadsOfOthers(s, t, k) >= n}
        at(k) == CHOOSE i \in kept : Cardinality({j \in kept : j <= i}) = k
    IN  [k \in 1..Cardinality(kept) |-> s[at(k)]]

KeepAccounts(b, t) == accounts
WithoutNew(b, t) ==
    [accounts EXCEPT ![b] =
        [a \in Account |->
            IF @[a] # NULL /\ @[a].created = t THEN NULL ELSE @[a]]]

DoAbort(b, t) ==
    /\ ~AbortPanics(b, t)
    /\ TW' = [TW EXCEPT ![b] = [a \in Account |-> Removed(@[a], t)]]
    /\ RTS' = [RTS EXCEPT ![b] =
                  [a \in DOMAIN @ |-> Forget(@[a], t, Cardinality(DOMAIN @))]]
    /\ accounts' = WithoutNew(b, t)
    /\ outcome' = [outcome EXCEPT ![t][b] = "aborted"]

\* CheckCommit: the balances t would leave, if it wrote here at all.
CanCommit(b, t) ==
    (\E a \in Account : t \in Written(b, a)) =>
        \A a \in Account : Value(b, a) + Tentative(b, a, t) >= 0

\* DoCommit never gets past the tentative write of a later transaction.
Hangs(b, t) == \E a \in Account : \E u \in Written(b, a) : u > t

\* DoCommit locks the account, which an abort may have deleted.
CommitPanics(b, t) ==
    \E a \in Account : t \in Written(b, a) /\ accounts[b][a] = NULL

\* It waits for the account, whose holder may be waiting for mu_TW.
AccountLocked(b, t) ==
    \E j \in jobs : /\ j.do = "lock" /\ j.branch = b
                    /\ t \in Written(b, j.op.account)

\* The newAccount of DoCommit.
AccountAfter(b, a, t) ==
    [accounts[b][a] EXCEPT
        !.value = @ + Tentative(b, a, t),
        !.timestamp = t,
        !.from = @ \cup {u \in Written(b, a) : u <= t}]

\* It also puts a new mutex into the account, which a handler that waits for
\* the old one would then unlock: a panic more, which is not modelled.
DoCommit(b, t) ==
    /\ TW' = [TW EXCEPT ![b] = [a \in Account |-> Removed(@[a], t)]]
    /\ accounts' = [accounts EXCEPT ![b] =
          [a \in Account |->
              IF t \in Written(b, a) THEN AccountAfter(b, a, t) ELSE @[a]]]
    /\ outcome' = [outcome EXCEPT ![t][b] = "committed"]
    /\ UNCHANGED RTS

-----------------------------------------------------------------------------
(***************************************************************************)
(* handleConnection and handleOperation: the client and its coordinator.   *)
(***************************************************************************)
Active == {t \in Tx : client[t] \notin {"new", "ended"}}

\* BEGIN and connect_server.
Begin(t, b) ==
    /\ client[t] = "new"
    /\ Cardinality(Active) < MaxActive
    /\ up[b]
    /\ client' = [client EXCEPT ![t] = "ready"]
    /\ coordinator' = [coordinator EXCEPT ![t] = b]
    /\ UNCHANGED <<store, commitCount, up, link, jobs, ops, outcome, seen>>

Ready(t) == client[t] = "ready" /\ up[coordinator[t]]

Command(t, op) ==
    LET b == coordinator[t]
    IN  /\ Ready(t)
        /\ op.tx = t
        /\ op.kind \in Commands[t]
        /\ ops[t] < MaxOps
        /\ ops' = [ops EXCEPT ![t] = @ + 1]
        /\ \/ /\ op.branch = b
              /\ Execute(b, op, link, jobs)
           \/ /\ op.branch # b
              /\ link' = Send(link, b, op.branch, op)
              /\ client' = [client EXCEPT ![t] = "asked"]
              /\ UNCHANGED <<store, commitCount, up, jobs, coordinator,
                             outcome, seen>>

\* CheckCommit calls DoAbort itself when it fails; its callers call it again.
AskCommit(t) ==
    LET b == coordinator[t]
    IN  /\ Ready(t)
        /\ LockFree(b)
        /\ IF CanCommit(b, t)
           THEN /\ commitCount' = [commitCount EXCEPT ![t] = 0]
                /\ outcome' = [outcome EXCEPT ![t][b] = "prepared"]
                /\ link' = Broadcast(link, b, Notify("COMMIT_PREPARE", t))
                /\ client' = [client EXCEPT ![t] = "committing"]
                /\ UNCHANGED <<store, up, jobs, coordinator, ops, seen>>
           ELSE IF AbortPanics(b, t) THEN Panic(b)
           ELSE /\ DoAbort(b, t)
                /\ link' = Broadcast(link, b, Notify("ABORT_Coordinator", t))
                /\ client' = [client EXCEPT ![t] = "ended"]
                /\ jobs' = jobs \cup {Job("abort", b, b, t)}
                /\ UNCHANGED <<commitCount, up, coordinator, ops, seen>>

\* DoAbort, then the branches and the client are told.  It exits and the
\* connections are closed; survives says whether the server lives on.
AbortEverywhere(b, t, l, survives) ==
    IF AbortPanics(b, t) THEN Panic(b)
    ELSE /\ DoAbort(b, t)
         /\ link' = Broadcast(l, b, Notify("ABORT_Coordinator", t))
         /\ client' = [client EXCEPT ![t] = "ended"]
         /\ up' = [up EXCEPT ![b] = survives]
         /\ UNCHANGED <<commitCount, jobs, coordinator, ops, seen>>

AskAbort(t) ==
    /\ Ready(t)
    /\ AbortEverywhere(coordinator[t], t, link, TRUE)

\* The client exits: handleConnection reads an empty string, and Init panics.
Desert(t) ==
    /\ t \in Deserters
    /\ client[t] \in {"ready", "asked"}
    /\ \A j \in jobs : ~(j.tx = t /\ j.branch = coordinator[t])
    /\ up[coordinator[t]]
    /\ Panic(coordinator[t])

-----------------------------------------------------------------------------
(***************************************************************************)
(* handleBranch: branch b reads k messages from branch c, and handles the  *)
(* first.                                                                  *)
(***************************************************************************)
Reading(c, b, k, kinds) ==
    /\ up[b]
    /\ Idle(b, c)
    /\ k <= Len(link[c][b])
    /\ link[c][b][1].kind \in kinds

\* A command with more words than its own makes Init panic.
Forwarded(c, b, k) ==
    /\ Reading(c, b, k, {"DEPOSIT", "WITHDRAW", "BALANCE"})
    /\ IF k = 1
       THEN /\ Execute(b, link[c][b][1], Consumed(c, b, k), jobs)
            /\ UNCHANGED ops
       ELSE Panic(b)

\* Anything else is a reply, for the client that the last word names.  One
\* that waits for COMMIT is told too, but nobody listens to it any more.
Replied(c, b, k) ==
    LET t == link[c][b][k].tx
    IN  /\ Reading(c, b, k, {"OK"})
        /\ IF coordinator[t] # b
           THEN Panic(b)
           ELSE /\ link' = Consumed(c, b, k)
                /\ client' = [client EXCEPT ![t] =
                                 IF @ = "asked" THEN "ready" ELSE @]
                /\ UNCHANGED <<store, commitCount, up, jobs, coordinator, ops,
                               outcome, seen>>

\* Until COMMIT, handleConnection waits for the client's next command.  It
\* panics if the client is gone before handleBranch has closed the connection.
Refused(c, b, k) ==
    LET t == link[c][b][1].tx
    IN  /\ Reading(c, b, k, {"ABORTED", "NOT"})
        /\ \E survives \in BOOLEAN :
              /\ client[t] # "asked" => survives
              /\ AbortEverywhere(b, t, Consumed(c, b, k), survives)

AbortOrdered(c, b, k) ==
    LET t == link[c][b][1].tx
    IN  /\ Reading(c, b, k, {"ABORT_Coordinator"})
        /\ IF AbortPanics(b, t) THEN Panic(b)
           ELSE /\ DoAbort(b, t)
                /\ link' = Consumed(c, b, k)
                /\ UNCHANGED <<commitCount, up, jobs, session, seen>>

Prepare(c, b, k) ==
    LET t == link[c][b][1].tx
        answer(kind) == Send(Consumed(c, b, k), b, c, Notify(kind, t))
    IN  /\ Reading(c, b, k, {"COMMIT_PREPARE"})
        /\ LockFree(b)
        /\ IF CanCommit(b, t)
           THEN /\ outcome' = [outcome EXCEPT ![t][b] = "prepared"]
                /\ link' = answer("COMMIT_READY")
                /\ UNCHANGED <<store, commitCount, up, jobs, session, seen>>
           ELSE IF AbortPanics(b, t) THEN Panic(b)
           ELSE /\ DoAbort(b, t)
                /\ link' = answer("ABORTED")
                /\ jobs' = jobs \cup {Job("abort", b, c, t)}
                /\ UNCHANGED <<commitCount, up, session, seen>>

\* DoCommit for a message from c.  The coordinator then tells the others.
Committed(b, t, l, rest) ==
    IF CommitPanics(b, t) THEN Panic(b)
    ELSE /\ DoCommit(b, t)
         /\ IF coordinator[t] = b
            THEN /\ link' = Broadcast(l, b, Notify("COMMIT_OK", t))
                 /\ client' = [client EXCEPT ![t] = "ended"]
            ELSE link' = l /\ UNCHANGED client
         /\ jobs' = rest
         /\ UNCHANGED <<commitCount, up, coordinator, ops, seen>>

StartCommit(c, b, t, l) ==
    /\ LockFree(b)
    /\ IF Hangs(b, t) \/ AccountLocked(b, t)
       THEN /\ jobs' = jobs \cup {Job("spin", b, c, t)}
            /\ link' = l
            /\ UNCHANGED <<store, commitCount, up, session, outcome, seen>>
       ELSE Committed(b, t, l, jobs)

\* The coordinator counts; "== 4" in the code, which has five branches.
FirstReady(t) == TRUE
LastReady(t) == commitCount[t] + 1 = Cardinality(Branch) - 1

CountReady(c, b, k) ==
    LET t == link[c][b][1].tx
        l == Consumed(c, b, k)
    IN  /\ Reading(c, b, k, {"COMMIT_READY"})
        /\ ~LastReady(t)
        /\ commitCount' = [commitCount EXCEPT ![t] = @ + 1]
        /\ link' = l
        /\ UNCHANGED <<store, up, jobs, session, outcome, seen>>

CommitReady(c, b, k) ==
    LET t == link[c][b][1].tx
    IN  /\ Reading(c, b, k, {"COMMIT_READY"})
        /\ LastReady(t)
        /\ StartCommit(c, b, t, Consumed(c, b, k))

CommitOrdered(c, b, k) ==
    /\ Reading(c, b, k, {"COMMIT_OK"})
    /\ StartCommit(c, b, link[c][b][1].tx, Consumed(c, b, k))

\* A branch has gone and all it sent is read: handleBranch reads an empty
\* string, which has no first word.
PeerGone(c, b) ==
    /\ b # c
    /\ up[b] /\ ~up[c]
    /\ Idle(b, c)
    /\ link[c][b] = <<>>
    /\ Panic(b)

-----------------------------------------------------------------------------
(***************************************************************************)
(* Handlers that go on.                                                    *)
(***************************************************************************)
\* The account of a balance may have been deleted: its mu is nil then.
Locked(j) ==
    /\ j.do = "lock"
    /\ up[j.branch]
    /\ LockFree(j.branch)
    /\ \/ Write(j.branch, j.op, jobs \ {j})
       \/ Read(j.branch, j.op, jobs \ {j})
       \/ /\ j.op.kind = "BALANCE"
          /\ accounts[j.branch][j.op.account] = NULL
          /\ Panic(j.branch)

\* read looks once for the tentative write it waits for.  If it is still
\* there, flag stays false, and the loop has no other end.
Wait(j) ==
    /\ j.do = "wait"
    /\ up[j.branch]
    /\ LockFree(j.branch)
    /\ IF j.writer \in Written(j.branch, j.op.account)
       THEN /\ jobs' = (jobs \ {j}) \cup {[j EXCEPT !.do = "stuck"]}
            /\ UNCHANGED <<store, commitCount, up, link, session, outcome, seen>>
       ELSE /\ Execute(j.branch, j.op, link, jobs \ {j})
            /\ UNCHANGED ops

Abort(j) ==
    /\ j.do = "abort"
    /\ up[j.branch]
    /\ IF AbortPanics(j.branch, j.tx) THEN Panic(j.branch)
       ELSE /\ DoAbort(j.branch, j.tx)
            /\ jobs' = jobs \ {j}
            /\ UNCHANGED <<commitCount, up, link, session, seen>>

\* The write that DoCommit could not get past has been aborted.
Spin(j) ==
    /\ j.do = "spin"
    /\ up[j.branch]
    /\ ~Hangs(j.branch, j.tx)
    /\ ~AccountLocked(j.branch, j.tx)
    /\ Committed(j.branch, j.tx, link, jobs \ {j})

Client ==
    \E t \in Tx :
        \/ \E b \in Branch : Begin(t, b)
        \/ \E op \in Operation : Command(t, op)
        \/ AskCommit(t)
        \/ AskAbort(t)
        \/ Desert(t)

Server ==
    \/ \E b, c \in Branch :
          \/ \E k \in 1..MaxRead :
                \/ Forwarded(c, b, k)
                \/ Replied(c, b, k)
                \/ Refused(c, b, k)
                \/ AbortOrdered(c, b, k)
                \/ Prepare(c, b, k)
                \/ CountReady(c, b, k)
                \/ CommitReady(c, b, k)
                \/ CommitOrdered(c, b, k)
          \/ PeerGone(c, b)
    \/ \E j \in jobs : Locked(j) \/ Wait(j) \/ Abort(j) \/ Spin(j)

Next == Client \/ Server

\* Handlers that can go on do, and messages arrive.
Fairness == WF_vars(Server)

Spec == Init /\ [][Next]_vars /\ Fairness
-----------------------------------------------------------------------------
(***************************************************************************)
(* Properties                                                              *)
(***************************************************************************)
\* The maps of a branch hold what their declarations say, an open account
\* carries the timestamp of the deposit that opened it, a coordinator never
\* counts more COMMIT_READYs than there are other branches, and only commands
\* and the notices of handleBranch travel between branches.
TypeOK ==
    /\ \A b \in Branch, a \in Account :
          /\ accounts[b][a] = NULL \/ accounts[b][a] \in OpenAccount
          /\ Written(b, a) \subseteq Tx
          /\ \A t \in Written(b, a) : TW[b][a][t] \in Int
          /\ Reads(b, a) \in Seq(Tx)
    /\ \A b, c \in Branch : link[b][c] \in Seq(Operation \cup Notice)
    /\ commitCount \in [Tx -> 0..(Cardinality(Branch) - 1)]
    /\ up \in [Branch -> BOOLEAN]
    /\ client \in [Tx -> {"new", "ready", "asked", "committing", "ended"}]
    /\ coordinator \in [Tx -> Branch \cup {NULL}]
    /\ outcome \in [Tx -> [Branch ->
                        {"working", "prepared", "committed", "aborted"}]]

Promise == INSTANCE AtomicCommit WITH outcome <- outcome

\* The branches of a transaction end alike, each committing only when all of
\* them have answered its coordinator's COMMIT_PREPARE and none has aborted:
\* the two phases of handleOperation and handleBranch implement AtomicCommit.
BranchesEndAlike == Promise!Spec

\* What a transaction was told of a committed balance stays the balance it
\* would read until a later transaction commits there or the account is
\* deleted: no earlier one slips a write under a read, whenever it began and
\* however the reads that aborts forget are mixed with it.
ReadsStand ==
    \A t \in Tx : \A r \in seen[t] :
        LET a == accounts[r.branch][r.account]
            open == a # NULL /\ a.created = r.created
        IN  outcome[t][r.branch] # "aborted" /\ open /\ a.timestamp < t
                => a.value = r.value

\* Once a branch has aborted a transaction nothing of it is left there: no
\* tentative write, no account it opened, even if one of its commands, its
\* COMMIT_PREPARE and the orders to abort it crossed on the way.
AbortLeavesNothing ==
    \A t \in Tx, b \in Branch : outcome[t][b] = "aborted" =>
        \A a \in Account :
            /\ t \notin Written(b, a)
            /\ accounts[b][a] # NULL => accounts[b][a].created # t

\* No committed balance is made of a write whose transaction was aborted.
CommittedFromCommitted ==
    \A b \in Branch, a \in Account : accounts[b][a] # NULL =>
        \A t \in accounts[b][a].from, c \in Branch : outcome[t][c] # "aborted"

\* No step deletes an account with a committed balance, whoever opened it.
CommittedIsKept ==
    [][ \A b \in Branch, a \in Account :
            Timestamp(b, a) > 0 => accounts'[b][a] # NULL ]_vars

\* A balance that waits for a transaction is answered after its branch has
\* committed or aborted that transaction.
WaitEnds ==
    \A b \in Branch, t, u \in Tx :
        LET waits == \E j \in jobs :
                        /\ j.do \in {"wait", "stuck"}
                        /\ j.branch = b /\ j.tx = t /\ j.writer = u
        IN  waits /\ outcome[u][b] \in {"committed", "aborted"}
                ~> ~waits \/ ~up[b]
=============================================================================
