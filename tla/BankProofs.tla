----------------------------- MODULE BankProofs -----------------------------
(***************************************************************************)
(* What is proved about module Bank, when every Read of a connection       *)
(* returns one message: for every set of branches and of accounts and any  *)
(* number of transactions, the branches of a transaction end alike, an     *)
(* abort leaves nothing of it, what it was told of a committed balance     *)
(* stands, and everything keeps its type.                                  *)
(*                                                                         *)
(* The proofs look at one transaction at a time.  What there is of it is   *)
(* its client's state, its messages on the connections, its handlers in    *)
(* the middle and what its branches have made of it; a step changes these  *)
(* for one transaction and leaves them alone for the others.               *)
(***************************************************************************)
EXTENDS Bank, CountProofs, SequenceTheorems

OneMessagePerRead == MaxRead = 1

Message == Operation \cup Notice
Connections == [Branch -> [Branch -> Seq(Message)]]

Asks == {"DEPOSIT", "WITHDRAW", "BALANCE"}
Orders == Asks \cup {"ABORT_Coordinator", "COMMIT_PREPARE", "COMMIT_OK"}
Answers == {"OK", "ABORTED", "NOT", "COMMIT_READY"}
Kinds == Orders \cup Answers

\* What read and write leave in the middle, until they have a reply.
Executing == {"lock", "wait", "stuck"}

\* On the connections l, a message of t is on its way from b to c.
Carries(l, b, c, t, kind) ==
    \E n \in 1..Len(l[b][c]) : l[b][c][n].tx = t /\ l[b][c][n].kind = kind

\* A message that follows another of the same transaction on its connection
\* is an order to abort.
OnlyAbortFollows(l) ==
    \A b, c \in Branch : \A m, n \in 1..Len(l[b][c]) :
        m < n /\ l[b][c][m].tx = l[b][c][n].tx => l[b][c][n].kind = "ABORT_Coordinator"

NoneOf(l, t, kinds) ==
    \A b, c \in Branch, kind \in kinds : ~Carries(l, b, c, t, kind)

\* The same messages of t on l as on the connections.
SameMessages(l, t) ==
    \A b, c \in Branch : \A kind : Carries(l, b, c, t, kind) <=> Carries(link, b, c, t, kind)

\* On l a message of t has been taken from the connection from c to b.
Taken(l, c, b, t) ==
    /\ l \in Connections
    /\ OnlyAbortFollows(l)
    /\ \A u : u # t => SameMessages(l, u)
    /\ \A p, q \in Branch : \A k : Carries(l, p, q, t, k) => Carries(link, p, q, t, k)
    /\ \A p, q \in Branch : \A k : p # c \/ q # b =>
          (Carries(l, p, q, t, k) <=> Carries(link, p, q, t, k))
    /\ \A k : Carries(l, c, b, t, k) => k = "ABORT_Coordinator"

JobsOf(t) == {j \in jobs : j.tx = t}

Others(t) == Branch \ {coordinator[t]}

\* Between the coordinator of t and branch c.
ToBranch(l, t, c, kind) == Carries(l, coordinator[t], c, t, kind)
FromBranch(l, t, c, kind) == Carries(l, c, coordinator[t], t, kind)

-----------------------------------------------------------------------------
(***************************************************************************)
(* The phases of a transaction.                                            *)
(***************************************************************************)
AllWorking(t) == \A b \in Branch : outcome[t][b] = "working"

\* Before the first command, and between a reply and the next one.
IdlePhase(t) ==
    /\ NoneOf(link, t, Kinds)
    /\ JobsOf(t) = {}
    /\ AllWorking(t)

\* A command is on its way, or its OK: there is one message of t at most.
TravelsPhase(t) ==
    /\ AllWorking(t)
    /\ JobsOf(t) = {}
    /\ NoneOf(link, t, Kinds \ (Asks \cup {"OK"}))
    /\ \A b, c, p, q \in Branch, k, h \in Kinds :
          Carries(link, b, c, t, k) /\ Carries(link, p, q, t, h) => b = p /\ c = q

\* A branch is in the middle of it.
ExecutesPhase(t) ==
    /\ AllWorking(t)
    /\ NoneOf(link, t, Kinds)
    /\ \E j \in jobs : JobsOf(t) = {j} /\ j.do \in Executing

\* A branch has refused it, and aborts t at once or soon.
RefusedPhase(t) ==
    /\ \A b \in Branch : outcome[t][b] \in {"working", "aborted"}
    /\ NoneOf(link, t, Kinds \ {"ABORTED", "NOT"})
    /\ \A j \in JobsOf(t) : j.do = "abort"

\* Where branch c is in the first phase of commitment; its COMMIT_READY may
\* have been counted.
Counted(t, c) ==
    /\ outcome[t][c] = "prepared"
    /\ ~ToBranch(link, t, c, "COMMIT_PREPARE")
    /\ ~FromBranch(link, t, c, "COMMIT_READY")
    /\ ~FromBranch(link, t, c, "ABORTED")
ToldToPrepare(t, c) ==
    /\ outcome[t][c] = "working"
    /\ ~FromBranch(link, t, c, "COMMIT_READY")
    /\ ~FromBranch(link, t, c, "ABORTED")
IsReady(t, c) ==
    /\ outcome[t][c] = "prepared"
    /\ ~ToBranch(link, t, c, "COMMIT_PREPARE")
    /\ ~FromBranch(link, t, c, "ABORTED")
HasRefused(t, c) ==
    /\ outcome[t][c] = "aborted"
    /\ ~ToBranch(link, t, c, "COMMIT_PREPARE")
    /\ ~FromBranch(link, t, c, "COMMIT_READY")

\* The branches of S have been counted.
VotingPhase(t, S) ==
    /\ outcome[t][coordinator[t]] = "prepared"
    /\ NoneOf(link, t, Kinds \ {"COMMIT_PREPARE", "COMMIT_READY", "ABORTED"})
    /\ \A j \in JobsOf(t) :
          j.do = "abort" /\ j.branch \in Others(t) /\ HasRefused(t, j.branch)
    /\ Cardinality(S) = commitCount[t]
    /\ \A c \in S : Counted(t, c)
    /\ \A c \in Others(t) \ S : ToldToPrepare(t, c) \/ IsReady(t, c) \/ HasRefused(t, c)

\* All are ready, and DoCommit goes round at the coordinator.
DecidedPhase(t) ==
    /\ NoneOf(link, t, Kinds)
    /\ \A b \in Branch : outcome[t][b] = "prepared"
    /\ \A j \in JobsOf(t) : j.do = "spin" /\ j.branch = coordinator[t]

\* Branch c has no part in the count of COMMIT_READYs any more.
OutOfCount(l, t, c) ==
    ~ToBranch(l, t, c, "COMMIT_PREPARE") /\ ~FromBranch(l, t, c, "COMMIT_READY")

\* The transaction is aborted; if the first phase of commitment has begun,
\* branch d has refused, and the count stays one short for ever.
DoomedPhase(l, t) ==
    /\ NoneOf(l, t, Asks \cup {"OK", "COMMIT_OK"})
    /\ \A j \in JobsOf(t) : j.do = "abort"
    /\ \A b \in Branch : outcome[t][b] # "committed"
    /\ \A c \in Others(t) : ToBranch(l, t, c, "COMMIT_PREPARE") =>
          /\ outcome[t][c] = "working"
          /\ \A k \in Answers : ~FromBranch(l, t, c, k)
          /\ \A j \in JobsOf(t) : j.branch # c
    /\ \/ NoneOf(l, t, {"COMMIT_PREPARE", "COMMIT_READY"})
       \/ \E S \in SUBSET Others(t), d \in Others(t) :
             /\ d \notin S
             /\ Cardinality(S) = commitCount[t]
             /\ \A c \in S \cup {d} : OutOfCount(l, t, c)

\* The coordinator has committed; each other branch is told once.
FinishedPhase(t) ==
    /\ NoneOf(link, t, Kinds \ {"COMMIT_OK"})
    /\ outcome[t][coordinator[t]] = "committed"
    /\ \A b \in Branch : outcome[t][b] \in {"prepared", "committed"}
    /\ \A j \in JobsOf(t) : /\ j.do = "spin" /\ outcome[t][j.branch] = "prepared"
                            /\ ~ToBranch(link, t, j.branch, "COMMIT_OK")
    /\ \A c \in Others(t) : ToBranch(link, t, c, "COMMIT_OK") => outcome[t][c] = "prepared"

Phase(t) ==
    /\ client[t] \in {"new", "ready"} => IdlePhase(t)
    /\ client[t] = "asked" => TravelsPhase(t) \/ ExecutesPhase(t) \/ RefusedPhase(t)
    /\ client[t] = "committing" =>
          (\E S \in SUBSET Others(t) : VotingPhase(t, S)) \/ DecidedPhase(t)
    /\ client[t] = "ended" => DoomedPhase(link, t) \/ FinishedPhase(t)

\* Orders go from the coordinator to another branch, answers come back.
Routed(l, t) ==
    /\ client[t] # "new" => coordinator[t] \in Branch
    /\ \A b, c \in Branch, kind \in Kinds : Carries(l, b, c, t, kind) =>
          IF kind \in Orders THEN b = coordinator[t] /\ c # b
                             ELSE c = coordinator[t] /\ b # c

\* DoCommit goes round with mu_TW held: once at each branch.
OneSpins ==
    \A i, j \in jobs : i.do = "spin" /\ j.do = "spin" /\ i.branch = j.branch => i = j

JobTypes ==
    \A j \in jobs :
        /\ j.tx \in Tx /\ j.branch \in Branch
        /\ j.do \in Executing \cup {"spin", "abort"}
        /\ j.do \in Executing => /\ j.op \in Operation /\ j.op.tx = j.tx
                                 /\ {"do", "branch", "tx", "op"} \subseteq DOMAIN j

\* The types the phases need.
PhaseTypes ==
    /\ link \in Connections
    /\ client \in [Tx -> {"new", "ready", "asked", "committing", "ended"}]
    /\ coordinator \in [Tx -> Branch \cup {NULL}]
    /\ outcome \in [Tx -> [Branch -> {"working", "prepared", "committed", "aborted"}]]
    /\ commitCount \in [Tx -> Nat]
    /\ JobTypes

PhaseInv ==
    /\ PhaseTypes
    /\ OnlyAbortFollows(link)
    /\ OneSpins
    /\ \A t \in Tx : Routed(link, t) /\ Phase(t)

-----------------------------------------------------------------------------
(***************************************************************************)
(* What sending, broadcasting and reading do to the connections.           *)
(***************************************************************************)
LEMMA MessageFields ==
    ASSUME NEW m \in Message
    PROVE  m.tx \in Tx /\ m.kind \in Kinds
BY DEF Message, Operation, Notice, Kinds, Orders, Answers, Asks

\* One more message, at the end of one connection.
LEMMA SendCarries ==
    ASSUME NEW l \in Connections, NEW b \in Branch, NEW c \in Branch, NEW m \in Message
    PROVE  /\ Send(l, b, c, m) \in Connections
           /\ \A p, q \in Branch : \A t, k :
                 Carries(Send(l, b, c, m), p, q, t, k) <=>
                    Carries(l, p, q, t, k) \/ (p = b /\ q = c /\ m.tx = t /\ m.kind = k)
           /\ /\ OnlyAbortFollows(l)
              /\ \/ m.kind = "ABORT_Coordinator"
                 \/ \A k \in Kinds : ~Carries(l, b, c, m.tx, k)
              => OnlyAbortFollows(Send(l, b, c, m))
<1> DEFINE r == Send(l, b, c, m)
<1>1. r \in Connections
  BY DEF Send, Connections
<1>2. \A p, q \in Branch : p # b \/ q # c => r[p][q] = l[p][q]
  BY DEF Send, Connections
<1>3. r[b][c] = Append(l[b][c], m) /\ l[b][c] \in Seq(Message)
  BY DEF Send, Connections
<1> DEFINE n == Len(l[b][c])
<1>4. /\ n \in Nat /\ Len(r[b][c]) = n + 1
      /\ \A i \in 1..n : r[b][c][i] = l[b][c][i] /\ l[b][c][i] \in Message
      /\ r[b][c][n + 1] = m
  BY <1>3
<1> HIDE DEF r
<1>5. ASSUME NEW p \in Branch, NEW q \in Branch, NEW t, NEW k
      PROVE  Carries(r, p, q, t, k) <=>
                Carries(l, p, q, t, k) \/ (p = b /\ q = c /\ m.tx = t /\ m.kind = k)
  <2>1. CASE p # b \/ q # c
    BY <1>2, <2>1 DEF Carries
  <2>2. CASE p = b /\ q = c
    <3>1. ASSUME Carries(r, b, c, t, k)
          PROVE  Carries(l, b, c, t, k) \/ (m.tx = t /\ m.kind = k)
      <4>1. PICK i \in 1..Len(r[b][c]) : r[b][c][i].tx = t /\ r[b][c][i].kind = k
        BY <3>1 DEF Carries
      <4>2. i \in 1..n \/ i = n + 1
        BY <1>4
      <4> QED BY <1>4, <4>1, <4>2 DEF Carries
    <3>2. ASSUME Carries(l, b, c, t, k)
          PROVE  Carries(r, b, c, t, k)
      <4>1. PICK i \in 1..n : l[b][c][i].tx = t /\ l[b][c][i].kind = k
        BY <3>2 DEF Carries
      <4>2. i \in 1..Len(r[b][c]) /\ r[b][c][i] = l[b][c][i]
        BY <1>4
      <4> QED BY <4>1, <4>2 DEF Carries
    <3>3. ASSUME m.tx = t, m.kind = k
          PROVE  Carries(r, b, c, t, k)
      <4>1. n + 1 \in 1..Len(r[b][c])
        BY <1>4
      <4> QED BY <1>4, <3>3, <4>1 DEF Carries
    <3> QED BY <2>2, <3>1, <3>2, <3>3
  <2> QED BY <2>1, <2>2
<1>6. ASSUME OnlyAbortFollows(l),
             \/ m.kind = "ABORT_Coordinator"
             \/ \A k \in Kinds : ~Carries(l, b, c, m.tx, k)
      PROVE  OnlyAbortFollows(r)
  <2> SUFFICES ASSUME NEW p \in Branch, NEW q \in Branch,
                      NEW i \in 1..Len(r[p][q]), NEW j \in 1..Len(r[p][q]),
                      i < j, r[p][q][i].tx = r[p][q][j].tx
               PROVE  r[p][q][j].kind = "ABORT_Coordinator"
    BY DEF OnlyAbortFollows
  <2>1. CASE p # b \/ q # c
    BY <1>2, <1>6, <2>1 DEF OnlyAbortFollows
  <2>2. CASE p = b /\ q = c /\ j # n + 1
    <3>1. i \in 1..n /\ j \in 1..n
      BY <1>4, <2>2, SMTT(20)
    <3>2. r[p][q][i] = l[b][c][i] /\ r[p][q][j] = l[b][c][j]
      BY <1>4, <2>2, <3>1
    <3>3. l[b][c][i].tx = l[b][c][j].tx
      BY <3>2
    <3>4. l[b][c][j].kind = "ABORT_Coordinator"
      BY <1>6, <3>1, <3>3 DEF OnlyAbortFollows
    <3> QED BY <3>2, <3>4
  <2>3. CASE p = b /\ q = c /\ j = n + 1
    <3>1. i \in 1..n
      BY <1>4, <2>3
    <3>2. l[b][c][i].kind \in Kinds
      BY <1>4, <3>1, MessageFields
    <3>3. Carries(l, b, c, m.tx, l[b][c][i].kind)
      BY <1>4, <2>3, <3>1 DEF Carries
    <3> QED BY <1>4, <1>6, <2>3, <3>2, <3>3
  <2> QED BY <2>1, <2>2, <2>3
<1> QED BY <1>1, <1>5, <1>6 DEF r

\* One more message, at the end of every connection from b.
LEMMA BroadcastCarries ==
    ASSUME NEW l \in Connections, NEW b \in Branch, NEW m \in Message
    PROVE  /\ Broadcast(l, b, m) \in Connections
           /\ \A p, q \in Branch : \A t, k :
                 Carries(Broadcast(l, b, m), p, q, t, k) <=>
                    Carries(l, p, q, t, k) \/ (p = b /\ q # b /\ m.tx = t /\ m.kind = k)
           /\ /\ OnlyAbortFollows(l)
              /\ \/ m.kind = "ABORT_Coordinator"
                 \/ \A c \in Branch \ {b}, k \in Kinds : ~Carries(l, b, c, m.tx, k)
              => OnlyAbortFollows(Broadcast(l, b, m))
<1> DEFINE r == Broadcast(l, b, m)
<1>1. r \in Connections
  BY DEF Broadcast, Connections
<1>2. \A p, q \in Branch : p # b \/ q = b => r[p][q] = l[p][q]
  BY DEF Broadcast, Connections
<1>3. \A q \in Branch : q # b => r[b][q] = Append(l[b][q], m) /\ l[b][q] \in Seq(Message)
  BY DEF Broadcast, Connections
<1>4. ASSUME NEW q \in Branch, q # b
      PROVE  /\ Len(l[b][q]) \in Nat /\ Len(r[b][q]) = Len(l[b][q]) + 1
             /\ \A i \in 1..Len(l[b][q]) : r[b][q][i] = l[b][q][i] /\ l[b][q][i] \in Message
             /\ r[b][q][Len(l[b][q]) + 1] = m
  BY <1>3, <1>4
<1> HIDE DEF r
<1>5. ASSUME NEW p \in Branch, NEW q \in Branch, NEW t, NEW k
      PROVE  Carries(r, p, q, t, k) <=>
                Carries(l, p, q, t, k) \/ (p = b /\ q # b /\ m.tx = t /\ m.kind = k)
  <2>1. CASE p # b \/ q = b
    BY <1>2, <2>1 DEF Carries
  <2>2. CASE p = b /\ q # b
    <3>1. ASSUME Carries(r, b, q, t, k)
          PROVE  Carries(l, b, q, t, k) \/ (m.tx = t /\ m.kind = k)
      <4>1. PICK i \in 1..Len(r[b][q]) : r[b][q][i].tx = t /\ r[b][q][i].kind = k
        BY <3>1 DEF Carries
      <4>2. i \in 1..Len(l[b][q]) \/ i = Len(l[b][q]) + 1
        BY <1>4, <2>2
      <4> QED BY <1>4, <2>2, <4>1, <4>2 DEF Carries
    <3>2. ASSUME Carries(l, b, q, t, k)
          PROVE  Carries(r, b, q, t, k)
      <4>1. PICK i \in 1..Len(l[b][q]) : l[b][q][i].tx = t /\ l[b][q][i].kind = k
        BY <3>2 DEF Carries
      <4>2. i \in 1..Len(r[b][q]) /\ r[b][q][i] = l[b][q][i]
        BY <1>4, <2>2
      <4> QED BY <4>1, <4>2 DEF Carries
    <3>3. ASSUME m.tx = t, m.kind = k
          PROVE  Carries(r, b, q, t, k)
      <4>1. Len(l[b][q]) + 1 \in 1..Len(r[b][q])
        BY <1>4, <2>2
      <4> QED BY <1>4, <2>2, <3>3, <4>1 DEF Carries
    <3> QED BY <2>2, <3>1, <3>2, <3>3
  <2> QED BY <2>1, <2>2
<1>6. ASSUME OnlyAbortFollows(l),
             \/ m.kind = "ABORT_Coordinator"
             \/ \A c \in Branch \ {b}, k \in Kinds : ~Carries(l, b, c, m.tx, k)
      PROVE  OnlyAbortFollows(r)
  <2> SUFFICES ASSUME NEW p \in Branch, NEW q \in Branch,
                      NEW i \in 1..Len(r[p][q]), NEW j \in 1..Len(r[p][q]),
                      i < j, r[p][q][i].tx = r[p][q][j].tx
               PROVE  r[p][q][j].kind = "ABORT_Coordinator"
    BY DEF OnlyAbortFollows
  <2>1. CASE p # b \/ q = b
    BY <1>2, <1>6, <2>1 DEF OnlyAbortFollows
  <2>2. CASE p = b /\ q # b /\ j # Len(l[b][q]) + 1
    <3>1. i \in 1..Len(l[b][q]) /\ j \in 1..Len(l[b][q])
      BY <1>4, <2>2
    <3>2. r[p][q][i] = l[b][q][i] /\ r[p][q][j] = l[b][q][j]
      BY <1>4, <2>2, <3>1
    <3>3. l[b][q][i].tx = l[b][q][j].tx
      BY <3>2
    <3>4. l[b][q][j].kind = "ABORT_Coordinator"
      BY <1>6, <3>1, <3>3 DEF OnlyAbortFollows
    <3> QED BY <3>2, <3>4
  <2>3. CASE p = b /\ q # b /\ j = Len(l[b][q]) + 1
    <3>1. i \in 1..Len(l[b][q])
      BY <1>4, <2>3
    <3>2. l[b][q][i].kind \in Kinds
      BY <1>4, <2>3, <3>1, MessageFields
    <3>3. Carries(l, b, q, m.tx, l[b][q][i].kind)
      BY <1>4, <2>3, <3>1 DEF Carries
    <3> QED BY <1>4, <1>6, <2>3, <3>2, <3>3
  <2> QED BY <2>1, <2>2, <2>3
<1> QED BY <1>1, <1>5, <1>6 DEF r

LEMMA TailOfMessages ==
    ASSUME NEW s \in Seq(Message), 1 <= Len(s), NEW r, r = SubSeq(s, 2, Len(s))
    PROVE  /\ r \in Seq(Message)
           /\ Len(r) = Len(s) - 1
           /\ \A n \in 1..Len(r) : r[n] = s[n + 1]
<1>1. Len(s) \in Nat /\ \A i \in 2..Len(s) : s[i] \in Message
  BY ElementOfSeq
<1>2. /\ r \in Seq(Message)
      /\ Len(r) = (IF 2 <= Len(s) THEN Len(s) - 2 + 1 ELSE 0)
      /\ \A n \in 1..(Len(s) - 2 + 1) : r[n] = s[2 + n - 1]
  <2>1. 2 \in Int /\ Len(s) \in Int
    BY <1>1
  <2>2. ASSUME NEW m \in Int, NEW n \in Int, \A i \in m..n : s[i] \in Message
        PROVE  /\ SubSeq(s, m, n) \in Seq(Message)
               /\ Len(SubSeq(s, m, n)) = (IF m <= n THEN n - m + 1 ELSE 0)
               /\ \A i \in 1..(n - m + 1) : SubSeq(s, m, n)[i] = s[m + i - 1]
    BY <2>2, SubSeqProperties
  <2> QED BY <1>1, <2>1, <2>2, Zenon
<1>3. Len(r) = Len(s) - 1
  BY <1>1, <1>2
<1>4. ASSUME NEW n \in 1..Len(r)
      PROVE  r[n] = s[n + 1]
  <2>1. n \in 1..(Len(s) - 2 + 1) /\ 2 + n - 1 = n + 1
    BY <1>1, <1>3
  <2> QED BY <1>2, <2>1
<1> QED BY <1>2, <1>3, <1>4

\* One message is gone from the head of one connection; of its transaction
\* only orders to abort can be left there.
LEMMA ConsumedCarries ==
    ASSUME link \in Connections, NEW b \in Branch, NEW c \in Branch,
           OnlyAbortFollows(link), 1 <= Len(link[c][b])
    PROVE  /\ Consumed(c, b, 1) \in Connections
           /\ OnlyAbortFollows(Consumed(c, b, 1))
           /\ link[c][b][1] \in Message
           /\ Carries(link, c, b, link[c][b][1].tx, link[c][b][1].kind)
           /\ \A p, q \in Branch : \A t, k :
                 Carries(Consumed(c, b, 1), p, q, t, k) => Carries(link, p, q, t, k)
           /\ \A p, q \in Branch : \A t, k : p # c \/ q # b \/ t # link[c][b][1].tx =>
                 (Carries(Consumed(c, b, 1), p, q, t, k) <=> Carries(link, p, q, t, k))
           /\ \A k : Carries(Consumed(c, b, 1), c, b, link[c][b][1].tx, k) =>
                 k = "ABORT_Coordinator"
<1> DEFINE r == Consumed(c, b, 1)
           s == link[c][b]
<1>1. s \in Seq(Message) /\ Len(s) \in Nat /\ 1 \in 1..Len(s) /\ s[1] \in Message
  BY DEF Connections
<1>2. \A p, q \in Branch : p # c \/ q # b => r[p][q] = link[p][q]
  BY DEF Consumed, Connections
<1>3. r[c][b] = SubSeq(s, 2, Len(s))
  BY DEF Consumed, Connections
<1>4. /\ r[c][b] \in Seq(Message) /\ Len(r[c][b]) = Len(s) - 1
      /\ \A n \in 1..Len(r[c][b]) : r[c][b][n] = s[n + 1]
  <2>1. 1 <= Len(s)
    BY <1>1
  <2> HIDE DEF s
  <2> QED BY <1>1, <1>3, <2>1, TailOfMessages, Zenon
<1>5. r \in Connections
  <2>1. r = [link EXCEPT ![c] = [link[c] EXCEPT ![b] = SubSeq(s, 2, Len(s))]]
    BY DEF Consumed, Connections
  <2>2. SubSeq(s, 2, Len(s)) \in Seq(Message)
    BY <1>3, <1>4
  <2>3. [link[c] EXCEPT ![b] = SubSeq(s, 2, Len(s))] \in [Branch -> Seq(Message)]
    BY <2>2 DEF Connections
  <2> QED BY <2>1, <2>3 DEF Connections
<1> HIDE DEF r
<1>6. ASSUME NEW p \in Branch, NEW q \in Branch, NEW t, NEW k
      PROVE  /\ Carries(r, p, q, t, k) => Carries(link, p, q, t, k)
             /\ p # c \/ q # b \/ t # s[1].tx =>
                   (Carries(link, p, q, t, k) => Carries(r, p, q, t, k))
  <2>1. CASE p # c \/ q # b
    BY <1>2, <2>1 DEF Carries
  <2>2. CASE p = c /\ q = b
    <3>1. ASSUME Carries(r, p, q, t, k) PROVE Carries(link, p, q, t, k)
      <4>1. PICK n \in 1..Len(r[c][b]) : s[n + 1].tx = t /\ s[n + 1].kind = k
        BY <1>4, <2>2, <3>1 DEF Carries
      <4>2. n + 1 \in 1..Len(s)
        BY <1>1, <1>4
      <4> QED BY <2>2, <4>1, <4>2 DEF Carries
    <3>2. ASSUME Carries(link, p, q, t, k), t # s[1].tx PROVE Carries(r, p, q, t, k)
      <4>1. PICK n \in 1..Len(s) : s[n].tx = t /\ s[n].kind = k
        BY <2>2, <3>2 DEF Carries
      <4>2. n # 1
        BY <3>2, <4>1
      <4>3. n - 1 \in 1..Len(r[c][b]) /\ (n - 1) + 1 = n
        BY <1>1, <1>4, <4>2
      <4>4. r[c][b][n - 1] = s[n]
        BY <1>4, <4>3
      <4> QED BY <2>2, <4>1, <4>3, <4>4 DEF Carries
    <3> QED BY <2>2, <3>1, <3>2
  <2> QED BY <2>1, <2>2
<1>7. ASSUME NEW k, Carries(r, c, b, s[1].tx, k)
      PROVE  k = "ABORT_Coordinator"
  <2>1. PICK n \in 1..Len(r[c][b]) : s[n + 1].tx = s[1].tx /\ s[n + 1].kind = k
    BY <1>4, <1>7 DEF Carries
  <2>2. n + 1 \in 1..Len(s) /\ 1 < n + 1
    BY <1>1, <1>4
  <2> QED BY <1>1, <2>1, <2>2 DEF OnlyAbortFollows
<1>8. OnlyAbortFollows(r)
  <2> SUFFICES ASSUME NEW p \in Branch, NEW q \in Branch,
                      NEW i \in 1..Len(r[p][q]), NEW j \in 1..Len(r[p][q]),
                      i < j, r[p][q][i].tx = r[p][q][j].tx
               PROVE  r[p][q][j].kind = "ABORT_Coordinator"
    BY DEF OnlyAbortFollows
  <2>1. CASE p # c \/ q # b
    BY <1>2, <2>1, SMTT(20) DEF OnlyAbortFollows
  <2>2. CASE p = c /\ q = b
    <3>1. i + 1 \in 1..Len(s) /\ j + 1 \in 1..Len(s) /\ i + 1 < j + 1
      BY <1>1, <1>4, <2>2
    <3>2. r[p][q][i] = s[i + 1] /\ r[p][q][j] = s[j + 1]
      BY <1>4, <2>2
    <3>3. s[j + 1].kind = "ABORT_Coordinator"
      BY <3>1, <3>2 DEF OnlyAbortFollows
    <3> QED BY <3>2, <3>3
  <2> QED BY <2>1, <2>2
<1>9. Carries(link, c, b, s[1].tx, s[1].kind)
  BY <1>1 DEF Carries
<1> QED BY <1>1, <1>5, <1>6, <1>7, <1>8, <1>9 DEF r

\* Reading one message takes it.
LEMMA ReadingTakes ==
    ASSUME PhaseInv, NEW c \in Branch, NEW b \in Branch, NEW k, k = 1, NEW kinds,
           Reading(c, b, k, kinds)
    PROVE  /\ Taken(Consumed(c, b, k), c, b, link[c][b][1].tx)
           /\ link[c][b][1] \in Message
           /\ link[c][b][1].tx \in Tx
           /\ link[c][b][1].kind \in kinds \cap Kinds
           /\ Carries(link, c, b, link[c][b][1].tx, link[c][b][1].kind)
<1>1. link \in Connections /\ OnlyAbortFollows(link) /\ 1 <= Len(link[c][b])
  BY DEF PhaseInv, PhaseTypes, Reading
<1> DEFINE l == Consumed(c, b, 1)
           t == link[c][b][1].tx
<1>2. /\ l \in Connections
      /\ OnlyAbortFollows(l)
      /\ link[c][b][1] \in Message
      /\ Carries(link, c, b, t, link[c][b][1].kind)
      /\ \A p, q \in Branch : \A u, h : Carries(l, p, q, u, h) => Carries(link, p, q, u, h)
      /\ \A p, q \in Branch : \A u, h : p # c \/ q # b \/ u # t =>
            (Carries(l, p, q, u, h) <=> Carries(link, p, q, u, h))
      /\ \A h : Carries(l, c, b, t, h) => h = "ABORT_Coordinator"
  BY <1>1, ConsumedCarries
<1>3. link[c][b][1].kind \in kinds
  BY DEF Reading
<1> HIDE DEF l, t
<1>4. Taken(l, c, b, t)
  BY <1>2 DEF Taken, SameMessages
<1> QED BY <1>2, <1>3, <1>4, MessageFields DEF l, t

-----------------------------------------------------------------------------
(***************************************************************************)
(* A step for one transaction and the others.                              *)
(***************************************************************************)
\* Nothing of u changes.
SameFor(u) ==
    /\ SameMessages(link', u)
    /\ JobsOf(u)' = JobsOf(u)
    /\ client'[u] = client[u]
    /\ coordinator'[u] = coordinator[u]
    /\ outcome'[u] = outcome[u]
    /\ commitCount'[u] = commitCount[u]

LEMMA SameForKeeps ==
    ASSUME NEW u \in Tx, JobTypes, SameFor(u), Routed(link, u), Phase(u)
    PROVE  Routed(link, u)' /\ Phase(u)'
<1>1. \A p, q \in Branch : \A k : Carries(link', p, q, u, k) <=> Carries(link, p, q, u, k)
  BY DEF SameFor, SameMessages
<1>2. /\ JobsOf(u)' = JobsOf(u) /\ client'[u] = client[u]
      /\ coordinator'[u] = coordinator[u] /\ outcome'[u] = outcome[u]
      /\ commitCount'[u] = commitCount[u]
  BY DEF SameFor
<1>3. Routed(link, u)'
  BY <1>1, <1>2 DEF Routed
<1>4. \A kinds : NoneOf(link, u, kinds) => NoneOf(link', u, kinds)
  BY <1>1 DEF NoneOf
<1>5. IdlePhase(u) => IdlePhase(u)'
  BY <1>2, <1>4 DEF IdlePhase, AllWorking
<1>6. TravelsPhase(u) => TravelsPhase(u)'
  BY <1>1, <1>2, <1>4 DEF TravelsPhase, AllWorking
<1>7. ExecutesPhase(u) => ExecutesPhase(u)'
  <2> SUFFICES ASSUME ExecutesPhase(u) PROVE ExecutesPhase(u)'
    OBVIOUS
  <2>1. PICK j \in jobs : JobsOf(u) = {j} /\ j.do \in Executing
    BY DEF ExecutesPhase
  <2>2. j \in jobs'
    BY <1>2, <2>1 DEF JobsOf
  <2> QED BY <1>2, <1>4, <2>1, <2>2 DEF ExecutesPhase, AllWorking
<1>8. RefusedPhase(u) => RefusedPhase(u)'
  BY <1>2, <1>4 DEF RefusedPhase
<1>9. ASSUME client[u] # "new", NEW c \in Branch
      PROVE  /\ \A k : ToBranch(link, u, c, k)' <=> ToBranch(link, u, c, k)
             /\ \A k : FromBranch(link, u, c, k)' <=> FromBranch(link, u, c, k)
  <2>1. coordinator[u] \in Branch
    BY <1>9 DEF Routed
  <2> QED BY <1>1, <1>2, <2>1 DEF ToBranch, FromBranch
<1>10. Others(u)' = Others(u)
  BY <1>2 DEF Others
<1>11. ASSUME client[u] = "committing", NEW S \in SUBSET Others(u), VotingPhase(u, S)
       PROVE  VotingPhase(u, S)'
  <2>1. \A c \in Branch : /\ Counted(u, c)' <=> Counted(u, c)
                          /\ ToldToPrepare(u, c)' <=> ToldToPrepare(u, c)
                          /\ IsReady(u, c)' <=> IsReady(u, c)
                          /\ HasRefused(u, c)' <=> HasRefused(u, c)
    BY <1>2, <1>9, <1>11 DEF Counted, ToldToPrepare, IsReady, HasRefused
  <2>2. Others(u) \subseteq Branch
    BY DEF Others
  <2> QED BY <1>2, <1>4, <1>10, <1>11, <2>1, <2>2 DEF VotingPhase
<1>12. DecidedPhase(u) => DecidedPhase(u)'
  BY <1>2, <1>4 DEF DecidedPhase
<1>13. ASSUME client[u] = "ended", DoomedPhase(link, u)
       PROVE  DoomedPhase(link, u)'
  <2>1. Others(u) \subseteq Branch
    BY DEF Others
  <2>2. \A c \in Branch : OutOfCount(link, u, c)' <=> OutOfCount(link, u, c)
    BY <1>9, <1>13 DEF OutOfCount
  <2>3. \A c \in Others(u)' : ToBranch(link, u, c, "COMMIT_PREPARE")' =>
          /\ outcome'[u][c] = "working"
          /\ \A k \in Answers : ~FromBranch(link, u, c, k)'
          /\ \A j \in JobsOf(u)' : j.branch # c
    BY <1>2, <1>9, <1>10, <1>13, <2>1 DEF DoomedPhase
  <2>4. \/ NoneOf(link', u, {"COMMIT_PREPARE", "COMMIT_READY"})
        \/ \E S \in SUBSET Others(u)', d \in Others(u)' :
             /\ d \notin S
             /\ Cardinality(S) = commitCount'[u]
             /\ \A c \in S \cup {d} : OutOfCount(link, u, c)'
    BY <1>2, <1>4, <1>10, <1>13, <2>1, <2>2 DEF DoomedPhase
  <2> QED BY <1>2, <1>4, <1>13, <2>3, <2>4 DEF DoomedPhase
<1>14. ASSUME client[u] = "ended", FinishedPhase(u)
       PROVE  FinishedPhase(u)'
  <2>1. \A j \in JobsOf(u) : ~ToBranch(link, u, j.branch, "COMMIT_OK")'
    <3> SUFFICES ASSUME NEW j \in JobsOf(u)
                 PROVE  ~ToBranch(link, u, j.branch, "COMMIT_OK")'
      OBVIOUS
    <3>1. j.branch \in Branch /\ ~ToBranch(link, u, j.branch, "COMMIT_OK")
      BY <1>14 DEF FinishedPhase, JobsOf, JobTypes
    <3> QED BY <1>9, <1>14, <3>1
  <2>2. Others(u) \subseteq Branch
    BY DEF Others
  <2> QED BY <1>2, <1>4, <1>9, <1>10, <1>14, <2>1, <2>2 DEF FinishedPhase
<1> QED
  BY <1>2, <1>3, <1>5, <1>6, <1>7, <1>8, <1>10, <1>11, <1>12, <1>13, <1>14 DEF Phase

StepFor(t) ==
    /\ PhaseTypes'
    /\ OnlyAbortFollows(link)'
    /\ OneSpins'
    /\ Routed(link, t)'
    /\ Phase(t)'
    /\ \A u \in Tx \ {t} : SameFor(u)

LEMMA StepForKeeps ==
    ASSUME PhaseInv, NEW t \in Tx, StepFor(t)
    PROVE  PhaseInv'
<1>1. \A u \in Tx \ {t} : Routed(link, u)' /\ Phase(u)'
  BY SameForKeeps DEF PhaseInv, PhaseTypes, StepFor
<1> QED BY <1>1 DEF PhaseInv, StepFor

LEMMA UnchangedKeeps ==
    ASSUME PhaseInv, UNCHANGED <<link, jobs, client, coordinator, outcome, commitCount>>
    PROVE  PhaseInv'
<1>1. PhaseTypes' /\ OnlyAbortFollows(link)' /\ OneSpins'
  BY DEF PhaseInv, PhaseTypes, JobTypes, OnlyAbortFollows, OneSpins
<1>2. \A u \in Tx : SameFor(u)
  BY DEF SameFor, SameMessages, JobsOf
<1>3. \A u \in Tx : Routed(link, u)' /\ Phase(u)'
  BY <1>2, SameForKeeps DEF PhaseInv, PhaseTypes
<1> QED BY <1>1, <1>3 DEF PhaseInv

\* What a message on its way says of its transaction.
LEMMA PhaseOfMessage ==
    ASSUME PhaseInv, NEW t \in Tx, NEW p \in Branch, NEW q \in Branch, NEW k \in Kinds,
           Carries(link, p, q, t, k)
    PROVE  /\ client[t] \notin {"new", "ready"}
           /\ coordinator[t] \in Branch
           /\ p # q
           /\ k \in Orders => p = coordinator[t] /\ q \in Others(t)
           /\ k \in Answers => q = coordinator[t] /\ p \in Others(t)
           /\ k \in Asks \cup {"OK"} => client[t] = "asked" /\ TravelsPhase(t)
           /\ k \in {"ABORTED", "NOT"} =>
                 \/ client[t] = "asked" /\ RefusedPhase(t)
                 \/ /\ client[t] = "committing" /\ k = "ABORTED"
                    /\ \E S \in SUBSET Others(t) : VotingPhase(t, S)
                 \/ client[t] = "ended" /\ DoomedPhase(link, t)
           /\ k \in {"COMMIT_PREPARE", "COMMIT_READY"} =>
                 \/ /\ client[t] = "committing"
                    /\ \E S \in SUBSET Others(t) : VotingPhase(t, S)
                 \/ client[t] = "ended" /\ DoomedPhase(link, t)
           /\ k = "ABORT_Coordinator" => client[t] = "ended" /\ DoomedPhase(link, t)
           /\ k = "COMMIT_OK" => client[t] = "ended" /\ FinishedPhase(t)
<1>1. /\ client[t] \in {"new", "ready", "asked", "committing", "ended"}
      /\ Routed(link, t) /\ Phase(t)
  BY DEF PhaseInv, PhaseTypes
<1>2. \A kinds : NoneOf(link, t, kinds) => k \notin kinds
  BY DEF NoneOf
<1>3. ~IdlePhase(t) /\ ~ExecutesPhase(t) /\ ~DecidedPhase(t)
  BY <1>2 DEF IdlePhase, ExecutesPhase, DecidedPhase
<1>4. client[t] \notin {"new", "ready"}
  BY <1>1, <1>3 DEF Phase
<1>5. /\ coordinator[t] \in Branch
      /\ IF k \in Orders THEN p = coordinator[t] /\ q # p ELSE q = coordinator[t] /\ p # q
  BY <1>1, <1>4 DEF Routed
<1>6. k \in Answers => k \notin Orders
  BY DEF Answers, Orders, Asks
<1>7. TravelsPhase(t) => k \in Asks \cup {"OK"}
  BY <1>2 DEF TravelsPhase
<1>8. RefusedPhase(t) => k \in {"ABORTED", "NOT"}
  BY <1>2 DEF RefusedPhase
<1>9. \A S : VotingPhase(t, S) => k \in {"COMMIT_PREPARE", "COMMIT_READY", "ABORTED"}
  BY <1>2 DEF VotingPhase
<1>10. DoomedPhase(link, t) => k \notin Asks \cup {"OK", "COMMIT_OK"}
  BY <1>2 DEF DoomedPhase
<1>11. FinishedPhase(t) => k = "COMMIT_OK"
  BY <1>2 DEF FinishedPhase
<1>12. \/ client[t] = "asked" /\ TravelsPhase(t) /\ k \in Asks \cup {"OK"}
       \/ client[t] = "asked" /\ RefusedPhase(t) /\ k \in {"ABORTED", "NOT"}
       \/ /\ client[t] = "committing" /\ k \in {"COMMIT_PREPARE", "COMMIT_READY", "ABORTED"}
          /\ \E S \in SUBSET Others(t) : VotingPhase(t, S)
       \/ /\ client[t] = "ended" /\ DoomedPhase(link, t)
          /\ k \notin Asks \cup {"OK", "COMMIT_OK"}
       \/ client[t] = "ended" /\ FinishedPhase(t) /\ k = "COMMIT_OK"
  <2>1. CASE client[t] = "asked"
    BY <1>1, <1>3, <1>7, <1>8, <2>1 DEF Phase
  <2>2. CASE client[t] = "committing"
    BY <1>1, <1>3, <1>9, <2>2 DEF Phase
  <2>3. CASE client[t] = "ended"
    BY <1>1, <1>10, <1>11, <2>3 DEF Phase
  <2> QED BY <1>1, <1>4, <2>1, <2>2, <2>3
<1>13. /\ k \in Orders => p = coordinator[t] /\ q \in Others(t)
       /\ k \in Answers => q = coordinator[t] /\ p \in Others(t)
  BY <1>5, <1>6 DEF Others
<1> QED BY <1>4, <1>5, <1>12, <1>13 DEF Asks

\* What a handler in the middle says of its transaction.
LEMMA PhaseOfJob ==
    ASSUME PhaseInv, NEW j \in jobs, NEW t, t = j.tx
    PROVE  /\ t \in Tx /\ j.branch \in Branch
           /\ client[t] \notin {"new", "ready"}
           /\ coordinator[t] \in Branch
           /\ j.do \in Executing =>
                 client[t] = "asked" /\ ExecutesPhase(t) /\ JobsOf(t) = {j}
           /\ j.do = "abort" =>
                 \/ client[t] = "asked" /\ RefusedPhase(t)
                 \/ /\ client[t] = "committing"
                    /\ \E S \in SUBSET Others(t) : VotingPhase(t, S)
                 \/ client[t] = "ended" /\ DoomedPhase(link, t)
           /\ j.do = "spin" =>
                 \/ client[t] = "committing" /\ DecidedPhase(t)
                 \/ client[t] = "ended" /\ FinishedPhase(t)
<1>1. /\ t \in Tx /\ j.branch \in Branch /\ j.do \in Executing \cup {"spin", "abort"}
      /\ j \in JobsOf(t)
  BY DEF PhaseInv, PhaseTypes, JobTypes, JobsOf
<1>2. /\ client[t] \in {"new", "ready", "asked", "committing", "ended"}
      /\ Routed(link, t) /\ Phase(t)
  BY <1>1 DEF PhaseInv, PhaseTypes
<1>3. ~IdlePhase(t) /\ ~TravelsPhase(t)
  BY <1>1 DEF IdlePhase, TravelsPhase
<1>4. client[t] \notin {"new", "ready"}
  BY <1>2, <1>3 DEF Phase
<1>5. coordinator[t] \in Branch
  BY <1>2, <1>4 DEF Routed
<1>6. ExecutesPhase(t) => j.do \in Executing /\ JobsOf(t) = {j}
  BY <1>1 DEF ExecutesPhase
<1>7. RefusedPhase(t) => j.do = "abort"
  BY <1>1 DEF RefusedPhase
<1>8. \A S : VotingPhase(t, S) => j.do = "abort"
  BY <1>1 DEF VotingPhase
<1>9. DecidedPhase(t) => j.do = "spin"
  BY <1>1 DEF DecidedPhase
<1>10. DoomedPhase(link, t) => j.do = "abort"
  BY <1>1 DEF DoomedPhase
<1>11. FinishedPhase(t) => j.do = "spin"
  BY <1>1 DEF FinishedPhase
<1>12. \/ client[t] = "asked" /\ ExecutesPhase(t) /\ j.do \in Executing /\ JobsOf(t) = {j}
       \/ client[t] = "asked" /\ RefusedPhase(t) /\ j.do = "abort"
       \/ /\ client[t] = "committing" /\ j.do = "abort"
          /\ \E S \in SUBSET Others(t) : VotingPhase(t, S)
       \/ client[t] = "committing" /\ DecidedPhase(t) /\ j.do = "spin"
       \/ client[t] = "ended" /\ DoomedPhase(link, t) /\ j.do = "abort"
       \/ client[t] = "ended" /\ FinishedPhase(t) /\ j.do = "spin"
  <2>1. CASE client[t] = "asked"
    BY <1>2, <1>3, <1>6, <1>7, <2>1 DEF Phase
  <2>2. CASE client[t] = "committing"
    BY <1>2, <1>8, <1>9, <2>2 DEF Phase
  <2>3. CASE client[t] = "ended"
    BY <1>2, <1>10, <1>11, <2>3 DEF Phase
  <2> QED BY <1>2, <1>4, <2>1, <2>2, <2>3
<1> QED BY <1>1, <1>4, <1>5, <1>12 DEF Executing

-----------------------------------------------------------------------------
(***************************************************************************)
(* A command: asked, executed, answered or refused.                        *)
(***************************************************************************)
\* Branch b has a command of t to answer, and nothing else of t is on its way
\* or in the middle, on the connections l and among the handlers rest.
Unanswered(t, b, l, rest) ==
    /\ t \in Tx
    /\ b \in Branch
    /\ coordinator[t] \in Branch
    /\ client[t] = "asked" \/ (client[t] = "ready" /\ coordinator[t] = b)
    /\ AllWorking(t)
    /\ l \in Connections
    /\ OnlyAbortFollows(l)
    /\ \A u : u # t => SameMessages(l, u)
    /\ NoneOf(l, t, Kinds)
    /\ rest = {j \in jobs : j.tx # t}

\* Any handlers but those of t are as they were.
LEMMA SomeJobs ==
    ASSUME PhaseInv, NEW t \in Tx, NEW x, jobs' \subseteq {j \in jobs : j.tx # t} \cup {x},
           {j \in jobs : j.tx # t} \subseteq jobs',
           x \in jobs' =>
              /\ x.tx = t /\ x.branch \in Branch
              /\ x.do \in Executing \cup {"abort"}
              /\ x.do \in Executing => /\ x.op \in Operation /\ x.op.tx = t
                                       /\ {"do", "branch", "tx", "op"} \subseteq DOMAIN x
    PROVE  /\ JobTypes' /\ OneSpins'
           /\ \A u \in Tx \ {t} : JobsOf(u)' = JobsOf(u)
           /\ JobsOf(t)' = (IF x \in jobs' THEN {x} ELSE {})
<1>1. JobTypes /\ OneSpins
  BY DEF PhaseInv, PhaseTypes
<1>2. JobTypes'
  BY <1>1 DEF JobTypes
<1>3. OneSpins'
  BY <1>1 DEF OneSpins, Executing
<1>4. \A u \in Tx \ {t} : JobsOf(u)' = JobsOf(u)
  BY DEF JobsOf
<1>5. JobsOf(t)' = (IF x \in jobs' THEN {x} ELSE {})
  BY DEF JobsOf
<1> QED BY <1>2, <1>3, <1>4, <1>5

LEMMA NotifyMessage ==
    ASSUME NEW t \in Tx,
           NEW kind \in {"OK", "ABORTED", "NOT", "ABORT_Coordinator", "COMMIT_PREPARE",
                         "COMMIT_READY", "COMMIT_OK"}
    PROVE  /\ Notify(kind, t) \in Message
           /\ Notify(kind, t).tx = t
           /\ Notify(kind, t).kind = kind
BY DEF Notify, Message, Notice

\* One message of t more, on connections where there is none.
LEMMA SendFirst ==
    ASSUME PhaseInv, NEW t \in Tx, NEW l \in Connections, OnlyAbortFollows(l),
           \A u : u # t => SameMessages(l, u), NoneOf(l, t, Kinds),
           NEW b \in Branch, NEW c \in Branch, NEW m \in Message, m.tx = t,
           link' = Send(l, b, c, m)
    PROVE  /\ link' \in Connections
           /\ OnlyAbortFollows(link')
           /\ \A u : u # t => SameMessages(link', u)
           /\ \A p, q \in Branch, k \in Kinds :
                 Carries(link', p, q, t, k) <=> p = b /\ q = c /\ k = m.kind
<1>1. \A p, q \in Branch : \A u, k :
         Carries(link', p, q, u, k) <=>
            Carries(l, p, q, u, k) \/ (p = b /\ q = c /\ m.tx = u /\ m.kind = k)
  BY SendCarries
<1>2. \A p, q \in Branch, k \in Kinds : ~Carries(l, p, q, t, k)
  BY DEF NoneOf
<1>3. link' \in Connections /\ OnlyAbortFollows(link')
  BY <1>2, SendCarries
<1>4. \A u : u # t => SameMessages(link', u)
  BY <1>1 DEF SameMessages
<1> QED BY <1>1, <1>2, <1>3, <1>4

\* The command goes on in the middle of branch b.
LEMMA MiddleStep ==
    ASSUME PhaseInv, NEW t, NEW b, NEW l, NEW rest, Unanswered(t, b, l, rest),
           NEW x, x.tx = t, x.branch \in Branch, x.do \in Executing,
           x.op \in Operation, x.op.tx = t,
           {"do", "branch", "tx", "op"} \subseteq DOMAIN x,
           jobs' = rest \cup {x}, link' = l,
           \/ client' = [client EXCEPT ![t] = "asked"]
           \/ client[t] = "asked" /\ client' = client,
           UNCHANGED <<commitCount, coordinator, outcome>>
    PROVE  PhaseInv'
<1>1. t \in Tx /\ coordinator[t] \in Branch /\ AllWorking(t)
  BY DEF Unanswered
<1>2. /\ JobTypes' /\ OneSpins' /\ JobsOf(t)' = {x} /\ x \in jobs'
      /\ \A u \in Tx \ {t} : JobsOf(u)' = JobsOf(u)
  <2>1. rest = {j \in jobs : j.tx # t} /\ x \in jobs'
    BY DEF Unanswered
  <2> QED BY <1>1, <2>1, SomeJobs
<1>3. /\ link' \in Connections /\ OnlyAbortFollows(link')
      /\ \A u : u # t => SameMessages(link', u)
      /\ NoneOf(link', t, Kinds)
  BY DEF Unanswered
<1>4. /\ client' \in [Tx -> {"new", "ready", "asked", "committing", "ended"}]
      /\ client'[t] = "asked" /\ \A u \in Tx \ {t} : client'[u] = client[u]
  BY <1>1 DEF PhaseInv, PhaseTypes
<1>5. PhaseTypes'
  BY <1>2, <1>3, <1>4 DEF PhaseInv, PhaseTypes
<1>6. ExecutesPhase(t)'
  BY <1>1, <1>2, <1>3 DEF ExecutesPhase, AllWorking
<1>7. Routed(link, t)'
  BY <1>1, <1>3 DEF Routed, NoneOf
<1>8. Phase(t)'
  BY <1>4, <1>6 DEF Phase
<1>9. \A u \in Tx \ {t} : SameFor(u)
  BY <1>2, <1>3, <1>4 DEF SameFor
<1> QED BY <1>1, <1>2, <1>3, <1>5, <1>7, <1>8, <1>9, StepForKeeps DEF StepFor

\* Branch b has the OK of the command.
LEMMA AnswerStep ==
    ASSUME PhaseInv, NEW t, NEW b, NEW l, NEW rest, Unanswered(t, b, l, rest),
           jobs' = rest, Reply(b, t, "OK", l),
           UNCHANGED <<commitCount, coordinator, outcome>>
    PROVE  PhaseInv'
<1>1. /\ t \in Tx /\ b \in Branch /\ coordinator[t] \in Branch /\ AllWorking(t)
      /\ l \in Connections /\ OnlyAbortFollows(l) /\ NoneOf(l, t, Kinds)
      /\ \A u : u # t => SameMessages(l, u)
  BY DEF Unanswered
<1>2. /\ JobTypes' /\ OneSpins' /\ JobsOf(t)' = {}
      /\ \A u \in Tx \ {t} : JobsOf(u)' = JobsOf(u)
  <2>1. PICK x : x \notin jobs'
    BY NoSetContainsEverything, Zenon
  <2> QED BY <1>1, <2>1, SomeJobs DEF Unanswered
<1>3. CASE coordinator[t] = b
  <2>1. link' = l /\ client' = [client EXCEPT ![t] = "ready"]
    BY <1>3 DEF Reply
  <2>2. /\ client' \in [Tx -> {"new", "ready", "asked", "committing", "ended"}]
        /\ client'[t] = "ready" /\ \A u \in Tx \ {t} : client'[u] = client[u]
    BY <1>1, <2>1 DEF PhaseInv, PhaseTypes
  <2>3. PhaseTypes'
    BY <1>1, <1>2, <2>1, <2>2 DEF PhaseInv, PhaseTypes
  <2>4. IdlePhase(t)'
    BY <1>1, <1>2, <2>1 DEF IdlePhase, AllWorking
  <2>5. Routed(link, t)'
    BY <1>1, <2>1 DEF Routed, NoneOf
  <2>6. \A u \in Tx \ {t} : SameFor(u)
    BY <1>1, <1>2, <2>1, <2>2 DEF SameFor
  <2> QED BY <1>1, <1>2, <2>1, <2>2, <2>3, <2>4, <2>5, <2>6, StepForKeeps
          DEF StepFor, Phase
<1>4. CASE coordinator[t] # b
  <2> DEFINE m == Notify("OK", t)
  <2>1. /\ link' = Send(l, b, coordinator[t], m) /\ client' = client
        /\ client[t] = "asked"
    BY <1>4 DEF Reply, Unanswered
  <2>2. m \in Message /\ m.tx = t /\ m.kind = "OK"
    BY <1>1, NotifyMessage
  <2> HIDE DEF m
  <2>3. /\ link' \in Connections /\ OnlyAbortFollows(link')
        /\ \A u : u # t => SameMessages(link', u)
        /\ \A p, q \in Branch, k \in Kinds :
              Carries(link', p, q, t, k) <=> p = b /\ q = coordinator[t] /\ k = "OK"
    BY <1>1, <2>1, <2>2, SendFirst
  <2>4. PhaseTypes'
    BY <1>2, <2>1, <2>3 DEF PhaseInv, PhaseTypes
  <2>5. TravelsPhase(t)'
    BY <1>1, <1>2, <2>3 DEF TravelsPhase, AllWorking, NoneOf
  <2>6. Routed(link, t)'
    BY <1>1, <1>4, <2>1, <2>3 DEF Routed, Orders, Asks
  <2>7. \A u \in Tx \ {t} : SameFor(u)
    BY <1>2, <2>1, <2>3 DEF SameFor
  <2> QED BY <1>1, <1>2, <2>1, <2>3, <2>4, <2>5, <2>6, <2>7, StepForKeeps
          DEF StepFor, Phase
<1> QED BY <1>3, <1>4

\* Branch b refuses the command: the coordinator tells its client, or is told;
\* DoAbort is yet to come.
LEMMA RefuseStep ==
    ASSUME PhaseInv, NEW t, NEW b, NEW l, NEW rest, Unanswered(t, b, l, rest),
           NEW op, op.tx = t, Refuse(b, op, l, rest),
           UNCHANGED <<commitCount, coordinator, outcome>>
    PROVE  PhaseInv'
<1>1. /\ t \in Tx /\ b \in Branch /\ coordinator[t] \in Branch /\ AllWorking(t)
      /\ l \in Connections /\ OnlyAbortFollows(l) /\ NoneOf(l, t, Kinds)
      /\ \A u : u # t => SameMessages(l, u)
  BY DEF Unanswered
<1> DEFINE x == Job("abort", b, coordinator[t], t)
<1>2. PICK kind \in {"ABORTED", "NOT"} : Reply(b, t, kind, l)
  BY DEF Refuse
<1>3. x.tx = t /\ x.branch = b /\ x.do = "abort"
  BY DEF Job
<1>4. jobs' = rest \cup {x}
  BY DEF Refuse
<1> HIDE DEF x
<1>5. /\ JobTypes' /\ OneSpins' /\ JobsOf(t)' = {x}
      /\ \A u \in Tx \ {t} : JobsOf(u)' = JobsOf(u)
  <2>1. rest = {j \in jobs : j.tx # t} /\ x \in jobs'
    BY <1>4 DEF Unanswered
  <2> QED BY <1>1, <1>3, <1>4, <2>1, SomeJobs DEF Executing
<1>6. CASE coordinator[t] = b
  <2>1. link' = l /\ client' = [client EXCEPT ![t] = "ended"]
    BY <1>2, <1>6 DEF Reply
  <2>2. /\ client' \in [Tx -> {"new", "ready", "asked", "committing", "ended"}]
        /\ client'[t] = "ended" /\ \A u \in Tx \ {t} : client'[u] = client[u]
    BY <1>1, <2>1 DEF PhaseInv, PhaseTypes
  <2>3. PhaseTypes'
    BY <1>1, <1>5, <2>1, <2>2 DEF PhaseInv, PhaseTypes
  <2>4. DoomedPhase(link, t)'
    <3>1. \A p, q \in Branch, k \in Kinds : ~Carries(link', p, q, t, k)
      BY <1>1, <2>1 DEF NoneOf
    <3>2. {"COMMIT_PREPARE", "COMMIT_READY", "OK", "COMMIT_OK"} \cup Asks \subseteq Kinds
      BY DEF Kinds, Orders, Answers
    <3>3. /\ NoneOf(link', t, Asks \cup {"OK", "COMMIT_OK"})
          /\ NoneOf(link', t, {"COMMIT_PREPARE", "COMMIT_READY"})
      BY <3>1, <3>2 DEF NoneOf
    <3>4. \A c \in Others(t)' : ~ToBranch(link, t, c, "COMMIT_PREPARE")'
      BY <1>1, <3>1, <3>2 DEF Others, ToBranch
    <3> QED BY <1>1, <1>3, <1>5, <3>3, <3>4 DEF DoomedPhase, AllWorking
  <2>5. Routed(link, t)'
    BY <1>1, <2>1 DEF Routed, NoneOf
  <2>6. \A u \in Tx \ {t} : SameFor(u)
    BY <1>1, <1>5, <2>1, <2>2 DEF SameFor
  <2> QED BY <1>1, <1>5, <2>1, <2>2, <2>3, <2>4, <2>5, <2>6, StepForKeeps
          DEF StepFor, Phase
<1>7. CASE coordinator[t] # b
  <2> DEFINE m == Notify(kind, t)
  <2>1. /\ link' = Send(l, b, coordinator[t], m) /\ client' = client
        /\ client[t] = "asked"
    BY <1>2, <1>7 DEF Reply, Unanswered
  <2>2. m \in Message /\ m.tx = t /\ m.kind = kind
    BY <1>1, NotifyMessage
  <2> HIDE DEF m
  <2>3. /\ link' \in Connections /\ OnlyAbortFollows(link')
        /\ \A u : u # t => SameMessages(link', u)
        /\ \A p, q \in Branch, k \in Kinds :
              Carries(link', p, q, t, k) <=> p = b /\ q = coordinator[t] /\ k = kind
    BY <1>1, <2>1, <2>2, SendFirst
  <2>4. PhaseTypes'
    BY <1>5, <2>1, <2>3 DEF PhaseInv, PhaseTypes
  <2>5. RefusedPhase(t)'
    BY <1>1, <1>3, <1>5, <2>3 DEF RefusedPhase, AllWorking, NoneOf
  <2>6. Routed(link, t)'
    BY <1>1, <1>2, <1>7, <2>1, <2>3 DEF Routed, Orders, Asks
  <2>7. \A u \in Tx \ {t} : SameFor(u)
    BY <1>5, <2>1, <2>3 DEF SameFor
  <2> QED BY <1>1, <1>5, <2>1, <2>3, <2>4, <2>5, <2>6, <2>7, StepForKeeps
          DEF StepFor, Phase
<1> QED BY <1>6, <1>7

LEMMA PanicStep ==
    ASSUME PhaseInv, NEW b, Panic(b)
    PROVE  PhaseInv' /\ UNCHANGED outcome
BY UnchangedKeeps DEF Panic, session

LEMMA ExecuteStep ==
    ASSUME PhaseInv, NEW t, NEW b, NEW l, NEW rest, Unanswered(t, b, l, rest),
           NEW op \in Operation, op.tx = t, Execute(b, op, l, rest)
    PROVE  PhaseInv' /\ UNCHANGED outcome
<1>1. UNCHANGED <<commitCount, coordinator, outcome>>
  BY DEF Execute
<1>2. CASE Refuse(b, op, l, rest)
  BY <1>1, <1>2, RefuseStep
<1>3. CASE Enter(b, op, l, rest)
  <2> DEFINE x == [do |-> "lock", branch |-> b, source |-> coordinator[t],
                   tx |-> t, op |-> op]
  <2>1. /\ jobs' = rest \cup {x} /\ link' = l
        /\ client' = [client EXCEPT ![t] = "asked"]
    BY <1>3 DEF Enter
  <2>2. /\ x.tx = t /\ x.branch = b /\ x.do \in Executing /\ x.op = op
        /\ {"do", "branch", "tx", "op"} \subseteq DOMAIN x
    BY DEF Executing
  <2>3. b \in Branch
    BY DEF Unanswered
  <2> HIDE DEF x
  <2> QED BY <1>1, <2>1, <2>2, <2>3, MiddleStep
<1> QED BY <1>1, <1>2, <1>3 DEF Execute, NotFound, ReadTooLate

LEMMA BeginStep ==
    ASSUME PhaseInv, NEW t \in Tx, NEW b \in Branch, Begin(t, b)
    PROVE  PhaseInv' /\ UNCHANGED outcome
<1>1. /\ client[t] = "new"
      /\ client' = [client EXCEPT ![t] = "ready"]
      /\ coordinator' = [coordinator EXCEPT ![t] = b]
      /\ UNCHANGED <<commitCount, link, jobs, outcome>>
  BY DEF Begin
<1>2. /\ client' \in [Tx -> {"new", "ready", "asked", "committing", "ended"}]
      /\ coordinator' \in [Tx -> Branch \cup {NULL}]
      /\ client'[t] = "ready" /\ coordinator'[t] = b
      /\ \A u \in Tx \ {t} : client'[u] = client[u] /\ coordinator'[u] = coordinator[u]
  BY <1>1 DEF PhaseInv, PhaseTypes
<1>3. PhaseTypes' /\ OnlyAbortFollows(link)' /\ OneSpins'
  <2>1. JobTypes' /\ OneSpins'
    BY <1>1 DEF PhaseInv, PhaseTypes, JobTypes, OneSpins
  <2>2. OnlyAbortFollows(link')
    BY <1>1 DEF PhaseInv
  <2> QED BY <1>1, <1>2, <2>1, <2>2 DEF PhaseInv, PhaseTypes
<1>4. IdlePhase(t)
  BY <1>1 DEF PhaseInv, Phase
<1>5. IdlePhase(t)' /\ Routed(link, t)'
  BY <1>1, <1>2, <1>4 DEF IdlePhase, AllWorking, JobsOf, NoneOf, Routed
<1>6. \A u \in Tx \ {t} : SameFor(u)
  BY <1>1, <1>2 DEF SameFor, SameMessages, JobsOf
<1> QED BY <1>1, <1>2, <1>3, <1>5, <1>6, StepForKeeps DEF StepFor, Phase

LEMMA ReadyIsIdle ==
    ASSUME PhaseInv, NEW t \in Tx, Ready(t)
    PROVE  client[t] = "ready" /\ coordinator[t] \in Branch /\ IdlePhase(t)
BY DEF PhaseInv, Phase, Routed, Ready

LEMMA CommandStep ==
    ASSUME PhaseInv, NEW t \in Tx, NEW op \in Operation, Command(t, op)
    PROVE  PhaseInv' /\ UNCHANGED outcome
<1>1. client[t] = "ready" /\ coordinator[t] \in Branch /\ IdlePhase(t) /\ op.tx = t
  BY ReadyIsIdle DEF Command
<1> DEFINE b == coordinator[t]
<1>2. CASE Execute(b, op, link, jobs)
  <2>1. Unanswered(t, b, link, jobs)
    <3>1. jobs = {j \in jobs : j.tx # t}
      BY <1>1 DEF IdlePhase, JobsOf
    <3> QED BY <1>1, <3>1 DEF Unanswered, IdlePhase, PhaseInv, PhaseTypes, SameMessages
  <2> QED BY <1>1, <1>2, <2>1, ExecuteStep
<1>3. CASE /\ op.branch # b
           /\ link' = Send(link, b, op.branch, op)
           /\ client' = [client EXCEPT ![t] = "asked"]
           /\ UNCHANGED <<store, commitCount, up, jobs, coordinator, outcome, seen>>
  <2>1. op \in Message /\ op.branch \in Branch /\ op.kind \in Asks
    BY DEF Message, Operation, Asks
  <2>2. link \in Connections /\ OnlyAbortFollows(link) /\ NoneOf(link, t, Kinds)
    BY <1>1 DEF PhaseInv, PhaseTypes, IdlePhase
  <2>3. \A u : u # t => SameMessages(link, u)
    BY DEF SameMessages
  <2>4. /\ link' \in Connections /\ OnlyAbortFollows(link')
        /\ \A u : u # t => SameMessages(link', u)
        /\ \A p, q \in Branch, k \in Kinds :
              Carries(link', p, q, t, k) <=> p = b /\ q = op.branch /\ k = op.kind
    BY <1>1, <1>3, <2>1, <2>2, <2>3, SendFirst
  <2>5. /\ client' \in [Tx -> {"new", "ready", "asked", "committing", "ended"}]
        /\ client'[t] = "asked" /\ \A u \in Tx \ {t} : client'[u] = client[u]
    BY <1>3 DEF PhaseInv, PhaseTypes
  <2>6. PhaseTypes' /\ OneSpins'
    BY <1>3, <2>4, <2>5 DEF PhaseInv, PhaseTypes, JobTypes, OneSpins
  <2>7. TravelsPhase(t)'
    BY <1>1, <1>3, <2>1, <2>4 DEF TravelsPhase, IdlePhase, AllWorking, NoneOf, JobsOf
  <2>8. Routed(link, t)'
    BY <1>1, <1>3, <2>1, <2>4 DEF Routed, Orders
  <2>9. \A u \in Tx \ {t} : SameFor(u)
    BY <1>3, <2>4, <2>5 DEF SameFor, JobsOf
  <2> QED BY <1>3, <2>4, <2>5, <2>6, <2>7, <2>8, <2>9, StepForKeeps DEF StepFor, Phase
<1> QED BY <1>2, <1>3 DEF Command

\* A message taken in the middle of a command leaves nothing of it on its way.
LEMMA TakenFromTravel ==
    ASSUME PhaseInv, NEW c \in Branch, NEW b \in Branch, NEW t \in Tx, NEW kind \in Kinds,
           Carries(link, c, b, t, kind), TravelsPhase(t),
           NEW l, Taken(l, c, b, t)
    PROVE  NoneOf(l, t, Kinds)
<1> SUFFICES ASSUME NEW p \in Branch, NEW q \in Branch, NEW k \in Kinds,
                    Carries(l, p, q, t, k)
             PROVE  FALSE
  BY DEF NoneOf
<1>1. Carries(link, p, q, t, k)
  BY DEF Taken
<1>2. p = c /\ q = b
  BY <1>1 DEF TravelsPhase
<1>3. k = "ABORT_Coordinator"
  BY <1>2 DEF Taken
<1> QED BY <1>1, <1>3 DEF TravelsPhase, NoneOf, Asks

LEMMA ForwardedStep ==
    ASSUME PhaseInv, NEW c \in Branch, NEW b \in Branch, NEW k, k = 1, Forwarded(c, b, k)
    PROVE  PhaseInv' /\ UNCHANGED outcome
<1> DEFINE op == link[c][b][1]
           t == op.tx
           l == Consumed(c, b, k)
<1>1. /\ Taken(l, c, b, t) /\ op \in Message /\ t \in Tx /\ op.kind \in Asks
      /\ op.kind \in Kinds /\ Carries(link, c, b, t, op.kind)
  BY ReadingTakes DEF Forwarded, Asks
<1>2. Execute(b, op, l, jobs)
  BY DEF Forwarded
<1>3. op \in Operation
  BY <1>1 DEF Message, Notice, Asks
<1> HIDE DEF op, t, l
<1>4. client[t] = "asked" /\ coordinator[t] \in Branch /\ TravelsPhase(t)
  BY <1>1, PhaseOfMessage
<1>5. NoneOf(l, t, Kinds)
  BY <1>1, <1>4, TakenFromTravel
<1>6. jobs = {j \in jobs : j.tx # t}
  BY <1>4 DEF TravelsPhase, JobsOf
<1>7. Unanswered(t, b, l, jobs)
  BY <1>1, <1>4, <1>5, <1>6 DEF Unanswered, TravelsPhase, Taken
<1>8. op.tx = t
  BY DEF t
<1> QED BY <1>2, <1>3, <1>7, <1>8, ExecuteStep

LEMMA RepliedStep ==
    ASSUME PhaseInv, NEW c \in Branch, NEW b \in Branch, NEW k, k = 1, Replied(c, b, k)
    PROVE  PhaseInv' /\ UNCHANGED outcome
<1> DEFINE l == Consumed(c, b, k)
<1>1. PICK t \in Tx : /\ t = link[c][b][k].tx
                     /\ Taken(l, c, b, t)
                     /\ Carries(link, c, b, t, "OK")
  BY ReadingTakes DEF Replied
<1>2. CASE Panic(b)
  BY <1>2, PanicStep
<1>3. CASE /\ link' = l
           /\ client' = [client EXCEPT ![t] = IF @ = "asked" THEN "ready" ELSE @]
           /\ UNCHANGED <<store, commitCount, up, jobs, coordinator, ops, outcome, seen>>
  <2> HIDE DEF l
  <2>1. "OK" \in Kinds
    BY DEF Kinds, Answers
  <2>2. client[t] = "asked" /\ coordinator[t] \in Branch /\ TravelsPhase(t)
    BY <1>1, <2>1, PhaseOfMessage
  <2>3. NoneOf(link', t, Kinds)
    BY <1>1, <1>3, <2>1, <2>2, TakenFromTravel
  <2>4. /\ link' \in Connections /\ OnlyAbortFollows(link')
        /\ \A u : u # t => SameMessages(link', u)
    BY <1>1, <1>3 DEF Taken
  <2>5. /\ client' \in [Tx -> {"new", "ready", "asked", "committing", "ended"}]
        /\ client'[t] = "ready" /\ \A u \in Tx \ {t} : client'[u] = client[u]
    BY <1>1, <1>3, <2>2 DEF PhaseInv, PhaseTypes
  <2>6. PhaseTypes' /\ OneSpins'
    BY <1>3, <2>4, <2>5 DEF PhaseInv, PhaseTypes, JobTypes, OneSpins
  <2>7. IdlePhase(t)'
    BY <1>3, <2>2, <2>3 DEF TravelsPhase, IdlePhase, AllWorking, JobsOf
  <2>8. Routed(link, t)'
    BY <1>3, <2>2, <2>3 DEF Routed, NoneOf
  <2>9. \A u \in Tx \ {t} : SameFor(u)
    BY <1>3, <2>4, <2>5 DEF SameFor, JobsOf
  <2> QED BY <1>1, <1>3, <2>4, <2>5, <2>6, <2>7, <2>8, <2>9, StepForKeeps
          DEF StepFor, Phase
<1> QED BY <1>1, <1>2, <1>3 DEF Replied

\* A handler in the middle of a command has nothing else of it beside it.
LEMMA MiddleIsUnanswered ==
    ASSUME PhaseInv, NEW j \in jobs, j.do \in Executing
    PROVE  /\ Unanswered(j.tx, j.branch, link, jobs \ {j})
           /\ client[j.tx] = "asked"
           /\ j.op \in Operation /\ j.op.tx = j.tx
           /\ {"do", "branch", "tx", "op"} \subseteq DOMAIN j
<1> DEFINE t == j.tx
<1>1. /\ t \in Tx /\ j.branch \in Branch /\ client[t] = "asked"
      /\ coordinator[t] \in Branch /\ ExecutesPhase(t) /\ JobsOf(t) = {j}
  BY PhaseOfJob
<1>2. jobs \ {j} = {i \in jobs : i.tx # t}
  BY <1>1 DEF JobsOf
<1>3. \A u : u # t => SameMessages(link, u)
  BY DEF SameMessages
<1>4. /\ j.op \in Operation /\ j.op.tx = t
      /\ {"do", "branch", "tx", "op"} \subseteq DOMAIN j
  BY DEF PhaseInv, PhaseTypes, JobTypes
<1>5. link \in Connections /\ OnlyAbortFollows(link)
  BY DEF PhaseInv, PhaseTypes
<1> HIDE DEF t
<1>6. Unanswered(t, j.branch, link, jobs \ {j})
  BY <1>1, <1>2, <1>3, <1>5 DEF Unanswered, ExecutesPhase
<1> QED BY <1>1, <1>4, <1>6 DEF t

LEMMA LockedStep ==
    ASSUME PhaseInv, NEW j \in jobs, Locked(j)
    PROVE  PhaseInv' /\ UNCHANGED outcome
<1> DEFINE t == j.tx
           b == j.branch
           rest == jobs \ {j}
<1>1. j.do \in Executing
  BY DEF Locked, Executing
<1>2. /\ Unanswered(t, b, link, rest) /\ client[t] = "asked"
      /\ j.op \in Operation /\ j.op.tx = t /\ b \in Branch
  BY <1>1, MiddleIsUnanswered DEF Unanswered
<1>3. CASE Write(b, j.op, rest)
  <2>1. UNCHANGED <<commitCount, coordinator, outcome>>
    BY <1>3 DEF Write
  <2>2. CASE Refuse(b, j.op, link, rest)
    BY <1>2, <2>1, <2>2, RefuseStep
  <2>3. CASE Reply(b, t, "OK", link) /\ jobs' = rest
    BY <1>2, <2>1, <2>3, AnswerStep
  <2> QED BY <1>2, <1>3, <2>1, <2>2, <2>3 DEF Write
<1>4. CASE Read(b, j.op, rest)
  <2>1. UNCHANGED <<commitCount, coordinator, outcome>>
    BY <1>4 DEF Read
  <2>2. CASE Reply(b, t, "OK", link) /\ jobs' = rest
    BY <1>2, <2>1, <2>2, AnswerStep
  <2>3. ASSUME NEW TS,
               jobs' = rest \cup
                   {[do |-> "wait", branch |-> b, source |-> coordinator[t],
                     tx |-> t, op |-> j.op, writer |-> TS]},
               UNCHANGED <<client, link>>
        PROVE  PhaseInv'
    <3> DEFINE x == [do |-> "wait", branch |-> b, source |-> coordinator[t],
                     tx |-> t, op |-> j.op, writer |-> TS]
    <3>1. /\ x.tx = t /\ x.branch = b /\ x.do \in Executing /\ x.op = j.op
          /\ {"do", "branch", "tx", "op"} \subseteq DOMAIN x
      BY DEF Executing
    <3>2. jobs' = rest \cup {x}
      BY <2>3
    <3> HIDE DEF x
    <3> QED BY <1>2, <2>1, <2>3, <3>1, <3>2, MiddleStep
  <2> QED BY <1>2, <1>4, <2>1, <2>2, <2>3 DEF Read
<1>5. CASE Panic(b)
  BY <1>5, PanicStep
<1> QED BY <1>3, <1>4, <1>5 DEF Locked

LEMMA WaitStep ==
    ASSUME PhaseInv, NEW j \in jobs, Wait(j)
    PROVE  PhaseInv' /\ UNCHANGED outcome
<1> DEFINE t == j.tx
           b == j.branch
           rest == jobs \ {j}
<1>1. j.do \in Executing
  BY DEF Wait, Executing
<1>2. /\ Unanswered(t, b, link, rest) /\ client[t] = "asked"
      /\ j.op \in Operation /\ j.op.tx = t /\ b \in Branch
      /\ {"do", "branch", "tx", "op"} \subseteq DOMAIN j
  BY <1>1, MiddleIsUnanswered DEF Unanswered
<1>3. CASE Execute(b, j.op, link, rest)
  BY <1>2, <1>3, ExecuteStep
<1>4. CASE /\ jobs' = rest \cup {[j EXCEPT !.do = "stuck"]}
           /\ UNCHANGED <<store, commitCount, up, link, session, outcome, seen>>
  <2> DEFINE x == [j EXCEPT !.do = "stuck"]
  <2>1. /\ x.tx = t /\ x.branch = b /\ x.do \in Executing /\ x.op = j.op
        /\ {"do", "branch", "tx", "op"} \subseteq DOMAIN x
    BY <1>2 DEF Executing
  <2>2. jobs' = rest \cup {x}
    BY <1>4
  <2> HIDE DEF x
  <2> QED BY <1>2, <1>4, <2>1, <2>2, MiddleStep DEF session
<1> QED BY <1>3, <1>4 DEF Wait

-----------------------------------------------------------------------------
(***************************************************************************)
(* Aborts.                                                                 *)
(***************************************************************************)
\* One more handler of t, or one less, that does not spin.
LEMMA AbortJobs ==
    ASSUME PhaseInv, NEW t \in Tx, NEW x, x.tx = t, x.branch \in Branch, x.do = "abort",
           jobs' \in {jobs, jobs \cup {x}, jobs \ {x}}
    PROVE  /\ JobTypes' /\ OneSpins'
           /\ \A u \in Tx \ {t} : JobsOf(u)' = JobsOf(u)
           /\ JobsOf(t)' \subseteq JobsOf(t) \cup {x}
           /\ jobs' \in {jobs, jobs \ {x}} => JobsOf(t)' \subseteq JobsOf(t)
<1>1. JobTypes /\ OneSpins
  BY DEF PhaseInv, PhaseTypes
<1>2. JobTypes'
  BY <1>1 DEF JobTypes, Executing
<1>3. OneSpins'
  BY <1>1 DEF OneSpins
<1>4. \A u \in Tx \ {t} : JobsOf(u)' = JobsOf(u)
  BY DEF JobsOf
<1>5. /\ JobsOf(t)' \subseteq JobsOf(t) \cup {x}
      /\ jobs' \in {jobs, jobs \ {x}} => JobsOf(t)' \subseteq JobsOf(t)
  BY DEF JobsOf
<1> QED BY <1>2, <1>3, <1>4, <1>5

\* The coordinator aborts t and tells the other branches; messages of t on
\* the connections l are those of a transaction that is to be aborted.
LEMMA AbortedByCoordinator ==
    ASSUME PhaseInv, NEW t \in Tx, NEW b \in Branch, b = coordinator[t],
           NEW l \in Connections, OnlyAbortFollows(l),
           \A u : u # t => SameMessages(l, u),
           Routed(l, t), DoomedPhase(l, t),
           outcome' = [outcome EXCEPT ![t][b] = "aborted"],
           link' = Broadcast(l, b, Notify("ABORT_Coordinator", t)),
           client' = [client EXCEPT ![t] = "ended"],
           jobs' = jobs \/ jobs' = jobs \cup {Job("abort", b, b, t)},
           UNCHANGED <<commitCount, coordinator>>
    PROVE  PhaseInv' /\ Promise!TakeBack(t, b)
<1> DEFINE m == Notify("ABORT_Coordinator", t)
           x == Job("abort", b, b, t)
<1>1. m \in Message /\ m.tx = t /\ m.kind = "ABORT_Coordinator"
  BY NotifyMessage
<1>2. x.tx = t /\ x.branch = b /\ x.do = "abort" /\ jobs' \in {jobs, jobs \cup {x}}
  BY DEF Job
<1>3. link' = Broadcast(l, b, m)
  OBVIOUS
<1> HIDE DEF m, x
<1>4. /\ link' \in Connections /\ OnlyAbortFollows(link')
      /\ \A p, q \in Branch : \A u, k :
            Carries(link', p, q, u, k) <=>
               Carries(l, p, q, u, k) \/ (p = b /\ q # b /\ m.tx = u /\ m.kind = k)
  BY <1>1, <1>3, BroadcastCarries
<1>5. \A u : u # t => SameMessages(link', u)
  BY <1>1, <1>4 DEF SameMessages
<1>6. \A p, q \in Branch : \A k :
         Carries(link', p, q, t, k) <=>
            Carries(l, p, q, t, k) \/ (p = b /\ q # b /\ k = "ABORT_Coordinator")
  BY <1>1, <1>4
<1>7. /\ JobTypes' /\ OneSpins'
      /\ \A u \in Tx \ {t} : JobsOf(u)' = JobsOf(u)
      /\ JobsOf(t)' \subseteq JobsOf(t) \cup {x}
  BY <1>2, AbortJobs
<1>8. /\ outcome' \in [Tx -> [Branch -> {"working", "prepared", "committed", "aborted"}]]
      /\ \A u \in Tx \ {t} : outcome'[u] = outcome[u]
      /\ outcome'[t][b] = "aborted"
      /\ \A c \in Branch \ {b} : outcome'[t][c] = outcome[t][c]
  <2>1. outcome \in [Tx -> [Branch -> {"working", "prepared", "committed", "aborted"}]]
    BY DEF PhaseInv, PhaseTypes
  <2> QED BY <2>1
<1>9. /\ client' \in [Tx -> {"new", "ready", "asked", "committing", "ended"}]
      /\ client'[t] = "ended" /\ \A u \in Tx \ {t} : client'[u] = client[u]
  BY DEF PhaseInv, PhaseTypes
<1>10. PhaseTypes'
  BY <1>4, <1>7, <1>8, <1>9 DEF PhaseInv, PhaseTypes
<1>11. Others(t)' = Others(t) /\ \A c \in Others(t) : c \in Branch /\ c # b
  BY DEF Others
<1>12. \A c \in Others(t) :
          /\ ToBranch(link, t, c, "COMMIT_PREPARE")' => ToBranch(l, t, c, "COMMIT_PREPARE")
          /\ \A k : FromBranch(link, t, c, k)' => FromBranch(l, t, c, k)
  BY <1>6, <1>11 DEF ToBranch, FromBranch
<1>13. DoomedPhase(link, t)'
  <2>1. NoneOf(link', t, Asks \cup {"OK", "COMMIT_OK"})
    BY <1>6 DEF DoomedPhase, NoneOf, Asks
  <2>2. \A j \in JobsOf(t)' : j.do = "abort"
    BY <1>2, <1>7 DEF DoomedPhase
  <2>3. \A c \in Branch : outcome'[t][c] # "committed"
    BY <1>8 DEF DoomedPhase
  <2>4. ASSUME NEW c \in Others(t), ToBranch(link, t, c, "COMMIT_PREPARE")'
        PROVE  /\ outcome'[t][c] = "working"
               /\ \A k \in Answers : ~FromBranch(link, t, c, k)'
               /\ \A j \in JobsOf(t)' : j.branch # c
    BY <1>2, <1>7, <1>8, <1>11, <1>12, <2>4 DEF DoomedPhase
  <2>5. NoneOf(l, t, {"COMMIT_PREPARE", "COMMIT_READY"}) =>
           NoneOf(link', t, {"COMMIT_PREPARE", "COMMIT_READY"})
    BY <1>6 DEF NoneOf
  <2>6. \A c \in Others(t) : OutOfCount(l, t, c) => OutOfCount(link, t, c)'
    BY <1>12 DEF OutOfCount
  <2>7. \/ NoneOf(link', t, {"COMMIT_PREPARE", "COMMIT_READY"})
        \/ \E S \in SUBSET Others(t), d \in Others(t) :
             /\ d \notin S
             /\ Cardinality(S) = commitCount'[t]
             /\ \A c \in S \cup {d} : OutOfCount(link, t, c)'
    BY <2>5, <2>6 DEF DoomedPhase
  <2> QED BY <1>11, <2>1, <2>2, <2>3, <2>4, <2>7 DEF DoomedPhase
<1>14. Routed(link, t)'
  BY <1>6, <1>9 DEF Routed, Orders
<1>15. \A u \in Tx \ {t} : SameFor(u)
  BY <1>5, <1>7, <1>8, <1>9 DEF SameFor
<1>16. PhaseInv'
  BY <1>4, <1>7, <1>9, <1>10, <1>13, <1>14, <1>15, StepForKeeps DEF StepFor, Phase
<1>17. Promise!TakeBack(t, b)
  BY DEF DoomedPhase, Promise!TakeBack, Promise!Become
<1> QED BY <1>16, <1>17

OutcomeStep == [Promise!Next]_outcome

LEMMA TakeBackStep ==
    ASSUME NEW t \in Tx, NEW b \in Branch, Promise!TakeBack(t, b)
    PROVE  OutcomeStep
BY DEF OutcomeStep, Promise!Next

LEMMA AgreeStep ==
    ASSUME NEW t \in Tx, NEW b \in Branch, Promise!Agree(t, b)
    PROVE  OutcomeStep
BY DEF OutcomeStep, Promise!Next

LEMMA OneCommitStep ==
    ASSUME NEW t \in Tx, NEW b \in Branch, Promise!Commit(t, b)
    PROVE  OutcomeStep
BY DEF OutcomeStep, Promise!Next

\* A client that has no command out can be told that t is aborted.
LEMMA IdleIsDoomed ==
    ASSUME PhaseInv, NEW t \in Tx, Ready(t)
    PROVE  /\ DoomedPhase(link, t)
           /\ Routed(link, t)
           /\ link \in Connections
           /\ OnlyAbortFollows(link)
           /\ \A u : u # t => SameMessages(link, u)
           /\ coordinator[t] \in Branch
<1>1. IdlePhase(t) /\ coordinator[t] \in Branch
  BY ReadyIsIdle
<1>2. {"COMMIT_PREPARE", "COMMIT_READY", "OK", "COMMIT_OK"} \cup Asks \subseteq Kinds
  BY DEF Kinds, Orders, Answers
<1>3. \A c \in Others(t) : ~ToBranch(link, t, c, "COMMIT_PREPARE")
  BY <1>1, <1>2 DEF IdlePhase, NoneOf, Others, ToBranch
<1>4. DoomedPhase(link, t)
  BY <1>1, <1>2, <1>3 DEF IdlePhase, DoomedPhase, AllWorking, NoneOf
<1> QED BY <1>1, <1>4 DEF PhaseInv, PhaseTypes, SameMessages

LEMMA AskAbortStep ==
    ASSUME PhaseInv, NEW t \in Tx, AskAbort(t)
    PROVE  PhaseInv' /\ OutcomeStep
<1> DEFINE b == coordinator[t]
<1>1. CASE Panic(b)
  BY <1>1, PanicStep DEF OutcomeStep
<1>2. CASE /\ DoAbort(b, t)
           /\ link' = Broadcast(link, b, Notify("ABORT_Coordinator", t))
           /\ client' = [client EXCEPT ![t] = "ended"]
           /\ UNCHANGED <<commitCount, jobs, coordinator, ops, seen>>
  <2>1. outcome' = [outcome EXCEPT ![t][b] = "aborted"]
    BY <1>2 DEF DoAbort
  <2>2. PhaseInv' /\ Promise!TakeBack(t, b)
    BY <1>2, <2>1, IdleIsDoomed, AbortedByCoordinator DEF AskAbort
  <2> QED BY <2>2, IdleIsDoomed, TakeBackStep DEF AskAbort
<1> QED BY <1>1, <1>2 DEF AskAbort, AbortEverywhere

\* A refusal makes of any transaction one that is to be aborted.
LEMMA RefusedIsDoomed ==
    ASSUME PhaseInv, NEW c \in Branch, NEW b \in Branch, NEW t \in Tx,
           NEW kind \in {"ABORTED", "NOT"}, Carries(link, c, b, t, kind),
           NEW l, Taken(l, c, b, t)
    PROVE  /\ b = coordinator[t]
           /\ Routed(l, t)
           /\ DoomedPhase(l, t)
<1>1. kind \in Kinds /\ kind \in Answers /\ Answers \subseteq Kinds
  BY DEF Kinds, Answers
<1>2. /\ b = coordinator[t] /\ c \in Others(t)
      /\ \/ client[t] = "asked" /\ RefusedPhase(t)
         \/ /\ client[t] = "committing" /\ kind = "ABORTED"
            /\ \E S \in SUBSET Others(t) : VotingPhase(t, S)
         \/ client[t] = "ended" /\ DoomedPhase(link, t)
  BY <1>1, PhaseOfMessage
<1>3. \A p, q \in Branch : \A k : Carries(l, p, q, t, k) => Carries(link, p, q, t, k)
  BY DEF Taken
<1>4. Routed(l, t)
  BY <1>3 DEF PhaseInv, Routed
<1> SUFFICES DoomedPhase(l, t)
  BY <1>2, <1>4
<1>5. \A kinds : NoneOf(link, t, kinds) => NoneOf(l, t, kinds)
  BY <1>3 DEF NoneOf
<1>6. \A d \in Others(t) : \A k :
         /\ ToBranch(l, t, d, k) => ToBranch(link, t, d, k)
         /\ FromBranch(l, t, d, k) => FromBranch(link, t, d, k)
  BY <1>2, <1>3 DEF Others, ToBranch, FromBranch
<1>7. \A d \in Others(t) : OutOfCount(link, t, d) => OutOfCount(l, t, d)
  BY <1>6 DEF OutOfCount
<1>8. CASE RefusedPhase(t)
  <2>1. /\ NoneOf(link, t, {"COMMIT_PREPARE", "COMMIT_READY"})
        /\ NoneOf(link, t, Asks \cup {"OK", "COMMIT_OK"})
    BY <1>8 DEF RefusedPhase, NoneOf, Kinds, Orders, Answers, Asks
  <2>2. \A d \in Others(t) : ~ToBranch(link, t, d, "COMMIT_PREPARE")
    BY <1>2, <2>1 DEF NoneOf, Others, ToBranch
  <2> QED BY <1>5, <1>6, <1>8, <2>1, <2>2 DEF RefusedPhase, DoomedPhase
<1>9. ASSUME NEW S \in SUBSET Others(t), VotingPhase(t, S), kind = "ABORTED"
      PROVE  DoomedPhase(l, t)
  <2>1. FromBranch(link, t, c, "ABORTED")
    BY <1>2, <1>9 DEF FromBranch
  <2>2. c \notin S /\ HasRefused(t, c)
    BY <1>2, <1>9, <2>1 DEF VotingPhase, Counted, ToldToPrepare, IsReady
  <2>3. \A d \in S \cup {c} : OutOfCount(l, t, d)
    <3>1. \A d \in S \cup {c} : OutOfCount(link, t, d)
      BY <1>9, <2>2 DEF VotingPhase, Counted, HasRefused, OutOfCount
    <3> QED BY <1>2, <1>7, <3>1
  <2>4. NoneOf(link, t, Asks \cup {"OK", "NOT", "COMMIT_OK"})
    BY <1>9 DEF VotingPhase, NoneOf, Kinds, Orders, Answers, Asks
  <2>5. NoneOf(l, t, Asks \cup {"OK", "COMMIT_OK"})
    BY <1>5, <2>4 DEF NoneOf
  <2>6. \A d \in Branch : outcome[t][d] # "committed"
    BY <1>9 DEF VotingPhase, Others, Counted, ToldToPrepare, IsReady, HasRefused
  <2>7. ASSUME NEW d \in Others(t), ToBranch(l, t, d, "COMMIT_PREPARE")
        PROVE  /\ outcome[t][d] = "working"
               /\ \A k \in Answers : ~FromBranch(l, t, d, k)
               /\ \A j \in JobsOf(t) : j.branch # d
    <3>1. ToldToPrepare(t, d) /\ ToBranch(link, t, d, "COMMIT_PREPARE")
      BY <1>6, <1>9, <2>7 DEF VotingPhase, Counted, IsReady, HasRefused
    <3>2. \A k \in Answers : ~FromBranch(link, t, d, k)
      BY <1>2, <2>4, <3>1 DEF ToldToPrepare, NoneOf, Others, FromBranch, Answers
    <3>3. \A j \in JobsOf(t) : j.branch # d
      BY <1>9, <3>1 DEF VotingPhase, HasRefused
    <3> QED BY <1>6, <3>1, <3>2, <3>3 DEF ToldToPrepare
  <2>8. \A j \in JobsOf(t) : j.do = "abort"
    BY <1>9 DEF VotingPhase
  <2>9. Cardinality(S) = commitCount[t]
    BY <1>9 DEF VotingPhase
  <2> QED BY <1>2, <2>2, <2>3, <2>5, <2>6, <2>7, <2>8, <2>9 DEF DoomedPhase
<1>10. CASE DoomedPhase(link, t)
  BY <1>5, <1>6, <1>7, <1>10 DEF DoomedPhase
<1> QED BY <1>2, <1>8, <1>9, <1>10

LEMMA RefusedStep ==
    ASSUME PhaseInv, NEW c \in Branch, NEW b \in Branch, NEW k, k = 1, Refused(c, b, k)
    PROVE  PhaseInv' /\ OutcomeStep
<1> DEFINE l == Consumed(c, b, k)
<1>1. PICK t \in Tx, kind \in {"ABORTED", "NOT"} :
         t = link[c][b][k].tx /\ Taken(l, c, b, t) /\ Carries(link, c, b, t, kind)
  BY ReadingTakes DEF Refused
<1> HIDE DEF l
<1>2. b = coordinator[t] /\ Routed(l, t) /\ DoomedPhase(l, t)
  BY <1>1, RefusedIsDoomed
<1>3. CASE Panic(b)
  BY <1>3, PanicStep DEF OutcomeStep
<1>4. CASE /\ DoAbort(b, t)
           /\ link' = Broadcast(l, b, Notify("ABORT_Coordinator", t))
           /\ client' = [client EXCEPT ![t] = "ended"]
           /\ UNCHANGED <<commitCount, jobs, coordinator, ops, seen>>
  <2>1. outcome' = [outcome EXCEPT ![t][b] = "aborted"]
    BY <1>4 DEF DoAbort
  <2>2. l \in Connections /\ OnlyAbortFollows(l) /\ \A u : u # t => SameMessages(l, u)
    BY <1>1 DEF Taken
  <2> HIDE DEF l
  <2>3. PhaseInv' /\ Promise!TakeBack(t, b)
    BY <1>2, <1>4, <2>1, <2>2, AbortedByCoordinator
  <2> QED BY <2>3, TakeBackStep
<1> QED BY <1>1, <1>3, <1>4 DEF Refused, AbortEverywhere, l

\* A branch other than the coordinator is ordered to abort.
LEMMA AbortOrderedStep ==
    ASSUME PhaseInv, NEW c \in Branch, NEW b \in Branch, NEW k, k = 1, AbortOrdered(c, b, k)
    PROVE  PhaseInv' /\ OutcomeStep
<1> DEFINE l == Consumed(c, b, k)
<1>1. PICK t \in Tx :
         /\ t = link[c][b][k].tx
         /\ Taken(l, c, b, t)
         /\ Carries(link, c, b, t, "ABORT_Coordinator")
  BY ReadingTakes DEF AbortOrdered
<1>2. CASE Panic(b)
  BY <1>2, PanicStep DEF OutcomeStep
<1>3. ASSUME DoAbort(b, t), link' = l, UNCHANGED <<commitCount, up, jobs, session, seen>>
      PROVE  PhaseInv' /\ OutcomeStep
  <2> HIDE DEF l
  <2>1. "ABORT_Coordinator" \in Kinds /\ "ABORT_Coordinator" \in Orders
    BY DEF Kinds, Orders
  <2>2. /\ client[t] = "ended" /\ DoomedPhase(link, t) /\ coordinator[t] \in Branch
        /\ c = coordinator[t] /\ b \in Others(t)
    BY <1>1, <2>1, PhaseOfMessage
  <2>3. outcome' = [outcome EXCEPT ![t][b] = "aborted"]
    BY <1>3 DEF DoAbort
  <2>4. outcome \in [Tx -> [Branch -> {"working", "prepared", "committed", "aborted"}]]
    BY DEF PhaseInv, PhaseTypes
  <2>5. /\ outcome' \in [Tx -> [Branch -> {"working", "prepared", "committed", "aborted"}]]
        /\ \A u \in Tx \ {t} : outcome'[u] = outcome[u]
        /\ outcome'[t][b] = "aborted"
        /\ \A d \in Branch \ {b} : outcome'[t][d] = outcome[t][d]
    BY <2>3, <2>4
  <2>6. /\ link' \in Connections /\ OnlyAbortFollows(link')
        /\ \A u : u # t => SameMessages(link', u)
        /\ \A p, q \in Branch : \A h : Carries(link', p, q, t, h) => Carries(link, p, q, t, h)
        /\ \A h : Carries(link', c, b, t, h) => h = "ABORT_Coordinator"
    BY <1>1, <1>3 DEF Taken
  <2>7. /\ UNCHANGED <<client, coordinator, commitCount, jobs>>
        /\ JobsOf(t)' = JobsOf(t) /\ Others(t)' = Others(t)
    BY <1>3 DEF session, JobsOf, Others
  <2>8. PhaseTypes' /\ OneSpins'
    BY <2>5, <2>6, <2>7 DEF PhaseInv, PhaseTypes, JobTypes, OneSpins
  <2>9. \A d \in Others(t) : \A h :
           /\ ToBranch(link, t, d, h)' => ToBranch(link, t, d, h)
           /\ FromBranch(link, t, d, h)' => FromBranch(link, t, d, h)
    BY <2>2, <2>6, <2>7 DEF Others, ToBranch, FromBranch
  <2>10. ~ToBranch(link, t, b, "COMMIT_PREPARE")'
    BY <2>2, <2>6, <2>7 DEF ToBranch
  <2>11. \A kinds : NoneOf(link, t, kinds) => NoneOf(link', t, kinds)
    BY <2>6 DEF NoneOf
  <2>12. DoomedPhase(link, t)'
    <3>1. \A d \in Branch : outcome'[t][d] # "committed"
      BY <2>2, <2>5 DEF DoomedPhase
    <3>2. ASSUME NEW d \in Others(t), ToBranch(link, t, d, "COMMIT_PREPARE")'
          PROVE  /\ outcome'[t][d] = "working"
                 /\ \A h \in Answers : ~FromBranch(link, t, d, h)'
                 /\ \A j \in JobsOf(t)' : j.branch # d
      <4>1. d # b /\ d \in Branch /\ ToBranch(link, t, d, "COMMIT_PREPARE")
        BY <2>9, <2>10, <3>2 DEF Others
      <4> QED BY <2>2, <2>5, <2>7, <2>9, <4>1 DEF DoomedPhase
    <3>3. \A d \in Others(t) : OutOfCount(link, t, d) => OutOfCount(link, t, d)'
      BY <2>9 DEF OutOfCount
    <3>4. \/ NoneOf(link', t, {"COMMIT_PREPARE", "COMMIT_READY"})
          \/ \E S \in SUBSET Others(t), d \in Others(t) :
               /\ d \notin S
               /\ Cardinality(S) = commitCount'[t]
               /\ \A x \in S \cup {d} : OutOfCount(link, t, x)'
      BY <2>2, <2>7, <2>11, <3>3 DEF DoomedPhase
    <3> QED BY <2>2, <2>7, <2>11, <3>1, <3>2, <3>4 DEF DoomedPhase
  <2>13. Routed(link, t)'
    BY <2>6, <2>7 DEF PhaseInv, Routed
  <2>14. \A u \in Tx \ {t} : SameFor(u)
    BY <2>5, <2>6, <2>7 DEF SameFor, JobsOf
  <2>15. PhaseInv'
    BY <2>2, <2>6, <2>7, <2>8, <2>12, <2>13, <2>14, StepForKeeps DEF StepFor, Phase
  <2>16. Promise!TakeBack(t, b)
    BY <2>2, <2>3 DEF DoomedPhase, Promise!TakeBack, Promise!Become
  <2> QED BY <2>15, <2>16, TakeBackStep
<1> QED BY <1>1, <1>2, <1>3 DEF AbortOrdered

\* A handler that has sent its refusal calls DoAbort.
LEMMA AbortStep ==
    ASSUME PhaseInv, NEW j \in jobs, Abort(j)
    PROVE  PhaseInv' /\ OutcomeStep
<1>1. PICK t \in Tx : t = j.tx
  BY PhaseOfJob
<1>2. PICK b \in Branch : b = j.branch
  BY PhaseOfJob
<1>3. CASE Panic(b)
  BY <1>3, PanicStep DEF OutcomeStep
<1>4. ASSUME DoAbort(b, t), jobs' = jobs \ {j},
             UNCHANGED <<commitCount, up, link, session, seen>>
      PROVE  PhaseInv' /\ OutcomeStep
  <2>1. /\ j \in JobsOf(t) /\ coordinator[t] \in Branch /\ j.do = "abort"
        /\ \/ client[t] = "asked" /\ RefusedPhase(t)
           \/ /\ client[t] = "committing"
              /\ \E S \in SUBSET Others(t) : VotingPhase(t, S)
           \/ client[t] = "ended" /\ DoomedPhase(link, t)
    BY <1>1, PhaseOfJob DEF Abort, JobsOf
  <2>2. outcome' = [outcome EXCEPT ![t][b] = "aborted"]
    BY <1>4 DEF DoAbort
  <2>3. outcome \in [Tx -> [Branch -> {"working", "prepared", "committed", "aborted"}]]
    BY DEF PhaseInv, PhaseTypes
  <2>4. /\ outcome' \in [Tx -> [Branch -> {"working", "prepared", "committed", "aborted"}]]
        /\ \A u \in Tx \ {t} : outcome'[u] = outcome[u]
        /\ outcome'[t][b] = "aborted"
        /\ \A d \in Branch \ {b} : outcome'[t][d] = outcome[t][d]
    BY <2>2, <2>3
  <2>5. /\ JobTypes' /\ OneSpins' /\ JobsOf(t)' \subseteq JobsOf(t)
        /\ \A u \in Tx \ {t} : JobsOf(u)' = JobsOf(u)
    BY <1>1, <1>2, <1>4, <2>1, AbortJobs
  <2>6. UNCHANGED <<client, coordinator, commitCount, link>>
    BY <1>4 DEF session
  <2>7. PhaseTypes' /\ OnlyAbortFollows(link)'
    <3>1. OnlyAbortFollows(link')
      BY <2>6 DEF PhaseInv
    <3> QED BY <2>4, <2>5, <2>6, <3>1 DEF PhaseInv, PhaseTypes
  <2>8. Routed(link, t)'
    BY <2>6 DEF PhaseInv, Routed
  <2>9. \A u \in Tx \ {t} : SameFor(u)
    BY <2>4, <2>5, <2>6 DEF SameFor, SameMessages
  <2>10. \A c \in Branch : outcome[t][c] # "committed"
    BY <2>1 DEF RefusedPhase, VotingPhase, DoomedPhase, Others, Counted, ToldToPrepare,
                IsReady, HasRefused
  <2>11. ASSUME client[t] = "asked", RefusedPhase(t)
         PROVE  Phase(t)'
    <3>1. RefusedPhase(t)'
      BY <2>4, <2>5, <2>6, <2>11 DEF RefusedPhase
    <3> QED BY <2>6, <2>11, <3>1 DEF Phase
  <2>12. ASSUME client[t] = "committing", NEW S \in SUBSET Others(t), VotingPhase(t, S)
         PROVE  Phase(t)'
    <3>1. outcome[t][b] = "aborted"
      BY <1>2, <2>1, <2>12 DEF VotingPhase, HasRefused
    <3>2. outcome' = outcome
      BY <2>2, <2>3, <3>1
    <3>3. VotingPhase(t, S)'
      BY <2>5, <2>6, <2>12, <3>2 DEF VotingPhase, Counted, ToldToPrepare, IsReady,
                                     HasRefused, Others, ToBranch, FromBranch
    <3>4. Others(t)' = Others(t)
      BY <2>6 DEF Others
    <3> QED BY <2>6, <2>12, <3>3, <3>4 DEF Phase
  <2>13. ASSUME client[t] = "ended", DoomedPhase(link, t)
         PROVE  Phase(t)'
    <3>1. ~(b \in Others(t) /\ ToBranch(link, t, b, "COMMIT_PREPARE"))
      BY <1>2, <2>1, <2>13 DEF DoomedPhase
    <3>2. /\ Others(t)' = Others(t) /\ Others(t) \subseteq Branch
          /\ \A d, k : /\ ToBranch(link, t, d, k)' <=> ToBranch(link, t, d, k)
                       /\ FromBranch(link, t, d, k)' <=> FromBranch(link, t, d, k)
      BY <2>6 DEF Others, ToBranch, FromBranch
    <3>3. \A d \in Branch : outcome'[t][d] # "committed"
      BY <2>4, <2>10
    <3>4. \A d \in Others(t)' : ToBranch(link, t, d, "COMMIT_PREPARE")' =>
             /\ outcome'[t][d] = "working"
             /\ \A k \in Answers : ~FromBranch(link, t, d, k)'
             /\ \A i \in JobsOf(t)' : i.branch # d
      BY <2>4, <2>5, <2>13, <3>1, <3>2 DEF DoomedPhase
    <3>5. \A d : OutOfCount(link, t, d)' <=> OutOfCount(link, t, d)
      BY <3>2 DEF OutOfCount
    <3>6. \A kinds : NoneOf(link, t, kinds) => NoneOf(link', t, kinds)
      BY <2>6
    <3>7. \/ NoneOf(link', t, {"COMMIT_PREPARE", "COMMIT_READY"})
          \/ \E S \in SUBSET Others(t)', d \in Others(t)' :
               /\ d \notin S
               /\ Cardinality(S) = commitCount'[t]
               /\ \A x \in S \cup {d} : OutOfCount(link, t, x)'
      BY <2>6, <2>13, <3>2, <3>5, <3>6 DEF DoomedPhase
    <3>8. DoomedPhase(link, t)'
      BY <2>5, <2>13, <3>3, <3>4, <3>6, <3>7 DEF DoomedPhase
    <3> QED BY <2>6, <2>13, <3>8 DEF Phase
  <2>14. Phase(t)'
    BY <2>1, <2>11, <2>12, <2>13
  <2>15. PhaseInv'
    BY <2>5, <2>7, <2>8, <2>9, <2>14, StepForKeeps DEF StepFor
  <2>16. Promise!TakeBack(t, b)
    BY <2>2, <2>10 DEF Promise!TakeBack, Promise!Become
  <2> QED BY <2>15, <2>16, TakeBackStep
<1> QED BY <1>1, <1>2, <1>3, <1>4 DEF Abort

-----------------------------------------------------------------------------
(***************************************************************************)
(* The first phase of commitment.                                          *)
(***************************************************************************)
LEMMA AskCommitStep ==
    ASSUME PhaseInv, NEW t \in Tx, AskCommit(t)
    PROVE  PhaseInv' /\ OutcomeStep
<1>1. Ready(t) /\ client[t] = "ready" /\ IdlePhase(t)
  BY ReadyIsIdle DEF AskCommit
<1>2. PICK b \in Branch : b = coordinator[t]
  BY ReadyIsIdle, <1>1
<1>3. CASE Panic(b)
  BY <1>3, PanicStep DEF OutcomeStep
<1>4. CASE /\ DoAbort(b, t)
           /\ link' = Broadcast(link, b, Notify("ABORT_Coordinator", t))
           /\ client' = [client EXCEPT ![t] = "ended"]
           /\ jobs' = jobs \cup {Job("abort", b, b, t)}
           /\ UNCHANGED <<commitCount, up, coordinator, ops, seen>>
  <2>1. outcome' = [outcome EXCEPT ![t][b] = "aborted"]
    BY <1>4 DEF DoAbort
  <2>2. PhaseInv' /\ Promise!TakeBack(t, b)
    BY <1>1, <1>2, <1>4, <2>1, IdleIsDoomed, AbortedByCoordinator
  <2> QED BY <2>2, TakeBackStep
<1>5. ASSUME commitCount' = [commitCount EXCEPT ![t] = 0],
             outcome' = [outcome EXCEPT ![t][b] = "prepared"],
             link' = Broadcast(link, b, Notify("COMMIT_PREPARE", t)),
             client' = [client EXCEPT ![t] = "committing"],
             UNCHANGED <<store, up, jobs, coordinator, ops, seen>>
      PROVE  PhaseInv' /\ OutcomeStep
  <2> DEFINE m == Notify("COMMIT_PREPARE", t)
  <2>1. m \in Message /\ m.tx = t /\ m.kind = "COMMIT_PREPARE"
    BY NotifyMessage
  <2>2. link' = Broadcast(link, b, m)
    BY <1>5
  <2> HIDE DEF m
  <2>3. \A p, q \in Branch, k \in Kinds : ~Carries(link, p, q, t, k)
    BY <1>1 DEF IdlePhase, NoneOf
  <2>4. link \in Connections /\ OnlyAbortFollows(link)
    BY DEF PhaseInv, PhaseTypes
  <2>5. \A p, q \in Branch : \A u, k :
           Carries(link', p, q, u, k) <=>
              Carries(link, p, q, u, k) \/ (p = b /\ q # b /\ m.tx = u /\ m.kind = k)
    BY <2>1, <2>2, <2>4, BroadcastCarries
  <2>6. link' \in Connections /\ OnlyAbortFollows(link')
    BY <2>1, <2>2, <2>3, <2>4, BroadcastCarries
  <2>7. \A u : u # t => SameMessages(link', u)
    BY <2>1, <2>5 DEF SameMessages
  <2>8. \A p, q \in Branch, k \in Kinds :
           Carries(link', p, q, t, k) <=> p = b /\ q # b /\ k = "COMMIT_PREPARE"
    BY <2>1, <2>3, <2>5
  <2>9. /\ client' \in [Tx -> {"new", "ready", "asked", "committing", "ended"}]
        /\ client'[t] = "committing" /\ \A u \in Tx \ {t} : client'[u] = client[u]
        /\ commitCount' \in [Tx -> Nat]
        /\ commitCount'[t] = 0 /\ \A u \in Tx \ {t} : commitCount'[u] = commitCount[u]
    BY <1>5 DEF PhaseInv, PhaseTypes
  <2>10. outcome \in [Tx -> [Branch -> {"working", "prepared", "committed", "aborted"}]]
    BY DEF PhaseInv, PhaseTypes
  <2>11. /\ outcome' \in [Tx -> [Branch -> {"working", "prepared", "committed", "aborted"}]]
         /\ \A u \in Tx \ {t} : outcome'[u] = outcome[u]
         /\ outcome'[t][b] = "prepared"
         /\ \A d \in Branch \ {b} : outcome'[t][d] = outcome[t][d]
    BY <1>5, <2>10
  <2>12. PhaseTypes' /\ OneSpins'
    BY <1>5, <2>6, <2>9, <2>11 DEF PhaseInv, PhaseTypes, JobTypes, OneSpins
  <2>13. /\ UNCHANGED <<coordinator, jobs>> /\ JobsOf(t)' = {}
         /\ Others(t)' = Others(t) /\ \A c \in Others(t) : c \in Branch /\ c # b
    BY <1>1, <1>2, <1>5 DEF JobsOf, IdlePhase, Others
  <2>14. VotingPhase(t, {})'
    <3>1. Cardinality({}) = 0
      BY FS_EmptySet
    <3>2. \A c \in Others(t) : ToldToPrepare(t, c)'
      <4>1. {"COMMIT_READY", "ABORTED"} \subseteq Kinds
        BY DEF Kinds, Answers
      <4> QED BY <1>1, <1>2, <2>8, <2>11, <2>13, <4>1
              DEF ToldToPrepare, FromBranch, IdlePhase, AllWorking
    <3>3. NoneOf(link', t, Kinds \ {"COMMIT_PREPARE", "COMMIT_READY", "ABORTED"})
      BY <2>8 DEF NoneOf
    <3>4. outcome'[t][coordinator'[t]] = "prepared"
      BY <1>2, <2>11, <2>13
    <3> QED BY <2>9, <2>13, <3>1, <3>2, <3>3, <3>4 DEF VotingPhase
  <2>15. Phase(t)'
    <3>1. {} \in SUBSET Others(t)'
      OBVIOUS
    <3> QED BY <2>9, <2>14, <3>1 DEF Phase
  <2>16. Routed(link, t)'
    BY <1>2, <2>8, <2>13 DEF Routed, Orders
  <2>17. \A u \in Tx \ {t} : SameFor(u)
    BY <2>7, <2>9, <2>11, <2>13 DEF SameFor, JobsOf
  <2>18. PhaseInv'
    BY <2>6, <2>12, <2>15, <2>16, <2>17, StepForKeeps DEF StepFor
  <2>19. Promise!Agree(t, b)
    BY <1>1, <1>5 DEF IdlePhase, AllWorking, Promise!Agree, Promise!Become
  <2> QED BY <2>18, <2>19, AgreeStep
<1> QED BY <1>2, <1>3, <1>4, <1>5 DEF AskCommit

\* A branch that COMMIT_PREPARE has not reached has sent nothing, has nothing
\* in the middle, and has decided nothing.
LEMMA ToldIsQuiet ==
    ASSUME PhaseInv, NEW c \in Branch, NEW b \in Branch, NEW t \in Tx,
           Carries(link, c, b, t, "COMMIT_PREPARE")
    PROVE  /\ c = coordinator[t]
           /\ b \in Others(t)
           /\ outcome[t][b] = "working"
           /\ \A k \in Kinds : ~Carries(link, b, c, t, k)
           /\ \A j \in JobsOf(t) : j.branch # b
           /\ \/ /\ client[t] = "committing"
                 /\ \E S \in SUBSET Others(t) : VotingPhase(t, S)
              \/ client[t] = "ended" /\ DoomedPhase(link, t)
<1>1. "COMMIT_PREPARE" \in Kinds /\ "COMMIT_PREPARE" \in Orders
  BY DEF Kinds, Orders
<1>2. /\ c = coordinator[t] /\ b \in Others(t) /\ b # c
      /\ \/ /\ client[t] = "committing"
            /\ \E S \in SUBSET Others(t) : VotingPhase(t, S)
         \/ client[t] = "ended" /\ DoomedPhase(link, t)
  BY <1>1, PhaseOfMessage DEF Others
<1>3. ToBranch(link, t, b, "COMMIT_PREPARE")
  BY <1>2 DEF ToBranch
<1>4. \A k \in Orders : ~Carries(link, b, c, t, k)
  BY <1>2, PhaseOfMessage DEF Kinds
<1>5. ASSUME NEW S \in SUBSET Others(t), VotingPhase(t, S)
      PROVE  /\ outcome[t][b] = "working"
             /\ \A k \in Answers : ~FromBranch(link, t, b, k)
             /\ \A j \in JobsOf(t) : j.branch # b
  <2>1. ToldToPrepare(t, b) /\ ~HasRefused(t, b)
    BY <1>2, <1>3, <1>5 DEF VotingPhase, Counted, IsReady, HasRefused
  <2>2. \A k \in Answers \ {"COMMIT_READY", "ABORTED"} : ~Carries(link, b, c, t, k)
    BY <1>5 DEF VotingPhase, NoneOf, Kinds, Answers
  <2>3. \A k \in Answers : ~FromBranch(link, t, b, k)
    BY <1>2, <2>1, <2>2 DEF ToldToPrepare, FromBranch
  <2>4. \A j \in JobsOf(t) : j.branch # b
    BY <1>5, <2>1 DEF VotingPhase
  <2> QED BY <2>1, <2>3, <2>4 DEF ToldToPrepare
<1>6. DoomedPhase(link, t) =>
         /\ outcome[t][b] = "working"
         /\ \A k \in Answers : ~FromBranch(link, t, b, k)
         /\ \A j \in JobsOf(t) : j.branch # b
  BY <1>2, <1>3 DEF DoomedPhase
<1>7. /\ outcome[t][b] = "working"
      /\ \A k \in Answers : ~FromBranch(link, t, b, k)
      /\ \A j \in JobsOf(t) : j.branch # b
  BY <1>2, <1>5, <1>6
<1> QED BY <1>2, <1>4, <1>7 DEF Kinds, FromBranch

\* The vote of branch b is on its way to coordinator c.
LEMMA VoteStep ==
    ASSUME PhaseInv, NEW c \in Branch, NEW b \in Branch, NEW t \in Tx,
           Carries(link, c, b, t, "COMMIT_PREPARE"),
           NEW l, Taken(l, c, b, t),
           NEW vote, NEW end, NEW x, x.tx = t, x.branch = b, x.do = "abort",
           \/ vote = "COMMIT_READY" /\ end = "prepared" /\ jobs' = jobs
           \/ vote = "ABORTED" /\ end = "aborted" /\ jobs' = jobs \cup {x},
           outcome' = [outcome EXCEPT ![t][b] = end],
           link' = Send(l, b, c, Notify(vote, t)),
           UNCHANGED <<commitCount, client, coordinator>>
    PROVE  PhaseInv'
<1> DEFINE m == Notify(vote, t)
<1>1. m \in Message /\ m.tx = t /\ m.kind = vote /\ vote \in Answers /\ vote \in Kinds
  BY NotifyMessage DEF Answers, Kinds
<1>2. link' = Send(l, b, c, m)
  OBVIOUS
<1> HIDE DEF m
<1>3. /\ c = coordinator[t] /\ b \in Others(t) /\ outcome[t][b] = "working" /\ b # c
      /\ \A k \in Kinds : ~Carries(link, b, c, t, k)
      /\ \A j \in JobsOf(t) : j.branch # b
      /\ \/ /\ client[t] = "committing"
            /\ \E S \in SUBSET Others(t) : VotingPhase(t, S)
         \/ client[t] = "ended" /\ DoomedPhase(link, t)
  BY ToldIsQuiet DEF Others
<1>4. /\ l \in Connections /\ OnlyAbortFollows(l) /\ \A u : u # t => SameMessages(l, u)
      /\ \A p, q \in Branch : \A k : Carries(l, p, q, t, k) => Carries(link, p, q, t, k)
      /\ \A p, q \in Branch : \A k : p # c \/ q # b =>
            (Carries(l, p, q, t, k) <=> Carries(link, p, q, t, k))
      /\ \A k : Carries(l, c, b, t, k) => k = "ABORT_Coordinator"
  BY DEF Taken
<1>5. \A p, q \in Branch : \A u, k :
         Carries(link', p, q, u, k) <=>
            Carries(l, p, q, u, k) \/ (p = b /\ q = c /\ m.tx = u /\ m.kind = k)
  BY <1>1, <1>2, <1>4, SendCarries
<1>6. link' \in Connections /\ OnlyAbortFollows(link')
  <2>1. \A k \in Kinds : ~Carries(l, b, c, m.tx, k)
    BY <1>1, <1>3, <1>4
  <2> QED BY <1>1, <1>2, <1>4, <2>1, SendCarries
<1>7. \A u : u # t => SameMessages(link', u)
  BY <1>1, <1>4, <1>5 DEF SameMessages
<1>8. \A p, q \in Branch : \A k :
         Carries(link', p, q, t, k) => Carries(link, p, q, t, k) \/ (p = b /\ q = c /\ k = vote)
  BY <1>1, <1>4, <1>5
<1>9. Others(t)' = Others(t) /\ \A d \in Others(t) : d \in Branch /\ d # c
  BY <1>3 DEF Others
<1>10. \A d \in Others(t) \ {b} : \A k :
          /\ ToBranch(link, t, d, k)' <=> ToBranch(link, t, d, k)
          /\ FromBranch(link, t, d, k)' <=> FromBranch(link, t, d, k)
  BY <1>3, <1>4, <1>5, <1>9 DEF ToBranch, FromBranch
<1>11. /\ ~ToBranch(link, t, b, "COMMIT_PREPARE")'
       /\ \A k \in Kinds : FromBranch(link, t, b, k)' => k = vote
  BY <1>3, <1>4, <1>8, <1>1, <1>5 DEF ToBranch, FromBranch
<1>12. outcome \in [Tx -> [Branch -> {"working", "prepared", "committed", "aborted"}]]
  BY DEF PhaseInv, PhaseTypes
<1>13. /\ outcome' \in [Tx -> [Branch -> {"working", "prepared", "committed", "aborted"}]]
       /\ \A u \in Tx \ {t} : outcome'[u] = outcome[u]
       /\ outcome'[t][b] = end
       /\ \A d \in Branch \ {b} : outcome'[t][d] = outcome[t][d]
  BY <1>12
<1>14. /\ JobTypes' /\ OneSpins'
       /\ \A u \in Tx \ {t} : JobsOf(u)' = JobsOf(u)
       /\ JobsOf(t)' \subseteq JobsOf(t) \cup {x}
       /\ vote = "COMMIT_READY" => JobsOf(t)' \subseteq JobsOf(t)
  <2>1. jobs' \in {jobs, jobs \cup {x}, jobs \ {x}} /\ x.branch \in Branch
    OBVIOUS
  <2> QED BY <2>1, AbortJobs
<1>15. PhaseTypes'
  BY <1>6, <1>13, <1>14 DEF PhaseInv, PhaseTypes
<1>16. Routed(link, t)'
  <2>1. Routed(link, t) /\ vote \notin Orders
    BY <1>1 DEF PhaseInv, Orders, Asks
  <2> QED BY <1>1, <1>3, <1>8, <2>1 DEF Routed
<1>17. \A u \in Tx \ {t} : SameFor(u)
  BY <1>7, <1>13, <1>14 DEF SameFor
<1>18. ASSUME client[t] = "committing", NEW S \in SUBSET Others(t), VotingPhase(t, S)
       PROVE  Phase(t)'
  <2>1. ToBranch(link, t, b, "COMMIT_PREPARE")
    BY <1>3 DEF ToBranch
  <2>2. b \notin S
    BY <1>18, <2>1 DEF VotingPhase, Counted
  <2>3. \A d \in Others(t) \ {b} :
           /\ Counted(t, d) => Counted(t, d)'
           /\ ToldToPrepare(t, d) => ToldToPrepare(t, d)'
           /\ IsReady(t, d) => IsReady(t, d)'
           /\ HasRefused(t, d) => HasRefused(t, d)'
    BY <1>9, <1>10, <1>13 DEF Counted, ToldToPrepare, IsReady, HasRefused
  <2>4. {"COMMIT_READY", "ABORTED"} \subseteq Kinds
    BY DEF Kinds, Answers
  <2>5. \/ vote = "COMMIT_READY" /\ IsReady(t, b)'
        \/ vote = "ABORTED" /\ HasRefused(t, b)'
    BY <1>11, <1>13, <2>4 DEF IsReady, HasRefused
  <2>6. \A d \in S : Counted(t, d)'
    BY <1>18, <2>2, <2>3 DEF VotingPhase
  <2>7. \A d \in Others(t) \ S : ToldToPrepare(t, d)' \/ IsReady(t, d)' \/ HasRefused(t, d)'
    BY <1>18, <2>3, <2>5 DEF VotingPhase
  <2>8. ASSUME NEW j \in JobsOf(t)'
        PROVE  j.do = "abort" /\ j.branch \in Others(t) /\ HasRefused(t, j.branch)'
    <3>1. CASE j \in JobsOf(t)
      BY <1>3, <1>18, <2>3, <3>1 DEF VotingPhase
    <3>2. CASE j \notin JobsOf(t)
      BY <1>3, <1>14, <2>5, <3>2
    <3> QED BY <3>1, <3>2
  <2>9. NoneOf(link', t, Kinds \ {"COMMIT_PREPARE", "COMMIT_READY", "ABORTED"})
    BY <1>8, <1>18 DEF VotingPhase, NoneOf
  <2>10. outcome'[t][coordinator'[t]] = "prepared" /\ Cardinality(S) = commitCount'[t]
    BY <1>3, <1>13, <1>18 DEF VotingPhase
  <2>11. VotingPhase(t, S)'
    BY <1>9, <2>6, <2>7, <2>8, <2>9, <2>10 DEF VotingPhase
  <2> QED BY <1>9, <1>18, <2>11 DEF Phase
<1>19. ASSUME client[t] = "ended", DoomedPhase(link, t)
       PROVE  Phase(t)'
  <2>1. \A d \in Branch : outcome'[t][d] # "committed"
    BY <1>13, <1>19 DEF DoomedPhase
  <2>2. \A j \in JobsOf(t)' : j.do = "abort" /\ (j.branch = b \/ j \in JobsOf(t))
    BY <1>14, <1>19 DEF DoomedPhase
  <2>3. ASSUME NEW d \in Others(t), ToBranch(link, t, d, "COMMIT_PREPARE")'
        PROVE  /\ outcome'[t][d] = "working"
               /\ \A k \in Answers : ~FromBranch(link, t, d, k)'
               /\ \A j \in JobsOf(t)' : j.branch # d
    <3>1. d # b /\ ToBranch(link, t, d, "COMMIT_PREPARE")
      BY <1>10, <1>11, <2>3
    <3> QED BY <1>9, <1>10, <1>13, <1>19, <2>2, <3>1 DEF DoomedPhase
  <2>4. ToBranch(link, t, b, "COMMIT_PREPARE")
    BY <1>3 DEF ToBranch
  <2>5. \A d \in Others(t) : OutOfCount(link, t, d) => OutOfCount(link, t, d)'
    BY <1>10, <2>4 DEF OutOfCount
  <2>6. ~NoneOf(link, t, {"COMMIT_PREPARE", "COMMIT_READY"})
    BY DEF NoneOf
  <2>7. \E S \in SUBSET Others(t), d \in Others(t) :
           /\ d \notin S
           /\ Cardinality(S) = commitCount'[t]
           /\ \A y \in S \cup {d} : OutOfCount(link, t, y)'
    BY <1>19, <2>5, <2>6 DEF DoomedPhase
  <2>8. NoneOf(link', t, Asks \cup {"OK", "COMMIT_OK"})
    BY <1>1, <1>8, <1>19 DEF DoomedPhase, NoneOf, Asks
  <2>9. DoomedPhase(link, t)'
    BY <1>9, <2>1, <2>2, <2>3, <2>7, <2>8 DEF DoomedPhase
  <2> QED BY <1>19, <2>9 DEF Phase
<1>20. Phase(t)'
  BY <1>3, <1>18, <1>19
<1> QED BY <1>6, <1>14, <1>15, <1>16, <1>17, <1>20, StepForKeeps DEF StepFor

LEMMA PrepareStep ==
    ASSUME PhaseInv, NEW c \in Branch, NEW b \in Branch, NEW k, k = 1, Prepare(c, b, k)
    PROVE  PhaseInv' /\ OutcomeStep
<1> DEFINE l == Consumed(c, b, k)
<1>1. PICK t \in Tx :
         /\ t = link[c][b][k].tx
         /\ Taken(l, c, b, t)
         /\ Carries(link, c, b, t, "COMMIT_PREPARE")
  BY ReadingTakes DEF Prepare
<1> DEFINE x == Job("abort", b, c, t)
<1>2. x.tx = t /\ x.branch = b /\ x.do = "abort"
  BY DEF Job
<1>3. outcome[t][b] = "working" /\ \A d \in Branch : outcome[t][d] # "committed"
  BY <1>1, ToldIsQuiet DEF VotingPhase, DoomedPhase, Others, Counted, ToldToPrepare,
                           IsReady, HasRefused
<1>4. CASE Panic(b)
  BY <1>4, PanicStep DEF OutcomeStep
<1>5. ASSUME outcome' = [outcome EXCEPT ![t][b] = "prepared"],
             link' = Send(l, b, c, Notify("COMMIT_READY", t)),
             UNCHANGED <<store, commitCount, up, jobs, session, seen>>
      PROVE  PhaseInv' /\ OutcomeStep
  <2> HIDE DEF l, x
  <2>1. PhaseInv'
    BY <1>1, <1>2, <1>5, VoteStep DEF session
  <2>2. Promise!Agree(t, b)
    BY <1>3, <1>5 DEF Promise!Agree, Promise!Become
  <2> QED BY <2>1, <2>2, AgreeStep
<1>6. ASSUME DoAbort(b, t), link' = Send(l, b, c, Notify("ABORTED", t)),
             jobs' = jobs \cup {x}, UNCHANGED <<commitCount, up, session, seen>>
      PROVE  PhaseInv' /\ OutcomeStep
  <2> HIDE DEF l, x
  <2>1. outcome' = [outcome EXCEPT ![t][b] = "aborted"]
    BY <1>6 DEF DoAbort
  <2>2. PhaseInv'
    BY <1>1, <1>2, <1>6, <2>1, VoteStep DEF session
  <2>3. Promise!TakeBack(t, b)
    BY <1>3, <2>1 DEF Promise!TakeBack, Promise!Become
  <2> QED BY <2>2, <2>3, TakeBackStep
<1> QED BY <1>1, <1>4, <1>5, <1>6 DEF Prepare

\* The branches that a coordinator counts, and one more.
LEMMA CountedBranches ==
    ASSUME PhaseInv, NEW t \in Tx, coordinator[t] \in Branch,
           NEW S \in SUBSET Others(t), NEW c \in Others(t), c \notin S
    PROVE  /\ Cardinality(S) \in Nat
           /\ Cardinality(S \cup {c}) = Cardinality(S) + 1
           /\ Cardinality(Others(t)) = Cardinality(Branch) - 1
           /\ Cardinality(S) + 1 <= Cardinality(Others(t))
           /\ Cardinality(S) + 1 = Cardinality(Others(t)) => S \cup {c} = Others(t)
<1>1. IsFiniteSet(Branch)
  BY BranchAssumption
<1>2. IsFiniteSet(Others(t)) /\ Cardinality(Others(t)) = Cardinality(Branch) - 1
  BY <1>1, FS_RemoveElement DEF Others
<1>3. IsFiniteSet(S) /\ Cardinality(S) \in Nat
  BY <1>2, FS_Subset, FS_CardinalityType
<1>4. Cardinality(S \cup {c}) = Cardinality(S) + 1
  BY <1>3, FS_AddElement
<1>5. S \cup {c} \subseteq Others(t)
  OBVIOUS
<1>6. /\ Cardinality(S \cup {c}) <= Cardinality(Others(t))
      /\ Cardinality(S \cup {c}) = Cardinality(Others(t)) => S \cup {c} = Others(t)
  BY <1>2, <1>5, FS_Subset
<1> QED BY <1>2, <1>3, <1>4, <1>6

\* A COMMIT_READY comes from a branch that has not been counted.
LEMMA ReadyIsNew ==
    ASSUME PhaseInv, NEW c \in Branch, NEW b \in Branch, NEW t \in Tx,
           Carries(link, c, b, t, "COMMIT_READY")
    PROVE  /\ b = coordinator[t]
           /\ c \in Others(t)
           /\ \/ /\ client[t] = "committing"
                 /\ \E S \in SUBSET Others(t) :
                       VotingPhase(t, S) /\ c \notin S /\ IsReady(t, c)
              \/ /\ client[t] = "ended" /\ DoomedPhase(link, t)
                 /\ ~ToBranch(link, t, c, "COMMIT_PREPARE")
                 /\ \E S \in SUBSET Others(t), d \in Others(t) :
                       /\ d \notin S /\ c \notin S /\ c # d
                       /\ Cardinality(S) = commitCount[t]
                       /\ \A y \in S \cup {d} : OutOfCount(link, t, y)
<1>1. "COMMIT_READY" \in Kinds /\ "COMMIT_READY" \in Answers
  BY DEF Kinds, Answers
<1>2. /\ b = coordinator[t] /\ c \in Others(t)
      /\ \/ /\ client[t] = "committing"
            /\ \E S \in SUBSET Others(t) : VotingPhase(t, S)
         \/ client[t] = "ended" /\ DoomedPhase(link, t)
  BY <1>1, PhaseOfMessage
<1>3. FromBranch(link, t, c, "COMMIT_READY")
  BY <1>2 DEF FromBranch
<1>4. ASSUME NEW S \in SUBSET Others(t), VotingPhase(t, S)
      PROVE  c \notin S /\ IsReady(t, c)
  BY <1>2, <1>3, <1>4 DEF VotingPhase, Counted, ToldToPrepare, HasRefused
<1>5. ASSUME DoomedPhase(link, t)
      PROVE  /\ ~ToBranch(link, t, c, "COMMIT_PREPARE")
             /\ \E S \in SUBSET Others(t), d \in Others(t) :
                   /\ d \notin S /\ c \notin S /\ c # d
                   /\ Cardinality(S) = commitCount[t]
                   /\ \A y \in S \cup {d} : OutOfCount(link, t, y)
  <2>1. ~NoneOf(link, t, {"COMMIT_PREPARE", "COMMIT_READY"})
    BY DEF NoneOf
  <2>2. ~OutOfCount(link, t, c)
    BY <1>3 DEF OutOfCount
  <2>3. ~ToBranch(link, t, c, "COMMIT_PREPARE")
    BY <1>1, <1>2, <1>3, <1>5 DEF DoomedPhase
  <2> QED BY <1>5, <2>1, <2>2, <2>3 DEF DoomedPhase
<1> QED BY <1>2, <1>4, <1>5

LEMMA CountReadyStep ==
    ASSUME PhaseInv, NEW c \in Branch, NEW b \in Branch, NEW k, k = 1, CountReady(c, b, k)
    PROVE  PhaseInv' /\ UNCHANGED outcome
<1> DEFINE l == Consumed(c, b, k)
<1>1. PICK t \in Tx :
         /\ t = link[c][b][k].tx
         /\ Taken(l, c, b, t)
         /\ Carries(link, c, b, t, "COMMIT_READY")
  BY ReadingTakes DEF CountReady
<1>2. /\ link' = l /\ commitCount' = [commitCount EXCEPT ![t] = @ + 1]
      /\ UNCHANGED <<jobs, client, coordinator, outcome>>
  BY <1>1 DEF CountReady, session
<1> HIDE DEF l
<1>3. /\ b = coordinator[t] /\ c \in Others(t) /\ c # b
      /\ Others(t)' = Others(t) /\ JobsOf(t)' = JobsOf(t)
      /\ \A d \in Others(t) : d \in Branch /\ d # b
  BY <1>1, <1>2, ReadyIsNew DEF Others, JobsOf
<1>4. /\ link' \in Connections /\ OnlyAbortFollows(link')
      /\ \A u : u # t => SameMessages(link', u)
      /\ \A p, q \in Branch : \A h : Carries(link', p, q, t, h) => Carries(link, p, q, t, h)
      /\ \A p, q \in Branch : \A h : p # c \/ q # b =>
            (Carries(link', p, q, t, h) <=> Carries(link, p, q, t, h))
      /\ \A h : Carries(link', c, b, t, h) => h = "ABORT_Coordinator"
  BY <1>1, <1>2 DEF Taken
<1>5. \A d \in Others(t) \ {c} : \A h :
         /\ ToBranch(link, t, d, h)' <=> ToBranch(link, t, d, h)
         /\ FromBranch(link, t, d, h)' <=> FromBranch(link, t, d, h)
  BY <1>2, <1>3, <1>4 DEF ToBranch, FromBranch
<1>6. \A h : /\ ToBranch(link, t, c, h)' <=> ToBranch(link, t, c, h)
             /\ FromBranch(link, t, c, h)' => h = "ABORT_Coordinator"
  BY <1>2, <1>3, <1>4 DEF ToBranch, FromBranch
<1>7. /\ commitCount' \in [Tx -> Nat] /\ commitCount'[t] = commitCount[t] + 1
      /\ \A u \in Tx \ {t} : commitCount'[u] = commitCount[u]
  BY <1>2 DEF PhaseInv, PhaseTypes
<1>8. PhaseTypes' /\ OneSpins'
  BY <1>2, <1>4, <1>7 DEF PhaseInv, PhaseTypes, JobTypes, OneSpins
<1>9. Routed(link, t)'
  BY <1>2, <1>4 DEF PhaseInv, Routed
<1>10. \A u \in Tx \ {t} : SameFor(u)
  BY <1>2, <1>4, <1>7 DEF SameFor, JobsOf
<1>11. \A kinds : NoneOf(link, t, kinds) => NoneOf(link', t, kinds)
  BY <1>4 DEF NoneOf
<1>12. ASSUME client[t] = "committing", NEW S \in SUBSET Others(t),
              VotingPhase(t, S), c \notin S, IsReady(t, c)
       PROVE  Phase(t)'
  <2>1. \A d \in Others(t) \ {c} :
           /\ Counted(t, d) => Counted(t, d)'
           /\ ToldToPrepare(t, d) => ToldToPrepare(t, d)'
           /\ IsReady(t, d) => IsReady(t, d)'
           /\ HasRefused(t, d) => HasRefused(t, d)'
    BY <1>2, <1>5 DEF Counted, ToldToPrepare, IsReady, HasRefused
  <2>2. Counted(t, c)'
    BY <1>2, <1>6, <1>12 DEF IsReady, Counted
  <2>3. \A d \in S \cup {c} : Counted(t, d)'
    BY <1>12, <2>1, <2>2 DEF VotingPhase
  <2>4. \A d \in Others(t) \ (S \cup {c}) :
           ToldToPrepare(t, d)' \/ IsReady(t, d)' \/ HasRefused(t, d)'
    BY <1>12, <2>1 DEF VotingPhase
  <2>5. ~HasRefused(t, c)
    BY <1>12 DEF HasRefused, IsReady
  <2>6. \A j \in JobsOf(t) :
           j.do = "abort" /\ j.branch \in Others(t) /\ HasRefused(t, j.branch)'
    BY <1>12, <2>1, <2>5 DEF VotingPhase
  <2>7. Cardinality(S \cup {c}) = commitCount'[t]
    BY <1>3, <1>7, <1>12, CountedBranches DEF VotingPhase
  <2>8. VotingPhase(t, S \cup {c})'
    BY <1>2, <1>3, <1>11, <1>12, <2>3, <2>4, <2>6, <2>7 DEF VotingPhase
  <2>9. S \cup {c} \in SUBSET Others(t)'
    BY <1>3
  <2> QED BY <1>2, <1>12, <2>8, <2>9 DEF Phase
<1>13. ASSUME client[t] = "ended", DoomedPhase(link, t),
              ~ToBranch(link, t, c, "COMMIT_PREPARE"),
              NEW S \in SUBSET Others(t), NEW d \in Others(t),
              d \notin S, c \notin S, c # d, Cardinality(S) = commitCount[t],
              \A y \in S \cup {d} : OutOfCount(link, t, y)
       PROVE  Phase(t)'
  <2>1. \A y \in (S \cup {c}) \cup {d} : OutOfCount(link, t, y)'
    BY <1>5, <1>6, <1>13 DEF OutOfCount
  <2>2. Cardinality(S \cup {c}) = commitCount'[t]
    BY <1>3, <1>7, <1>13, CountedBranches
  <2>3. S \cup {c} \in SUBSET Others(t) /\ d \notin S \cup {c}
    BY <1>3, <1>13
  <2>4. \A y \in Others(t) : ToBranch(link, t, y, "COMMIT_PREPARE")' =>
           /\ outcome'[t][y] = "working"
           /\ \A h \in Answers : ~FromBranch(link, t, y, h)'
           /\ \A j \in JobsOf(t)' : j.branch # y
    BY <1>2, <1>3, <1>5, <1>6, <1>13 DEF DoomedPhase
  <2>5. DoomedPhase(link, t)'
    BY <1>2, <1>3, <1>11, <1>13, <2>1, <2>2, <2>3, <2>4 DEF DoomedPhase
  <2> QED BY <1>2, <1>13, <2>5 DEF Phase
<1>14. Phase(t)'
  BY <1>1, <1>12, <1>13, ReadyIsNew
<1> QED BY <1>2, <1>4, <1>8, <1>9, <1>10, <1>14, StepForKeeps DEF StepFor

-----------------------------------------------------------------------------
(***************************************************************************)
(* The second phase of commitment.                                         *)
(***************************************************************************)
\* When the last COMMIT_READY is taken, every branch is prepared and nothing
\* of t is left on its way or in the middle.
LEMMA AllAreReady ==
    ASSUME PhaseInv, NEW c \in Branch, NEW b \in Branch, NEW t \in Tx,
           Carries(link, c, b, t, "COMMIT_READY"), LastReady(t),
           NEW l, Taken(l, c, b, t)
    PROVE  /\ b = coordinator[t]
           /\ client[t] = "committing"
           /\ JobsOf(t) = {}
           /\ NoneOf(l, t, Kinds)
           /\ \A d \in Branch : outcome[t][d] = "prepared"
<1>1. b = coordinator[t] /\ c \in Others(t) /\ commitCount[t] \in Nat
  BY ReadyIsNew DEF PhaseInv, PhaseTypes
<1>2. ASSUME NEW S \in SUBSET Others(t), NEW d \in Others(t),
             d \notin S, c \notin S, c # d, Cardinality(S) = commitCount[t]
      PROVE  FALSE
  <2>1. /\ Cardinality(S \cup {c}) = commitCount[t] + 1
        /\ Cardinality(Others(t)) = Cardinality(Branch) - 1
    <3>1. coordinator[t] \in Branch /\ c \in Others(t) /\ c \notin S
      BY <1>1, <1>2
    <3>2. /\ Cardinality(S \cup {c}) = Cardinality(S) + 1
          /\ Cardinality(Others(t)) = Cardinality(Branch) - 1
      BY <3>1, CountedBranches
    <3> QED BY <1>2, <3>2
  <2>2. Cardinality(S \cup {c}) + 1 <= Cardinality(Others(t)) /\ Cardinality(S \cup {c}) \in Nat
    <3>1. S \cup {c} \in SUBSET Others(t) /\ d \notin S \cup {c}
      BY <1>1, <1>2
    <3> QED BY <1>1, <3>1, CountedBranches
  <2>3. commitCount[t] + 1 = Cardinality(Branch) - 1
    BY DEF LastReady
  <2> QED BY <1>1, <2>1, <2>2, <2>3
<1>3. PICK S \in SUBSET Others(t) : /\ client[t] = "committing" /\ VotingPhase(t, S)
                                    /\ c \notin S /\ IsReady(t, c)
  BY <1>2, ReadyIsNew
<1>4. S \cup {c} = Others(t)
  <2>1. commitCount[t] + 1 = Cardinality(Branch) - 1 /\ Cardinality(S) = commitCount[t]
    BY <1>3 DEF LastReady, VotingPhase
  <2> QED BY <1>1, <1>3, <2>1, CountedBranches
<1>5. \A d \in Others(t) : Counted(t, d) \/ d = c
  BY <1>3, <1>4 DEF VotingPhase
<1>6. \A d \in Others(t) : outcome[t][d] = "prepared" /\ ~HasRefused(t, d)
  BY <1>3, <1>5 DEF Counted, IsReady, HasRefused
<1>7. \A d \in Branch : outcome[t][d] = "prepared"
  BY <1>3, <1>6 DEF VotingPhase, Others
<1>8. JobsOf(t) = {}
  BY <1>3, <1>6 DEF VotingPhase
<1>9. ASSUME NEW p \in Branch, NEW q \in Branch, NEW k \in Kinds, Carries(l, p, q, t, k)
      PROVE  FALSE
  <2>1. /\ Carries(link, p, q, t, k)
        /\ p = c /\ q = b => k = "ABORT_Coordinator"
    BY <1>9 DEF Taken
  <2>2. k \in {"COMMIT_PREPARE", "COMMIT_READY", "ABORTED"}
    BY <1>3, <2>1 DEF VotingPhase, NoneOf
  <2>3. /\ k \in Orders => p = coordinator[t] /\ q \in Others(t)
        /\ k \in Answers => q = coordinator[t] /\ p \in Others(t)
    BY <2>1, PhaseOfMessage
  <2>4. CASE k = "COMMIT_PREPARE"
    <3>1. q \in Others(t) /\ ToBranch(link, t, q, "COMMIT_PREPARE")
      BY <2>1, <2>3, <2>4 DEF Orders, ToBranch
    <3> QED BY <1>3, <1>5, <3>1 DEF Counted, IsReady
  <2>5. CASE k \in {"COMMIT_READY", "ABORTED"}
    <3>1. p \in Others(t) /\ q = b /\ FromBranch(link, t, p, k)
      BY <1>1, <2>1, <2>3, <2>5 DEF Answers, FromBranch
    <3>2. p # c
      BY <2>1, <2>5, <3>1
    <3> QED BY <1>5, <2>5, <3>1, <3>2 DEF Counted
  <2> QED BY <2>2, <2>4, <2>5
<1>10. NoneOf(l, t, Kinds)
  BY <1>9 DEF NoneOf
<1> QED BY <1>1, <1>3, <1>7, <1>8, <1>10

\* Fewer handlers of t, or one that spins at a branch where none does.
LEMMA FewerJobs ==
    ASSUME PhaseInv, NEW t \in Tx, jobs' \subseteq jobs,
           \A j \in jobs : j.tx # t => j \in jobs'
    PROVE  /\ JobTypes' /\ OneSpins'
           /\ \A u \in Tx \ {t} : JobsOf(u)' = JobsOf(u)
           /\ JobsOf(t)' \subseteq JobsOf(t)
<1>1. JobTypes /\ OneSpins
  BY DEF PhaseInv, PhaseTypes
<1>2. JobTypes'
  BY <1>1 DEF JobTypes
<1>3. OneSpins'
  BY <1>1 DEF OneSpins
<1> QED BY <1>2, <1>3 DEF JobsOf

LEMMA SpinJobs ==
    ASSUME PhaseInv, NEW t \in Tx, NEW b \in Branch, LockFree(b),
           NEW x, x.tx = t, x.branch = b, x.do = "spin", jobs' = jobs \cup {x}
    PROVE  /\ JobTypes' /\ OneSpins'
           /\ \A u \in Tx \ {t} : JobsOf(u)' = JobsOf(u)
           /\ JobsOf(t)' = JobsOf(t) \cup {x}
<1>1. JobTypes /\ OneSpins
  BY DEF PhaseInv, PhaseTypes
<1>2. JobTypes'
  BY <1>1 DEF JobTypes, Executing
<1>3. OneSpins'
  BY <1>1 DEF OneSpins, LockFree
<1> QED BY <1>2, <1>3 DEF JobsOf

\* The coordinator commits and tells the other branches.
LEMMA CoordinatorCommits ==
    ASSUME PhaseInv, NEW t \in Tx, NEW b \in Branch, b = coordinator[t],
           \A d \in Branch : outcome[t][d] = "prepared",
           NEW l \in Connections, OnlyAbortFollows(l),
           \A u : u # t => SameMessages(l, u), NoneOf(l, t, Kinds),
           jobs' = {j \in jobs : j.tx # t},
           outcome' = [outcome EXCEPT ![t][b] = "committed"],
           link' = Broadcast(l, b, Notify("COMMIT_OK", t)),
           client' = [client EXCEPT ![t] = "ended"],
           UNCHANGED <<commitCount, coordinator>>
    PROVE  PhaseInv' /\ Promise!Commit(t, b)
<1> DEFINE m == Notify("COMMIT_OK", t)
<1>1. m \in Message /\ m.tx = t /\ m.kind = "COMMIT_OK"
  BY NotifyMessage
<1>2. link' = Broadcast(l, b, m)
  OBVIOUS
<1> HIDE DEF m
<1>3. \A p, q \in Branch, k \in Kinds : ~Carries(l, p, q, t, k)
  BY DEF NoneOf
<1>4. \A p, q \in Branch : \A u, k :
         Carries(link', p, q, u, k) <=>
            Carries(l, p, q, u, k) \/ (p = b /\ q # b /\ m.tx = u /\ m.kind = k)
  BY <1>1, <1>2, BroadcastCarries
<1>5. link' \in Connections /\ OnlyAbortFollows(link')
  BY <1>1, <1>2, <1>3, BroadcastCarries
<1>6. \A u : u # t => SameMessages(link', u)
  BY <1>1, <1>4 DEF SameMessages
<1>7. \A p, q \in Branch, k \in Kinds :
         Carries(link', p, q, t, k) <=> p = b /\ q # b /\ k = "COMMIT_OK"
  BY <1>1, <1>3, <1>4
<1>8. /\ JobTypes' /\ OneSpins'
      /\ \A u \in Tx \ {t} : JobsOf(u)' = JobsOf(u)
      /\ JobsOf(t)' = {}
  BY FewerJobs DEF JobsOf
<1>9. outcome \in [Tx -> [Branch -> {"working", "prepared", "committed", "aborted"}]]
  BY DEF PhaseInv, PhaseTypes
<1>10. /\ outcome' \in [Tx -> [Branch -> {"working", "prepared", "committed", "aborted"}]]
       /\ \A u \in Tx \ {t} : outcome'[u] = outcome[u]
       /\ outcome'[t][b] = "committed"
       /\ \A d \in Branch \ {b} : outcome'[t][d] = outcome[t][d]
  BY <1>9
<1>11. /\ client' \in [Tx -> {"new", "ready", "asked", "committing", "ended"}]
       /\ client'[t] = "ended" /\ \A u \in Tx \ {t} : client'[u] = client[u]
  BY DEF PhaseInv, PhaseTypes
<1>12. PhaseTypes'
  BY <1>5, <1>8, <1>10, <1>11 DEF PhaseInv, PhaseTypes
<1>13. FinishedPhase(t)'
  <2>1. NoneOf(link', t, Kinds \ {"COMMIT_OK"})
    BY <1>7 DEF NoneOf
  <2>2. \A c \in Others(t)' : outcome'[t][c] = "prepared"
    BY <1>10 DEF Others
  <2> QED BY <1>8, <1>10, <2>1, <2>2 DEF FinishedPhase
<1>14. Routed(link, t)'
  BY <1>7 DEF Routed, Orders
<1>15. \A u \in Tx \ {t} : SameFor(u)
  BY <1>6, <1>8, <1>10, <1>11 DEF SameFor
<1>16. PhaseInv'
  BY <1>5, <1>8, <1>11, <1>12, <1>13, <1>14, <1>15, StepForKeeps DEF StepFor, Phase
<1>17. Promise!Commit(t, b)
  BY DEF Promise!Commit, Promise!Become
<1> QED BY <1>16, <1>17

\* Another branch commits.
LEMMA BranchCommits ==
    ASSUME PhaseInv, NEW t \in Tx, client[t] = "ended", FinishedPhase(t),
           NEW b \in Others(t), outcome[t][b] = "prepared", coordinator[t] \in Branch,
           NEW l \in Connections, OnlyAbortFollows(l),
           \A u : u # t => SameMessages(l, u),
           \A p, q \in Branch : \A k : Carries(l, p, q, t, k) => Carries(link, p, q, t, k),
           ~ToBranch(l, t, b, "COMMIT_OK"),
           jobs' \subseteq jobs, \A j \in jobs : j.tx # t => j \in jobs',
           \A j \in jobs' : j.tx = t => j.branch # b,
           outcome' = [outcome EXCEPT ![t][b] = "committed"],
           link' = l,
           UNCHANGED <<commitCount, client, coordinator>>
    PROVE  PhaseInv' /\ Promise!Commit(t, b)
<1>1. b \in Branch /\ b # coordinator[t] /\ Others(t)' = Others(t)
  BY DEF Others
<1>2. /\ JobTypes' /\ OneSpins'
      /\ \A u \in Tx \ {t} : JobsOf(u)' = JobsOf(u)
      /\ JobsOf(t)' \subseteq JobsOf(t) /\ \A j \in JobsOf(t)' : j.branch # b
  BY FewerJobs DEF JobsOf
<1>3. outcome \in [Tx -> [Branch -> {"working", "prepared", "committed", "aborted"}]]
  BY DEF PhaseInv, PhaseTypes
<1>4. /\ outcome' \in [Tx -> [Branch -> {"working", "prepared", "committed", "aborted"}]]
      /\ \A u \in Tx \ {t} : outcome'[u] = outcome[u]
      /\ outcome'[t][b] = "committed"
      /\ \A d \in Branch \ {b} : outcome'[t][d] = outcome[t][d]
  BY <1>1, <1>3
<1>5. PhaseTypes'
  BY <1>2, <1>4 DEF PhaseInv, PhaseTypes
<1>6. FinishedPhase(t)'
  <2>1. NoneOf(link', t, Kinds \ {"COMMIT_OK"})
    BY DEF FinishedPhase, NoneOf
  <2>2. \A d \in Branch : outcome'[t][d] \in {"prepared", "committed"}
    BY <1>4 DEF FinishedPhase
  <2>3. \A d \in Branch : ToBranch(link, t, d, "COMMIT_OK")' =>
                             d # b /\ ToBranch(link, t, d, "COMMIT_OK")
    BY DEF ToBranch
  <2>4. ASSUME NEW j \in JobsOf(t)'
        PROVE  /\ j.do = "spin" /\ outcome'[t][j.branch] = "prepared"
               /\ ~ToBranch(link, t, j.branch, "COMMIT_OK")'
    <3>1. j \in JobsOf(t) /\ j.branch \in Branch \ {b}
      BY <1>2 DEF JobsOf, JobTypes
    <3> QED BY <1>4, <2>3, <3>1 DEF FinishedPhase
  <2>5. \A d \in Others(t) : ToBranch(link, t, d, "COMMIT_OK")' => outcome'[t][d] = "prepared"
    BY <1>4, <2>3 DEF FinishedPhase, Others
  <2>6. outcome'[t][coordinator'[t]] = "committed"
    BY <1>1, <1>4 DEF FinishedPhase
  <2> QED BY <1>1, <2>1, <2>2, <2>4, <2>5, <2>6 DEF FinishedPhase
<1>7. Routed(link, t)'
  BY DEF PhaseInv, Routed
<1>8. \A u \in Tx \ {t} : SameFor(u)
  BY <1>2, <1>4 DEF SameFor
<1>9. PhaseInv'
  BY <1>2, <1>5, <1>6, <1>7, <1>8, StepForKeeps DEF StepFor, Phase
<1>10. Promise!Commit(t, b)
  BY DEF FinishedPhase, Promise!Commit, Promise!Become
<1> QED BY <1>9, <1>10

LEMMA CommitReadyStep ==
    ASSUME PhaseInv, NEW c \in Branch, NEW b \in Branch, NEW k, k = 1, CommitReady(c, b, k)
    PROVE  PhaseInv' /\ OutcomeStep
<1> DEFINE l == Consumed(c, b, k)
<1>1. PICK t \in Tx :
         /\ t = link[c][b][k].tx
         /\ Taken(l, c, b, t)
         /\ Carries(link, c, b, t, "COMMIT_READY")
  BY ReadingTakes DEF CommitReady
<1>2. LastReady(t) /\ StartCommit(c, b, t, l)
  BY <1>1 DEF CommitReady
<1> HIDE DEF l
<1>3. /\ b = coordinator[t] /\ client[t] = "committing" /\ JobsOf(t) = {}
      /\ NoneOf(l, t, Kinds)
      /\ \A d \in Branch : outcome[t][d] = "prepared"
  BY <1>1, <1>2, AllAreReady
<1>4. l \in Connections /\ OnlyAbortFollows(l) /\ \A u : u # t => SameMessages(l, u)
  BY <1>1 DEF Taken
<1>5. jobs = {j \in jobs : j.tx # t}
  BY <1>3 DEF JobsOf
<1>6. CASE Panic(b)
  BY <1>6, PanicStep DEF OutcomeStep
<1>7. ASSUME DoCommit(b, t), link' = Broadcast(l, b, Notify("COMMIT_OK", t)),
             client' = [client EXCEPT ![t] = "ended"], jobs' = jobs,
             UNCHANGED <<commitCount, up, coordinator, ops, seen>>
      PROVE  PhaseInv' /\ OutcomeStep
  <2>1. outcome' = [outcome EXCEPT ![t][b] = "committed"]
    BY <1>7 DEF DoCommit
  <2>2. PhaseInv' /\ Promise!Commit(t, b)
    BY <1>3, <1>4, <1>5, <1>7, <2>1, CoordinatorCommits
  <2> QED BY <2>2, OneCommitStep
<1>8. ASSUME LockFree(b), jobs' = jobs \cup {Job("spin", b, c, t)}, link' = l,
             UNCHANGED <<store, commitCount, up, session, outcome, seen>>
      PROVE  PhaseInv' /\ OutcomeStep
  <2> DEFINE x == Job("spin", b, c, t)
  <2>1. x.tx = t /\ x.branch = b /\ x.do = "spin"
    BY DEF Job
  <2>2. jobs' = jobs \cup {x}
    BY <1>8
  <2> HIDE DEF x
  <2>3. /\ JobTypes' /\ OneSpins'
        /\ \A u \in Tx \ {t} : JobsOf(u)' = JobsOf(u)
        /\ JobsOf(t)' = {x}
    BY <1>3, <1>8, <2>1, <2>2, SpinJobs
  <2>4. UNCHANGED <<commitCount, client, coordinator, outcome>>
    BY <1>8 DEF session
  <2>5. PhaseTypes'
    BY <1>4, <1>8, <2>3, <2>4 DEF PhaseInv, PhaseTypes
  <2>6. DecidedPhase(t)'
    BY <1>3, <1>8, <2>1, <2>3, <2>4 DEF DecidedPhase
  <2>7. Routed(link, t)'
    BY <1>3, <1>8, <2>4 DEF Routed, NoneOf
  <2>8. \A u \in Tx \ {t} : SameFor(u)
    BY <1>4, <1>8, <2>3, <2>4 DEF SameFor
  <2>9. Phase(t)'
    BY <1>3, <2>4, <2>6 DEF Phase
  <2>10. PhaseInv'
    BY <1>4, <1>8, <2>3, <2>5, <2>7, <2>8, <2>9, StepForKeeps DEF StepFor
  <2> QED BY <2>4, <2>10 DEF OutcomeStep
<1> QED BY <1>2, <1>3, <1>6, <1>7, <1>8 DEF StartCommit, Committed

LEMMA CommitOrderedStep ==
    ASSUME PhaseInv, NEW c \in Branch, NEW b \in Branch, NEW k, k = 1, CommitOrdered(c, b, k)
    PROVE  PhaseInv' /\ OutcomeStep
<1> DEFINE l == Consumed(c, b, k)
<1>1. PICK t \in Tx :
         /\ t = link[c][b][k].tx
         /\ Taken(l, c, b, t)
         /\ Carries(link, c, b, t, "COMMIT_OK")
  BY ReadingTakes DEF CommitOrdered
<1>2. StartCommit(c, b, t, l)
  BY <1>1 DEF CommitOrdered
<1> HIDE DEF l
<1>3. "COMMIT_OK" \in Kinds /\ "COMMIT_OK" \in Orders
  BY DEF Kinds, Orders
<1>4. /\ client[t] = "ended" /\ FinishedPhase(t) /\ coordinator[t] \in Branch
      /\ c = coordinator[t] /\ b \in Others(t) /\ b # coordinator[t]
  BY <1>1, <1>3, PhaseOfMessage DEF Others
<1>5. outcome[t][b] = "prepared" /\ \A j \in JobsOf(t) : j.branch # b
  BY <1>1, <1>4 DEF FinishedPhase, ToBranch
<1>6. /\ l \in Connections /\ OnlyAbortFollows(l) /\ \A u : u # t => SameMessages(l, u)
      /\ \A p, q \in Branch : \A h : Carries(l, p, q, t, h) => Carries(link, p, q, t, h)
      /\ \A p, q \in Branch : \A h : p # c \/ q # b =>
            (Carries(l, p, q, t, h) <=> Carries(link, p, q, t, h))
      /\ ~ToBranch(l, t, b, "COMMIT_OK")
  BY <1>1, <1>4 DEF Taken, ToBranch
<1>7. CASE Panic(b)
  BY <1>7, PanicStep DEF OutcomeStep
<1>8. ASSUME DoCommit(b, t), link' = l, jobs' = jobs,
             UNCHANGED <<client, commitCount, up, coordinator, ops, seen>>
      PROVE  PhaseInv' /\ OutcomeStep
  <2>1. outcome' = [outcome EXCEPT ![t][b] = "committed"]
    BY <1>8 DEF DoCommit
  <2>2. \A j \in jobs' : j.tx = t => j.branch # b
    BY <1>5, <1>8 DEF JobsOf
  <2>3. PhaseInv' /\ Promise!Commit(t, b)
    BY <1>4, <1>5, <1>6, <1>8, <2>1, <2>2, BranchCommits
  <2> QED BY <2>3, OneCommitStep
<1>9. ASSUME LockFree(b), jobs' = jobs \cup {Job("spin", b, c, t)}, link' = l,
             UNCHANGED <<store, commitCount, up, session, outcome, seen>>
      PROVE  PhaseInv' /\ OutcomeStep
  <2> DEFINE x == Job("spin", b, c, t)
  <2>1. x.tx = t /\ x.branch = b /\ x.do = "spin"
    BY DEF Job
  <2>2. jobs' = jobs \cup {x}
    BY <1>9
  <2> HIDE DEF x
  <2>3. /\ JobTypes' /\ OneSpins'
        /\ \A u \in Tx \ {t} : JobsOf(u)' = JobsOf(u)
        /\ JobsOf(t)' = JobsOf(t) \cup {x}
    BY <1>9, <2>1, <2>2, SpinJobs
  <2>4. UNCHANGED <<commitCount, client, coordinator, outcome>> /\ Others(t)' = Others(t)
    BY <1>9 DEF session, Others
  <2>5. PhaseTypes'
    BY <1>6, <1>9, <2>3, <2>4 DEF PhaseInv, PhaseTypes
  <2>6. FinishedPhase(t)'
    <3>1. NoneOf(link', t, Kinds \ {"COMMIT_OK"})
      BY <1>4, <1>6, <1>9 DEF FinishedPhase, NoneOf
    <3>2. \A d \in Branch : ToBranch(link, t, d, "COMMIT_OK")' => ToBranch(link, t, d, "COMMIT_OK")
      BY <1>4, <1>6, <1>9, <2>4 DEF ToBranch
    <3>3. ~ToBranch(link, t, b, "COMMIT_OK")'
      BY <1>6, <1>9, <2>4 DEF ToBranch
    <3>4. \A j \in JobsOf(t) : j.branch \in Branch
      BY DEF PhaseInv, PhaseTypes, JobTypes, JobsOf
    <3>5. \A j \in JobsOf(t)' : /\ j.do = "spin" /\ outcome[t][j.branch] = "prepared"
                                /\ ~ToBranch(link, t, j.branch, "COMMIT_OK")'
      BY <1>4, <1>5, <2>1, <2>3, <3>2, <3>3, <3>4 DEF FinishedPhase
    <3> QED BY <1>4, <2>4, <3>1, <3>2, <3>5 DEF FinishedPhase, Others
  <2>7. Routed(link, t)'
    BY <1>6, <1>9, <2>4 DEF PhaseInv, Routed
  <2>8. \A u \in Tx \ {t} : SameFor(u)
    BY <1>6, <1>9, <2>3, <2>4 DEF SameFor
  <2>9. Phase(t)'
    BY <1>4, <2>4, <2>6 DEF Phase
  <2>10. PhaseInv'
    BY <1>6, <1>9, <2>3, <2>5, <2>7, <2>8, <2>9, StepForKeeps DEF StepFor
  <2> QED BY <2>4, <2>10 DEF OutcomeStep
<1> QED BY <1>2, <1>4, <1>7, <1>8, <1>9 DEF StartCommit, Committed

\* DoCommit gets past the writes it waited for.
LEMMA SpinStep ==
    ASSUME PhaseInv, NEW j \in jobs, Spin(j)
    PROVE  PhaseInv' /\ OutcomeStep
<1>1. PICK t \in Tx : t = j.tx
  BY PhaseOfJob
<1>2. PICK b \in Branch : b = j.branch
  BY PhaseOfJob
<1>3. /\ coordinator[t] \in Branch /\ j \in JobsOf(t) /\ j.do = "spin"
      /\ \/ client[t] = "committing" /\ DecidedPhase(t)
         \/ client[t] = "ended" /\ FinishedPhase(t)
  BY <1>1, PhaseOfJob DEF Spin, JobsOf
<1>4. CASE Panic(b)
  BY <1>4, PanicStep DEF OutcomeStep
<1>5. \A i \in JobsOf(t) : i.do = "spin" /\ i.branch = b => i = j
  BY <1>2, <1>3 DEF PhaseInv, OneSpins, JobsOf
<1>6. /\ link \in Connections /\ OnlyAbortFollows(link)
      /\ \A u : u # t => SameMessages(link, u)
  BY DEF PhaseInv, PhaseTypes, SameMessages
<1>7. ASSUME DoCommit(b, t),
             IF coordinator[t] = b
             THEN /\ link' = Broadcast(link, b, Notify("COMMIT_OK", t))
                  /\ client' = [client EXCEPT ![t] = "ended"]
             ELSE link' = link /\ UNCHANGED client,
             jobs' = jobs \ {j},
             UNCHANGED <<commitCount, up, coordinator, ops, seen>>
      PROVE  PhaseInv' /\ OutcomeStep
  <2>1. outcome' = [outcome EXCEPT ![t][b] = "committed"]
    BY <1>7 DEF DoCommit
  <2>2. CASE DecidedPhase(t)
    <3>1. /\ b = coordinator[t] /\ JobsOf(t) = {j} /\ NoneOf(link, t, Kinds)
          /\ \A d \in Branch : outcome[t][d] = "prepared"
      BY <1>2, <1>3, <1>5, <2>2 DEF DecidedPhase
    <3>2. jobs' = {i \in jobs : i.tx # t}
      BY <1>7, <3>1 DEF JobsOf
    <3>3. PhaseInv' /\ Promise!Commit(t, b)
      BY <1>6, <1>7, <2>1, <3>1, <3>2, CoordinatorCommits
    <3> QED BY <3>3, OneCommitStep
  <2>3. CASE client[t] = "ended" /\ FinishedPhase(t)
    <3>1. /\ outcome[t][b] = "prepared" /\ ~ToBranch(link, t, b, "COMMIT_OK")
          /\ b # coordinator[t] /\ b \in Others(t)
      BY <1>2, <1>3, <2>3 DEF FinishedPhase, Others
    <3>2. \A i \in jobs' : i.tx = t => i.branch # b
      BY <1>5, <1>7, <2>3 DEF FinishedPhase, JobsOf
    <3>3. jobs' \subseteq jobs /\ \A i \in jobs : i.tx # t => i \in jobs'
      BY <1>1, <1>7
    <3>4. PhaseInv' /\ Promise!Commit(t, b)
      BY <1>3, <1>6, <1>7, <2>1, <2>3, <3>1, <3>2, <3>3, BranchCommits
    <3> QED BY <3>4, OneCommitStep
  <2> QED BY <1>3, <2>2, <2>3
<1> QED BY <1>1, <1>2, <1>4, <1>7 DEF Spin, Committed

-----------------------------------------------------------------------------
(***************************************************************************)
(* The branches of a transaction end alike.                                *)
(***************************************************************************)
LEMMA PhaseInvInit == Init => PhaseInv
<1> SUFFICES ASSUME Init PROVE PhaseInv
  OBVIOUS
<1>1. link \in Connections
  BY DEF Init, Connections
<1>2. \A b, c \in Branch : Len(link[b][c]) = 0
  BY DEF Init
<1>3. \A b, c \in Branch : \A t, k : ~Carries(link, b, c, t, k)
  BY <1>2 DEF Carries
<1>4. OnlyAbortFollows(link)
  BY <1>2 DEF OnlyAbortFollows
<1>5. \A t \in Tx : Routed(link, t) /\ Phase(t)
  BY <1>3 DEF Init, Routed, Phase, IdlePhase, NoneOf, JobsOf, AllWorking
<1> QED BY <1>1, <1>4, <1>5 DEF Init, PhaseInv, PhaseTypes, JobTypes, OneSpins

LEMMA BankStep ==
    ASSUME OneMessagePerRead, PhaseInv, [Next]_vars
    PROVE  PhaseInv' /\ OutcomeStep
<1>1. CASE UNCHANGED vars
  BY <1>1, UnchangedKeeps DEF vars, session, OutcomeStep
<1>2. CASE Client
  <2>1. PICK t \in Tx : \/ \E b \in Branch : Begin(t, b)
                        \/ \E op \in Operation : Command(t, op)
                        \/ AskCommit(t)
                        \/ AskAbort(t)
                        \/ Desert(t)
    BY <1>2 DEF Client
  <2>2. CASE \E b \in Branch : Begin(t, b)
    BY <2>2, BeginStep DEF OutcomeStep
  <2>3. CASE \E op \in Operation : Command(t, op)
    BY <2>3, CommandStep DEF OutcomeStep
  <2>4. CASE AskCommit(t)
    BY <2>4, AskCommitStep
  <2>5. CASE AskAbort(t)
    BY <2>5, AskAbortStep
  <2>6. CASE Desert(t)
    BY <2>6, PanicStep DEF Desert, OutcomeStep
  <2> QED BY <2>1, <2>2, <2>3, <2>4, <2>5, <2>6
<1>3. ASSUME NEW b \in Branch, NEW c \in Branch, NEW k \in 1..MaxRead,
             \/ Forwarded(c, b, k)
             \/ Replied(c, b, k)
             \/ Refused(c, b, k)
             \/ AbortOrdered(c, b, k)
             \/ Prepare(c, b, k)
             \/ CountReady(c, b, k)
             \/ CommitReady(c, b, k)
             \/ CommitOrdered(c, b, k)
      PROVE  PhaseInv' /\ OutcomeStep
  <2>1. k = 1
    BY <1>3 DEF OneMessagePerRead
  <2>2. CASE Forwarded(c, b, k)
    BY <2>1, <2>2, ForwardedStep DEF OutcomeStep
  <2>3. CASE Replied(c, b, k)
    BY <2>1, <2>3, RepliedStep DEF OutcomeStep
  <2>4. CASE Refused(c, b, k)
    BY <2>1, <2>4, RefusedStep
  <2>5. CASE AbortOrdered(c, b, k)
    BY <2>1, <2>5, AbortOrderedStep
  <2>6. CASE Prepare(c, b, k)
    BY <2>1, <2>6, PrepareStep
  <2>7. CASE CountReady(c, b, k)
    BY <2>1, <2>7, CountReadyStep DEF OutcomeStep
  <2>8. CASE CommitReady(c, b, k)
    BY <2>1, <2>8, CommitReadyStep
  <2>9. CASE CommitOrdered(c, b, k)
    BY <2>1, <2>9, CommitOrderedStep
  <2> QED BY <1>3, <2>2, <2>3, <2>4, <2>5, <2>6, <2>7, <2>8, <2>9
<1>4. ASSUME NEW b \in Branch, NEW c \in Branch, PeerGone(c, b)
      PROVE  PhaseInv' /\ OutcomeStep
  BY <1>4, PanicStep DEF PeerGone, OutcomeStep
<1>5. ASSUME NEW j \in jobs, Locked(j) \/ Wait(j) \/ Abort(j) \/ Spin(j)
      PROVE  PhaseInv' /\ OutcomeStep
  BY <1>5, LockedStep, WaitStep, AbortStep, SpinStep DEF OutcomeStep
<1> QED BY <1>1, <1>2, <1>3, <1>4, <1>5 DEF Next, Server

LEMMA PhasesHold == OneMessagePerRead => (Spec => []PhaseInv)
<1> SUFFICES ASSUME OneMessagePerRead PROVE Spec => []PhaseInv
  OBVIOUS
<1>1. PhaseInv /\ [Next]_vars => PhaseInv'
  BY BankStep
<1> QED BY <1>1, PhaseInvInit, PTL DEF Spec

\* The two phases of handleOperation and handleBranch implement AtomicCommit,
\* when no Read of a connection returns two messages run together: a branch
\* commits only when every branch has answered COMMIT_READY, and after that
\* none aborts.
THEOREM CommitmentIsAtomic == OneMessagePerRead => (Spec => BranchesEndAlike)
<1> SUFFICES ASSUME OneMessagePerRead PROVE Spec => BranchesEndAlike
  OBVIOUS
<1>1. Init => Promise!Init
  BY DEF Init, Promise!Init
<1>2. PhaseInv /\ [Next]_vars => [Promise!Next]_outcome
  BY BankStep DEF OutcomeStep
<1>3. Spec => []PhaseInv
  BY PhasesHold
<1> QED BY <1>1, <1>2, <1>3, PTL DEF Spec, BranchesEndAlike, Promise!Spec

-----------------------------------------------------------------------------
(***************************************************************************)
(* The store: what a step does to it.                                      *)
(***************************************************************************)
\* A command opens an account or writes while every branch still works on its
\* transaction; a balance is told, and remembered, when no earlier write is
\* tentative.
Opens(b, op) ==
    /\ AllWorking(op.tx)
    /\ accounts' = [accounts EXCEPT ![b][op.account] =
                       IF @ = NULL THEN NewAccount(op.tx) ELSE @]
    /\ UNCHANGED <<TW, RTS, seen, outcome>>

Writes(b, op) ==
    /\ AllWorking(op.tx)
    /\ MayWrite(b, op.account, op.tx)
    /\ TW' = [TW EXCEPT ![b][op.account] = Added(@, op.tx, Amount(op))]
    /\ UNCHANGED <<accounts, RTS, seen, outcome>>

Told(b, a) == [branch |-> b, account |-> a, value |-> Value(b, a),
               created |-> accounts[b][a].created]

Tells(b, op) ==
    /\ accounts[b][op.account] # NULL
    /\ \A u \in Written(b, op.account) : ~(u <= op.tx)
    /\ RTS' = [RTS EXCEPT ![b] =
                  [x \in DOMAIN @ \cup {op.account} |->
                      IF x = op.account THEN Append(Reads(b, op.account), op.tx)
                                        ELSE @[x]]]
    /\ seen' = [seen EXCEPT ![op.tx] = @ \cup {Told(b, op.account)}]
    /\ UNCHANGED <<accounts, TW, outcome>>

StoreStep ==
    \/ UNCHANGED <<accounts, TW, RTS, seen, outcome>>
    \/ /\ UNCHANGED <<accounts, TW, RTS, seen>>
       /\ \E t \in Tx, b \in Branch : outcome' = [outcome EXCEPT ![t][b] = "prepared"]
    \/ \E b \in Branch, op \in Operation : Opens(b, op) \/ Writes(b, op) \/ Tells(b, op)
    \/ \E b \in Branch, t \in Tx : DoAbort(b, t) /\ UNCHANGED seen
    \/ \E b \in Branch, t \in Tx :
          ~CommitPanics(b, t) /\ DoCommit(b, t) /\ UNCHANGED seen

LEMMA ExecuteStores ==
    ASSUME NEW b \in Branch, NEW op \in Operation, NEW l, NEW rest,
           AllWorking(op.tx), Execute(b, op, l, rest)
    PROVE  StoreStep
<1>1. CASE UNCHANGED <<accounts, TW, RTS, seen, outcome>>
  BY <1>1 DEF StoreStep
<1>2. CASE Enter(b, op, l, rest)
  <2>1. Opens(b, op)
    BY <1>2 DEF Enter, Execute, Opens
  <2> QED BY <2>1 DEF StoreStep
<1> QED BY <1>1, <1>2 DEF Execute, NotFound, ReadTooLate, Refuse

LEMMA LockedStores ==
    ASSUME PhaseInv, NEW j \in jobs, Locked(j)
    PROVE  StoreStep
<1> DEFINE b == j.branch
           op == j.op
           rest == jobs \ {j}
<1>1. AllWorking(op.tx) /\ b \in Branch /\ op \in Operation
  <2>1. j.do \in Executing
    BY DEF Locked, Executing
  <2> QED BY <2>1, MiddleIsUnanswered DEF Unanswered
<1>2. CASE Write(b, op, rest)
  <2>1. CASE MayWrite(b, op.account, op.tx)
    <3>1. Writes(b, op)
      BY <1>1, <1>2, <2>1 DEF Write, Writes
    <3> QED BY <1>1, <3>1 DEF StoreStep
  <2>2. CASE ~MayWrite(b, op.account, op.tx)
    BY <1>2, <2>2 DEF Write, Refuse, StoreStep
  <2> QED BY <2>1, <2>2
<1>3. CASE Read(b, op, rest)
  <2>1. CASE UNCHANGED <<RTS, seen>>
    BY <1>3, <2>1 DEF Read, StoreStep
  <2>2. CASE ~UNCHANGED <<RTS, seen>>
    <3>1. Tells(b, op)
      BY <1>3, <2>2 DEF Read, Tells, Told
    <3> QED BY <1>1, <3>1 DEF StoreStep
  <2> QED BY <2>1, <2>2
<1>4. CASE Panic(b)
  BY <1>4 DEF Panic, store, StoreStep
<1> QED BY <1>2, <1>3, <1>4 DEF Locked

LEMMA StartCommitStores ==
    ASSUME NEW c, NEW b \in Branch, NEW t \in Tx, NEW l, StartCommit(c, b, t, l)
    PROVE  StoreStep
BY DEF StartCommit, Committed, Panic, store, StoreStep

LEMMA AbortEverywhereStores ==
    ASSUME NEW b \in Branch, NEW t \in Tx, NEW l, NEW survives,
           AbortEverywhere(b, t, l, survives)
    PROVE  StoreStep
BY DEF AbortEverywhere, Panic, store, StoreStep

LEMMA BankStores ==
    ASSUME OneMessagePerRead, PhaseInv, [Next]_vars
    PROVE  StoreStep
<1>1. CASE UNCHANGED vars
  BY <1>1 DEF vars, store, StoreStep
<1>2. ASSUME NEW b, Panic(b)
      PROVE  StoreStep
  BY <1>2 DEF Panic, store, StoreStep
<1>3. ASSUME NEW t \in Tx, NEW b \in Branch, Begin(t, b)
      PROVE  StoreStep
  BY <1>3 DEF Begin, store, StoreStep
<1>4. ASSUME NEW t \in Tx, NEW op \in Operation, Command(t, op)
      PROVE  StoreStep
  <2>1. AllWorking(t) /\ coordinator[t] \in Branch /\ op.tx = t
    BY <1>4, ReadyIsIdle DEF Command, IdlePhase
  <2>2. CASE Execute(coordinator[t], op, link, jobs)
    BY <2>1, <2>2, ExecuteStores
  <2>3. CASE UNCHANGED <<store, seen, outcome>>
    BY <2>3 DEF store, StoreStep
  <2> QED BY <1>4, <2>2, <2>3 DEF Command
<1>5. ASSUME NEW t \in Tx, AskCommit(t)
      PROVE  StoreStep
  <2>1. coordinator[t] \in Branch
    BY <1>5, ReadyIsIdle DEF AskCommit
  <2> QED BY <1>5, <2>1 DEF AskCommit, Panic, store, StoreStep
<1>6. ASSUME NEW t \in Tx, AskAbort(t)
      PROVE  StoreStep
  <2>1. coordinator[t] \in Branch
    BY <1>6, ReadyIsIdle DEF AskAbort
  <2> QED BY <1>6, <2>1, AbortEverywhereStores DEF AskAbort
<1>7. ASSUME NEW b \in Branch, NEW c \in Branch, NEW k \in 1..MaxRead,
             \/ Forwarded(c, b, k)
             \/ Replied(c, b, k)
             \/ Refused(c, b, k)
             \/ AbortOrdered(c, b, k)
             \/ Prepare(c, b, k)
             \/ CountReady(c, b, k)
             \/ CommitReady(c, b, k)
             \/ CommitOrdered(c, b, k)
      PROVE  StoreStep
  <2>1. k = 1
    BY <1>7 DEF OneMessagePerRead
  <2> DEFINE m == link[c][b][1]
             t == m.tx
             l == Consumed(c, b, k)
  <2>2. ASSUME NEW kinds, Reading(c, b, k, kinds)
        PROVE  /\ m \in Message /\ t \in Tx /\ m.kind \in kinds \cap Kinds
               /\ Carries(link, c, b, t, m.kind)
    BY <2>1, <2>2, ReadingTakes
  <2>3. CASE Forwarded(c, b, k)
    <3>1. /\ m \in Operation /\ t \in Tx /\ m.kind \in Asks /\ m.kind \in Kinds
          /\ Carries(link, c, b, t, m.kind)
      BY <2>2, <2>3 DEF Forwarded, Message, Notice, Asks
    <3>2. AllWorking(t)
      BY <3>1, PhaseOfMessage DEF TravelsPhase
    <3>3. Execute(b, m, l, jobs)
      BY <2>1, <2>3 DEF Forwarded
    <3> QED BY <3>1, <3>2, <3>3, ExecuteStores
  <2>4. CASE Replied(c, b, k)
    BY <2>4 DEF Replied, Panic, store, StoreStep
  <2>5. CASE Refused(c, b, k)
    BY <2>2, <2>5, AbortEverywhereStores DEF Refused
  <2>6. CASE AbortOrdered(c, b, k)
    BY <2>2, <2>6 DEF AbortOrdered, Panic, store, StoreStep
  <2>7. CASE Prepare(c, b, k)
    <3>1. t \in Tx
      BY <2>2, <2>7 DEF Prepare
    <3> QED BY <2>7, <3>1 DEF Prepare, Panic, store, StoreStep
  <2>8. CASE CountReady(c, b, k)
    BY <2>8 DEF CountReady, store, StoreStep
  <2>9. CASE CommitReady(c, b, k)
    BY <2>2, <2>9, StartCommitStores DEF CommitReady
  <2>10. CASE CommitOrdered(c, b, k)
    BY <2>2, <2>10, StartCommitStores DEF CommitOrdered
  <2> QED BY <1>7, <2>3, <2>4, <2>5, <2>6, <2>7, <2>8, <2>9, <2>10
<1>8. ASSUME NEW j \in jobs, Wait(j)
      PROVE  StoreStep
  <2>1. /\ AllWorking(j.op.tx) /\ j.branch \in Branch /\ j.op \in Operation
    <3>1. j.do \in Executing
      BY <1>8 DEF Wait, Executing
    <3> QED BY <3>1, MiddleIsUnanswered DEF Unanswered
  <2>2. CASE Execute(j.branch, j.op, link, jobs \ {j})
    BY <2>1, <2>2, ExecuteStores
  <2>3. CASE UNCHANGED <<store, seen, outcome>>
    BY <2>3 DEF store, StoreStep
  <2> QED BY <1>8, <2>2, <2>3 DEF Wait
<1>9. ASSUME NEW j \in jobs, Abort(j) \/ Spin(j)
      PROVE  StoreStep
  <2>1. j.tx \in Tx /\ j.branch \in Branch
    BY PhaseOfJob
  <2> QED BY <1>9, <2>1 DEF Abort, Spin, Committed, Panic, store, StoreStep
<1> QED BY <1>1, <1>2, <1>3, <1>4, <1>5, <1>6, <1>7, <1>8, <1>9, LockedStores
        DEF Next, Client, Server, Desert, PeerGone
-----------------------------------------------------------------------------
(***************************************************************************)
(* The store: its types.                                                   *)
(***************************************************************************)
AccountTypes ==
    /\ DOMAIN accounts = Branch
    /\ \A b \in Branch : DOMAIN accounts[b] = Account
    /\ \A b \in Branch, a \in Account :
          accounts[b][a] = NULL \/ accounts[b][a] \in OpenAccount

WriteTypes ==
    /\ DOMAIN TW = Branch
    /\ \A b \in Branch : DOMAIN TW[b] = Account
    /\ \A b \in Branch, a \in Account :
          /\ Written(b, a) \subseteq Tx
          /\ \A t \in Written(b, a) : TW[b][a][t] \in Int

ReadTypes ==
    /\ DOMAIN RTS = Branch
    /\ \A b \in Branch : \A a \in DOMAIN RTS[b] : RTS[b][a] \in Seq(Tx)
    /\ DOMAIN seen = Tx
    /\ \A t \in Tx : \A r \in seen[t] :
          r.branch \in Branch /\ r.account \in Account /\ r.created \in Tx

StoreTypes == AccountTypes /\ WriteTypes /\ ReadTypes

LEMMA TxNumbers == Tx \subseteq Nat /\ IsFiniteSet(Tx) /\ Tx \subseteq 0..Transactions
<1>1. Transactions \in Nat
  BY CountAssumption
<1>2. IsFiniteSet(1..Transactions)
  BY <1>1, FS_Interval
<1> QED BY <1>1, <1>2 DEF Tx

LEMMA OperationFields ==
    ASSUME NEW op \in Operation
    PROVE  op.tx \in Tx /\ op.branch \in Branch /\ op.account \in Account
BY DEF Operation

\* The sum of what is tentative is a number.
LEMMA TentativeType ==
    ASSUME WriteTypes, NEW b \in Branch, NEW a \in Account, NEW t \in Tx
    PROVE  Tentative(b, a, t) \in Int
<1> DEFINE S == {u \in Written(b, a) : u <= t}
<1>1. S \in SUBSET Tx /\ \A u \in S : TW[b][a][u] \in Int
  BY DEF WriteTypes
<1>2. IsFiniteSet(S)
  <2> HIDE DEF S
  <2> QED BY <1>1, TxNumbers, FS_Subset
<1>3. Tentative(b, a, t) = Total(TW[b][a], S)
  BY DEF Tentative, Total
<1> HIDE DEF S
<1>4. Summands(TW[b][a], S)
  BY <1>1, <1>2 DEF Summands
<1> QED BY <1>3, <1>4, TotalType

\* What each step of the store does, branch by branch.
LEMMA OpensEffect ==
    ASSUME StoreTypes, NEW b \in Branch, NEW op \in Operation, Opens(b, op)
    PROVE  /\ accounts'[b][op.account] =
                 IF accounts[b][op.account] = NULL THEN NewAccount(op.tx)
                 ELSE accounts[b][op.account]
           /\ DOMAIN accounts' = Branch
           /\ \A c \in Branch : DOMAIN accounts'[c] = Account
           /\ \A c \in Branch, a \in Account :
                 c # b \/ a # op.account => accounts'[c][a] = accounts[c][a]
<1>1. PICK x \in Account : x = op.account
  BY OperationFields
<1>2. PICK t \in Tx : t = op.tx
  BY OperationFields
<1>3. accounts' = [accounts EXCEPT ![b][x] = IF @ = NULL THEN NewAccount(t) ELSE @]
  BY <1>1, <1>2 DEF Opens
<1>4. DOMAIN accounts = Branch /\ \A c \in Branch : DOMAIN accounts[c] = Account
  BY DEF StoreTypes, AccountTypes
<1> QED BY <1>1, <1>2, <1>3, <1>4

LEMMA WritesEffect ==
    ASSUME StoreTypes, NEW b \in Branch, NEW op \in Operation, Writes(b, op)
    PROVE  /\ TW'[b][op.account] = Added(TW[b][op.account], op.tx, Amount(op))
           /\ DOMAIN TW'[b][op.account] = Written(b, op.account) \cup {op.tx}
           /\ DOMAIN TW' = Branch
           /\ \A c \in Branch : DOMAIN TW'[c] = Account
           /\ \A c \in Branch, a \in Account :
                 c # b \/ a # op.account => TW'[c][a] = TW[c][a]
<1>1. PICK x \in Account : x = op.account
  BY OperationFields
<1>2. PICK t \in Tx : t = op.tx
  BY OperationFields
<1>3. PICK v : v = Amount(op)
  OBVIOUS
<1>4. TW' = [TW EXCEPT ![b][x] = Added(@, t, v)]
  BY <1>1, <1>2, <1>3 DEF Writes
<1>5. DOMAIN TW = Branch /\ \A c \in Branch : DOMAIN TW[c] = Account
  BY DEF StoreTypes, WriteTypes
<1>6. TW'[b][x] = Added(TW[b][x], t, v)
  BY <1>4, <1>5
<1>7. DOMAIN TW'[b][x] = DOMAIN TW[b][x] \cup {t}
  BY <1>6 DEF Added
<1>8. /\ DOMAIN TW' = Branch
      /\ \A c \in Branch : DOMAIN TW'[c] = Account
      /\ \A c \in Branch, a \in Account : c # b \/ a # x => TW'[c][a] = TW[c][a]
  BY <1>4, <1>5
<1> QED BY <1>1, <1>2, <1>3, <1>6, <1>7, <1>8 DEF Written

\* DoAbort and DoCommit take the tentative writes of a transaction.
LEMMA TakesWrites ==
    ASSUME StoreTypes, NEW b \in Branch, NEW t \in Tx,
           TW' = [TW EXCEPT ![b] = [a \in Account |-> Removed(@[a], t)]]
    PROVE  /\ DOMAIN TW' = Branch
           /\ \A c \in Branch : DOMAIN TW'[c] = Account
           /\ \A a \in Account :
                 /\ DOMAIN TW'[b][a] = Written(b, a) \ {t}
                 /\ \A u \in Written(b, a) \ {t} : TW'[b][a][u] = TW[b][a][u]
           /\ \A c \in Branch \ {b} : TW'[c] = TW[c]
<1>1. DOMAIN TW = Branch /\ \A c \in Branch : DOMAIN TW[c] = Account
  BY DEF StoreTypes, WriteTypes
<1>2. PICK f : f = [a \in Account |-> Removed(TW[b][a], t)]
  OBVIOUS
<1>3. TW' = [TW EXCEPT ![b] = f]
  BY <1>2, Zenon
<1>4. /\ DOMAIN TW' = Branch /\ TW'[b] = f
      /\ \A c \in Branch \ {b} : TW'[c] = TW[c]
  BY <1>1, <1>3
<1>5. DOMAIN f = Account
  BY <1>2
<1>6. ASSUME NEW a \in Account
      PROVE  /\ DOMAIN f[a] = Written(b, a) \ {t}
             /\ \A u \in Written(b, a) \ {t} : f[a][u] = TW[b][a][u]
  <2>1. f[a] = Removed(TW[b][a], t)
    BY <1>2
  <2> QED BY <2>1 DEF Removed, Written
<1> QED BY <1>1, <1>4, <1>5, <1>6

LEMMA DoAbortEffect ==
    ASSUME StoreTypes, NEW b \in Branch, NEW t \in Tx, DoAbort(b, t)
    PROVE  /\ DOMAIN accounts' = Branch
           /\ \A c \in Branch : DOMAIN accounts'[c] = Account
           /\ \A c \in Branch \ {b} : accounts'[c] = accounts[c]
           /\ \A a \in Account : accounts'[b][a] =
                 IF accounts[b][a] # NULL /\ accounts[b][a].created = t THEN NULL
                 ELSE accounts[b][a]
<1>1. DOMAIN accounts = Branch /\ \A c \in Branch : DOMAIN accounts[c] = Account
  BY DEF StoreTypes, AccountTypes
<1>2. accounts' = [accounts EXCEPT ![b] =
          [a \in Account |->
              IF accounts[b][a] # NULL /\ accounts[b][a].created = t THEN NULL
              ELSE accounts[b][a]]]
  BY DEF DoAbort, WithoutNew
<1> QED BY <1>1, <1>2

LEMMA DoCommitEffect ==
    ASSUME StoreTypes, NEW b \in Branch, NEW t \in Tx, DoCommit(b, t)
    PROVE  /\ DOMAIN accounts' = Branch
           /\ \A c \in Branch : DOMAIN accounts'[c] = Account
           /\ \A c \in Branch \ {b} : accounts'[c] = accounts[c]
           /\ \A a \in Account : accounts'[b][a] =
                 IF t \in Written(b, a) THEN AccountAfter(b, a, t) ELSE accounts[b][a]
<1>1. DOMAIN accounts = Branch /\ \A c \in Branch : DOMAIN accounts[c] = Account
  BY DEF StoreTypes, AccountTypes
<1>2. accounts' = [accounts EXCEPT ![b] =
          [a \in Account |->
              IF t \in Written(b, a) THEN AccountAfter(b, a, t) ELSE accounts[b][a]]]
  BY DEF DoCommit
<1> QED BY <1>1, <1>2

\* The account after a commitment is an account still.
LEMMA AccountAfterType ==
    ASSUME StoreTypes, NEW b \in Branch, NEW a \in Account, NEW t \in Tx,
           accounts[b][a] # NULL
    PROVE  /\ AccountAfter(b, a, t) \in OpenAccount
           /\ AccountAfter(b, a, t) # NULL
           /\ AccountAfter(b, a, t).timestamp = t
           /\ AccountAfter(b, a, t).created = accounts[b][a].created
<1>1. PICK x \in OpenAccount : x = accounts[b][a]
  BY DEF StoreTypes, AccountTypes
<1>2. PICK v \in Int : v = Tentative(b, a, t)
  BY TentativeType DEF StoreTypes
<1>3. PICK w \in SUBSET Tx : w = {u \in Written(b, a) : u <= t}
  BY DEF StoreTypes, WriteTypes
<1>4. AccountAfter(b, a, t) =
         [x EXCEPT !.value = @ + v, !.timestamp = t, !.from = @ \cup w]
  BY <1>1, <1>2, <1>3 DEF AccountAfter
<1>5. t \in 0..Transactions
  BY TxNumbers
<1>6. AccountAfter(b, a, t) =
         [value |-> x.value + v, timestamp |-> t, created |-> x.created,
          from |-> x.from \cup w]
  BY <1>4 DEF OpenAccount
<1>7. x.value + v \in Int /\ x.created \in Tx /\ x.from \cup w \in SUBSET Tx
  BY DEF OpenAccount
<1>8. AccountAfter(b, a, t) \in OpenAccount
  BY <1>5, <1>6, <1>7 DEF OpenAccount
<1>9. AccountAfter(b, a, t).timestamp = t /\ AccountAfter(b, a, t).created = x.created
  BY <1>6
<1> QED BY <1>1, <1>8, <1>9, AccountAssumption

\* DoAbort forgets reads of its own transaction only.
LEMMA ForgetKeeps ==
    ASSUME NEW S, NEW s \in Seq(S), NEW t, NEW n
    PROVE  /\ Forget(s, t, n) \in Seq(S)
           /\ \A i \in 1..Len(s) : s[i] # t =>
                 \E k \in 1..Len(Forget(s, t, n)) : Forget(s, t, n)[k] = s[i]
<1> DEFINE kept == {k \in 1..Len(s) : s[k] # t \/ ReadsOfOthers(s, t, k) >= n}
           rank(i) == Cardinality({j \in kept : j <= i})
           at(k) == CHOOSE i \in kept : rank(i) = k
           r == [k \in 1..Cardinality(kept) |-> s[at(k)]]
<1>1. kept \in SUBSET (1..Len(s)) /\ Len(s) \in Nat
  OBVIOUS
<1>2. \A i \in 1..Len(s) : s[i] # t => i \in kept
  OBVIOUS
<1>3. Forget(s, t, n) = r
  BY DEF Forget
<1>4. IsFiniteSet(kept) /\ Cardinality(kept) \in Nat
  <2>1. IsFiniteSet(1..Len(s))
    BY <1>1, FS_Interval
  <2> HIDE DEF kept
  <2> QED BY <1>1, <2>1, FS_Subset, FS_CardinalityType
<1> HIDE DEF kept
<1>5. \A k \in 1..Cardinality(kept) : at(k) \in kept
  BY <1>1, NthMember
<1>6. \A i \in kept : rank(i) \in 1..Cardinality(kept) /\ at(rank(i)) = i
  <2> SUFFICES ASSUME NEW i \in kept
               PROVE  rank(i) \in 1..Cardinality(kept) /\ at(rank(i)) = i
    OBVIOUS
  <2>1. {j \in kept : j <= i} \in SUBSET kept /\ {j \in kept : j <= i} # {}
    <3>1. i <= i
      BY <1>1
    <3> QED BY <3>1
  <2>2. rank(i) \in Nat /\ rank(i) # 0 /\ rank(i) <= Cardinality(kept)
    <3>1. PICK T \in SUBSET kept : T = {j \in kept : j <= i} /\ T # {}
      BY <2>1
    <3>2. Cardinality(T) \in Nat /\ Cardinality(T) # 0 /\ Cardinality(T) <= Cardinality(kept)
      BY <1>4, <3>1, FS_Subset, FS_CardinalityType, FS_EmptySet
    <3> QED BY <3>1, <3>2
  <2>3. at(rank(i)) \in kept /\ rank(at(rank(i))) = rank(i)
    <3>1. PICK k : k = rank(i)
      OBVIOUS
    <3>2. \E j \in kept : rank(j) = k
      BY <3>1
    <3> HIDE DEF rank
    <3>3. at(k) \in kept /\ rank(at(k)) = k
      BY <3>2, Zenon
    <3> QED BY <3>1, <3>3
  <2>4. \A j, k \in kept : rank(j) = rank(k) => j = k
    BY <1>1, NthIsOne, Zenon
  <2> HIDE DEF rank, at
  <2>5. at(rank(i)) = i
    BY <2>3, <2>4
  <2>6. rank(i) \in 1..Cardinality(kept)
    BY <1>4, <2>2
  <2> QED BY <2>5, <2>6
<1> HIDE DEF rank, at
<1>7. r \in Seq(S) /\ Len(r) = Cardinality(kept)
  <2>1. \A i \in kept : s[i] \in S
    BY <1>1
  <2>2. \A k \in 1..Cardinality(kept) : s[at(k)] \in S
    BY <1>5, <2>1
  <2> QED BY <1>4, <2>2
<1>8. ASSUME NEW i \in kept
      PROVE  \E k \in 1..Len(r) : r[k] = s[i]
  <2>1. rank(i) \in 1..Len(r) /\ r[rank(i)] = s[i]
    BY <1>6, <1>7
  <2> QED BY <2>1
<1> HIDE DEF r
<1> QED BY <1>2, <1>3, <1>7, <1>8

LEMMA RTSAfterAbort ==
    ASSUME StoreTypes, NEW b \in Branch, NEW t \in Tx, DoAbort(b, t)
    PROVE  /\ DOMAIN RTS' = Branch
           /\ \A c \in Branch \ {b} : RTS'[c] = RTS[c]
           /\ DOMAIN RTS'[b] = DOMAIN RTS[b]
           /\ \E n : \A a \in DOMAIN RTS[b] : RTS'[b][a] = Forget(RTS[b][a], t, n)
<1>1. DOMAIN RTS = Branch
  BY DEF StoreTypes, ReadTypes
<1>2. PICK n : n = Cardinality(DOMAIN RTS[b])
  OBVIOUS
<1>3. PICK f : f = [a \in DOMAIN RTS[b] |-> Forget(RTS[b][a], t, n)]
  OBVIOUS
<1>4. RTS' = [RTS EXCEPT ![b] = f]
  BY <1>2, <1>3, Zenon DEF DoAbort
<1> QED BY <1>1, <1>3, <1>4

LEMMA TellsEffect ==
    ASSUME StoreTypes, NEW b \in Branch, NEW op \in Operation, Tells(b, op)
    PROVE  /\ DOMAIN RTS' = Branch
           /\ \A c \in Branch \ {b} : RTS'[c] = RTS[c]
           /\ DOMAIN RTS'[b] = DOMAIN RTS[b] \cup {op.account}
           /\ RTS'[b][op.account] = Append(Reads(b, op.account), op.tx)
           /\ Reads(b, op.account) \in Seq(Tx)
           /\ \A a \in DOMAIN RTS[b] \ {op.account} : RTS'[b][a] = RTS[b][a]
           /\ DOMAIN seen' = Tx
           /\ seen'[op.tx] = seen[op.tx] \cup {Told(b, op.account)}
           /\ \A u \in Tx \ {op.tx} : seen'[u] = seen[u]
<1>1. DOMAIN RTS = Branch /\ DOMAIN seen = Tx
  BY DEF StoreTypes, ReadTypes
<1>2. PICK x \in Account : x = op.account
  BY OperationFields
<1>3. PICK t \in Tx : t = op.tx
  BY OperationFields
<1>4. PICK q : q = Append(Reads(b, x), t)
  OBVIOUS
<1>5. PICK f : f = [y \in DOMAIN RTS[b] \cup {x} |-> IF y = x THEN q ELSE RTS[b][y]]
  OBVIOUS
<1>6. RTS' = [RTS EXCEPT ![b] = f]
  BY <1>2, <1>3, <1>4, <1>5, Zenon DEF Tells
<1>7. PICK v : v = Told(b, x)
  OBVIOUS
<1>8. seen' = [seen EXCEPT ![t] = @ \cup {v}]
  BY <1>2, <1>3, <1>7 DEF Tells
<1>9. /\ DOMAIN RTS' = Branch /\ RTS'[b] = f
      /\ \A c \in Branch \ {b} : RTS'[c] = RTS[c]
  BY <1>1, <1>6
<1>10. DOMAIN f = DOMAIN RTS[b] \cup {x} /\ f[x] = q
       /\ \A a \in DOMAIN RTS[b] \ {x} : f[a] = RTS[b][a]
  BY <1>5
<1>11. Reads(b, x) \in Seq(Tx)
  BY DEF Reads, StoreTypes, ReadTypes
<1>12. /\ DOMAIN seen' = Tx /\ seen'[t] = seen[t] \cup {v}
       /\ \A u \in Tx \ {t} : seen'[u] = seen[u]
  BY <1>1, <1>8
<1> QED BY <1>2, <1>3, <1>4, <1>7, <1>9, <1>10, <1>11, <1>12

\* Every step keeps the types of the store.
LEMMA OpensTypes ==
    ASSUME StoreTypes, NEW b \in Branch, NEW op \in Operation, Opens(b, op)
    PROVE  StoreTypes'
<1>1. AccountTypes'
  <2>1. NewAccount(op.tx) \in OpenAccount
    BY OperationFields, TxNumbers, CountAssumption DEF NewAccount, OpenAccount
  <2> QED BY <2>1, OpensEffect DEF StoreTypes, AccountTypes
<1>2. WriteTypes' /\ ReadTypes'
  BY DEF Opens, StoreTypes, WriteTypes, ReadTypes, Written
<1> QED BY <1>1, <1>2 DEF StoreTypes

LEMMA WritesTypes ==
    ASSUME StoreTypes, NEW b \in Branch, NEW op \in Operation, Writes(b, op)
    PROVE  StoreTypes'
<1>1. AccountTypes' /\ ReadTypes'
  BY DEF Writes, StoreTypes, AccountTypes, ReadTypes
<1>2. ASSUME NEW u \in Written(b, op.account) \cup {op.tx}
      PROVE  u \in Tx /\ TW'[b][op.account][u] \in Int
  <2>1. Amount(op) \in Int
    BY DEF Amount
  <2>2. op.tx \in Tx /\ op.account \in Account
    BY OperationFields
  <2>3. /\ Written(b, op.account) \subseteq Tx
        /\ \A v \in Written(b, op.account) : TW[b][op.account][v] \in Int
    BY <2>2 DEF StoreTypes, WriteTypes
  <2>4. TW'[b][op.account][u] =
           IF u # op.tx THEN TW[b][op.account][u]
           ELSE IF op.tx \in Written(b, op.account)
                THEN TW[b][op.account][op.tx] + Amount(op) ELSE Amount(op)
    <3>1. PICK f : f = TW[b][op.account]
      OBVIOUS
    <3>2. PICK t \in Tx : t = op.tx
      BY <2>2
    <3>3. PICK v : v = Amount(op)
      OBVIOUS
    <3>4. TW'[b][op.account] = Added(f, t, v)
      BY <3>1, <3>2, <3>3, WritesEffect
    <3>5. u \in DOMAIN f \cup {t}
      BY <1>2, <3>1, <3>2 DEF Written
    <3>6. Added(f, t, v)[u] =
             IF u # t THEN f[u] ELSE IF t \in DOMAIN f THEN f[t] + v ELSE v
      BY <3>5 DEF Added
    <3> QED BY <3>1, <3>2, <3>3, <3>4, <3>6 DEF Written
  <2> QED BY <1>2, <2>1, <2>2, <2>3, <2>4
<1>3. WriteTypes'
  BY <1>2, WritesEffect DEF StoreTypes, WriteTypes, Written
<1> QED BY <1>1, <1>3 DEF StoreTypes

LEMMA TellsTypes ==
    ASSUME StoreTypes, NEW b \in Branch, NEW op \in Operation, Tells(b, op)
    PROVE  StoreTypes'
<1>1. AccountTypes' /\ WriteTypes'
  BY DEF Tells, StoreTypes, AccountTypes, WriteTypes, Written
<1>2. op.tx \in Tx /\ op.account \in Account
  BY OperationFields
<1>3. Append(Reads(b, op.account), op.tx) \in Seq(Tx)
  BY <1>2, TellsEffect
<1>4. \A c \in Branch : \A a \in DOMAIN RTS'[c] : RTS'[c][a] \in Seq(Tx)
  <2>1. ASSUME NEW c \in Branch \ {b}, NEW a \in DOMAIN RTS'[c]
        PROVE  RTS'[c][a] \in Seq(Tx)
    BY <2>1, TellsEffect DEF StoreTypes, ReadTypes
  <2>2. ASSUME NEW a \in DOMAIN RTS'[b]
        PROVE  RTS'[b][a] \in Seq(Tx)
    <3>1. CASE a = op.account
      BY <1>3, <3>1, TellsEffect
    <3>2. CASE a # op.account
      <4>1. a \in DOMAIN RTS[b] \ {op.account}
        BY <2>2, <3>2, TellsEffect
      <4> QED BY <4>1, TellsEffect DEF StoreTypes, ReadTypes
    <3> QED BY <3>1, <3>2
  <2> QED BY <2>1, <2>2
<1>5. /\ Told(b, op.account).branch \in Branch
      /\ Told(b, op.account).account \in Account
      /\ Told(b, op.account).created \in Tx
  BY <1>2 DEF Told, Tells, StoreTypes, AccountTypes, OpenAccount
<1>6. \A t \in Tx : \A r \in seen'[t] :
         r.branch \in Branch /\ r.account \in Account /\ r.created \in Tx
  BY <1>5, TellsEffect DEF StoreTypes, ReadTypes
<1>7. ReadTypes'
  BY <1>4, <1>6, TellsEffect DEF ReadTypes
<1> QED BY <1>1, <1>7 DEF StoreTypes

LEMMA DoAbortTypes ==
    ASSUME StoreTypes, NEW b \in Branch, NEW t \in Tx, DoAbort(b, t), UNCHANGED seen
    PROVE  StoreTypes'
<1>1. AccountTypes'
  BY DoAbortEffect DEF StoreTypes, AccountTypes
<1>2. WriteTypes'
  <2>1. /\ DOMAIN TW' = Branch
        /\ \A c \in Branch : DOMAIN TW'[c] = Account
        /\ \A a \in Account :
              /\ DOMAIN TW'[b][a] = Written(b, a) \ {t}
              /\ \A u \in Written(b, a) \ {t} : TW'[b][a][u] = TW[b][a][u]
        /\ \A c \in Branch \ {b} : TW'[c] = TW[c]
    BY TakesWrites DEF DoAbort
  <2> QED BY <2>1 DEF StoreTypes, WriteTypes, Written
<1>3. \A c \in Branch : \A a \in DOMAIN RTS'[c] : RTS'[c][a] \in Seq(Tx)
  <2>1. PICK n : \A a \in DOMAIN RTS[b] : RTS'[b][a] = Forget(RTS[b][a], t, n)
    BY RTSAfterAbort
  <2>2. \A a \in DOMAIN RTS[b] : Forget(RTS[b][a], t, n) \in Seq(Tx)
    BY ForgetKeeps DEF StoreTypes, ReadTypes
  <2> QED BY <2>1, <2>2, RTSAfterAbort DEF StoreTypes, ReadTypes
<1>4. ReadTypes'
  BY <1>3, RTSAfterAbort DEF StoreTypes, ReadTypes
<1> QED BY <1>1, <1>2, <1>4 DEF StoreTypes

LEMMA DoCommitTypes ==
    ASSUME StoreTypes, NEW b \in Branch, NEW t \in Tx,
           ~CommitPanics(b, t), DoCommit(b, t), UNCHANGED seen
    PROVE  StoreTypes'
<1>1. \A a \in Account :
         t \in Written(b, a) => accounts[b][a] # NULL /\ AccountAfter(b, a, t) \in OpenAccount
  BY AccountAfterType DEF CommitPanics
<1>2. AccountTypes'
  BY <1>1, DoCommitEffect DEF StoreTypes, AccountTypes
<1>3. WriteTypes'
  <2>1. /\ DOMAIN TW' = Branch
        /\ \A c \in Branch : DOMAIN TW'[c] = Account
        /\ \A a \in Account :
              /\ DOMAIN TW'[b][a] = Written(b, a) \ {t}
              /\ \A u \in Written(b, a) \ {t} : TW'[b][a][u] = TW[b][a][u]
        /\ \A c \in Branch \ {b} : TW'[c] = TW[c]
    BY TakesWrites DEF DoCommit
  <2> QED BY <2>1 DEF StoreTypes, WriteTypes, Written
<1>4. ReadTypes'
  BY DEF DoCommit, StoreTypes, ReadTypes
<1> QED BY <1>2, <1>3, <1>4 DEF StoreTypes

LEMMA StoreStepTypes ==
    ASSUME StoreTypes, StoreStep
    PROVE  StoreTypes'
<1>1. CASE UNCHANGED <<accounts, TW, RTS, seen>>
  BY <1>1 DEF StoreTypes, AccountTypes, WriteTypes, ReadTypes, Written
<1> QED BY <1>1, OpensTypes, WritesTypes, TellsTypes, DoAbortTypes, DoCommitTypes
        DEF StoreStep

-----------------------------------------------------------------------------
(***************************************************************************)
(* The types.                                                              *)
(***************************************************************************)
\* What a step does to the count of COMMIT_READYs and to the servers.
Counts(t, c) ==
    /\ Carries(link, c, coordinator[t], t, "COMMIT_READY")
    /\ coordinator[t] \in Branch
    /\ commitCount' = [commitCount EXCEPT ![t] = @ + 1]

CountStep ==
    \/ UNCHANGED commitCount
    \/ \E t \in Tx : commitCount' = [commitCount EXCEPT ![t] = 0]
    \/ \E t \in Tx, c \in Branch : Counts(t, c)

UpStep ==
    UNCHANGED up \/ \E b \in Branch, lives \in BOOLEAN : up' = [up EXCEPT ![b] = lives]

LEMMA PanicCounts ==
    ASSUME NEW b \in Branch, Panic(b)
    PROVE  CountStep /\ UpStep
BY DEF Panic, CountStep, UpStep

LEMMA ExecuteCounts ==
    ASSUME NEW b, NEW op, NEW l, NEW rest, Execute(b, op, l, rest)
    PROVE  CountStep /\ UpStep
BY DEF Execute, CountStep, UpStep

LEMMA StartCommitCounts ==
    ASSUME NEW c, NEW b \in Branch, NEW t \in Tx, NEW l, StartCommit(c, b, t, l)
    PROVE  CountStep /\ UpStep
BY PanicCounts DEF StartCommit, Committed, CountStep, UpStep

LEMMA AbortEverywhereCounts ==
    ASSUME NEW b \in Branch, NEW t \in Tx, NEW l, NEW survives \in BOOLEAN,
           AbortEverywhere(b, t, l, survives)
    PROVE  CountStep /\ UpStep
BY PanicCounts DEF AbortEverywhere, CountStep, UpStep

LEMMA BankCounts ==
    ASSUME OneMessagePerRead, PhaseInv, [Next]_vars
    PROVE  CountStep /\ UpStep
<1>1. CASE UNCHANGED vars
  BY <1>1 DEF vars, CountStep, UpStep
<1>2. ASSUME NEW t \in Tx, NEW b \in Branch, Begin(t, b)
      PROVE  CountStep /\ UpStep
  BY <1>2 DEF Begin, CountStep, UpStep
<1>3. ASSUME NEW t \in Tx, NEW op \in Operation, Command(t, op)
      PROVE  CountStep /\ UpStep
  BY <1>3, ExecuteCounts DEF Command, CountStep, UpStep
<1>4. ASSUME NEW t \in Tx, AskCommit(t)
      PROVE  CountStep /\ UpStep
  <2>1. coordinator[t] \in Branch
    BY <1>4, ReadyIsIdle DEF AskCommit
  <2> QED BY <1>4, <2>1, PanicCounts DEF AskCommit, CountStep, UpStep
<1>5. ASSUME NEW t \in Tx, AskAbort(t)
      PROVE  CountStep /\ UpStep
  <2>1. coordinator[t] \in Branch
    BY <1>5, ReadyIsIdle DEF AskAbort
  <2> QED BY <1>5, <2>1, AbortEverywhereCounts DEF AskAbort
<1>6. ASSUME NEW t \in Tx, Desert(t)
      PROVE  CountStep /\ UpStep
  <2>1. coordinator[t] \in Branch
    BY <1>6 DEF Desert, PhaseInv, Routed
  <2> QED BY <1>6, <2>1, PanicCounts DEF Desert
<1>7. ASSUME NEW b \in Branch, NEW c \in Branch, NEW k \in 1..MaxRead,
             \/ Forwarded(c, b, k)
             \/ Replied(c, b, k)
             \/ Refused(c, b, k)
             \/ AbortOrdered(c, b, k)
             \/ Prepare(c, b, k)
             \/ CountReady(c, b, k)
             \/ CommitReady(c, b, k)
             \/ CommitOrdered(c, b, k)
      PROVE  CountStep /\ UpStep
  <2>1. k = 1
    BY <1>7 DEF OneMessagePerRead
  <2> DEFINE t == link[c][b][1].tx
  <2>2. ASSUME NEW kinds, Reading(c, b, k, kinds)
        PROVE  t \in Tx
    BY <2>1, <2>2, ReadingTakes
  <2>3. CASE Forwarded(c, b, k)
    BY <2>3, PanicCounts, ExecuteCounts DEF Forwarded
  <2>4. CASE Replied(c, b, k)
    BY <2>4, PanicCounts DEF Replied, CountStep, UpStep
  <2>5. CASE Refused(c, b, k)
    BY <2>2, <2>5, AbortEverywhereCounts DEF Refused
  <2>6. CASE AbortOrdered(c, b, k)
    BY <2>6, PanicCounts DEF AbortOrdered, CountStep, UpStep
  <2>7. CASE Prepare(c, b, k)
    BY <2>7, PanicCounts DEF Prepare, CountStep, UpStep
  <2>8. CASE CountReady(c, b, k)
    <3>1. Carries(link, c, b, t, "COMMIT_READY") /\ t \in Tx
      BY <2>1, <2>8, ReadingTakes DEF CountReady
    <3>2. b = coordinator[t]
      BY <3>1, ReadyIsNew
    <3>3. Counts(t, c)
      BY <2>8, <3>1, <3>2 DEF CountReady, Counts
    <3> QED BY <2>8, <3>1, <3>3 DEF CountReady, CountStep, UpStep
  <2>9. CASE CommitReady(c, b, k)
    BY <2>2, <2>9, StartCommitCounts DEF CommitReady
  <2>10. CASE CommitOrdered(c, b, k)
    BY <2>2, <2>10, StartCommitCounts DEF CommitOrdered
  <2> QED BY <1>7, <2>3, <2>4, <2>5, <2>6, <2>7, <2>8, <2>9, <2>10
<1>8. ASSUME NEW b \in Branch, NEW c \in Branch, PeerGone(c, b)
      PROVE  CountStep /\ UpStep
  BY <1>8, PanicCounts DEF PeerGone
<1>9. ASSUME NEW j \in jobs, Locked(j) \/ Wait(j) \/ Abort(j) \/ Spin(j)
      PROVE  CountStep /\ UpStep
  <2>1. j.branch \in Branch
    BY PhaseOfJob
  <2>2. CASE Locked(j)
    BY <2>1, <2>2, PanicCounts DEF Locked, Write, Read, CountStep, UpStep
  <2>3. CASE Wait(j)
    BY <2>3, ExecuteCounts DEF Wait, CountStep, UpStep
  <2>4. CASE Abort(j)
    BY <2>1, <2>4, PanicCounts DEF Abort, CountStep, UpStep
  <2>5. CASE Spin(j)
    BY <2>1, <2>5, PanicCounts DEF Spin, Committed, CountStep, UpStep
  <2> QED BY <1>9, <2>2, <2>3, <2>4, <2>5
<1> QED BY <1>1, <1>2, <1>3, <1>4, <1>5, <1>6, <1>7, <1>8, <1>9
        DEF Next, Client, Server

\* Besides the branches counted there is one whose COMMIT_READY is taken, and
\* the coordinator itself.
LEMMA CountBound ==
    ASSUME PhaseInv, NEW t \in Tx, NEW c \in Branch, Counts(t, c)
    PROVE  commitCount[t] + 1 <= Cardinality(Branch) - 1
<1>1. PICK S \in SUBSET Others(t) :
         c \in Others(t) /\ c \notin S /\ Cardinality(S) = commitCount[t]
  BY ReadyIsNew DEF Counts, VotingPhase
<1>2. /\ IsFiniteSet(Others(t))
      /\ Cardinality(Others(t)) = Cardinality(Branch) - 1
  BY BranchAssumption, FS_RemoveElement DEF Counts, Others
<1>3. IsFiniteSet(S)
  BY <1>2, FS_Subset
<1>4. Cardinality(S \cup {c}) = Cardinality(S) + 1
  BY <1>1, <1>3, FS_AddElement
<1>5. Cardinality(S \cup {c}) <= Cardinality(Others(t))
  BY <1>1, <1>2, FS_Subset
<1> QED BY <1>1, <1>2, <1>4, <1>5

TypeInv ==
    /\ StoreTypes
    /\ commitCount \in [Tx -> 0..(Cardinality(Branch) - 1)]
    /\ up \in [Branch -> BOOLEAN]

LEMMA TypeInvInit == Init => TypeInv
<1> SUFFICES ASSUME Init PROVE TypeInv
  OBVIOUS
<1>1. StoreTypes
  BY DEF Init, StoreTypes, AccountTypes, WriteTypes, ReadTypes, Written
<1>2. 0 \in 0..(Cardinality(Branch) - 1)
  BY BranchAssumption, FS_CardinalityType, FS_EmptySet
<1> QED BY <1>1, <1>2 DEF Init, TypeInv

LEMMA TypeInvStep ==
    ASSUME OneMessagePerRead, PhaseInv, TypeInv, [Next]_vars
    PROVE  TypeInv'
<1>1. StoreTypes'
  BY BankStores, StoreStepTypes DEF TypeInv
<1>2. CountStep /\ UpStep
  BY BankCounts
<1>3. PICK m : m = Cardinality(Branch) - 1
  OBVIOUS
<1>4. m \in Int /\ 0 <= m
  BY <1>3, BranchAssumption, FS_CardinalityType, FS_EmptySet
<1>5. commitCount \in [Tx -> 0..m]
  BY <1>3 DEF TypeInv
<1>6. ASSUME NEW t \in Tx, NEW c \in Branch, Counts(t, c)
      PROVE  commitCount' \in [Tx -> 0..m]
  <2>1. commitCount[t] + 1 \in 0..m
    BY <1>3, <1>4, <1>5, <1>6, CountBound
  <2> QED BY <1>5, <1>6, <2>1 DEF Counts
<1>7. commitCount' \in [Tx -> 0..m]
  BY <1>2, <1>4, <1>5, <1>6 DEF CountStep
<1>8. up' \in [Branch -> BOOLEAN]
  BY <1>2 DEF UpStep, TypeInv
<1> QED BY <1>1, <1>3, <1>7, <1>8 DEF TypeInv

LEMMA TypesHold == OneMessagePerRead => (Spec => [](PhaseInv /\ TypeInv))
<1> SUFFICES ASSUME OneMessagePerRead PROVE Spec => [](PhaseInv /\ TypeInv)
  OBVIOUS
<1>1. PhaseInv /\ TypeInv /\ [Next]_vars => TypeInv'
  BY TypeInvStep
<1>2. Spec => []PhaseInv
  BY PhasesHold
<1> QED BY <1>1, <1>2, TypeInvInit, PTL DEF Spec

\* The maps of every branch hold what their declarations say, the committed
\* balances are numbers and dated by transactions, and no coordinator counts
\* more COMMIT_READYs than there are other branches, when no Read of a
\* connection returns two messages run together.
THEOREM TypeCorrect == OneMessagePerRead => (Spec => []TypeOK)
<1> SUFFICES ASSUME OneMessagePerRead PROVE Spec => []TypeOK
  OBVIOUS
<1>1. ASSUME PhaseInv, TypeInv
      PROVE  TypeOK
  <2>1. \A b \in Branch, a \in Account :
           /\ accounts[b][a] = NULL \/ accounts[b][a] \in OpenAccount
           /\ Written(b, a) \subseteq Tx
           /\ \A t \in Written(b, a) : TW[b][a][t] \in Int
           /\ Reads(b, a) \in Seq(Tx)
    BY <1>1 DEF TypeInv, StoreTypes, AccountTypes, WriteTypes, ReadTypes, Reads
  <2>2. \A b, c \in Branch : link[b][c] \in Seq(Operation \cup Notice)
    BY <1>1 DEF PhaseInv, PhaseTypes, Connections, Message
  <2> QED BY <1>1, <2>1, <2>2 DEF TypeOK, TypeInv, PhaseInv, PhaseTypes
<1> QED BY <1>1, TypesHold, PTL

-----------------------------------------------------------------------------
(***************************************************************************)
(* An abort leaves nothing, and lasts.                                     *)
(***************************************************************************)
LEMMA OutcomeOfStep ==
    ASSUME PhaseInv, NEW t \in Tx, NEW b \in Branch, NEW end,
           outcome' = [outcome EXCEPT ![t][b] = end]
    PROVE  /\ outcome'[t][b] = end
           /\ \A u \in Tx, c \in Branch : u # t \/ c # b => outcome'[u][c] = outcome[u][c]
<1>1. outcome \in [Tx -> [Branch -> {"working", "prepared", "committed", "aborted"}]]
  BY DEF PhaseInv, PhaseTypes
<1> QED BY <1>1, Zenon

\* AtomicCommit never takes an abort back.
LEMMA AbortLasts ==
    ASSUME PhaseInv, OutcomeStep, NEW t \in Tx, NEW b \in Branch,
           outcome[t][b] = "aborted"
    PROVE  outcome'[t][b] = "aborted"
<1>1. CASE UNCHANGED outcome
  BY <1>1
<1>2. CASE Promise!Next
  <2>1. PICK u \in Tx, c \in Branch :
           \/ Promise!Agree(u, c)
           \/ Promise!Commit(u, c)
           \/ Promise!TakeBack(u, c)
    BY <1>2 DEF Promise!Next
  <2>2. PICK end : /\ outcome' = [outcome EXCEPT ![u][c] = end]
                   /\ outcome[u][c] = "aborted" => end = "aborted"
    BY <2>1 DEF Promise!Agree, Promise!Commit, Promise!TakeBack, Promise!Become
  <2> QED BY <2>2, OutcomeOfStep
<1> QED BY <1>1, <1>2 DEF OutcomeStep

\* Only what is open and written is looked at, branch by branch.
LEMMA OpensKeeps ==
    ASSUME PhaseInv, StoreTypes, AbortLeavesNothing,
           NEW b \in Branch, NEW op \in Operation, Opens(b, op)
    PROVE  AbortLeavesNothing'
<1>1. ASSUME NEW u \in Tx, NEW c \in Branch, outcome'[u][c] = "aborted", NEW a \in Account
      PROVE  /\ u \notin DOMAIN TW'[c][a]
             /\ accounts'[c][a] # NULL => accounts'[c][a].created # u
  <2>1. outcome[u][c] = "aborted" /\ TW' = TW
    BY <1>1 DEF Opens
  <2>2. /\ u \notin DOMAIN TW[c][a]
        /\ accounts[c][a] # NULL => accounts[c][a].created # u
    BY <2>1 DEF AbortLeavesNothing, Written
  <2>3. u # op.tx
    BY <2>1 DEF Opens, AllWorking
  <2>4. NewAccount(op.tx).created = op.tx
    BY DEF NewAccount
  <2> QED BY <2>1, <2>2, <2>3, <2>4, OpensEffect
<1> QED BY <1>1 DEF AbortLeavesNothing, Written

LEMMA WritesKeeps ==
    ASSUME PhaseInv, StoreTypes, AbortLeavesNothing,
           NEW b \in Branch, NEW op \in Operation, Writes(b, op)
    PROVE  AbortLeavesNothing'
<1>1. ASSUME NEW u \in Tx, NEW c \in Branch, outcome'[u][c] = "aborted", NEW a \in Account
      PROVE  /\ u \notin DOMAIN TW'[c][a]
             /\ accounts'[c][a] # NULL => accounts'[c][a].created # u
  <2>1. outcome[u][c] = "aborted" /\ accounts' = accounts
    BY <1>1 DEF Writes
  <2>2. /\ u \notin DOMAIN TW[c][a]
        /\ accounts[c][a] # NULL => accounts[c][a].created # u
    BY <2>1 DEF AbortLeavesNothing, Written
  <2>3. u # op.tx
    BY <2>1 DEF Writes, AllWorking
  <2> QED BY <2>1, <2>2, <2>3, WritesEffect DEF Written
<1> QED BY <1>1 DEF AbortLeavesNothing, Written

LEMMA DoAbortKeeps ==
    ASSUME PhaseInv, StoreTypes, AbortLeavesNothing,
           NEW b \in Branch, NEW t \in Tx, DoAbort(b, t)
    PROVE  AbortLeavesNothing'
<1>1. /\ \A a \in Account : DOMAIN TW'[b][a] = Written(b, a) \ {t}
      /\ \A c \in Branch \ {b} : TW'[c] = TW[c]
  BY TakesWrites DEF DoAbort
<1>2. ASSUME NEW u \in Tx, NEW c \in Branch, outcome'[u][c] = "aborted", NEW a \in Account
      PROVE  /\ u \notin DOMAIN TW'[c][a]
             /\ accounts'[c][a] # NULL => accounts'[c][a].created # u
  <2>1. CASE u = t /\ c = b
    BY <1>1, <2>1, DoAbortEffect
  <2>2. CASE u # t \/ c # b
    <3>1. outcome[u][c] = "aborted"
      BY <1>2, <2>2, OutcomeOfStep DEF DoAbort
    <3>2. /\ u \notin DOMAIN TW[c][a]
          /\ accounts[c][a] # NULL => accounts[c][a].created # u
      BY <3>1 DEF AbortLeavesNothing, Written
    <3> QED BY <1>1, <3>2, DoAbortEffect DEF Written
  <2> QED BY <2>1, <2>2
<1> QED BY <1>2 DEF AbortLeavesNothing, Written

LEMMA DoCommitKeeps ==
    ASSUME PhaseInv, StoreTypes, AbortLeavesNothing,
           NEW b \in Branch, NEW t \in Tx, ~CommitPanics(b, t), DoCommit(b, t)
    PROVE  AbortLeavesNothing'
<1>1. /\ \A a \in Account : DOMAIN TW'[b][a] = Written(b, a) \ {t}
      /\ \A c \in Branch \ {b} : TW'[c] = TW[c]
  BY TakesWrites DEF DoCommit
<1>2. \A a \in Account : accounts'[b][a] # NULL =>
         accounts[b][a] # NULL /\ accounts'[b][a].created = accounts[b][a].created
  BY DoCommitEffect, AccountAfterType DEF CommitPanics
<1>3. ASSUME NEW u \in Tx, NEW c \in Branch, outcome'[u][c] = "aborted", NEW a \in Account
      PROVE  /\ u \notin DOMAIN TW'[c][a]
             /\ accounts'[c][a] # NULL => accounts'[c][a].created # u
  <2>1. outcome[u][c] = "aborted"
    <3>1. outcome' = [outcome EXCEPT ![t][b] = "committed"]
      BY DEF DoCommit
    <3> QED BY <1>3, <3>1, OutcomeOfStep
  <2>2. /\ u \notin DOMAIN TW[c][a]
        /\ accounts[c][a] # NULL => accounts[c][a].created # u
    BY <2>1 DEF AbortLeavesNothing, Written
  <2> QED BY <1>1, <1>2, <2>2, DoCommitEffect DEF Written
<1> QED BY <1>3 DEF AbortLeavesNothing, Written

LEMMA StoreKeeps ==
    ASSUME PhaseInv, StoreTypes, AbortLeavesNothing, StoreStep
    PROVE  AbortLeavesNothing'
<1>1. CASE UNCHANGED <<accounts, TW, outcome>>
  BY <1>1 DEF AbortLeavesNothing, Written
<1>2. ASSUME UNCHANGED <<accounts, TW>>, NEW t \in Tx, NEW b \in Branch,
             outcome' = [outcome EXCEPT ![t][b] = "prepared"]
      PROVE  AbortLeavesNothing'
  <2>1. \A u \in Tx, c \in Branch :
           outcome'[u][c] = "aborted" => outcome[u][c] = "aborted"
    BY <1>2, OutcomeOfStep
  <2> QED BY <1>2, <2>1 DEF AbortLeavesNothing, Written
<1>3. ASSUME NEW b \in Branch, NEW op \in Operation, Tells(b, op)
      PROVE  AbortLeavesNothing'
  BY <1>1, <1>3 DEF Tells
<1> QED BY <1>1, <1>2, <1>3, OpensKeeps, WritesKeeps, DoAbortKeeps, DoCommitKeeps
        DEF StoreStep

\* DoAbort leaves nothing of its transaction at its branch, and no command,
\* COMMIT_PREPARE or COMMIT_OK brings anything back there afterwards, when no
\* Read of a connection returns two messages run together.
THEOREM AbortsLeaveNothing == OneMessagePerRead => (Spec => []AbortLeavesNothing)
<1> SUFFICES ASSUME OneMessagePerRead PROVE Spec => []AbortLeavesNothing
  OBVIOUS
<1>1. Init => AbortLeavesNothing
  BY DEF Init, AbortLeavesNothing, Written
<1>2. PhaseInv /\ TypeInv /\ AbortLeavesNothing /\ [Next]_vars => AbortLeavesNothing'
  BY BankStores, StoreKeeps DEF TypeInv
<1>3. Spec => [](PhaseInv /\ TypeInv)
  BY TypesHold
<1> QED BY <1>1, <1>2, <1>3, PTL DEF Spec

-----------------------------------------------------------------------------
(***************************************************************************)
(* What was read stands.                                                   *)
(***************************************************************************)
\* t read account r.account of branch r.branch: RTS still has the read, no
\* write of an earlier transaction is tentative, the account is the one that
\* was read unless the transaction that created it has been aborted, and its
\* balance has not changed below t.
ReadHolds(t, r) ==
    LET a == accounts[r.branch][r.account]
    IN  /\ r.account \in DOMAIN RTS[r.branch]
        /\ \E k \in 1..Len(RTS[r.branch][r.account]) : RTS[r.branch][r.account][k] = t
        /\ \A u \in Written(r.branch, r.account) : t <= u
        /\ outcome[r.created][r.branch] # "aborted" => a # NULL /\ a.created = r.created
        /\ a # NULL /\ a.created = r.created /\ a.timestamp < t => a.value = r.value

ReadInv ==
    \A t \in Tx : \A r \in seen[t] :
        outcome[t][r.branch] # "aborted" => ReadHolds(t, r)

IsRead(r) == r.branch \in Branch /\ r.account \in Account /\ r.created \in Tx

LEMMA OpensHolds ==
    ASSUME StoreTypes, NEW t \in Tx, NEW r, IsRead(r), ReadHolds(t, r),
           NEW b \in Branch, NEW op \in Operation, Opens(b, op)
    PROVE  ReadHolds(t, r)'
<1>1. RTS' = RTS /\ TW' = TW /\ outcome' = outcome
  BY DEF Opens
<1>2. CASE accounts'[r.branch][r.account] = accounts[r.branch][r.account]
  BY <1>1, <1>2 DEF ReadHolds, Written
<1>3. CASE accounts'[r.branch][r.account] # accounts[r.branch][r.account]
  <2>1. /\ r.branch = b /\ r.account = op.account
        /\ accounts[b][op.account] = NULL
        /\ accounts'[b][op.account] = NewAccount(op.tx)
    BY <1>3, OpensEffect DEF IsRead
  <2>2. outcome[r.created][b] = "aborted"
    BY <2>1 DEF ReadHolds
  <2>3. r.created # op.tx
    BY <2>2 DEF Opens, AllWorking
  <2>4. NewAccount(op.tx).created = op.tx
    BY DEF NewAccount
  <2> QED BY <1>1, <2>1, <2>2, <2>3, <2>4 DEF ReadHolds, Written
<1> QED BY <1>2, <1>3

LEMMA WritesHolds ==
    ASSUME StoreTypes, NEW t \in Tx, NEW r, IsRead(r), ReadHolds(t, r),
           NEW b \in Branch, NEW op \in Operation, Writes(b, op)
    PROVE  ReadHolds(t, r)'
<1>1. RTS' = RTS /\ accounts' = accounts /\ outcome' = outcome
  BY DEF Writes
<1>2. ASSUME NEW u \in DOMAIN TW'[r.branch][r.account]
      PROVE  t <= u
  <2>1. CASE u \in Written(r.branch, r.account)
    BY <2>1 DEF ReadHolds
  <2>2. CASE u \notin Written(r.branch, r.account)
    <3>1. r.branch = b /\ r.account = op.account /\ u = op.tx
      BY <1>2, <2>2, WritesEffect DEF IsRead, Written
    <3>2. \A k \in 1..Len(RTS[b][r.account]) : u >= RTS[b][r.account][k]
      BY <3>1 DEF ReadHolds, Writes, MayWrite, Reads
    <3>3. u >= t
      BY <3>1, <3>2 DEF ReadHolds
    <3>4. u \in Nat /\ t \in Nat
      BY <3>1, OperationFields, TxNumbers
    <3> QED BY <3>3, <3>4
  <2> QED BY <2>1, <2>2
<1> QED BY <1>1, <1>2 DEF ReadHolds, Written

LEMMA TellsHolds ==
    ASSUME StoreTypes, NEW t \in Tx, NEW r, IsRead(r), ReadHolds(t, r),
           NEW b \in Branch, NEW op \in Operation, Tells(b, op)
    PROVE  ReadHolds(t, r)'
<1>1. TW' = TW /\ accounts' = accounts /\ outcome' = outcome
  BY DEF Tells
<1>2. /\ r.account \in DOMAIN RTS'[r.branch]
      /\ \E k \in 1..Len(RTS'[r.branch][r.account]) : RTS'[r.branch][r.account][k] = t
  <2>1. PICK k \in 1..Len(RTS[r.branch][r.account]) : RTS[r.branch][r.account][k] = t
    BY DEF ReadHolds
  <2>2. r.account \in DOMAIN RTS[r.branch]
    BY DEF ReadHolds
  <2>3. CASE r.branch # b \/ r.account # op.account
    <3>1. /\ r.account \in DOMAIN RTS'[r.branch]
          /\ RTS'[r.branch][r.account] = RTS[r.branch][r.account]
      BY <2>2, <2>3, TellsEffect DEF IsRead
    <3> QED BY <2>1, <3>1
  <2>4. CASE r.branch = b /\ r.account = op.account
    <3>1. PICK q \in Seq(Tx) : q = RTS[b][op.account]
      BY <2>2, <2>4 DEF StoreTypes, ReadTypes
    <3>2. RTS'[b][op.account] = Append(q, op.tx) /\ op.account \in DOMAIN RTS'[b]
      BY <2>2, <2>4, <3>1, TellsEffect DEF Reads
    <3>3. k \in 1..Len(Append(q, op.tx)) /\ Append(q, op.tx)[k] = t
      BY <2>1, <2>4, <3>1
    <3> QED BY <2>4, <3>2, <3>3
  <2> QED BY <2>3, <2>4
<1> QED BY <1>1, <1>2 DEF ReadHolds, Written

LEMMA NewReadHolds ==
    ASSUME StoreTypes, NEW b \in Branch, NEW op \in Operation, Tells(b, op)
    PROVE  ReadHolds(op.tx, Told(b, op.account))'
<1>1. PICK r : r = Told(b, op.account)
  OBVIOUS
<1>2. op.tx \in Tx /\ op.account \in Account
  BY OperationFields
<1>3. /\ r.branch = b /\ r.account = op.account
      /\ r.value = accounts[b][op.account].value
      /\ r.created = accounts[b][op.account].created
  BY <1>1 DEF Told, Tells, Value
<1>4. TW' = TW /\ accounts' = accounts /\ outcome' = outcome /\ accounts[b][op.account] # NULL
  BY DEF Tells
<1>5. \A u \in Written(b, op.account) : op.tx <= u
  <2>1. \A u \in Written(b, op.account) : u \in Nat /\ ~(u <= op.tx)
    BY <1>2, TxNumbers DEF Tells, StoreTypes, WriteTypes
  <2>2. op.tx \in Nat
    BY <1>2, TxNumbers
  <2> QED BY <2>1, <2>2
<1>6. /\ op.account \in DOMAIN RTS'[b]
      /\ \E k \in 1..Len(RTS'[b][op.account]) : RTS'[b][op.account][k] = op.tx
  <2>1. PICK q \in Seq(Tx) : q = Reads(b, op.account)
    BY TellsEffect
  <2>2. RTS'[b][op.account] = Append(q, op.tx) /\ op.account \in DOMAIN RTS'[b]
    BY <2>1, TellsEffect
  <2>3. Len(q) + 1 \in 1..Len(Append(q, op.tx)) /\ Append(q, op.tx)[Len(q) + 1] = op.tx
    BY <1>2
  <2> QED BY <2>2, <2>3
<1>7. r = Told(b, op.account)'
  BY <1>1, <1>4 DEF Told, Value
<1>8. /\ accounts'[b][op.account] # NULL
      /\ accounts'[b][op.account].created = r.created
      /\ accounts'[b][op.account].value = r.value
  BY <1>3, <1>4
<1>9. \A u \in Written(b, op.account)' : op.tx <= u
  BY <1>4, <1>5 DEF Written
<1>10. r.branch = b /\ r.account = op.account
  BY <1>3
<1> QED BY <1>6, <1>7, <1>8, <1>9, <1>10, Zenon DEF ReadHolds

LEMMA DoAbortHolds ==
    ASSUME PhaseInv, StoreTypes, NEW t \in Tx, NEW r, IsRead(r), ReadHolds(t, r),
           NEW b \in Branch, NEW u \in Tx, DoAbort(b, u),
           outcome'[t][r.branch] # "aborted"
    PROVE  ReadHolds(t, r)'
<1>1. /\ outcome'[u][b] = "aborted"
      /\ \A v \in Tx, c \in Branch : v # u \/ c # b => outcome'[v][c] = outcome[v][c]
  <2>1. outcome' = [outcome EXCEPT ![u][b] = "aborted"]
    BY DEF DoAbort
  <2>2. outcome \in [Tx -> [Branch -> {"working", "prepared", "committed", "aborted"}]]
    BY DEF PhaseInv, PhaseTypes
  <2>3. outcome'[u][b] = "aborted"
    BY <2>1, <2>2
  <2>4. ASSUME NEW v \in Tx, NEW c \in Branch, v # u \/ c # b
        PROVE  outcome'[v][c] = outcome[v][c]
    BY <2>1, <2>2, <2>4
  <2> QED BY <2>3, <2>4
<1>2. /\ \A a \in Account : DOMAIN TW'[b][a] = Written(b, a) \ {u}
      /\ \A c \in Branch \ {b} : TW'[c] = TW[c]
  BY TakesWrites DEF DoAbort
<1>3. \A v \in DOMAIN TW'[r.branch][r.account] : v \in Written(r.branch, r.account)
  BY <1>2 DEF IsRead, Written
<1>4. CASE r.branch # b
  <2>1. /\ RTS'[r.branch] = RTS[r.branch] /\ accounts'[r.branch] = accounts[r.branch]
        /\ outcome'[r.created][r.branch] = outcome[r.created][r.branch]
    BY <1>1, <1>4, RTSAfterAbort, DoAbortEffect DEF IsRead
  <2> QED BY <1>3, <2>1 DEF ReadHolds, Written
<1>5. CASE r.branch = b
  <2>1. t # u
    BY <1>1, <1>5
  <2>2. /\ r.account \in DOMAIN RTS'[b]
        /\ \E k \in 1..Len(RTS'[b][r.account]) : RTS'[b][r.account][k] = t
    <3>1. PICK n : \A a \in DOMAIN RTS[b] : RTS'[b][a] = Forget(RTS[b][a], u, n)
      BY RTSAfterAbort
    <3>2. r.account \in DOMAIN RTS[b] /\ r.account \in DOMAIN RTS'[b]
      BY <1>5, RTSAfterAbort DEF ReadHolds
    <3>3. PICK k \in 1..Len(RTS[b][r.account]) : RTS[b][r.account][k] = t
      BY <1>5 DEF ReadHolds
    <3>4. RTS[b][r.account] \in Seq(Tx)
      BY <3>2 DEF StoreTypes, ReadTypes
    <3>5. PICK s \in Seq(Tx) : s = RTS[b][r.account]
      BY <3>4
    <3>6. \E i \in 1..Len(Forget(s, u, n)) : Forget(s, u, n)[i] = t
      BY <2>1, <3>3, <3>5, ForgetKeeps
    <3> QED BY <3>1, <3>2, <3>5, <3>6
  <2>3. CASE accounts'[b][r.account] = accounts[b][r.account]
    <3>1. outcome'[r.created][b] # "aborted" => outcome[r.created][b] # "aborted"
      BY <1>1 DEF IsRead
    <3> QED BY <1>3, <1>5, <2>2, <2>3, <3>1 DEF ReadHolds, Written
  <2>4. CASE accounts'[b][r.account] # accounts[b][r.account]
    <3>1. /\ accounts'[b][r.account] = NULL
          /\ accounts[b][r.account] # NULL /\ accounts[b][r.account].created = u
      BY <2>4, DoAbortEffect DEF IsRead
    <3>2. outcome'[r.created][b] = "aborted"
      <4>1. CASE r.created = u
        BY <1>1, <4>1
      <4>2. CASE r.created # u
        BY <1>1, <1>5, <3>1, <4>2 DEF ReadHolds, IsRead
      <4> QED BY <4>1, <4>2
    <3> QED BY <1>3, <1>5, <2>2, <3>1, <3>2 DEF ReadHolds, Written
  <2> QED BY <2>3, <2>4
<1> QED BY <1>4, <1>5

LEMMA DoCommitHolds ==
    ASSUME PhaseInv, OutcomeStep, StoreTypes,
           NEW t \in Tx, NEW r, IsRead(r), ReadHolds(t, r),
           NEW b \in Branch, NEW u \in Tx, ~CommitPanics(b, u), DoCommit(b, u)
    PROVE  ReadHolds(t, r)'
<1>1. RTS' = RTS
  BY DEF DoCommit
<1>2. outcome'[r.created][r.branch] # "aborted" => outcome[r.created][r.branch] # "aborted"
  BY AbortLasts DEF IsRead
<1>3. /\ \A a \in Account : DOMAIN TW'[b][a] = Written(b, a) \ {u}
      /\ \A c \in Branch \ {b} : TW'[c] = TW[c]
  BY TakesWrites DEF DoCommit
<1>4. \A v \in DOMAIN TW'[r.branch][r.account] : v \in Written(r.branch, r.account)
  BY <1>3 DEF IsRead, Written
<1>5. CASE accounts'[r.branch][r.account] = accounts[r.branch][r.account]
  BY <1>1, <1>2, <1>4, <1>5 DEF ReadHolds, Written
<1>6. CASE accounts'[r.branch][r.account] # accounts[r.branch][r.account]
  <2>1. /\ r.branch = b /\ u \in Written(b, r.account)
        /\ accounts'[b][r.account] = AccountAfter(b, r.account, u)
    BY <1>6, DoCommitEffect DEF IsRead
  <2>2. /\ AccountAfter(b, r.account, u) # NULL
        /\ AccountAfter(b, r.account, u).timestamp = u
        /\ AccountAfter(b, r.account, u).created = accounts[b][r.account].created
        /\ accounts[b][r.account] # NULL
    BY <2>1, AccountAfterType DEF CommitPanics, IsRead
  <2>3. ~(u < t)
    <3>1. t <= u
      BY <2>1 DEF ReadHolds
    <3>2. t \in Nat /\ u \in Nat
      BY TxNumbers
    <3> QED BY <3>1, <3>2
  <2> QED BY <1>1, <1>2, <1>4, <2>1, <2>2, <2>3 DEF ReadHolds, Written
<1> QED BY <1>5, <1>6

LEMMA ReadsKeep ==
    ASSUME PhaseInv, OutcomeStep, StoreTypes, ReadInv, StoreStep
    PROVE  ReadInv'
<1>1. ASSUME NEW t \in Tx, NEW r \in seen[t], outcome'[t][r.branch] # "aborted"
      PROVE  ReadHolds(t, r)'
  <2>1. IsRead(r)
    BY DEF StoreTypes, ReadTypes, IsRead
  <2>2. outcome[t][r.branch] # "aborted"
    BY <1>1, <2>1, AbortLasts DEF IsRead
  <2>3. ReadHolds(t, r)
    BY <2>2 DEF ReadInv
  <2>4. CASE UNCHANGED <<accounts, TW, RTS>> /\ ~UNCHANGED outcome
    <3>1. outcome'[r.created][r.branch] # "aborted"
             => outcome[r.created][r.branch] # "aborted"
      BY <2>1, AbortLasts DEF IsRead
    <3> QED BY <2>3, <2>4, <3>1 DEF ReadHolds, Written
  <2>5. CASE UNCHANGED <<accounts, TW, RTS, outcome>>
    BY <2>3, <2>5 DEF ReadHolds, Written
  <2>6. ASSUME NEW b \in Branch, NEW op \in Operation,
               Opens(b, op) \/ Writes(b, op) \/ Tells(b, op)
        PROVE  ReadHolds(t, r)'
    BY <2>1, <2>3, <2>6, OpensHolds, WritesHolds, TellsHolds
  <2>7. ASSUME NEW b \in Branch, NEW u \in Tx, DoAbort(b, u)
        PROVE  ReadHolds(t, r)'
    BY <1>1, <2>1, <2>3, <2>7, DoAbortHolds
  <2>8. ASSUME NEW b \in Branch, NEW u \in Tx, ~CommitPanics(b, u), DoCommit(b, u)
        PROVE  ReadHolds(t, r)'
    BY <2>1, <2>3, <2>8, DoCommitHolds
  <2> QED BY <2>4, <2>5, <2>6, <2>7, <2>8 DEF StoreStep
<1>2. ASSUME NEW t \in Tx, NEW r \in seen'[t], r \notin seen[t]
      PROVE  ReadHolds(t, r)'
  <2>1. PICK b \in Branch, op \in Operation : Tells(b, op)
    BY <1>2 DEF StoreStep, Opens, Writes
  <2>2. t = op.tx /\ r = Told(b, op.account)
    BY <1>2, <2>1, TellsEffect
  <2>3. Told(b, op.account)' = Told(b, op.account)
    BY <2>1 DEF Tells, Told, Value
  <2> QED BY <2>1, <2>2, <2>3, NewReadHolds
<1> QED BY <1>1, <1>2 DEF ReadInv

\* A committed balance that a transaction was told stays what it would read
\* there until a later one commits or the account is deleted, however many
\* transactions open, write, read and abort around it, when no Read of a
\* connection returns two messages run together: the write rule of write and
\* what DoAbort leaves of RTS keep earlier writes from under the read.
THEOREM ReadsAlwaysStand == OneMessagePerRead => (Spec => []ReadsStand)
<1> SUFFICES ASSUME OneMessagePerRead PROVE Spec => []ReadsStand
  OBVIOUS
<1>1. Init => ReadInv
  BY DEF Init, ReadInv
<1>2. PhaseInv /\ TypeInv /\ ReadInv /\ [Next]_vars => ReadInv'
  BY BankStep, BankStores, ReadsKeep DEF TypeInv
<1>3. ReadInv => ReadsStand
  BY Zenon DEF ReadInv, ReadHolds, ReadsStand
<1>4. Spec => [](PhaseInv /\ TypeInv)
  BY TypesHold
<1> QED BY <1>1, <1>2, <1>3, <1>4, PTL DEF Spec
=============================================================================
