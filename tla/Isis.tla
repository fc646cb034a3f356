-------------------------------- MODULE Isis --------------------------------
(***************************************************************************)
(* The total order multicast of mp1: mp1_node.py, isis.py and account.py.  *)
(*                                                                         *)
(* Every node has a TCP connection to every node, itself included, and a   *)
(* listening thread at the other end of each.  A transaction is sent to    *)
(* all and flooded once by each of them (MESSAGE); everyone proposes a     *)
(* priority to the node it came from (PROPOSE), which sends the highest    *)
(* to all once it has them all (AGREE); that is flooded as well, and a     *)
(* node hands over what is agreed and at the head of its heap.             *)
(*                                                                         *)
(* The threads of a node share its fields under several locks.  One action *)
(* is what a thread does under one of them; thread[n][s] is the thread of  *)
(* node n for its connection from s, and "at" is where it is in listen.    *)
(* A broadcast holds sends_lock from its first send to its last.           *)
(*                                                                         *)
(* A node may die: its connections end, after whatever part of what it     *)
(* sent had left.  A priority k + 0.1 * id is the integer 10 * k + id.     *)
(***************************************************************************)
EXTENDS Integers, Sequences, FiniteSets, FiniteSetsExt, SequencesExt

CONSTANTS
    Node,       \* the ids, from 0
    Message,    \* the transactions typed in, under their unique ids
    Origin,     \* Origin[m]: the node at which m is typed in (msg.node_id)
    Operation,  \* Operation[m]: what m asks of the accounts
    Account,
    Mortal,     \* the node that may die, if any
    MaxOpen,    \* bound: so many messages are under way that no node has
                \* marked as agreed
    MaxEvents   \* bound: so many messages are sent and nodes die in all

\* With ten nodes or more, node 10 would propose the priorities of node 0.
ASSUME NodeAssumption == Node # {} /\ Node \subseteq 0..9
\* Two threads that take away from node_n at once could lose one of the two.
ASSUME MortalAssumption == Mortal \subseteq Node /\ Cardinality(Mortal) <= 1
ASSUME OriginAssumption == Origin \in [Message -> Node]
ASSUME AccountAssumption == IsFiniteSet(Account)
ASSUME OperationAssumption ==
    Operation \in [Message -> [type : {"DEPOSIT", "TRANSFER"},
                               source : Account, target : Account, amount : Nat]]

VARIABLES
    sent,         \* the messages that have been sent
    calm,         \* those sent when nothing was under way after a death
    link,         \* link[s][n]: what is under way from s to n
    thread,       \* thread[n][s]: where that thread is, and with what
    alive,        \* the nodes that have not died
    node_n,       \* node_n[n]: how many nodes n counts
    received,     \* received[n]: the messages marked in recivedDict
    agreed,       \* agreed[n]: the messages marked in agreedDict
    proSeq,
    agrSeq,
    queue,        \* queue[n]: the entries of the heap
    allproposed,  \* allproposed[n][m]: the priorities proposed to n for m
    delivered,    \* delivered[n]: the messages that deliverMsg has returned
    balance

marks == <<received, agreed>>
isisVars == <<proSeq, agrSeq, queue, delivered>>
vars == <<sent, calm, link, thread, alive, node_n, marks, isisVars,
          allproposed, balance>>

Priority == Nat
Wire == [type : {"MESSAGE", "PROPOSE", "AGREE"}, id : Message, priority : Priority]

Transaction(m) == [type |-> "MESSAGE", id |-> m, priority |-> 0]
Proposal(m, p) == [type |-> "PROPOSE", id |-> m, priority |-> p]
Agreement(m, p) == [type |-> "AGREE", id |-> m, priority |-> p]

Receiving == [at |-> "recv"]
Ended == [at |-> "ended"]

-----------------------------------------------------------------------------
(***************************************************************************)
(* Helpers.  A definition may be preceded by versions of it with a slip    *)
(* in it (AllButOne before All): these are not used in the module.         *)
(***************************************************************************)
Goto(n, s, place) == thread' = [thread EXCEPT ![n][s] = place]

\* unicast: what is sent to a node that has died is lost.
Unicast(n, d, w) ==
    link' = [link EXCEPT ![n][d] = IF d \in alive THEN Append(@, w) ELSE @]

\* recivedDict and agreedDict: a MESSAGE or AGREE whose like has been marked is
\* read and ignored.  So is every copy on its way when the first is marked,
\* and these are left out of the links: reading them changes nothing.
Marked(d, w) ==
    \/ w.type = "MESSAGE" /\ w.id \in received[d]
    \/ w.type = "AGREE" /\ w.id \in agreed[d]

Alike(v, w) == v.type = w.type /\ v.id = w.id /\ (w.type = "PROPOSE" => v = w)

\* s without the members of X: SelectSeq, but not as a recursion over s.
Without(s, X) ==
    LET kept == {k \in DOMAIN s : s[k] \notin X}
        nth(j) == CHOOSE k \in kept : Cardinality({i \in kept : i <= k}) = j
    IN  [j \in 1..Cardinality(kept) |-> s[nth(j)]]

\* b_broadcast, once for each member of ws.
Broadcast(n, ws) ==
    link' = [link EXCEPT ![n] =
                [d \in Node |->
                    IF d \in alive
                    THEN @[d] \o Without(ws, {w \in ToSet(ws) : Marked(d, w)})
                    ELSE @[d]]]

\* proposeSeq: the least priority of node n above p in its integral part.
Above(p, n) == 10 * (p \div 10) + 10 + n

\* len(allproposed[id]) == node_n
AllButOne(n, proposed) == Cardinality(proposed) >= node_n[n] - 1
AllThereWere(n, proposed) == Cardinality(proposed) = Cardinality(Node)
All(n, proposed) == Cardinality(proposed) = node_n[n]

Entry(m, p, done) == [id |-> m, priority |-> p, deliverable |-> done]

\* The heap with m's entry replaced by an agreed one; without such an entry
\* the agreement goes by unnoticed.
Replaced(q, m, p) ==
    IF \E e \in q : e.id = m
    THEN {e \in q : e.id # m} \cup {Entry(m, p, TRUE)}
    ELSE q

\* The entries that are popped: agreed, and before all that are not.
PoppedEarly(q) == {e \in q : e.deliverable}
Popped(q) ==
    {e \in q : e.deliverable /\ \A f \in q : f.deliverable \/ e.priority < f.priority}

\* updateBalance
Pay(accounts, a, amount) == [accounts EXCEPT ![a] = @ + amount]
Move(accounts, op) ==
    Pay(Pay(accounts, op.source, -op.amount), op.target, op.amount)

ApplyUncovered(accounts, op) ==
    IF op.type = "DEPOSIT" THEN Pay(accounts, op.source, op.amount)
    ELSE Move(accounts, op)
ApplyHalf(accounts, op) ==
    IF op.type = "DEPOSIT" THEN Pay(accounts, op.source, op.amount)
    ELSE IF accounts[op.source] >= op.amount THEN Move(accounts, op)
    ELSE Pay(accounts, op.target, op.amount)
Apply(accounts, op) ==
    IF op.type = "DEPOSIT" THEN Pay(accounts, op.source, op.amount)
    ELSE IF accounts[op.source] >= op.amount THEN Move(accounts, op)
    ELSE accounts

-----------------------------------------------------------------------------
\* All nodes have connected to one another.
Init ==
    /\ sent = {} /\ calm = {}
    /\ link = [s \in Node |-> [n \in Node |-> <<>>]]
    /\ thread = [n \in Node |-> [s \in Node |-> Receiving]]
    /\ alive = Node
    /\ node_n = [n \in Node |-> Cardinality(Node)]
    /\ received = [n \in Node |-> {}]
    /\ agreed = [n \in Node |-> {}]
    /\ proSeq = [n \in Node |-> n]
    /\ agrSeq = [n \in Node |-> n]
    /\ queue = [n \in Node |-> {}]
    /\ allproposed = [n \in Node |-> [m \in Message |-> {}]]
    /\ delivered = [n \in Node |-> <<>>]
    /\ balance = [n \in Node |-> [a \in Account |-> 0]]

\* Nothing is under way among the nodes that live, nothing waits to be
\* agreed, and all of them know who lives.
Quiescent ==
    \A n \in alive :
        /\ node_n[n] = Cardinality(alive)
        /\ queue[n] = {}
        /\ \A s \in Node : link[s][n] = <<>> /\ thread[n][s] \in {Receiving, Ended}

Events == Cardinality(sent) + Cardinality(Node \ alive)

\* send: a transaction is read and sent.
Send(m) ==
    /\ m \notin sent /\ Origin[m] \in alive
    /\ Cardinality({k \in sent : \A n \in Node : k \notin agreed[n]}) < MaxOpen
    /\ Events < MaxEvents
    /\ sent' = sent \cup {m}
    /\ calm' = IF Quiescent /\ alive \cap Mortal = {} THEN calm \cup {m} ELSE calm
    /\ Broadcast(Origin[m], <<Transaction(m)>>)
    /\ UNCHANGED <<thread, alive, node_n, marks, isisVars, allproposed, balance>>

\* A thread reads the next message w of its connection.
Reads(n, s, w) ==
    /\ n \in alive /\ thread[n][s] = Receiving
    /\ link[s][n] # <<>> /\ w = Head(link[s][n])
    /\ link' = [k \in Node |->
                  [link[k] EXCEPT ![n] = Without(@, {v \in ToSet(@) : Alike(v, w)})]]

\* A MESSAGE is marked as received.
TakeMessage(n, s, w) ==
    /\ Reads(n, s, w) /\ w.type = "MESSAGE"
    /\ received' = [received EXCEPT ![n] = @ \cup {w.id}]
    /\ Goto(n, s, [at |-> "flood", wires |-> <<w>>, next |-> "propose"])
    /\ UNCHANGED <<sent, calm, alive, node_n, agreed, isisVars, allproposed, balance>>

\* A PROPOSE is recorded; with the last one missing, the priority is decided.
TakeProposal(n, s, w) ==
    /\ Reads(n, s, w) /\ w.type = "PROPOSE"
    /\ LET proposed == allproposed[n][w.id] \cup {w.priority}
           highest == Max(proposed)
       IN  IF All(n, proposed)
           THEN /\ agrSeq' = [agrSeq EXCEPT ![n] = Max({@, highest})]
                /\ allproposed' = [allproposed EXCEPT ![n][w.id] = {}]
                /\ Goto(n, s, [at |-> "flood", next |-> "recv",
                               wires |-> <<Agreement(w.id, highest)>>])
           ELSE /\ allproposed' = [allproposed EXCEPT ![n][w.id] = proposed]
                /\ UNCHANGED <<agrSeq, thread>>
    /\ UNCHANGED <<sent, calm, alive, node_n, marks, proSeq, queue, delivered, balance>>

\* An AGREE is marked.
TakeAgreement(n, s, w) ==
    /\ Reads(n, s, w) /\ w.type = "AGREE"
    /\ agreed' = [agreed EXCEPT ![n] = @ \cup {w.id}]
    /\ Goto(n, s, [at |-> "flood", wires |-> <<w>>, next |-> "deliver"])
    /\ UNCHANGED <<sent, calm, alive, node_n, received, isisVars, allproposed, balance>>

\* The broadcast in which the handlers of all three kinds may end up.
Flood(n, s) ==
    /\ n \in alive /\ thread[n][s].at = "flood"
    /\ LET t == thread[n][s]
       IN  /\ Broadcast(n, t.wires)
           /\ Goto(n, s, IF t.next = "recv"
                         THEN Receiving
                         ELSE [at |-> t.next, wire |-> t.wires[1]])
    /\ UNCHANGED <<sent, calm, alive, node_n, marks, isisVars, allproposed, balance>>

\* proposeSeq
Propose(n, s) ==
    /\ n \in alive /\ thread[n][s].at = "propose"
    /\ LET m == thread[n][s].wire.id
           p == Above(Max({proSeq[n], agrSeq[n]}), n)
       IN  /\ proSeq' = [proSeq EXCEPT ![n] = p]
           /\ queue' = [queue EXCEPT ![n] = @ \cup {Entry(m, p, FALSE)}]
           /\ Goto(n, s, [at |-> "reply", wire |-> Proposal(m, p)])
    /\ UNCHANGED <<sent, calm, link, alive, node_n, marks, agrSeq, delivered,
                   allproposed, balance>>

\* The proposal goes to the node that the message came from.
Reply(n, s) ==
    /\ n \in alive /\ thread[n][s].at = "reply"
    /\ LET w == thread[n][s].wire IN Unicast(n, Origin[w.id], w)
    /\ Goto(n, s, Receiving)
    /\ UNCHANGED <<sent, calm, alive, node_n, marks, isisVars, allproposed, balance>>

\* deliverMsg
Deliver(n, s) ==
    /\ n \in alive /\ thread[n][s].at = "deliver"
    /\ LET w == thread[n][s].wire
           q == Replaced(queue[n], w.id, w.priority)
       IN  \E popped \in SetToSeqs(Popped(q)) :
              LET ids == [k \in DOMAIN popped |-> popped[k].id]
              IN  /\ \A j, k \in DOMAIN popped :
                        j < k => popped[j].priority <= popped[k].priority
                  /\ queue' = [queue EXCEPT ![n] = q \ Popped(q)]
                  /\ delivered' = [delivered EXCEPT ![n] = @ \o ids]
                  /\ Goto(n, s, IF ids = <<>> THEN Receiving
                                ELSE [at |-> "update", ids |-> ids])
    /\ UNCHANGED <<sent, calm, link, alive, node_n, marks, proSeq, agrSeq,
                   allproposed, balance>>

\* One delivered transaction is applied to the accounts.
UpdateBalance(n, s) ==
    /\ n \in alive /\ thread[n][s].at = "update"
    /\ LET ids == thread[n][s].ids
       IN  /\ balance' = [balance EXCEPT ![n] = Apply(@, Operation[Head(ids)])]
           /\ Goto(n, s, IF Len(ids) = 1 THEN Receiving
                         ELSE [at |-> "update", ids |-> Tail(ids)])
    /\ UNCHANGED <<sent, calm, link, alive, node_n, marks, isisVars, allproposed>>

-----------------------------------------------------------------------------
\* Node n dies.  Of what it sent on each connection a first part arrives.
Die(n) ==
    /\ n \in Mortal \cap alive
    /\ Events < MaxEvents
    /\ alive' = alive \ {n}
    /\ \E keep \in [Node \ {n} -> 0..Max({Len(link[n][d]) : d \in Node})] :
          /\ \A d \in Node \ {n} : keep[d] <= Len(link[n][d])
          /\ link' = [s \in Node |-> [d \in Node |->
                        CASE d = n -> <<>>
                          [] s = n /\ d # n -> SubSeq(link[n][d], 1, keep[d])
                          [] OTHER -> link[s][d]]]
    /\ UNCHANGED <<sent, calm, thread, node_n, marks, isisVars, allproposed, balance>>

\* A thread finds its connection at an end.
Notice(n, s) ==
    /\ n \in alive /\ s \notin alive
    /\ thread[n][s] = Receiving /\ link[s][n] = <<>>
    /\ node_n' = [node_n EXCEPT ![n] = @ - 1]
    /\ Goto(n, s, [at |-> "delete"])
    /\ UNCHANGED <<sent, calm, link, alive, marks, isisVars, allproposed, balance>>

\* delete_node.  It takes entries out of the list that it goes through, so
\* that it may pass over some, depending on how they lie in the heap.
DeleteNode(n, s) ==
    /\ n \in alive /\ thread[n][s].at = "delete"
    /\ LET open == {e \in queue[n] : Origin[e.id] = s /\ ~e.deliverable}
       IN  \E gone \in SUBSET open :
              /\ open # {} => gone # {}
              /\ queue' = [queue EXCEPT ![n] = @ \ gone]
    /\ Goto(n, s, [at |-> "recount"])
    /\ UNCHANGED <<sent, calm, link, alive, node_n, marks, proSeq, agrSeq,
                   delivered, allproposed, balance>>

\* Then the proposals are counted again.  The loop that is to take out those
\* of the dead node looks at the origin of the message, which is n itself, and
\* takes out none; but it leaves its variable msg at the last message of all,
\* and it is this one that every priority found is announced for.  Which of
\* them comes last in the dictionary is not modelled, nor is the order in
\* which the priorities are announced.
Recount(n, s) ==
    /\ n \in alive /\ thread[n][s].at = "recount"
    /\ Goto(n, s, Ended)
    /\ LET open == {m \in Message : allproposed[n][m] # {}}
           full == {m \in open : All(n, allproposed[n][m])}
           highest == {Max(allproposed[n][m]) : m \in full}
       IN  /\ agrSeq' = [agrSeq EXCEPT ![n] = Max({@} \cup highest)]
           /\ allproposed' = [allproposed EXCEPT ![n] =
                                 [m \in Message |-> IF m \in full THEN {} ELSE @[m]]]
           /\ IF full = {}
              THEN UNCHANGED link
              ELSE \E msg \in open, order \in SetToSeqs(highest) :
                      Broadcast(n, [k \in DOMAIN order |-> Agreement(msg, order[k])])
    /\ UNCHANGED <<sent, calm, alive, node_n, marks, proSeq, queue, delivered, balance>>

-----------------------------------------------------------------------------
Listen(n, s) ==
    \/ \E w \in ToSet(link[s][n]) :
          TakeMessage(n, s, w) \/ TakeProposal(n, s, w) \/ TakeAgreement(n, s, w)
    \/ Flood(n, s)
    \/ Propose(n, s)
    \/ Reply(n, s)
    \/ Deliver(n, s)
    \/ UpdateBalance(n, s)
    \/ Notice(n, s)
    \/ DeleteNode(n, s)
    \/ Recount(n, s)

Next ==
    \/ \E m \in Message : Send(m)
    \/ \E n, s \in Node : Listen(n, s)
    \/ \E n \in Node : Die(n)

\* As long as some thread can go on, one does.  Their work comes to an end
\* unless more is typed in, so that each gets its turn.
Fairness == WF_vars(\E n, s \in Node : Listen(n, s))

Spec == Init /\ [][Next]_vars /\ Fairness
-----------------------------------------------------------------------------
(***************************************************************************)
(* Properties                                                              *)
(***************************************************************************)
Place ==
    {Receiving, Ended} \cup [at : {"delete", "recount"}]
        \cup [at : {"propose", "reply", "deliver"}, wire : Wire]
        \cup [at : {"flood"}, wires : Seq(Wire), next : {"recv", "propose", "deliver"}]
        \cup [at : {"update"}, ids : Seq(Message)]

\* The fields of a node hold what their declarations say, and no account is
\* ever overdrawn.
TypeOK ==
    /\ sent \subseteq Message /\ calm \subseteq sent /\ alive \subseteq Node
    /\ link \in [Node -> [Node -> Seq(Wire)]]
    /\ thread \in [Node -> [Node -> Place]]
    /\ node_n \in [Node -> 1..Cardinality(Node)]
    /\ {received, agreed} \subseteq [Node -> SUBSET sent]
    /\ {proSeq, agrSeq} \subseteq [Node -> Priority]
    /\ \A n \in Node : queue[n] \subseteq
           [id : sent, priority : Priority, deliverable : BOOLEAN]
    /\ allproposed \in [Node -> [Message -> SUBSET Priority]]
    /\ delivered \in [Node -> Seq(sent)]
    /\ balance \in [Node -> [Account -> Nat]]

Order == INSTANCE AgreedOrder
             WITH Member <- Node, Item <- Message, Batch <- Cardinality(Message)

\* The nodes hand over the messages in one order.
OneOrder == Order!Spec

Delivered(n, m) == m \in ToSet(delivered[n])

\* As long as nobody has died, an agreement under way finds the message at
\* every node, handed over or in its heap, and there with no higher priority
\* and no other one agreed: none overtakes a proposal, though a node marks a
\* message some time before it proposes.
AgreedByAll ==
    alive = Node =>
        \A s, n, k \in Node : \A w \in ToSet(link[s][n]) :
            w.type = "AGREE" =>
                \/ Delivered(k, w.id)
                \/ \E e \in queue[k] :
                      /\ e.id = w.id /\ e.priority <= w.priority
                      /\ e.deliverable => e.priority = w.priority

\* What the threads of n have been handed and have yet to apply.
Waiting(n) ==
    UNION {ToSet(thread[n][s].ids) : s \in {k \in Node : thread[n][k].at = "update"}}

Amount == [m \in Message |-> Operation[m].amount]

\* updateBalance neither loses nor makes money, whichever threads apply what was
\* handed over and in whatever order they get to it.
MoneyKept ==
    \A n \in Node :
        LET deposits == {m \in ToSet(delivered[n]) \ Waiting(n) :
                            Operation[m].type = "DEPOSIT"}
        IN  MapThenSumSet(LAMBDA a : balance[n][a], Account)
                = MapThenSumSet(LAMBDA m : Amount[m], deposits)

\* What is sent is handed over by every node that lives, unless a death gets
\* in its way: one that found something under way, or was still to be noticed,
\* when the message was sent.  Nodes go on without one that died in a calm.
AllDelivered ==
    \A m \in Message :
        m \in sent ~> \/ alive # Node /\ m \notin calm
                     \/ \A n \in alive : Delivered(n, m)
=============================================================================
