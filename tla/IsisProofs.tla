----------------------------- MODULE IsisProofs -----------------------------
(***************************************************************************)
(* What is proved about module Isis, for every set of nodes, of messages   *)
(* and of accounts and however many messages are under way at once: its    *)
(* fields hold what they should, as long as nobody has died an agreement   *)
(* finds its message at every node, and no money is lost or made, whoever  *)
(* dies.  And with one message at a time and no death, that the nodes hand *)
(* over the messages in one order, which they do not with more.            *)
(***************************************************************************)
EXTENDS Isis, CountProofs, SequenceTheorems

(***************************************************************************)
(* The invariants.                                                         *)
(***************************************************************************)
\* Messages that nobody has sent are nowhere: S is the set of those sent.
WireOf(S) == {w \in Wire : w.id \in S}
EntryOf(S) == [id : S, priority : Nat, deliverable : BOOLEAN]

\* A thread carries what its place asks for.
OfType(S, type) == {w \in WireOf(S) : w.type = type}
PlaceOf(S) ==
    {Receiving, Ended} \cup [at : {"delete", "recount"}]
        \cup {[at |-> "flood", wires |-> <<w>>, next |-> "propose"] :
                 w \in OfType(S, "MESSAGE")}
        \cup {[at |-> "flood", wires |-> <<w>>, next |-> next] :
                 w \in OfType(S, "AGREE"), next \in {"recv", "deliver"}}
        \cup [at : {"propose"}, wire : OfType(S, "MESSAGE")]
        \cup [at : {"reply"}, wire : OfType(S, "PROPOSE")]
        \cup [at : {"deliver"}, wire : OfType(S, "AGREE")]
        \cup [at : {"update"}, ids : Seq(S) \ {<<>>}]

SentOK ==
    /\ sent \subseteq Message /\ IsFiniteSet(sent)
    /\ calm \subseteq sent /\ alive \subseteq Node
LinkOK == link \in [Node -> [Node -> Seq(WireOf(sent))]]
ThreadOK == thread \in [Node -> [Node -> PlaceOf(sent)]]
MarksOK == received \in [Node -> SUBSET sent] /\ agreed \in [Node -> SUBSET sent]
SeqsOK == proSeq \in [Node -> Nat] /\ agrSeq \in [Node -> Nat]
QueueOK ==
    /\ queue \in [Node -> SUBSET EntryOf(sent)]
    /\ \A n \in Node : IsFiniteSet(queue[n])
ProposedOK ==
    /\ allproposed \in [Node -> [Message -> SUBSET Nat]]
    /\ \A n \in Node, m \in Message :
          /\ IsFiniteSet(allproposed[n][m])
          /\ allproposed[n][m] # {} => m \in sent
DeliveredOK == delivered \in [Node -> Seq(sent)]
BalanceOK == balance \in [Node -> [Account -> Nat]]

\* The threads of n that have found their connection at an end.
AtAnEnd == {"delete", "recount", "ended"}
Gone(n) == {s \in Node : thread[n][s].at \in AtAnEnd}

\* n counts out the nodes whose end one of its threads has noticed, each of
\* them once.
CountOK ==
    /\ node_n \in [Node -> Int]
    /\ \A n \in Node :
          /\ Gone(n) \subseteq (Node \ alive) \ {n}
          /\ node_n[n] = Cardinality(Node) - Cardinality(Gone(n))

\* The inductive strengthening of TypeOK.
TypeInv ==
    /\ SentOK /\ LinkOK /\ ThreadOK /\ MarksOK /\ SeqsOK /\ QueueOK
    /\ ProposedOK /\ DeliveredOK /\ BalanceOK /\ CountOK

\* A wire is under way on a link or with a thread that has it to send, to
\* answer or to deliver.
Carries(t, w) ==
    \/ t.at = "flood" /\ t.wires = <<w>>
    \/ t.at \in {"propose", "reply", "deliver"} /\ t.wire = w
UnderWay(w) ==
    \/ \E s, n \in Node : w \in ToSet(link[s][n])
    \/ \E n, s \in Node : Carries(thread[n][s], w)

\* p has been proposed for m and nothing has been decided from it yet.
Proposed(m, p) ==
    \/ UnderWay(Proposal(m, p))
    \/ \E n \in Node : p \in allproposed[n][m]

\* a has been decided for m, and some node has still to hand m over.
AgreedOn(m, a) ==
    \/ UnderWay(Agreement(m, a))
    \/ \E n \in Node : Entry(m, a, TRUE) \in queue[n]

\* A thread has marked m as received and has to propose for it.
AsksFor(t, m) ==
    \/ t.at = "propose" /\ t.wire.id = m
    \/ t.at = "flood" /\ t.next = "propose" /\ t.wires[1].id = m
AboutTo(n, s, m) == AsksFor(thread[n][s], m)
\* n has not proposed for m.
Pending(n, m) == m \notin received[n] \/ \E s \in Node : AboutTo(n, s, m)

\* A node takes a message once, whichever of its threads gets to read it.
ReceivedOnce ==
    /\ \A n, s \in Node, m \in Message :
          AboutTo(n, s, m) =>
              m \in received[n] /\ \A r \in Node : AboutTo(n, r, m) => r = s
    /\ \A s, n \in Node : \A w \in ToSet(link[s][n]) :
          w.type = "MESSAGE" => w.id \notin received[n]

\* The strengthening of AgreedByAll, as long as nobody has died.  A node that
\* has not proposed for m knows nothing of it and nobody has its proposal; ...
PendingUnknown ==
    \A n \in Node, m \in Message :
        Pending(n, m) =>
            /\ ~Delivered(n, m) /\ \A e \in queue[n] : e.id # m
            /\ \A p \in Nat : Proposed(m, p) => p % 10 # n
\* ... each node proposes one priority, its own, ...
OneProposal ==
    \A m \in Message, p, q \in Nat :
        Proposed(m, p) /\ Proposed(m, q) =>
            p % 10 \in Node /\ (p % 10 = q % 10 => p = q)
\* ... which it keeps in its heap until m is agreed; ...
ProposedHere ==
    \A m \in Message, p \in Nat :
        Proposed(m, p) =>
            \/ Delivered(p % 10, m)
            \/ \E e \in queue[p % 10] : e.id = m /\ (e.deliverable \/ e.priority = p)
\* ... what is agreed is the highest proposal and the only one agreed, ...
AgreedHighest ==
    \A m \in Message, a \in Nat :
        AgreedOn(m, a) =>
            /\ a % 10 \in Node
            /\ \A p \in Nat : Proposed(m, p) => p <= a /\ (p % 10 = a % 10 => p = a)
OneAgreement ==
    \A m \in Message, a, b \in Nat : AgreedOn(m, a) /\ AgreedOn(m, b) => a = b
\* ... and finds m at every node.
Finds(k, m, a) ==
    \/ Delivered(k, m)
    \/ \E e \in queue[k] :
          /\ e.id = m /\ e.priority <= a
          /\ e.deliverable => e.priority = a
AgreedFinds ==
    \A m \in Message, a \in Nat, k \in Node : AgreedOn(m, a) => Finds(k, m, a)

AgreementInv ==
    /\ PendingUnknown /\ OneProposal /\ ProposedHere
    /\ AgreedHighest /\ OneAgreement /\ AgreedFinds

(***************************************************************************)
(* To the agreements, a step of the nodes that live is one of four.        *)
(***************************************************************************)
NoMorePending == \A n \in Node, m \in Message : Pending(n, m)' => Pending(n, m)
NoMoreProposed == \A m \in Message, p \in Nat : Proposed(m, p)' => Proposed(m, p)
NoMoreAgreed == \A m \in Message, a \in Nat : AgreedOn(m, a)' => AgreedOn(m, a)

StandsStill ==
    /\ NoMorePending /\ NoMoreProposed /\ NoMoreAgreed
    /\ UNCHANGED <<queue, delivered>>

Proposes(n, m, p) ==
    /\ p % 10 = n /\ Pending(n, m) /\ ~Pending(n, m)'
    /\ NoMorePending /\ NoMoreAgreed
    /\ \A k \in Message, q \in Nat :
          Proposed(k, q)' => Proposed(k, q) \/ (k = m /\ q = p)
    /\ queue' = [queue EXCEPT ![n] = @ \cup {Entry(m, p, FALSE)}]
    /\ UNCHANGED delivered

Decides(m, P) ==
    /\ Cardinality(P) = Cardinality(Node) /\ \A p \in P : Proposed(m, p)
    /\ NoMorePending /\ NoMoreProposed
    /\ \A k \in Message, b \in Nat :
          AgreedOn(k, b)' => AgreedOn(k, b) \/ (k = m /\ b = Max(P))
    /\ UNCHANGED <<queue, delivered>>

HandsOver(n, m, a) ==
    /\ AgreedOn(m, a)
    /\ NoMorePending /\ NoMoreProposed /\ NoMoreAgreed
    /\ LET q == Replaced(queue[n], m, a)
       IN  /\ queue' = [queue EXCEPT ![n] = q \ Popped(q)]
           /\ \A k \in Node, h \in Message :
                 Delivered(k, h)' <=>
                     Delivered(k, h) \/ (k = n /\ \E e \in Popped(q) : e.id = h)

-----------------------------------------------------------------------------
(***************************************************************************)
(* Numbers, finite sets and sequences.                                     *)
(***************************************************************************)
LEMMA NodeFinite == IsFiniteSet(Node) /\ Cardinality(Node) \in Nat /\ Node \subseteq Nat
<1>1. IsFiniteSet(0..9)
  <2>1. 0 \in Int /\ 9 \in Int
    OBVIOUS
  <2> QED BY <2>1, FS_Interval, Zenon
<1>2. IsFiniteSet(Node)
  BY <1>1, NodeAssumption, FS_Subset
<1> QED BY <1>2, NodeAssumption, FS_CardinalityType

\* Without takes out the members of X and adds nothing.
LEMMA WithoutProps ==
    ASSUME NEW S, NEW s \in Seq(S), NEW X
    PROVE  /\ Without(s, X) \in Seq(S)
           /\ ToSet(Without(s, X)) \subseteq ToSet(s) \ X
<1> DEFINE kept == {k \in DOMAIN s : s[k] \notin X}
           nth(j) == CHOOSE k \in kept : Cardinality({i \in kept : i <= k}) = j
           r == [j \in 1..Cardinality(kept) |-> s[nth(j)]]
<1>1. kept \in SUBSET (1..Len(s)) /\ Len(s) \in Nat
  OBVIOUS
<1>2. Cardinality(kept) \in Nat
  <2>1. IsFiniteSet(1..Len(s))
    BY <1>1, FS_Interval
  <2> HIDE DEF kept
  <2> QED BY <1>1, <2>1, FS_Subset, FS_CardinalityType
<1>3. \A j \in 1..Cardinality(kept) : nth(j) \in kept
  <2> HIDE DEF kept
  <2> QED BY <1>1, NthMember
<1>4. \A j \in 1..Cardinality(kept) : s[nth(j)] \in S /\ s[nth(j)] \in ToSet(s) \ X
  <2> HIDE DEF nth
  <2> QED BY <1>3 DEF ToSet
<1>5. Without(s, X) = r
  BY DEF Without
<1>6. DOMAIN r = 1..Cardinality(kept) /\ \A j \in 1..Cardinality(kept) : r[j] = s[nth(j)]
  <2> HIDE DEF kept, nth
  <2> QED OBVIOUS
<1>7. r \in Seq(S)
  <2> HIDE DEF kept, nth
  <2> QED BY <1>2, <1>4
<1>8. ToSet(r) \subseteq ToSet(s) \ X
  <2> HIDE DEF kept, nth, r
  <2> QED BY <1>4, <1>6 DEF ToSet
<1> QED BY <1>5, <1>7, <1>8

\* Max of a finite set of numbers.
LEMMA MaxOfFinite ==
    ASSUME NEW T \in SUBSET Nat, IsFiniteSet(T), T # {}
    PROVE  Max(T) \in T /\ \A y \in T : y <= Max(T)
<1> DEFINE above(x) == {y \in T : y > x}
           C == {Cardinality(above(x)) : x \in T}
<1>1. \A x \in T : IsFiniteSet(above(x)) /\ Cardinality(above(x)) \in Nat
  <2>1. \A x \in T : above(x) \in SUBSET T
    OBVIOUS
  <2> HIDE DEF above
  <2> QED BY <2>1, FS_Subset, FS_CardinalityType
<1>2. PICK c \in C : \A d \in C : c <= d
  <2>1. C \in SUBSET Nat /\ C # {}
    <3> HIDE DEF above
    <3> QED BY <1>1
  <2> HIDE DEF C
  <2> QED BY <2>1, LeastNat
<1>3. PICK x \in T : c = Cardinality(above(x))
  OBVIOUS
<1>4. ASSUME NEW y \in T, ~(y <= x)
      PROVE  FALSE
  <2>1. y \in above(x) /\ y \notin above(y)
    BY <1>4
  <2>2. above(y) \in SUBSET (above(x) \ {y})
    <3>1. \A z \in T : z > y => z > x /\ z # y
      BY <1>4
    <3> QED BY <3>1
  <2>3. Cardinality(above(y)) >= Cardinality(above(x))
    <3> HIDE DEF above
    <3> QED BY <1>2, <1>3
  <2> HIDE DEF above
  <2>4. /\ IsFiniteSet(above(x) \ {y})
        /\ Cardinality(above(x) \ {y}) = Cardinality(above(x)) - 1
    BY <1>1, <2>1, FS_RemoveElement
  <2>5. Cardinality(above(y)) <= Cardinality(above(x)) - 1
    BY <2>2, <2>4, FS_Subset
  <2> QED BY <1>1, <2>3, <2>5
<1>5. \E z \in T : \A y \in T : z >= y
  <2>1. \A y \in T : x >= y
    BY <1>4
  <2> QED BY <2>1
<1> QED BY <1>5 DEF Max

\* The orders of a finite set are sequences of its members, of them all and of
\* each once.
LEMMA OrderProps ==
    ASSUME NEW S, IsFiniteSet(S), NEW f \in SetToSeqs(S)
    PROVE  /\ f \in Seq(S)
           /\ DOMAIN f = 1..Len(f)
           /\ ToSet(f) = S
           /\ \A j, k \in DOMAIN f : f[j] = f[k] => j = k
<1>1. Cardinality(S) \in Nat /\ IsFiniteSet(1..Cardinality(S))
         /\ Cardinality(1..Cardinality(S)) = Cardinality(S)
  <2>1. Cardinality(S) \in Nat
    BY FS_CardinalityType
  <2>2. 1 \in Int /\ Cardinality(S) \in Int
    BY <2>1
  <2>3. /\ IsFiniteSet(1..Cardinality(S))
        /\ Cardinality(1..Cardinality(S)) =
              IF 1 > Cardinality(S) THEN 0 ELSE Cardinality(S) - 1 + 1
    BY <2>2, FS_Interval, Zenon
  <2> QED BY <2>1, <2>3
<1> DEFINE D == 1..Cardinality(S)
<1>2. f \in [D -> S] /\ \A i, j \in D : f[i] = f[j] => i = j
  BY DEF SetToSeqs
<1>3. f \in Injection(D, S)
  BY <1>2, Zenon DEF Injection, IsInjective
<1>4. f \in Surjection(D, S)
  <2> HIDE DEF D
  <2> QED BY <1>1, <1>3, FS_Injection DEF D
<1>5. f \in Seq(S) /\ Len(f) = Cardinality(S)
  BY <1>1, <1>2
<1>6. ToSet(f) = S
  BY <1>2, <1>4 DEF Surjection, ToSet
<1> QED BY <1>2, <1>5, <1>6

\* The node that proposed a priority.
LEMMA AboveProps ==
    ASSUME NEW p \in Nat, NEW n \in Node
    PROVE  Above(p, n) \in Nat /\ Above(p, n) % 10 = n /\ Above(p, n) > p
<1>1. n \in 0..9
  BY NodeAssumption
<1>2. p \div 10 \in Nat /\ p = 10 * (p \div 10) + (p % 10) /\ p % 10 \in 0..9
  OBVIOUS
<1>3. PICK d \in Nat : d = p \div 10
  BY <1>2
<1>4. (10 * d + 10 + n) % 10 = n
  BY <1>1, <1>3
<1> QED BY <1>1, <1>2, <1>3, <1>4 DEF Above

\* As many proposals as there are nodes, each of another node, are one of
\* every node.
LEMMA EveryNodeProposed ==
    ASSUME NEW P \in SUBSET Nat, IsFiniteSet(P),
           Cardinality(P) = Cardinality(Node),
           \A p \in P : p % 10 \in Node,
           \A p, q \in P : p % 10 = q % 10 => p = q,
           NEW k \in Node
    PROVE  \E p \in P : p % 10 = k
<1> DEFINE f == [p \in P |-> p % 10]
<1>1. f \in [P -> Node] /\ \A p, q \in DOMAIN f : f[p] = f[q] => p = q
  OBVIOUS
<1>2. f \in Injection(P, Node)
  <2> HIDE DEF f
  <2> QED BY <1>1, Zenon DEF Injection, IsInjective
<1>3. f \in Surjection(P, Node)
  <2> HIDE DEF f
  <2> QED BY <1>2, NodeFinite, FS_Injection
<1>4. PICK p \in P : f[p] = k
  <2> HIDE DEF f
  <2> QED BY <1>3 DEF Surjection
<1> QED BY <1>4

LEMMA ToSetOfConcat ==
    ASSUME NEW S, NEW a \in Seq(S), NEW b \in Seq(S)
    PROVE  a \o b \in Seq(S) /\ ToSet(a \o b) = ToSet(a) \cup ToSet(b)
<1>1. /\ a \o b \in Seq(S) /\ DOMAIN (a \o b) = 1..(Len(a) + Len(b))
      /\ DOMAIN a = 1..Len(a) /\ DOMAIN b = 1..Len(b)
      /\ Len(a) \in Nat /\ Len(b) \in Nat
  OBVIOUS
<1>2. ASSUME NEW k \in 1..(Len(a) + Len(b))
      PROVE  \/ \E j \in 1..Len(a) : (a \o b)[k] = a[j]
             \/ \E j \in 1..Len(b) : (a \o b)[k] = b[j]
  <2>1. CASE k <= Len(a)
    <3>1. k \in 1..Len(a) /\ (a \o b)[k] = a[k]
      BY <1>1, <2>1
    <3> QED BY <3>1
  <2>2. CASE ~(k <= Len(a))
    <3>1. k - Len(a) \in 1..Len(b) /\ (a \o b)[k] = b[k - Len(a)]
      BY <1>1, <2>2
    <3> QED BY <3>1
  <2> QED BY <2>1, <2>2
<1>3. ASSUME NEW j \in 1..Len(a)
      PROVE  \E k \in 1..(Len(a) + Len(b)) : (a \o b)[k] = a[j]
  <2>1. j \in 1..(Len(a) + Len(b)) /\ (a \o b)[j] = a[j]
    BY <1>1
  <2> QED BY <2>1
<1>4. ASSUME NEW j \in 1..Len(b)
      PROVE  \E k \in 1..(Len(a) + Len(b)) : (a \o b)[k] = b[j]
  <2>1. /\ j + Len(a) \in 1..(Len(a) + Len(b)) /\ ~(j + Len(a) <= Len(a))
        /\ (j + Len(a)) - Len(a) = j
    BY <1>1
  <2>2. (a \o b)[j + Len(a)] = b[j]
    BY <1>1, <2>1
  <2> QED BY <2>1, <2>2
<1>5. ToSet(a \o b) \subseteq ToSet(a) \cup ToSet(b)
  <2> SUFFICES ASSUME NEW w \in ToSet(a \o b)
               PROVE  w \in ToSet(a) \cup ToSet(b)
    OBVIOUS
  <2>1. PICK k \in 1..(Len(a) + Len(b)) : w = (a \o b)[k]
    BY <1>1 DEF ToSet
  <2> QED BY <1>1, <1>2, <2>1 DEF ToSet
<1>6. ToSet(a) \subseteq ToSet(a \o b)
  <2> SUFFICES ASSUME NEW w \in ToSet(a) PROVE w \in ToSet(a \o b)
    OBVIOUS
  <2>1. PICK j \in 1..Len(a) : w = a[j]
    BY <1>1 DEF ToSet
  <2> QED BY <1>1, <1>3, <2>1 DEF ToSet
<1>7. ToSet(b) \subseteq ToSet(a \o b)
  <2> SUFFICES ASSUME NEW w \in ToSet(b) PROVE w \in ToSet(a \o b)
    OBVIOUS
  <2>1. PICK j \in 1..Len(b) : w = b[j]
    BY <1>1 DEF ToSet
  <2> QED BY <1>1, <1>4, <2>1 DEF ToSet
<1> QED BY <1>1, <1>5, <1>6, <1>7

\* What the three ways to use a link leave in it.
LEMMA BroadcastProps ==
    ASSUME NEW S, link \in [Node -> [Node -> Seq(S)]],
           NEW n \in Node, NEW ws \in Seq(S), Broadcast(n, ws)
    PROVE  /\ link' \in [Node -> [Node -> Seq(S)]]
           /\ \A s, d \in Node : \A w \in ToSet(link'[s][d]) :
                 \/ w \in ToSet(link[s][d])
                 \/ s = n /\ w \in ToSet(ws) /\ ~Marked(d, w)
<1> DEFINE fresh(d) == Without(ws, {w \in ToSet(ws) : Marked(d, w)})
           new(d) == IF d \in alive THEN link[n][d] \o fresh(d) ELSE link[n][d]
<1>1. link' = [link EXCEPT ![n] = [d \in Node |-> new(d)]]
  BY DEF Broadcast
<1>2. \A d \in Node : /\ fresh(d) \in Seq(S)
                      /\ \A w \in ToSet(fresh(d)) : w \in ToSet(ws) /\ ~Marked(d, w)
  <2> TAKE d \in Node
  <2> DEFINE X == {w \in ToSet(ws) : Marked(d, w)}
  <2>1. \A w \in ToSet(ws) \ X : w \in ToSet(ws) /\ ~Marked(d, w)
    OBVIOUS
  <2> HIDE DEF X
  <2>2. Without(ws, X) \in Seq(S) /\ ToSet(Without(ws, X)) \subseteq ToSet(ws) \ X
    BY WithoutProps
  <2> QED BY <2>1, <2>2 DEF X
<1> HIDE DEF fresh
<1>3. \A d \in Node : /\ new(d) \in Seq(S)
                      /\ \A w \in ToSet(new(d)) : \/ w \in ToSet(link[n][d])
                                                  \/ w \in ToSet(ws) /\ ~Marked(d, w)
  <2> TAKE d \in Node
  <2>1. link[n][d] \in Seq(S)
    OBVIOUS
  <2>2. /\ link[n][d] \o fresh(d) \in Seq(S)
        /\ ToSet(link[n][d] \o fresh(d)) \subseteq ToSet(link[n][d]) \cup ToSet(fresh(d))
    BY <1>2, <2>1, ToSetOfConcat
  <2> QED BY <1>2, <2>1, <2>2
<1> HIDE DEF new
<1>4. \A s, d \in Node : link'[s][d] = IF s = n THEN new(d) ELSE link[s][d]
  BY <1>1
<1>5. link' \in [Node -> [Node -> Seq(S)]]
  BY <1>1, <1>3
<1> QED BY <1>3, <1>4, <1>5

LEMMA UnicastProps ==
    ASSUME NEW S, link \in [Node -> [Node -> Seq(S)]],
           NEW n \in Node, NEW c \in Node, NEW v \in S, Unicast(n, c, v)
    PROVE  /\ link' \in [Node -> [Node -> Seq(S)]]
           /\ \A s, d \in Node : \A w \in ToSet(link'[s][d]) :
                 \/ w \in ToSet(link[s][d])
                 \/ s = n /\ d = c /\ w = v
<1> DEFINE new == IF c \in alive THEN Append(link[n][c], v) ELSE link[n][c]
<1>1. link' = [link EXCEPT ![n][c] = new]
  BY DEF Unicast
<1>2. link[n][c] \in Seq(S) /\ <<v>> \in Seq(S) /\ ToSet(<<v>>) = {v}
  BY DEF ToSet
<1>3. new = IF c \in alive THEN link[n][c] \o <<v>> ELSE link[n][c]
  <2>1. Append(link[n][c], v) = link[n][c] \o <<v>>
    BY <1>2, AppendIsConcat
  <2> QED BY <2>1
<1>4. new \in Seq(S) /\ \A w \in ToSet(new) : w \in ToSet(link[n][c]) \/ w = v
  <2>1. /\ link[n][c] \o <<v>> \in Seq(S)
        /\ ToSet(link[n][c] \o <<v>>) = ToSet(link[n][c]) \cup ToSet(<<v>>)
    <3>1. PICK l \in Seq(S), e \in Seq(S) : l = link[n][c] /\ e = <<v>>
      BY <1>2
    <3>2. l \o e \in Seq(S) /\ ToSet(l \o e) = ToSet(l) \cup ToSet(e)
      BY ToSetOfConcat
    <3> QED BY <3>1, <3>2
  <2> HIDE DEF new
  <2> QED BY <1>2, <1>3, <2>1
<1> HIDE DEF new
<1>5. \A s, d \in Node : link'[s][d] = IF s = n /\ d = c THEN new ELSE link[s][d]
  BY <1>1
<1>6. link' \in [Node -> [Node -> Seq(S)]]
  BY <1>1, <1>4
<1> QED BY <1>4, <1>5, <1>6

LEMMA ReadsProps ==
    ASSUME NEW S, link \in [Node -> [Node -> Seq(S)]],
           NEW n \in Node, NEW s \in Node, NEW w, Reads(n, s, w)
    PROVE  /\ link' \in [Node -> [Node -> Seq(S)]]
           /\ w \in S /\ w \in ToSet(link[s][n])
           /\ \A k, d \in Node : \A v \in ToSet(link'[k][d]) :
                 v \in ToSet(link[k][d]) /\ (d = n => ~Alike(v, w))
<1> DEFINE new(k) == Without(link[k][n], {v \in ToSet(link[k][n]) : Alike(v, w)})
<1>1. link' = [k \in Node |-> [link[k] EXCEPT ![n] = new(k)]]
  BY DEF Reads
<1>2. \A k \in Node : /\ new(k) \in Seq(S)
                      /\ \A v \in ToSet(new(k)) : v \in ToSet(link[k][n]) /\ ~Alike(v, w)
  <2> TAKE k \in Node
  <2> DEFINE X == {v \in ToSet(link[k][n]) : Alike(v, w)}
  <2>1. \A v \in ToSet(link[k][n]) \ X : v \in ToSet(link[k][n]) /\ ~Alike(v, w)
    OBVIOUS
  <2>2. link[k][n] \in Seq(S)
    OBVIOUS
  <2> HIDE DEF X
  <2>3. /\ Without(link[k][n], X) \in Seq(S)
        /\ ToSet(Without(link[k][n], X)) \subseteq ToSet(link[k][n]) \ X
    BY <2>2, WithoutProps
  <2> QED BY <2>1, <2>3 DEF X
<1> HIDE DEF new
<1>3. \A k, d \in Node : link'[k][d] = IF d = n THEN new(k) ELSE link[k][d]
  BY <1>1
<1>4. link' \in [Node -> [Node -> Seq(S)]]
  BY <1>1, <1>2
<1>5. w \in S /\ w \in ToSet(link[s][n])
  <2>1. link[s][n] \in Seq(S) /\ link[s][n] # <<>> /\ w = link[s][n][1]
    BY DEF Reads
  <2>2. 1 \in DOMAIN link[s][n] /\ w \in S
    BY <2>1
  <2> QED BY <2>1, <2>2 DEF ToSet
<1> QED BY <1>2, <1>3, <1>4, <1>5

-----------------------------------------------------------------------------
(***************************************************************************)
(* The fields.                                                             *)
(***************************************************************************)
\* What a place says of its thread.
LEMMA PlaceCases ==
    ASSUME NEW S, NEW t \in PlaceOf(S)
    PROVE  /\ t.at = "flood" =>
                 \E w \in WireOf(S) :
                    /\ t.wires = <<w>>
                    /\ \/ w.type = "MESSAGE" /\ t.next = "propose"
                       \/ w.type = "AGREE" /\ t.next \in {"recv", "deliver"}
           /\ t.at = "propose" => t.wire \in OfType(S, "MESSAGE")
           /\ t.at = "reply" => t.wire \in OfType(S, "PROPOSE")
           /\ t.at = "deliver" => t.wire \in OfType(S, "AGREE")
           /\ t.at = "update" => t.ids \in Seq(S) \ {<<>>}
<1>1. CASE t \in {Receiving, Ended} \cup [at : {"delete", "recount"}]
  BY <1>1 DEF Receiving, Ended
<1>2. CASE t \in {[at |-> "flood", wires |-> <<w>>, next |-> "propose"] :
                     w \in OfType(S, "MESSAGE")}
  <2>1. PICK w \in OfType(S, "MESSAGE") :
               t = [at |-> "flood", wires |-> <<w>>, next |-> "propose"]
    BY <1>2
  <2>2. w \in WireOf(S) /\ w.type = "MESSAGE"
    BY DEF OfType
  <2> QED BY <2>1, <2>2
<1>3. CASE t \in {[at |-> "flood", wires |-> <<w>>, next |-> next] :
                     w \in OfType(S, "AGREE"), next \in {"recv", "deliver"}}
  <2>1. PICK w \in OfType(S, "AGREE"), next \in {"recv", "deliver"} :
               t = [at |-> "flood", wires |-> <<w>>, next |-> next]
    BY <1>3
  <2>2. w \in WireOf(S) /\ w.type = "AGREE"
    BY DEF OfType
  <2> QED BY <2>1, <2>2
<1>4. CASE t \in [at : {"propose"}, wire : OfType(S, "MESSAGE")]
  BY <1>4
<1>5. CASE t \in [at : {"reply"}, wire : OfType(S, "PROPOSE")]
  BY <1>5
<1>6. CASE t \in [at : {"deliver"}, wire : OfType(S, "AGREE")]
  BY <1>6
<1>7. CASE t \in [at : {"update"}, ids : Seq(S) \ {<<>>}]
  BY <1>7
<1> QED BY <1>1, <1>2, <1>3, <1>4, <1>5, <1>6, <1>7 DEF PlaceOf

\* The places that the handlers go to.
LEMMA PlacesAre ==
    ASSUME NEW S
    PROVE  /\ Receiving \in PlaceOf(S) /\ Ended \in PlaceOf(S)
           /\ [at |-> "delete"] \in PlaceOf(S) /\ [at |-> "recount"] \in PlaceOf(S)
           /\ \A w \in OfType(S, "MESSAGE") :
                 /\ [at |-> "flood", wires |-> <<w>>, next |-> "propose"] \in PlaceOf(S)
                 /\ [at |-> "propose", wire |-> w] \in PlaceOf(S)
           /\ \A w \in OfType(S, "AGREE") :
                 /\ [at |-> "flood", wires |-> <<w>>, next |-> "recv"] \in PlaceOf(S)
                 /\ [at |-> "flood", wires |-> <<w>>, next |-> "deliver"] \in PlaceOf(S)
                 /\ [at |-> "deliver", wire |-> w] \in PlaceOf(S)
           /\ \A w \in OfType(S, "PROPOSE") : [at |-> "reply", wire |-> w] \in PlaceOf(S)
           /\ \A ids \in Seq(S) \ {<<>>} : [at |-> "update", ids |-> ids] \in PlaceOf(S)
<1>1. Receiving \in PlaceOf(S) /\ Ended \in PlaceOf(S)
  BY DEF PlaceOf
<1>2. [at |-> "delete"] \in PlaceOf(S) /\ [at |-> "recount"] \in PlaceOf(S)
  <2>1. [at |-> "delete"] \in [at : {"delete", "recount"}]
        /\ [at |-> "recount"] \in [at : {"delete", "recount"}]
    OBVIOUS
  <2> QED BY <2>1 DEF PlaceOf
<1>3. ASSUME NEW w \in OfType(S, "MESSAGE")
      PROVE  /\ [at |-> "flood", wires |-> <<w>>, next |-> "propose"] \in PlaceOf(S)
             /\ [at |-> "propose", wire |-> w] \in PlaceOf(S)
  <2>1. [at |-> "propose", wire |-> w] \in [at : {"propose"}, wire : OfType(S, "MESSAGE")]
    OBVIOUS
  <2> QED BY <2>1 DEF PlaceOf
<1>4. ASSUME NEW w \in OfType(S, "AGREE"), NEW next \in {"recv", "deliver"}
      PROVE  [at |-> "flood", wires |-> <<w>>, next |-> next] \in PlaceOf(S)
  BY DEF PlaceOf
<1>5. ASSUME NEW w \in OfType(S, "AGREE")
      PROVE  [at |-> "deliver", wire |-> w] \in PlaceOf(S)
  <2>1. [at |-> "deliver", wire |-> w] \in [at : {"deliver"}, wire : OfType(S, "AGREE")]
    OBVIOUS
  <2> QED BY <2>1 DEF PlaceOf
<1>6. ASSUME NEW w \in OfType(S, "PROPOSE")
      PROVE  [at |-> "reply", wire |-> w] \in PlaceOf(S)
  <2>1. [at |-> "reply", wire |-> w] \in [at : {"reply"}, wire : OfType(S, "PROPOSE")]
    OBVIOUS
  <2> QED BY <2>1 DEF PlaceOf
<1>7. ASSUME NEW ids \in Seq(S) \ {<<>>}
      PROVE  [at |-> "update", ids |-> ids] \in PlaceOf(S)
  <2>1. [at |-> "update", ids |-> ids] \in [at : {"update"}, ids : Seq(S) \ {<<>>}]
    OBVIOUS
  <2> QED BY <2>1 DEF PlaceOf
<1> QED BY <1>1, <1>2, <1>3, <1>4, <1>5, <1>6, <1>7

\* With more messages there are more places to be at.
LEMMA PlacesGrow ==
    ASSUME NEW S, NEW T, S \subseteq T
    PROVE  PlaceOf(S) \subseteq PlaceOf(T)
<1>1. \A type : OfType(S, type) \subseteq OfType(T, type)
  BY DEF OfType, WireOf
<1>2. Seq(S) \subseteq Seq(T)
  OBVIOUS
<1>3. {[at |-> "flood", wires |-> <<w>>, next |-> "propose"] : w \in OfType(S, "MESSAGE")}
        \subseteq {[at |-> "flood", wires |-> <<w>>, next |-> "propose"] :
                        w \in OfType(T, "MESSAGE")}
  BY <1>1
<1>4. {[at |-> "flood", wires |-> <<w>>, next |-> next] :
           w \in OfType(S, "AGREE"), next \in {"recv", "deliver"}}
        \subseteq {[at |-> "flood", wires |-> <<w>>, next |-> next] :
                        w \in OfType(T, "AGREE"), next \in {"recv", "deliver"}}
  BY <1>1
<1>5. /\ [at : {"propose"}, wire : OfType(S, "MESSAGE")]
           \subseteq [at : {"propose"}, wire : OfType(T, "MESSAGE")]
      /\ [at : {"reply"}, wire : OfType(S, "PROPOSE")]
           \subseteq [at : {"reply"}, wire : OfType(T, "PROPOSE")]
      /\ [at : {"deliver"}, wire : OfType(S, "AGREE")]
           \subseteq [at : {"deliver"}, wire : OfType(T, "AGREE")]
      /\ [at : {"update"}, ids : Seq(S) \ {<<>>}]
           \subseteq [at : {"update"}, ids : Seq(T) \ {<<>>}]
  BY <1>1, <1>2
<1> QED BY <1>3, <1>4, <1>5 DEF PlaceOf

\* As long as it does not notice an end, the nodes are counted as before.
LEMMA SameCount ==
    ASSUME CountOK, alive' \subseteq alive, node_n' = node_n,
           \A k, d \in Node :
              thread'[k][d].at \in AtAnEnd <=> thread[k][d].at \in AtAnEnd
    PROVE  CountOK'
<1>1. \A k \in Node : Gone(k)' = Gone(k)
  BY DEF Gone
<1> QED BY <1>1 DEF CountOK

\* What a step leaves alone stays as it should be.
LEMMA Same ==
    ASSUME TypeInv, UNCHANGED <<sent, calm>>
    PROVE  /\ alive' \subseteq alive => SentOK'
           /\ UNCHANGED link => LinkOK'
           /\ UNCHANGED thread => ThreadOK'
           /\ UNCHANGED marks => MarksOK'
           /\ UNCHANGED <<proSeq, agrSeq>> => SeqsOK'
           /\ UNCHANGED queue => QueueOK'
           /\ UNCHANGED allproposed => ProposedOK'
           /\ UNCHANGED delivered => DeliveredOK'
           /\ UNCHANGED balance => BalanceOK'
           /\ UNCHANGED <<node_n, thread>> /\ alive' \subseteq alive => CountOK'
<1>1. alive' \subseteq alive => SentOK'
  BY DEF TypeInv, SentOK
<1>2. UNCHANGED link => LinkOK'
  BY DEF TypeInv, LinkOK
<1>3. UNCHANGED thread => ThreadOK'
  BY DEF TypeInv, ThreadOK
<1>4. UNCHANGED marks => MarksOK'
  BY DEF TypeInv, MarksOK, marks
<1>5. UNCHANGED <<proSeq, agrSeq>> => SeqsOK'
  BY DEF TypeInv, SeqsOK
<1>6. UNCHANGED queue => QueueOK'
  BY DEF TypeInv, QueueOK
<1>7. UNCHANGED allproposed => ProposedOK'
  BY DEF TypeInv, ProposedOK
<1>8. UNCHANGED delivered => DeliveredOK'
  BY DEF TypeInv, DeliveredOK
<1>9. UNCHANGED balance => BalanceOK'
  BY DEF TypeInv, BalanceOK
<1>10. UNCHANGED <<node_n, thread>> /\ alive' \subseteq alive => CountOK'
  BY SameCount DEF TypeInv
<1> QED BY <1>1, <1>2, <1>3, <1>4, <1>5, <1>6, <1>7, <1>8, <1>9, <1>10

\* A thread that goes from one place to another, neither or both of them
\* after its end.
LEMMA GotoType ==
    ASSUME TypeInv, UNCHANGED <<sent, alive, node_n>>,
           NEW n \in Node, NEW s \in Node, NEW place \in PlaceOf(sent),
           Goto(n, s, place),
           place.at \in AtAnEnd <=> thread[n][s].at \in AtAnEnd
    PROVE  ThreadOK' /\ CountOK'
<1>1. /\ thread' \in [Node -> [Node -> PlaceOf(sent)]]
      /\ \A k, d \in Node :
            thread'[k][d] = IF k = n /\ d = s THEN place ELSE thread[k][d]
  <2>1. PICK P : P = PlaceOf(sent)
    OBVIOUS
  <2>2. thread \in [Node -> [Node -> P]] /\ place \in P
    BY <2>1 DEF TypeInv, ThreadOK
  <2>3. /\ thread' \in [Node -> [Node -> P]]
        /\ \A k, d \in Node :
              thread'[k][d] = IF k = n /\ d = s THEN place ELSE thread[k][d]
    BY <2>2 DEF Goto
  <2> QED BY <2>1, <2>3
<1>2. ThreadOK'
  BY <1>1 DEF ThreadOK
<1>3. \A k, d \in Node :
         thread'[k][d].at \in AtAnEnd <=> thread[k][d].at \in AtAnEnd
  BY <1>1
<1> QED BY <1>2, <1>3, SameCount DEF TypeInv

LEMMA SendType ==
    ASSUME TypeInv, NEW m \in Message, Send(m)
    PROVE  TypeInv'
<1> DEFINE S == sent'
<1>1. S = sent \cup {m} /\ sent \subseteq S
  BY DEF Send
<1>2. SentOK'
  BY FS_AddElement DEF TypeInv, SentOK, Send
<1>3. LinkOK'
  <2>1. PICK W : W = WireOf(S)
    OBVIOUS
  <2>2. link \in [Node -> [Node -> Seq(W)]]
    <3>1. Seq(WireOf(sent)) \subseteq Seq(W)
      BY <1>1, <2>1 DEF WireOf
    <3> QED BY <3>1 DEF TypeInv, LinkOK
  <2>3. <<Transaction(m)>> \in Seq(W)
    BY <1>1, <2>1 DEF WireOf, Transaction, Wire, Priority
  <2>4. Origin[m] \in Node
    BY OriginAssumption
  <2>5. Broadcast(Origin[m], <<Transaction(m)>>)
    BY DEF Send
  <2>6. link' \in [Node -> [Node -> Seq(W)]]
    BY <2>2, <2>3, <2>4, <2>5, BroadcastProps
  <2> QED BY <2>1, <2>6 DEF LinkOK
<1>4. ThreadOK'
  <2>1. PlaceOf(sent) \subseteq PlaceOf(S)
    BY <1>1, PlacesGrow
  <2>2. thread \in [Node -> [Node -> PlaceOf(sent)]]
    BY DEF TypeInv, ThreadOK
  <2>3. thread \in [Node -> [Node -> PlaceOf(S)]]
    BY <2>1, <2>2, SMTT(20)
  <2>4. thread' = thread /\ sent' = S
    BY <1>1 DEF Send
  <2> QED BY <2>3, <2>4 DEF ThreadOK
<1>5. MarksOK'
  BY <1>1 DEF TypeInv, MarksOK, Send, marks
<1>6. SeqsOK'
  BY DEF TypeInv, SeqsOK, Send, isisVars
<1>7. QueueOK'
  <2>1. EntryOf(sent) \subseteq EntryOf(S)
    BY <1>1 DEF EntryOf
  <2> QED BY <2>1 DEF TypeInv, QueueOK, Send, isisVars
<1>8. ProposedOK'
  BY <1>1 DEF TypeInv, ProposedOK, Send
<1>9. DeliveredOK'
  <2>1. Seq(sent) \subseteq Seq(S)
    BY <1>1
  <2> QED BY <2>1 DEF TypeInv, DeliveredOK, Send, isisVars
<1>10. BalanceOK'
  BY DEF TypeInv, BalanceOK, Send
<1>11. CountOK'
  BY SameCount DEF TypeInv, Send
<1> QED BY <1>2, <1>3, <1>4, <1>5, <1>6, <1>7, <1>8, <1>9, <1>10, <1>11 DEF TypeInv

\* Of what a thread reads, each kind is handled by itself.
LEMMA ReadsType ==
    ASSUME TypeInv, NEW n \in Node, NEW s \in Node, NEW w, Reads(n, s, w),
           UNCHANGED sent
    PROVE  /\ LinkOK' /\ w \in WireOf(sent) /\ w \in OfType(sent, w.type)
           /\ w.id \in sent /\ w.id \in Message /\ w.priority \in Nat
           /\ thread[n][s].at \notin AtAnEnd
<1>1. PICK W : W = WireOf(sent)
  OBVIOUS
<1>2. link' \in [Node -> [Node -> Seq(W)]] /\ w \in W
  BY <1>1, ReadsProps DEF TypeInv, LinkOK
<1>3. LinkOK'
  BY <1>1, <1>2 DEF LinkOK
<1>4. /\ w.id \in sent /\ w.id \in Message /\ w.priority \in Nat
      /\ w \in OfType(sent, w.type)
  BY <1>1, <1>2 DEF WireOf, OfType, Wire, Priority
<1>5. thread[n][s].at \notin AtAnEnd
  BY DEF Reads, Receiving, AtAnEnd
<1> QED BY <1>1, <1>2, <1>3, <1>4, <1>5

LEMMA TakeMessageType ==
    ASSUME TypeInv, NEW n \in Node, NEW s \in Node, NEW w, TakeMessage(n, s, w)
    PROVE  TypeInv'
<1>1. /\ Reads(n, s, w) /\ w.type = "MESSAGE"
      /\ UNCHANGED <<sent, calm, alive, node_n, agreed, proSeq, agrSeq, queue,
                     delivered, allproposed, balance>>
  BY DEF TakeMessage, isisVars
<1>2. /\ LinkOK' /\ w \in OfType(sent, "MESSAGE") /\ w.id \in sent
      /\ thread[n][s].at \notin AtAnEnd
  BY <1>1, ReadsType
<1>3. ThreadOK' /\ CountOK'
  <2> DEFINE place == [at |-> "flood", wires |-> <<w>>, next |-> "propose"]
  <2>1. place \in PlaceOf(sent) /\ place.at \notin AtAnEnd
    BY <1>2, PlacesAre DEF AtAnEnd
  <2>2. Goto(n, s, place)
    BY DEF TakeMessage
  <2> HIDE DEF place
  <2> QED BY <1>1, <1>2, <2>1, <2>2, GotoType
<1>4. MarksOK'
  BY <1>1, <1>2 DEF TypeInv, MarksOK, TakeMessage
<1> QED BY <1>1, <1>2, <1>3, <1>4, Same DEF TypeInv

LEMMA TakeAgreementType ==
    ASSUME TypeInv, NEW n \in Node, NEW s \in Node, NEW w, TakeAgreement(n, s, w)
    PROVE  TypeInv'
<1>1. /\ Reads(n, s, w) /\ w.type = "AGREE"
      /\ UNCHANGED <<sent, calm, alive, node_n, received, proSeq, agrSeq, queue,
                     delivered, allproposed, balance>>
  BY DEF TakeAgreement, isisVars
<1>2. /\ LinkOK' /\ w \in OfType(sent, "AGREE") /\ w.id \in sent
      /\ thread[n][s].at \notin AtAnEnd
  BY <1>1, ReadsType
<1>3. ThreadOK' /\ CountOK'
  <2> DEFINE place == [at |-> "flood", wires |-> <<w>>, next |-> "deliver"]
  <2>1. place \in PlaceOf(sent) /\ place.at \notin AtAnEnd
    BY <1>2, PlacesAre DEF AtAnEnd
  <2>2. Goto(n, s, place)
    BY DEF TakeAgreement
  <2> HIDE DEF place
  <2> QED BY <1>1, <1>2, <2>1, <2>2, GotoType
<1>4. MarksOK'
  BY <1>1, <1>2 DEF TypeInv, MarksOK, TakeAgreement
<1> QED BY <1>1, <1>2, <1>3, <1>4, Same DEF TypeInv

LEMMA MaxOfTwo ==
    ASSUME NEW a \in Nat, NEW b \in Nat
    PROVE  Max({a, b}) \in Nat /\ a <= Max({a, b}) /\ b <= Max({a, b})
<1>1. IsFiniteSet({a}) /\ {a, b} = {a} \cup {b}
  BY FS_Singleton
<1>2. IsFiniteSet({a, b})
  BY <1>1, FS_AddElement
<1>3. {a, b} \in SUBSET Nat /\ {a, b} # {} /\ a \in {a, b} /\ b \in {a, b}
  OBVIOUS
<1>4. Max({a, b}) \in {a, b} /\ \A y \in {a, b} : y <= Max({a, b})
  BY <1>2, <1>3, MaxOfFinite
<1> QED BY <1>3, <1>4

\* The proposals that a node has for a message, with one more.
LEMMA OneMoreProposal ==
    ASSUME TypeInv, NEW n \in Node, NEW m \in Message, NEW p \in Nat
    PROVE  LET P == allproposed[n][m] \cup {p}
           IN  /\ P \in SUBSET Nat /\ IsFiniteSet(P)
               /\ Max(P) \in P /\ \A q \in P : q <= Max(P)
<1> DEFINE P == allproposed[n][m] \cup {p}
<1>1. allproposed[n][m] \in SUBSET Nat /\ IsFiniteSet(allproposed[n][m])
  BY DEF TypeInv, ProposedOK
<1>2. P \in SUBSET Nat /\ IsFiniteSet(P) /\ P # {}
  BY <1>1, FS_AddElement
<1>3. Max(P) \in P /\ \A q \in P : q <= Max(P)
  <2> HIDE DEF P
  <2> QED BY <1>2, MaxOfFinite
<1> QED BY <1>2, <1>3

LEMMA TakeProposalType ==
    ASSUME TypeInv, NEW n \in Node, NEW s \in Node, NEW w, TakeProposal(n, s, w)
    PROVE  TypeInv'
<1>1. /\ Reads(n, s, w)
      /\ UNCHANGED <<sent, calm, alive, node_n, marks, proSeq, queue, delivered, balance>>
  BY DEF TakeProposal
<1>2. /\ LinkOK' /\ w.id \in sent /\ w.id \in Message /\ w.priority \in Nat
      /\ thread[n][s].at \notin AtAnEnd
  BY <1>1, ReadsType
<1>3. PICK P : P = allproposed[n][w.id] \cup {w.priority}
  OBVIOUS
<1>4. P \in SUBSET Nat /\ IsFiniteSet(P) /\ Max(P) \in P
  BY <1>2, <1>3, OneMoreProposal
<1>5. CASE All(n, P)
  <2> DEFINE place == [at |-> "flood", next |-> "recv",
                       wires |-> <<Agreement(w.id, Max(P))>>]
  <2>1. /\ agrSeq' = [agrSeq EXCEPT ![n] = Max({@, Max(P)})]
        /\ allproposed' = [allproposed EXCEPT ![n][w.id] = {}]
        /\ Goto(n, s, place)
    BY <1>3, <1>5 DEF TakeProposal
  <2>2. Agreement(w.id, Max(P)) \in OfType(sent, "AGREE")
    BY <1>2, <1>4 DEF Agreement, OfType, WireOf, Wire, Priority
  <2>3. place \in PlaceOf(sent) /\ place.at \notin AtAnEnd
    BY <2>2, PlacesAre DEF AtAnEnd
  <2>4. ThreadOK' /\ CountOK'
    <3> HIDE DEF place
    <3> QED BY <1>1, <1>2, <2>1, <2>3, GotoType
  <2>5. SeqsOK'
    <3>1. agrSeq[n] \in Nat /\ Max({agrSeq[n], Max(P)}) \in Nat
      BY <1>4, MaxOfTwo DEF TypeInv, SeqsOK
    <3> QED BY <1>1, <2>1, <3>1 DEF TypeInv, SeqsOK
  <2>6. ProposedOK'
    BY <1>1, <1>2, <2>1, FS_EmptySet DEF TypeInv, ProposedOK
  <2> QED BY <1>1, <1>2, <2>4, <2>5, <2>6, Same DEF TypeInv
<1>6. CASE ~All(n, P)
  <2>1. /\ allproposed' = [allproposed EXCEPT ![n][w.id] = P]
        /\ UNCHANGED <<agrSeq, thread>>
    BY <1>3, <1>6 DEF TakeProposal
  <2>2. ProposedOK'
    BY <1>1, <1>2, <1>4, <2>1 DEF TypeInv, ProposedOK
  <2> QED BY <1>1, <1>2, <2>1, <2>2, Same DEF TypeInv
<1> QED BY <1>5, <1>6

LEMMA FloodType ==
    ASSUME TypeInv, NEW n \in Node, NEW s \in Node, Flood(n, s)
    PROVE  TypeInv'
<1>1. /\ UNCHANGED <<sent, calm, alive, node_n, marks, proSeq, agrSeq, queue,
                     delivered, allproposed, balance>>
      /\ thread[n][s].at = "flood"
  BY DEF Flood, isisVars
<1>2. PICK w \in WireOf(sent) :
         /\ thread[n][s].wires = <<w>>
         /\ \/ w.type = "MESSAGE" /\ thread[n][s].next = "propose"
            \/ w.type = "AGREE" /\ thread[n][s].next \in {"recv", "deliver"}
  <2>1. thread[n][s] \in PlaceOf(sent)
    BY DEF TypeInv, ThreadOK
  <2> QED BY <1>1, <2>1, PlaceCases
<1>3. LinkOK'
  <2>1. PICK W : W = WireOf(sent)
    OBVIOUS
  <2>2. link \in [Node -> [Node -> Seq(W)]] /\ <<w>> \in Seq(W)
    BY <2>1 DEF TypeInv, LinkOK
  <2>3. Broadcast(n, <<w>>)
    BY <1>2 DEF Flood
  <2>4. link' \in [Node -> [Node -> Seq(W)]]
    BY <2>2, <2>3, BroadcastProps
  <2> QED BY <1>1, <2>1, <2>4 DEF LinkOK
<1>4. ThreadOK' /\ CountOK'
  <2> DEFINE place == IF thread[n][s].next = "recv" THEN Receiving
                      ELSE [at |-> thread[n][s].next, wire |-> w]
  <2>1. Goto(n, s, place)
    BY <1>2 DEF Flood
  <2>2. place \in PlaceOf(sent) /\ place.at \notin AtAnEnd
    <3>1. CASE w.type = "MESSAGE" /\ thread[n][s].next = "propose"
      <4>1. w \in OfType(sent, "MESSAGE") /\ place = [at |-> "propose", wire |-> w]
        BY <3>1 DEF OfType
      <4> HIDE DEF place
      <4> QED BY <4>1, PlacesAre DEF AtAnEnd
    <3>2. CASE w.type = "AGREE" /\ thread[n][s].next = "deliver"
      <4>1. w \in OfType(sent, "AGREE") /\ place = [at |-> "deliver", wire |-> w]
        BY <3>2 DEF OfType
      <4> HIDE DEF place
      <4> QED BY <4>1, PlacesAre DEF AtAnEnd
    <3>3. CASE thread[n][s].next = "recv"
      BY <3>3, PlacesAre DEF AtAnEnd, Receiving
    <3> QED BY <1>2, <3>1, <3>2, <3>3
  <2>3. thread[n][s].at \notin AtAnEnd
    BY <1>1 DEF AtAnEnd
  <2> HIDE DEF place
  <2> QED BY <1>1, <2>1, <2>2, <2>3, GotoType
<1> QED BY <1>1, <1>3, <1>4, Same DEF TypeInv

LEMMA ProposeType ==
    ASSUME TypeInv, NEW n \in Node, NEW s \in Node, Propose(n, s)
    PROVE  TypeInv'
<1>1. /\ UNCHANGED <<sent, calm, link, alive, node_n, marks, agrSeq, delivered,
                     allproposed, balance>>
      /\ thread[n][s].at = "propose"
  BY DEF Propose
<1>2. PICK m : m = thread[n][s].wire.id
  OBVIOUS
<1>3. m \in sent /\ m \in Message
  <2>1. thread[n][s] \in PlaceOf(sent)
    BY DEF TypeInv, ThreadOK
  <2>2. thread[n][s].wire \in OfType(sent, "MESSAGE")
    BY <1>1, <2>1, PlaceCases
  <2> QED BY <1>2, <2>2 DEF OfType, WireOf, Wire
<1>4. PICK p : p = Above(Max({proSeq[n], agrSeq[n]}), n)
  OBVIOUS
<1>5. p \in Nat
  BY <1>4, MaxOfTwo, AboveProps DEF TypeInv, SeqsOK
<1>6. /\ proSeq' = [proSeq EXCEPT ![n] = p]
      /\ queue' = [queue EXCEPT ![n] = @ \cup {Entry(m, p, FALSE)}]
      /\ Goto(n, s, [at |-> "reply", wire |-> Proposal(m, p)])
  BY <1>2, <1>4 DEF Propose
<1>7. ThreadOK' /\ CountOK'
  <2> DEFINE place == [at |-> "reply", wire |-> Proposal(m, p)]
  <2>1. Proposal(m, p) \in OfType(sent, "PROPOSE")
    BY <1>3, <1>5 DEF Proposal, OfType, WireOf, Wire, Priority
  <2>2. place \in PlaceOf(sent) /\ place.at \notin AtAnEnd
    BY <2>1, PlacesAre DEF AtAnEnd
  <2>3. thread[n][s].at \notin AtAnEnd
    BY <1>1 DEF AtAnEnd
  <2>4. Goto(n, s, place)
    BY <1>6
  <2> HIDE DEF place
  <2> QED BY <1>1, <2>2, <2>3, <2>4, GotoType
<1>8. SeqsOK'
  BY <1>1, <1>5, <1>6 DEF TypeInv, SeqsOK
<1>9. QueueOK'
  <2>1. Entry(m, p, FALSE) \in EntryOf(sent)
    BY <1>3, <1>5 DEF Entry, EntryOf
  <2>2. IsFiniteSet(queue[n] \cup {Entry(m, p, FALSE)})
    BY FS_AddElement DEF TypeInv, QueueOK
  <2> QED BY <1>1, <1>6, <2>1, <2>2 DEF TypeInv, QueueOK
<1> QED BY <1>1, <1>7, <1>8, <1>9, Same DEF TypeInv

LEMMA ReplyType ==
    ASSUME TypeInv, NEW n \in Node, NEW s \in Node, Reply(n, s)
    PROVE  TypeInv'
<1>1. /\ UNCHANGED <<sent, calm, alive, node_n, marks, proSeq, agrSeq, queue,
                     delivered, allproposed, balance>>
      /\ thread[n][s].at = "reply" /\ Goto(n, s, Receiving)
  BY DEF Reply, isisVars
<1>2. PICK w : w = thread[n][s].wire
  OBVIOUS
<1>3. w \in WireOf(sent) /\ Origin[w.id] \in Node
  <2>1. thread[n][s] \in PlaceOf(sent)
    BY DEF TypeInv, ThreadOK
  <2>2. w \in OfType(sent, "PROPOSE")
    BY <1>1, <1>2, <2>1, PlaceCases
  <2> QED BY <2>2, OriginAssumption DEF OfType, WireOf, Wire
<1>4. LinkOK'
  <2>1. PICK W : W = WireOf(sent)
    OBVIOUS
  <2>2. link \in [Node -> [Node -> Seq(W)]] /\ w \in W
    BY <1>3, <2>1 DEF TypeInv, LinkOK
  <2>3. Unicast(n, Origin[w.id], w)
    BY <1>2 DEF Reply
  <2>4. link' \in [Node -> [Node -> Seq(W)]]
    BY <1>3, <2>2, <2>3, UnicastProps
  <2> QED BY <1>1, <2>1, <2>4 DEF LinkOK
<1>5. ThreadOK' /\ CountOK'
  <2>1. Receiving \in PlaceOf(sent) /\ Receiving.at \notin AtAnEnd
    BY PlacesAre DEF AtAnEnd, Receiving
  <2>2. thread[n][s].at \notin AtAnEnd
    BY <1>1 DEF AtAnEnd
  <2> QED BY <1>1, <2>1, <2>2, GotoType
<1> QED BY <1>1, <1>4, <1>5, Same DEF TypeInv

\* Deliver(n, s) puts the agreement w into the heap, which is then q, and
\* hands over ids.
Hands(n, s, w, q, ids) ==
    /\ w = thread[n][s].wire
    /\ q = Replaced(queue[n], w.id, w.priority)
    /\ queue' = [queue EXCEPT ![n] = q \ Popped(q)]
    /\ delivered' = [delivered EXCEPT ![n] = @ \o ids]
    /\ Goto(n, s, IF ids = <<>> THEN Receiving ELSE [at |-> "update", ids |-> ids])

\* ids are those of the entries that are popped from q, each once and in the
\* order of their priorities if there is one entry for each message.
OneEntryEach(q) == \A e, f \in q : e.id = f.id => e = f
NoneTwice(ids) == \A j, k \in DOMAIN ids : ids[j] = ids[k] => j = k
ByPriority(ids, q) ==
    \A j, k \in DOMAIN ids : \A e, f \in q :
        j < k /\ e.id = ids[j] /\ f.id = ids[k] => e.priority <= f.priority
Lists(ids, q) ==
    /\ \A e \in Popped(q) : e.id \in ToSet(ids)
    /\ \A m \in ToSet(ids) : \E e \in Popped(q) : e.id = m
    /\ OneEntryEach(q) => NoneTwice(ids) /\ ByPriority(ids, q)

\* What Deliver pops and hands over.
LEMMA DeliverProps ==
    ASSUME TypeInv, NEW n \in Node, NEW s \in Node, Deliver(n, s)
    PROVE  \E w \in OfType(sent, "AGREE"), q \in SUBSET EntryOf(sent), ids \in Seq(sent) :
              IsFiniteSet(q) /\ Hands(n, s, w, q, ids) /\ Lists(ids, q)
<1>1. PICK w : w = thread[n][s].wire
  OBVIOUS
<1>2. w \in OfType(sent, "AGREE")
  <2>1. thread[n][s] \in PlaceOf(sent) /\ thread[n][s].at = "deliver"
    BY DEF TypeInv, ThreadOK, Deliver
  <2> QED BY <1>1, <2>1, PlaceCases
<1>3. PICK q : q = Replaced(queue[n], w.id, w.priority)
  OBVIOUS
<1>4. q \subseteq EntryOf(sent) /\ IsFiniteSet(q)
  <2>1. queue[n] \subseteq EntryOf(sent) /\ IsFiniteSet(queue[n])
    BY DEF TypeInv, QueueOK
  <2>2. Entry(w.id, w.priority, TRUE) \in EntryOf(sent)
    BY <1>2 DEF Entry, EntryOf, OfType, WireOf, Wire, Priority
  <2> DEFINE others == {e \in queue[n] : e.id # w.id}
  <2>3. IsFiniteSet(others \cup {Entry(w.id, w.priority, TRUE)})
    <3>1. others \in SUBSET queue[n]
      OBVIOUS
    <3> HIDE DEF others
    <3> QED BY <2>1, <3>1, FS_Subset, FS_AddElement
  <2> QED BY <1>3, <2>1, <2>2, <2>3 DEF Replaced
<1>5. PICK popped \in SetToSeqs(Popped(q)) :
         LET ids == [k \in DOMAIN popped |-> popped[k].id]
         IN  /\ queue' = [queue EXCEPT ![n] = q \ Popped(q)]
             /\ delivered' = [delivered EXCEPT ![n] = @ \o ids]
             /\ \A j, k \in DOMAIN popped :
                   j < k => popped[j].priority <= popped[k].priority
             /\ Goto(n, s, IF ids = <<>> THEN Receiving
                           ELSE [at |-> "update", ids |-> ids])
  BY <1>1, <1>3 DEF Deliver
<1>6. IsFiniteSet(Popped(q)) /\ Popped(q) \subseteq EntryOf(sent)
  <2>1. Popped(q) \in SUBSET q
    BY DEF Popped
  <2> QED BY <1>4, <2>1, FS_Subset
<1>7. PICK E : E = Popped(q)
  OBVIOUS
<1>8. /\ popped \in Seq(E) /\ DOMAIN popped = 1..Len(popped) /\ ToSet(popped) = E
      /\ E \subseteq EntryOf(sent)
  BY <1>6, <1>7, OrderProps
<1> DEFINE ids == [k \in DOMAIN popped |-> popped[k].id]
<1>9. ids \in Seq(sent)
  <2>1. \A k \in DOMAIN popped : popped[k].id \in sent
    BY <1>8 DEF EntryOf
  <2>2. Len(popped) \in Nat
    BY <1>8
  <2> QED BY <1>8, <2>1, <2>2
<1>10. /\ \A e \in E : e.id \in ToSet(ids)
       /\ \A m \in ToSet(ids) : \E e \in E : e.id = m
  <2>1. \A e \in E : \E k \in DOMAIN popped : e = popped[k]
    BY <1>8 DEF ToSet
  <2>2. \A k \in DOMAIN popped : popped[k] \in E
    BY <1>8
  <2>3. DOMAIN ids = DOMAIN popped /\ \A k \in DOMAIN popped : ids[k] = popped[k].id
    OBVIOUS
  <2> HIDE DEF ids
  <2> QED BY <2>1, <2>2, <2>3 DEF ToSet
<1>11. /\ queue' = [queue EXCEPT ![n] = q \ Popped(q)]
       /\ delivered' = [delivered EXCEPT ![n] = @ \o ids]
       /\ Goto(n, s, IF ids = <<>> THEN Receiving
                     ELSE [at |-> "update", ids |-> ids])
  BY <1>5
<1> HIDE DEF ids
<1>12. /\ \A e \in Popped(q) : e.id \in ToSet(ids)
       /\ \A m \in ToSet(ids) : \E e \in Popped(q) : e.id = m
  BY <1>7, <1>10
<1>13. ASSUME OneEntryEach(q)
       PROVE  NoneTwice(ids) /\ ByPriority(ids, q)
  <2>1. DOMAIN ids = DOMAIN popped /\ \A k \in DOMAIN popped : ids[k] = popped[k].id
    BY DEF ids
  <2>2. \A k \in DOMAIN popped : popped[k] \in q
    BY <1>7, <1>8 DEF Popped
  <2>3. \A j, k \in DOMAIN popped : popped[j] = popped[k] => j = k
    BY <1>6, OrderProps
  <2>4. \A j, k \in DOMAIN popped : j < k => popped[j].priority <= popped[k].priority
    BY <1>5
  <2> HIDE DEF ids
  <2>5. ByPriority(ids, q)
    <3>1. \A k \in DOMAIN popped : \A e \in q : e.id = ids[k] => e = popped[k]
      BY <1>13, <2>1, <2>2 DEF OneEntryEach
    <3> QED BY <2>1, <2>4, <3>1 DEF ByPriority
  <2> QED BY <1>13, <2>1, <2>2, <2>3, <2>5 DEF OneEntryEach, NoneTwice
<1>14. Hands(n, s, w, q, ids) /\ Lists(ids, q)
  BY <1>1, <1>3, <1>11, <1>12, <1>13 DEF Hands, Lists
<1> QED BY <1>2, <1>4, <1>9, <1>14

LEMMA DeliverType ==
    ASSUME TypeInv, NEW n \in Node, NEW s \in Node, Deliver(n, s)
    PROVE  TypeInv'
<1>1. /\ UNCHANGED <<sent, calm, link, alive, node_n, marks, proSeq, agrSeq,
                     allproposed, balance>>
      /\ thread[n][s].at = "deliver"
  BY DEF Deliver
<1>2. PICK ids \in Seq(sent), q \in SUBSET EntryOf(sent) :
         /\ IsFiniteSet(q)
         /\ queue' = [queue EXCEPT ![n] = q \ Popped(q)]
         /\ delivered' = [delivered EXCEPT ![n] = @ \o ids]
         /\ Goto(n, s, IF ids = <<>> THEN Receiving
                       ELSE [at |-> "update", ids |-> ids])
  BY DeliverProps DEF Hands
<1>3. ThreadOK' /\ CountOK'
  <2> DEFINE place == IF ids = <<>> THEN Receiving ELSE [at |-> "update", ids |-> ids]
  <2>1. place \in PlaceOf(sent)
    BY PlacesAre
  <2>2. place.at \notin AtAnEnd /\ thread[n][s].at \notin AtAnEnd
    BY <1>1 DEF AtAnEnd, Receiving
  <2>3. Goto(n, s, place)
    BY <1>2
  <2> HIDE DEF place
  <2> QED BY <1>1, <2>1, <2>2, <2>3, GotoType
<1>4. QueueOK'
  <2>1. q \ Popped(q) \in SUBSET q
    OBVIOUS
  <2>2. q \ Popped(q) \subseteq EntryOf(sent) /\ IsFiniteSet(q \ Popped(q))
    BY <1>2, <2>1, FS_Subset
  <2> QED BY <1>1, <1>2, <2>2 DEF TypeInv, QueueOK
<1>5. DeliveredOK'
  <2>1. delivered[n] \o ids \in Seq(sent)
    BY DEF TypeInv, DeliveredOK
  <2> QED BY <1>1, <1>2, <2>1 DEF TypeInv, DeliveredOK
<1> QED BY <1>1, <1>3, <1>4, <1>5, Same DEF TypeInv

\* No transaction overdraws an account.
LEMMA ApplyType ==
    ASSUME NEW accounts \in [Account -> Nat], NEW m \in Message
    PROVE  Apply(accounts, Operation[m]) \in [Account -> Nat]
<1> DEFINE op == Operation[m]
<1>1. /\ op.type \in {"DEPOSIT", "TRANSFER"} /\ op.amount \in Nat
      /\ op.source \in Account /\ op.target \in Account
  BY OperationAssumption
<1> HIDE DEF op
<1>2. Pay(accounts, op.source, op.amount) \in [Account -> Nat]
  BY <1>1 DEF Pay
<1>3. ASSUME accounts[op.source] >= op.amount
      PROVE  Move(accounts, op) \in [Account -> Nat]
  <2>1. Pay(accounts, op.source, -op.amount) \in [Account -> Nat]
    BY <1>1, <1>3 DEF Pay
  <2> QED BY <1>1, <2>1 DEF Move, Pay
<1>4. Apply(accounts, op) \in [Account -> Nat]
  BY <1>1, <1>2, <1>3 DEF Apply
<1> QED BY <1>4 DEF op

LEMMA UpdateBalanceType ==
    ASSUME TypeInv, NEW n \in Node, NEW s \in Node, UpdateBalance(n, s)
    PROVE  TypeInv'
<1>1. /\ UNCHANGED <<sent, calm, link, alive, node_n, marks, proSeq, agrSeq, queue,
                     delivered, allproposed>>
      /\ thread[n][s].at = "update"
  BY DEF UpdateBalance, isisVars
<1>2. PICK ids : ids = thread[n][s].ids
  OBVIOUS
<1>3. ids \in Seq(sent) \ {<<>>}
  <2>1. thread[n][s] \in PlaceOf(sent)
    BY DEF TypeInv, ThreadOK
  <2> QED BY <1>1, <1>2, <2>1, PlaceCases
<1>4. /\ balance' = [balance EXCEPT ![n] = Apply(@, Operation[Head(ids)])]
      /\ Goto(n, s, IF Len(ids) = 1 THEN Receiving
                    ELSE [at |-> "update", ids |-> Tail(ids)])
  BY <1>2 DEF UpdateBalance
<1>5. ThreadOK' /\ CountOK'
  <2> DEFINE place == IF Len(ids) = 1 THEN Receiving
                      ELSE [at |-> "update", ids |-> Tail(ids)]
  <2>1. ASSUME Len(ids) # 1
        PROVE  Tail(ids) \in Seq(sent) \ {<<>>}
    <3>1. Tail(ids) \in Seq(sent) /\ Len(Tail(ids)) = Len(ids) - 1
      BY <1>3
    <3>2. Len(ids) \in Nat /\ Len(ids) # 0
      BY <1>3
    <3>3. Len(Tail(ids)) # 0
      BY <2>1, <3>1, <3>2
    <3> QED BY <3>1, <3>3
  <2>2. place \in PlaceOf(sent)
    BY <2>1, PlacesAre
  <2>3. place.at \notin AtAnEnd /\ thread[n][s].at \notin AtAnEnd
    BY <1>1 DEF AtAnEnd, Receiving
  <2>4. Goto(n, s, place)
    BY <1>4
  <2> HIDE DEF place
  <2> QED BY <1>1, <2>2, <2>3, <2>4, GotoType
<1>6. BalanceOK'
  <2>1. Head(ids) \in Message
    <3>1. Head(ids) \in sent
      BY <1>3
    <3> QED BY <3>1 DEF TypeInv, SentOK
  <2>2. Apply(balance[n], Operation[Head(ids)]) \in [Account -> Nat]
    BY <2>1, ApplyType DEF TypeInv, BalanceOK
  <2> QED BY <1>4, <2>2 DEF TypeInv, BalanceOK
<1> QED BY <1>1, <1>5, <1>6, Same DEF TypeInv

\* The values of a function on a finite set.
LEMMA FiniteImage ==
    ASSUME NEW S, IsFiniteSet(S), NEW T, NEW f \in [S -> T],
           \A t \in T : \E x \in S : f[x] = t
    PROVE  IsFiniteSet(T)
<1>1. f \in Surjection(S, T)
  BY Zenon DEF Surjection
<1> QED BY <1>1, FS_Surjection

LEMMA LongestLink ==
    ASSUME TypeInv, NEW n \in Node
    PROVE  Max({Len(link[n][d]) : d \in Node}) \in Nat
<1> DEFINE lens == {Len(link[n][d]) : d \in Node}
           f == [d \in Node |-> Len(link[n][d])]
<1>1. f \in [Node -> lens] /\ \A t \in lens : \E d \in Node : f[d] = t
  OBVIOUS
<1>2. lens \in SUBSET Nat /\ lens # {}
  <2>1. \A d \in Node : Len(link[n][d]) \in Nat
    <3> TAKE d \in Node
    <3>1. link[n][d] \in Seq(WireOf(sent))
      BY DEF TypeInv, LinkOK
    <3> QED BY <3>1
  <2> QED BY <2>1, NodeAssumption
<1>3. IsFiniteSet(lens)
  <2> HIDE DEF lens, f
  <2> QED BY <1>1, NodeFinite, FiniteImage
<1>4. Max(lens) \in Nat
  <2> HIDE DEF lens, f
  <2> QED BY <1>2, <1>3, MaxOfFinite
<1> QED BY <1>4

LEMMA DieType ==
    ASSUME TypeInv, NEW n \in Node, Die(n)
    PROVE  TypeInv'
<1>1. /\ UNCHANGED <<sent, calm, thread, node_n, marks, proSeq, agrSeq, queue,
                     delivered, allproposed, balance>>
      /\ alive' \subseteq alive
  BY DEF Die, isisVars
<1>2. PICK W : W = WireOf(sent)
  OBVIOUS
<1>3. link \in [Node -> [Node -> Seq(W)]]
  BY <1>2 DEF TypeInv, LinkOK
<1>4. PICK keep \in [Node \ {n} -> 0..Max({Len(link[n][d]) : d \in Node})] :
         /\ \A d \in Node \ {n} : keep[d] <= Len(link[n][d])
         /\ link' = [s \in Node |-> [d \in Node |->
                        CASE d = n -> <<>>
                          [] s = n /\ d # n -> SubSeq(link[n][d], 1, keep[d])
                          [] OTHER -> link[s][d]]]
  BY DEF Die
<1>5. Max({Len(link[n][d]) : d \in Node}) \in Nat
  BY LongestLink
<1>6. \A s, d \in Node : link'[s][d] \in Seq(W)
  <2> TAKE s, d \in Node
  <2>1. CASE d = n
    BY <1>4, <2>1
  <2>2. CASE s = n /\ d # n
    <3>1. keep[d] \in 0..Len(link[n][d]) /\ link[n][d] \in Seq(W)
      <4>1. PICK M \in Nat : M = Max({Len(link[n][k]) : k \in Node})
        BY <1>5
      <4>2. keep[d] \in 0..M /\ keep[d] <= Len(link[n][d])
        BY <1>4, <2>2, <4>1
      <4> QED BY <1>3, <4>2
    <3>2. SubSeq(link[n][d], 1, keep[d]) \in Seq(W)
      BY <3>1
    <3> QED BY <1>4, <2>2, <3>2
  <2>3. CASE s # n /\ d # n
    BY <1>3, <1>4, <2>3
  <2> QED BY <2>1, <2>2, <2>3
<1>7. LinkOK'
  <2>1. link' = [s \in Node |-> [d \in Node |-> link'[s][d]]]
    BY <1>4
  <2> QED BY <1>1, <1>2, <1>6, <2>1 DEF LinkOK
<1> QED BY <1>1, <1>7, Same DEF TypeInv

LEMMA NoticeType ==
    ASSUME TypeInv, NEW n \in Node, NEW s \in Node, Notice(n, s)
    PROVE  TypeInv'
<1> DEFINE place == [at |-> "delete"]
<1>1. /\ UNCHANGED <<sent, calm, link, alive, marks, proSeq, agrSeq, queue,
                     delivered, allproposed, balance>>
      /\ n \in alive /\ s \notin alive /\ thread[n][s] = Receiving
      /\ node_n' = [node_n EXCEPT ![n] = @ - 1]
      /\ Goto(n, s, place)
  BY DEF Notice, isisVars
<1>2. /\ thread' \in [Node -> [Node -> PlaceOf(sent)]]
      /\ \A k, d \in Node :
            thread'[k][d] = IF k = n /\ d = s THEN place ELSE thread[k][d]
  <2>1. place \in PlaceOf(sent)
    BY PlacesAre
  <2>2. thread \in [Node -> [Node -> PlaceOf(sent)]]
    BY DEF TypeInv, ThreadOK
  <2> HIDE DEF place
  <2> QED BY <1>1, <2>1, <2>2 DEF Goto
<1>3. ThreadOK'
  BY <1>1, <1>2 DEF ThreadOK
<1>4. CountOK'
  <2>1. \A k \in Node : k # n => Gone(k)' = Gone(k)
    BY <1>2 DEF Gone
  <2>2. Gone(n)' = Gone(n) \cup {s} /\ s \notin Gone(n)
    BY <1>1, <1>2 DEF Gone, AtAnEnd, Receiving
  <2>3. Gone(n) \in SUBSET Node
    BY DEF Gone
  <2>4. /\ Cardinality(Gone(n)') = Cardinality(Gone(n)) + 1
        /\ Cardinality(Gone(n)) \in Nat
    BY <2>2, <2>3, NodeFinite, FS_Subset, FS_AddElement, FS_CardinalityType
  <2>5. node_n' \in [Node -> Int]
    BY <1>1 DEF TypeInv, CountOK
  <2>6. node_n'[n] = Cardinality(Node) - Cardinality(Gone(n)')
    BY <1>1, <2>4, NodeFinite DEF TypeInv, CountOK
  <2>7. Gone(n)' \subseteq (Node \ alive) \ {n}
    BY <1>1, <2>2 DEF TypeInv, CountOK
  <2>8. ASSUME NEW k \in Node, k # n
        PROVE  /\ Gone(k)' \subseteq (Node \ alive') \ {k}
               /\ node_n'[k] = Cardinality(Node) - Cardinality(Gone(k)')
    BY <1>1, <2>1, <2>8 DEF TypeInv, CountOK
  <2> QED BY <1>1, <2>5, <2>6, <2>7, <2>8 DEF CountOK
<1> QED BY <1>1, <1>3, <1>4, Same DEF TypeInv

LEMMA DeleteNodeType ==
    ASSUME TypeInv, NEW n \in Node, NEW s \in Node, DeleteNode(n, s)
    PROVE  TypeInv'
<1>1. /\ UNCHANGED <<sent, calm, link, alive, node_n, marks, proSeq, agrSeq,
                     delivered, allproposed, balance>>
      /\ thread[n][s].at = "delete" /\ Goto(n, s, [at |-> "recount"])
  BY DEF DeleteNode
<1>2. PICK gone \in SUBSET queue[n] : queue' = [queue EXCEPT ![n] = @ \ gone]
  BY DEF DeleteNode
<1>3. ThreadOK' /\ CountOK'
  <2> DEFINE place == [at |-> "recount"]
  <2>1. place \in PlaceOf(sent) /\ place.at \in AtAnEnd /\ thread[n][s].at \in AtAnEnd
    BY <1>1, PlacesAre DEF AtAnEnd
  <2>2. Goto(n, s, place)
    BY <1>1
  <2> HIDE DEF place
  <2> QED BY <1>1, <2>1, <2>2, GotoType
<1>4. QueueOK'
  <2>1. queue[n] \ gone \in SUBSET queue[n]
    OBVIOUS
  <2>2. queue[n] \ gone \subseteq EntryOf(sent) /\ IsFiniteSet(queue[n] \ gone)
    BY <2>1, FS_Subset DEF TypeInv, QueueOK
  <2> QED BY <1>1, <1>2, <2>2 DEF TypeInv, QueueOK
<1> QED BY <1>1, <1>3, <1>4, Same DEF TypeInv

\* The messages that n has proposals for, those it has them all for, and what
\* is decided from these when it counts them again.
Open(n) == {m \in Message : allproposed[n][m] # {}}
Full(n) == {m \in Open(n) : All(n, allproposed[n][m])}
Highest(n) == {Max(allproposed[n][m]) : m \in Full(n)}

LEMMA HighestProps ==
    ASSUME TypeInv, NEW n \in Node
    PROVE  /\ Open(n) \subseteq sent /\ Open(n) \subseteq Message
           /\ IsFiniteSet(Highest(n)) /\ Highest(n) \in SUBSET Nat
<1>1. Open(n) \subseteq sent /\ Open(n) \subseteq Message /\ Full(n) \in SUBSET sent
  BY DEF TypeInv, ProposedOK, Open, Full
<1>2. IsFiniteSet(Full(n))
  BY <1>1, FS_Subset DEF TypeInv, SentOK
<1> DEFINE f == [m \in Full(n) |-> Max(allproposed[n][m])]
<1>3. f \in [Full(n) -> Highest(n)] /\ \A t \in Highest(n) : \E m \in Full(n) : f[m] = t
  BY DEF Highest
<1>4. IsFiniteSet(Highest(n))
  <2> HIDE DEF f
  <2> QED BY <1>2, <1>3, FiniteImage
<1>5. \A m \in Full(n) : Max(allproposed[n][m]) \in Nat
  <2> TAKE m \in Full(n)
  <2>1. /\ allproposed[n][m] \in SUBSET Nat /\ allproposed[n][m] # {}
        /\ IsFiniteSet(allproposed[n][m])
    BY DEF TypeInv, ProposedOK, Full, Open
  <2> QED BY <2>1, MaxOfFinite
<1> QED BY <1>1, <1>4, <1>5 DEF Highest

\* If anything then it is agreements that are sent.
LEMMA RecountSends ==
    ASSUME TypeInv, NEW n \in Node, NEW s \in Node, Recount(n, s), link' # link
    PROVE  \E ws \in Seq(WireOf(sent)) :
              Broadcast(n, ws) /\ \A v \in ToSet(ws) : v.type = "AGREE"
<1>1. PICK msg \in Open(n), order \in SetToSeqs(Highest(n)) :
         Broadcast(n, [k \in DOMAIN order |-> Agreement(msg, order[k])])
  <2>1. IF Full(n) = {}
        THEN UNCHANGED link
        ELSE \E msg \in Open(n), order \in SetToSeqs(Highest(n)) :
                Broadcast(n, [k \in DOMAIN order |-> Agreement(msg, order[k])])
    BY DEF Recount, Open, Full, Highest
  <2> QED BY <2>1
<1>2. PICK W : W = WireOf(sent)
  OBVIOUS
<1>3. PICK H : H = Highest(n)
  OBVIOUS
<1>4. order \in Seq(H) /\ DOMAIN order = 1..Len(order) /\ H \in SUBSET Nat
  BY <1>3, HighestProps, OrderProps
<1>5. msg \in sent /\ msg \in Message
  BY HighestProps
<1>6. \A p \in Nat : Agreement(msg, p) \in W /\ Agreement(msg, p).type = "AGREE"
  BY <1>2, <1>5 DEF Agreement, WireOf, Wire, Priority
<1>7. PICK ws : ws = [k \in DOMAIN order |-> Agreement(msg, order[k])]
  OBVIOUS
<1>8. \A k \in 1..Len(order) : order[k] \in Nat
  <2>1. order \in Seq(H) /\ DOMAIN order = 1..Len(order)
    BY <1>4
  <2>2. \A k \in 1..Len(order) : order[k] \in H
    BY <2>1
  <2> QED BY <1>4, <2>2
<1>9. \A k \in 1..Len(order) : Agreement(msg, order[k]) \in W
  BY <1>6, <1>8
<1>10. ws \in Seq(W)
  BY <1>4, <1>7, <1>9
<1>11. \A v \in ToSet(ws) : v.type = "AGREE"
  <2>1. \A k \in DOMAIN ws : ws[k].type = "AGREE"
    BY <1>4, <1>6, <1>7, <1>8
  <2> QED BY <2>1 DEF ToSet
<1>12. Broadcast(n, ws)
  BY <1>1, <1>7
<1> QED BY <1>2, <1>10, <1>11, <1>12

LEMMA RecountType ==
    ASSUME TypeInv, NEW n \in Node, NEW s \in Node, Recount(n, s)
    PROVE  TypeInv'
<1>1. /\ UNCHANGED <<sent, calm, alive, node_n, marks, proSeq, queue, delivered, balance>>
      /\ thread[n][s].at = "recount" /\ Goto(n, s, Ended)
      /\ agrSeq' = [agrSeq EXCEPT ![n] = Max({@} \cup Highest(n))]
      /\ allproposed' = [allproposed EXCEPT ![n] =
                            [m \in Message |-> IF m \in Full(n) THEN {} ELSE @[m]]]
  BY DEF Recount, Open, Full, Highest
<1>2. LinkOK'
  <2>1. CASE UNCHANGED link
    BY <1>1, <2>1, Same
  <2>2. CASE ~UNCHANGED link
    <3>1. PICK ws \in Seq(WireOf(sent)) : Broadcast(n, ws)
      BY <2>2, RecountSends
    <3>2. PICK W : W = WireOf(sent)
      OBVIOUS
    <3>3. link \in [Node -> [Node -> Seq(W)]] /\ ws \in Seq(W)
      BY <3>2 DEF TypeInv, LinkOK
    <3>4. link' \in [Node -> [Node -> Seq(W)]]
      BY <3>1, <3>3, BroadcastProps
    <3> QED BY <1>1, <3>2, <3>4 DEF LinkOK
  <2> QED BY <2>1, <2>2
<1>3. ThreadOK' /\ CountOK'
  <2>1. Ended \in PlaceOf(sent) /\ Ended.at \in AtAnEnd /\ thread[n][s].at \in AtAnEnd
    BY <1>1, PlacesAre DEF AtAnEnd, Ended
  <2> QED BY <1>1, <2>1, GotoType
<1>4. SeqsOK'
  <2>1. PICK a \in Nat : a = agrSeq[n]
    BY DEF TypeInv, SeqsOK
  <2>2. IsFiniteSet({a} \cup Highest(n)) /\ {a} \cup Highest(n) \in SUBSET Nat
           /\ {a} \cup Highest(n) # {}
    <3>1. {a} \cup Highest(n) = Highest(n) \cup {a}
      OBVIOUS
    <3> QED BY <3>1, HighestProps, FS_AddElement
  <2>3. Max({a} \cup Highest(n)) \in Nat
    BY <2>2, MaxOfFinite
  <2> QED BY <1>1, <2>1, <2>3 DEF TypeInv, SeqsOK
<1>5. ProposedOK'
  <2>1. /\ allproposed' \in [Node -> [Message -> SUBSET Nat]]
        /\ \A m \in Message :
              allproposed'[n][m] = IF m \in Full(n) THEN {} ELSE allproposed[n][m]
        /\ \A k \in Node : k # n => allproposed'[k] = allproposed[k]
    BY <1>1 DEF TypeInv, ProposedOK
  <2> QED BY <1>1, <2>1, FS_EmptySet DEF TypeInv, ProposedOK
<1> QED BY <1>1, <1>2, <1>3, <1>4, <1>5, Same DEF TypeInv

LEMMA TypeInvInit == Init => TypeInv
<1> SUFFICES ASSUME Init PROVE TypeInv
  OBVIOUS
<1>1. SentOK
  BY FS_EmptySet DEF Init, SentOK
<1>2. LinkOK
  BY DEF Init, LinkOK
<1>3. ThreadOK
  BY PlacesAre DEF Init, ThreadOK
<1>4. MarksOK /\ SeqsOK
  BY NodeFinite DEF Init, MarksOK, SeqsOK
<1>5. QueueOK /\ ProposedOK
  BY FS_EmptySet DEF Init, QueueOK, ProposedOK
<1>6. DeliveredOK /\ BalanceOK
  BY DEF Init, DeliveredOK, BalanceOK
<1>7. CountOK
  <2>1. \A n \in Node : Gone(n) = {}
    BY DEF Init, Gone, AtAnEnd, Receiving
  <2> QED BY <2>1, NodeFinite, FS_EmptySet DEF Init, CountOK
<1> QED BY <1>1, <1>2, <1>3, <1>4, <1>5, <1>6, <1>7 DEF TypeInv

LEMMA TypeInvStep == TypeInv /\ [Next]_vars => TypeInv'
<1> SUFFICES ASSUME TypeInv, [Next]_vars PROVE TypeInv'
  OBVIOUS
<1>1. CASE \E m \in Message : Send(m)
  BY <1>1, SendType
<1>2. CASE \E n \in Node : Die(n)
  BY <1>2, DieType
<1>3. ASSUME NEW n \in Node, NEW s \in Node, Listen(n, s)
      PROVE  TypeInv'
  <2>1. CASE \E w : TakeMessage(n, s, w) \/ TakeProposal(n, s, w) \/ TakeAgreement(n, s, w)
    BY <2>1, TakeMessageType, TakeProposalType, TakeAgreementType
  <2>2. CASE Flood(n, s)
    BY <2>2, FloodType
  <2>3. CASE Propose(n, s)
    BY <2>3, ProposeType
  <2>4. CASE Reply(n, s)
    BY <2>4, ReplyType
  <2>5. CASE Deliver(n, s)
    BY <2>5, DeliverType
  <2>6. CASE UpdateBalance(n, s)
    BY <2>6, UpdateBalanceType
  <2>7. CASE Notice(n, s)
    BY <2>7, NoticeType
  <2>8. CASE DeleteNode(n, s)
    BY <2>8, DeleteNodeType
  <2>9. CASE Recount(n, s)
    BY <2>9, RecountType
  <2> QED BY <1>3, <2>1, <2>2, <2>3, <2>4, <2>5, <2>6, <2>7, <2>8, <2>9 DEF Listen
<1>4. CASE UNCHANGED vars
  BY <1>4, Same DEF vars, marks, isisVars, TypeInv
<1> QED BY <1>1, <1>2, <1>3, <1>4 DEF Next

LEMMA TypeInvTypes == TypeInv => TypeOK
<1> SUFFICES ASSUME TypeInv PROVE TypeOK
  OBVIOUS
<1>1. sent \subseteq Message /\ calm \subseteq sent /\ alive \subseteq Node
  BY DEF TypeInv, SentOK
<1>2. link \in [Node -> [Node -> Seq(Wire)]]
  <2>1. Seq(WireOf(sent)) \subseteq Seq(Wire)
    <3>1. WireOf(sent) \subseteq Wire
      BY DEF WireOf
    <3> QED BY <3>1
  <2> QED BY <2>1 DEF TypeInv, LinkOK
<1>3. thread \in [Node -> [Node -> Place]]
  <2>1. ASSUME NEW t \in PlaceOf(sent)
        PROVE  t \in Place
    <3>1. /\ \A type : OfType(sent, type) \subseteq Wire
          /\ \A w \in Wire : <<w>> \in Seq(Wire)
          /\ Seq(sent) \subseteq Seq(Message)
      BY <1>1 DEF OfType, WireOf
    <3>2. CASE t \in {Receiving, Ended} \cup [at : {"delete", "recount"}]
      BY <3>2 DEF Place
    <3>3. CASE t \in {[at |-> "flood", wires |-> <<w>>, next |-> "propose"] :
                         w \in OfType(sent, "MESSAGE")}
      <4>1. t \in [at : {"flood"}, wires : Seq(Wire), next : {"recv", "propose", "deliver"}]
        <5>1. PICK w \in OfType(sent, "MESSAGE") :
                 t = [at |-> "flood", wires |-> <<w>>, next |-> "propose"]
          BY <3>3
        <5> QED BY <3>1, <5>1
      <4> QED BY <4>1 DEF Place
    <3>4. CASE t \in {[at |-> "flood", wires |-> <<w>>, next |-> next] :
                         w \in OfType(sent, "AGREE"), next \in {"recv", "deliver"}}
      <4>1. t \in [at : {"flood"}, wires : Seq(Wire), next : {"recv", "propose", "deliver"}]
        <5>1. PICK w \in OfType(sent, "AGREE"), next \in {"recv", "deliver"} :
                 t = [at |-> "flood", wires |-> <<w>>, next |-> next]
          BY <3>4
        <5> QED BY <3>1, <5>1
      <4> QED BY <4>1 DEF Place
    <3>5. CASE \/ t \in [at : {"propose"}, wire : OfType(sent, "MESSAGE")]
               \/ t \in [at : {"reply"}, wire : OfType(sent, "PROPOSE")]
               \/ t \in [at : {"deliver"}, wire : OfType(sent, "AGREE")]
      <4>1. t \in [at : {"propose", "reply", "deliver"}, wire : Wire]
        BY <3>1, <3>5
      <4> QED BY <4>1 DEF Place
    <3>6. CASE t \in [at : {"update"}, ids : Seq(sent) \ {<<>>}]
      <4>1. t \in [at : {"update"}, ids : Seq(Message)]
        BY <3>1, <3>6
      <4> QED BY <4>1 DEF Place
    <3> QED BY <3>2, <3>3, <3>4, <3>5, <3>6 DEF PlaceOf
  <2> QED BY <2>1 DEF TypeInv, ThreadOK
<1>4. node_n \in [Node -> 1..Cardinality(Node)]
  <2>1. ASSUME NEW n \in Node
        PROVE  node_n[n] \in 1..Cardinality(Node)
    <3>1. Gone(n) \in SUBSET (Node \ {n})
      BY DEF TypeInv, CountOK
    <3>2. /\ IsFiniteSet(Node \ {n})
          /\ Cardinality(Node \ {n}) = Cardinality(Node) - 1
      BY NodeFinite, FS_RemoveElement
    <3>3. /\ Cardinality(Gone(n)) <= Cardinality(Node) - 1
          /\ Cardinality(Gone(n)) \in Nat
      BY <3>1, <3>2, FS_Subset, FS_CardinalityType
    <3> QED BY <3>3, NodeFinite DEF TypeInv, CountOK
  <2> QED BY <2>1 DEF TypeInv, CountOK
<1>5. {received, agreed} \subseteq [Node -> SUBSET sent]
  BY DEF TypeInv, MarksOK
<1>6. {proSeq, agrSeq} \subseteq [Node -> Priority]
  BY DEF TypeInv, SeqsOK, Priority
<1>7. \A n \in Node : queue[n] \subseteq
         [id : sent, priority : Priority, deliverable : BOOLEAN]
  BY DEF TypeInv, QueueOK, EntryOf, Priority
<1>8. allproposed \in [Node -> [Message -> SUBSET Priority]]
  BY DEF TypeInv, ProposedOK, Priority
<1>9. delivered \in [Node -> Seq(sent)] /\ balance \in [Node -> [Account -> Nat]]
  BY DEF TypeInv, DeliveredOK, BalanceOK
<1> QED BY <1>1, <1>2, <1>3, <1>4, <1>5, <1>6, <1>7, <1>8, <1>9 DEF TypeOK

LEMMA TypeInvAlways == Spec => []TypeInv
BY TypeInvInit, TypeInvStep, PTL DEF Spec

\* The fields of every node hold what their declarations say, whoever dies:
\* a node never counts so many out that it would wait for nobody's proposal
\* (node_n stays above zero), and updateBalance overdraws no account.
THEOREM TypeCorrect == Spec => []TypeOK
BY TypeInvAlways, TypeInvTypes, PTL

-----------------------------------------------------------------------------
(***************************************************************************)
(* The four kinds of steps keep the agreements.                            *)
(***************************************************************************)
LEMMA StandsStillKeeps ==
    ASSUME TypeInv, AgreementInv, StandsStill
    PROVE  AgreementInv'
<1>1. \A k \in Node, m \in Message : Delivered(k, m)' <=> Delivered(k, m)
  BY DEF StandsStill, Delivered
<1>2. PendingUnknown'
  BY <1>1 DEF AgreementInv, PendingUnknown, StandsStill, NoMorePending, NoMoreProposed
<1>3. OneProposal'
  BY DEF AgreementInv, OneProposal, StandsStill, NoMoreProposed
<1>4. ProposedHere'
  BY <1>1 DEF AgreementInv, OneProposal, ProposedHere, StandsStill, NoMoreProposed
<1>5. AgreedHighest' /\ OneAgreement'
  BY DEF AgreementInv, AgreedHighest, OneAgreement, StandsStill, NoMoreProposed, NoMoreAgreed
<1>6. AgreedFinds'
  BY <1>1 DEF AgreementInv, AgreedFinds, Finds, StandsStill, NoMoreAgreed
<1> QED BY <1>2, <1>3, <1>4, <1>5, <1>6 DEF AgreementInv

LEMMA ProposesKeeps ==
    ASSUME TypeInv, AgreementInv,
           NEW n \in Node, NEW m \in Message, NEW p \in Nat, Proposes(n, m, p)
    PROVE  AgreementInv'
<1>1. \A k \in Node, h \in Message : Delivered(k, h)' <=> Delivered(k, h)
  BY DEF Proposes, Delivered
<1>2. \A k \in Node : \A e : e \in queue[k]' <=>
                                 e \in queue[k] \/ (k = n /\ e = Entry(m, p, FALSE))
  BY DEF Proposes, TypeInv, QueueOK
<1>3. \A h \in Message, q \in Nat :
         Proposed(h, q)' => Proposed(h, q) \/ (h = m /\ q = p)
  BY DEF Proposes
<1>4. /\ p % 10 = n
      /\ \A q \in Nat : Proposed(m, q) => q % 10 # n
      /\ ~Delivered(n, m) /\ \A e \in queue[n] : e.id # m
  BY DEF Proposes, AgreementInv, PendingUnknown
\* Had there been an agreement it would have found m at n.
<1>5. \A a \in Nat : ~AgreedOn(m, a)
  BY <1>4 DEF AgreementInv, AgreedFinds, Finds
<1>6. /\ Entry(m, p, FALSE).id = m /\ Entry(m, p, FALSE).priority = p
      /\ ~Entry(m, p, FALSE).deliverable
  BY DEF Entry
<1>7. PendingUnknown'
  <2> SUFFICES ASSUME NEW k \in Node, NEW h \in Message, Pending(k, h)'
               PROVE  /\ ~Delivered(k, h)' /\ \A e \in queue[k]' : e.id # h
                      /\ \A q \in Nat : Proposed(h, q)' => q % 10 # k
    BY DEF PendingUnknown
  <2>1. Pending(k, h) /\ ~(k = n /\ h = m)
    BY DEF Proposes, NoMorePending
  <2>2. /\ ~Delivered(k, h) /\ \A e \in queue[k] : e.id # h
        /\ \A q \in Nat : Proposed(h, q) => q % 10 # k
    BY <2>1 DEF AgreementInv, PendingUnknown
  <2> QED BY <1>1, <1>2, <1>3, <1>4, <1>6, <2>1, <2>2
<1>8. OneProposal'
  BY <1>3, <1>4 DEF AgreementInv, OneProposal
<1>9. ProposedHere'
  <2> SUFFICES ASSUME NEW h \in Message, NEW q \in Nat, Proposed(h, q)'
               PROVE  \/ Delivered(q % 10, h)'
                      \/ \E e \in queue[q % 10]' :
                            e.id = h /\ (e.deliverable \/ e.priority = q)
    BY DEF ProposedHere
  <2>1. CASE Proposed(h, q)
    <3>1. q % 10 \in Node
      BY <2>1 DEF AgreementInv, OneProposal
    <3>2. \/ Delivered(q % 10, h)
          \/ \E e \in queue[q % 10] : e.id = h /\ (e.deliverable \/ e.priority = q)
      BY <2>1 DEF AgreementInv, ProposedHere
    <3> QED BY <1>1, <1>2, <3>1, <3>2
  <2>2. CASE h = m /\ q = p
    BY <1>2, <1>4, <1>6, <2>2
  <2> QED BY <1>3, <2>1, <2>2
<1>10. \A h \in Message, a \in Nat : AgreedOn(h, a)' => AgreedOn(h, a) /\ h # m
  BY <1>5 DEF Proposes, NoMoreAgreed
<1>11. AgreedHighest'
  BY <1>3, <1>10 DEF AgreementInv, AgreedHighest
<1>12. OneAgreement'
  BY <1>10 DEF AgreementInv, OneAgreement
<1>13. AgreedFinds'
  <2>1. \A k \in Node, h \in Message, a \in Nat : Finds(k, h, a) => Finds(k, h, a)'
    BY <1>1, <1>2 DEF Finds
  <2> QED BY <1>10, <2>1 DEF AgreementInv, AgreedFinds
<1> QED BY <1>7, <1>8, <1>9, <1>11, <1>12, <1>13 DEF AgreementInv

LEMMA DecidesKeeps ==
    ASSUME TypeInv, AgreementInv,
           NEW m \in Message, NEW P \in SUBSET Nat, IsFiniteSet(P), Decides(m, P)
    PROVE  AgreementInv'
<1>1. \A k \in Node, h \in Message : Delivered(k, h)' <=> Delivered(k, h)
  BY DEF Decides, Delivered
<1>2. queue' = queue
  BY DEF Decides
<1>3. /\ \A p \in P : Proposed(m, p) /\ p % 10 \in Node
      /\ \A p, q \in P : p % 10 = q % 10 => p = q
  BY DEF Decides, AgreementInv, OneProposal
<1>4. \A k \in Node : \E p \in P : p % 10 = k
  BY <1>3, EveryNodeProposed DEF Decides
<1>5. PICK a : a = Max(P)
  OBVIOUS
<1>6. a \in P /\ a \in Nat /\ \A p \in P : p <= a
  <2>1. P # {}
    BY <1>4, NodeAssumption
  <2> QED BY <1>5, <2>1, MaxOfFinite
\* Everyone has proposed already, so that no other proposal is under way.
<1>7. \A q \in Nat : Proposed(m, q) => q \in P
  <2> TAKE q \in Nat
  <2> HAVE Proposed(m, q)
  <2>1. q % 10 \in Node
    BY DEF AgreementInv, OneProposal
  <2>2. PICK p \in P : p % 10 = q % 10
    BY <1>4, <2>1
  <2>3. p = q
    BY <1>3, <2>2 DEF AgreementInv, OneProposal
  <2> QED BY <2>3
\* What was agreed before, if anything, is the highest of them as well.
<1>8. \A b \in Nat : AgreedOn(m, b) => b = a
  <2> TAKE b \in Nat
  <2> HAVE AgreedOn(m, b)
  <2>1. /\ b % 10 \in Node
        /\ \A p \in Nat : Proposed(m, p) => p <= b /\ (p % 10 = b % 10 => p = b)
    BY DEF AgreementInv, AgreedHighest
  <2>2. PICK p \in P : p % 10 = b % 10
    BY <1>4, <2>1
  <2>3. p = b /\ a <= b
    BY <1>3, <1>6, <2>1, <2>2
  <2> QED BY <1>6, <2>3
<1>9. \A h \in Message, b \in Nat :
         AgreedOn(h, b)' => AgreedOn(h, b) \/ (h = m /\ b = a)
  BY <1>5 DEF Decides
<1>10. \A h \in Message, q \in Nat : Proposed(h, q)' => Proposed(h, q)
  BY DEF Decides, NoMoreProposed
<1>11. PendingUnknown'
  BY <1>1, <1>2, <1>10 DEF AgreementInv, PendingUnknown, Decides, NoMorePending
<1>12. OneProposal'
  BY <1>10 DEF AgreementInv, OneProposal
<1>13. ProposedHere'
  BY <1>1, <1>2, <1>10 DEF AgreementInv, OneProposal, ProposedHere
<1>14. AgreedHighest'
  <2> SUFFICES ASSUME NEW h \in Message, NEW b \in Nat, AgreedOn(h, b)'
               PROVE  /\ b % 10 \in Node
                      /\ \A p \in Nat : Proposed(h, p)' =>
                                            p <= b /\ (p % 10 = b % 10 => p = b)
    BY DEF AgreedHighest
  <2>1. CASE AgreedOn(h, b)
    BY <1>10, <2>1 DEF AgreementInv, AgreedHighest
  <2>2. CASE h = m /\ b = a
    BY <1>3, <1>6, <1>7, <1>10, <2>2
  <2> QED BY <1>9, <2>1, <2>2
<1>15. OneAgreement'
  BY <1>8, <1>9 DEF AgreementInv, OneAgreement
<1>16. AgreedFinds'
  <2> SUFFICES ASSUME NEW h \in Message, NEW b \in Nat, NEW k \in Node, AgreedOn(h, b)'
               PROVE  Finds(k, h, b)'
    BY DEF AgreedFinds
  <2>1. Finds(k, h, b) => Finds(k, h, b)'
    BY <1>1, <1>2 DEF Finds
  <2>2. CASE AgreedOn(h, b)
    BY <2>1, <2>2 DEF AgreementInv, AgreedFinds
  <2>3. CASE h = m /\ b = a
    <3>1. PICK p \in P : p % 10 = k
      BY <1>4
    <3>2. \/ Delivered(k, m)
          \/ \E e \in queue[k] : e.id = m /\ (e.deliverable \/ e.priority = p)
      BY <1>3, <3>1 DEF AgreementInv, ProposedHere
    <3>3. ASSUME NEW e \in queue[k], e.id = m, e.deliverable
          PROVE  e.priority = a
      <4>1. e = Entry(m, e.priority, TRUE) /\ e.priority \in Nat
        BY <3>3 DEF TypeInv, QueueOK, EntryOf, Entry
      <4>2. AgreedOn(m, e.priority)
        BY <4>1 DEF AgreedOn
      <4> QED BY <1>8, <4>1, <4>2
    <3>4. Finds(k, m, a)
      BY <1>6, <3>2, <3>3 DEF Finds
    <3> QED BY <2>1, <2>3, <3>4
  <2> QED BY <1>9, <2>2, <2>3
<1> QED BY <1>11, <1>12, <1>13, <1>14, <1>15, <1>16 DEF AgreementInv

LEMMA HandsOverKeeps ==
    ASSUME TypeInv, AgreementInv,
           NEW n \in Node, NEW m \in Message, NEW a \in Nat, HandsOver(n, m, a)
    PROVE  AgreementInv'
<1> DEFINE q == Replaced(queue[n], m, a)
<1>1. /\ \A k \in Node, h \in Message :
            Delivered(k, h)' <=>
                Delivered(k, h) \/ (k = n /\ \E e \in Popped(q) : e.id = h)
      /\ \A k \in Node : k # n => queue'[k] = queue[k]
      /\ queue'[n] = q \ Popped(q)
  BY DEF HandsOver, TypeInv, QueueOK
<1>2. /\ Entry(m, a, TRUE).id = m /\ Entry(m, a, TRUE).priority = a
      /\ Entry(m, a, TRUE).deliverable
  BY DEF Entry
\* The heap before anything is popped: m's entry is there, with priority a.
<1>3. /\ \A e \in q : e \in queue[n] \/ e = Entry(m, a, TRUE)
      /\ \A e \in q : \E f \in queue[n] : f.id = e.id
      /\ \A e \in queue[n] : e.id # m => e \in q
      /\ (\E e \in queue[n] : e.id = m) => Entry(m, a, TRUE) \in q
  BY <1>2 DEF Replaced
<1>4. Popped(q) \subseteq q
  BY DEF Popped
<1> HIDE DEF q
<1>5. \A e \in q : e \in queue'[n] \/ Delivered(n, e.id)' \/ e.id \notin Message
  BY <1>1
<1>6. /\ \A h \in Message, p \in Nat : Proposed(h, p)' => Proposed(h, p)
      /\ \A h \in Message, b \in Nat : AgreedOn(h, b)' => AgreedOn(h, b)
      /\ AgreedOn(m, a)
  BY DEF HandsOver, NoMoreProposed, NoMoreAgreed
<1>7. PendingUnknown'
  <2> SUFFICES ASSUME NEW k \in Node, NEW h \in Message, Pending(k, h)'
               PROVE  /\ ~Delivered(k, h)' /\ \A e \in queue[k]' : e.id # h
                      /\ \A p \in Nat : Proposed(h, p)' => p % 10 # k
    BY DEF PendingUnknown
  <2>1. Pending(k, h)
    BY DEF HandsOver, NoMorePending
  <2>2. /\ ~Delivered(k, h) /\ \A e \in queue[k] : e.id # h
        /\ \A p \in Nat : Proposed(h, p) => p % 10 # k
    BY <2>1 DEF AgreementInv, PendingUnknown
  <2>3. k = n => \A e \in q : e.id # h
    BY <1>3, <2>2
  <2>4. ~Delivered(k, h)'
    BY <1>1, <1>4, <2>2, <2>3
  <2>5. \A e \in queue[k]' : e.id # h
    BY <1>1, <2>2, <2>3
  <2> QED BY <1>6, <2>2, <2>4, <2>5
<1>8. OneProposal'
  BY <1>6 DEF AgreementInv, OneProposal
<1>9. AgreedHighest' /\ OneAgreement'
  BY <1>6 DEF AgreementInv, AgreedHighest, OneAgreement
<1>10. ProposedHere'
  <2> SUFFICES ASSUME NEW h \in Message, NEW p \in Nat, Proposed(h, p)'
               PROVE  \/ Delivered(p % 10, h)'
                      \/ \E e \in queue[p % 10]' :
                            e.id = h /\ (e.deliverable \/ e.priority = p)
    BY DEF ProposedHere
  <2>1. PICK k \in Node : k = p % 10
    BY <1>6 DEF AgreementInv, OneProposal
  <2>2. \/ Delivered(k, h)
        \/ \E e \in queue[k] : e.id = h /\ (e.deliverable \/ e.priority = p)
    BY <1>6, <2>1 DEF AgreementInv, ProposedHere
  <2>3. CASE Delivered(k, h) \/ k # n
    BY <1>1, <2>1, <2>2, <2>3
  <2>4. CASE k = n /\ ~Delivered(k, h)
    <3>1. PICK e \in queue[n] : e.id = h /\ (e.deliverable \/ e.priority = p)
      BY <2>2, <2>4
    <3>2. \E f \in q : f.id = h /\ (f.deliverable \/ f.priority = p)
      BY <1>2, <1>3, <3>1
    <3> QED BY <1>5, <2>1, <2>4, <3>2
  <2> QED BY <2>3, <2>4
<1>11. AgreedFinds'
  <2> SUFFICES ASSUME NEW h \in Message, NEW b \in Nat, NEW k \in Node, AgreedOn(h, b)'
               PROVE  Finds(k, h, b)'
    BY DEF AgreedFinds
  <2>1. AgreedOn(h, b) /\ Finds(k, h, b)
    BY <1>6 DEF AgreementInv, AgreedFinds
  <2>2. CASE Delivered(k, h) \/ k # n
    <3>1. Delivered(k, h) => Delivered(k, h)'
      BY <1>1
    <3>2. k # n => queue'[k] = queue[k]
      BY <1>1
    <3> QED BY <2>1, <2>2, <3>1, <3>2 DEF Finds
  <2>3. CASE k = n /\ ~Delivered(k, h)
    <3>1. PICK e \in queue[n] : /\ e.id = h /\ e.priority <= b
                                /\ e.deliverable => e.priority = b
      BY <2>1, <2>3 DEF Finds
    <3>2. h = m => a = b
      BY <1>6, <2>1 DEF AgreementInv, OneAgreement
    <3>3. \E f \in q : /\ f.id = h /\ f.priority <= b
                       /\ f.deliverable => f.priority = b
      <4>1. CASE h = m
        <5>1. Entry(m, a, TRUE) \in q
          BY <1>3, <3>1, <4>1
        <5>2. Entry(m, a, TRUE).id = h /\ Entry(m, a, TRUE).priority = b
          BY <1>2, <3>2, <4>1
        <5>3. b <= b
          OBVIOUS
        <5> WITNESS Entry(m, a, TRUE) \in q
        <5> QED BY <5>2, <5>3
      <4>2. CASE h # m
        BY <1>3, <3>1, <4>2
      <4> QED BY <4>1, <4>2
    <3>4. PICK f \in q : /\ f.id = h /\ f.priority <= b
                         /\ f.deliverable => f.priority = b
      BY <3>3
    <3>5. f \in queue'[n] \/ Delivered(n, h)'
      BY <1>5, <3>4
    <3> QED BY <2>3, <3>4, <3>5 DEF Finds
  <2> QED BY <2>2, <2>3
<1> QED BY <1>7, <1>8, <1>9, <1>10, <1>11 DEF AgreementInv

-----------------------------------------------------------------------------
(***************************************************************************)
(* Every step is of one of the four kinds.                                 *)
(***************************************************************************)
\* A thread moves, and no other one.
LEMMA ThreadMoves ==
    ASSUME TypeInv, NEW n \in Node, NEW s \in Node, NEW place, Goto(n, s, place)
    PROVE  \A k, r \in Node :
              thread'[k][r] = IF k = n /\ r = s THEN place ELSE thread[k][r]
BY DEF TypeInv, ThreadOK, Goto

\* Steps that mark no message as received.
LEMMA OnceStep ==
    ASSUME ReceivedOnce, received' = received,
           \A k, r \in Node, m \in Message : AboutTo(k, r, m)' => AboutTo(k, r, m),
           \A s, d \in Node : \A w \in ToSet(link'[s][d]) :
              w.type = "MESSAGE" => w \in ToSet(link[s][d]) \/ w.id \notin received[d]
    PROVE  ReceivedOnce' /\ NoMorePending
<1>1. ReceivedOnce'
  <2>1. ASSUME NEW n \in Node, NEW s \in Node, NEW m \in Message, AboutTo(n, s, m)'
        PROVE  m \in received'[n] /\ \A r \in Node : AboutTo(n, r, m)' => r = s
    BY <2>1 DEF ReceivedOnce
  <2>2. ASSUME NEW s \in Node, NEW n \in Node, NEW w \in ToSet(link'[s][n]),
               w.type = "MESSAGE"
        PROVE  w.id \notin received'[n]
    BY <2>2 DEF ReceivedOnce
  <2>3. \A n, s \in Node, m \in Message :
           AboutTo(n, s, m)' =>
              (m \in received[n])' /\ \A r \in Node : AboutTo(n, r, m)' => r = s
    BY <2>1
  <2> QED BY <2>2, <2>3 DEF ReceivedOnce
<1>2. NoMorePending
  BY DEF NoMorePending, Pending
<1> QED BY <1>1, <1>2

\* What is under way after a thread has moved was so before, but for X.
LEMMA WireStep ==
    ASSUME TypeInv, NEW X, NEW n \in Node, NEW s \in Node, NEW place, Goto(n, s, place),
           \A w : w.type # "MESSAGE" /\ Carries(place, w) => UnderWay(w) \/ w \in X,
           \A k, d \in Node : \A w \in ToSet(link'[k][d]) :
              w.type # "MESSAGE" => UnderWay(w) \/ w \in X
    PROVE  \A w : w.type # "MESSAGE" /\ UnderWay(w)' => UnderWay(w) \/ w \in X
<1> SUFFICES ASSUME NEW w, w.type # "MESSAGE", UnderWay(w)'
             PROVE  UnderWay(w) \/ w \in X
  OBVIOUS
<1>1. CASE \E k, d \in Node : w \in ToSet(link'[k][d])
  BY <1>1
<1>2. CASE \E k, r \in Node : Carries(thread'[k][r], w)
  <2>1. PICK k \in Node, r \in Node : Carries(thread'[k][r], w)
    BY <1>2
  <2>2. thread'[k][r] = IF k = n /\ r = s THEN place ELSE thread[k][r]
    BY ThreadMoves
  <2>3. CASE k = n /\ r = s
    BY <2>1, <2>2, <2>3
  <2>4. CASE ~(k = n /\ r = s)
    <3>1. Carries(thread[k][r], w)
      BY <2>1, <2>2, <2>4
    <3> QED BY <3>1 DEF UnderWay
  <2> QED BY <2>3, <2>4
<1> QED BY <1>1, <1>2 DEF UnderWay

\* Steps that bring no new proposal or agreement under way.
LEMMA FewerViews ==
    ASSUME \A w : w.type # "MESSAGE" /\ UnderWay(w)' => UnderWay(w)
    PROVE  /\ UNCHANGED allproposed => NoMoreProposed
           /\ UNCHANGED queue => NoMoreAgreed
<1>1. \A m, p : Proposal(m, p).type # "MESSAGE" /\ Agreement(m, p).type # "MESSAGE"
  BY DEF Proposal, Agreement
<1>2. UNCHANGED allproposed => NoMoreProposed
  BY <1>1 DEF NoMoreProposed, Proposed
<1>3. UNCHANGED queue => NoMoreAgreed
  BY <1>1 DEF NoMoreAgreed, AgreedOn
<1> QED BY <1>2, <1>3

\* A wire is what its fields say.
LEMMA WireFields ==
    ASSUME NEW w \in Wire
    PROVE  /\ w.type \in {"MESSAGE", "PROPOSE", "AGREE"}
           /\ w.id \in Message /\ w.priority \in Nat
           /\ w.type = "MESSAGE" => w # Agreement(w.id, w.priority)
           /\ w.type = "PROPOSE" => w = Proposal(w.id, w.priority)
           /\ w.type = "AGREE" => w = Agreement(w.id, w.priority)
BY DEF Wire, Priority, Proposal, Agreement

LEMMA LinkWires ==
    ASSUME TypeInv, NEW s \in Node, NEW n \in Node, NEW w \in ToSet(link[s][n])
    PROVE  w \in WireOf(sent) /\ w \in Wire /\ UnderWay(w)
<1>1. link[s][n] \in Seq(WireOf(sent))
  BY DEF TypeInv, LinkOK
<1>2. PICK k \in DOMAIN link[s][n] : w = link[s][n][k]
  BY DEF ToSet
<1>3. w \in WireOf(sent)
  BY <1>1, <1>2
<1> QED BY <1>3 DEF WireOf, UnderWay

\* A new transaction.
LEMMA SendStep ==
    ASSUME TypeInv, ReceivedOnce, NEW m \in Message, Send(m)
    PROVE  ReceivedOnce' /\ StandsStill
<1>1. /\ UNCHANGED <<thread, received, queue, delivered, allproposed>>
      /\ Broadcast(Origin[m], <<Transaction(m)>>)
  BY DEF Send, marks, isisVars
<1>2. \A s, d \in Node : \A w \in ToSet(link'[s][d]) :
         \/ w \in ToSet(link[s][d])
         \/ w.type = "MESSAGE" /\ w.id \notin received[d]
  <2>1. PICK W : W = WireOf(sent \cup {m})
    OBVIOUS
  <2>2. link \in [Node -> [Node -> Seq(W)]]
    <3>1. Seq(WireOf(sent)) \subseteq Seq(W)
      BY <2>1 DEF WireOf
    <3> QED BY <3>1 DEF TypeInv, LinkOK
  <2>3. <<Transaction(m)>> \in Seq(W) /\ Origin[m] \in Node
    BY <2>1, OriginAssumption DEF WireOf, Transaction, Wire, Priority
  <2>4. \A s, d \in Node : \A w \in ToSet(link'[s][d]) :
           \/ w \in ToSet(link[s][d])
           \/ w \in ToSet(<<Transaction(m)>>) /\ ~Marked(d, w)
    BY <1>1, <2>2, <2>3, BroadcastProps
  <2>5. \A w \in ToSet(<<Transaction(m)>>) : w.type = "MESSAGE"
    BY DEF ToSet, Transaction
  <2> QED BY <2>4, <2>5 DEF Marked
<1>3. \A k, r \in Node, h \in Message : AboutTo(k, r, h)' => AboutTo(k, r, h)
  BY <1>1 DEF AboutTo
<1>4. ReceivedOnce' /\ NoMorePending
  BY <1>1, <1>2, <1>3, OnceStep
<1>5. \A w : w.type # "MESSAGE" /\ UnderWay(w)' => UnderWay(w)
  BY <1>1, <1>2 DEF UnderWay
<1> QED BY <1>1, <1>4, <1>5, FewerViews DEF StandsStill

LEMMA ReadsLinks ==
    ASSUME TypeInv, NEW n \in Node, NEW s \in Node, NEW w, Reads(n, s, w)
    PROVE  /\ w \in ToSet(link[s][n]) /\ w \in Wire /\ UnderWay(w)
           /\ thread[n][s] = Receiving
           /\ \A k, d \in Node : \A v \in ToSet(link'[k][d]) :
                 v \in ToSet(link[k][d]) /\ (d = n => ~Alike(v, w))
<1>1. PICK W : W = WireOf(sent)
  OBVIOUS
<1>2. link \in [Node -> [Node -> Seq(W)]]
  BY <1>1 DEF TypeInv, LinkOK
<1>3. /\ w \in ToSet(link[s][n])
      /\ \A k, d \in Node : \A v \in ToSet(link'[k][d]) :
            v \in ToSet(link[k][d]) /\ (d = n => ~Alike(v, w))
  BY <1>2, ReadsProps
<1>4. w \in Wire /\ UnderWay(w)
  BY <1>3, LinkWires
<1> QED BY <1>3, <1>4 DEF Reads

\* No thread at Receiving holds a message.
LEMMA HoldsNothing ==
    /\ \A m : ~AsksFor(Receiving, m)
    /\ \A w : ~Carries(Receiving, w)
BY DEF AsksFor, Carries, Receiving

LEMMA TakeMessageStep ==
    ASSUME TypeInv, ReceivedOnce, NEW n \in Node, NEW s \in Node, NEW w,
           TakeMessage(n, s, w)
    PROVE  ReceivedOnce' /\ StandsStill
<1> DEFINE place == [at |-> "flood", wires |-> <<w>>, next |-> "propose"]
<1>1. /\ Reads(n, s, w) /\ w.type = "MESSAGE" /\ Goto(n, s, place)
      /\ received' = [received EXCEPT ![n] = @ \cup {w.id}]
      /\ UNCHANGED <<queue, delivered, allproposed>>
  BY DEF TakeMessage, isisVars
<1>2. /\ \A m : AsksFor(place, m) <=> m = w.id
      /\ \A v : Carries(place, v) => v = w
  BY DEF AsksFor, Carries
<1> HIDE DEF place
<1>3. /\ w \in ToSet(link[s][n]) /\ w.id \in Message
      /\ \A k, d \in Node : \A v \in ToSet(link'[k][d]) :
            v \in ToSet(link[k][d]) /\ (d = n => ~Alike(v, w))
  BY <1>1, ReadsLinks, WireFields
<1>4. \A k, r \in Node :
         thread'[k][r] = IF k = n /\ r = s THEN place ELSE thread[k][r]
  BY <1>1, ThreadMoves
<1>5. \A k, r \in Node, m \in Message :
         AboutTo(k, r, m)' => \/ AboutTo(k, r, m) /\ ~(k = n /\ r = s)
                              \/ k = n /\ r = s /\ m = w.id
  BY <1>2, <1>4 DEF AboutTo
<1>6. \A k \in Node : received'[k] = IF k = n THEN received[n] \cup {w.id} ELSE received[k]
  BY <1>1 DEF TypeInv, MarksOK
<1>7. w.id \notin received[n]
  BY <1>1, <1>3 DEF ReceivedOnce
<1>8. \A r \in Node : ~AboutTo(n, r, w.id)
  BY <1>3, <1>7 DEF ReceivedOnce
<1>9. ReceivedOnce'
  <2>1. ASSUME NEW k \in Node, NEW r \in Node, NEW m \in Message, AboutTo(k, r, m)'
        PROVE  m \in received'[k] /\ \A q \in Node : AboutTo(k, q, m)' => q = r
    <3>1. CASE k = n /\ m = w.id
      BY <1>5, <1>6, <1>8, <2>1, <3>1
    <3>2. CASE ~(k = n /\ m = w.id)
      <4>1. AboutTo(k, r, m) /\ \A q \in Node : AboutTo(k, q, m)' => AboutTo(k, q, m)
        BY <1>5, <2>1, <3>2
      <4> QED BY <1>6, <4>1 DEF ReceivedOnce
    <3> QED BY <3>1, <3>2
  <2>2. ASSUME NEW k \in Node, NEW d \in Node, NEW v \in ToSet(link'[k][d]),
               v.type = "MESSAGE"
        PROVE  v.id \notin received'[d]
    <3>1. v \in ToSet(link[k][d]) /\ v.id \notin received[d]
      BY <1>3, <2>2 DEF ReceivedOnce
    <3>2. d = n => v.id # w.id
      BY <1>1, <1>3, <2>2 DEF Alike
    <3> QED BY <1>6, <3>1, <3>2
  <2>3. \A k, r \in Node, m \in Message :
           AboutTo(k, r, m)' =>
              (m \in received[k])' /\ \A q \in Node : AboutTo(k, q, m)' => q = r
    BY <2>1
  <2> QED BY <2>2, <2>3 DEF ReceivedOnce
<1>10. NoMorePending
  BY <1>5, <1>6, <1>7 DEF NoMorePending, Pending
<1>11. \A v : v.type # "MESSAGE" /\ UnderWay(v)' => UnderWay(v)
  <2>1. \A k, d \in Node : \A v \in ToSet(link'[k][d]) : UnderWay(v)
    BY <1>3 DEF UnderWay
  <2>2. \A v : Carries(place, v) => UnderWay(v)
    BY <1>1, <1>2, ReadsLinks
  <2>3. \A v : v.type # "MESSAGE" /\ UnderWay(v)' => UnderWay(v) \/ v \in {}
    BY <1>1, <2>1, <2>2, WireStep
  <2> QED BY <2>3
<1> QED BY <1>1, <1>9, <1>10, <1>11, FewerViews DEF StandsStill

LEMMA TakeAgreementStep ==
    ASSUME TypeInv, ReceivedOnce, NEW n \in Node, NEW s \in Node, NEW w,
           TakeAgreement(n, s, w)
    PROVE  ReceivedOnce' /\ StandsStill
<1> DEFINE place == [at |-> "flood", wires |-> <<w>>, next |-> "deliver"]
<1>1. /\ Reads(n, s, w) /\ Goto(n, s, place)
      /\ UNCHANGED <<received, queue, delivered, allproposed>>
  BY DEF TakeAgreement, isisVars
<1>2. /\ \A m : ~AsksFor(place, m)
      /\ \A v : Carries(place, v) => v = w
  BY DEF AsksFor, Carries
<1> HIDE DEF place
<1>3. /\ UnderWay(w)
      /\ \A k, d \in Node : \A v \in ToSet(link'[k][d]) : v \in ToSet(link[k][d])
  BY <1>1, ReadsLinks
<1>4. \A k, r \in Node :
         thread'[k][r] = IF k = n /\ r = s THEN place ELSE thread[k][r]
  BY <1>1, ThreadMoves
<1>5. \A k, r \in Node, m \in Message : AboutTo(k, r, m)' => AboutTo(k, r, m)
  BY <1>2, <1>4 DEF AboutTo
<1>6. ReceivedOnce' /\ NoMorePending
  BY <1>1, <1>3, <1>5, OnceStep
<1>7. \A v : v.type # "MESSAGE" /\ UnderWay(v)' => UnderWay(v)
  <2>1. \A k, d \in Node : \A v \in ToSet(link'[k][d]) : UnderWay(v)
    BY <1>3 DEF UnderWay
  <2>2. \A v : Carries(place, v) => UnderWay(v)
    BY <1>2, <1>3
  <2>3. \A v : v.type # "MESSAGE" /\ UnderWay(v)' => UnderWay(v) \/ v \in {}
    BY <1>1, <2>1, <2>2, WireStep
  <2> QED BY <2>3
<1> QED BY <1>1, <1>6, <1>7, FewerViews DEF StandsStill

LEMMA FloodStep ==
    ASSUME TypeInv, ReceivedOnce, NEW n \in Node, NEW s \in Node, Flood(n, s)
    PROVE  ReceivedOnce' /\ StandsStill
<1>1. /\ thread[n][s].at = "flood"
      /\ UNCHANGED <<received, queue, delivered, allproposed>>
  BY DEF Flood, marks, isisVars
<1>2. PICK w \in WireOf(sent) :
         /\ thread[n][s].wires = <<w>>
         /\ \/ w.type = "MESSAGE" /\ thread[n][s].next = "propose"
            \/ w.type = "AGREE" /\ thread[n][s].next \in {"recv", "deliver"}
  <2>1. thread[n][s] \in PlaceOf(sent)
    BY DEF TypeInv, ThreadOK
  <2> QED BY <1>1, <2>1, PlaceCases
<1> DEFINE place == IF thread[n][s].next = "recv" THEN Receiving
                    ELSE [at |-> thread[n][s].next, wire |-> w]
<1>3. Goto(n, s, place) /\ Broadcast(n, <<w>>)
  BY <1>2 DEF Flood
<1>4. UnderWay(w)
  BY <1>1, <1>2 DEF UnderWay, Carries
<1>5. /\ \A m : AsksFor(place, m) => AsksFor(thread[n][s], m)
      /\ \A v : Carries(place, v) => v = w
  BY <1>1, <1>2, HoldsNothing DEF AsksFor, Carries
<1> HIDE DEF place
<1>6. \A k, d \in Node : \A v \in ToSet(link'[k][d]) :
         \/ v \in ToSet(link[k][d])
         \/ v = w /\ ~Marked(d, w)
  <2>1. PICK W : W = WireOf(sent)
    OBVIOUS
  <2>2. link \in [Node -> [Node -> Seq(W)]] /\ <<w>> \in Seq(W)
    BY <2>1 DEF TypeInv, LinkOK
  <2>3. ToSet(<<w>>) = {w}
    BY DEF ToSet
  <2>4. \A k, d \in Node : \A v \in ToSet(link'[k][d]) :
           \/ v \in ToSet(link[k][d])
           \/ v \in ToSet(<<w>>) /\ ~Marked(d, v)
    BY <1>3, <2>2, BroadcastProps
  <2> QED BY <2>3, <2>4
<1>7. \A k, r \in Node :
         thread'[k][r] = IF k = n /\ r = s THEN place ELSE thread[k][r]
  BY <1>3, ThreadMoves
<1>8. \A k, r \in Node, m \in Message : AboutTo(k, r, m)' => AboutTo(k, r, m)
  BY <1>5, <1>7 DEF AboutTo
<1>9. \A k, d \in Node : \A v \in ToSet(link'[k][d]) :
         v.type = "MESSAGE" => v \in ToSet(link[k][d]) \/ v.id \notin received[d]
  BY <1>6 DEF Marked
<1>10. ReceivedOnce' /\ NoMorePending
  BY <1>1, <1>8, <1>9, OnceStep
<1>11. \A v : v.type # "MESSAGE" /\ UnderWay(v)' => UnderWay(v)
  <2>1. \A k, d \in Node : \A v \in ToSet(link'[k][d]) : UnderWay(v)
    BY <1>4, <1>6 DEF UnderWay
  <2>2. \A v : Carries(place, v) => UnderWay(v)
    BY <1>4, <1>5
  <2>3. \A v : v.type # "MESSAGE" /\ UnderWay(v)' => UnderWay(v) \/ v \in {}
    BY <1>3, <2>1, <2>2, WireStep
  <2> QED BY <2>3
<1> QED BY <1>1, <1>10, <1>11, FewerViews DEF StandsStill

\* As long as nobody has died a node waits for a proposal of every node.
LEMMA WaitsForAll ==
    ASSUME TypeInv, alive = Node, NEW n \in Node, NEW P
    PROVE  All(n, P) <=> Cardinality(P) = Cardinality(Node)
<1>1. Gone(n) = {}
  BY DEF TypeInv, CountOK
<1>2. node_n[n] = Cardinality(Node)
  BY <1>1, NodeFinite, FS_EmptySet DEF TypeInv, CountOK
<1> QED BY <1>2 DEF All

LEMMA TakeProposalStep ==
    ASSUME TypeInv, ReceivedOnce, NEW n \in Node, NEW s \in Node, NEW w,
           TakeProposal(n, s, w)
    PROVE  /\ ReceivedOnce' /\ NoMorePending
           /\ alive = Node =>
                 \/ StandsStill
                 \/ \E m \in Message, P \in SUBSET Nat : IsFiniteSet(P) /\ Decides(m, P)
<1> DEFINE P == allproposed[n][w.id] \cup {w.priority}
<1>1. /\ Reads(n, s, w) /\ w.type = "PROPOSE"
      /\ UNCHANGED <<received, queue, delivered>>
  BY DEF TakeProposal, marks
<1>2. /\ w.id \in Message /\ w.priority \in Nat /\ thread[n][s] = Receiving
      /\ UnderWay(Proposal(w.id, w.priority))
      /\ \A k, d \in Node : \A v \in ToSet(link'[k][d]) : v \in ToSet(link[k][d])
  BY <1>1, ReadsLinks, WireFields
<1>3. P \in SUBSET Nat /\ IsFiniteSet(P)
  BY <1>2, OneMoreProposal
<1>4. \A p \in P : Proposed(w.id, p)
  BY <1>2 DEF Proposed
<1>5. CASE All(n, P)
  <2> DEFINE a == Agreement(w.id, Max(P))
             place == [at |-> "flood", next |-> "recv", wires |-> <<a>>]
  <2>1. /\ allproposed' = [allproposed EXCEPT ![n][w.id] = {}]
        /\ Goto(n, s, place)
    BY <1>5 DEF TakeProposal
  <2>2. /\ \A m : ~AsksFor(place, m)
        /\ \A v : Carries(place, v) => v \in {a}
    BY DEF AsksFor, Carries
  <2>3. /\ \A m, p : Agreement(m, p) = a => m = w.id /\ p = Max(P)
        /\ \A m, p : Proposal(m, p) # a
        /\ \A m, p : Proposal(m, p).type # "MESSAGE" /\ Agreement(m, p).type # "MESSAGE"
    BY DEF Agreement, Proposal
  <2> HIDE DEF place, a, P
  <2>4. \A k, r \in Node :
           thread'[k][r] = IF k = n /\ r = s THEN place ELSE thread[k][r]
    BY <2>1, ThreadMoves
  <2>5. \A k, r \in Node, m \in Message : AboutTo(k, r, m)' => AboutTo(k, r, m)
    BY <2>2, <2>4 DEF AboutTo
  <2>6. ReceivedOnce' /\ NoMorePending
    BY <1>1, <1>2, <2>5, OnceStep
  <2>7. \A k, d \in Node : \A v \in ToSet(link'[k][d]) : UnderWay(v)
    BY <1>2 DEF UnderWay
  <2>8. \A v : v.type # "MESSAGE" /\ UnderWay(v)' => UnderWay(v) \/ v \in {a}
    BY <2>1, <2>2, <2>7, WireStep
  <2>9. NoMoreProposed
    <3>1. \A k \in Node, m \in Message : allproposed'[k][m] \subseteq allproposed[k][m]
      BY <1>2, <2>1 DEF TypeInv, ProposedOK
    <3>2. \A m, p : UnderWay(Proposal(m, p))' => UnderWay(Proposal(m, p))
      BY <2>3, <2>8
    <3> QED BY <3>1, <3>2 DEF NoMoreProposed, Proposed
  <2>10. \A m \in Message, b \in Nat :
            AgreedOn(m, b)' => AgreedOn(m, b) \/ (m = w.id /\ b = Max(P))
    <3>1. \A m, b : UnderWay(Agreement(m, b))' =>
                        UnderWay(Agreement(m, b)) \/ (m = w.id /\ b = Max(P))
      BY <2>3, <2>8
    <3> QED BY <1>1, <3>1 DEF AgreedOn
  <2>11. ASSUME alive = Node PROVE Decides(w.id, P)
    <3>1. Cardinality(P) = Cardinality(Node)
      BY <1>5, <2>11, WaitsForAll
    <3> QED BY <1>1, <1>4, <2>6, <2>9, <2>10, <3>1 DEF Decides
  <2> QED BY <1>2, <1>3, <2>6, <2>11
<1>6. CASE ~All(n, P)
  <2>1. /\ allproposed' = [allproposed EXCEPT ![n][w.id] = P]
        /\ UNCHANGED thread
    BY <1>6 DEF TakeProposal
  <2> HIDE DEF P
  <2>2. ReceivedOnce' /\ NoMorePending
    BY <1>1, <1>2, <2>1, OnceStep DEF AboutTo
  <2>3. \A v : v.type # "MESSAGE" /\ UnderWay(v)' => UnderWay(v)
    BY <1>2, <2>1 DEF UnderWay
  <2>4. NoMoreAgreed
    BY <1>1, <2>3, FewerViews
  <2>5. NoMoreProposed
    <3>1. \A m, p : Proposal(m, p).type # "MESSAGE"
      BY DEF Proposal
    <3>2. \A k \in Node, m \in Message : \A p \in allproposed'[k][m] :
             p \in allproposed[k][m] \/ (m = w.id /\ p \in P)
      BY <1>2, <2>1 DEF TypeInv, ProposedOK
    <3> QED BY <1>4, <2>3, <3>1, <3>2 DEF NoMoreProposed, Proposed
  <2> QED BY <1>1, <2>2, <2>4, <2>5 DEF StandsStill
<1> QED BY <1>5, <1>6

LEMMA ProposeStep ==
    ASSUME TypeInv, ReceivedOnce, NEW n \in Node, NEW s \in Node, Propose(n, s)
    PROVE  ReceivedOnce' /\ \E m \in Message, p \in Nat : Proposes(n, m, p)
<1>1. /\ thread[n][s].at = "propose"
      /\ UNCHANGED <<link, received, delivered, allproposed>>
  BY DEF Propose, marks
<1>2. PICK m \in Message : m = thread[n][s].wire.id
  <2>1. thread[n][s] \in PlaceOf(sent)
    BY DEF TypeInv, ThreadOK
  <2>2. thread[n][s].wire \in OfType(sent, "MESSAGE")
    BY <1>1, <2>1, PlaceCases
  <2> QED BY <2>2 DEF OfType, WireOf, Wire
<1>3. PICK p \in Nat : p = Above(Max({proSeq[n], agrSeq[n]}), n) /\ p % 10 = n
  BY MaxOfTwo, AboveProps DEF TypeInv, SeqsOK
<1> DEFINE place == [at |-> "reply", wire |-> Proposal(m, p)]
<1>4. /\ queue' = [queue EXCEPT ![n] = @ \cup {Entry(m, p, FALSE)}]
      /\ Goto(n, s, place)
  BY <1>2, <1>3 DEF Propose
<1>5. /\ \A h : ~AsksFor(place, h)
      /\ \A v : Carries(place, v) => v \in {Proposal(m, p)}
  BY DEF AsksFor, Carries
<1> HIDE DEF place
<1>6. \A k, r \in Node :
         thread'[k][r] = IF k = n /\ r = s THEN place ELSE thread[k][r]
  BY <1>4, ThreadMoves
<1>7. \A k, r \in Node, h \in Message : AboutTo(k, r, h)' => AboutTo(k, r, h)
  BY <1>5, <1>6 DEF AboutTo
<1>8. ReceivedOnce' /\ NoMorePending
  BY <1>1, <1>7, OnceStep
<1>9. Pending(n, m) /\ ~Pending(n, m)'
  <2>1. AboutTo(n, s, m)
    BY <1>1, <1>2 DEF AboutTo, AsksFor
  <2>2. m \in received[n] /\ \A r \in Node : AboutTo(n, r, m) => r = s
    BY <2>1 DEF ReceivedOnce
  <2>3. \A r \in Node : ~AboutTo(n, r, m)'
    BY <1>5, <1>6, <1>7, <2>2 DEF AboutTo
  <2> QED BY <1>1, <2>1, <2>2, <2>3 DEF Pending
<1>10. \A v : v.type # "MESSAGE" /\ UnderWay(v)' => UnderWay(v) \/ v \in {Proposal(m, p)}
  <2>1. \A k, d \in Node : \A v \in ToSet(link'[k][d]) : UnderWay(v)
    BY <1>1 DEF UnderWay
  <2> QED BY <1>4, <1>5, <2>1, WireStep
<1>11. /\ \A k, q : Proposal(k, q).type # "MESSAGE" /\ Agreement(k, q).type # "MESSAGE"
       /\ \A k, q : Agreement(k, q) # Proposal(m, p)
       /\ \A k, q : Proposal(k, q) = Proposal(m, p) => k = m /\ q = p
  BY DEF Proposal, Agreement
<1>12. \A k \in Message, q \in Nat :
          Proposed(k, q)' => Proposed(k, q) \/ (k = m /\ q = p)
  <2>1. \A k, q : UnderWay(Proposal(k, q))' =>
                      UnderWay(Proposal(k, q)) \/ (k = m /\ q = p)
    BY <1>10, <1>11
  <2> QED BY <1>1, <2>1 DEF Proposed
<1>13. NoMoreAgreed
  <2>1. \A k, b : UnderWay(Agreement(k, b))' => UnderWay(Agreement(k, b))
    BY <1>10, <1>11
  <2>2. \A k, b : Entry(k, b, TRUE) # Entry(m, p, FALSE)
    BY DEF Entry
  <2>3. \A r \in Node : \A e \in queue'[r] : e \in queue[r] \/ e = Entry(m, p, FALSE)
    BY <1>4 DEF TypeInv, QueueOK
  <2> QED BY <2>1, <2>2, <2>3 DEF NoMoreAgreed, AgreedOn
<1>14. Proposes(n, m, p)
  BY <1>1, <1>3, <1>4, <1>8, <1>9, <1>12, <1>13 DEF Proposes
<1> QED BY <1>8, <1>14

LEMMA ReplyStep ==
    ASSUME TypeInv, ReceivedOnce, NEW n \in Node, NEW s \in Node, Reply(n, s)
    PROVE  ReceivedOnce' /\ StandsStill
<1>1. /\ thread[n][s].at = "reply" /\ Goto(n, s, Receiving)
      /\ UNCHANGED <<received, queue, delivered, allproposed>>
  BY DEF Reply, marks, isisVars
<1>2. PICK w : w = thread[n][s].wire
  OBVIOUS
<1>3. w \in WireOf(sent) /\ w.type = "PROPOSE" /\ Origin[w.id] \in Node
  <2>1. thread[n][s] \in PlaceOf(sent)
    BY DEF TypeInv, ThreadOK
  <2>2. w \in OfType(sent, "PROPOSE")
    BY <1>1, <1>2, <2>1, PlaceCases
  <2> QED BY <2>2, OriginAssumption DEF OfType, WireOf, Wire
<1>4. \A k, d \in Node : \A v \in ToSet(link'[k][d]) : v \in ToSet(link[k][d]) \/ v = w
  <2>1. PICK W : W = WireOf(sent)
    OBVIOUS
  <2>2. link \in [Node -> [Node -> Seq(W)]] /\ w \in W
    BY <1>3, <2>1 DEF TypeInv, LinkOK
  <2>3. Unicast(n, Origin[w.id], w)
    BY <1>2 DEF Reply
  <2>4. PICK c \in Node : c = Origin[w.id]
    BY <1>3
  <2>5. Unicast(n, c, w)
    BY <2>3, <2>4
  <2>6. \A k, d \in Node : \A v \in ToSet(link'[k][d]) :
           \/ v \in ToSet(link[k][d])
           \/ k = n /\ d = c /\ v = w
    BY <2>2, <2>5, UnicastProps
  <2> QED BY <2>6
<1>5. \A k, r \in Node :
         thread'[k][r] = IF k = n /\ r = s THEN Receiving ELSE thread[k][r]
  BY <1>1, ThreadMoves
<1>6. \A k, r \in Node, m \in Message : AboutTo(k, r, m)' => AboutTo(k, r, m)
  BY <1>5, HoldsNothing DEF AboutTo
<1>7. \A k, d \in Node : \A v \in ToSet(link'[k][d]) :
         v.type = "MESSAGE" => v \in ToSet(link[k][d]) \/ v.id \notin received[d]
  BY <1>3, <1>4
<1>8. ReceivedOnce' /\ NoMorePending
  BY <1>1, <1>6, <1>7, OnceStep
<1>9. \A v : v.type # "MESSAGE" /\ UnderWay(v)' => UnderWay(v)
  <2>1. UnderWay(w)
    BY <1>1, <1>2 DEF UnderWay, Carries
  <2>2. ASSUME NEW k \in Node, NEW d \in Node, NEW v \in ToSet(link'[k][d])
        PROVE  UnderWay(v)
    <3>1. v \in ToSet(link[k][d]) => UnderWay(v)
      BY DEF UnderWay
    <3> QED BY <1>4, <2>1, <3>1, ZenonT(30)
  <2>3. \A v : v.type # "MESSAGE" /\ UnderWay(v)' => UnderWay(v) \/ v \in {}
    BY <1>1, <2>2, HoldsNothing, WireStep
  <2> QED BY <2>3
<1> QED BY <1>1, <1>8, <1>9, FewerViews DEF StandsStill

LEMMA DeliverStep ==
    ASSUME TypeInv, ReceivedOnce, NEW n \in Node, NEW s \in Node, Deliver(n, s)
    PROVE  ReceivedOnce' /\ \E m \in Message, a \in Nat : HandsOver(n, m, a)
<1>1. /\ thread[n][s].at = "deliver"
      /\ UNCHANGED <<link, received, allproposed>>
  BY DEF Deliver, marks
<1>2. PICK w \in OfType(sent, "AGREE"), r \in SUBSET EntryOf(sent), ids \in Seq(sent) :
         Hands(n, s, w, r, ids) /\ Lists(ids, r)
  BY DeliverProps
<1>3. PICK m \in Message, a \in Nat : w = Agreement(m, a) /\ m = w.id /\ a = w.priority
  BY WireFields DEF OfType, WireOf
<1> DEFINE place == IF ids = <<>> THEN Receiving ELSE [at |-> "update", ids |-> ids]
           q == Replaced(queue[n], m, a)
<1>4. /\ w = thread[n][s].wire
      /\ queue' = [queue EXCEPT ![n] = q \ Popped(q)]
      /\ delivered' = [delivered EXCEPT ![n] = @ \o ids]
      /\ Goto(n, s, place)
      /\ \A e \in Popped(q) : e.id \in ToSet(ids)
      /\ \A h \in ToSet(ids) : \E e \in Popped(q) : e.id = h
  BY <1>2, <1>3 DEF Hands, Lists
<1>5. (\A h : ~AsksFor(place, h)) /\ (\A v : ~Carries(place, v))
  BY HoldsNothing DEF AsksFor, Carries
<1> HIDE DEF place
<1>6. \A k, d \in Node :
         thread'[k][d] = IF k = n /\ d = s THEN place ELSE thread[k][d]
  BY <1>4, ThreadMoves
<1>7. \A k, d \in Node, h \in Message : AboutTo(k, d, h)' => AboutTo(k, d, h)
  BY <1>5, <1>6 DEF AboutTo
<1>8. ReceivedOnce' /\ NoMorePending
  BY <1>1, <1>7, OnceStep
<1>9. \A v : v.type # "MESSAGE" /\ UnderWay(v)' => UnderWay(v)
  <2>1. \A k, d \in Node : \A v \in ToSet(link'[k][d]) : UnderWay(v)
    BY <1>1 DEF UnderWay
  <2>2. \A v : v.type # "MESSAGE" /\ UnderWay(v)' => UnderWay(v) \/ v \in {}
    BY <1>4, <1>5, <2>1, WireStep
  <2> QED BY <2>2
<1>10. NoMoreProposed
  BY <1>1, <1>9, FewerViews
<1>11. AgreedOn(m, a)
  BY <1>1, <1>3, <1>4 DEF AgreedOn, UnderWay, Carries
<1>12. NoMoreAgreed
  <2>1. \A h, b : Agreement(h, b).type # "MESSAGE"
    BY DEF Agreement
  <2>2. \A h, b : Entry(h, b, TRUE) = Entry(m, a, TRUE) => h = m /\ b = a
    BY DEF Entry
  <2>3. \A k \in Node : \A e \in queue'[k] : e \in queue[k] \/ e = Entry(m, a, TRUE)
    BY <1>4 DEF TypeInv, QueueOK, Replaced
  <2> QED BY <1>9, <1>11, <2>1, <2>2, <2>3 DEF NoMoreAgreed, AgreedOn
<1>13. ASSUME NEW k \in Node, NEW h \in Message
       PROVE  Delivered(k, h)' <=>
                  Delivered(k, h) \/ (k = n /\ \E e \in Popped(q) : e.id = h)
  <2>1. CASE k = n
    <3>1. delivered'[n] = delivered[n] \o ids /\ delivered[n] \in Seq(sent)
      BY <1>4 DEF TypeInv, DeliveredOK
    <3>2. ToSet(delivered[n] \o ids) = ToSet(delivered[n]) \cup ToSet(ids)
      BY <3>1, ToSetOfConcat
    <3>3. h \in ToSet(ids) <=> \E e \in Popped(q) : e.id = h
      BY <1>4
    <3> QED BY <2>1, <3>1, <3>2, <3>3 DEF Delivered
  <2>2. CASE k # n
    BY <1>4, <2>2 DEF Delivered, TypeInv, DeliveredOK
  <2> QED BY <2>1, <2>2
<1>14. HandsOver(n, m, a)
  BY <1>4, <1>8, <1>10, <1>11, <1>12, <1>13 DEF HandsOver
<1> QED BY <1>8, <1>14

LEMMA UpdateBalanceStep ==
    ASSUME TypeInv, ReceivedOnce, NEW n \in Node, NEW s \in Node, UpdateBalance(n, s)
    PROVE  ReceivedOnce' /\ StandsStill
<1> DEFINE ids == thread[n][s].ids
           place == IF Len(ids) = 1 THEN Receiving ELSE [at |-> "update", ids |-> Tail(ids)]
<1>1. /\ Goto(n, s, place)
      /\ UNCHANGED <<link, received, queue, delivered, allproposed>>
  BY DEF UpdateBalance, marks, isisVars
<1>2. (\A h : ~AsksFor(place, h)) /\ (\A v : ~Carries(place, v))
  BY HoldsNothing DEF AsksFor, Carries
<1> HIDE DEF place
<1>3. \A k, r \in Node :
         thread'[k][r] = IF k = n /\ r = s THEN place ELSE thread[k][r]
  BY <1>1, ThreadMoves
<1>4. \A k, r \in Node, h \in Message : AboutTo(k, r, h)' => AboutTo(k, r, h)
  BY <1>2, <1>3 DEF AboutTo
<1>5. ReceivedOnce' /\ NoMorePending
  BY <1>1, <1>4, OnceStep
<1>6. \A v : v.type # "MESSAGE" /\ UnderWay(v)' => UnderWay(v)
  <2>1. \A k, d \in Node : \A v \in ToSet(link'[k][d]) : UnderWay(v)
    BY <1>1 DEF UnderWay
  <2>2. \A v : v.type # "MESSAGE" /\ UnderWay(v)' => UnderWay(v) \/ v \in {}
    BY <1>1, <1>2, <2>1, WireStep
  <2> QED BY <2>2
<1> QED BY <1>1, <1>5, <1>6, FewerViews DEF StandsStill

\* What follows a death: of it, only that a message is still taken once.
LEMMA DieOnce ==
    ASSUME TypeInv, ReceivedOnce, NEW n \in Node, Die(n)
    PROVE  ReceivedOnce' /\ NoMorePending
<1>1. UNCHANGED <<thread, received>>
  BY DEF Die, marks
<1>2. PICK keep \in [Node \ {n} -> 0..Max({Len(link[n][d]) : d \in Node})] :
         /\ \A d \in Node \ {n} : keep[d] <= Len(link[n][d])
         /\ link' = [s \in Node |-> [d \in Node |->
                        CASE d = n -> <<>>
                          [] s = n /\ d # n -> SubSeq(link[n][d], 1, keep[d])
                          [] OTHER -> link[s][d]]]
  BY DEF Die
<1>3. \A s, d \in Node : ToSet(link'[s][d]) \subseteq ToSet(link[s][d])
  <2> TAKE s, d \in Node
  <2>1. CASE d = n
    BY <1>2, <2>1 DEF ToSet
  <2>2. CASE s = n /\ d # n
    <3>1. link'[s][d] = SubSeq(link[n][d], 1, keep[d])
      BY <1>2, <2>2
    <3>2. link[n][d] \in Seq(WireOf(sent)) /\ keep[d] \in 0..Len(link[n][d])
      <4>1. PICK M \in Nat : M = Max({Len(link[n][i]) : i \in Node})
        BY LongestLink
      <4>2. keep[d] \in 0..M /\ keep[d] <= Len(link[n][d])
        BY <1>2, <2>2, <4>1
      <4>3. link[n][d] \in Seq(WireOf(sent))
        BY DEF TypeInv, LinkOK
      <4> QED BY <4>2, <4>3
    <3>3. PICK l \in Seq(WireOf(sent)) : l = link[n][d]
      BY <3>2
    <3>4. PICK k \in 0..Len(l) : k = keep[d]
      BY <3>2, <3>3
    <3>5. \A i \in DOMAIN SubSeq(l, 1, k) : i \in DOMAIN l /\ SubSeq(l, 1, k)[i] = l[i]
      OBVIOUS
    <3> QED BY <2>2, <3>1, <3>3, <3>4, <3>5 DEF ToSet
  <2>3. CASE s # n /\ d # n
    BY <1>2, <2>3
  <2> QED BY <2>1, <2>2, <2>3
<1> QED BY <1>1, <1>3, OnceStep DEF AboutTo

\* Steps that leave the links alone and take a thread to where it has nothing
\* to send or to propose for.
LEMMA IdleOnce ==
    ASSUME TypeInv, ReceivedOnce, NEW n \in Node, NEW s \in Node, NEW place,
           Goto(n, s, place), \A m : ~AsksFor(place, m), received' = received,
           \A k, d \in Node : \A v \in ToSet(link'[k][d]) :
              v.type = "MESSAGE" => v \in ToSet(link[k][d])
    PROVE  ReceivedOnce' /\ NoMorePending
<1>1. \A k, r \in Node :
         thread'[k][r] = IF k = n /\ r = s THEN place ELSE thread[k][r]
  BY ThreadMoves
<1>2. \A k, r \in Node, h \in Message : AboutTo(k, r, h)' => AboutTo(k, r, h)
  BY <1>1 DEF AboutTo
<1> QED BY <1>2, OnceStep

LEMMA NoticeOnce ==
    ASSUME TypeInv, ReceivedOnce, NEW n \in Node, NEW s \in Node,
           Notice(n, s) \/ DeleteNode(n, s)
    PROVE  ReceivedOnce' /\ NoMorePending
<1> DEFINE place == IF Notice(n, s) THEN [at |-> "delete"] ELSE [at |-> "recount"]
<1>1. Goto(n, s, place) /\ UNCHANGED <<link, received>>
  BY DEF Notice, DeleteNode, marks
<1>2. \A m : ~AsksFor(place, m)
  BY DEF AsksFor
<1>3. PICK p : p = place
  OBVIOUS
<1> HIDE DEF place
<1> QED BY <1>1, <1>2, <1>3, IdleOnce

LEMMA RecountOnce ==
    ASSUME TypeInv, ReceivedOnce, NEW n \in Node, NEW s \in Node, Recount(n, s)
    PROVE  ReceivedOnce' /\ NoMorePending
<1>1. Goto(n, s, Ended) /\ UNCHANGED received
  BY DEF Recount, marks
<1>2. \A m : ~AsksFor(Ended, m)
  BY DEF AsksFor, Ended
<1>3. \A k, d \in Node : \A v \in ToSet(link'[k][d]) :
         v.type = "MESSAGE" => v \in ToSet(link[k][d])
  <2>1. CASE UNCHANGED link
    BY <2>1
  <2>2. CASE ~UNCHANGED link
    <3>1. PICK ws \in Seq(WireOf(sent)) :
             /\ Broadcast(n, ws)
             /\ \A v \in ToSet(ws) : v.type = "AGREE"
      BY <2>2, RecountSends
    <3>2. PICK W : W = WireOf(sent)
      OBVIOUS
    <3>3. link \in [Node -> [Node -> Seq(W)]] /\ ws \in Seq(W)
      BY <3>2 DEF TypeInv, LinkOK
    <3>4. \A k, d \in Node : \A v \in ToSet(link'[k][d]) :
             \/ v \in ToSet(link[k][d])
             \/ k = n /\ v \in ToSet(ws) /\ ~Marked(d, v)
      BY <3>1, <3>3, BroadcastProps
    <3> QED BY <3>1, <3>4
  <2> QED BY <2>1, <2>2
<1> QED BY <1>1, <1>2, <1>3, IdleOnce

LEMMA OnceInvStep == TypeInv /\ ReceivedOnce /\ [Next]_vars => ReceivedOnce'
<1> SUFFICES ASSUME TypeInv, ReceivedOnce, [Next]_vars PROVE ReceivedOnce'
  OBVIOUS
<1>1. CASE \E m \in Message : Send(m)
  BY <1>1, SendStep
<1>2. CASE \E n \in Node : Die(n)
  BY <1>2, DieOnce
<1>3. ASSUME NEW n \in Node, NEW s \in Node, Listen(n, s)
      PROVE  ReceivedOnce'
  <2>1. CASE \E w : TakeMessage(n, s, w) \/ TakeProposal(n, s, w) \/ TakeAgreement(n, s, w)
    BY <2>1, TakeMessageStep, TakeProposalStep, TakeAgreementStep
  <2>2. CASE Flood(n, s) \/ Propose(n, s) \/ Reply(n, s)
    BY <2>2, FloodStep, ProposeStep, ReplyStep
  <2>3. CASE Deliver(n, s) \/ UpdateBalance(n, s)
    BY <2>3, DeliverStep, UpdateBalanceStep
  <2>4. CASE Notice(n, s) \/ DeleteNode(n, s) \/ Recount(n, s)
    BY <2>4, NoticeOnce, RecountOnce
  <2> QED BY <1>3, <2>1, <2>2, <2>3, <2>4 DEF Listen
<1>4. CASE UNCHANGED vars
  BY <1>4, OnceStep DEF vars, marks, AboutTo
<1> QED BY <1>1, <1>2, <1>3, <1>4 DEF Next

\* As long as nobody has died there is nothing to notice.
LEMMA NobodyGone ==
    ASSUME TypeInv, alive = Node, NEW n \in Node, NEW s \in Node
    PROVE  ~Notice(n, s) /\ ~DeleteNode(n, s) /\ ~Recount(n, s)
<1>1. Gone(n) = {}
  BY DEF TypeInv, CountOK
<1>2. thread[n][s].at \notin AtAnEnd
  BY <1>1 DEF Gone
<1> QED BY <1>2 DEF Notice, DeleteNode, Recount, AtAnEnd

\* Nobody comes back, and no thread kills its node.
LEMMA ListenLives ==
    ASSUME NEW n \in Node, NEW s \in Node, Listen(n, s)
    PROVE  alive' = alive
<1>1. ASSUME NEW w, TakeMessage(n, s, w)
      PROVE  alive' = alive
  BY <1>1 DEF TakeMessage
<1>2. ASSUME NEW w, TakeProposal(n, s, w)
      PROVE  alive' = alive
  BY <1>2 DEF TakeProposal
<1>3. ASSUME NEW w, TakeAgreement(n, s, w)
      PROVE  alive' = alive
  BY <1>3 DEF TakeAgreement
<1>4. Flood(n, s) => alive' = alive
  BY DEF Flood
<1>5. Propose(n, s) => alive' = alive
  BY DEF Propose
<1>6. Reply(n, s) => alive' = alive
  BY DEF Reply
<1>7. Deliver(n, s) => alive' = alive
  BY DEF Deliver
<1>8. UpdateBalance(n, s) => alive' = alive
  BY DEF UpdateBalance
<1>9. Notice(n, s) \/ DeleteNode(n, s) \/ Recount(n, s) => alive' = alive
  BY DEF Notice, DeleteNode, Recount
<1> QED BY <1>1, <1>2, <1>3, <1>4, <1>5, <1>6, <1>7, <1>8, <1>9 DEF Listen

LEMMA AliveShrinks == [Next]_vars => alive' \subseteq alive
<1>1. (\E m \in Message : Send(m)) => alive' = alive
  BY DEF Send
<1>2. ASSUME NEW n \in Node, Die(n)
      PROVE  alive' \subseteq alive
  <2>1. alive' = alive \ {n}
    BY <1>2 DEF Die
  <2> QED BY <2>1
<1>3. ASSUME NEW n \in Node, NEW s \in Node, Listen(n, s)
      PROVE  alive' = alive
  BY <1>3, ListenLives
<1>4. UNCHANGED vars => alive' = alive
  BY DEF vars
<1> QED BY <1>1, <1>2, <1>3, <1>4 DEF Next

LEMMA AgreementInvStep ==
    TypeInv /\ ReceivedOnce /\ (alive = Node => AgreementInv) /\ [Next]_vars
        => (alive' = Node => AgreementInv')
<1> SUFFICES ASSUME TypeInv, ReceivedOnce, alive = Node => AgreementInv, [Next]_vars,
                    alive' = Node
             PROVE  AgreementInv'
  OBVIOUS
<1>1. alive = Node /\ AgreementInv
  <2>1. alive' \subseteq alive
    BY AliveShrinks
  <2> QED BY <2>1 DEF TypeInv, SentOK
<1>2. StandsStill => AgreementInv'
  BY <1>1, StandsStillKeeps
<1>3. CASE \E m \in Message : Send(m)
  BY <1>2, <1>3, SendStep
<1>4. ~\E n \in Node : Die(n)
  BY <1>1 DEF Die
<1>5. ASSUME NEW n \in Node, NEW s \in Node, Listen(n, s)
      PROVE  AgreementInv'
  <2>1. CASE \E w : TakeMessage(n, s, w) \/ TakeAgreement(n, s, w)
    BY <1>2, <2>1, TakeMessageStep, TakeAgreementStep
  <2>2. CASE \E w : TakeProposal(n, s, w)
    BY <1>1, <1>2, <2>2, TakeProposalStep, DecidesKeeps
  <2>3. CASE Flood(n, s) \/ Reply(n, s) \/ UpdateBalance(n, s)
    BY <1>2, <2>3, FloodStep, ReplyStep, UpdateBalanceStep
  <2>4. CASE Propose(n, s)
    BY <1>1, <2>4, ProposeStep, ProposesKeeps
  <2>5. CASE Deliver(n, s)
    BY <1>1, <2>5, DeliverStep, HandsOverKeeps
  <2> QED BY <1>1, <1>5, <2>1, <2>2, <2>3, <2>4, <2>5, NobodyGone DEF Listen
<1>6. CASE UNCHANGED vars
  <2>1. StandsStill
    BY <1>6 DEF vars, marks, isisVars, StandsStill, NoMorePending, NoMoreProposed,
                NoMoreAgreed, Pending, AboutTo, Proposed, AgreedOn, UnderWay
  <2> QED BY <1>2, <2>1
<1> QED BY <1>3, <1>4, <1>5, <1>6 DEF Next

LEMMA AgreementInvInit == Init => ReceivedOnce /\ (alive = Node => AgreementInv)
<1> SUFFICES ASSUME Init PROVE ReceivedOnce /\ AgreementInv
  OBVIOUS
<1>1. \A s, n \in Node : ToSet(link[s][n]) = {}
  BY DEF Init, ToSet
<1>2. \A n, s \in Node : thread[n][s] = Receiving
  BY DEF Init
<1>3. \A w : ~UnderWay(w)
  BY <1>1, <1>2, HoldsNothing DEF UnderWay
<1>4. /\ \A n \in Node : queue[n] = {}
      /\ \A n \in Node, m \in Message : allproposed[n][m] = {}
      /\ \A n \in Node, m \in Message : ~Delivered(n, m)
  BY DEF Init, Delivered, ToSet
<1>5. /\ \A m \in Message, p \in Nat : ~Proposed(m, p)
      /\ \A m \in Message, a \in Nat : ~AgreedOn(m, a)
  BY <1>3, <1>4 DEF Proposed, AgreedOn
<1>6. ReceivedOnce
  BY <1>1, <1>2, HoldsNothing DEF ReceivedOnce, AboutTo
<1>7. PendingUnknown
  BY <1>4, <1>5 DEF PendingUnknown
<1>8. AgreementInv
  BY <1>5, <1>7 DEF AgreementInv, OneProposal, ProposedHere, AgreedHighest,
                    OneAgreement, AgreedFinds
<1> QED BY <1>6, <1>8

LEMMA AgreementInvFinds == TypeInv /\ (alive = Node => AgreementInv) => AgreedByAll
<1> SUFFICES ASSUME TypeInv, alive = Node, AgreementInv,
                    NEW s \in Node, NEW n \in Node, NEW k \in Node,
                    NEW w \in ToSet(link[s][n]), w.type = "AGREE"
             PROVE  \/ Delivered(k, w.id)
                    \/ \E e \in queue[k] :
                          /\ e.id = w.id /\ e.priority <= w.priority
                          /\ e.deliverable => e.priority = w.priority
  BY DEF AgreedByAll
<1>1. w \in Wire /\ UnderWay(w)
  BY LinkWires
<1>2. w.id \in Message /\ w.priority \in Nat /\ w = Agreement(w.id, w.priority)
  BY <1>1, WireFields
<1>3. AgreedOn(w.id, w.priority)
  BY <1>1, <1>2 DEF AgreedOn
<1>4. Finds(k, w.id, w.priority)
  BY <1>2, <1>3 DEF AgreementInv, AgreedFinds
<1> QED BY <1>4 DEF Finds

\* No agreement overtakes a proposal, though a thread marks a message, floods
\* it and only then proposes for it (recvmsg), while the others of its node
\* read on: as long as no node has died, an AGREE that is under way finds the
\* message at every node, handed over already or in the heap, and there with
\* no higher priority and with no other one agreed.
THEOREM AgreementFindsAll == Spec => []AgreedByAll
<1>1. TypeInv /\ ReceivedOnce /\ (alive = Node => AgreementInv) /\ [Next]_vars
          => ReceivedOnce' /\ (alive = Node => AgreementInv)'
  BY OnceInvStep, AgreementInvStep
<1> QED BY <1>1, TypeInvAlways, AgreementInvInit, AgreementInvFinds, PTL DEF Spec

-----------------------------------------------------------------------------
(***************************************************************************)
(* Money.                                                                  *)
(***************************************************************************)
\* Whoever has died, a node that has not proposed for a message has it neither
\* in its heap nor handed over; ...
PendingNew ==
    \A n \in Node, m \in Message :
        Pending(n, m) => ~Delivered(n, m) /\ \A e \in queue[n] : e.id # m
\* ... the heap has one entry for a message, and none once it is handed over, ...
QueuedOnce ==
    \A n \in Node :
        OneEntryEach(queue[n]) /\ \A e \in queue[n] : ~Delivered(n, e.id)
\* ... and what is handed over is applied by one thread, once.
ToApply(t) == IF t.at = "update" THEN ToSet(t.ids) ELSE {}
AppliedOnce ==
    \A n, s \in Node :
        /\ ToApply(thread[n][s]) \subseteq ToSet(delivered[n])
        /\ thread[n][s].at = "update" => NoneTwice(thread[n][s].ids)
        /\ \A r \in Node :
              r # s => ToApply(thread[n][s]) \cap ToApply(thread[n][r]) = {}

Deposits(n) ==
    {m \in ToSet(delivered[n]) \ Waiting(n) : Operation[m].type = "DEPOSIT"}
Balanced ==
    \A n \in Node : Total(balance[n], Account) = Total(Amount, Deposits(n))

MoneyInv == PendingNew /\ QueuedOnce /\ AppliedOnce /\ Balanced

\* What an operation does to the sum of the balances.
LEMMA PayTotal ==
    ASSUME NEW accounts \in [Account -> Int], NEW a \in Account, NEW x \in Int
    PROVE  /\ Pay(accounts, a, x) \in [Account -> Int]
           /\ Total(Pay(accounts, a, x), Account) = Total(accounts, Account) + x
<1>1. PICK paid \in [Account -> Int] : paid = Pay(accounts, a, x)
  <2>1. accounts[a] + x \in Int
    OBVIOUS
  <2>2. Pay(accounts, a, x) \in [Account -> Int]
    BY <2>1 DEF Pay
  <2> QED BY <2>2
<1>2. paid[a] = accounts[a] + x /\ \A b \in Account \ {a} : paid[b] = accounts[b]
  BY <1>1 DEF Pay
<1>3. Summands(accounts, Account) /\ Summands(paid, Account)
  BY AccountAssumption DEF Summands
<1>4. Summands(paid, Account \ {a}) /\ Summands(accounts, Account \ {a})
  BY <1>3, FS_Subset DEF Summands
<1>5. Total(paid, Account \ {a}) = Total(accounts, Account \ {a})
  BY <1>2, <1>4, TotalSame
<1>6. /\ Total(accounts, Account) = accounts[a] + Total(accounts, Account \ {a})
      /\ Total(paid, Account) = paid[a] + Total(paid, Account \ {a})
  BY <1>3, TotalWithout
<1>7. Total(accounts, Account \ {a}) \in Int
  BY <1>4, TotalType
<1>8. PICK T \in Int : T = Total(accounts, Account \ {a})
  BY <1>7
<1>9. /\ Total(accounts, Account) = accounts[a] + T
      /\ Total(paid, Account) = (accounts[a] + x) + T
  BY <1>2, <1>5, <1>6, <1>8
<1>10. Total(paid, Account) = Total(accounts, Account) + x
  BY <1>9
<1> QED BY <1>1, <1>10

LEMMA ApplyTotal ==
    ASSUME NEW accounts \in [Account -> Nat], NEW m \in Message
    PROVE  Total(Apply(accounts, Operation[m]), Account) =
              Total(accounts, Account)
                  + (IF Operation[m].type = "DEPOSIT" THEN Amount[m] ELSE 0)
<1>1. PICK op : op = Operation[m]
  OBVIOUS
<1>2. /\ op.type \in {"DEPOSIT", "TRANSFER"}
      /\ op.source \in Account /\ op.target \in Account
      /\ op.amount \in Nat /\ Amount[m] = op.amount
  BY <1>1, OperationAssumption DEF Amount
<1>3. accounts \in [Account -> Int] /\ Summands(accounts, Account)
  BY AccountAssumption DEF Summands
<1>4. Total(accounts, Account) \in Int
  BY <1>3, TotalType
<1>5. CASE op.type = "DEPOSIT"
  <2>1. Apply(accounts, op) = Pay(accounts, op.source, op.amount)
    BY <1>5 DEF Apply
  <2> QED BY <1>1, <1>2, <1>3, <1>5, <2>1, PayTotal
<1>6. CASE op.type # "DEPOSIT" /\ accounts[op.source] >= op.amount
  <2>1. Apply(accounts, op) =
            Pay(Pay(accounts, op.source, -op.amount), op.target, op.amount)
    BY <1>6 DEF Apply, Move
  <2>2. PICK paid \in [Account -> Int] :
           /\ paid = Pay(accounts, op.source, -op.amount)
           /\ Total(paid, Account) = Total(accounts, Account) + (-op.amount)
    <3>1. -op.amount \in Int
      BY <1>2
    <3> QED BY <1>2, <1>3, <3>1, PayTotal
  <2>3. Total(Pay(paid, op.target, op.amount), Account)
            = Total(paid, Account) + op.amount
    <3>1. op.amount \in Int
      BY <1>2
    <3> QED BY <1>2, <3>1, PayTotal
  <2>4. PICK T \in Int : T = Total(accounts, Account)
    BY <1>4
  <2>5. Total(Apply(accounts, op), Account) = (T + (-op.amount)) + op.amount
    BY <2>1, <2>2, <2>3, <2>4
  <2>6. Total(Apply(accounts, op), Account) = T + 0
    BY <1>2, <2>5
  <2> QED BY <1>1, <1>6, <2>4, <2>6
<1>7. CASE op.type # "DEPOSIT" /\ ~(accounts[op.source] >= op.amount)
  <2>1. Apply(accounts, op) = accounts
    BY <1>7 DEF Apply
  <2>2. Total(accounts, Account) + 0 = Total(accounts, Account)
    BY <1>4
  <2> QED BY <1>1, <1>7, <2>1, <2>2
<1> QED BY <1>5, <1>6, <1>7

LEMMA TailOnce ==
    ASSUME NEW S, NEW ids \in Seq(S), ids # <<>>, NoneTwice(ids)
    PROVE  /\ Head(ids) \in ToSet(ids)
           /\ Len(ids) = 1 => ToSet(ids) = {Head(ids)}
           /\ NoneTwice(Tail(ids)) /\ ToSet(Tail(ids)) = ToSet(ids) \ {Head(ids)}
<1>1. /\ Len(ids) \in Nat /\ Len(ids) > 0 /\ DOMAIN ids = 1..Len(ids)
      /\ Head(ids) = ids[1]
      /\ DOMAIN Tail(ids) = 1..(Len(ids) - 1)
      /\ \A k \in 1..(Len(ids) - 1) : Tail(ids)[k] = ids[k + 1]
  OBVIOUS
<1>2. \A j, k \in 1..Len(ids) : ids[j] = ids[k] => j = k
  BY <1>1 DEF NoneTwice
<1>3. NoneTwice(Tail(ids))
  BY <1>1, <1>2 DEF NoneTwice
<1>4. Head(ids) \in ToSet(ids)
  BY <1>1 DEF ToSet
<1>5. Len(ids) = 1 => ToSet(ids) = {Head(ids)}
  BY <1>1 DEF ToSet
<1>6. ToSet(Tail(ids)) \subseteq ToSet(ids) \ {Head(ids)}
  <2> SUFFICES ASSUME NEW k \in 1..(Len(ids) - 1)
               PROVE  Tail(ids)[k] \in ToSet(ids) \ {Head(ids)}
    BY <1>1 DEF ToSet
  <2>1. k + 1 \in 1..Len(ids) /\ k + 1 # 1 /\ 1 \in 1..Len(ids)
    BY <1>1
  <2> QED BY <1>1, <1>2, <2>1 DEF ToSet
<1>7. ToSet(ids) \ {Head(ids)} \subseteq ToSet(Tail(ids))
  <2> SUFFICES ASSUME NEW k \in 1..Len(ids), ids[k] # ids[1]
               PROVE  ids[k] \in ToSet(Tail(ids))
    BY <1>1 DEF ToSet
  <2>1. k - 1 \in 1..(Len(ids) - 1) /\ (k - 1) + 1 = k
    BY <1>1
  <2>2. Tail(ids)[k - 1] = ids[k]
    BY <1>1, <2>1
  <2> QED BY <1>1, <2>1, <2>2 DEF ToSet
<1> QED BY <1>3, <1>4, <1>5, <1>6, <1>7

\* A step in which no thread takes up or goes on with an update.
ThreadsKeep ==
    \A n, s \in Node :
        \/ thread'[n][s] = thread[n][s]
        \/ thread[n][s].at # "update" /\ thread'[n][s].at # "update"

LEMMA WaitingIs ==
    ASSUME NEW n \in Node
    PROVE  \A m : m \in Waiting(n) <=> \E s \in Node : m \in ToApply(thread[n][s])
BY DEF Waiting, ToApply

LEMMA SameApplied ==
    ASSUME AppliedOnce, Balanced, ThreadsKeep, UNCHANGED <<delivered, balance>>
    PROVE  AppliedOnce' /\ Balanced'
<1>1. /\ \A n, s \in Node : ToApply(thread'[n][s]) = ToApply(thread[n][s])
      /\ \A n, s \in Node : thread'[n][s].at = "update" => thread'[n][s] = thread[n][s]
  BY DEF ThreadsKeep, ToApply
<1>2. AppliedOnce'
  BY <1>1 DEF AppliedOnce
<1>3. \A n \in Node : Waiting(n)' = Waiting(n)
  <2> SUFFICES ASSUME NEW n \in Node
               PROVE  Waiting(n)' = Waiting(n)
    OBVIOUS
  <2>1. \A m : m \in Waiting(n)' <=> \E s \in Node : m \in ToApply(thread'[n][s])
    BY DEF Waiting, ToApply
  <2> QED BY <1>1, <2>1, WaitingIs
<1>4. \A n \in Node : Deposits(n)' = Deposits(n)
  BY <1>3 DEF Deposits
<1> QED BY <1>2, <1>4 DEF Balanced

LEMMA QuietMoney ==
    ASSUME MoneyInv, NoMorePending, ThreadsKeep, UNCHANGED <<delivered, balance>>,
           \A n \in Node : queue'[n] \subseteq queue[n]
    PROVE  MoneyInv'
<1>1. \A n \in Node, m \in Message : Delivered(n, m)' <=> Delivered(n, m)
  BY DEF Delivered
<1>2. PendingNew'
  BY <1>1 DEF MoneyInv, PendingNew, NoMorePending
<1>3. QueuedOnce'
  <2>1. \A n \in Node : \A e \in queue[n] : ~Delivered(n, e.id)'
    BY DEF MoneyInv, QueuedOnce, Delivered
  <2> QED BY <2>1 DEF MoneyInv, QueuedOnce, OneEntryEach
<1> QED BY <1>2, <1>3, SameApplied DEF MoneyInv

LEMMA ProposeMoney ==
    ASSUME TypeInv, ReceivedOnce, MoneyInv, NEW n \in Node, NEW s \in Node, Propose(n, s)
    PROVE  MoneyInv'
<1>1. PICK m \in Message, p \in Nat : Proposes(n, m, p)
  BY ProposeStep
<1>2. /\ Pending(n, m) /\ ~Pending(n, m)' /\ NoMorePending
      /\ queue' = [queue EXCEPT ![n] = @ \cup {Entry(m, p, FALSE)}]
      /\ UNCHANGED delivered
  BY <1>1 DEF Proposes
<1>3. /\ queue'[n] = queue[n] \cup {Entry(m, p, FALSE)}
      /\ \A k \in Node \ {n} : queue'[k] = queue[k]
  BY <1>2 DEF TypeInv, QueueOK
<1>4. Entry(m, p, FALSE).id = m
  BY DEF Entry
<1>5. ~Delivered(n, m) /\ \A e \in queue[n] : e.id # m
  BY <1>2 DEF MoneyInv, PendingNew
<1>6. \A k \in Node : \A h : Delivered(k, h)' <=> Delivered(k, h)
  BY <1>2 DEF Delivered
<1>7. PendingNew'
  <2> SUFFICES ASSUME NEW k \in Node, NEW h \in Message, Pending(k, h)'
               PROVE  ~Delivered(k, h)' /\ \A e \in queue'[k] : e.id # h
    BY DEF PendingNew
  <2>1. ~Delivered(k, h) /\ \A e \in queue[k] : e.id # h
    BY <1>2 DEF NoMorePending, MoneyInv, PendingNew
  <2>2. k = n => h # m
    BY <1>2
  <2> QED BY <1>3, <1>4, <1>6, <2>1, <2>2
<1>8. QueuedOnce'
  <2> SUFFICES ASSUME NEW k \in Node
               PROVE  OneEntryEach(queue'[k]) /\ \A e \in queue'[k] : ~Delivered(k, e.id)'
    BY DEF QueuedOnce, OneEntryEach
  <2>1. OneEntryEach(queue[k]) /\ \A e \in queue[k] : ~Delivered(k, e.id)
    BY DEF MoneyInv, QueuedOnce
  <2>2. CASE k # n
    <3>1. queue'[k] = queue[k]
      BY <1>3, <2>2
    <3> QED BY <1>6, <2>1, <3>1
  <2>3. CASE k = n
    <3>1. PICK e \in queue'[n] : e = Entry(m, p, FALSE) /\ e.id = m
      BY <1>3, <1>4
    <3>2. \A f \in queue'[n] : f \in queue[n] \/ f = e
      BY <1>3, <3>1
    <3>3. OneEntryEach(queue'[n])
      BY <1>5, <2>1, <2>3, <3>1, <3>2 DEF OneEntryEach
    <3>4. \A f \in queue'[n] : ~Delivered(n, f.id)'
      BY <1>5, <1>6, <2>1, <2>3, <3>1, <3>2
    <3> QED BY <2>3, <3>3, <3>4
  <2> QED BY <2>2, <2>3
<1>9. ThreadsKeep /\ balance' = balance
  <2>1. /\ thread[n][s].at = "propose" /\ balance' = balance
        /\ Goto(n, s, [at |-> "reply", wire |-> Proposal(thread[n][s].wire.id,
                          Above(Max({proSeq[n], agrSeq[n]}), n))])
    BY DEF Propose
  <2>2. PICK place : Goto(n, s, place) /\ place.at = "reply"
    BY <2>1
  <2>3. \A k, r \in Node :
           thread'[k][r] = IF k = n /\ r = s THEN place ELSE thread[k][r]
    BY <2>2, ThreadMoves
  <2> QED BY <2>1, <2>2, <2>3 DEF ThreadsKeep
<1> QED BY <1>2, <1>7, <1>8, <1>9, SameApplied DEF MoneyInv

\* An agreement put into the heap takes the place of an entry.
LEMMA ReplacedOnce ==
    ASSUME NEW heap, OneEntryEach(heap), NEW m, NEW p, NEW q, q = Replaced(heap, m, p)
    PROVE  /\ OneEntryEach(q)
           /\ \A e \in q : \E f \in heap : f.id = e.id
           /\ \A f \in heap : \E e \in q : e.id = f.id
<1>1. CASE q = heap
  BY <1>1
<1>2. CASE q # heap
  <2>1. PICK new : new = Entry(m, p, TRUE) /\ new.id = m
    <3>1. Entry(m, p, TRUE).id = m
      BY DEF Entry
    <3> QED BY <3>1
  <2>2. /\ \A e : e \in q <=> (e \in heap /\ e.id # m) \/ e = new
        /\ \E e \in heap : e.id = m
    BY <1>2, <2>1 DEF Replaced
  <2>3. OneEntryEach(q)
    BY <2>1, <2>2 DEF OneEntryEach
  <2> QED BY <2>1, <2>2, <2>3
<1> QED BY <1>1, <1>2

LEMMA DeliverMoney ==
    ASSUME TypeInv, ReceivedOnce, MoneyInv, NEW n \in Node, NEW s \in Node, Deliver(n, s)
    PROVE  MoneyInv'
<1>1. PICK w \in OfType(sent, "AGREE"), q \in SUBSET EntryOf(sent), ids \in Seq(sent) :
         Hands(n, s, w, q, ids) /\ Lists(ids, q)
  BY DeliverProps
<1>2. NoMorePending
  BY DeliverStep DEF HandsOver
<1>3. thread[n][s].at = "deliver" /\ balance' = balance
  BY DEF Deliver
<1> DEFINE given == ToSet(ids)
<1>4. /\ queue'[n] = q \ Popped(q) /\ \A k \in Node \ {n} : queue'[k] = queue[k]
      /\ Popped(q) \subseteq q
  BY <1>1 DEF Hands, TypeInv, QueueOK, Popped
<1>5. /\ ToSet(delivered'[n]) = ToSet(delivered[n]) \cup given
      /\ \A k \in Node \ {n} : delivered'[k] = delivered[k]
  <2>1. PICK d \in Seq(sent) : d = delivered[n]
    BY DEF TypeInv, DeliveredOK
  <2>2. delivered'[n] = d \o ids /\ \A k \in Node \ {n} : delivered'[k] = delivered[k]
    BY <1>1, <2>1 DEF Hands, TypeInv, DeliveredOK
  <2>3. ToSet(d \o ids) = ToSet(d) \cup ToSet(ids)
    BY ToSetOfConcat
  <2> QED BY <2>1, <2>2, <2>3
<1>6. OneEntryEach(q) /\ \A e \in q : \E f \in queue[n] : f.id = e.id
  BY <1>1, ReplacedOnce DEF Hands, MoneyInv, QueuedOnce
<1>7. \A m \in given : ~Delivered(n, m) /\ \E e \in Popped(q) : e.id = m
  <2>1. \A m \in given : \E e \in Popped(q) : e.id = m
    BY <1>1 DEF Lists
  <2>2. \A e \in queue[n] : ~Delivered(n, e.id)
    BY DEF MoneyInv, QueuedOnce
  <2> QED BY <1>4, <1>6, <2>1, <2>2
<1> HIDE DEF given
<1>8. PendingNew'
  <2> SUFFICES ASSUME NEW k \in Node, NEW h \in Message, Pending(k, h)'
               PROVE  ~Delivered(k, h)' /\ \A e \in queue'[k] : e.id # h
    BY DEF PendingNew
  <2>1. ~Delivered(k, h) /\ \A e \in queue[k] : e.id # h
    BY <1>2 DEF NoMorePending, MoneyInv, PendingNew
  <2>2. CASE k # n
    BY <1>4, <1>5, <2>1, <2>2 DEF Delivered
  <2>3. CASE k = n
    <3>1. \A e \in q : e.id # h
      BY <1>6, <2>1, <2>3
    <3>2. h \notin given
      BY <1>4, <1>7, <3>1
    <3> QED BY <1>4, <1>5, <2>1, <2>3, <3>1, <3>2 DEF Delivered
  <2> QED BY <2>2, <2>3
<1>9. QueuedOnce'
  <2> SUFFICES ASSUME NEW k \in Node
               PROVE  OneEntryEach(queue'[k]) /\ \A e \in queue'[k] : ~Delivered(k, e.id)'
    BY DEF QueuedOnce, OneEntryEach
  <2>1. OneEntryEach(queue[k]) /\ \A e \in queue[k] : ~Delivered(k, e.id)
    BY DEF MoneyInv, QueuedOnce
  <2>2. CASE k # n
    <3>1. queue'[k] = queue[k] /\ delivered'[k] = delivered[k]
      BY <1>4, <1>5, <2>2
    <3> QED BY <2>1, <3>1 DEF Delivered
  <2>3. CASE k = n
    <3>1. OneEntryEach(queue'[n])
      BY <1>4, <1>6 DEF OneEntryEach
    <3>2. ASSUME NEW e \in queue'[n]
          PROVE  ~Delivered(n, e.id)'
      <4>1. e \in q /\ e \notin Popped(q)
        BY <1>4, <3>2
      <4>2. e.id \notin given
        BY <1>4, <1>6, <1>7, <4>1 DEF OneEntryEach
      <4>3. ~Delivered(n, e.id)
        BY <1>6, <2>1, <2>3, <4>1
      <4> QED BY <1>5, <4>2, <4>3 DEF Delivered
    <3> QED BY <2>3, <3>1, <3>2
  <2> QED BY <2>2, <2>3
<1>10. PICK place :
          /\ \A k, r \in Node :
                thread'[k][r] = IF k = n /\ r = s THEN place ELSE thread[k][r]
          /\ ToApply(place) = given
          /\ place.at = "update" => NoneTwice(place.ids)
  <2>1. NoneTwice(ids)
    BY <1>1, <1>6 DEF Lists
  <2>2. PICK place : place = IF ids = <<>> THEN Receiving ELSE [at |-> "update", ids |-> ids]
    OBVIOUS
  <2>3. Goto(n, s, place)
    BY <1>1, <2>2 DEF Hands
  <2>4. ToApply(place) = given
    BY <2>2 DEF ToApply, Receiving, given, ToSet
  <2>5. place.at = "update" => place.ids = ids
    BY <2>2 DEF Receiving
  <2> QED BY <2>1, <2>3, <2>4, <2>5, ThreadMoves
<1>11. ToApply(thread[n][s]) = {}
  BY <1>3 DEF ToApply
<1>12. AppliedOnce'
  <2> SUFFICES ASSUME NEW k \in Node, NEW r \in Node
               PROVE  /\ ToApply(thread'[k][r]) \subseteq ToSet(delivered'[k])
                      /\ thread'[k][r].at = "update" => NoneTwice(thread'[k][r].ids)
                      /\ \A t \in Node : t # r =>
                            ToApply(thread'[k][r]) \cap ToApply(thread'[k][t]) = {}
    BY DEF AppliedOnce, ToApply, NoneTwice
  <2>1. \A t \in Node :
           /\ ToApply(thread[k][t]) \subseteq ToSet(delivered[k])
           /\ thread[k][t].at = "update" => NoneTwice(thread[k][t].ids)
           /\ \A u \in Node : u # t => ToApply(thread[k][t]) \cap ToApply(thread[k][u]) = {}
    BY DEF MoneyInv, AppliedOnce
  <2>2. CASE k # n
    <3>1. delivered'[k] = delivered[k] /\ \A t \in Node : thread'[k][t] = thread[k][t]
      BY <1>5, <1>10, <2>2
    <3> QED BY <2>1, <3>1
  <2>3. CASE k = n
    <3>1. \A t \in Node \ {s} : ToApply(thread[n][t]) \cap given = {}
      BY <1>7, <2>1, <2>3 DEF Delivered
    <3>2. \A t \in Node \ {s} : thread'[n][t] = thread[n][t]
      BY <1>10
    <3>3. thread'[n][s] = place
      BY <1>10
    <3>4. CASE r = s
      <4>1. \A t \in Node : t # r => ToApply(thread'[n][t]) = ToApply(thread[n][t])
        BY <3>2, <3>4
      <4> QED BY <1>5, <1>10, <2>3, <3>1, <3>3, <3>4, <4>1
    <3>5. CASE r # s
      <4>1. thread'[n][r] = thread[n][r]
        BY <3>2, <3>5
      <4>2. ASSUME NEW t \in Node, t # r
            PROVE  ToApply(thread[n][r]) \cap ToApply(thread'[n][t]) = {}
        <5>1. CASE t = s
          BY <1>10, <3>1, <3>3, <3>5, <5>1
        <5>2. CASE t # s
          BY <2>1, <2>3, <3>2, <4>2, <5>2
        <5> QED BY <5>1, <5>2
      <4> QED BY <1>5, <2>1, <2>3, <4>1, <4>2
    <3> QED BY <3>4, <3>5
  <2> QED BY <2>2, <2>3
<1>13. ASSUME NEW k \in Node
       PROVE  Deposits(k)' = Deposits(k)
  <2>1. \A m : m \in Waiting(k)' <=> \E r \in Node : m \in ToApply(thread'[k][r])
    BY DEF Waiting, ToApply
  <2>2. \A m : m \in Waiting(k) <=> \E r \in Node : m \in ToApply(thread[k][r])
    BY WaitingIs
  <2>3. CASE k # n
    <3>1. delivered'[k] = delivered[k] /\ \A t \in Node : thread'[k][t] = thread[k][t]
      BY <1>5, <1>10, <2>3
    <3> QED BY <2>1, <2>2, <3>1 DEF Deposits
  <2>4. CASE k = n
    <3>1. \A m : m \in Waiting(n)' <=> m \in Waiting(n) \/ m \in given
      BY <1>10, <1>11, <2>1, <2>2, <2>4
    <3>2. given \cap ToSet(delivered[n]) = {}
      BY <1>7 DEF Delivered
    <3>3. ToSet(delivered'[n]) \ Waiting(n)' = ToSet(delivered[n]) \ Waiting(n)
      BY <1>5, <3>1, <3>2
    <3> QED BY <2>4, <3>3 DEF Deposits
  <2> QED BY <2>3, <2>4
<1>14. Balanced'
  BY <1>3, <1>13 DEF MoneyInv, Balanced
<1> QED BY <1>8, <1>9, <1>12, <1>14 DEF MoneyInv

LEMMA UpdateMoney ==
    ASSUME TypeInv, ReceivedOnce, MoneyInv,
           NEW n \in Node, NEW s \in Node, UpdateBalance(n, s)
    PROVE  MoneyInv'
<1>1. StandsStill
  BY UpdateBalanceStep
<1>2. /\ NoMorePending /\ UNCHANGED <<queue, delivered>>
      /\ \A h : \A k \in Node : Delivered(k, h)' <=> Delivered(k, h)
  BY <1>1 DEF StandsStill, Delivered
<1>3. PendingNew' /\ QueuedOnce'
  <2>1. PendingNew'
    BY <1>2 DEF MoneyInv, PendingNew, NoMorePending
  <2>2. QueuedOnce'
    BY <1>2 DEF MoneyInv, QueuedOnce, OneEntryEach
  <2> QED BY <2>1, <2>2
<1>4. PICK ids \in Seq(sent) : ids = thread[n][s].ids /\ ids # <<>>
  <2>1. thread[n][s] \in PlaceOf(sent) /\ thread[n][s].at = "update"
    BY DEF TypeInv, ThreadOK, UpdateBalance
  <2> QED BY <2>1, PlaceCases
<1>5. thread[n][s].at = "update" /\ NoneTwice(ids)
  BY <1>4 DEF UpdateBalance, MoneyInv, AppliedOnce
<1>6. PICK h \in Message : h = Head(ids)
  BY <1>4 DEF TypeInv, SentOK
<1>7. /\ balance' = [balance EXCEPT ![n] = Apply(@, Operation[h])]
      /\ Goto(n, s, IF Len(ids) = 1 THEN Receiving
                    ELSE [at |-> "update", ids |-> Tail(ids)])
  BY <1>4, <1>6 DEF UpdateBalance
<1>8. PICK place :
         /\ \A k, r \in Node :
               thread'[k][r] = IF k = n /\ r = s THEN place ELSE thread[k][r]
         /\ ToApply(place) = ToSet(ids) \ {h}
         /\ place.at = "update" => NoneTwice(place.ids)
  <2>1. PICK place : place = IF Len(ids) = 1 THEN Receiving
                             ELSE [at |-> "update", ids |-> Tail(ids)]
    OBVIOUS
  <2>2. /\ Len(ids) = 1 => ToSet(ids) = {h}
        /\ NoneTwice(Tail(ids)) /\ ToSet(Tail(ids)) = ToSet(ids) \ {h}
    <3>1. PICK S : S = sent
      OBVIOUS
    <3>2. ids \in Seq(S) /\ ids # <<>> /\ NoneTwice(ids)
      BY <1>4, <1>5, <3>1
    <3> QED BY <1>6, <3>2, TailOnce
  <2>3. ToApply(place) = ToSet(ids) \ {h}
    BY <2>1, <2>2 DEF ToApply, Receiving
  <2>4. place.at = "update" => place.ids = Tail(ids)
    BY <2>1 DEF Receiving
  <2>5. \A k, r \in Node :
           thread'[k][r] = IF k = n /\ r = s THEN place ELSE thread[k][r]
    BY <1>7, <2>1, ThreadMoves
  <2>6. place.at = "update" => NoneTwice(place.ids)
    BY <2>2, <2>4
  <2> QED BY <2>3, <2>5, <2>6
<1>9. ToApply(thread[n][s]) = ToSet(ids) /\ h \in ToSet(ids)
  BY <1>4, <1>5, <1>6, TailOnce DEF ToApply
<1>10. \A k, t \in Node :
          /\ ToApply(thread[k][t]) \subseteq ToSet(delivered[k])
          /\ thread[k][t].at = "update" => NoneTwice(thread[k][t].ids)
          /\ \A u \in Node : u # t => ToApply(thread[k][t]) \cap ToApply(thread[k][u]) = {}
  BY DEF MoneyInv, AppliedOnce
<1>11. \A k, t \in Node :
          /\ ToApply(thread'[k][t]) \subseteq ToApply(thread[k][t])
          /\ thread'[k][t].at = "update" => NoneTwice(thread'[k][t].ids)
  BY <1>8, <1>9, <1>10
<1>12. AppliedOnce'
  <2>1. \A k, t, u \in Node :
           u # t => ToApply(thread'[k][t]) \cap ToApply(thread'[k][u]) = {}
    <3> TAKE k, t, u \in Node
    <3> HAVE u # t
    <3>1. ToApply(thread[k][t]) \cap ToApply(thread[k][u]) = {}
      BY <1>10
    <3>2. /\ ToApply(thread'[k][t]) \subseteq ToApply(thread[k][t])
          /\ ToApply(thread'[k][u]) \subseteq ToApply(thread[k][u])
      BY <1>11
    <3> QED BY <3>1, <3>2
  <2>2. \A k, t \in Node : ToApply(thread'[k][t]) \subseteq ToSet(delivered'[k])
    BY <1>2, <1>10, <1>11
  <2> QED BY <1>11, <2>1, <2>2 DEF AppliedOnce, ToApply, NoneTwice
<1>13. ASSUME NEW k \in Node
       PROVE  \A m : m \in Waiting(k)' <=> m \in Waiting(k) /\ ~(k = n /\ m = h)
  <2>1. \A m : m \in Waiting(k)' <=> \E r \in Node : m \in ToApply(thread'[k][r])
    BY DEF Waiting, ToApply
  <2>2. \A m : m \in Waiting(k) <=> \E r \in Node : m \in ToApply(thread[k][r])
    BY WaitingIs
  <2>3. CASE k # n
    <3>1. \A t \in Node : thread'[k][t] = thread[k][t]
      BY <1>8, <2>3
    <3> QED BY <2>1, <2>2, <2>3, <3>1
  <2>4. CASE k = n
    <3>1. \A t \in Node \ {s} : thread'[n][t] = thread[n][t] /\ h \notin ToApply(thread[n][t])
      BY <1>8, <1>9, <1>10
    <3>2. ToApply(thread'[n][s]) = ToApply(thread[n][s]) \ {h}
      BY <1>8, <1>9
    <3>3. \A m : \A t \in Node :
             m \in ToApply(thread'[n][t]) <=> m \in ToApply(thread[n][t]) /\ m # h
      BY <3>1, <3>2
    <3> QED BY <2>1, <2>2, <2>4, <3>3
  <2> QED BY <2>3, <2>4
<1>14. h \in Waiting(n) /\ h \in ToSet(delivered[n])
  BY <1>9, <1>10, WaitingIs
<1>15. ASSUME NEW k \in Node
       PROVE  (Total(balance[k], Account) = Total(Amount, Deposits(k)))'
  <2>1. CASE k # n
    <3>1. Deposits(k)' = Deposits(k)
      BY <1>2, <1>13, <2>1 DEF Deposits
    <3>2. balance'[k] = balance[k]
      BY <1>7, <2>1 DEF TypeInv, BalanceOK
    <3> QED BY <3>1, <3>2 DEF MoneyInv, Balanced
  <2>2. CASE k = n
    <3>1. PICK D : D = Deposits(n)
      OBVIOUS
    <3>2. /\ h \notin D
          /\ Deposits(n)' = IF Operation[h].type = "DEPOSIT" THEN D \cup {h} ELSE D
      BY <1>2, <1>13, <1>14, <3>1 DEF Deposits
    <3>3. Summands(Amount, D) /\ Summands(Amount, D \cup {h})
      <4>1. D \subseteq sent
        BY <3>1 DEF TypeInv, DeliveredOK, Deposits, ToSet
      <4>2. IsFiniteSet(D)
        BY <4>1, FS_Subset DEF TypeInv, SentOK
      <4>3. IsFiniteSet(D \cup {h})
        BY <4>2, FS_AddElement
      <4>4. \A m \in Message : Amount[m] \in Int
        BY OperationAssumption DEF Amount
      <4>5. D \cup {h} \subseteq Message
        BY <4>1 DEF TypeInv, SentOK
      <4> QED BY <4>2, <4>3, <4>4, <4>5 DEF Summands
    <3>4. Total(Amount, D \cup {h}) = Amount[h] + Total(Amount, D)
      <4>1. (D \cup {h}) \ {h} = D
        BY <3>2
      <4>2. Total(Amount, D \cup {h}) = Amount[h] + Total(Amount, (D \cup {h}) \ {h})
        BY <3>3, TotalWithout
      <4> QED BY <4>1, <4>2
    <3>5. balance[n] \in [Account -> Nat] /\ balance'[n] = Apply(balance[n], Operation[h])
      BY <1>7 DEF TypeInv, BalanceOK
    <3>6. Total(balance'[n], Account) = Total(balance[n], Account)
             + (IF Operation[h].type = "DEPOSIT" THEN Amount[h] ELSE 0)
      BY <3>5, ApplyTotal
    <3>7. Total(balance[n], Account) = Total(Amount, D)
      BY <3>1 DEF MoneyInv, Balanced
    <3>8. Total(Amount, D) \in Int /\ Amount[h] \in Int
      BY <3>3, TotalType DEF Summands
    <3>9. Total(balance'[n], Account) = Total(Amount, Deposits(n)')
      <4>1. CASE Operation[h].type = "DEPOSIT"
        BY <3>2, <3>4, <3>6, <3>7, <3>8, <4>1
      <4>2. CASE Operation[h].type # "DEPOSIT"
        BY <3>2, <3>6, <3>7, <3>8, <4>2
      <4> QED BY <4>1, <4>2
    <3> QED BY <2>2, <3>9 DEF Amount
  <2> QED BY <2>1, <2>2
<1>16. Balanced'
  BY <1>15 DEF Balanced
<1> QED BY <1>3, <1>12, <1>16 DEF MoneyInv

LEMMA MovesKeep ==
    ASSUME TypeInv, NEW n \in Node, NEW s \in Node, NEW place, Goto(n, s, place),
           thread[n][s].at # "update", place.at # "update"
    PROVE  ThreadsKeep
BY ThreadMoves DEF ThreadsKeep

\* Whatever happens to messages and proposals leaves the money alone.
LEMMA ReadMoney ==
    ASSUME TypeInv, ReceivedOnce, MoneyInv, NEW n \in Node, NEW s \in Node, NEW w,
           TakeMessage(n, s, w) \/ TakeProposal(n, s, w) \/ TakeAgreement(n, s, w)
    PROVE  MoneyInv'
<1>1. NoMorePending
  BY TakeMessageStep, TakeProposalStep, TakeAgreementStep DEF StandsStill
<1>2. UNCHANGED <<queue, delivered, balance>>
  BY DEF TakeMessage, TakeProposal, TakeAgreement, isisVars
<1>3. thread[n][s] = Receiving
  BY DEF TakeMessage, TakeProposal, TakeAgreement, Reads
<1>4. UNCHANGED thread \/ \E place : Goto(n, s, place) /\ place.at = "flood"
  <2>1. CASE TakeMessage(n, s, w)
    <3>1. PICK place : place = [at |-> "flood", wires |-> <<w>>, next |-> "propose"]
      OBVIOUS
    <3> QED BY <2>1, <3>1 DEF TakeMessage
  <2>2. CASE TakeAgreement(n, s, w)
    <3>1. PICK place : place = [at |-> "flood", wires |-> <<w>>, next |-> "deliver"]
      OBVIOUS
    <3> QED BY <2>2, <3>1 DEF TakeAgreement
  <2>3. CASE TakeProposal(n, s, w)
    <3> DEFINE P == allproposed[n][w.id] \cup {w.priority}
    <3>1. PICK place : place = [at |-> "flood", next |-> "recv",
                                wires |-> <<Agreement(w.id, Max(P))>>]
      OBVIOUS
    <3>2. UNCHANGED thread \/ Goto(n, s, place)
      BY <2>3, <3>1 DEF TakeProposal
    <3> QED BY <3>1, <3>2
  <2> QED BY <2>1, <2>2, <2>3
<1>5. ThreadsKeep
  <2>1. CASE UNCHANGED thread
    BY <2>1 DEF ThreadsKeep
  <2>2. CASE \E place : Goto(n, s, place) /\ place.at = "flood"
    BY <1>3, <2>2, MovesKeep DEF Receiving
  <2> QED BY <1>4, <2>1, <2>2
<1> QED BY <1>1, <1>2, <1>5, QuietMoney

LEMMA SendMoney ==
    ASSUME TypeInv, ReceivedOnce, MoneyInv, NEW n \in Node, NEW s \in Node,
           Flood(n, s) \/ Reply(n, s)
    PROVE  MoneyInv'
<1>1. NoMorePending
  BY FloodStep, ReplyStep DEF StandsStill
<1>2. UNCHANGED <<queue, delivered, balance>>
  BY DEF Flood, Reply, isisVars
<1>3. thread[n][s].at \in {"flood", "reply"}
  BY DEF Flood, Reply
<1>4. \E place : Goto(n, s, place) /\ place.at # "update"
  <2>1. CASE Reply(n, s)
    BY <2>1 DEF Reply, Receiving
  <2>2. CASE Flood(n, s)
    <3>1. PICK place : place = IF thread[n][s].next = "recv" THEN Receiving
                               ELSE [at |-> thread[n][s].next, wire |-> thread[n][s].wires[1]]
      OBVIOUS
    <3>2. Goto(n, s, place)
      BY <2>2, <3>1 DEF Flood
    <3>3. thread[n][s].next \in {"propose", "recv", "deliver"}
      <4>1. thread[n][s] \in PlaceOf(sent) /\ thread[n][s].at = "flood"
        BY <2>2 DEF TypeInv, ThreadOK, Flood
      <4> QED BY <4>1, PlaceCases
    <3>4. place.at # "update"
      BY <3>1, <3>3 DEF Receiving
    <3> QED BY <3>2, <3>4
  <2> QED BY <2>1, <2>2
<1>5. ThreadsKeep
  BY <1>3, <1>4, MovesKeep
<1> QED BY <1>1, <1>2, <1>5, QuietMoney

LEMMA DeathMoney ==
    ASSUME TypeInv, ReceivedOnce, MoneyInv, NEW n \in Node, NEW s \in Node,
           Notice(n, s) \/ DeleteNode(n, s) \/ Recount(n, s)
    PROVE  MoneyInv'
<1>1. NoMorePending
  BY NoticeOnce, RecountOnce
<1>2. UNCHANGED <<delivered, balance>>
  BY DEF Notice, DeleteNode, Recount, isisVars
<1>3. \A k \in Node : queue'[k] \subseteq queue[k]
  <2>1. CASE Notice(n, s) \/ Recount(n, s)
    BY <2>1 DEF Notice, Recount, isisVars
  <2>2. CASE DeleteNode(n, s)
    BY <2>2 DEF DeleteNode, TypeInv, QueueOK
  <2> QED BY <2>1, <2>2
<1>4. /\ thread[n][s].at # "update"
      /\ \E place : Goto(n, s, place) /\ place.at # "update"
  BY DEF Notice, DeleteNode, Recount, Receiving, Ended
<1>5. ThreadsKeep
  BY <1>4, MovesKeep
<1> QED BY <1>1, <1>2, <1>3, <1>5, QuietMoney

LEMMA MoneyInvStep == TypeInv /\ ReceivedOnce /\ MoneyInv /\ [Next]_vars => MoneyInv'
<1> SUFFICES ASSUME TypeInv, ReceivedOnce, MoneyInv, [Next]_vars PROVE MoneyInv'
  OBVIOUS
<1>1. ASSUME NEW m \in Message, Send(m)
      PROVE  MoneyInv'
  <2>1. NoMorePending /\ UNCHANGED <<queue, delivered, balance, thread>>
    BY <1>1, SendStep DEF StandsStill, Send
  <2> QED BY <2>1, QuietMoney DEF ThreadsKeep
<1>2. ASSUME NEW n \in Node, Die(n)
      PROVE  MoneyInv'
  <2>1. NoMorePending /\ UNCHANGED <<queue, delivered, balance, thread>>
    BY <1>2, DieOnce DEF Die, isisVars
  <2> QED BY <2>1, QuietMoney DEF ThreadsKeep
<1>3. ASSUME NEW n \in Node, NEW s \in Node, Listen(n, s)
      PROVE  MoneyInv'
  <2>1. CASE \E w : TakeMessage(n, s, w) \/ TakeProposal(n, s, w) \/ TakeAgreement(n, s, w)
    BY <2>1, ReadMoney
  <2>2. CASE Flood(n, s) \/ Reply(n, s)
    BY <2>2, SendMoney
  <2>3. CASE Propose(n, s) \/ Deliver(n, s) \/ UpdateBalance(n, s)
    BY <2>3, ProposeMoney, DeliverMoney, UpdateMoney
  <2>4. CASE Notice(n, s) \/ DeleteNode(n, s) \/ Recount(n, s)
    BY <2>4, DeathMoney
  <2> QED BY <1>3, <2>1, <2>2, <2>3, <2>4 DEF Listen
<1>4. CASE UNCHANGED vars
  <2>1. NoMorePending /\ UNCHANGED <<queue, delivered, balance, thread>>
    BY <1>4 DEF vars, marks, isisVars, NoMorePending, Pending, AboutTo
  <2> QED BY <2>1, QuietMoney DEF ThreadsKeep
<1> QED BY <1>1, <1>2, <1>3, <1>4 DEF Next

LEMMA MoneyInvInit == Init => MoneyInv
<1> SUFFICES ASSUME Init PROVE MoneyInv
  OBVIOUS
<1>1. \A n \in Node : /\ ToSet(delivered[n]) = {} /\ queue[n] = {}
                      /\ \A s \in Node : thread[n][s] = Receiving
                      /\ balance[n] = [a \in Account |-> 0]
  BY DEF Init, ToSet
<1>2. PendingNew /\ QueuedOnce
  BY <1>1 DEF PendingNew, QueuedOnce, OneEntryEach, Delivered
<1>3. AppliedOnce
  BY <1>1 DEF AppliedOnce, ToApply, Receiving
<1>4. Balanced
  <2> DEFINE zero == [a \in Account |-> 0]
  <2>1. Total(zero, Account) = 0
    BY TotalOfZeros, AccountAssumption
  <2>2. \A n \in Node : Deposits(n) = {}
    BY <1>1 DEF Deposits
  <2> HIDE DEF zero
  <2> QED BY <1>1, <2>1, <2>2, TotalOfNone DEF Balanced, zero
<1> QED BY <1>2, <1>3, <1>4 DEF MoneyInv

LEMMA MoneyInvKept == MoneyInv => MoneyKept
BY DEF MoneyInv, Balanced, MoneyKept, Total, Deposits

\* Each node applies what it hands over once (updateBalance under
\* acountCtl_mutex), whichever of its threads gets to it and in whatever order:
\* the balances add up to the deposits applied, and no transfer makes money or
\* loses it, also when a node has died and its peers agree on one message at
\* the priority of another.
THEOREM MoneyAlwaysKept == Spec => []MoneyKept
<1>1. TypeInv /\ ReceivedOnce /\ MoneyInv /\ [Next]_vars => ReceivedOnce' /\ MoneyInv'
  BY OnceInvStep, MoneyInvStep
<1>2. Init => ReceivedOnce /\ MoneyInv
  BY AgreementInvInit, MoneyInvInit
<1> QED BY <1>1, <1>2, TypeInvAlways, MoneyInvKept, PTL DEF Spec

-----------------------------------------------------------------------------
(***************************************************************************)
(* One order.                                                              *)
(***************************************************************************)
\* One message at a time: nobody dies, and a message is sent when all those
\* before it have been marked as agreed somewhere.
OneByOne == Mortal = {} /\ MaxOpen = 1 /\ IsFiniteSet(Message)

\* Every node has proposed for m, and has it in its heap or handed it over.
Settled(m) ==
    \A k \in Node :
        /\ ~Pending(k, m)
        /\ Delivered(k, m) \/ \E e \in queue[k] : e.id = m

\* What has been decided is settled.
AgreedSettled == \A m \in Message, a \in Nat : AgreedOn(m, a) => Settled(m)
MarkedSettled == \A n \in Node : \A m \in agreed[n] : Settled(m)

\* A priority that somebody still goes by was proposed, and a node's own
\* priorities do not pass its proSeq.
Known(m, b) == Proposed(m, b) \/ AgreedOn(m, b)
WithinProSeq ==
    /\ \A m \in Message, b \in Nat : Known(m, b) => b <= proSeq[b % 10]
    /\ \A n \in Node : \A e \in queue[n] : ~e.deliverable => e.priority <= proSeq[n]

\* Where k has not heard what is agreed for m, it has m below b.
Below(m, k, b) ==
    \A e \in queue[k] : e.id = m /\ ~e.deliverable => e.priority < b

\* m is settled and h is given no priority that would let it pass m: one that
\* a node proposes is above what that node has proposed for m, and what is
\* agreed is above all that m has.
Precedes(m, h) ==
    /\ Settled(m)
    /\ \A p \in Nat : Proposed(h, p) =>
          /\ Below(m, p % 10, p)
          /\ \A b \in Nat : Known(m, b) /\ b % 10 = p % 10 => b < p
    /\ \A a \in Nat : AgreedOn(h, a) =>
          /\ \A k \in Node : Below(m, k, a)
          /\ \A b \in Nat : Known(m, b) => b < a

\* The messages sent are in a line, in which each comes before all that follow
\* it, and every node has handed over a first part of it.
Begins(s, line) == Len(s) <= Len(line) /\ \A i \in 1..Len(s) : s[i] = line[i]
Follows(line) ==
    /\ \A m \in sent : \E i \in 1..Len(line) : line[i] = m
    /\ \A i, j \in 1..Len(line) :
          i < j => line[i] # line[j] /\ Precedes(line[i], line[j])
    /\ \A k \in Node : Begins(delivered[k], line)
OneLine == \E line \in Seq(sent) : Follows(line)

\* The inductive invariant of the refinement.
LineInv ==
    /\ TypeInv /\ ReceivedOnce /\ MoneyInv
    /\ alive = Node /\ AgreementInv
    /\ AgreedSettled /\ MarkedSettled /\ WithinProSeq /\ OneLine

(***************************************************************************)
(* What the steps of nodes that all live do to all this.                   *)
(***************************************************************************)
\* p is the priority that a node has just proposed for m.
Fresh(m, p) ==
    /\ p % 10 \in Node /\ Pending(p % 10, m)
    /\ p > proSeq[p % 10] /\ p = proSeq'[p % 10]
\* a is the highest of what the nodes have proposed for m.
HighestOf(m, a) ==
    /\ Proposed(m, a)
    /\ \A k \in Node : \E p \in Nat : p % 10 = k /\ p <= a /\ Proposed(m, p)

Evolves ==
    /\ NoMorePending
    /\ \A n \in Node : proSeq'[n] >= proSeq[n]
    /\ \A m \in Message, p \in Nat : Proposed(m, p)' => Proposed(m, p) \/ Fresh(m, p)
    /\ \A m \in Message, a \in Nat : AgreedOn(m, a)' => AgreedOn(m, a) \/ HighestOf(m, a)
    /\ \A k \in Node : \A e \in queue'[k] :
          e.deliverable \/ e \in queue[k] \/ (Pending(k, e.id) /\ e.priority = proSeq'[k])
    /\ \A k \in Node, m \in Message :
          Delivered(k, m) \/ (\E e \in queue[k] : e.id = m) =>
              Delivered(k, m)' \/ \E e \in queue'[k] : e.id = m

LEMMA StandsStillEvolves ==
    ASSUME TypeInv, StandsStill, UNCHANGED proSeq
    PROVE  Evolves
<1>1. \A n \in Node : proSeq'[n] >= proSeq[n]
  BY DEF TypeInv, SeqsOK
<1>2. \A k \in Node, m \in Message : Delivered(k, m)' <=> Delivered(k, m)
  BY DEF StandsStill, Delivered
<1> QED BY <1>1, <1>2 DEF Evolves, StandsStill, NoMoreProposed, NoMoreAgreed

LEMMA ProposesEvolves ==
    ASSUME TypeInv, NEW n \in Node, NEW m \in Message, NEW p \in Nat, Proposes(n, m, p),
           p > proSeq[n], proSeq' = [proSeq EXCEPT ![n] = p]
    PROVE  Evolves
<1>1. /\ proSeq'[n] = p
      /\ \A k \in Node : proSeq'[k] >= proSeq[k]
  BY DEF TypeInv, SeqsOK
<1>2. \A k \in Node, h \in Message : Delivered(k, h)' <=> Delivered(k, h)
  BY DEF Proposes, Delivered
<1>3. Fresh(m, p)
  BY <1>1 DEF Fresh, Proposes
<1>4. \A h \in Message, q \in Nat : Proposed(h, q)' => Proposed(h, q) \/ Fresh(h, q)
  BY <1>3 DEF Proposes
<1>5. \A k \in Node : \A e : e \in queue[k]' <=>
                                 e \in queue[k] \/ (k = n /\ e = Entry(m, p, FALSE))
  BY DEF Proposes, TypeInv, QueueOK
<1>6. Entry(m, p, FALSE).id = m /\ Entry(m, p, FALSE).priority = p
  BY DEF Entry
<1>7. Pending(n, m)
  BY DEF Proposes
<1>8. \A k \in Node : \A e \in queue'[k] :
         e.deliverable \/ e \in queue[k] \/ (Pending(k, e.id) /\ e.priority = proSeq'[k])
  BY <1>1, <1>5, <1>6, <1>7
<1>9. \A k \in Node : queue[k] \subseteq queue'[k]
  BY <1>5
<1> QED BY <1>1, <1>2, <1>4, <1>8, <1>9 DEF Evolves, Proposes, NoMoreAgreed

LEMMA DecidesEvolves ==
    ASSUME TypeInv, AgreementInv, NEW m \in Message, NEW P \in SUBSET Nat, IsFiniteSet(P),
           Decides(m, P), UNCHANGED proSeq
    PROVE  Evolves /\ Settled(m)
<1>1. /\ \A p \in P : Proposed(m, p) /\ p % 10 \in Node
      /\ \A p, q \in P : p % 10 = q % 10 => p = q
  BY DEF Decides, AgreementInv, OneProposal
<1>2. \A k \in Node : \E p \in P : p % 10 = k
  BY <1>1, EveryNodeProposed DEF Decides
<1>3. P # {}
  BY <1>2, NodeAssumption
<1>4. Max(P) \in P /\ \A p \in P : p <= Max(P)
  BY <1>3, MaxOfFinite
<1>5. HighestOf(m, Max(P))
  BY <1>1, <1>2, <1>4 DEF HighestOf
<1>6. \A k \in Node, h \in Message : Delivered(k, h)' <=> Delivered(k, h)
  BY DEF Decides, Delivered
<1>7. Evolves
  <2>1. \A n \in Node : proSeq'[n] >= proSeq[n]
    BY DEF TypeInv, SeqsOK
  <2>2. \A h \in Message, a \in Nat : AgreedOn(h, a)' => AgreedOn(h, a) \/ HighestOf(h, a)
    BY <1>5 DEF Decides
  <2> QED BY <1>6, <2>1, <2>2 DEF Evolves, Decides, NoMoreProposed
<1>8. Settled(m)
  <2> SUFFICES ASSUME NEW k \in Node
               PROVE  ~Pending(k, m) /\ (Delivered(k, m) \/ \E e \in queue[k] : e.id = m)
    BY DEF Settled
  <2>1. PICK p \in P : p % 10 = k
    BY <1>2
  <2>2. Proposed(m, p) /\ p \in Nat
    BY <1>1
  <2> QED BY <2>1, <2>2 DEF AgreementInv, PendingUnknown, ProposedHere
<1> QED BY <1>7, <1>8

LEMMA HandsOverEvolves ==
    ASSUME TypeInv, NEW n \in Node, NEW m \in Message, NEW a \in Nat, HandsOver(n, m, a),
           UNCHANGED proSeq
    PROVE  Evolves
<1> DEFINE q == Replaced(queue[n], m, a)
<1>1. /\ \A k \in Node, h \in Message :
            Delivered(k, h)' <=>
                Delivered(k, h) \/ (k = n /\ \E e \in Popped(q) : e.id = h)
      /\ \A k \in Node : k # n => queue'[k] = queue[k]
      /\ queue'[n] = q \ Popped(q)
  BY DEF HandsOver, TypeInv, QueueOK
<1>2. Entry(m, a, TRUE).id = m /\ Entry(m, a, TRUE).deliverable
  BY DEF Entry
<1>3. /\ \A e \in q : e \in queue[n] \/ e.deliverable
      /\ \A e \in queue[n] : \E f \in q : f.id = e.id
  BY <1>2 DEF Replaced
<1> HIDE DEF q
<1>4. \A k \in Node : \A e \in queue'[k] : e.deliverable \/ e \in queue[k]
  BY <1>1, <1>3
<1>5. ASSUME NEW k \in Node, NEW h \in Message,
             Delivered(k, h) \/ \E e \in queue[k] : e.id = h
      PROVE  Delivered(k, h)' \/ \E e \in queue'[k] : e.id = h
  <2>1. CASE Delivered(k, h) \/ k # n
    BY <1>1, <1>5, <2>1
  <2>2. CASE ~Delivered(k, h) /\ k = n
    <3>1. PICK e \in q : e.id = h
      BY <1>3, <1>5, <2>2
    <3> QED BY <1>1, <2>2, <3>1
  <2> QED BY <2>1, <2>2
<1>6. \A k \in Node : proSeq'[k] >= proSeq[k]
  BY DEF TypeInv, SeqsOK
<1>7. NoMorePending /\ NoMoreProposed /\ NoMoreAgreed
  BY DEF HandsOver
<1> QED BY <1>4, <1>5, <1>6, <1>7 DEF Evolves, NoMoreProposed, NoMoreAgreed

(***************************************************************************)
(* What is kept.                                                           *)
(***************************************************************************)
LEMMA SettledKept ==
    ASSUME Evolves, NEW m \in Message, Settled(m)
    PROVE  Settled(m)'
<1> SUFFICES ASSUME NEW k \in Node
             PROVE  ~Pending(k, m)' /\ (Delivered(k, m)' \/ \E e \in queue'[k] : e.id = m)
  BY DEF Settled
<1>1. ~Pending(k, m) /\ (Delivered(k, m) \/ \E e \in queue[k] : e.id = m)
  BY DEF Settled
<1>2. ~Pending(k, m)'
  BY <1>1 DEF Evolves, NoMorePending
<1>3. Delivered(k, m)' \/ \E e \in queue'[k] : e.id = m
  BY <1>1 DEF Evolves
<1> QED BY <1>2, <1>3

\* Whatever is known was proposed by a node.
LEMMA KnownHome ==
    ASSUME AgreementInv, NEW m \in Message, NEW b \in Nat, Known(m, b)
    PROVE  b % 10 \in Node
BY DEF AgreementInv, OneProposal, AgreedHighest, Known

LEMMA WithinProSeqKept ==
    ASSUME TypeInv, TypeInv', AgreementInv, Evolves, WithinProSeq
    PROVE  WithinProSeq'
<1>1. proSeq \in [Node -> Nat] /\ proSeq' \in [Node -> Nat]
  BY DEF TypeInv, SeqsOK
<1>2. ASSUME NEW m \in Message, NEW b \in Nat, Known(m, b)'
      PROVE  b <= proSeq'[b % 10]
  <2>1. Known(m, b) \/ Fresh(m, b)
    BY <1>2 DEF Known, Evolves, HighestOf
  <2>2. CASE Known(m, b)
    <3>1. PICK k \in Node : k = b % 10
      BY <2>2, KnownHome
    <3>2. b <= proSeq[k] /\ proSeq'[k] >= proSeq[k]
      BY <2>2, <3>1 DEF WithinProSeq, Evolves
    <3>3. proSeq[k] \in Nat /\ proSeq'[k] \in Nat
      BY <1>1
    <3>4. b <= proSeq'[k]
      BY <3>2, <3>3
    <3> QED BY <3>1, <3>4
  <2>3. CASE Fresh(m, b)
    <3>1. b = proSeq'[b % 10]
      BY <2>3 DEF Fresh
    <3> QED BY <3>1
  <2> QED BY <2>1, <2>2, <2>3
<1>3. ASSUME NEW n \in Node, NEW e \in queue'[n], ~e.deliverable
      PROVE  e.priority <= proSeq'[n]
  <2>1. /\ proSeq[n] \in Nat /\ proSeq'[n] \in Nat /\ proSeq'[n] >= proSeq[n]
        /\ e.priority \in Nat
    BY <1>1, <1>3 DEF Evolves, TypeInv, QueueOK, EntryOf
  <2>2. (e \in queue[n] /\ e.priority <= proSeq[n]) \/ e.priority = proSeq'[n]
    BY <1>3 DEF Evolves, WithinProSeq
  <2> QED BY <2>1, <2>2
<1> QED BY <1>2, <1>3 DEF WithinProSeq

\* What is known of a settled message, and what the heaps hold of it, was so
\* before.
LEMMA SettledShrinks ==
    ASSUME TypeInv, Evolves, NEW m \in Message, Settled(m)
    PROVE  /\ \A b \in Nat : Known(m, b)' => Known(m, b)
           /\ \A k \in Node : \A e \in queue'[k] :
                 e.id = m /\ ~e.deliverable => e \in queue[k]
<1>1. \A k \in Node : ~Pending(k, m)
  BY DEF Settled
<1>2. \A b \in Nat : ~Fresh(m, b)
  BY <1>1 DEF Fresh
<1>3. \A b \in Nat : Known(m, b)' => Known(m, b)
  BY <1>2 DEF Known, Evolves, HighestOf
<1>4. \A k \in Node : \A e \in queue'[k] :
         e.id = m /\ ~e.deliverable => e \in queue[k]
  BY <1>1 DEF Evolves
<1> QED BY <1>3, <1>4

\* A node proposes above its proSeq, ...
LEMMA FreshIsAbove ==
    ASSUME TypeInv, AgreementInv, WithinProSeq, NEW m \in Message, NEW h \in Message,
           NEW p \in Nat, Fresh(h, p)
    PROVE  /\ Below(m, p % 10, p)
           /\ \A b \in Nat : Known(m, b) /\ b % 10 = p % 10 => b < p
<1>1. PICK k \in Node : k = p % 10 /\ p > proSeq[k]
  BY DEF Fresh
<1>2. proSeq[k] \in Nat
  BY DEF TypeInv, SeqsOK
<1>3. ASSUME NEW e \in queue[k], ~e.deliverable
      PROVE  e.priority < p
  <2>1. e.priority \in Nat /\ e.priority <= proSeq[k]
    BY <1>3 DEF TypeInv, QueueOK, EntryOf, WithinProSeq
  <2> QED BY <1>1, <1>2, <2>1
<1>4. ASSUME NEW b \in Nat, Known(m, b), b % 10 = k
      PROVE  b < p
  <2>1. b <= proSeq[k]
    BY <1>4 DEF WithinProSeq
  <2> QED BY <1>1, <1>2, <2>1
<1> QED BY <1>1, <1>3, <1>4 DEF Below

\* ... so that the highest of all proposals is above all that was proposed
\* before them.
LEMMA HighestIsAbove ==
    ASSUME TypeInv, AgreementInv, NEW m \in Message, NEW h \in Message, Precedes(m, h),
           NEW a \in Nat, HighestOf(h, a)
    PROVE  /\ \A k \in Node : Below(m, k, a)
           /\ \A b \in Nat : Known(m, b) => b < a
<1>1. ASSUME NEW k \in Node, NEW e \in queue[k], e.id = m, ~e.deliverable
      PROVE  e.priority < a
  <2>1. PICK p \in Nat : p % 10 = k /\ p <= a /\ Proposed(h, p)
    BY DEF HighestOf
  <2>2. Below(m, k, p)
    BY <2>1 DEF Precedes
  <2>3. e.priority < p /\ e.priority \in Nat
    BY <1>1, <2>2 DEF Below, TypeInv, QueueOK, EntryOf
  <2> QED BY <2>1, <2>3
<1>2. ASSUME NEW b \in Nat, Known(m, b)
      PROVE  b < a
  <2>1. PICK k \in Node : k = b % 10
    BY <1>2, KnownHome
  <2>2. PICK p \in Nat : p % 10 = k /\ p <= a /\ Proposed(h, p)
    BY DEF HighestOf
  <2>3. b < p
    BY <1>2, <2>1, <2>2 DEF Precedes
  <2> QED BY <2>2, <2>3
<1> QED BY <1>1, <1>2 DEF Below

LEMMA PrecedesKept ==
    ASSUME TypeInv, AgreementInv, WithinProSeq, Evolves,
           NEW m \in Message, NEW h \in Message, Precedes(m, h)
    PROVE  Precedes(m, h)'
<1>1. Settled(m) /\ Settled(m)'
  BY SettledKept DEF Precedes
<1>2. /\ \A b \in Nat : Known(m, b)' => Known(m, b)
      /\ \A k \in Node, b \in Nat : Below(m, k, b) => Below(m, k, b)'
  BY <1>1, SettledShrinks DEF Below
<1>3. ASSUME NEW p \in Nat, Proposed(h, p)'
      PROVE  /\ Below(m, p % 10, p)'
             /\ \A b \in Nat : Known(m, b)' /\ b % 10 = p % 10 => b < p
  <2>1. p % 10 \in Node
    <3>1. Proposed(h, p) => p % 10 \in Node
      BY KnownHome DEF Known
    <3> QED BY <1>3, <3>1 DEF Evolves, Fresh
  <2>2. /\ Below(m, p % 10, p)
        /\ \A b \in Nat : Known(m, b) /\ b % 10 = p % 10 => b < p
    <3>1. CASE Proposed(h, p)
      BY <3>1 DEF Precedes
    <3>2. CASE Fresh(h, p)
      BY <3>2, FreshIsAbove
    <3> QED BY <1>3, <3>1, <3>2 DEF Evolves
  <2> QED BY <1>2, <2>1, <2>2
<1>4. ASSUME NEW a \in Nat, AgreedOn(h, a)'
      PROVE  /\ \A k \in Node : Below(m, k, a)'
             /\ \A b \in Nat : Known(m, b)' => b < a
  <2>1. /\ \A k \in Node : Below(m, k, a)
        /\ \A b \in Nat : Known(m, b) => b < a
    <3>1. CASE AgreedOn(h, a)
      BY <3>1 DEF Precedes
    <3>2. CASE HighestOf(h, a)
      BY <3>2, HighestIsAbove
    <3> QED BY <1>4, <3>1, <3>2 DEF Evolves
  <2> QED BY <1>2, <2>1
<1> QED BY <1>1, <1>3, <1>4 DEF Precedes

\* What a step does to the rest: what is agreed later was so before or is
\* settled, and what is marked had been agreed.
Agrees ==
    /\ \A m \in Message, a \in Nat : AgreedOn(m, a)' => AgreedOn(m, a) \/ Settled(m)
    /\ \A n \in Node : \A m \in agreed'[n] :
          m \in agreed[n] \/ \E a \in Nat : AgreedOn(m, a)

LEMMA NoneNewlyAgreed ==
    ASSUME NoMoreAgreed, UNCHANGED agreed
    PROVE  Agrees
BY DEF NoMoreAgreed, Agrees

LEMMA SendEvolves ==
    ASSUME TypeInv, ReceivedOnce, NEW m \in Message, Send(m)
    PROVE  Evolves /\ Agrees
<1>1. UNCHANGED proSeq /\ UNCHANGED agreed
  BY DEF Send, isisVars, marks
<1>2. StandsStill
  BY SendStep
<1> QED BY <1>1, <1>2, StandsStillEvolves, NoneNewlyAgreed DEF StandsStill

LEMMA TakeAgreementEvolves ==
    ASSUME TypeInv, ReceivedOnce, NEW n \in Node, NEW s \in Node, NEW w,
           TakeAgreement(n, s, w)
    PROVE  Evolves /\ Agrees
<1>1. UNCHANGED proSeq /\ agreed' = [agreed EXCEPT ![n] = @ \cup {w.id}]
  BY DEF TakeAgreement, isisVars
<1>2. StandsStill
  BY TakeAgreementStep
<1>3. w \in Wire /\ UnderWay(w) /\ w.type = "AGREE"
  BY ReadsLinks DEF TakeAgreement
<1>4. w.id \in Message /\ w.priority \in Nat /\ w = Agreement(w.id, w.priority)
  BY <1>3, WireFields
<1>5. AgreedOn(w.id, w.priority)
  BY <1>3, <1>4 DEF AgreedOn
<1>6. \A k \in Node : agreed'[k] = IF k = n THEN agreed[n] \cup {w.id} ELSE agreed[k]
  BY <1>1 DEF TypeInv, MarksOK
<1>7. \A k \in Node : \A m \in agreed'[k] : m \in agreed[k] \/ m = w.id
  BY <1>6
<1>8. Agrees
  BY <1>2, <1>4, <1>5, <1>7 DEF Agrees, StandsStill, NoMoreAgreed
<1> QED BY <1>1, <1>2, <1>8, StandsStillEvolves

LEMMA TakeProposalEvolves ==
    ASSUME TypeInv, ReceivedOnce, AgreementInv, alive = Node,
           NEW n \in Node, NEW s \in Node, NEW w, TakeProposal(n, s, w)
    PROVE  Evolves /\ Agrees
<1>1. UNCHANGED proSeq /\ UNCHANGED agreed
  BY DEF TakeProposal, marks
<1>2. CASE StandsStill
  BY <1>1, <1>2, StandsStillEvolves, NoneNewlyAgreed DEF StandsStill
<1>3. ASSUME NEW m \in Message, NEW P \in SUBSET Nat, IsFiniteSet(P), Decides(m, P)
      PROVE  Evolves /\ Agrees
  <2>1. Evolves /\ Settled(m)
    BY <1>1, <1>3, DecidesEvolves
  <2>2. Agrees
    BY <1>1, <1>3, <2>1 DEF Agrees, Decides
  <2> QED BY <2>1, <2>2
<1> QED BY <1>2, <1>3, TakeProposalStep

LEMMA ProposeEvolves ==
    ASSUME TypeInv, ReceivedOnce, AgreementInv, NEW n \in Node, NEW s \in Node,
           Propose(n, s)
    PROVE  Evolves /\ Agrees
<1>1. UNCHANGED agreed
  BY DEF Propose, marks
<1>2. PICK m \in Message, p \in Nat : Proposes(n, m, p)
  BY ProposeStep
<1>3. /\ p > proSeq[n]
      /\ proSeq' = [proSeq EXCEPT ![n] = p]
  <2> DEFINE x == Max({proSeq[n], agrSeq[n]})
             b == Above(x, n)
  <2>1. x \in Nat /\ x >= proSeq[n] /\ proSeq[n] \in Nat
    BY MaxOfTwo DEF TypeInv, SeqsOK
  <2>2. b \in Nat /\ b > x
    BY <2>1, AboveProps
  <2>3. /\ proSeq' = [proSeq EXCEPT ![n] = b]
        /\ queue' = [queue EXCEPT ![n] = @ \cup {Entry(thread[n][s].wire.id, b, FALSE)}]
    BY DEF Propose
  <2> HIDE DEF x, b
  <2>4. Entry(m, p, FALSE) \notin queue[n]
    <3>1. \A e \in queue[n] : e.id # m
      BY <1>2 DEF Proposes, AgreementInv, PendingUnknown
    <3> QED BY <3>1 DEF Entry
  <2>5. Entry(m, p, FALSE) \in queue'[n]
    BY <1>2 DEF Proposes, TypeInv, QueueOK
  <2>6. Entry(m, p, FALSE) = Entry(thread[n][s].wire.id, b, FALSE)
    BY <2>3, <2>4, <2>5 DEF TypeInv, QueueOK
  <2>7. p = b
    BY <2>6 DEF Entry
  <2> QED BY <2>1, <2>2, <2>3, <2>7
<1> QED BY <1>1, <1>2, <1>3, ProposesEvolves, NoneNewlyAgreed DEF Proposes

LEMMA DeliverEvolves ==
    ASSUME TypeInv, ReceivedOnce, NEW n \in Node, NEW s \in Node, Deliver(n, s)
    PROVE  Evolves /\ Agrees
<1>1. UNCHANGED proSeq /\ UNCHANGED agreed
  BY DEF Deliver, marks
<1>2. PICK m \in Message, a \in Nat : HandsOver(n, m, a)
  BY DeliverStep
<1>3. Evolves
  BY <1>1, <1>2, HandsOverEvolves
<1>4. NoMoreAgreed
  BY <1>2 DEF HandsOver
<1>5. Agrees
  BY <1>1, <1>4, NoneNewlyAgreed
<1> QED BY <1>3, <1>5

\* The steps of a node that waits for nothing new.
LEMMA OtherStepsEvolve ==
    ASSUME TypeInv, ReceivedOnce, NEW n \in Node, NEW s \in Node,
           \/ \E w : TakeMessage(n, s, w)
           \/ Flood(n, s) \/ Reply(n, s) \/ UpdateBalance(n, s)
    PROVE  Evolves /\ Agrees
<1>1. StandsStill
  BY TakeMessageStep, FloodStep, ReplyStep, UpdateBalanceStep
<1>2. UNCHANGED proSeq /\ UNCHANGED agreed
  <2>1. ASSUME NEW w, TakeMessage(n, s, w)
        PROVE  UNCHANGED proSeq /\ UNCHANGED agreed
    BY <2>1 DEF TakeMessage, isisVars
  <2>2. Flood(n, s) => UNCHANGED proSeq /\ UNCHANGED agreed
    BY DEF Flood, isisVars, marks
  <2>3. Reply(n, s) => UNCHANGED proSeq /\ UNCHANGED agreed
    BY DEF Reply, isisVars, marks
  <2>4. UpdateBalance(n, s) => UNCHANGED proSeq /\ UNCHANGED agreed
    BY DEF UpdateBalance, isisVars, marks
  <2> QED BY <2>1, <2>2, <2>3, <2>4
<1> QED BY <1>1, <1>2, StandsStillEvolves, NoneNewlyAgreed DEF StandsStill

LEMMA ListenEvolves ==
    ASSUME TypeInv, ReceivedOnce, AgreementInv, alive = Node,
           NEW n \in Node, NEW s \in Node, Listen(n, s)
    PROVE  Evolves /\ Agrees
<1>1. CASE \E w : TakeProposal(n, s, w)
  BY <1>1, TakeProposalEvolves
<1>2. CASE \E w : TakeAgreement(n, s, w)
  BY <1>2, TakeAgreementEvolves
<1>3. CASE Propose(n, s)
  BY <1>3, ProposeEvolves
<1>4. CASE Deliver(n, s)
  BY <1>4, DeliverEvolves
<1>5. CASE \/ \E w : TakeMessage(n, s, w)
           \/ Flood(n, s) \/ Reply(n, s) \/ UpdateBalance(n, s)
  BY <1>5, OtherStepsEvolve
<1> QED BY <1>1, <1>2, <1>3, <1>4, <1>5, NobodyGone DEF Listen

\* Once decided, a message is settled for good.
LEMMA SettlesForGood ==
    ASSUME TypeInv', Evolves, Agrees, AgreedSettled, MarkedSettled
    PROVE  AgreedSettled' /\ MarkedSettled'
<1>1. \A m \in Message : Settled(m) => Settled(m)'
  BY SettledKept
<1>2. AgreedSettled'
  BY <1>1 DEF AgreedSettled, Agrees
<1>3. ASSUME NEW n \in Node, NEW m \in agreed'[n], m \in Message
      PROVE  Settled(m)'
  BY <1>1, <1>3 DEF AgreedSettled, MarkedSettled, Agrees
<1>4. \A n \in Node : agreed'[n] \subseteq Message
  BY DEF TypeInv, MarksOK, SentOK
<1> QED BY <1>2, <1>3, <1>4 DEF MarkedSettled

(***************************************************************************)
(* What a node hands over comes next in the line.                          *)
(***************************************************************************)
\* In the heap that an agreement has been put into, a message that is agreed
\* lies after all that come before it in the line.
LEMMA HeapInLine ==
    ASSUME TypeInv, NEW n \in Node, NEW x \in Message, NEW a \in Nat, AgreedOn(x, a),
           NEW q, q = Replaced(queue[n], x, a),
           NEW e \in q, NEW f \in q, f.deliverable, Precedes(e.id, f.id)
    PROVE  e.priority < f.priority
<1>1. /\ Entry(x, a, TRUE).id = x /\ Entry(x, a, TRUE).priority = a
      /\ Entry(x, a, TRUE).deliverable
  BY DEF Entry
<1>2. ASSUME NEW g \in q
      PROVE  /\ g.id \in Message /\ g.priority \in Nat
             /\ g.deliverable => AgreedOn(g.id, g.priority)
             /\ ~g.deliverable => g \in queue[n]
  <2>1. g \in queue[n] \/ g = Entry(x, a, TRUE)
    BY DEF Replaced
  <2>2. CASE g \in queue[n]
    <3>1. g \in EntryOf(sent) /\ sent \subseteq Message
      BY <2>2 DEF TypeInv, QueueOK, SentOK
    <3>2. g.deliverable => g = Entry(g.id, g.priority, TRUE)
      BY <3>1 DEF EntryOf, Entry
    <3>3. g.id \in Message /\ g.priority \in Nat
      BY <3>1 DEF EntryOf
    <3> QED BY <2>2, <3>2, <3>3 DEF AgreedOn
  <2>3. CASE g = Entry(x, a, TRUE)
    BY <1>1, <2>3
  <2> QED BY <2>1, <2>2, <2>3
<1>3. /\ e.id \in Message /\ e.priority \in Nat /\ f.id \in Message /\ f.priority \in Nat
      /\ AgreedOn(f.id, f.priority)
  BY <1>2
<1>4. /\ Below(e.id, n, f.priority)
      /\ \A b \in Nat : Known(e.id, b) => b < f.priority
  BY <1>3 DEF Precedes
<1>5. CASE e.deliverable
  BY <1>2, <1>3, <1>4, <1>5 DEF Known
<1>6. CASE ~e.deliverable
  BY <1>2, <1>4, <1>6 DEF Below
<1> QED BY <1>5, <1>6

\* deliverMsg hands over what comes next in the line: a message before one
\* that is popped has been handed over or is in the heap, has a lower priority
\* there and is therefore popped as well, and earlier.
LEMMA HandsInLine ==
    ASSUME LineInv, NEW line \in Seq(sent), Follows(line),
           NEW n \in Node, NEW s \in Node,
           NEW w \in OfType(sent, "AGREE"), NEW q, NEW ids \in Seq(sent),
           thread[n][s].at = "deliver",
           Hands(n, s, w, q, ids), Lists(ids, q)
    PROVE  NoneTwice(ids) /\ Begins(delivered[n] \o ids, line)
<1>1. /\ TypeInv /\ QueuedOnce
      /\ line \in Seq(sent) /\ Len(line) \in Nat
      /\ ids \in Seq(sent) /\ Len(ids) \in Nat /\ DOMAIN ids = 1..Len(ids)
  BY DEF LineInv, MoneyInv
<1>2. PICK d \in Seq(sent) : d = delivered[n]
  BY <1>1 DEF TypeInv, DeliveredOK
<1>3. /\ Len(d) \in Nat /\ Len(d) <= Len(line)
      /\ \A i \in 1..Len(d) : d[i] = line[i]
      /\ \A m : Delivered(n, m) <=> \E i \in 1..Len(d) : m = d[i]
  <2>1. Begins(d, line)
    BY <1>2 DEF Follows
  <2>2. DOMAIN d = 1..Len(d) /\ Len(d) \in Nat
    OBVIOUS
  <2>3. \A m : Delivered(n, m) <=> \E i \in 1..Len(d) : m = d[i]
    BY <1>2, <2>2 DEF Delivered, ToSet
  <2> QED BY <2>1, <2>2, <2>3 DEF Begins
<1>4. PICK x \in Message, a \in Nat : w = Agreement(x, a) /\ x = w.id /\ a = w.priority
  BY <1>1, WireFields DEF OfType, WireOf
<1>5. AgreedOn(x, a)
  BY <1>4 DEF Hands, AgreedOn, UnderWay, Carries
<1>6. q = Replaced(queue[n], x, a)
  BY <1>4 DEF Hands
<1>7. /\ OneEntryEach(q)
      /\ \A e \in q : \E f \in queue[n] : f.id = e.id
      /\ \A f \in queue[n] : \E e \in q : e.id = f.id
  BY <1>1, <1>6, ReplacedOnce DEF QueuedOnce
<1>8. NoneTwice(ids) /\ ByPriority(ids, q)
  BY <1>7 DEF Lists
<1>9. \A e \in q : ~Delivered(n, e.id)
  BY <1>1, <1>7 DEF QueuedOnce
<1> DEFINE Bad == {i \in 1..Len(ids) :
                      ~(Len(d) + i <= Len(line) /\ ids[i] = line[Len(d) + i])}
<1>10. ASSUME Bad # {}
       PROVE  FALSE
  <2>1. PICK i \in Bad : \A j \in Bad : i <= j
    <3>1. Bad \in SUBSET Nat
      OBVIOUS
    <3> HIDE DEF Bad
    <3> QED BY <1>10, <3>1, LeastNat
  <2>2. i \in 1..Len(ids) /\ ~(Len(d) + i <= Len(line) /\ ids[i] = line[Len(d) + i])
    OBVIOUS
  <2>3. \A j \in 1..Len(ids) : j < i => Len(d) + j <= Len(line) /\ ids[j] = line[Len(d) + j]
    <3>1. \A j \in 1..Len(ids) : j < i => j \notin Bad
      BY <2>1
    <3> QED BY <3>1
  <2> HIDE DEF Bad
  <2>4. ids[i] \in sent /\ ids[i] \in ToSet(ids)
    BY <1>1, <2>2 DEF ToSet
  <2>5. PICK f \in Popped(q) : f.id = ids[i]
    BY <2>4 DEF Lists
  <2>6. f \in q /\ f.deliverable /\ \A g \in q : g.deliverable \/ f.priority < g.priority
    BY <2>5 DEF Popped
  <2>7. PICK v \in 1..Len(line) : line[v] = ids[i]
    BY <2>4 DEF Follows
  <2>8. PICK u \in Nat : u = Len(d) + i
    BY <1>3, <2>2
  <2>9. u < v
    <3>1. v > Len(d)
      <4>1. ~Delivered(n, ids[i])
        BY <1>9, <2>5, <2>6
      <4> QED BY <1>3, <2>7, <4>1
    <3>2. \A j \in 1..Len(ids) : j < i => v # Len(d) + j
      BY <1>1, <1>8, <2>2, <2>3, <2>7 DEF NoneTwice
    <3>3. v # Len(d) + i
      BY <2>2, <2>7
    <3>4. ASSUME v <= u
          PROVE  FALSE
      <4>1. /\ v \in Nat /\ Len(d) \in Nat /\ Len(ids) \in Nat /\ i \in Nat
            /\ i <= Len(ids)
        BY <1>1, <1>3, <2>2
      <4>2. PICK j \in Nat : v = Len(d) + j /\ j >= 1
        <5>1. v - Len(d) \in Nat /\ v = Len(d) + (v - Len(d)) /\ v - Len(d) >= 1
          BY <3>1, <4>1
        <5> QED BY <5>1
      <4>3. j < i
        BY <2>8, <3>3, <3>4, <4>1, <4>2
      <4>4. j \in 1..Len(ids)
        BY <4>1, <4>2, <4>3
      <4> QED BY <3>2, <4>2, <4>3, <4>4
    <3> QED BY <2>8, <3>4
  <2>10. u \in 1..Len(line) /\ u > Len(d)
    BY <1>1, <1>3, <2>2, <2>8, <2>9
  <2>11. line[u] # line[v] /\ Precedes(line[u], line[v])
    BY <2>9, <2>10 DEF Follows
  <2>12. ~Delivered(n, line[u])
    <3>1. \A j \in 1..Len(d) : j \in 1..Len(line) /\ j < u
      BY <1>1, <1>3, <2>10
    <3>2. \A j \in 1..Len(d) : line[j] # line[u]
      BY <2>10, <3>1 DEF Follows
    <3> QED BY <1>3, <3>2
  <2>13. PICK e \in q : e.id = line[u]
    <3>1. \E g \in queue[n] : g.id = line[u]
      BY <2>11, <2>12 DEF Precedes, Settled
    <3> QED BY <1>7, <3>1
  <2>14. e.priority < f.priority
    BY <1>1, <1>5, <1>6, <2>5, <2>6, <2>7, <2>11, <2>13, HeapInLine
  <2>15. \A g \in q : g.priority \in Nat
    <3>1. ASSUME NEW g \in q
          PROVE  g.priority \in Nat
      <4>1. g \in queue[n] \/ g = Entry(x, a, TRUE)
        BY <1>6 DEF Replaced
      <4>2. Entry(x, a, TRUE).priority = a
        BY DEF Entry
      <4>3. \A h \in queue[n] : h.priority \in Nat
        BY <1>1 DEF TypeInv, QueueOK, EntryOf
      <4> QED BY <4>1, <4>2, <4>3
    <3> QED BY <3>1
  <2>16. e \in Popped(q)
    <3>1. e.deliverable
      BY <2>6, <2>13, <2>14, <2>15
    <3>2. \A g \in q : g.deliverable \/ e.priority < g.priority
      BY <2>6, <2>13, <2>14, <2>15
    <3> QED BY <2>13, <3>1, <3>2 DEF Popped
  <2>17. PICK y \in 1..Len(ids) : ids[y] = line[u]
    BY <1>1, <2>13, <2>16 DEF Lists, ToSet
  <2>18. CASE y < i
    <3>1. ids[y] = line[Len(d) + y] /\ Len(d) + y < u /\ Len(d) + y \in 1..Len(line)
      BY <1>1, <1>3, <2>2, <2>3, <2>8, <2>18
    <3>2. line[Len(d) + y] # line[u]
      BY <2>10, <3>1 DEF Follows
    <3> QED BY <2>17, <3>1, <3>2
  <2>19. CASE y = i
    BY <2>7, <2>11, <2>17, <2>19
  <2>20. CASE y > i
    <3>1. f.priority <= e.priority
      BY <1>1, <1>8, <2>2, <2>5, <2>6, <2>13, <2>17, <2>20 DEF ByPriority
    <3> QED BY <2>6, <2>13, <2>14, <2>15, <3>1
  <2> QED BY <2>2, <2>18, <2>19, <2>20
<1>11. \A i \in 1..Len(ids) : Len(d) + i <= Len(line) /\ ids[i] = line[Len(d) + i]
  BY <1>10
<1> HIDE DEF Bad
<1>12. Begins(d \o ids, line)
  <2>1. Len(d \o ids) = Len(d) + Len(ids) /\ Len(d \o ids) <= Len(line)
    <3>1. Len(d \o ids) = Len(d) + Len(ids)
      BY <1>1
    <3>2. CASE Len(ids) = 0
      BY <1>3, <3>1, <3>2
    <3>3. CASE Len(ids) # 0
      <4>1. Len(ids) \in 1..Len(ids)
        BY <1>1, <3>3
      <4> QED BY <1>11, <3>1, <4>1
    <3> QED BY <3>2, <3>3, <3>1
  <2>2. ASSUME NEW k \in 1..Len(d \o ids)
        PROVE  (d \o ids)[k] = line[k]
    <3>1. /\ k \in Nat /\ k >= 1 /\ k <= Len(d) + Len(ids)
          /\ Len(d) \in Nat /\ Len(ids) \in Nat
      BY <1>1, <1>3, <2>1
    <3>2. CASE k <= Len(d)
      <4>1. k \in 1..Len(d)
        BY <3>1, <3>2
      <4>2. (d \o ids)[k] = d[k]
        BY <1>1, <4>1
      <4> QED BY <1>3, <4>1, <4>2
    <3>3. CASE k > Len(d)
      <4>1. PICK j \in 1..Len(ids) : k = Len(d) + j
        <5>1. k - Len(d) \in 1..Len(ids) /\ k = Len(d) + (k - Len(d))
          BY <3>1, <3>3
        <5> QED BY <5>1
      <4>2. (d \o ids)[Len(d) + j] = ids[j]
        BY <1>1, <3>1
      <4> QED BY <1>11, <4>1, <4>2
    <3> QED BY <3>1, <3>2, <3>3
  <2> QED BY <2>1, <2>2 DEF Begins
<1> QED BY <1>2, <1>8, <1>12

-----------------------------------------------------------------------------
\* Nothing is known of a message that has not been sent.
LEMMA UnsentUnknown ==
    ASSUME TypeInv, NEW m \in Message \ sent, NEW b \in Nat
    PROVE  ~Proposed(m, b) /\ ~AgreedOn(m, b)
<1>1. ASSUME NEW w, UnderWay(w), w.type # "MESSAGE"
      PROVE  w.id # m
  <2>1. CASE \E s, n \in Node : w \in ToSet(link[s][n])
    <3>1. w \in WireOf(sent)
      BY <2>1, LinkWires
    <3> QED BY <3>1 DEF WireOf
  <2>2. CASE \E n, s \in Node : Carries(thread[n][s], w)
    <3>1. PICK n \in Node, s \in Node : Carries(thread[n][s], w)
      BY <2>2
    <3>2. thread[n][s] \in PlaceOf(sent)
      BY DEF TypeInv, ThreadOK
    <3>3. CASE thread[n][s].at = "flood"
      <4>1. PICK v \in WireOf(sent) : thread[n][s].wires = <<v>>
        BY <3>2, <3>3, PlaceCases
      <4>2. w = v
        <5>1. <<v>> = <<w>>
          BY <3>1, <3>3, <4>1 DEF Carries
        <5> QED BY <5>1
      <4> QED BY <4>2 DEF WireOf
    <3>4. CASE thread[n][s].at \in {"propose", "reply", "deliver"}
      <4>1. thread[n][s].wire = w
        BY <3>1, <3>4 DEF Carries
      <4>2. w \in WireOf(sent)
        BY <3>2, <3>4, <4>1, PlaceCases DEF OfType
      <4> QED BY <4>2 DEF WireOf
    <3> QED BY <3>1, <3>3, <3>4 DEF Carries
  <2> QED BY <1>1, <2>1, <2>2 DEF UnderWay
<1>2. /\ Proposal(m, b).type # "MESSAGE" /\ Proposal(m, b).id = m
      /\ Agreement(m, b).type # "MESSAGE" /\ Agreement(m, b).id = m
  BY DEF Proposal, Agreement
<1>3. \A n \in Node : b \notin allproposed[n][m]
  BY DEF TypeInv, ProposedOK
<1>4. \A n \in Node : Entry(m, b, TRUE) \notin queue[n]
  BY DEF TypeInv, QueueOK, EntryOf, Entry
<1> QED BY <1>1, <1>2, <1>3, <1>4 DEF Proposed, AgreedOn

\* With one message at a time, all that have been sent are settled when the
\* next one is.
LEMMA SentSettled ==
    ASSUME OneByOne, TypeInv, MarkedSettled, NEW m \in Message, Send(m),
           NEW h \in sent
    PROVE  Settled(h)
<1> DEFINE open == {k \in sent : \A n \in Node : k \notin agreed[n]}
<1>1. IsFiniteSet(open) /\ Cardinality(open) \in Nat
  <2>1. open \in SUBSET sent
    OBVIOUS
  <2> HIDE DEF open
  <2> QED BY <2>1, FS_Subset, FS_CardinalityType DEF TypeInv, SentOK
<1>2. Cardinality(open) < 1
  BY DEF Send, OneByOne
<1>3. open = {}
  <2> HIDE DEF open
  <2> QED BY <1>1, <1>2, FS_EmptySet
<1>4. PICK n \in Node : h \in agreed[n]
  BY <1>3
<1> QED BY <1>4 DEF MarkedSettled

\* A message that is sent goes to the end of the line, ...
LEMMA SendInLine ==
    ASSUME OneByOne, LineInv, NEW m \in Message, Send(m),
           NEW line \in Seq(sent), Follows(line)
    PROVE  OneLine'
<1>1. /\ TypeInv /\ ReceivedOnce /\ AgreementInv /\ WithinProSeq /\ MarkedSettled
      /\ Len(line) \in Nat /\ DOMAIN line = 1..Len(line)
  BY DEF LineInv
<1>2. Evolves /\ StandsStill
  BY <1>1, SendEvolves, SendStep
<1>3. m \notin sent /\ sent' = sent \cup {m} /\ sent \subseteq Message
  BY <1>1 DEF Send, TypeInv, SentOK
<1> DEFINE longer == Append(line, m)
<1>4. /\ longer \in Seq(sent') /\ Len(longer) = Len(line) + 1
      /\ \A i \in 1..Len(line) : longer[i] = line[i]
      /\ longer[Len(line) + 1] = m
  <2>1. line \in Seq(sent') /\ m \in sent'
    BY <1>3
  <2> QED BY <2>1
<1> HIDE DEF longer
<1>5. \A i \in 1..Len(line) : line[i] \in sent
  BY <1>1
<1>6. ASSUME NEW h \in sent
      PROVE  Precedes(h, m)'
  <2>1. \A p \in Nat : ~Proposed(m, p) /\ ~AgreedOn(m, p)
    BY <1>1, <1>3, UnsentUnknown
  <2>2. Precedes(h, m)
    BY <1>1, <2>1, SentSettled DEF Precedes
  <2> QED BY <1>1, <1>2, <1>3, <2>2, PrecedesKept
<1>7. ASSUME NEW i \in 1..Len(longer), NEW j \in 1..Len(longer), i < j
      PROVE  longer[i] # longer[j] /\ Precedes(longer[i], longer[j])'
  <2>1. i \in 1..Len(line) /\ longer[i] = line[i] /\ line[i] \in sent
    BY <1>1, <1>4, <1>5, <1>7
  <2>2. CASE j \in 1..Len(line)
    <3>1. longer[j] = line[j] /\ line[j] \in sent
      BY <1>4, <1>5, <2>2
    <3>2. line[i] # line[j] /\ Precedes(line[i], line[j])
      BY <1>7, <2>1, <2>2 DEF Follows
    <3>3. \A g, h \in Message : Precedes(g, h) => Precedes(g, h)'
      BY <1>1, <1>2, PrecedesKept
    <3>4. longer[i] \in Message /\ longer[j] \in Message
      BY <1>3, <2>1, <3>1
    <3>5. longer[i] # longer[j] /\ Precedes(longer[i], longer[j])
      BY <2>1, <3>1, <3>2
    <3> QED BY <3>3, <3>4, <3>5
  <2>3. CASE j = Len(line) + 1
    <3>1. longer[j] = m
      BY <1>4, <2>3
    <3>2. longer[i] \in sent /\ longer[i] # m
      BY <1>3, <2>1
    <3> QED BY <1>6, <3>1, <3>2
  <2> QED BY <1>1, <1>4, <2>2, <2>3
<1>8. ASSUME NEW g \in sent'
      PROVE  \E i \in 1..Len(longer) : longer[i] = g
  <2>1. CASE g \in sent
    <3>1. PICK i \in 1..Len(line) : line[i] = g
      BY <2>1 DEF Follows
    <3>2. i \in 1..Len(longer)
      BY <1>1, <1>4
    <3> QED BY <1>4, <3>1, <3>2
  <2>2. CASE g = m
    <3>1. Len(line) + 1 \in 1..Len(longer)
      BY <1>1, <1>4
    <3> QED BY <1>4, <2>2, <3>1
  <2> QED BY <1>3, <2>1, <2>2
<1>9. ASSUME NEW k \in Node
      PROVE  Begins(delivered'[k], longer)
  <2>1. PICK d \in Seq(sent) : d = delivered[k] /\ d = delivered'[k]
    BY <1>1, <1>2 DEF TypeInv, DeliveredOK, StandsStill
  <2>2. Len(d) \in Nat /\ Begins(d, line)
    <3>1. Begins(delivered[k], line)
      BY DEF Follows
    <3> QED BY <2>1, <3>1
  <2>3. /\ Len(d) <= Len(longer)
        /\ \A i \in 1..Len(d) : i \in 1..Len(line) /\ d[i] = longer[i]
    BY <1>1, <1>4, <2>2 DEF Begins
  <2> QED BY <2>1, <2>3 DEF Begins
<1>10. Follows(longer)'
  <2>1. \A i, j \in 1..Len(longer) :
           i < j => longer[i] # longer[j] /\ Precedes(longer[i], longer[j])'
    BY <1>7
  <2> QED BY <1>8, <1>9, <2>1 DEF Follows
<1> QED BY <1>4, <1>10 DEF OneLine

\* ... and only deliverMsg hands anything over.
LEMMA ListenHands ==
    ASSUME NEW n \in Node, NEW s \in Node, Listen(n, s)
    PROVE  UNCHANGED sent /\ (UNCHANGED delivered \/ Deliver(n, s))
<1>1. ASSUME NEW w, TakeMessage(n, s, w)
      PROVE  UNCHANGED <<sent, delivered>>
  BY <1>1 DEF TakeMessage, isisVars
<1>2. ASSUME NEW w, TakeProposal(n, s, w)
      PROVE  UNCHANGED <<sent, delivered>>
  BY <1>2 DEF TakeProposal
<1>3. ASSUME NEW w, TakeAgreement(n, s, w)
      PROVE  UNCHANGED <<sent, delivered>>
  BY <1>3 DEF TakeAgreement, isisVars
<1>4. Flood(n, s) => UNCHANGED <<sent, delivered>>
  BY DEF Flood, isisVars
<1>5. Propose(n, s) => UNCHANGED <<sent, delivered>>
  BY DEF Propose
<1>6. Reply(n, s) => UNCHANGED <<sent, delivered>>
  BY DEF Reply, isisVars
<1>7. Deliver(n, s) => UNCHANGED sent
  BY DEF Deliver
<1>8. UpdateBalance(n, s) => UNCHANGED <<sent, delivered>>
  BY DEF UpdateBalance, isisVars
<1>9. Notice(n, s) => UNCHANGED <<sent, delivered>>
  BY DEF Notice, isisVars
<1>10. DeleteNode(n, s) => UNCHANGED <<sent, delivered>>
  BY DEF DeleteNode
<1>11. Recount(n, s) => UNCHANGED <<sent, delivered>>
  BY DEF Recount
<1> QED
  BY <1>1, <1>2, <1>3, <1>4, <1>5, <1>6, <1>7, <1>8, <1>9, <1>10, <1>11 DEF Listen

\* What Deliver hands over, in the line.
LEMMA DeliverInLine ==
    ASSUME LineInv, NEW line \in Seq(sent), Follows(line),
           NEW n \in Node, NEW s \in Node, Deliver(n, s)
    PROVE  \E ids \in Seq(sent) :
              /\ NoneTwice(ids) /\ Begins(delivered[n] \o ids, line)
              /\ delivered' = [delivered EXCEPT ![n] = @ \o ids]
<1>1. TypeInv /\ thread[n][s].at = "deliver"
  BY DEF LineInv, Deliver
<1>2. PICK w \in OfType(sent, "AGREE"), q \in SUBSET EntryOf(sent), ids \in Seq(sent) :
         Hands(n, s, w, q, ids) /\ Lists(ids, q)
  BY <1>1, DeliverProps
<1>3. NoneTwice(ids) /\ Begins(delivered[n] \o ids, line)
  BY <1>1, <1>2, HandsInLine
<1> QED BY <1>2, <1>3 DEF Hands

\* The line stays as it is in all steps of the threads.
LEMMA ListenInLine ==
    ASSUME LineInv, NEW line \in Seq(sent), Follows(line),
           NEW n \in Node, NEW s \in Node, Listen(n, s)
    PROVE  line \in Seq(sent') /\ Follows(line)'
<1>1. TypeInv /\ ReceivedOnce /\ AgreementInv /\ WithinProSeq /\ alive = Node
  BY DEF LineInv
<1>2. Evolves /\ sent' = sent /\ (UNCHANGED delivered \/ Deliver(n, s))
  BY <1>1, ListenEvolves, ListenHands
<1>3. ASSUME NEW i \in 1..Len(line), NEW j \in 1..Len(line), i < j
      PROVE  line[i] # line[j] /\ Precedes(line[i], line[j])'
  <2>1. line[i] # line[j] /\ Precedes(line[i], line[j])
    BY <1>3 DEF Follows
  <2>2. line[i] \in Message /\ line[j] \in Message
    BY <1>1 DEF TypeInv, SentOK
  <2> QED BY <1>1, <1>2, <2>1, <2>2, PrecedesKept
<1>4. ASSUME NEW k \in Node
      PROVE  Begins(delivered'[k], line)
  <2>1. Begins(delivered[k], line)
    BY DEF Follows
  <2>2. CASE Deliver(n, s)
    <3>1. PICK ids \in Seq(sent) :
             /\ Begins(delivered[n] \o ids, line)
             /\ delivered' = [delivered EXCEPT ![n] = @ \o ids]
      BY <2>2, DeliverInLine
    <3>2. delivered'[k] = IF k = n THEN delivered[n] \o ids ELSE delivered[k]
      BY <1>1, <3>1 DEF TypeInv, DeliveredOK
    <3> QED BY <2>1, <3>1, <3>2
  <2> QED BY <1>2, <2>1, <2>2
<1>5. \A m \in sent' : \E i \in 1..Len(line) : line[i] = m
  BY <1>2 DEF Follows
<1> QED BY <1>2, <1>3, <1>4, <1>5 DEF Follows

\* Without a step nothing changes.
LEMMA StopsInLine ==
    ASSUME LineInv, UNCHANGED vars
    PROVE  AgreedSettled' /\ MarkedSettled' /\ WithinProSeq' /\ OneLine'
<1>1. UNCHANGED <<sent, link, thread, received, agreed, proSeq, queue, allproposed, delivered>>
  BY DEF vars, marks, isisVars
<1>2. /\ \A m \in Message, b \in Nat : Proposed(m, b)' <=> Proposed(m, b)
      /\ \A m \in Message, b \in Nat : AgreedOn(m, b)' <=> AgreedOn(m, b)
  BY <1>1 DEF Proposed, AgreedOn, UnderWay
<1>3. \A m \in Message, b \in Nat : Known(m, b)' <=> Known(m, b)
  BY <1>2 DEF Known
<1>4. \A m : Settled(m)' <=> Settled(m)
  BY <1>1 DEF Settled, Pending, AboutTo, Delivered
<1>5. \A m, k, b : Below(m, k, b)' <=> Below(m, k, b)
  BY <1>1 DEF Below
<1>6. \A m, h \in Message : Precedes(m, h) => Precedes(m, h)'
  BY <1>2, <1>3, <1>4, <1>5 DEF Precedes
<1>7. AgreedSettled' /\ MarkedSettled'
  BY <1>1, <1>2, <1>4 DEF LineInv, AgreedSettled, MarkedSettled
<1>8. WithinProSeq'
  BY <1>1, <1>3 DEF LineInv, WithinProSeq
<1>9. OneLine'
  <2>1. PICK line \in Seq(sent) : Follows(line)
    BY DEF LineInv, OneLine
  <2>2. \A i \in 1..Len(line) : line[i] \in Message
    BY DEF LineInv, TypeInv, SentOK
  <2>3. Follows(line)'
    BY <1>1, <1>6, <2>1, <2>2 DEF Follows
  <2> QED BY <1>1, <2>1, <2>3 DEF OneLine
<1> QED BY <1>7, <1>8, <1>9

(***************************************************************************)
(* The invariant.                                                          *)
(***************************************************************************)
LEMMA LineInvInit == Init => LineInv
<1> SUFFICES ASSUME Init PROVE LineInv
  OBVIOUS
<1>1. /\ TypeInv /\ ReceivedOnce /\ MoneyInv /\ alive = Node /\ AgreementInv
  BY TypeInvInit, AgreementInvInit, MoneyInvInit DEF Init
<1>2. /\ \A s, n \in Node : ToSet(link[s][n]) = {}
      /\ \A n, s \in Node : thread[n][s] = Receiving
      /\ sent = {}
      /\ \A n \in Node : queue[n] = {} /\ agreed[n] = {} /\ delivered[n] = <<>>
  BY DEF Init, ToSet
<1>3. \A m \in Message, b \in Nat : ~Proposed(m, b) /\ ~AgreedOn(m, b)
  BY <1>1, <1>2, UnsentUnknown
<1>4. AgreedSettled /\ MarkedSettled /\ WithinProSeq
  BY <1>2, <1>3 DEF AgreedSettled, MarkedSettled, WithinProSeq, Known
<1>5. Follows(<<>>)
  <2>1. Begins(<<>>, <<>>)
    BY DEF Begins
  <2> QED BY <1>2, <2>1 DEF Follows
<1>6. OneLine
  <2>1. <<>> \in Seq(sent)
    OBVIOUS
  <2> QED BY <1>5, <2>1 DEF OneLine
<1> QED BY <1>1, <1>4, <1>6 DEF LineInv

LEMMA LineInvStep ==
    ASSUME OneByOne, LineInv, [Next]_vars
    PROVE  LineInv'
<1>1. TypeInv /\ ReceivedOnce /\ MoneyInv /\ alive = Node /\ AgreementInv
  BY DEF LineInv
<1>2. ASSUME NEW n \in Node, Die(n)
      PROVE  FALSE
  BY <1>2 DEF Die, OneByOne
<1>3. alive' = Node
  <2>1. (\E m \in Message : Send(m)) => alive' = alive
    BY DEF Send
  <2>2. ASSUME NEW n \in Node, NEW s \in Node, Listen(n, s)
        PROVE  alive' = alive
    BY <2>2, ListenLives
  <2>3. UNCHANGED vars => alive' = alive
    BY DEF vars
  <2> QED BY <1>1, <1>2, <2>1, <2>2, <2>3 DEF Next
<1>4. TypeInv' /\ ReceivedOnce' /\ MoneyInv' /\ AgreementInv'
  BY <1>1, <1>3, TypeInvStep, OnceInvStep, MoneyInvStep, AgreementInvStep
<1>5. Evolves /\ Agrees => AgreedSettled' /\ MarkedSettled' /\ WithinProSeq'
  BY <1>1, <1>4, SettlesForGood, WithinProSeqKept DEF LineInv
<1>6. PICK line \in Seq(sent) : Follows(line)
  BY DEF LineInv, OneLine
<1>7. AgreedSettled' /\ MarkedSettled' /\ WithinProSeq' /\ OneLine'
  <2>1. ASSUME NEW m \in Message, Send(m)
        PROVE  AgreedSettled' /\ MarkedSettled' /\ WithinProSeq' /\ OneLine'
    BY <1>1, <1>5, <1>6, <2>1, SendEvolves, SendInLine
  <2>2. ASSUME NEW n \in Node, NEW s \in Node, Listen(n, s)
        PROVE  AgreedSettled' /\ MarkedSettled' /\ WithinProSeq' /\ OneLine'
    <3>1. line \in Seq(sent') /\ Follows(line)'
      BY <1>6, <2>2, ListenInLine
    <3> QED BY <1>1, <1>5, <2>2, <3>1, ListenEvolves DEF OneLine
  <2>3. CASE UNCHANGED vars
    BY <2>3, StopsInLine
  <2> QED BY <1>2, <2>1, <2>2, <2>3 DEF Next
<1> QED BY <1>3, <1>4, <1>7 DEF LineInv

\* While nobody dies, no step but deliverMsg's hands anything over.
LEMMA OnlyDeliverHands ==
    ASSUME OneByOne, [Next]_vars
    PROVE  UNCHANGED delivered \/ \E n, s \in Node : Deliver(n, s)
<1>1. (\E m \in Message : Send(m)) => UNCHANGED delivered
  BY DEF Send, isisVars
<1>2. ~\E n \in Node : Die(n)
  BY DEF Die, OneByOne
<1>3. UNCHANGED vars => UNCHANGED delivered
  BY DEF vars, isisVars
<1> QED BY <1>1, <1>2, <1>3, ListenHands DEF Next

(***************************************************************************)
(* The refinement.                                                         *)
(***************************************************************************)
LEMMA BeginsAgree ==
    ASSUME NEW M, NEW s \in Seq(M), NEW t \in Seq(M), NEW line \in Seq(M),
           Begins(s, line), Begins(t, line)
    PROVE  Order!Agree(s, t)
<1>1. /\ Len(s) \in Nat /\ Len(t) \in Nat
      /\ \A i \in 1..Len(s) : s[i] = line[i]
      /\ \A i \in 1..Len(t) : t[i] = line[i]
  BY DEF Begins
<1>2. CASE Len(s) <= Len(t)
  <2>1. \A i \in 1..Len(s) : s[i] = t[i]
    BY <1>1, <1>2
  <2>2. SubSeq(s, 1, Len(s)) = SubSeq(t, 1, Len(s))
    BY <1>1, <1>2, <2>1
  <2> QED BY <1>2, <2>2 DEF Order!Agree, Order!IsPrefix
<1>3. CASE Len(t) <= Len(s)
  <2>1. \A i \in 1..Len(t) : t[i] = s[i]
    BY <1>1, <1>3
  <2>2. SubSeq(t, 1, Len(t)) = SubSeq(s, 1, Len(t))
    BY <1>1, <1>3, <2>1
  <2> QED BY <1>3, <2>2 DEF Order!Agree, Order!IsPrefix
<1> QED BY <1>1, <1>2, <1>3

\* No more is handed over at once than there are messages.
LEMMA OnceEachIsShort ==
    ASSUME IsFiniteSet(Message), NEW ids \in Seq(Message), NoneTwice(ids)
    PROVE  ids \in Order!BoundedSeq(Message, Cardinality(Message))
<1>1. /\ Len(ids) \in Nat /\ DOMAIN ids = 1..Len(ids)
      /\ ids \in [1..Len(ids) -> Message]
  OBVIOUS
<1>2. ids \in Injection(1..Len(ids), Message)
  BY <1>1 DEF NoneTwice, Injection, IsInjective
<1>3. Cardinality(1..Len(ids)) <= Cardinality(Message)
  BY <1>2, FS_Injection
<1>4. Cardinality(1..Len(ids)) = Len(ids)
  <2>1. Cardinality(1..Len(ids)) = IF 1 > Len(ids) THEN 0 ELSE Len(ids) - 1 + 1
    BY <1>1, FS_Interval
  <2> QED BY <1>1, <2>1
<1>5. Cardinality(Message) \in Nat
  BY FS_CardinalityType
<1>6. Len(ids) \in 0..Cardinality(Message)
  BY <1>1, <1>3, <1>4, <1>5
<1> QED BY <1>1, <1>6 DEF Order!BoundedSeq, Order!SeqOf

LEMMA OrderStep ==
    ASSUME OneByOne, LineInv, [Next]_vars
    PROVE  [Order!Next]_delivered
<1>1. CASE UNCHANGED delivered
  BY <1>1
<1>2. ASSUME NEW n \in Node, NEW s \in Node, Deliver(n, s)
      PROVE  Order!Next
  <2>1. PICK line \in Seq(sent) : Follows(line)
    BY DEF LineInv, OneLine
  <2>2. PICK ids \in Seq(sent) :
           /\ NoneTwice(ids) /\ Begins(delivered[n] \o ids, line)
           /\ delivered' = [delivered EXCEPT ![n] = @ \o ids]
    BY <1>2, <2>1, DeliverInLine
  <2>3. sent \subseteq Message /\ delivered \in [Node -> Seq(sent)]
    BY DEF LineInv, TypeInv, SentOK, DeliveredOK
  <2>4. ids \in Order!BoundedSeq(Message, Cardinality(Message))
    <3>1. ids \in Seq(Message)
      BY <2>3
    <3> QED BY <2>2, <3>1, OnceEachIsShort DEF OneByOne
  <2>5. ASSUME NEW k \in Node
        PROVE  Order!Agree(delivered'[n], delivered[k])
    <3>1. /\ delivered'[n] = delivered[n] \o ids
          /\ delivered[n] \o ids \in Seq(sent) /\ delivered[k] \in Seq(sent)
      BY <2>2, <2>3
    <3>2. Begins(delivered[k], line)
      BY <2>1 DEF Follows
    <3> QED BY <2>1, <2>2, <3>1, <3>2, BeginsAgree
  <2>6. Order!Deliver(n, ids)
    BY <2>2, <2>5 DEF Order!Deliver
  <2> QED BY <2>4, <2>6 DEF Order!Next
<1> QED BY <1>1, <1>2, OnlyDeliverHands

\* One message at a time, the nodes hand over the messages in one order:
\* proposeSeq goes by the highest priority that its node has proposed, so that
\* what is sent once the last was agreed gets a higher one from everyone, and
\* deliverMsg pops it after the last at every node.  More is not true of the
\* code, which notes the priorities agreed at the node that decides on them
\* (agrSeq) and at no other.
THEOREM OneOrderOneByOne == OneByOne => (Spec => OneOrder)
<1> SUFFICES ASSUME OneByOne PROVE Spec => OneOrder
  OBVIOUS
<1>1. Init => LineInv
  BY LineInvInit
<1>2. LineInv /\ [Next]_vars => LineInv'
  BY LineInvStep
<1>3. Init => Order!Init
  BY DEF Init, Order!Init
<1>4. LineInv /\ [Next]_vars => [Order!Next]_delivered
  BY OrderStep
<1> QED BY <1>1, <1>2, <1>3, <1>4, PTL DEF Spec, OneOrder, Order!Spec
=============================================================================
