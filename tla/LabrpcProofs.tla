---------------------------- MODULE LabrpcProofs ----------------------------
(***************************************************************************)
(* What the answers of Call mean, for any number of ends, servers, calls   *)
(* and changes of the network: true only from a server that was in place,  *)
(* false only with a reason.                                               *)
(***************************************************************************)
EXTENDS Labrpc, TLAPS

Places == {"not made", "offered", "taken", "no server", "found",
           "waiting", "result", "delayed", "true", "false"}

\* The state of the network and of the calls as data.
NetworkOK ==
    /\ made \in 0..MaxServers
    /\ enabled \in [End -> BOOLEAN]
    /\ connections \in [End -> Name \cup {NULL}]
    /\ servers \in [Name -> 1..made \cup {NULL}]
    /\ reliable \in BOOLEAN /\ longReordering \in BOOLEAN

CallsOK ==
    /\ call \in [Request -> [at : Places, end : End \cup {NULL}, info : Info \cup {NULL}]]
    /\ handler \in [Request -> {"none", "running", "result", "hung", "gone"}]
    /\ drain \subseteq Request /\ trouble \subseteq Request /\ late \subseteq Request

\* How far a call is and how far its handler; what it knows of its server.
Found(c) == call[c].at \in {"found", "waiting", "result", "delayed"}

Knows(c) ==
    /\ call[c].end \in End /\ connections[call[c].end] \in Name
    /\ call[c].info \in Info
    /\ call[c].info.server \in 1..made /\ call[c].info.server # NULL

Begun(c) == handler[c] # "none"

Abreast ==
    \A c \in Request :
        /\ call[c].at \notin {"not made", "false"} => call[c].end \in End
        /\ Found(c) \/ call[c].at = "true" \/ Begun(c) => Knows(c)
        /\ Begun(c) => call[c].at \in {"waiting", "result", "delayed", "true", "false"}
        /\ call[c].at \in {"result", "delayed", "true"} => handler[c] = "gone"

\* A server that was gone when the handler of c returned never comes back, and
\* no reply that is under way comes from such a handler.
Removed(c) == \A n \in Name : servers[n] # call[c].info.server

LateKnown ==
    \A c \in Request :
        /\ c \in late => Begun(c) /\ handler[c] # "running" /\ Removed(c)
        /\ call[c].at \in {"delayed", "true"} => c \notin late

\* The network has been in order all the time since a call not in trouble was
\* made, and the server it found is still the one its end leads to.
Untroubled ==
    \A c \in Request \ trouble :
        /\ call[c].at \notin {"no server", "false"}
        /\ c \in Ongoing => InOrder(call[c].end)
        /\ Found(c) => /\ call[c].info.reliable
                       /\ call[c].info.server = Reached(call[c].end)

TypeInv == NetworkOK /\ CallsOK /\ Abreast
-----------------------------------------------------------------------------
\* No step of a call changes the network, and no change of the network a call.
LEMMA InfoIsFixed ==
    ASSUME NetworkOK, NEW e \in End, Served(e)
    PROVE  /\ connections[e] \in Name /\ Reached(e) \in 1..made
           /\ Reached(e) = servers[connections[e]] /\ Reached(e) # NULL
           /\ Reached(e) \in Server
<1>1. enabled[e] /\ connections[e] \in Name /\ Reached(e) = servers[connections[e]]
  BY DEF Served, Reached, NetworkOK
<1> QED
  BY <1>1, BoundAssumption DEF Served, NetworkOK, Server

\* A change of the network keeps its state well formed, takes no connection
\* and gives no server the number of an earlier one.
LEMMA NetworkChanges ==
    ASSUME NetworkOK, Change
    PROVE  /\ NetworkOK'
           /\ made' >= made /\ made \in Nat /\ made' \in Nat
           /\ \A e \in End : connections[e] # NULL => connections'[e] = connections[e]
           /\ \A n \in Name : servers'[n] \in {servers[n], NULL, made + 1}
<1> USE BoundAssumption DEF NetworkOK
<1>1. ASSUME NEW e \in End, NEW b \in BOOLEAN, Enable(e, b)
      PROVE  /\ NetworkOK' /\ made' = made /\ connections' = connections
             /\ servers' = servers
  BY <1>1 DEF Enable
<1>2. ASSUME NEW e \in End, NEW n \in Name, Connect(e, n)
      PROVE  /\ NetworkOK' /\ made' = made /\ servers' = servers
             /\ \A d \in End : connections[d] # NULL => connections'[d] = connections[d]
  BY <1>2 DEF Connect
<1>3. ASSUME NEW n \in Name, AddServer(n)
      PROVE  /\ NetworkOK' /\ made' = made + 1 /\ connections' = connections
             /\ \A k \in Name : servers'[k] \in {servers[k], made + 1}
  BY <1>3 DEF AddServer
<1>4. ASSUME NEW n \in Name, DeleteServer(n)
      PROVE  /\ NetworkOK' /\ made' = made /\ connections' = connections
             /\ \A k \in Name : servers'[k] \in {servers[k], NULL}
  BY <1>4 DEF DeleteServer
<1>5. ASSUME NEW yes \in BOOLEAN, Reliable(yes) \/ LongReordering(yes) \/ Cleanup
      PROVE  /\ NetworkOK' /\ made' = made /\ connections' = connections
             /\ servers' = servers
  BY <1>5 DEF Reliable, LongReordering, Cleanup
<1>6. made \in Nat
  OBVIOUS
<1> QED
  BY <1>1, <1>2, <1>3, <1>4, <1>5, <1>6 DEF Change

-----------------------------------------------------------------------------
\* The invariants that do not concern the answers.
LEMMA TypeInvInit == Init => TypeInv
<1> SUFFICES ASSUME Init PROVE TypeInv
  OBVIOUS
<1>1. NetworkOK
  <2>1. MaxServers \in Nat /\ 0 \in 0..MaxServers
    BY BoundAssumption
  <2>2. enabled \in [End -> BOOLEAN] /\ reliable \in BOOLEAN
        /\ longReordering \in BOOLEAN
    BY Zenon DEF Init
  <2>3. connections \in [End -> Name \cup {NULL}]
        /\ servers \in [Name -> 1..made \cup {NULL}]
    BY DEF Init
  <2> QED
    BY <2>1, <2>2, <2>3 DEF Init, NetworkOK
<1>2. CallsOK
  BY DEF Init, CallsOK, Places
<1>3. Abreast
  BY DEF Init, Abreast, Found, Begun
<1> QED
  BY <1>1, <1>2, <1>3 DEF TypeInv

\* A call that goes on keeps its end and what it knows of its server, and the
\* other calls stay where they are.
LEMMA GotoOK ==
    ASSUME CallsOK, NEW c \in Request, NEW place \in Places, Goto(c, place)
    PROVE  /\ call' \in [Request -> [at : Places, end : End \cup {NULL},
                                     info : Info \cup {NULL}]]
           /\ call'[c].at = place
           /\ call'[c].end = call[c].end /\ call'[c].info = call[c].info
           /\ \A d \in Request \ {c} : call'[d] = call[d]
BY DEF CallsOK, Goto

\* The same of a call that has found its server.
LEMMA FoundOK ==
    ASSUME CallsOK, NEW c \in Request, NEW place \in Places, NEW i \in Info \cup {NULL},
           call' = [call EXCEPT ![c].at = place, ![c].info = i]
    PROVE  /\ call' \in [Request -> [at : Places, end : End \cup {NULL},
                                     info : Info \cup {NULL}]]
           /\ call'[c].at = place
           /\ call'[c].end = call[c].end /\ call'[c].info = i
           /\ \A d \in Request \ {c} : call'[d] = call[d]
<1>1. call'[c] = [call[c] EXCEPT !.at = place, !.info = i]
  BY DEF CallsOK
<1>2. call[c] \in [at : Places, end : End \cup {NULL}, info : Info \cup {NULL}]
  BY DEF CallsOK
<1>3. call'[c] \in [at : Places, end : End \cup {NULL}, info : Info \cup {NULL}]
      /\ call'[c].at = place /\ call'[c].end = call[c].end /\ call'[c].info = i
  BY <1>1, <1>2, ZenonT(40)
<1>4. call' = [call EXCEPT ![c] = call'[c]]
  BY <1>1 DEF CallsOK
<1> QED
  BY <1>3, <1>4 DEF CallsOK

\* Only call c and its handler have moved on: what the others keep they keep.
LEMMA AbreastBut ==
    ASSUME Abreast, NEW c \in Request, UNCHANGED <<connections, made>>,
           \A d \in Request \ {c} : call'[d] = call[d] /\ handler'[d] = handler[d],
           call'[c].at \notin {"not made", "false"} => call'[c].end \in End,
           Found(c)' \/ call'[c].at = "true" \/ Begun(c)' => Knows(c)',
           Begun(c)' => call'[c].at \in {"waiting", "result", "delayed", "true", "false"},
           call'[c].at \in {"result", "delayed", "true"} => handler'[c] = "gone"
    PROVE  Abreast'
<1> SUFFICES ASSUME NEW d \in Request
             PROVE  /\ call'[d].at \notin {"not made", "false"} => call'[d].end \in End
                    /\ Found(d)' \/ call'[d].at = "true" \/ Begun(d)' => Knows(d)'
                    /\ Begun(d)' => call'[d].at \in {"waiting", "result", "delayed", "true", "false"}
                    /\ call'[d].at \in {"result", "delayed", "true"} => handler'[d] = "gone"
  BY DEF Abreast
<1>1. CASE d = c
  BY <1>1
<1>2. CASE d # c
  BY <1>2 DEF Abreast, Found, Begun, Knows
<1> QED
  BY <1>1, <1>2

\* The steps of a call and of its handler, and the others.
LEMMA TypeInvStep ==
    ASSUME TypeInv, [Next]_vars
    PROVE  TypeInv'
<1> USE DEF TypeInv
<1>1. CASE UNCHANGED vars
  BY <1>1 DEF vars, network, NetworkOK, CallsOK, Abreast, Found, Knows, Begun
<1>2. CASE Change
  <2>1. NetworkOK'
    BY <1>2, NetworkChanges
  <2>2. CallsOK'
    BY <1>2 DEF Change, CallsOK, Ongoing
  <2>3. UNCHANGED <<call, handler>>
    BY <1>2 DEF Change
  <2>4. ASSUME NEW c \in Request, Knows(c) PROVE Knows(c)'
    <3>1. connections'[call[c].end] = connections[call[c].end] /\ made' >= made
          /\ made \in Nat /\ made' \in Nat
      BY <1>2, <2>4, NetworkChanges, NullAssumption DEF Knows
    <3> QED
      BY <2>3, <2>4, <3>1 DEF Knows
  <2>5. Abreast'
    BY <2>3, <2>4 DEF Abreast, Found, Begun
  <2> QED
    BY <2>1, <2>2, <2>5
<1>3. CASE StopServing
  BY <1>3 DEF StopServing, network, NetworkOK, CallsOK, Abreast, Found, Knows, Begun
<1>4. ASSUME NEW c \in Request, NEW e \in End, Call(c, e) PROVE TypeInv'
  <2>1. NetworkOK'
    BY <1>4 DEF Call, network, NetworkOK
  <2>2. CallsOK'
    <3>1. trouble' \subseteq Request
      BY <1>4 DEF Call, CallsOK
    <3>2. call' \in [Request -> [at : Places, end : End \cup {NULL},
                                info : Info \cup {NULL}]]
      BY <1>4, ZenonT(40) DEF Call, CallsOK, Places
    <3> QED
      BY <1>4, <3>1, <3>2 DEF Call, CallsOK
  <2>3. Abreast'
    BY <1>4, ZenonT(40) DEF Call, network, CallsOK, Abreast, Found, Knows, Begun, Places
  <2> QED
    BY <2>1, <2>2, <2>3
<1>5. ASSUME NEW c \in Request, Step(c) PROVE TypeInv'
  <2> USE DEF network, NetworkOK, CallsOK, Abreast, Found, Knows, Begun, Places, Goto
  <2>1. CASE GiveUp(c)
    BY <2>1, ZenonT(40) DEF GiveUp
  <2>2. CASE Take(c)
    BY <2>2, ZenonT(40) DEF Take
  <2>3. CASE ReadEndnameInfo(c)
    <3> DEFINE e == call[c].end
    <3>1. e \in End /\ call[c].at = "taken"
      BY <2>3 DEF ReadEndnameInfo
    <3>2. CASE ~Served(e)
      <4>1. Goto(c, "no server") /\ UNCHANGED <<network, handler, drain, trouble, late>>
        BY <2>3, <3>2 DEF ReadEndnameInfo
      <4>2. CallsOK'
        BY <4>1, GotoOK
      <4>3. Abreast'
        <5>1. /\ call'[c].at = "no server" /\ call'[c].end = e /\ handler'[c] = "none"
              /\ \A d \in Request \ {c} : call'[d] = call[d]
          BY <3>1, <4>1, GotoOK
        <5> QED
          BY <3>1, <4>1, <5>1, AbreastBut
      <4> QED
        BY <4>1, <4>2, <4>3
    <3>3. CASE Served(e)
      <4>1. connections[e] \in Name /\ Reached(e) \in 1..made /\ Reached(e) # NULL
            /\ Reached(e) \in Server
        BY <3>1, <3>3, InfoIsFixed
      <4>2. [server |-> Reached(e), reliable |-> reliable,
             reordering |-> longReordering] \in Info
        BY <4>1 DEF Info
      <4> QED
        <5> DEFINE i == [server |-> Reached(e), reliable |-> reliable,
                         reordering |-> longReordering]
        <5>1. call' = [call EXCEPT ![c].at = "found", ![c].info = i]
              /\ UNCHANGED <<network, handler, drain, trouble, late>>
          BY <2>3, <3>3 DEF ReadEndnameInfo
        <5>2. i \in Info /\ i.server = Reached(e)
          BY <4>2
        <5> HIDE DEF i
        <5>3. CallsOK'
          <6>1. call' \in [Request -> [at : Places, end : End \cup {NULL},
                                      info : Info \cup {NULL}]]
            BY <5>1, <5>2, FoundOK
          <6> QED
            BY <5>1, <6>1
        <5>4. call'[c].at = "found" /\ call'[c].info = i /\ call'[c].end = e
              /\ \A d \in Request \ {c} : call'[d] = call[d]
          BY <5>1, <5>2, FoundOK
        <5>5. Knows(c)'
          BY <3>1, <4>1, <5>1, <5>2, <5>4, ZenonT(40)
        <5>6. Abreast'
          BY <3>1, <5>1, <5>4, <5>5
        <5> QED
          BY <5>1, <5>3, <5>6
    <3> QED
      BY <3>2, <3>3
  <2>4. CASE TimeOut(c)
    BY <2>4, ZenonT(40) DEF TimeOut
  <2>5. CASE DropRequest(c)
    BY <2>5, ZenonT(40) DEF DropRequest
  <2>6. CASE Dispatch(c)
    BY <2>6, ZenonT(40) DEF Dispatch
  <2>7. CASE HandlerReturns(c)
    BY <2>7 DEF HandlerReturns
  <2>8. CASE HandlerHangs(c)
    BY <2>8 DEF HandlerHangs
  <2>9. CASE GotResult(c)
    BY <2>9, ZenonT(40) DEF GotResult
  <2>10. CASE FoundDead(c)
    BY <2>10, ZenonT(40) DEF FoundDead, OneLeft
  <2>11. CASE Drain(c)
    BY <2>11 DEF Drain
  <2>12. CASE Answer(c)
    <3>1. ASSUME NEW place \in {"false", "delayed", "true"}, Goto(c, place)
          PROVE  TypeInv'
      <4>1. call[c].at = "result"
            /\ UNCHANGED <<network, handler, drain, trouble, late>>
        BY <2>12 DEF Answer
      <4>2. CallsOK'
        BY <3>1, <4>1, GotoOK
      <4>3. Abreast'
        <5>1. /\ call'[c].at = place /\ call'[c].end = call[c].end
              /\ call'[c].info = call[c].info
              /\ \A d \in Request \ {c} : call'[d] = call[d]
          BY <3>1, <4>1, GotoOK
        <5>2. Knows(c) /\ handler[c] = "gone"
          BY <4>1
        <5> QED
          BY <4>1, <5>1, <5>2, AbreastBut, ZenonT(40)
      <4> QED
        BY <4>1, <4>2, <4>3
    <3> QED
      BY <2>12, <3>1 DEF Answer
  <2>13. CASE LongReply(c)
    BY <2>13, ZenonT(40) DEF LongReply
  <2> QED
    BY <1>5, <2>1, <2>2, <2>3, <2>4, <2>5, <2>6, <2>7, <2>8, <2>9, <2>10,
       <2>11, <2>12, <2>13 DEF Step
<1> QED
  BY <1>1, <1>2, <1>3, <1>4, <1>5 DEF Next

LEMMA TypeInvTypes == TypeInv => TypeOK
<1> SUFFICES ASSUME TypeInv PROVE TypeOK
  OBVIOUS
<1>1. /\ enabled \in [End -> BOOLEAN] /\ connections \in [End -> Name \cup {NULL}]
      /\ servers \in [Name -> 1..made \cup {NULL}]
  BY DEF TypeInv, NetworkOK
<1>2. ASSUME NEW c \in Request
      PROVE  /\ call[c].at \in Places /\ call[c].end \in End \cup {NULL}
             /\ call[c].info \in Info \cup {NULL}
             /\ call[c].at \in {"found", "waiting", "result", "delayed", "true"} =>
                   call[c].info.server \in 1..made
  <2>1. call[c] \in [at : Places, end : End \cup {NULL}, info : Info \cup {NULL}]
    BY DEF TypeInv, CallsOK
  <2>2. Found(c) \/ call[c].at = "true" => Knows(c)
    BY DEF TypeInv, Abreast
  <2> QED BY <2>1, <2>2 DEF Found, Knows
<1>3. /\ handler \in [Request -> {"none", "running", "result", "hung", "gone"}]
      /\ drain \subseteq Request /\ trouble \subseteq Request /\ late \subseteq Request
  BY DEF TypeInv, CallsOK
<1> QED BY <1>1, <1>2, <1>3 DEF TypeOK, Places

LEMMA TypeInvAlways == Spec => []TypeInv
BY TypeInvInit, TypeInvStep, PTL DEF Spec

\* The maps of the network hold ends and servers that were made, and from
\* readEndnameInfo to its end a call knows a server, however often the owner
\* deletes and adds others meanwhile.
THEOREM TypeCorrect == Spec => []TypeOK
BY TypeInvAlways, TypeInvTypes, PTL

-----------------------------------------------------------------------------
\* Only call c, its handler and what is recorded of it have moved on.
Alone(c) ==
    /\ UNCHANGED network
    /\ \A d \in Request \ {c} :
          /\ call'[d] = call[d] /\ handler'[d] = handler[d]
          /\ d \in late' <=> d \in late
          /\ d \in trouble' <=> d \in trouble

\* Only call c has moved on, and no server has come or gone.
LEMMA LateKnownBut ==
    ASSUME LateKnown, NEW c \in Request, Alone(c),
           c \in late' => Begun(c)' /\ handler'[c] # "running" /\ Removed(c)',
           call'[c].at \in {"delayed", "true"} => c \notin late'
    PROVE  LateKnown'
<1> SUFFICES ASSUME NEW d \in Request
             PROVE  /\ d \in late' => Begun(d)' /\ handler'[d] # "running" /\ Removed(d)'
                    /\ call'[d].at \in {"delayed", "true"} => d \notin late'
  BY DEF LateKnown
<1>1. CASE d = c
  BY <1>1
<1>2. CASE d # c
  BY <1>2 DEF LateKnown, Begun, Removed, Alone, network
<1> QED
  BY <1>1, <1>2

\* When processReq looks and finds its server in place, the handler has not
\* returned late.
LEMMA InPlaceNotLate ==
    ASSUME TypeInv, LateKnown, NEW c \in Request, Found(c),
           ~IsServerDead(call[c].end, call[c].info.server)
    PROVE  c \notin late
BY DEF TypeInv, Abreast, Knows, LateKnown, IsServerDead, Removed

LEMMA LateKnownStep ==
    ASSUME TypeInv, LateKnown, [Next]_vars
    PROVE  LateKnown'
<1> USE DEF TypeInv
<1>1. CASE UNCHANGED vars
  BY <1>1 DEF vars, network, LateKnown, Begun, Removed
<1>2. CASE Change
  <2>1. UNCHANGED <<call, handler, late>>
    BY <1>2 DEF Change
  <2>2. ASSUME NEW c \in late, NEW n \in Name, c \in Request
        PROVE  servers'[n] # call[c].info.server
    <3>1. Knows(c) /\ servers[n] # call[c].info.server
      BY <2>2 DEF LateKnown, Abreast, Removed
    <3>2. servers'[n] \in {servers[n], NULL, made + 1} /\ made \in Nat
      BY <1>2, NetworkChanges
    <3>3. call[c].info.server \in 1..made /\ call[c].info.server # NULL
      BY <3>1 DEF Knows
    <3> QED
      BY <3>1, <3>2, <3>3
  <2> QED
    BY <2>1, <2>2 DEF LateKnown, Begun, Removed
<1>3. CASE StopServing
  BY <1>3 DEF StopServing, network, LateKnown, Begun, Removed
<1>4. ASSUME NEW c \in Request, NEW e \in End, Call(c, e) PROVE LateKnown'
  <2>1. Alone(c) /\ call'[c].at = "offered" /\ late' = late /\ c \notin late
    BY <1>4 DEF Call, CallsOK, Alone, Abreast, LateKnown
  <2> QED
    BY <2>1, LateKnownBut
<1>5. ASSUME NEW c \in Request, Step(c) PROVE LateKnown'
  <2>1. ASSUME NEW place \in Places \ {"delayed", "true"}, Goto(c, place),
               UNCHANGED <<network, handler, late, trouble>>
        PROVE  LateKnown'
    <3>1. /\ call'[c].at = place /\ call'[c].info = call[c].info
          /\ \A d \in Request \ {c} : call'[d] = call[d]
      BY <2>1, GotoOK
    <3>2. Alone(c)
      BY <2>1, <3>1 DEF Alone
    <3>3. c \in late' => Begun(c)' /\ handler'[c] # "running" /\ Removed(c)'
      BY <2>1, <3>1 DEF LateKnown, Begun, Removed, network
    <3> QED
      BY <2>1, <3>1, <3>2, <3>3, LateKnownBut
  <2>2. CASE GiveUp(c) \/ Take(c) \/ TimeOut(c) \/ DropRequest(c) \/ FoundDead(c)
    BY <2>1, <2>2 DEF GiveUp, Take, TimeOut, DropRequest, FoundDead, Places
  <2>3. CASE ReadEndnameInfo(c)
    <3>1. CASE ~Served(call[c].end)
      BY <2>1, <2>3, <3>1 DEF ReadEndnameInfo, Places
    <3>2. CASE Served(call[c].end)
      <4>1. c \notin late
        BY <2>3 DEF ReadEndnameInfo, LateKnown, Abreast
      <4>2. Alone(c) /\ call'[c].at = "found" /\ late' = late
        BY <2>3, <3>2 DEF ReadEndnameInfo, CallsOK, Alone
      <4> QED
        BY <4>1, <4>2, LateKnownBut
    <3> QED
      BY <3>1, <3>2
  <2>4. CASE Dispatch(c)
    <3>1. c \notin late
      BY <2>4 DEF Dispatch, LateKnown, Abreast
    <3>2. Alone(c) /\ call'[c].at = "waiting" /\ late' = late
      BY <2>4 DEF Dispatch, Goto, CallsOK, Alone
    <3> QED
      BY <3>1, <3>2, LateKnownBut
  <2>5. CASE HandlerReturns(c)
    <3>1. Alone(c) /\ handler'[c] = "result" /\ call' = call
      BY <2>5 DEF HandlerReturns, CallsOK, Alone
    <3>2. c \notin late /\ call[c].at \notin {"delayed", "true"}
      BY <2>5 DEF HandlerReturns, LateKnown, Abreast
    <3>3. c \in late' => Removed(c)'
      BY <2>5, <3>2 DEF HandlerReturns, Removed, network
    <3> QED
      BY <3>1, <3>2, <3>3, LateKnownBut DEF Begun
  <2>6. CASE HandlerHangs(c)
    <3>1. Alone(c) /\ call' = call /\ late' = late
      BY <2>6 DEF HandlerHangs, CallsOK, Alone
    <3>2. c \notin late
      BY <2>6 DEF HandlerHangs, LateKnown
    <3> QED
      BY <3>1, <3>2, LateKnownBut
  <2>7. CASE GotResult(c)
    <3>1. /\ Alone(c) /\ call'[c].at = "result" /\ call'[c].info = call[c].info
          /\ handler'[c] = "gone" /\ late' = late /\ servers' = servers
      BY <2>7 DEF GotResult, Goto, CallsOK, Alone, network
    <3>2. c \in late' => Begun(c)' /\ handler'[c] # "running" /\ Removed(c)'
      BY <3>1 DEF LateKnown, Begun, Removed
    <3> QED
      BY <3>1, <3>2, LateKnownBut
  <2>8. CASE Drain(c)
    <3>1. /\ Alone(c) /\ call' = call /\ handler'[c] = "gone"
          /\ late' = late /\ servers' = servers
      BY <2>8 DEF Drain, CallsOK, Alone, network
    <3>2. c \in late' => Begun(c)' /\ handler'[c] # "running" /\ Removed(c)'
      BY <3>1 DEF LateKnown, Begun, Removed
    <3>3. call'[c].at \in {"delayed", "true"} => c \notin late'
      BY <3>1 DEF LateKnown
    <3> QED
      BY <3>1, <3>2, <3>3, LateKnownBut
  <2>9. CASE Answer(c)
    <3>1. CASE Goto(c, "false")
      BY <2>1, <2>9, <3>1 DEF Answer, Places
    <3>2. ASSUME ~Goto(c, "false") PROVE LateKnown'
      <4>1. ~IsServerDead(call[c].end, call[c].info.server) /\ Found(c)
        BY <2>9, <3>2 DEF Answer, Found
      <4>2. c \notin late
        BY <4>1, InPlaceNotLate
      <4>3. Alone(c) /\ late' = late
        BY <2>9 DEF Answer, Goto, CallsOK, Alone
      <4> QED
        BY <4>2, <4>3, LateKnownBut
    <3> QED
      BY <3>1, <3>2
  <2>10. CASE LongReply(c)
    <3>1. Alone(c) /\ late' = late /\ c \notin late
      BY <2>10 DEF LongReply, Goto, CallsOK, Alone, LateKnown
    <3> QED
      BY <3>1, LateKnownBut
  <2> QED
    BY <1>5, <2>2, <2>3, <2>4, <2>5, <2>6, <2>7, <2>8, <2>9, <2>10 DEF Step
<1> QED
  BY <1>1, <1>2, <1>3, <1>4, <1>5 DEF Next

\* Call returns true only if its server executed the request and was still in
\* place when the handler returned: processReq, having received the result,
\* looks once more (isServerDead).
THEOREM TrueAlwaysMeansServed == Spec => []TrueMeansServed
<1>1. Init => LateKnown
  BY DEF Init, LateKnown
<1>2. TypeInv /\ LateKnown /\ [Next]_vars => LateKnown'
  BY LateKnownStep
<1>3. TypeInv /\ LateKnown => TrueMeansServed
  BY DEF TypeInv, Abreast, LateKnown, TrueMeansServed
<1> QED
  BY TypeInvAlways, <1>1, <1>2, <1>3, PTL DEF Spec

-----------------------------------------------------------------------------
\* Only call c has moved on, and it has kept out of trouble.
LEMMA UntroubledBut ==
    ASSUME Untroubled, NEW c \in Request, Alone(c),
           c \notin trouble' =>
               /\ call'[c].at \notin {"no server", "false"}
               /\ (c \in Ongoing)' => InOrder(call'[c].end)
               /\ Found(c)' => /\ call'[c].info.reliable
                               /\ call'[c].info.server = Reached(call'[c].end)
    PROVE  Untroubled'
<1> SUFFICES ASSUME NEW d \in Request, d \notin trouble'
             PROVE  /\ call'[d].at \notin {"no server", "false"}
                    /\ (d \in Ongoing)' => InOrder(call[d].end)'
                    /\ Found(d)' => /\ call'[d].info.reliable
                                    /\ call'[d].info.server = Reached(call[d].end)'
  BY DEF Untroubled
<1>1. \A e : Reached(e)' = Reached(e) /\ InOrder(e)' = InOrder(e)
  BY DEF Alone, network, Reached, InOrder
<1>2. CASE d = c
  BY <1>1, <1>2 DEF Alone
<1>3. CASE d # c
  BY <1>1, <1>3 DEF Untroubled, Ongoing, Found, Alone
<1> QED
  BY <1>2, <1>3

\* What a call that has kept out of trouble finds when it looks at the network.
LEMMA NoTrouble ==
    ASSUME Untroubled, NEW c \in Request, c \notin trouble
    PROVE  /\ c \in Ongoing => ~done /\ Served(call[c].end) /\ reliable
           /\ Found(c) => /\ ~Lossy(call[c].info)
                          /\ ~IsServerDead(call[c].end, call[c].info.server)
<1>1. c \in Ongoing => ~done /\ Served(call[c].end) /\ reliable
  BY DEF Untroubled, InOrder, Served
<1>2. ASSUME Found(c) PROVE ~Lossy(call[c].info)
  BY <1>2 DEF Untroubled, Lossy
<1>3. ASSUME Found(c) PROVE ~IsServerDead(call[c].end, call[c].info.server)
  <2>1. c \in Ongoing
    BY <1>3 DEF Found, Ongoing
  <2>2. Reached(call[c].end) # NULL /\ call[c].info.server = Reached(call[c].end)
    BY <1>1, <1>3, <2>1 DEF Untroubled, Served
  <2> QED
    BY <2>2 DEF Reached, IsServerDead
<1> QED
  BY <1>1, <1>2, <1>3

\* A step of a call outside trouble keeps it outside, or the owner's change of
\* the network puts it there.
LEMMA UntroubledStep ==
    ASSUME TypeInv, Untroubled, [Next]_vars
    PROVE  Untroubled'
<1> USE DEF TypeInv
<1>1. CASE UNCHANGED vars
  BY <1>1 DEF vars, network, Untroubled, Ongoing, Found, InOrder, Reached
<1>2. CASE Change
  <2> SUFFICES ASSUME NEW c \in Request, c \notin trouble'
               PROVE  /\ call'[c].at \notin {"no server", "false"}
                      /\ (c \in Ongoing)' => InOrder(call[c].end)'
                      /\ Found(c)' => /\ call'[c].info.reliable
                                      /\ call'[c].info.server = Reached(call[c].end)'
    BY DEF Untroubled
  <2>1. call' = call /\ c \notin trouble /\ (c \in Ongoing => ~Disturbs(call[c].end))
    BY <1>2 DEF Change
  <2>2. c \in Ongoing => InOrder(call[c].end)' /\ Reached(call[c].end)' = Reached(call[c].end)
    BY <2>1 DEF Disturbs
  <2>3. Found(c) => c \in Ongoing
    BY DEF Found, Ongoing
  <2>4. (c \in Ongoing)' <=> c \in Ongoing
    BY <2>1 DEF Ongoing
  <2>5. Found(c)' <=> Found(c)
    BY <2>1 DEF Found
  <2> QED
    BY <2>1, <2>2, <2>3, <2>4, <2>5 DEF Untroubled
<1>3. CASE StopServing
  BY <1>3 DEF StopServing, network, Untroubled, Ongoing, Found, InOrder, Reached
<1>4. ASSUME NEW c \in Request, NEW e \in End, Call(c, e) PROVE Untroubled'
  <2>1. Alone(c) /\ call'[c].at = "offered" /\ call'[c].end = e
    BY <1>4 DEF Call, CallsOK, Alone
  <2>2. c \notin trouble' => InOrder(e)
    BY <1>4 DEF Call
  <2> QED
    BY <2>1, <2>2, UntroubledBut DEF Found
<1>5. ASSUME NEW c \in Request, Step(c) PROVE Untroubled'
  <2>1. ASSUME NEW place \in Places \ {"no server", "found", "false"}, Goto(c, place),
               c \in Ongoing,
               place \in {"waiting", "result", "delayed"} => Found(c),
               UNCHANGED <<network, late, trouble>>,
               \A d \in Request \ {c} : handler'[d] = handler[d]
        PROVE  Untroubled'
    <3>1. /\ call'[c].at = place /\ call'[c].end = call[c].end
          /\ call'[c].info = call[c].info
          /\ \A d \in Request \ {c} : call'[d] = call[d]
      BY <2>1, GotoOK
    <3>2. Alone(c)
      BY <2>1, <3>1 DEF Alone
    <3>3. Found(c)' => Found(c)
      BY <2>1, <3>1 DEF Found, Places
    <3> QED
      BY <2>1, <3>1, <3>2, <3>3, UntroubledBut DEF Untroubled, Places
  <2>2. ASSUME c \in trouble, trouble' = trouble, Alone(c) PROVE Untroubled'
    BY <2>2, UntroubledBut
  <2>3. CASE GiveUp(c)
    <3>1. c \in trouble
      BY <2>3, NoTrouble DEF GiveUp, Ongoing
    <3>2. Alone(c) /\ trouble' = trouble
      BY <2>3 DEF GiveUp, Goto, CallsOK, Alone
    <3> QED
      BY <3>1, <3>2, <2>2
  <2>4. CASE Take(c)
    BY <2>1, <2>4 DEF Take, Places, Ongoing
  <2>5. CASE ReadEndnameInfo(c)
    <3> DEFINE e == call[c].end
               i == [server |-> Reached(e), reliable |-> reliable,
                     reordering |-> longReordering]
    <3>1. Alone(c) /\ trouble' = trouble /\ c \in Ongoing
      BY <2>5 DEF ReadEndnameInfo, Goto, CallsOK, Alone, Ongoing
    <3>2. CASE c \in trouble
      BY <2>2, <3>1, <3>2
    <3>3. CASE c \notin trouble
      <4>1. Served(e) /\ reliable /\ InOrder(e)
        BY <3>1, <3>3, NoTrouble DEF Untroubled
      <4>2. call' = [call EXCEPT ![c].at = "found", ![c].info = i]
        BY <2>5, <4>1 DEF ReadEndnameInfo
      <4>3. i \in Info
        <5>1. e \in End
          BY <2>5 DEF ReadEndnameInfo, Abreast
        <5>2. Reached(e) \in Server
          BY <4>1, <5>1, InfoIsFixed
        <5> QED
          BY <5>2 DEF Info, NetworkOK
      <4>4. i.server = Reached(e) /\ i.reliable
        BY <4>1
      <4> HIDE DEF i
      <4>5. "found" \in Places
        BY DEF Places
      <4>6. call'[c].at = "found" /\ call'[c].end = call[c].end /\ call'[c].info = i
        <5>1. call[c] \in [at : Places, end : End \cup {NULL}, info : Info \cup {NULL}]
              /\ call'[c] = [call[c] EXCEPT !.at = "found", !.info = i]
          BY <4>2 DEF CallsOK
        <5> QED
          BY <5>1
      <4> QED
        BY <3>1, <4>1, <4>4, <4>6, UntroubledBut
    <3> QED
      BY <3>2, <3>3
  <2>6. CASE TimeOut(c)
    <3>1. c \in trouble
      BY <2>6 DEF TimeOut, Untroubled
    <3>2. Alone(c) /\ trouble' = trouble
      BY <2>6 DEF TimeOut, Goto, CallsOK, Alone
    <3> QED
      BY <3>1, <3>2, <2>2
  <2>7. CASE DropRequest(c)
    <3>1. c \in trouble
      BY <2>7, NoTrouble DEF DropRequest, Found
    <3>2. Alone(c) /\ trouble' = trouble
      BY <2>7 DEF DropRequest, Goto, CallsOK, Alone
    <3> QED
      BY <3>1, <3>2, <2>2
  <2>8. CASE Dispatch(c)
    <3>1. \A d \in Request \ {c} : handler'[d] = handler[d]
      BY <2>8 DEF Dispatch, CallsOK
    <3> QED
      BY <2>1, <2>8, <3>1 DEF Dispatch, Places, Ongoing, Found
  <2>9. CASE HandlerReturns(c) \/ HandlerHangs(c) \/ Drain(c)
    <3>1. UNCHANGED <<network, call, trouble>>
      BY <2>9 DEF HandlerReturns, HandlerHangs, Drain
    <3> QED
      BY <3>1 DEF network, Untroubled, Ongoing, Found, InOrder, Reached
  <2>10. CASE GotResult(c)
    <3>1. \A d \in Request \ {c} : handler'[d] = handler[d]
      BY <2>10 DEF GotResult, CallsOK
    <3> QED
      BY <2>1, <2>10, <3>1 DEF GotResult, Places, Ongoing, Found
  <2>11. CASE FoundDead(c)
    <3>1. c \in trouble
      BY <2>11, NoTrouble DEF FoundDead, Found
    <3>2. Alone(c) /\ trouble' = trouble
      BY <2>11 DEF FoundDead, Goto, CallsOK, Alone
    <3> QED
      BY <3>1, <3>2, <2>2
  <2>12. CASE Answer(c)
    <3>1. Alone(c) /\ trouble' = trouble
      BY <2>12 DEF Answer, Goto, CallsOK, Alone
    <3>2. CASE c \in trouble
      BY <2>2, <3>1, <3>2
    <3>3. CASE c \notin trouble
      <4>1. Found(c) /\ c \in Ongoing
        BY <2>12 DEF Answer, Found, Ongoing
      <4>2. Goto(c, "delayed") \/ Goto(c, "true")
        BY <2>12, <3>3, <4>1, NoTrouble DEF Answer
      <4>3. UNCHANGED <<network, handler, late, trouble>>
        BY <2>12 DEF Answer
      <4> QED
        BY <2>1, <4>1, <4>2, <4>3 DEF Places
    <3> QED
      BY <3>2, <3>3
  <2>13. CASE LongReply(c)
    BY <2>1, <2>13 DEF LongReply, Places, Ongoing
  <2> QED
    BY <1>5, <2>3, <2>4, <2>5, <2>6, <2>7, <2>8, <2>9, <2>10, <2>11, <2>12, <2>13
       DEF Step
<1> QED
  BY <1>1, <1>2, <1>3, <1>4, <1>5 DEF Next

\* Call returns false only if at some time since it was made the network could
\* lose something, or its end did not lead to the server it had led to.
THEOREM FalseAlwaysHasReason == Spec => []FalseHasReason
<1>1. Init => Untroubled
  <2>1. Init => call = [c \in Request |-> [at |-> "not made", end |-> NULL, info |-> NULL]]
    BY Zenon DEF Init
  <2>2. ASSUME Init, NEW c \in Request PROVE call[c].at = "not made"
    <3>1. call = [d \in Request |-> [at |-> "not made", end |-> NULL, info |-> NULL]]
      BY <2>1, <2>2
    <3> QED
      BY <3>1
  <2> QED
    BY <2>2 DEF Untroubled, Ongoing, Found
<1>2. TypeInv /\ Untroubled /\ [Next]_vars => Untroubled'
  BY UntroubledStep
<1>3. Untroubled => FalseHasReason
  BY DEF Untroubled, FalseHasReason
<1> QED
  BY TypeInvAlways, <1>1, <1>2, <1>3, PTL DEF Spec
=============================================================================
