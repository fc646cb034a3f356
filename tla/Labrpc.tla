------------------------------- MODULE Labrpc -------------------------------
(***************************************************************************)
(* The simulated network of mp2/src/labrpc/labrpc.go: what becomes of a    *)
(* Call while the owner of the network connects and enables ends, deletes  *)
(* servers and adds others in their place, and tears the network down.     *)
(*                                                                         *)
(* A call lives in four goroutines: its caller, processReq, the handler    *)
(* that processReq starts, and one that is left to receive a result nobody *)
(* waits for any more.  What each does between two channel operations or   *)
(* locks of rn.mu is one action.  Sleeps and timers may take any time, so  *)
(* that longDelays makes no difference.                                    *)
(***************************************************************************)
EXTENDS Integers, FiniteSets

CONSTANTS
    End,        \* the names of the client ends
    Name,       \* the names of the servers
    Request,    \* the calls, each made once
    NULL,       \* nil
    MaxServers, \* bound: so many servers are made in all
    MaxChanges  \* bound: the owner changes the network so often

ASSUME NullAssumption == NULL \notin Name
ASSUME BoundAssumption == {MaxServers, MaxChanges} \subseteq Nat

VARIABLES
    enabled,        \* by end name
    connections,    \* by end name: the server's name, or NULL
    servers,        \* by server name: the server, or NULL; each AddServer adds
                    \* another server, and they are numbered in that order
    made,           \* how many servers there have been
    reliable,
    longReordering,
    done,           \* Cleanup has closed the channel done
    serving,        \* MakeNetwork's goroutine still takes requests
    changes,        \* how often the owner has changed the network
    call,           \* call[c]: how far that call is
    handler,        \* handler[c]: how far its handler is
    drain,          \* the calls whose result a goroutine is left to receive
    trouble,        \* the calls during which the network was not as it should be
    late            \* the calls whose handler returned after its server was gone

network == <<enabled, connections, servers, made, reliable, longReordering, done>>
vars == <<network, serving, changes, call, handler, drain, trouble, late>>

Server == 1..MaxServers

\* What readEndnameInfo tells processReq, which holds on to it.
Info == [server : Server, reliable : BOOLEAN, reordering : BOOLEAN]

-----------------------------------------------------------------------------
\* The server that requests of end e reach, NULL if there is none.
Reached(e) ==
    IF enabled[e] /\ connections[e] # NULL THEN servers[connections[e]] ELSE NULL

\* Whether processReq passes a request of end e on.
ServedByName(e) == enabled[e] /\ connections[e] # NULL
Served(e) == Reached(e) # NULL

\* A request or reply may be dropped.
LossyWhenReordering(i) == ~i.reliable \/ i.reordering
Lossy(i) == ~i.reliable

\* isServerDead: the end is disabled, or its server is no longer server s.
FoundDeadByName(e, s) == ~enabled[e] \/ servers[connections[e]] = NULL
FoundDeadByEnd(e, s) == ~enabled[e]
IsServerDead(e, s) == ~enabled[e] \/ servers[connections[e]] # s

\* The network is in order for end e.
InOrder(e) == Reached(e) # NULL /\ reliable /\ ~done

Ongoing == {c \in Request : call[c].at \notin {"not made", "true", "false"}}

Goto(c, place) == call' = [call EXCEPT ![c].at = place]

-----------------------------------------------------------------------------
\* MakeNetwork, and MakeEnd for every end.
Init ==
    /\ enabled = [e \in End |-> FALSE]
    /\ connections = [e \in End |-> NULL]
    /\ servers = [n \in Name |-> NULL]
    /\ made = 0
    /\ reliable = TRUE /\ longReordering = FALSE
    /\ done = FALSE /\ serving = TRUE
    /\ changes = 0
    /\ call = [c \in Request |-> [at |-> "not made", end |-> NULL, info |-> NULL]]
    /\ handler = [c \in Request |-> "none"]
    /\ drain = {} /\ trouble = {} /\ late = {}

(***************************************************************************)
(* The owner                                                               *)
(***************************************************************************)
Enable(e, b) ==
    /\ enabled' = [enabled EXCEPT ![e] = b]
    /\ UNCHANGED <<connections, servers, made, reliable, longReordering, done>>

\* An end can only be connected once in its lifetime.
Connect(e, n) ==
    /\ connections[e] = NULL
    /\ connections' = [connections EXCEPT ![e] = n]
    /\ UNCHANGED <<enabled, servers, made, reliable, longReordering, done>>

AddServer(n) ==
    /\ made < MaxServers
    /\ made' = made + 1
    /\ servers' = [servers EXCEPT ![n] = made + 1]
    /\ UNCHANGED <<enabled, connections, reliable, longReordering, done>>

DeleteServer(n) ==
    /\ servers' = [servers EXCEPT ![n] = NULL]
    /\ UNCHANGED <<enabled, connections, made, reliable, longReordering, done>>

Reliable(yes) ==
    /\ reliable' = yes
    /\ UNCHANGED <<enabled, connections, servers, made, longReordering, done>>

LongReordering(yes) ==
    /\ longReordering' = yes
    /\ UNCHANGED <<enabled, connections, servers, made, reliable, done>>

Cleanup ==
    /\ ~done /\ done' = TRUE
    /\ UNCHANGED <<enabled, connections, servers, made, reliable, longReordering>>

\* A call over end e is no longer sure to succeed after this step.
Disturbs(e) == ~InOrder(e)' \/ Reached(e)' # Reached(e)

Change ==
    /\ changes < MaxChanges
    /\ changes' = changes + 1
    /\ UNCHANGED <<serving, call, handler, drain, late>>
    /\ \/ \E e \in End, b \in BOOLEAN : enabled[e] # b /\ Enable(e, b)
       \/ \E e \in End, n \in Name : Connect(e, n)
       \/ \E n \in Name : AddServer(n) \/ (servers[n] # NULL /\ DeleteServer(n))
       \/ \E yes \in BOOLEAN : reliable # yes /\ Reliable(yes)
       \/ \E yes \in BOOLEAN : longReordering # yes /\ LongReordering(yes)
       \/ Cleanup
    /\ trouble' = trouble \cup {c \in Ongoing : Disturbs(call[c].end)}

(***************************************************************************)
(* A call                                                                  *)
(***************************************************************************)
\* Call offers its request on the channel of the network.
Call(c, e) ==
    /\ call[c].at = "not made"
    /\ call' = [call EXCEPT ![c].at = "offered", ![c].end = e]
    /\ trouble' = IF InOrder(e) THEN trouble ELSE trouble \cup {c}
    /\ UNCHANGED <<network, serving, changes, handler, drain, late>>

\* Call finds done closed: the network has been destroyed.
GiveUp(c) ==
    /\ call[c].at = "offered" /\ done
    /\ Goto(c, "false")
    /\ UNCHANGED <<network, serving, changes, handler, drain, trouble, late>>

\* The goroutine of MakeNetwork starts processReq, which reads how things are
\* (readEndnameInfo) at any later time.
Take(c) ==
    /\ call[c].at = "offered" /\ serving
    /\ Goto(c, "taken")
    /\ UNCHANGED <<network, serving, changes, handler, drain, trouble, late>>

\* That goroutine finds done closed; it may have taken requests since.
StopServing ==
    /\ done /\ serving
    /\ serving' = FALSE
    /\ UNCHANGED <<network, changes, call, handler, drain, trouble, late>>

ReadEndnameInfo(c) ==
    /\ call[c].at = "taken"
    /\ LET e == call[c].end
       IN  IF ~Served(e)
           THEN Goto(c, "no server")
           ELSE call' = [call EXCEPT ![c].at = "found",
                            ![c].info = [server |-> Reached(e), reliable |-> reliable,
                                         reordering |-> longReordering]]
    /\ UNCHANGED <<network, serving, changes, handler, drain, trouble, late>>

\* "simulate no reply and eventual timeout", after a while.
TimeOut(c) ==
    /\ call[c].at = "no server"
    /\ Goto(c, "false")
    /\ UNCHANGED <<network, serving, changes, handler, drain, trouble, late>>

DropRequest(c) ==
    /\ call[c].at = "found" /\ Lossy(call[c].info)
    /\ Goto(c, "false")
    /\ UNCHANGED <<network, serving, changes, handler, drain, trouble, late>>

\* The handler is started in a goroutine of its own.
Dispatch(c) ==
    /\ call[c].at = "found"
    /\ Goto(c, "waiting")
    /\ handler' = [handler EXCEPT ![c] = "running"]
    /\ UNCHANGED <<network, serving, changes, drain, trouble, late>>

\* The handler returns, and its result is sent to whoever waits for it; or it
\* never will.
HandlerReturns(c) ==
    /\ handler[c] = "running"
    /\ handler' = [handler EXCEPT ![c] = "result"]
    /\ late' = IF \E n \in Name : servers[n] = call[c].info.server
               THEN late ELSE late \cup {c}
    /\ UNCHANGED <<network, serving, changes, call, drain, trouble>>

HandlerHangs(c) ==
    /\ handler[c] = "running"
    /\ handler' = [handler EXCEPT ![c] = "hung"]
    /\ UNCHANGED <<network, serving, changes, call, drain, trouble, late>>

\* processReq receives the result.
GotResult(c) ==
    /\ call[c].at = "waiting" /\ handler[c] = "result"
    /\ Goto(c, "result")
    /\ handler' = [handler EXCEPT ![c] = "gone"]
    /\ UNCHANGED <<network, serving, changes, drain, trouble, late>>

\* It looks every 100 ms whether the server is dead.  If so it leaves another
\* goroutine to receive the result.
NoneLeft(c) == drain
OneLeft(c) == drain \cup {c}
FoundDead(c) ==
    /\ call[c].at = "waiting" /\ IsServerDead(call[c].end, call[c].info.server)
    /\ Goto(c, "false")
    /\ drain' = OneLeft(c)
    /\ UNCHANGED <<network, serving, changes, handler, trouble, late>>

Drain(c) ==
    /\ c \in drain /\ handler[c] = "result"
    /\ drain' = drain \ {c}
    /\ handler' = [handler EXCEPT ![c] = "gone"]
    /\ UNCHANGED <<network, serving, changes, call, trouble, late>>

\* With a result it looks once more; then the reply may be lost or take long.
Answer(c) ==
    /\ call[c].at = "result"
    /\ LET i == call[c].info
       IN  \/ /\ IsServerDead(call[c].end, i.server) \/ Lossy(i)
              /\ Goto(c, "false")
           \/ /\ ~IsServerDead(call[c].end, i.server)
              /\ \/ i.reordering /\ Goto(c, "delayed")
                 \/ Goto(c, "true")
    /\ UNCHANGED <<network, serving, changes, handler, drain, trouble, late>>

LongReply(c) ==
    /\ call[c].at = "delayed"
    /\ Goto(c, "true")
    /\ UNCHANGED <<network, serving, changes, handler, drain, trouble, late>>

-----------------------------------------------------------------------------
Step(c) ==
    \/ GiveUp(c) \/ Take(c) \/ ReadEndnameInfo(c) \/ TimeOut(c)
    \/ DropRequest(c) \/ Dispatch(c)
    \/ HandlerReturns(c) \/ HandlerHangs(c)
    \/ GotResult(c) \/ FoundDead(c) \/ Drain(c)
    \/ Answer(c) \/ LongReply(c)

Next ==
    \/ Change
    \/ StopServing
    \/ \E c \in Request, e \in End : Call(c, e)
    \/ \E c \in Request : Step(c)

\* The goroutines that can go on do, and timers run out.
Fairness == \A c \in Request : WF_vars(Step(c))

Spec == Init /\ [][Next]_vars /\ Fairness

-----------------------------------------------------------------------------
(***************************************************************************)
(* Properties                                                              *)
(***************************************************************************)
\* The maps of the network hold ends and servers that were made, and a call
\* knows the server it found as long as it has one to wait for.
TypeOK ==
    /\ enabled \in [End -> BOOLEAN]
    /\ connections \in [End -> Name \cup {NULL}]
    /\ servers \in [Name -> 1..made \cup {NULL}]
    /\ \A c \in Request :
          /\ call[c].at \in {"not made", "offered", "taken", "no server", "found",
                             "waiting", "result", "delayed", "true", "false"}
          /\ call[c].end \in End \cup {NULL}
          /\ call[c].info \in Info \cup {NULL}
          /\ call[c].at \in {"found", "waiting", "result", "delayed", "true"} =>
                call[c].info.server \in 1..made
    /\ handler \in [Request -> {"none", "running", "result", "hung", "gone"}]
    /\ drain \subseteq Request /\ trouble \subseteq Request /\ late \subseteq Request

\* Call returns true only when the server executed the request, and did so
\* while it was in place: no client is told of something that a server did
\* after DeleteServer.
TrueMeansServed ==
    \A c \in Request :
        call[c].at = "true" => handler[c] = "gone" /\ c \notin late

\* Call returns false only if the network lost something or the server was
\* away for a while, or replaced, or the end disabled, or all was torn down.
FalseHasReason == \A c \in Request : call[c].at = "false" => c \in trouble

\* Call returns, except if the handler does not return; then also once its
\* server has been deleted or replaced or the end disabled, if that lasts.
CallReturns ==
    \A c \in Request :
        LET returned == call[c].at \in {"true", "false"}
            dead == Reached(call[c].end) # call[c].info.server
        IN  /\ c \in Ongoing ~> returned \/ handler[c] = "hung"
            /\ call[c].at = "waiting" /\ dead
                   ~> returned \/ (call[c].at = "waiting" /\ ~dead)

\* A handler that returns gets rid of its result: no goroutine is left behind
\* at a channel that nobody reads, however the call ended meanwhile.
NoneLeftBehind == \A c \in Request : handler[c] = "result" ~> handler[c] = "gone"
=============================================================================
