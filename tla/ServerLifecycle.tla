-------------------------- MODULE ServerLifecycle --------------------------
(***************************************************************************)
(* The life of the servers of a host (ServerHost.cs, ThreadedServer.cs):   *)
(* starting, stopping and restarting, the accept loops of the endpoints    *)
(* (EndPoint.cs), the connections that are in flight meanwhile, and the    *)
(* contexts they take from the pool that all endpoints of all servers      *)
(* share (ClientContext.cs).                                               *)
(*                                                                         *)
(* A host is called by one caller at a time.  Of a connection only what    *)
(* the lifecycle needs is left; ClientHandler models one in detail.        *)
(***************************************************************************)
EXTENDS Naturals

CONSTANTS
    EndPoints,      \* bound: the endpoints of a configuration
    Clients,        \* the clients, each with one connection
    Contexts,       \* the contexts the pool may hold or create
    MaxServers,     \* bound: the servers a host builds
    Setups          \* the configurations and their use, see Setup

(* The endpoints 1..endPoints, of which secure use TLS, of a host that builds up *)
(* to that many servers for these clients; the pool holds these contexts.        *)
Setup == [endPoints : 1..EndPoints, secure : SUBSET (1..EndPoints), servers : 0..MaxServers,
          clients : SUBSET Clients, contexts : SUBSET Contexts]

ASSUME EndPointAssumption == EndPoints \in Nat \ {0} /\ MaxServers \in Nat
ASSUME SetupAssumption == Setups \subseteq Setup
ASSUME NoneAssumption == "none" \notin Clients

VARIABLES
    setup,      \* what is configured (constant)
    host,       \* the call in progress, and where it is
    instance,   \* the server of the host, 0 for null
    built,      \* the servers built so far
    running,    \* Running of each server
    listener,   \* the endpoints of each server
    taken,      \* the ports other processes listen on
    conn,       \* the connections
    context     \* the pooled contexts

vars == <<setup, host, instance, built, running, listener, taken, conn, context>>
servers == <<setup, host, instance, built, running, taken>>

Servers == 1..MaxServers
Ports == 1..EndPoints

Listener == [socket : {"none", "failed", "listening", "closed"},
             task : {"none", "top", "accepting", "delay", "done"},
             shutting : BOOLEAN]                        \* _shuttingDown

(* In these steps the server reads a body or sends to the client, untimed. *)
Untimed == {"handling", "skipping", "flushing", "closing"}

Connection == [at : {"away", "queued", "accepted", "handshake", "top", "reading",
                     "ending", "closed"} \cup Untimed,
               server : 0..MaxServers, port : 0..EndPoints,
               context : Contexts \cup {"none"},
               buffered : BOOLEAN,          \* the next request has arrived with the last one
               waits : BOOLEAN]             \* the server waits for the client to go on

Calls == {"no", "start", "stop", "run"}

Context == [owner : Clients \cup {"none"},  \* the connection it is applied to
            timer : {"off", "armed", "fired"},          \* _cts
            by : Clients \cup {"none"}]     \* the connection that armed the timer

TypeOK ==
    /\ setup \in Setups
    /\ host \in [call : Calls, next : 0..EndPoints + 1,
                 at : {"idle", "dispose", "join", "create", "prepare", "bind", "wait"}]
    /\ instance \in 0..MaxServers
    /\ built \in 0..MaxServers
    /\ running \in [Servers -> BOOLEAN]
    /\ listener \in [Servers -> [Ports -> Listener]]
    /\ taken \subseteq Ports
    /\ conn \in [Clients -> Connection]
    /\ context \in [Contexts -> Context]

Idle == [call |-> "no", at |-> "idle", next |-> 0]
Unbound == [socket |-> "none", task |-> "none", shutting |-> FALSE]
Away == [at |-> "away", server |-> 0, port |-> 0, context |-> "none",
         buffered |-> FALSE, waits |-> FALSE]
NoSource == [owner |-> "none", by |-> "none"]
Unused == [owner |-> "none", timer |-> "off", by |-> "none"]

Init ==
    /\ setup \in Setups
    /\ host = Idle /\ instance = 0 /\ built = 0
    /\ running = [s \in Servers |-> TRUE]
    /\ listener = [s \in Servers |-> [p \in Ports |-> Unbound]]
    /\ taken \in SUBSET (1..setup.endPoints)
    /\ conn = [c \in Clients |-> Away]
    /\ context = [x \in Contexts |-> Unused]

(***************************************************************************)
(* The calls of a host.  RestartAsync is a StartAsync, which stops first.  *)
(***************************************************************************)
At(where, next) == [host EXCEPT !.at = where, !.next = next]

Stopped(call) == IF call = "stop" THEN Idle ELSE [call |-> call, at |-> "create", next |-> 0]

StopAsync(call) ==
    host' = IF instance # 0 THEN [call |-> call, at |-> "dispose", next |-> 1] ELSE Stopped(call)

StartUnstopped(call) == IF call = "stop" THEN StopAsync(call) ELSE host' = Stopped(call)
StartAsync(call) == StopAsync(call)

Call(call) ==
    /\ host.at = "idle" /\ call # "no"
    /\ call # "stop" => built < setup.servers
    /\ StartAsync(call)
    /\ UNCHANGED <<setup, instance, built, running, listener, taken, conn, context>>

(* RunAsync waits for the end of the process. *)
ProcessExit ==
    /\ host.at = "wait"
    /\ StopAsync("stop")
    /\ UNCHANGED <<setup, instance, built, running, listener, taken, conn, context>>

(* CreateInstance throws without a handler, or for protocols that are not supported *)
CreateInstance ==
    /\ host.at = "create"
    /\ \/ host' = Idle /\ UNCHANGED <<setup, instance, built>>
       \/ /\ instance' = built + 1 /\ built' = built + 1
          /\ host' = At("prepare", 0)
    /\ UNCHANGED <<setup, running, listener, taken, conn, context>>

(* A handler that fails to prepare is only logged. *)
PrepareHandler ==
    /\ host.at = "prepare"
    /\ host' = At("bind", 1)
    /\ UNCHANGED <<setup, instance, built, running, listener, taken, conn, context>>

Listening(s, p) == listener[s][p].socket = "listening"

PortInUse(p) == p \in taken \/ \E s \in Servers : Listening(s, p)

(* Start of the next endpoint; a port that cannot be bound ends the call. *)
StartEndPoint ==
    /\ host.at = "bind" /\ host.next <= setup.endPoints
    /\ IF PortInUse(host.next)
       THEN /\ host' = Idle
            /\ listener' = [listener EXCEPT ![instance][host.next].socket = "failed"]
       ELSE /\ host' = At("bind", host.next + 1)
            /\ listener' = [listener EXCEPT ![instance][host.next] =
                                [@ EXCEPT !.socket = "listening", !.task = "top"]]
    /\ UNCHANGED <<setup, instance, built, running, taken, conn, context>>

Started ==
    /\ host.at = "bind" /\ host.next > setup.endPoints
    /\ host' = IF host.call = "run" THEN At("wait", 0) ELSE Idle
    /\ UNCHANGED <<setup, instance, built, running, listener, taken, conn, context>>

(* Clients nobody has accepted yet are dropped with the socket they are queued at. *)
Dropped(s, p) ==
    [c \in Clients |-> IF conn[c].at = "queued" /\ conn[c].server = s /\ conn[c].port = p
                       THEN [conn[c] EXCEPT !.at = "closed"] ELSE conn[c]]

ShutOnly(s, p) == listener' = [listener EXCEPT ![s][p].shutting = TRUE]
Shut(s, p) ==
    listener' = [listener EXCEPT ![s][p].shutting = TRUE,
                                 ![s][p].socket = IF listener[s][p].task = "none" THEN @ ELSE "closed"]

DisposeEndPoint ==
    /\ host.at = "dispose" /\ host.next <= setup.endPoints
    /\ Shut(instance, host.next)
    /\ conn' = Dropped(instance, host.next)
    /\ host' = At("join", host.next)
    /\ UNCHANGED <<setup, instance, built, running, taken, context>>

(* Task.Wait *)
Unjoined(s, p) == TRUE
Joined(s, p) == listener[s][p].task \in {"none", "done"}

JoinTask ==
    /\ host.at = "join" /\ Joined(instance, host.next)
    /\ host' = At("dispose", host.next + 1)
    /\ UNCHANGED <<setup, instance, built, running, listener, taken, conn, context>>

Disposed ==
    /\ host.at = "dispose" /\ host.next > setup.endPoints
    /\ running' = [running EXCEPT ![instance] = FALSE]
    /\ instance' = 0
    /\ host' = Stopped(host.call)
    /\ UNCHANGED <<setup, built, listener, taken, conn, context>>

Host ==
    \/ CreateInstance \/ PrepareHandler \/ StartEndPoint \/ Started
    \/ DisposeEndPoint \/ JoinTask \/ Disposed

(***************************************************************************)
(* The accept loop of an endpoint                                          *)
(***************************************************************************)
Goto(s, p, where) == listener' = [listener EXCEPT ![s][p].task = where]

LoopTop(s, p) ==
    /\ listener[s][p].task = "top"
    /\ Goto(s, p, IF listener[s][p].shutting THEN "done" ELSE "accepting")
    /\ UNCHANGED <<servers, conn, context>>

AcceptClient(s, p, c) ==
    /\ listener[s][p].task = "accepting" /\ Listening(s, p)
    /\ conn[c].at = "queued" /\ conn[c].server = s /\ conn[c].port = p
    /\ conn' = [conn EXCEPT ![c].at = "accepted"]
    /\ Goto(s, p, "top")
    /\ UNCHANGED <<servers, context>>

(* AcceptAsync throws: because of the dispose, or for any other reason *)
AcceptFails(s, p) ==
    /\ listener[s][p].task = "accepting"
    /\ Goto(s, p, IF listener[s][p].shutting THEN "done" ELSE "delay")
    /\ UNCHANGED <<servers, conn, context>>

AcceptAborted(s, p) == ~Listening(s, p) /\ AcceptFails(s, p)

GiveUp(s, p) == Goto(s, p, "done")
Retry(s, p) == Goto(s, p, "top")

Delayed(s, p) ==
    /\ listener[s][p].task = "delay"
    /\ Retry(s, p)
    /\ UNCHANGED <<servers, conn, context>>

AcceptLoop(s, p) ==
    \/ LoopTop(s, p) \/ AcceptAborted(s, p) \/ Delayed(s, p)
    \/ \E c \in Clients : AcceptClient(s, p, c)

(***************************************************************************)
(* Connections                                                             *)
(***************************************************************************)
Move(c, where) == conn' = [conn EXCEPT ![c].at = where]

Connect(c, s, p) ==
    /\ c \in setup.clients /\ conn[c].at = "away" /\ Listening(s, p)
    /\ conn' = [conn EXCEPT ![c] = [@ EXCEPT !.at = "queued", !.server = s, !.port = p]]
    /\ UNCHANGED <<servers, listener, context>>

Authenticate(c) ==
    /\ conn[c].at = "accepted" /\ conn[c].port \in setup.secure
    /\ Move(c, "handshake")
    /\ UNCHANGED <<servers, listener, context>>

HandshakeFails(c) ==
    /\ conn[c].at = "handshake"
    /\ Move(c, "closed")
    /\ UNCHANGED <<servers, listener, context>>

(* ResetCts: a source that has been cancelled is replaced. *)
KeepSource(x, c) == IF x.timer = "fired" THEN x ELSE [x EXCEPT !.timer = "armed", !.by = c]
NoTimeout(x, c) == [x EXCEPT !.timer = "off", !.by = c]
ResetCts(x, c) == [x EXCEPT !.timer = "armed", !.by = c]

Apply(x, c) == [x EXCEPT !.owner = c]

(* A context of the pool, or a new one, is applied and its handler runs. *)
Handle(c, x) ==
    /\ x \in setup.contexts /\ context[x].owner = "none"
    /\ context' = [context EXCEPT ![x] = ResetCts(Apply(context[x], c), c)]
    /\ conn' = [conn EXCEPT ![c] = [@ EXCEPT !.at = "top", !.context = x]]
    /\ UNCHANGED <<servers, listener>>

Accept(c, x) == conn[c].at = "accepted" /\ conn[c].port \notin setup.secure /\ Handle(c, x)
HandshakeEnds(c, x) == conn[c].at = "handshake" /\ Handle(c, x)

ServerRuns(c) == running[conn[c].server]

(* What becomes of a header: it is complete, it is not (at the end of the   *)
(* stream it never will be), or it is malformed, which SendErrorAsync tells. *)
Parsed == {"handling", "top", "ending", "closing"}

(* The loop: a stopped server is noticed here and nowhere else. *)
CheckRunning(c) ==
    /\ conn[c].at = "top"
    /\ \E where \in IF ~ServerRuns(c) THEN {"ending"} ELSE IF conn[c].buffered THEN Parsed ELSE {"reading"} :
        conn' = [conn EXCEPT ![c] = [@ EXCEPT !.at = where, !.buffered = FALSE]]
    /\ UNCHANGED <<servers, listener, context>>

ReadRequest(c) ==
    /\ conn[c].at = "reading"
    /\ \E where \in Parsed : Move(c, where)
    /\ UNCHANGED <<servers, listener, context>>

ReadEnds(c) ==
    /\ conn[c].at = "reading"
    /\ Move(c, "ending")
    /\ UNCHANGED <<servers, listener, context>>

TimerCancels(c) == ReadEnds(c) /\ context[conn[c].context].timer = "fired"

(* A handler reads the body of its request and writes its response, the server *)
(* skips what is left of that body and flushes: all of this may have to wait   *)
(* for the client, and none of it looks at the timer or at Running.            *)
Await(c) ==
    /\ conn[c].at \in Untimed /\ ~conn[c].waits
    /\ conn' = [conn EXCEPT ![c].waits = TRUE]
    /\ UNCHANGED <<servers, listener, context>>

GoOn(c) ==
    /\ conn[c].waits
    /\ conn' = [conn EXCEPT ![c].waits = FALSE]
    /\ UNCHANGED <<servers, listener, context>>

(* HandleRequestAsync: the connection is kept, closed or failed, or is gone. *)
HandleRequest(c) ==
    /\ conn[c].at = "handling" /\ ~conn[c].waits
    /\ \E where \in {"skipping", "closing", "ending"} : Move(c, where)
    /\ UNCHANGED <<servers, listener, context>>

(* FinishAsync: the body cannot be skipped, the stream has ended, the next  *)
(* request is there already, or the client gets its response and more time. *)
FinishRequest(c) ==
    /\ conn[c].at = "skipping" /\ ~conn[c].waits
    /\ \/ /\ \/ \E where \in {"closing", "ending"} : Move(c, where)
             \/ conn' = [conn EXCEPT ![c] = [@ EXCEPT !.at = "top", !.buffered = TRUE]]
          /\ UNCHANGED context
       \/ /\ Move(c, "flushing")
          /\ context' = [context EXCEPT ![conn[c].context] = ResetCts(@, c)]
    /\ UNCHANGED <<servers, listener>>

FlushResponse(c) ==
    /\ conn[c].at = "flushing" /\ ~conn[c].waits
    /\ \E where \in {"top", "closing"} : Move(c, where)
    /\ UNCHANGED <<servers, listener, context>>

(* The last flush, or SendErrorAsync *)
FlushLast(c) ==
    /\ conn[c].at = "closing" /\ ~conn[c].waits
    /\ Move(c, "ending")
    /\ UNCHANGED <<servers, listener, context>>

(* The context goes back to the pool; the timer stays with its source. *)
Return(c) ==
    /\ conn[c].at = "ending"
    /\ context' = [context EXCEPT ![conn[c].context].owner = "none"]
    /\ conn' = [conn EXCEPT ![c] = [@ EXCEPT !.at = "closed", !.context = "none"]]
    /\ UNCHANGED <<servers, listener>>

Work(c) ==
    \/ Authenticate(c) \/ CheckRunning(c) \/ TimerCancels(c) \/ HandleRequest(c)
    \/ FinishRequest(c) \/ FlushResponse(c) \/ FlushLast(c) \/ Return(c)
    \/ \E x \in Contexts : Accept(c, x)

(***************************************************************************)
(* The environment                                                         *)
(***************************************************************************)
Fire(x) ==
    /\ context[x].timer = "armed"
    /\ context' = [context EXCEPT ![x].timer = "fired"]
    /\ UNCHANGED <<servers, listener, conn>>

(* Another process starts or stops to listen on a port. *)
OtherProcess(p) ==
    /\ p \in 1..setup.endPoints /\ \A s \in Servers : ~Listening(s, p)
    /\ taken' = IF p \in taken THEN taken \ {p} ELSE taken \cup {p}
    /\ UNCHANGED <<setup, host, instance, built, running, listener, conn, context>>

Next ==
    \/ \E call \in Calls : Call(call)
    \/ ProcessExit \/ Host
    \/ \E s \in Servers, p \in Ports : AcceptLoop(s, p) \/ AcceptFails(s, p)
    \/ \E c \in Clients, s \in Servers, p \in Ports : Connect(c, s, p)
    \/ \E c \in Clients : \/ Work(c) \/ HandshakeFails(c) \/ ReadRequest(c) \/ ReadEnds(c)
                          \/ Await(c) \/ GoOn(c)
    \/ \E c \in Clients, x \in Contexts : HandshakeEnds(c, x)
    \/ \E x \in Contexts : Fire(x)
    \/ \E p \in Ports : OtherProcess(p)

Spec == Init /\ [][Next]_vars

(* Tasks are scheduled, handlers prepare and, while they do not wait for their *)
(* client, answer, timers fire, and accepting a client that waits does not fail *)
(* each time.  That a client goes on, which GoOn stands for, is not assumed.   *)
FairSpec ==
    /\ Spec
    /\ WF_vars(Host)
    /\ \A s \in Servers, p \in Ports : WF_vars(AcceptLoop(s, p))
    /\ \A c \in Clients :
        /\ SF_vars(\E s \in Servers, p \in Ports : AcceptClient(s, p, c))
        /\ WF_vars(Work(c))
    /\ \A x \in Contexts : WF_vars(Fire(x))

(* A host never has two servers that listen, so a port it cannot bind is in *)
(* use by somebody else.                                                    *)
SocketsOwned == \A s \in Servers, p \in Ports : Listening(s, p) => s = instance

(* After StopAsync nothing accepts connections any more, whatever the accept *)
(* loops were doing and however far the start before it had come.            *)
StopComplete ==
    host.at \in {"idle", "create"} /\ instance = 0 =>
        \A s \in 1..built :
            /\ ~running[s]
            /\ \A p \in Ports : ~Listening(s, p) /\ listener[s][p].task \in {"none", "done"}

(* The timer that can cancel a connection is one it has armed itself, not one *)
(* that the last user of its context has left behind.                         *)
OwnTimer ==
    \A c \in Clients : conn[c].at \in {"top", "reading"} \cup Untimed =>
        LET x == context[conn[c].context] IN x.owner = c /\ x.by = c

(* Starting and stopping return, whatever the accept loops do. *)
CallReturns == host.at \notin {"idle", "wait"} ~> host.at \in {"idle", "wait"}

(* A client in the queue of a listening socket is accepted, or dropped when *)
(* the server stops, even though accepting may fail at times.               *)
QueueMoves == \A c \in Clients : conn[c].at = "queued" ~> conn[c].at # "queued"

(* The connections of a stopped server come to their end.  What can hold one *)
(* up is its client, and only where the server has no time limit for it: in  *)
(* the TLS handshake (not in the set below), while a body is read or skipped *)
(* and while a response is sent (it waits); never in a read of a header, and *)
(* once such a client has gone on, the rest of this holds for it again.      *)
Drains ==
    \A c \in Clients :
        conn[c].at \in {"top", "reading", "ending"} \cup Untimed /\ ~running[conn[c].server]
            ~> conn[c].at = "closed" \/ conn[c].waits
=============================================================================
