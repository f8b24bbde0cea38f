------------------------ MODULE ServerLifecycleProofs ------------------------
(***************************************************************************)
(* Proofs about ServerLifecycle, for every number of endpoints, servers,   *)
(* clients and contexts.                                                   *)
(***************************************************************************)
EXTENDS ServerLifecycle, TLAPS

(* Nothing listens at an endpoint, and its task, if there ever was one, has *)
(* ended.                                                                   *)
Quiet(s, p) == ~Listening(s, p) /\ listener[s][p].task \in {"none", "done"}

Disposing == host.at \in {"dispose", "join"}

(* Which servers there are, by where the call in progress is *)
Calling ==
    /\ instance <= built
    /\ Disposing \/ host.at \in {"prepare", "bind"} => instance # 0
    /\ host.at = "create" => instance = 0
    /\ host.at = "create" \/ (Disposing /\ host.call # "stop") => built < setup.servers
    /\ Disposing \/ host.at = "bind" => host.next >= 1
    /\ host.at = "join" => host.next <= setup.endPoints

(* An endpoint has a task as soon as it listens, and only those that are    *)
(* configured are ever started, those of a server not before it is built.   *)
Bound ==
    \A s \in Servers, p \in Ports :
        /\ Listening(s, p) => listener[s][p].task # "none"
        /\ s > built \/ p > setup.endPoints => listener[s][p] = Unbound

(* All servers but the one of the host are stopped, and of that one the     *)
(* endpoints in front of the one that is being disposed.                    *)
Quieted ==
    /\ \A s \in Servers : s <= built /\ s # instance =>
        ~running[s] /\ \A p \in Ports : Quiet(s, p)
    /\ Disposing => \A p \in Ports : p < host.next => Quiet(instance, p)
    /\ host.at = "join" => ~Listening(instance, host.next)

(* A connection in its loop owns its context, and has armed the timer of it. *)
Working == {"top", "reading", "handling", "skipping", "flushing", "closing"}

Owning(c) ==
    conn[c].at \in Working \cup {"ending"} =>
        /\ conn[c].context \in Contexts
        /\ context[conn[c].context].owner = c
        /\ conn[c].at \in Working => context[conn[c].context].by = c

Owned == \A c \in Clients : Owning(c)

IInv == TypeOK /\ Calling /\ Bound /\ Quieted /\ Owned

(* What a configuration says, whatever the state *)
LEMMA SetupFacts ==
    ASSUME TypeOK
    PROVE  /\ setup.endPoints \in Nat \ {0} /\ setup.endPoints <= EndPoints
           /\ setup.servers \in Nat /\ setup.servers <= MaxServers
           /\ setup.clients \subseteq Clients /\ setup.contexts \subseteq Contexts
           /\ EndPoints \in Nat /\ MaxServers \in Nat
<1>1. setup \in Setup
  BY SetupAssumption DEF TypeOK
<1> QED
  BY <1>1, EndPointAssumption DEF Setup

LEMMA HostFacts ==
    ASSUME TypeOK
    PROVE  /\ host.call \in Calls /\ host.next \in 0..EndPoints + 1
           /\ host.at \in {"idle", "dispose", "join", "create", "prepare", "bind", "wait"}
           /\ host = [call |-> host.call, next |-> host.next, at |-> host.at]
           /\ instance \in Nat /\ built \in Nat
<1> QED
  BY EndPointAssumption DEF TypeOK

(***************************************************************************)
(* The steps of the accept loops and the connections: the host stays where *)
(* it is.                                                                  *)
(***************************************************************************)

(* The task of an endpoint moves on: it had one before and has one after. *)
TaskMoves(s, p) ==
    \E where \in {"top", "accepting", "delay", "done"} :
        /\ listener[s][p].task \in {"top", "accepting", "delay"}
        /\ Goto(s, p, where)

LEMMA TaskFacts ==
    ASSUME TypeOK, NEW s \in Servers, NEW p \in Ports, TaskMoves(s, p)
    PROVE  /\ listener' \in [Servers -> [Ports -> Listener]]
           /\ listener'[s][p].socket = listener[s][p].socket
           /\ listener[s][p].task \notin {"none", "done"}
           /\ listener'[s][p].task # "none"
           /\ \A q \in Servers, r \in Ports :
                <<q, r>> # <<s, p>> => listener'[q][r] = listener[q][r]
<1>1. PICK where \in {"top", "accepting", "delay", "done"} :
        /\ listener[s][p].task \in {"top", "accepting", "delay"}
        /\ listener' = [listener EXCEPT ![s][p].task = where]
  BY DEF TaskMoves, Goto
<1>2. listener \in [Servers -> [Ports -> Listener]]
  BY DEF TypeOK
<1>3. listener[s][p] \in Listener
  BY <1>2
<1>4. [listener[s][p] EXCEPT !.task = where] \in Listener
  BY <1>3 DEF Listener
<1>5. listener' = [listener EXCEPT ![s] = [listener[s] EXCEPT ![p] =
                        [listener[s][p] EXCEPT !.task = where]]]
  BY <1>1, <1>2
<1>6. listener' \in [Servers -> [Ports -> Listener]]
  BY <1>2, <1>4, <1>5
<1>7. listener'[s][p] = [listener[s][p] EXCEPT !.task = where]
  BY <1>2, <1>5
<1>8. listener'[s][p].socket = listener[s][p].socket /\ listener'[s][p].task = where
  BY <1>3, <1>7 DEF Listener
<1>9. ASSUME NEW q \in Servers, NEW r \in Ports, <<q, r>> # <<s, p>>
      PROVE  listener'[q][r] = listener[q][r]
  BY <1>2, <1>5, <1>9
<1> QED
  BY <1>1, <1>6, <1>8, <1>9

LEMMA TaskKeeps ==
    ASSUME IInv, UNCHANGED servers, NEW s \in Servers, NEW p \in Ports, TaskMoves(s, p)
    PROVE  Calling' /\ Bound' /\ Quieted'
<1>1. UNCHANGED <<setup, host, instance, built, running, taken>>
  BY DEF servers
<1>2. /\ listener'[s][p].socket = listener[s][p].socket
      /\ listener[s][p].task \notin {"none", "done"}
      /\ listener'[s][p].task # "none"
      /\ \A q \in Servers, r \in Ports :
           <<q, r>> # <<s, p>> => listener'[q][r] = listener[q][r]
  BY TaskFacts DEF IInv
<1>3. Calling'
  BY <1>1 DEF IInv, Calling, Disposing
<1>4. Bound'
  <2> SUFFICES ASSUME NEW q \in Servers, NEW r \in Ports
               PROVE  /\ Listening(q, r)' => listener'[q][r].task # "none"
                      /\ q > built \/ r > setup.endPoints => listener'[q][r] = Unbound
    BY <1>1 DEF Bound
  <2>1. /\ Listening(q, r) => listener[q][r].task # "none"
        /\ q > built \/ r > setup.endPoints => listener[q][r] = Unbound
    BY DEF IInv, Bound
  <2>2. CASE <<q, r>> = <<s, p>>
    <3>1. listener[s][p] # Unbound
      BY <1>2 DEF Unbound
    <3> QED
      BY <1>2, <2>1, <2>2, <3>1 DEF Listening
  <2>3. CASE <<q, r>> # <<s, p>>
    BY <1>2, <2>1, <2>3 DEF Listening
  <2> QED
    BY <2>2, <2>3
<1>5. ASSUME NEW q \in Servers, NEW r \in Ports PROVE Quiet(q, r) => Quiet(q, r)'
  <2>1. CASE <<q, r>> = <<s, p>>
    BY <1>2, <2>1 DEF Quiet
  <2>2. CASE <<q, r>> # <<s, p>>
    BY <1>2, <2>2 DEF Quiet, Listening
  <2> QED
    BY <2>1, <2>2
<1>6. ASSUME NEW q \in Servers, NEW r \in Ports PROVE Listening(q, r)' = Listening(q, r)
  <2>1. CASE <<q, r>> = <<s, p>>
    BY <1>2, <2>1 DEF Listening
  <2>2. CASE <<q, r>> # <<s, p>>
    BY <1>2, <2>2 DEF Listening
  <2> QED
    BY <2>1, <2>2
<1>7. Quieted'
  <2>1. \A q \in Servers : q <= built' /\ q # instance' =>
            ~running'[q] /\ \A r \in Ports : Quiet(q, r)'
    BY <1>1, <1>5 DEF IInv, Quieted
  <2>2. Disposing => instance \in Servers
    BY HostFacts, EndPointAssumption DEF IInv, Calling, TypeOK, Servers
  <2>3. Disposing' = Disposing /\ host' = host /\ instance' = instance
    BY <1>1 DEF Disposing
  <2>4. Disposing => \A r \in Ports : r < host.next => (Quiet(instance, r))'
    <3> SUFFICES ASSUME Disposing, NEW r \in Ports, r < host.next PROVE (Quiet(instance, r))'
      OBVIOUS
    <3>1. Quiet(instance, r)
      BY DEF IInv, Quieted
    <3> QED
      BY <1>1, <1>5, <2>2, <3>1 DEF Quiet, Listening
  <2>5. host.at = "join" => ~(Listening(instance, host.next))'
    <3> SUFFICES ASSUME host.at = "join" PROVE ~(Listening(instance, host.next))'
      OBVIOUS
    <3>1. host.next \in Ports /\ instance \in Servers
      BY <2>2, HostFacts, SetupFacts DEF IInv, Calling, Disposing, Ports
    <3>2. ~Listening(instance, host.next)
      BY DEF IInv, Quieted
    <3> QED
      BY <1>1, <1>6, <3>1, <3>2 DEF Listening
  <2> QED
    BY <1>1, <2>1, <2>3, <2>4, <2>5 DEF Quieted, Quiet, Listening
<1> QED
  BY <1>3, <1>4, <1>7

(* A step of the connections alone leaves the servers as they are. *)
LEMMA ServersKeep ==
    ASSUME IInv, UNCHANGED <<servers, listener>>
    PROVE  Calling' /\ Bound' /\ Quieted'
<1>1. UNCHANGED <<setup, host, instance, built, running, taken, listener>>
  BY DEF servers
<1>2. Calling' /\ Bound'
  BY <1>1 DEF IInv, Calling, Bound, Disposing, Listening
<1>3. Quieted'
  BY <1>1 DEF IInv, Quieted, Disposing, Quiet, Listening
<1> QED
  BY <1>2, <1>3

(***************************************************************************)
(* The steps of the host                                                   *)
(***************************************************************************)

(* A call that begins, or goes on behind the dispose *)
LEMMA CallSteps ==
    ASSUME IInv, NEW call \in Calls, Call(call)
    PROVE  TypeOK' /\ Calling' /\ Bound' /\ Quieted'
<1>1. /\ host.at = "idle"
      /\ call # "stop" => built < setup.servers
      /\ host' = IF instance # 0 THEN [call |-> call, at |-> "dispose", next |-> 1]
                 ELSE IF call = "stop" THEN Idle ELSE [call |-> call, at |-> "create", next |-> 0]
      /\ UNCHANGED <<setup, instance, built, running, listener, taken, conn, context>>
  BY DEF Call, StartAsync, StopAsync, Stopped
<1>2. TypeOK'
  BY <1>1, EndPointAssumption DEF IInv, TypeOK, Calls, Idle
<1>3. \/ host'.at = "dispose" /\ host'.next = 1 /\ host'.call = call /\ instance # 0
      \/ host'.at = "idle"
      \/ host'.at = "create" /\ instance = 0 /\ call # "stop"
  BY <1>1 DEF Idle
<1>4. Calling'
  BY <1>1, <1>3 DEF IInv, Calling, Disposing
<1>5. Bound'
  BY <1>1 DEF IInv, Bound, Listening
<1>6. Quieted'
  BY <1>1, <1>3 DEF IInv, Quieted, Disposing, Quiet, Listening, Ports
<1> QED
  BY <1>2, <1>4, <1>5, <1>6

LEMMA ExitSteps ==
    ASSUME IInv, ProcessExit
    PROVE  TypeOK' /\ Calling' /\ Bound' /\ Quieted'
<1>1. /\ host' = IF instance # 0 THEN [call |-> "stop", at |-> "dispose", next |-> 1] ELSE Idle
      /\ UNCHANGED <<setup, instance, built, running, listener, taken, conn, context>>
  BY DEF ProcessExit, StopAsync, Stopped
<1>2. TypeOK'
  BY <1>1, EndPointAssumption DEF IInv, TypeOK, Calls, Idle
<1>3. \/ host'.at = "dispose" /\ host'.next = 1 /\ host'.call = "stop" /\ instance # 0
      \/ host'.at = "idle"
  BY <1>1 DEF Idle
<1>4. Calling'
  BY <1>1, <1>3 DEF IInv, Calling, Disposing
<1>5. Bound'
  BY <1>1 DEF IInv, Bound, Listening
<1>6. Quieted'
  BY <1>1, <1>3 DEF IInv, Quieted, Disposing, Quiet, Listening, Ports
<1> QED
  BY <1>2, <1>4, <1>5, <1>6

(* Nothing of the server that is built has been started before. *)
LEMMA CreateSteps ==
    ASSUME IInv, CreateInstance
    PROVE  TypeOK' /\ Calling' /\ Bound' /\ Quieted'
<1>1. host.at = "create" /\ instance = 0 /\ built < setup.servers
  BY DEF CreateInstance, IInv, Calling
<1>2. /\ built \in Nat /\ built + 1 \in 0..MaxServers /\ built + 1 # 0
      /\ host.call \in Calls
  BY <1>1, SetupFacts, HostFacts DEF IInv
<1>3. /\ \/ host'.at = "idle" /\ UNCHANGED <<instance, built>>
         \/ host'.at = "prepare" /\ instance' = built + 1 /\ built' = built + 1
      /\ UNCHANGED <<setup, running, listener, taken, conn, context>>
  <2>1. UNCHANGED <<setup, running, listener, taken, conn, context>>
    BY DEF CreateInstance
  <2>2. CASE host' = Idle /\ UNCHANGED <<setup, instance, built>>
    BY <2>1, <2>2 DEF Idle
  <2>3. CASE instance' = built + 1 /\ built' = built + 1 /\ host' = At("prepare", 0)
    <3>1. host'.at = "prepare"
      BY <2>3, HostFacts DEF IInv, At
    <3> QED
      BY <2>1, <2>3, <3>1 DEF CreateInstance
  <2> QED
    BY <2>2, <2>3 DEF CreateInstance
<1>4. TypeOK'
  <2>1. host' = Idle \/ host' = [call |-> host.call, at |-> "prepare", next |-> 0]
    BY HostFacts DEF CreateInstance, At, IInv
  <2>2. host' \in [call : Calls, next : 0..EndPoints + 1,
                   at : {"idle", "dispose", "join", "create", "prepare", "bind", "wait"}]
    BY <1>2, <2>1, EndPointAssumption DEF Idle, Calls
  <2> QED
    BY <1>2, <1>3, <2>2 DEF IInv, TypeOK
<1>5. Calling'
  BY <1>1, <1>2, <1>3 DEF IInv, Calling, Disposing
<1>6. Bound'
  <2>1. \A s \in Servers : s > built' => s > built
    BY <1>2, <1>3 DEF Servers
  <2> QED
    BY <1>3, <2>1 DEF IInv, Bound, Listening
<1>7. Quieted'
  <2>1. \A s \in Servers : s <= built' /\ s # instance' => s <= built /\ s # instance
    BY <1>1, <1>2, <1>3 DEF Servers
  <2> QED
    BY <1>3, <2>1 DEF IInv, Quieted, Disposing, Quiet, Listening
<1> QED
  BY <1>4, <1>5, <1>6, <1>7

LEMMA QuietHostSteps ==
    ASSUME IInv, PrepareHandler \/ Started
    PROVE  TypeOK' /\ Calling' /\ Bound' /\ Quieted'
<1>1. /\ \/ host.at = "prepare" /\ host' = At("bind", 1)
         \/ host.at = "bind" /\ (host' = At("wait", 0) \/ host' = Idle)
      /\ UNCHANGED <<setup, instance, built, running, listener, taken, conn, context>>
  BY DEF PrepareHandler, Started
<1>2. \/ host.at = "prepare" /\ host' = [call |-> host.call, at |-> "bind", next |-> 1]
      \/ host' = [call |-> host.call, at |-> "wait", next |-> 0]
      \/ host' = Idle
  BY <1>1, HostFacts DEF IInv, At
<1>3. TypeOK'
  BY <1>1, <1>2, HostFacts, EndPointAssumption DEF IInv, TypeOK, Calls, Idle
<1>4. \/ host.at = "prepare" /\ host'.at = "bind" /\ host'.next = 1
      \/ host'.at \in {"wait", "idle"}
  BY <1>2 DEF Idle
<1>5. Calling' /\ Bound'
  BY <1>1, <1>4 DEF IInv, Calling, Disposing, Bound, Listening
<1>6. Quieted'
  BY <1>1, <1>4 DEF IInv, Quieted, Disposing, Quiet, Listening
<1> QED
  BY <1>3, <1>5, <1>6

(* What the host does to the endpoint it is at *)
LEMMA EndPointFacts ==
    ASSUME NEW L \in [Servers -> [Ports -> Listener]], NEW M,
           NEW s \in Servers, NEW p \in Ports, NEW to \in Listener,
           M = [L EXCEPT ![s][p] = to]
    PROVE  /\ M \in [Servers -> [Ports -> Listener]]
           /\ M[s][p] = to
           /\ \A q \in Servers, r \in Ports : <<q, r>> # <<s, p>> => M[q][r] = L[q][r]
<1>1. M = [L EXCEPT ![s] = [L[s] EXCEPT ![p] = to]]
  OBVIOUS
<1>2. M \in [Servers -> [Ports -> Listener]] /\ M[s][p] = to
  BY <1>1
<1>3. ASSUME NEW q \in Servers, NEW r \in Ports, <<q, r>> # <<s, p>>
      PROVE  M[q][r] = L[q][r]
  BY <1>1, <1>3
<1> QED
  BY <1>2, <1>3

LEMMA BindSteps ==
    ASSUME IInv, StartEndPoint
    PROVE  TypeOK' /\ Calling' /\ Bound' /\ Quieted'
<1>1. /\ host.at = "bind" /\ host.next <= setup.endPoints
      /\ UNCHANGED <<setup, instance, built, running, taken, conn, context>>
  BY DEF StartEndPoint
<1>2. /\ instance \in Servers /\ host.next \in Ports /\ instance <= built
      /\ host.next \in Nat /\ instance \in Nat /\ host.next + 1 \in 0..EndPoints + 1
  BY <1>1, HostFacts, SetupFacts DEF IInv, Calling, TypeOK, Servers, Ports
<1> PICK s \in Servers, p \in Ports : s = instance /\ p = host.next
  BY <1>2
<1>3. listener[s][p] \in Listener
  BY <1>2 DEF IInv, TypeOK
<1>4. PICK to \in Listener :
        /\ listener' = [listener EXCEPT ![s][p] = to]
        /\ \/ host' = Idle /\ to.socket = "failed"
           \/ host' = At("bind", p + 1) /\ to.socket = "listening" /\ to.task = "top"
  <2>1. CASE PortInUse(p)
    <3> DEFINE to == [listener[s][p] EXCEPT !.socket = "failed"]
    <3>1. to \in Listener /\ to.socket = "failed"
      BY <1>3 DEF Listener
    <3>2. listener' = [listener EXCEPT ![s][p] = to] /\ host' = Idle
      BY <2>1 DEF StartEndPoint
    <3> HIDE DEF to
    <3> QED
      BY <3>1, <3>2
  <2>2. CASE ~PortInUse(p)
    <3> DEFINE to == [listener[s][p] EXCEPT !.socket = "listening", !.task = "top"]
    <3>1. to \in Listener /\ to.socket = "listening" /\ to.task = "top"
      BY <1>3 DEF Listener
    <3>2. listener' = [listener EXCEPT ![s][p] = to] /\ host' = At("bind", p + 1)
      BY <2>2 DEF StartEndPoint
    <3> HIDE DEF to
    <3> QED
      BY <3>1, <3>2
  <2> QED
    BY <2>1, <2>2
<1>5. /\ listener' \in [Servers -> [Ports -> Listener]]
      /\ listener'[s][p] = to
      /\ \A q \in Servers, r \in Ports :
           <<q, r>> # <<s, p>> => listener'[q][r] = listener[q][r]
  <2>1. listener \in [Servers -> [Ports -> Listener]]
    BY DEF IInv, TypeOK
  <2> QED
    BY <1>4, <2>1, EndPointFacts
<1>6. host' = Idle \/ host' = [call |-> host.call, at |-> "bind", next |-> p + 1]
  BY <1>4, HostFacts DEF IInv, At
<1>7. host'.at = "idle" \/ (host'.at = "bind" /\ host'.next = p + 1)
  BY <1>6 DEF Idle
<1>8. TypeOK'
  <2>1. host' \in [call : Calls, next : 0..EndPoints + 1,
                   at : {"idle", "dispose", "join", "create", "prepare", "bind", "wait"}]
    BY <1>2, <1>6, HostFacts, EndPointAssumption DEF IInv, Idle, Calls
  <2> QED
    BY <1>1, <1>5, <2>1 DEF IInv, TypeOK
<1>9. Calling'
  BY <1>1, <1>2, <1>7 DEF IInv, Calling, Disposing
<1>10. Bound'
  <2> SUFFICES ASSUME NEW q \in Servers, NEW r \in Ports
               PROVE  /\ Listening(q, r)' => listener'[q][r].task # "none"
                      /\ q > built \/ r > setup.endPoints => listener'[q][r] = Unbound
    BY <1>1 DEF Bound
  <2>1. /\ Listening(q, r) => listener[q][r].task # "none"
        /\ q > built \/ r > setup.endPoints => listener[q][r] = Unbound
    BY DEF IInv, Bound
  <2>2. CASE <<q, r>> = <<s, p>>
    <3>1. q = s /\ r = p
      BY <2>2
    <3>2. ~(q > built \/ r > setup.endPoints)
      BY <1>1, <1>2, <3>1, HostFacts, SetupFacts DEF IInv
    <3>3. Listening(q, r)' => listener'[q][r].task # "none"
      BY <1>4, <1>5, <3>1 DEF Listening
    <3> QED
      BY <3>2, <3>3
  <2>3. CASE <<q, r>> # <<s, p>>
    BY <1>5, <2>1, <2>3 DEF Listening
  <2> QED
    BY <2>2, <2>3
<1>11. Quieted'
  <2>1. ASSUME NEW q \in Servers, q <= built', q # instance'
        PROVE  ~running'[q] /\ \A r \in Ports : Quiet(q, r)'
    <3>1. \A r \in Ports : listener'[q][r] = listener[q][r]
      BY <1>1, <1>5, <2>1
    <3> QED
      BY <1>1, <2>1, <3>1 DEF IInv, Quieted, Quiet, Listening
  <2> QED
    BY <1>7, <2>1 DEF Quieted, Disposing
<1> QED
  BY <1>8, <1>9, <1>10, <1>11

LEMMA DroppedType ==
    ASSUME TypeOK, NEW s, NEW p PROVE Dropped(s, p) \in [Clients -> Connection]
<1>1. \A c \in Clients : [conn[c] EXCEPT !.at = "closed"] \in Connection
  BY ZenonT(60) DEF TypeOK, Connection
<1> QED
  BY <1>1 DEF Dropped, TypeOK

(* The dispose of an endpoint: its socket is closed, and its task is waited for. *)
LEMMA DisposeSteps ==
    ASSUME IInv, DisposeEndPoint
    PROVE  TypeOK' /\ Calling' /\ Bound' /\ Quieted'
<1>1. /\ host.at = "dispose" /\ host.next <= setup.endPoints
      /\ host' = At("join", host.next) /\ conn' = Dropped(instance, host.next)
      /\ UNCHANGED <<setup, instance, built, running, taken, context>>
  BY DEF DisposeEndPoint
<1>2. /\ instance \in Servers /\ host.next \in Ports /\ instance <= built
      /\ host.next \in Nat /\ instance \in Nat /\ host.next \in 0..EndPoints + 1
  BY <1>1, HostFacts, SetupFacts DEF IInv, Calling, Disposing, TypeOK, Servers, Ports
<1> PICK s \in Servers, p \in Ports : s = instance /\ p = host.next
  BY <1>2
<1> DEFINE to == [listener[s][p] EXCEPT !.shutting = TRUE,
                    !.socket = IF listener[s][p].task = "none" THEN @ ELSE "closed"]
<1>3. listener[s][p] \in Listener
  BY <1>2 DEF IInv, TypeOK
<1>4. /\ to \in Listener /\ to.task = listener[s][p].task
      /\ to.socket = "listening" => listener[s][p].task = "none" /\ Listening(s, p)
  BY <1>3 DEF Listener, Listening
<1>5. listener' = [listener EXCEPT ![s][p] = to]
  <2>1. listener' = [listener EXCEPT ![s][p].shutting = TRUE,
                        ![s][p].socket = IF listener[s][p].task = "none" THEN @ ELSE "closed"]
    BY DEF DisposeEndPoint, Shut
  <2>2. listener \in [Servers -> [Ports -> Listener]]
    BY DEF IInv, TypeOK
  <2> QED
    BY <1>2, <2>1, <2>2
<1> HIDE DEF to
<1>6. to.socket # "listening"
  BY <1>2, <1>4 DEF IInv, Bound
<1>7. /\ listener' \in [Servers -> [Ports -> Listener]]
      /\ listener'[s][p] = to
      /\ \A q \in Servers, r \in Ports :
           <<q, r>> # <<s, p>> => listener'[q][r] = listener[q][r]
  <2>1. listener \in [Servers -> [Ports -> Listener]]
    BY DEF IInv, TypeOK
  <2> QED
    BY <1>4, <1>5, <2>1, EndPointFacts
<1>8. host' = [call |-> host.call, at |-> "join", next |-> p]
  BY <1>1, HostFacts DEF IInv, At
<1>9. TypeOK'
  <2>1. host' \in [call : Calls, next : 0..EndPoints + 1,
                   at : {"idle", "dispose", "join", "create", "prepare", "bind", "wait"}]
    BY <1>2, <1>8, HostFacts DEF IInv
  <2>2. conn' \in [Clients -> Connection]
    BY <1>1, DroppedType DEF IInv
  <2> QED
    BY <1>1, <1>7, <2>1, <2>2 DEF IInv, TypeOK
<1>10. Calling'
  BY <1>1, <1>2, <1>8 DEF IInv, Calling, Disposing
<1>11. Bound'
  <2> SUFFICES ASSUME NEW q \in Servers, NEW r \in Ports
               PROVE  /\ Listening(q, r)' => listener'[q][r].task # "none"
                      /\ q > built \/ r > setup.endPoints => listener'[q][r] = Unbound
    BY <1>1 DEF Bound
  <2>1. /\ Listening(q, r) => listener[q][r].task # "none"
        /\ q > built \/ r > setup.endPoints => listener[q][r] = Unbound
    BY DEF IInv, Bound
  <2>2. CASE <<q, r>> = <<s, p>>
    <3>1. q = s /\ r = p
      BY <2>2
    <3>2. ~(q > built \/ r > setup.endPoints)
      BY <1>1, <1>2, <3>1, HostFacts, SetupFacts DEF IInv
    <3> QED
      BY <1>6, <1>7, <3>1, <3>2 DEF Listening
  <2>3. CASE <<q, r>> # <<s, p>>
    BY <1>7, <2>1, <2>3 DEF Listening
  <2> QED
    BY <2>2, <2>3
<1>12. ASSUME NEW q \in Servers, NEW r \in Ports, Quiet(q, r) PROVE Quiet(q, r)'
  <2>1. CASE <<q, r>> = <<s, p>>
    BY <1>4, <1>6, <1>7, <1>12, <2>1 DEF Quiet, Listening
  <2>2. CASE <<q, r>> # <<s, p>>
    BY <1>7, <1>12, <2>2 DEF Quiet, Listening
  <2> QED
    BY <2>1, <2>2
<1>13. Quieted'
  <2>1. \A q \in Servers : q <= built' /\ q # instance' =>
            ~running'[q] /\ \A r \in Ports : Quiet(q, r)'
    BY <1>1, <1>12 DEF IInv, Quieted
  <2>2. \A r \in Ports : r < host'.next => (Quiet(instance, r))'
    <3> SUFFICES ASSUME NEW r \in Ports, r < p PROVE (Quiet(instance, r))'
      BY <1>8
    <3>1. Quiet(s, r)
      BY <1>1 DEF IInv, Quieted, Disposing
    <3> QED
      BY <1>1, <1>2, <1>12, <3>1 DEF Quiet, Listening
  <2>3. ~(Listening(instance, host.next))'
    BY <1>1, <1>6, <1>7, <1>8 DEF Listening
  <2> QED
    BY <1>8, <2>1, <2>2, <2>3 DEF Quieted, Quiet, Listening
<1> QED
  BY <1>9, <1>10, <1>11, <1>13

LEMMA JoinSteps ==
    ASSUME IInv, JoinTask
    PROVE  TypeOK' /\ Calling' /\ Bound' /\ Quieted'
<1> DEFINE p == host.next
<1>1. /\ host.at = "join" /\ listener[instance][p].task \in {"none", "done"}
      /\ host' = At("dispose", p + 1)
      /\ UNCHANGED <<setup, instance, built, running, listener, taken, conn, context>>
  BY DEF JoinTask, Joined
<1>2. p \in Nat /\ p >= 1 /\ p <= setup.endPoints /\ p + 1 \in 0..EndPoints + 1
  BY <1>1, HostFacts, SetupFacts DEF IInv, Calling, Disposing
<1>3. host' = [call |-> host.call, at |-> "dispose", next |-> p + 1]
  BY <1>1, HostFacts DEF IInv, At
<1>4. TypeOK'
  <2>1. host' \in [call : Calls, next : 0..EndPoints + 1,
                   at : {"idle", "dispose", "join", "create", "prepare", "bind", "wait"}]
    BY <1>2, <1>3, HostFacts DEF IInv
  <2> QED
    BY <1>1, <2>1 DEF IInv, TypeOK
<1>5. Calling'
  BY <1>1, <1>2, <1>3 DEF IInv, Calling, Disposing
<1>6. Bound'
  BY <1>1 DEF IInv, Bound, Listening
<1>7. Quieted'
  <2>1. Quiet(instance, p)
    BY <1>1 DEF IInv, Quieted, Quiet
  <2>2. \A r \in Ports : r < p => Quiet(instance, r)
    BY <1>1 DEF IInv, Quieted, Disposing
  <2>3. \A r \in Ports : r < p + 1 => Quiet(instance, r)
    <3>1. \A r \in Ports : r < p + 1 => r < p \/ r = p
      BY <1>2, EndPointAssumption DEF Ports
    <3> QED
      BY <2>1, <2>2, <3>1
  <2> QED
    BY <1>1, <1>3, <2>3 DEF IInv, Quieted, Disposing, Quiet, Listening
<1> QED
  BY <1>4, <1>5, <1>6, <1>7

(* The server whose last endpoint was disposed becomes one of the stopped. *)
LEMMA DisposedSteps ==
    ASSUME IInv, Disposed
    PROVE  TypeOK' /\ Calling' /\ Bound' /\ Quieted'
<1>1. /\ host.at = "dispose" /\ host.next > setup.endPoints
      /\ running' = [running EXCEPT ![instance] = FALSE] /\ instance' = 0
      /\ host' = IF host.call = "stop" THEN Idle ELSE [call |-> host.call, at |-> "create", next |-> 0]
      /\ UNCHANGED <<setup, built, listener, taken, conn, context>>
  BY DEF Disposed, Stopped
<1>2. instance \in Servers /\ instance # 0
  BY <1>1, HostFacts DEF IInv, Calling, Disposing, TypeOK, Servers
<1>3. TypeOK'
  <2>1. host' \in [call : Calls, next : 0..EndPoints + 1,
                   at : {"idle", "dispose", "join", "create", "prepare", "bind", "wait"}]
    BY <1>1, HostFacts, EndPointAssumption DEF IInv, Idle, Calls
  <2>2. running' \in [Servers -> BOOLEAN]
    BY <1>1 DEF IInv, TypeOK
  <2>3. instance' \in 0..MaxServers
    BY <1>1, EndPointAssumption
  <2> QED
    BY <1>1, <2>1, <2>2, <2>3 DEF IInv, TypeOK
<1>4. host'.at = "idle" \/ (host'.at = "create" /\ host.call # "stop")
  BY <1>1 DEF Idle
<1>5. Calling'
  BY <1>1, <1>4, HostFacts DEF IInv, Calling, Disposing
<1>6. Bound'
  BY <1>1 DEF IInv, Bound, Listening
<1>7. \A p \in Ports : Quiet(instance, p)
  <2> SUFFICES ASSUME NEW p \in Ports PROVE Quiet(instance, p)
    OBVIOUS
  <2>1. CASE p < host.next
    BY <1>1, <2>1 DEF IInv, Quieted, Disposing
  <2>2. CASE ~(p < host.next)
    <3>1. p > setup.endPoints
      BY <1>1, <2>2, HostFacts, SetupFacts DEF IInv, Ports
    <3>2. listener[instance][p] = Unbound
      BY <1>2, <3>1 DEF IInv, Bound
    <3> QED
      BY <3>2 DEF Quiet, Listening, Unbound
  <2> QED
    BY <2>1, <2>2
<1>8. Quieted'
  <2>1. ASSUME NEW s \in Servers, s <= built
        PROVE  ~running'[s] /\ \A p \in Ports : Quiet(s, p)
    <3>1. CASE s = instance
      BY <1>1, <1>2, <1>7, <3>1 DEF IInv, TypeOK
    <3>2. CASE s # instance
      BY <1>1, <1>2, <2>1, <3>2 DEF IInv, Quieted, TypeOK
    <3> QED
      BY <3>1, <3>2
  <2> QED
    BY <1>1, <1>4, <2>1 DEF Quieted, Disposing, Quiet, Listening
<1> QED
  BY <1>3, <1>5, <1>6, <1>8

(***************************************************************************)
(* The connections and their contexts                                      *)
(***************************************************************************)
Busy == Working \cup {"ending"}

LEMMA TypesOf ==
    ASSUME TypeOK, UNCHANGED servers,
           listener' \in [Servers -> [Ports -> Listener]],
           conn' \in [Clients -> Connection], context' \in [Contexts -> Context]
    PROVE  TypeOK'
<1> QED
  BY DEF TypeOK, servers

(* A connection without a context may become or be anything that has none. *)
LEMMA IdleKeeps ==
    ASSUME Owned, context' = context,
           \A c \in Clients : conn'[c] = conn[c] \/ conn'[c].at \notin Busy
    PROVE  Owned'
<1> SUFFICES ASSUME NEW c \in Clients PROVE Owning(c)'
  BY DEF Owned
<1>1. Owning(c)
  BY DEF Owned
<1> QED
  BY <1>1 DEF Owning, Busy

(* One connection takes a step, and keeps the context it has. *)
LEMMA ConnectionKeeps ==
    ASSUME IInv, UNCHANGED <<servers, listener, context>>, NEW c \in Clients,
           NEW k \in Connection, k.context = conn[c].context,
           conn' = [conn EXCEPT ![c] = k], conn[c].at \in Working \/ k.at \notin Busy
    PROVE  TypeOK' /\ Owned'
<1>1. conn \in [Clients -> Connection]
  BY DEF IInv, TypeOK
<1>2. /\ conn' \in [Clients -> Connection] /\ conn'[c] = k
      /\ \A d \in Clients : d # c => conn'[d] = conn[d]
  BY <1>1
<1>3. TypeOK'
  <2>1. context' \in [Contexts -> Context] /\ listener' \in [Servers -> [Ports -> Listener]]
    BY DEF IInv, TypeOK
  <2> QED
    BY <1>2, <2>1, TypesOf DEF IInv
<1>4. Owned'
  <2> SUFFICES ASSUME NEW d \in Clients PROVE Owning(d)'
    BY DEF Owned
  <2>1. Owning(d)
    BY DEF IInv, Owned
  <2>2. CASE d = c
    BY <1>2, <2>1, <2>2 DEF Owning, Busy
  <2>3. CASE d # c
    BY <1>2, <2>1, <2>3 DEF Owning
  <2> QED
    BY <2>2, <2>3
<1> QED
  BY <1>3, <1>4

Whereabouts == {"accepted", "handshake", "closed"} \cup Busy

LEMMA MoveKeeps ==
    ASSUME IInv, UNCHANGED <<servers, listener, context>>, NEW c \in Clients,
           NEW where \in Whereabouts, Move(c, where), conn[c].at \in Working \/ where \notin Busy
    PROVE  TypeOK' /\ Owned'
<1> DEFINE k == [conn[c] EXCEPT !.at = where]
<1>1. conn \in [Clients -> Connection] /\ conn[c] \in Connection
  BY DEF IInv, TypeOK
<1>2. k \in Connection /\ k.at = where /\ k.context = conn[c].context
  BY <1>1 DEF Connection, Untimed, Whereabouts, Busy, Working
<1>3. conn' = [conn EXCEPT ![c] = k]
  BY <1>1 DEF Move
<1> HIDE DEF k
<1> QED
  BY <1>2, <1>3, ConnectionKeeps

(* Nobody else has the context: it has no owner, and everybody who uses one *)
(* is the owner of it.                                                      *)
LEMMA HandleSteps ==
    ASSUME IInv, NEW c \in Clients, NEW x \in Contexts, Handle(c, x)
    PROVE  TypeOK' /\ Owned'
<1>1. /\ context[x].owner = "none"
      /\ context' = [context EXCEPT ![x] = ResetCts(Apply(context[x], c), c)]
      /\ conn' = [conn EXCEPT ![c] = [conn[c] EXCEPT !.at = "top", !.context = x]]
      /\ UNCHANGED <<servers, listener>>
  BY DEF Handle, IInv, TypeOK
<1>2. context \in [Contexts -> Context] /\ conn \in [Clients -> Connection]
  BY DEF IInv, TypeOK
<1> DEFINE y == ResetCts(Apply(context[x], c), c)
<1> DEFINE k == [conn[c] EXCEPT !.at = "top", !.context = x]
<1>3. y \in Context /\ y.owner = c /\ y.by = c
  <2>1. context[x] \in Context
    BY <1>2
  <2> QED
    BY <2>1 DEF ResetCts, Apply, Context
<1>4. k \in Connection /\ k.at = "top" /\ k.context = x
  <2>1. conn[c] \in Connection
    BY <1>2
  <2> QED
    BY <2>1 DEF Connection
<1> HIDE DEF y, k
<1>5. /\ context' \in [Contexts -> Context] /\ context'[x] = y
      /\ \A z \in Contexts : z # x => context'[z] = context[z]
  <2>1. context' = [context EXCEPT ![x] = y]
    BY <1>1 DEF y
  <2> QED
    BY <1>2, <1>3, <2>1
<1>6. /\ conn' \in [Clients -> Connection] /\ conn'[c] = k
      /\ \A d \in Clients : d # c => conn'[d] = conn[d]
  <2>1. conn' = [conn EXCEPT ![c] = k]
    BY <1>1 DEF k
  <2> QED
    BY <1>2, <1>4, <2>1
<1>7. TypeOK'
  <2>1. listener' \in [Servers -> [Ports -> Listener]]
    BY <1>1 DEF IInv, TypeOK
  <2> QED
    BY <1>1, <1>5, <1>6, <2>1, TypesOf DEF IInv
<1>8. Owned'
  <2> SUFFICES ASSUME NEW d \in Clients PROVE Owning(d)'
    BY DEF Owned
  <2>1. CASE d = c
    BY <1>3, <1>4, <1>5, <1>6, <2>1 DEF Owning, Working
  <2>2. CASE d # c
    <3>1. Owning(d)
      BY DEF IInv, Owned
    <3>2. d # "none"
      BY NoneAssumption
    <3> QED
      BY <1>1, <1>5, <1>6, <2>2, <3>1, <3>2 DEF Owning
  <2> QED
    BY <2>1, <2>2
<1> QED
  BY <1>7, <1>8

(* FinishRequest arms the timer of a connection that waits for its next request. *)
LEMMA RearmKeeps ==
    ASSUME IInv, NEW c \in Clients, conn[c].at = "skipping",
           UNCHANGED <<servers, listener>>, Move(c, "flushing"),
           context' = [context EXCEPT ![conn[c].context] = ResetCts(@, c)]
    PROVE  TypeOK' /\ Owned'
<1>1. context \in [Contexts -> Context] /\ conn \in [Clients -> Connection]
  BY DEF IInv, TypeOK
<1>2. conn[c].context \in Contexts /\ context[conn[c].context].owner = c /\ context[conn[c].context].by = c
  BY DEF IInv, Owned, Owning, Working
<1> PICK x \in Contexts : x = conn[c].context
  BY <1>2
<1> DEFINE k == [conn[c] EXCEPT !.at = "flushing"]
<1>3. k \in Connection /\ k.at = "flushing" /\ k.context = x
  <2>1. conn[c] \in Connection
    BY <1>1
  <2> QED
    BY <2>1 DEF Connection, Untimed
<1> HIDE DEF k
<1>4. /\ conn' \in [Clients -> Connection] /\ conn'[c] = k
      /\ \A d \in Clients : d # c => conn'[d] = conn[d]
  <2>1. conn' = [conn EXCEPT ![c] = k]
    BY <1>1 DEF k, Move
  <2> QED
    BY <1>1, <1>3, <2>1
<1>5. /\ context' \in [Contexts -> Context]
      /\ context'[x].owner = c /\ context'[x].by = c
      /\ \A z \in Contexts : z # x => context'[z] = context[z]
  <2>1. context' = [context EXCEPT ![x] = ResetCts(context[x], c)]
    BY <1>1
  <2>2. /\ ResetCts(context[x], c) \in Context
        /\ ResetCts(context[x], c).owner = c /\ ResetCts(context[x], c).by = c
    <3>1. context[x] \in Context
      BY <1>1
    <3> QED
      BY <1>2, <3>1 DEF ResetCts, Context
  <2> QED
    BY <1>1, <2>1, <2>2
<1>6. TypeOK'
  <2>1. listener' \in [Servers -> [Ports -> Listener]]
    BY DEF IInv, TypeOK
  <2> QED
    BY <1>4, <1>5, <2>1, TypesOf DEF IInv
<1>7. Owned'
  <2> SUFFICES ASSUME NEW d \in Clients PROVE Owning(d)'
    BY DEF Owned
  <2>1. CASE d = c
    BY <1>3, <1>4, <1>5, <2>1 DEF Owning
  <2>2. CASE d # c
    <3>1. Owning(d)
      BY DEF IInv, Owned
    <3> QED
      BY <1>2, <1>4, <1>5, <2>2, <3>1 DEF Owning
  <2> QED
    BY <2>1, <2>2
<1> QED
  BY <1>6, <1>7

(* The steps in which the server may have to wait for the client *)
LEMMA UntimedSteps ==
    ASSUME IInv, NEW c \in Clients,
           \/ HandleRequest(c) \/ FinishRequest(c) \/ FlushResponse(c) \/ FlushLast(c)
           \/ Await(c) \/ GoOn(c)
    PROVE  TypeOK' /\ Owned' /\ UNCHANGED <<servers, listener>>
<1>0. conn \in [Clients -> Connection] /\ conn[c] \in Connection
  BY DEF IInv, TypeOK
<1>1. CASE HandleRequest(c) \/ FlushResponse(c) \/ FlushLast(c)
  <2>1. PICK where \in {"top", "skipping", "closing", "ending"} : Move(c, where)
    BY <1>1 DEF HandleRequest, FlushResponse, FlushLast
  <2>2. conn[c].at \in Working /\ where \in Whereabouts /\ UNCHANGED <<servers, listener, context>>
    BY <1>1 DEF HandleRequest, FlushResponse, FlushLast, Working, Whereabouts, Busy
  <2> QED
    BY <2>1, <2>2, MoveKeeps
<1>2. CASE FinishRequest(c)
  <2>1. /\ conn[c].at = "skipping" /\ conn[c].at \in Working /\ UNCHANGED <<servers, listener>>
    BY <1>2 DEF FinishRequest, Working
  <2>2. CASE Move(c, "flushing") /\ context' = [context EXCEPT ![conn[c].context] = ResetCts(@, c)]
    BY <2>1, <2>2, RearmKeeps
  <2>3. ASSUME NEW where \in {"closing", "ending"}, Move(c, where), UNCHANGED context
        PROVE  TypeOK' /\ Owned'
    <3>1. where \in Whereabouts
      BY DEF Whereabouts, Busy, Working
    <3> QED
      BY <2>1, <2>3, <3>1, MoveKeeps
  <2>4. CASE /\ conn' = [conn EXCEPT ![c] = [@ EXCEPT !.at = "top", !.buffered = TRUE]]
             /\ UNCHANGED context
    <3> DEFINE k == [conn[c] EXCEPT !.at = "top", !.buffered = TRUE]
    <3>1. k \in Connection /\ k.context = conn[c].context
      BY <1>0 DEF Connection
    <3>2. conn' = [conn EXCEPT ![c] = k]
      BY <1>0, <2>4
    <3> HIDE DEF k
    <3> QED
      BY <2>1, <2>4, <3>1, <3>2, ConnectionKeeps
  <2> QED
    BY <1>2, <2>1, <2>2, <2>3, <2>4 DEF FinishRequest
<1>3. CASE Await(c) \/ GoOn(c)
  <2>1. PICK w \in BOOLEAN : conn' = [conn EXCEPT ![c].waits = w]
    BY <1>3 DEF Await, GoOn
  <2> DEFINE k == [conn[c] EXCEPT !.waits = w]
  <2>2. k \in Connection /\ k.context = conn[c].context /\ k.at = conn[c].at
    BY <1>0 DEF Connection
  <2>3. conn' = [conn EXCEPT ![c] = k]
    BY <1>0, <2>1
  <2> HIDE DEF k
  <2>4. UNCHANGED <<servers, listener, context>>
    BY <1>3 DEF Await, GoOn
  <2>5. CASE conn[c].at = "ending"
    <3>1. conn' \in [Clients -> Connection] /\ conn'[c] = k
          /\ \A d \in Clients : d # c => conn'[d] = conn[d]
      BY <1>0, <2>2, <2>3
    <3>2. TypeOK'
      <4>1. context' \in [Contexts -> Context] /\ listener' \in [Servers -> [Ports -> Listener]]
        BY <2>4 DEF IInv, TypeOK
      <4> QED
        BY <2>4, <3>1, <4>1, TypesOf DEF IInv
    <3>3. Owned'
      BY <2>2, <2>4, <3>1 DEF IInv, Owned, Owning
    <3> QED
      BY <2>4, <3>2, <3>3
  <2>6. CASE conn[c].at # "ending"
    BY <2>2, <2>3, <2>4, <2>6, ConnectionKeeps DEF Busy
  <2> QED
    BY <2>5, <2>6
<1> QED
  BY <1>1, <1>2, <1>3

LEMMA ReturnSteps ==
    ASSUME IInv, NEW c \in Clients, Return(c)
    PROVE  TypeOK' /\ Owned'
<1>1. /\ conn[c].at = "ending"
      /\ context' = [context EXCEPT ![conn[c].context].owner = "none"]
      /\ conn' = [conn EXCEPT ![c] = [@ EXCEPT !.at = "closed", !.context = "none"]]
      /\ UNCHANGED <<servers, listener>>
  BY DEF Return
<1>2. context \in [Contexts -> Context] /\ conn \in [Clients -> Connection]
  BY DEF IInv, TypeOK
<1>3. conn[c].context \in Contexts /\ context[conn[c].context].owner = c
  BY <1>1 DEF IInv, Owned, Owning
<1> PICK x \in Contexts : x = conn[c].context
  BY <1>3
<1> DEFINE y == [context[x] EXCEPT !.owner = "none"]
<1> DEFINE k == [conn[c] EXCEPT !.at = "closed", !.context = "none"]
<1>4. y \in Context
  BY <1>2 DEF Context
<1>5. k \in Connection /\ k.at = "closed"
  BY <1>2 DEF Connection
<1> HIDE DEF y, k
<1>6. /\ context' \in [Contexts -> Context]
      /\ \A z \in Contexts : z # x => context'[z] = context[z]
  <2>1. context' = [context EXCEPT ![x] = y]
    BY <1>1, <1>2 DEF y
  <2> QED
    BY <1>2, <1>4, <2>1
<1>7. /\ conn' \in [Clients -> Connection] /\ conn'[c] = k
      /\ \A d \in Clients : d # c => conn'[d] = conn[d]
  <2>1. conn' = [conn EXCEPT ![c] = k]
    BY <1>1, <1>2 DEF k
  <2> QED
    BY <1>2, <1>5, <2>1
<1>8. TypeOK'
  <2>1. listener' \in [Servers -> [Ports -> Listener]]
    BY <1>1 DEF IInv, TypeOK
  <2> QED
    BY <1>1, <1>6, <1>7, <2>1, TypesOf DEF IInv
<1>9. Owned'
  <2> SUFFICES ASSUME NEW d \in Clients PROVE Owning(d)'
    BY DEF Owned
  <2>1. CASE d = c
    BY <1>5, <1>7, <2>1 DEF Owning, Working
  <2>2. CASE d # c
    <3>1. Owning(d)
      BY DEF IInv, Owned
    <3> QED
      BY <1>3, <1>6, <1>7, <2>2, <3>1 DEF Owning
  <2> QED
    BY <2>1, <2>2
<1> QED
  BY <1>8, <1>9

(* A timer that fires changes neither the owner nor who has armed it. *)
LEMMA FireSteps ==
    ASSUME IInv, NEW x \in Contexts, Fire(x)
    PROVE  TypeOK' /\ Owned'
<1>1. /\ context' = [context EXCEPT ![x].timer = "fired"]
      /\ UNCHANGED <<servers, listener, conn>>
  BY DEF Fire
<1>2. context \in [Contexts -> Context]
  BY DEF IInv, TypeOK
<1>3. /\ context' \in [Contexts -> Context]
      /\ \A z \in Contexts : context'[z].owner = context[z].owner /\ context'[z].by = context[z].by
  BY <1>1, <1>2 DEF Context
<1>4. TypeOK'
  <2>1. listener' \in [Servers -> [Ports -> Listener]] /\ conn' \in [Clients -> Connection]
    BY <1>1 DEF IInv, TypeOK
  <2> QED
    BY <1>1, <1>3, <2>1, TypesOf DEF IInv
<1>5. Owned'
  BY <1>1, <1>3 DEF IInv, Owned, Owning
<1> QED
  BY <1>4, <1>5

LEMMA ConnectSteps ==
    ASSUME IInv, NEW c \in Clients, NEW s \in Servers, NEW p \in Ports, Connect(c, s, p)
    PROVE  TypeOK' /\ Owned'
<1> DEFINE k == [conn[c] EXCEPT !.at = "queued", !.server = s, !.port = p]
<1>1. /\ conn' = [conn EXCEPT ![c] = k]
      /\ UNCHANGED <<servers, listener, context>>
  BY DEF Connect, IInv, TypeOK
<1>2. conn \in [Clients -> Connection]
  BY DEF IInv, TypeOK
<1>3. k \in Connection /\ k.at = "queued"
  <2>1. s \in 0..MaxServers /\ p \in 0..EndPoints
    BY EndPointAssumption DEF Servers, Ports
  <2> QED
    BY <1>2, <2>1 DEF Connection
<1> HIDE DEF k
<1>4. /\ conn' \in [Clients -> Connection] /\ conn'[c] = k
      /\ \A d \in Clients : d # c => conn'[d] = conn[d]
  BY <1>1, <1>2, <1>3
<1>5. TypeOK'
  <2>1. listener' \in [Servers -> [Ports -> Listener]] /\ context' \in [Contexts -> Context]
    BY <1>1 DEF IInv, TypeOK
  <2> QED
    BY <1>1, <1>4, <2>1, TypesOf DEF IInv
<1>6. Owned'
  <2>1. \A d \in Clients : conn'[d] = conn[d] \/ conn'[d].at \notin Busy
    BY <1>3, <1>4 DEF Busy, Working
  <2> QED
    BY <1>1, <2>1, IdleKeeps DEF IInv
<1> QED
  BY <1>5, <1>6

(* The steps of an accept loop: the task moves, and a client may be accepted. *)
LEMMA AcceptSteps ==
    ASSUME IInv, NEW s \in Servers, NEW p \in Ports, AcceptLoop(s, p) \/ AcceptFails(s, p)
    PROVE  IInv'
<1>1. /\ TaskMoves(s, p) /\ UNCHANGED <<servers, context>>
      /\ \/ conn' = conn
         \/ \E c \in Clients : conn[c].at = "queued" /\ Move(c, "accepted")
  <2>1. CASE LoopTop(s, p) \/ AcceptFails(s, p) \/ AcceptAborted(s, p)
    BY <2>1 DEF LoopTop, AcceptFails, AcceptAborted, TaskMoves
  <2>2. CASE Delayed(s, p)
    BY <2>2 DEF Delayed, Retry, TaskMoves
  <2>3. CASE \E c \in Clients : AcceptClient(s, p, c)
    BY <2>3 DEF AcceptClient, TaskMoves, Move
  <2> QED
    BY <2>1, <2>2, <2>3 DEF AcceptLoop
<1>2. Calling' /\ Bound' /\ Quieted'
  BY <1>1, TaskKeeps
<1>3. listener' \in [Servers -> [Ports -> Listener]]
  BY <1>1, TaskFacts DEF IInv
<1>4. conn' \in [Clients -> Connection] /\ \A d \in Clients : conn'[d] = conn[d] \/ conn'[d].at \notin Busy
  <2>1. conn \in [Clients -> Connection]
    BY DEF IInv, TypeOK
  <2>2. ASSUME NEW c \in Clients, Move(c, "accepted")
        PROVE  /\ conn' \in [Clients -> Connection]
               /\ \A d \in Clients : conn'[d] = conn[d] \/ conn'[d].at \notin Busy
    <3> DEFINE k == [conn[c] EXCEPT !.at = "accepted"]
    <3>1. k \in Connection /\ k.at = "accepted"
      BY <2>1 DEF Connection
    <3>2. conn' = [conn EXCEPT ![c] = k]
      BY <2>1, <2>2 DEF Move
    <3> HIDE DEF k
    <3> QED
      BY <2>1, <3>1, <3>2 DEF Busy, Working
  <2> QED
    BY <1>1, <2>1, <2>2
<1>5. TypeOK'
  <2>1. context' \in [Contexts -> Context]
    BY <1>1 DEF IInv, TypeOK
  <2> QED
    BY <1>1, <1>3, <1>4, <2>1, TypesOf DEF IInv
<1>6. Owned'
  BY <1>1, <1>4, IdleKeeps DEF IInv
<1> QED
  BY <1>2, <1>5, <1>6 DEF IInv

LEMMA WorkSteps ==
    ASSUME IInv, NEW c \in Clients,
           \/ Work(c) \/ HandshakeFails(c) \/ ReadRequest(c) \/ ReadEnds(c) \/ Await(c) \/ GoOn(c)
           \/ \E x \in Contexts : HandshakeEnds(c, x)
    PROVE  TypeOK' /\ Owned' /\ UNCHANGED <<servers, listener>>
<1>1. CASE Authenticate(c)
  BY <1>1, MoveKeeps DEF Authenticate, Busy, Working, Whereabouts
<1>2. CASE CheckRunning(c)
  <2>0. conn \in [Clients -> Connection] /\ conn[c] \in Connection
    BY DEF IInv, TypeOK
  <2>1. PICK where \in {"ending", "reading"} \cup Parsed :
          conn' = [conn EXCEPT ![c] = [@ EXCEPT !.at = where, !.buffered = FALSE]]
    BY <1>2 DEF CheckRunning
  <2> DEFINE k == [conn[c] EXCEPT !.at = where, !.buffered = FALSE]
  <2>2. k \in Connection /\ k.context = conn[c].context
    BY <2>0 DEF Connection, Parsed, Untimed
  <2>3. conn' = [conn EXCEPT ![c] = k]
    BY <2>0, <2>1
  <2> HIDE DEF k
  <2> QED
    BY <1>2, <2>2, <2>3, ConnectionKeeps DEF CheckRunning, Working
<1>3. CASE ReadEnds(c) \/ TimerCancels(c)
  BY <1>3, MoveKeeps DEF ReadEnds, TimerCancels, Working, Whereabouts, Busy
<1>4. CASE ReadRequest(c)
  <2>1. PICK where \in Parsed : Move(c, where)
    BY <1>4 DEF ReadRequest
  <2>2. conn[c].at \in Working /\ where \in Whereabouts /\ UNCHANGED <<servers, listener, context>>
    BY <1>4 DEF ReadRequest, Parsed, Working, Whereabouts, Busy
  <2> QED
    BY <2>1, <2>2, MoveKeeps
<1>5. CASE HandshakeFails(c)
  BY <1>5, MoveKeeps DEF HandshakeFails, Busy, Working, Whereabouts
<1>6. CASE \/ HandleRequest(c) \/ FinishRequest(c) \/ FlushResponse(c) \/ FlushLast(c)
           \/ Await(c) \/ GoOn(c)
  BY <1>6, UntimedSteps
<1>7. CASE Return(c)
  BY <1>7, ReturnSteps DEF Return
<1>8. CASE \E x \in Contexts : Accept(c, x) \/ HandshakeEnds(c, x)
  <2>1. PICK x \in Contexts : Handle(c, x)
    BY <1>8 DEF Accept, HandshakeEnds
  <2> QED
    BY <2>1, HandleSteps DEF Handle
<1> QED
  BY <1>1, <1>2, <1>3, <1>4, <1>5, <1>6, <1>7, <1>8 DEF Work

LEMMA OtherSteps ==
    ASSUME IInv, NEW p \in Ports, OtherProcess(p)
    PROVE  IInv'
<1>1. /\ taken' \subseteq Ports
      /\ UNCHANGED <<setup, host, instance, built, running, listener, conn, context>>
  BY DEF OtherProcess, IInv, TypeOK
<1>2. TypeOK'
  BY <1>1 DEF IInv, TypeOK
<1>3. Calling' /\ Bound' /\ Owned'
  BY <1>1 DEF IInv, Calling, Bound, Disposing, Listening, Owned, Owning
<1>4. Quieted'
  BY <1>1 DEF IInv, Quieted, Disposing, Quiet, Listening
<1> QED
  BY <1>2, <1>3, <1>4 DEF IInv

(* The host leaves the connections alone, but for those it drops. *)
LEMMA HostSteps ==
    ASSUME IInv, Host \/ ProcessExit \/ \E call \in Calls : Call(call)
    PROVE  IInv'
<1>1. TypeOK' /\ Calling' /\ Bound' /\ Quieted'
  <2>1. CASE Host
    BY <2>1, CreateSteps, QuietHostSteps, BindSteps, DisposeSteps, JoinSteps, DisposedSteps DEF Host
  <2>2. CASE ProcessExit
    BY <2>2, ExitSteps
  <2>3. CASE \E call \in Calls : Call(call)
    BY <2>3, CallSteps
  <2> QED
    BY <2>1, <2>2, <2>3
<1>2. context' = context /\ \A c \in Clients : conn'[c] = conn[c] \/ conn'[c].at \notin Busy
  <2>1. CASE DisposeEndPoint
    <3>1. conn \in [Clients -> Connection]
      BY DEF IInv, TypeOK
    <3>2. \A c \in Clients : [conn[c] EXCEPT !.at = "closed"].at = "closed"
      BY <3>1 DEF Connection
    <3>3. /\ context' = context
          /\ \A c \in Clients : conn'[c] = conn[c] \/ conn'[c] = [conn[c] EXCEPT !.at = "closed"]
      BY <2>1 DEF DisposeEndPoint, Dropped
    <3> QED
      BY <3>2, <3>3 DEF Busy, Working
  <2>2. CASE ~DisposeEndPoint
    <3>1. context' = context /\ conn' = conn
      BY <2>2 DEF Host, CreateInstance, PrepareHandler, StartEndPoint, Started, JoinTask,
                  Disposed, ProcessExit, Call
    <3> QED
      BY <3>1
  <2> QED
    BY <2>1, <2>2
<1>3. Owned'
  BY <1>2, IdleKeeps DEF IInv
<1> QED
  BY <1>1, <1>3 DEF IInv

LEMMA Initially ==
    ASSUME Init PROVE IInv
<1>1. /\ setup \in Setups /\ setup \in Setup
      /\ host = Idle /\ instance = 0 /\ built = 0
      /\ running = [s \in Servers |-> TRUE]
      /\ listener = [s \in Servers |-> [p \in Ports |-> Unbound]]
      /\ taken \in SUBSET (1..setup.endPoints)
      /\ conn = [c \in Clients |-> Away]
      /\ context = [x \in Contexts |-> Unused]
  BY SetupAssumption DEF Init
<1>2. taken \subseteq Ports
  BY <1>1, EndPointAssumption DEF Setup, Ports
<1>3. Unbound \in Listener /\ Away \in Connection /\ Unused \in Context
  BY EndPointAssumption DEF Unbound, Listener, Away, Connection, Unused, Context
<1>4. TypeOK
  <2>1. host \in [call : Calls, next : 0..EndPoints + 1,
                  at : {"idle", "dispose", "join", "create", "prepare", "bind", "wait"}]
    BY <1>1, EndPointAssumption DEF Idle, Calls
  <2>2. instance \in 0..MaxServers /\ built \in 0..MaxServers
    BY <1>1, EndPointAssumption
  <2> QED
    BY <1>1, <1>2, <1>3, <2>1, <2>2 DEF TypeOK
<1>5. host.at = "idle"
  BY <1>1 DEF Idle
<1>6. \A s \in Servers, p \in Ports : listener[s][p] = Unbound
  BY <1>1
<1>7. Calling
  BY <1>1, <1>5 DEF Calling, Disposing
<1>8. Bound
  BY <1>6 DEF Bound, Listening, Unbound
<1>9. Quieted
  <2>1. \A s \in Servers : ~(s <= built)
    BY <1>1 DEF Servers
  <2> QED
    BY <1>5, <2>1 DEF Quieted, Disposing
<1>10. Owned
  BY <1>1 DEF Owned, Owning, Away, Working
<1> QED
  BY <1>4, <1>7, <1>8, <1>9, <1>10 DEF IInv

LEMMA Stepped ==
    ASSUME IInv, [Next]_vars PROVE IInv'
<1>1. CASE Host \/ ProcessExit \/ \E call \in Calls : Call(call)
  BY <1>1, HostSteps
<1>2. CASE \E s \in Servers, p \in Ports : AcceptLoop(s, p) \/ AcceptFails(s, p)
  BY <1>2, AcceptSteps
<1>3. CASE \E c \in Clients, s \in Servers, p \in Ports : Connect(c, s, p)
  <2>1. PICK c \in Clients, s \in Servers, p \in Ports : Connect(c, s, p)
    BY <1>3
  <2>2. TypeOK' /\ Owned' /\ UNCHANGED <<servers, listener>>
    BY <2>1, ConnectSteps DEF Connect
  <2> QED
    BY <2>2, ServersKeep DEF IInv
<1>4. CASE \E c \in Clients :
             \/ Work(c) \/ HandshakeFails(c) \/ ReadRequest(c) \/ ReadEnds(c)
             \/ Await(c) \/ GoOn(c)
             \/ \E x \in Contexts : HandshakeEnds(c, x)
  <2>1. TypeOK' /\ Owned' /\ UNCHANGED <<servers, listener>>
    BY <1>4, WorkSteps
  <2> QED
    BY <2>1, ServersKeep DEF IInv
<1>5. CASE \E x \in Contexts : Fire(x)
  <2>1. TypeOK' /\ Owned' /\ UNCHANGED <<servers, listener>>
    BY <1>5, FireSteps DEF Fire
  <2> QED
    BY <2>1, ServersKeep DEF IInv
<1>6. CASE \E p \in Ports : OtherProcess(p)
  BY <1>6, OtherSteps
<1>7. CASE UNCHANGED vars
  <2>1. UNCHANGED <<setup, host, instance, built, running, listener, taken, conn, context>>
    BY <1>7 DEF vars
  <2>2. TypeOK' /\ Owned'
    BY <2>1 DEF IInv, TypeOK, Owned, Owning
  <2>3. UNCHANGED <<servers, listener>>
    BY <2>1 DEF servers
  <2> QED
    BY <2>2, <2>3, ServersKeep DEF IInv
<1> QED
  BY <1>1, <1>2, <1>3, <1>4, <1>5, <1>6, <1>7 DEF Next

LEMMA Invariant == Spec => []IInv
<1>1. Init => IInv
  BY Initially
<1>2. IInv /\ [Next]_vars => IInv'
  BY Stepped
<1> QED
  BY <1>1, <1>2, PTL DEF Spec

(* The state of the host keeps its type. *)
THEOREM TypeCorrect == Spec => []TypeOK
<1>1. IInv => TypeOK
  BY DEF IInv
<1> QED
  BY <1>1, Invariant, PTL

(* Only the server of the host (ServerHost.Instance) listens: a stop, a     *)
(* restart or a start that has failed leaves no socket behind that is not   *)
(* closed before the next server binds.                                     *)
THEOREM AlwaysOwned == Spec => []SocketsOwned
<1>1. IInv => SocketsOwned
  <2> SUFFICES ASSUME IInv, NEW s \in Servers, NEW p \in Ports, Listening(s, p)
               PROVE  s = instance
    BY DEF SocketsOwned
  <2>1. listener[s][p] # Unbound
    BY DEF Listening, Unbound
  <2>2. ~(s > built)
    BY <2>1 DEF IInv, Bound
  <2>3. s <= built
    BY <2>2, HostFacts, EndPointAssumption DEF IInv, Servers
  <2> QED
    BY <2>3 DEF IInv, Quieted, Quiet
<1> QED
  BY <1>1, Invariant, PTL

(* Behind StopAsync every server that was ever built is stopped, with all   *)
(* its sockets closed and its accept loops at their end.                    *)
THEOREM AlwaysComplete == Spec => []StopComplete
<1>1. IInv => StopComplete
  <2> SUFFICES ASSUME IInv, instance = 0, NEW s \in 1..built
               PROVE  /\ ~running[s]
                      /\ \A p \in Ports : ~Listening(s, p) /\ listener[s][p].task \in {"none", "done"}
    BY DEF StopComplete
  <2>1. s \in Servers /\ s <= built /\ s # 0
    BY HostFacts, EndPointAssumption DEF IInv, TypeOK, Servers
  <2> QED
    BY <2>1 DEF IInv, Quieted, Quiet
<1> QED
  BY <1>1, Invariant, PTL

(* The timer that can cancel a connection is the one it has armed: a context *)
(* has one user, and ResetCts arms the source anew for each.                 *)
THEOREM AlwaysOwnTimer == Spec => []OwnTimer
<1>1. IInv => OwnTimer
  BY DEF IInv, Owned, Owning, OwnTimer, Working, Untimed
<1> QED
  BY <1>1, Invariant, PTL
=============================================================================
