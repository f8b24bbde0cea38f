-------------------------- MODULE WebsocketTunnel --------------------------
(***************************************************************************)
(* A websocket connection the reverse proxy relays: WebsocketProxy.cs      *)
(* connects to the upstream host (RawWebsocketConnection.cs), has it       *)
(* upgrade the connection, answers 101 to the client and then copies in    *)
(* both directions until both have ended (WebsocketTunnelContent.cs).      *)
(*                                                                         *)
(* The upstream host answers with the units 1..HeadLen, the last of which  *)
(* is the empty line, and may send more units at any time after, in the    *)
(* same segment too.  The client sends units only once it has the 101.     *)
(* Either end may stop sending ("fin") or be gone ("reset").               *)
(***************************************************************************)
EXTENDS Naturals, Sequences, PipeReader

CONSTANTS
    HeadLen,        \* units of the head of the upstream's response
    MaxSent         \* bound: the units either end sends behind that

ASSUME HeadAssumption == HeadLen \in Nat \ {0}
ASSUME BoundAssumption == MaxSent \in Nat

VARIABLES
    pc,         \* where HandleAsync, and then WriteAsync of the content, are
    status,     \* the status the client gets, 0 for none yet
    raw,        \* the raw connection to the upstream host
    running,    \* Server.Running
    expired,    \* upgradeCts
    secure,     \* wss (constant)
    valid,      \* the request passes WebsocketHandler.ValidateRequest (constant)
    peer,       \* the upstream host
    client,     \* the client
    input,      \* the reader of the pipe to the upstream host
    downstream, \* the reader of the pipe to the client
    up, down,   \* UpstreamHandler and DownstreamHandler
    greeted     \* ghost: the upstream's head was read to its end

settings == <<secure, valid>>
vars == <<pc, status, raw, running, expired, settings, peer, client, input, downstream, up, down, greeted>>

Copying == {"off", "copying", "done", "failed"}
End == [sends : 0..HeadLen + MaxSent, end : {"no", "fin", "reset"}, got : Seq(1..HeadLen + MaxSent)]

TypeOK ==
    /\ pc \in {"connect", "tls", "write", "top", "handshake", "answer", "head", "tunnel",
               "ended", "error"}
    /\ status \in {0, 101, 400, 500, 502, 504}
    /\ raw \in {"open", "disposed"}
    /\ running \in BOOLEAN /\ expired \in BOOLEAN /\ greeted \in BOOLEAN
    /\ secure \in BOOLEAN /\ valid \in BOOLEAN
    /\ peer \in End /\ client \in End
    /\ input \in Reader /\ downstream \in Reader
    /\ up \in Copying /\ down \in Copying

Init ==
    /\ pc = "connect" /\ status = 0 /\ raw = "open"
    /\ running = TRUE /\ expired = FALSE /\ greeted = FALSE
    /\ secure \in BOOLEAN /\ valid \in BOOLEAN
    /\ peer = [sends |-> 0, end |-> "no", got |-> <<>>]
    /\ client = [sends |-> 0, end |-> "no", got |-> <<>>]
    /\ input = Fresh /\ downstream = Fresh
    /\ up = "off" /\ down = "off"

UnitsPast(from, to) == [i \in 1..to + 1 - from |-> from + i]
Units(from, to) == [i \in 1..to - from |-> from + i]

----------------------------------------------------------------------------
(* WebsocketProxy.HandleAsync                                              *)

links == <<peer, client, input, downstream, up, down>>

\* An exception: the raw connection is left as it is.
Fails(s) ==
    /\ pc' = "error"
    /\ status' = s
    /\ UNCHANGED <<raw, running, expired, settings, links, greeted>>

Goes(to) ==
    /\ pc' = to
    /\ UNCHANGED <<status, raw, running, expired, settings, links>>

\* InitializeStream, outside of the try and before the time limit is set up.
Connect ==
    /\ pc = "connect"
    /\ \/ peer.end = "no" /\ Goes(IF secure THEN "tls" ELSE "write") /\ UNCHANGED greeted
       \/ Fails(500)

\* The TLS handshake; a host that is silent in it is waited for.
Authenticate ==
    /\ pc = "tls"
    /\ \/ peer.end = "no" /\ Goes("write") /\ UNCHANGED greeted
       \/ Fails(500)

WriteRequest ==
    /\ pc = "write"
    /\ \/ peer.end # "reset" /\ ~expired /\ Goes("top") /\ UNCHANGED greeted
       \/ peer.end = "reset" /\ Fails(500)

NotCancelled == {}

\* What a cancelled read of a stream throws: TaskCanceledException is caught
\* as such, an OperationCanceledException as any other exception.
TimedOut == {504, 500}

Expires ==
    /\ pc \in {"write", "handshake"} /\ expired
    /\ \E s \in TimedOut : Fails(s)

WhileRunning ==
    /\ pc = "top"
    /\ Goes(IF running THEN "handshake" ELSE "answer")
    /\ UNCHANGED greeted

ReadReset ==
    /\ pc = "handshake" /\ peer.end = "reset"
    /\ Fails(502)

SomeArrived == Available(input) > 0
HeadArrived == input.end >= HeadLen

BehindAll == Consume(input, input.end)

\* The reader goes on behind the empty line: what follows belongs to the tunnel.
BehindHead == Consume(input, HeadLen)

ReadHead ==
    /\ pc = "handshake" /\ ~expired /\ Readable(input) /\ HeadArrived
    /\ input' = BehindHead
    /\ greeted' = (input.end >= HeadLen)
    /\ pc' = "answer"
    /\ UNCHANGED <<status, raw, running, expired, settings, peer, client, downstream, up, down>>

ReadMore ==
    /\ pc = "handshake" /\ ~expired /\ Readable(input) /\ ~HeadArrived
    /\ IF input.eof THEN Fails(502)
       ELSE /\ input' = ExamineAll(input)
            /\ pc' = "top"
            /\ UNCHANGED <<status, raw, running, expired, settings, peer, client, downstream,
                           up, down, greeted>>

\* WebsocketHandler.HandleAsync builds the response, or refuses the request.
Answer ==
    /\ pc = "answer"
    /\ IF valid THEN Goes("head") /\ UNCHANGED greeted ELSE Fails(400)

----------------------------------------------------------------------------
(* WebsocketTunnelContent.WriteAsync: the head of the response is flushed, *)
(* then both directions are copied.  Flushing to a client that is gone     *)
(* throws before the try.                                                  *)

WriteHead ==
    /\ pc = "head"
    /\ IF client.end = "reset" THEN Fails(0)
       ELSE /\ status' = 101
            /\ up' = "copying" /\ down' = "copying"
            /\ pc' = "tunnel"
            /\ UNCHANGED <<raw, running, expired, settings, peer, client, input, downstream, greeted>>

\* CopyToAsync writes what the reader holds, whatever has become of the side
\* it came from, and only then reads that side again.
Copyable(r) == Available(r) > 0 \/ r.eof

\* One round of CopyToAsync.  A reset of the reading side throws from the next
\* read, one of the writing side is a failed write.
UpstreamHandler ==
    /\ pc = "tunnel" /\ up = "copying"
    /\ \/ /\ peer.end = "reset" /\ ~Copyable(input)
          /\ up' = "failed" /\ UNCHANGED <<client, input>>
       \/ /\ Copyable(input)
          /\ IF client.end = "reset" /\ Available(input) > 0
             THEN up' = "failed" /\ UNCHANGED <<client, input>>
             ELSE /\ client' = [client EXCEPT !.got = @ \o Units(input.pos, input.end)]
                  /\ input' = Consume(input, input.end)
                  /\ up' = IF input.eof THEN "done" ELSE "copying"
    /\ UNCHANGED <<pc, status, raw, running, expired, settings, peer, downstream, down, greeted>>

DownstreamHandler ==
    /\ pc = "tunnel" /\ down = "copying"
    /\ \/ /\ client.end = "reset" /\ ~Copyable(downstream)
          /\ down' = "failed" /\ UNCHANGED <<peer, downstream>>
       \/ /\ Copyable(downstream)
          /\ IF peer.end = "reset" /\ Available(downstream) > 0
             THEN down' = "failed" /\ UNCHANGED <<peer, downstream>>
             ELSE /\ peer' = [peer EXCEPT !.got = @ \o Units(downstream.pos, downstream.end)]
                  /\ downstream' = Consume(downstream, downstream.end)
                  /\ down' = IF downstream.eof THEN "done" ELSE "copying"
    /\ UNCHANGED <<pc, status, raw, running, expired, settings, client, input, up, greeted>>

AnyEnded == {up, down} \ {"off", "copying"} # {}
BothDone == up = "done" /\ down = "done"

\* Task.WhenAll: both have to end, one way or the other.
BothEnded == {up, down} \cap {"off", "copying"} = {}

EndTunnel ==
    /\ pc = "tunnel" /\ BothEnded
    /\ raw' = "disposed"
    /\ pc' = "ended"
    /\ UNCHANGED <<status, running, expired, settings, links, greeted>>

Proxy ==
    \/ Connect \/ Authenticate \/ WriteRequest \/ Expires \/ WhileRunning
    \/ ReadReset \/ ReadHead \/ ReadMore \/ Answer
    \/ WriteHead \/ UpstreamHandler \/ DownstreamHandler \/ EndTunnel

----------------------------------------------------------------------------
(* The rest of the world. *)

proxy == <<pc, status, raw, settings, up, down, greeted>>

\* The upstream host has the request once it is written.
PeerSends ==
    /\ pc \in {"top", "handshake", "answer", "head", "tunnel"} /\ peer.end = "no"
    /\ peer.sends < HeadLen + MaxSent
    /\ \E n \in peer.sends + 1..HeadLen + MaxSent : peer' = [peer EXCEPT !.sends = n]
    /\ UNCHANGED <<proxy, running, expired, client, input, downstream>>

ClientSends ==
    /\ pc = "tunnel" /\ client.end = "no" /\ client.sends < MaxSent
    /\ client' = [client EXCEPT !.sends = @ + 1]
    /\ UNCHANGED <<proxy, running, expired, peer, input, downstream>>

Ends ==
    /\ \E how \in {"fin", "reset"} :
         \/ peer.end # "reset" /\ peer.end # how /\ peer' = [peer EXCEPT !.end = how] /\ UNCHANGED client
         \/ client.end # "reset" /\ client.end # how /\ client' = [client EXCEPT !.end = how] /\ UNCHANGED peer
    /\ UNCHANGED <<proxy, running, expired, input, downstream>>

\* A read that is awaited returns what has been sent, in pieces, or the end.
Arrival(r, from) ==
    {Pull(r, n) : n \in r.end + 1..from.sends}
        \cup (IF from.end = "fin" /\ r.end = from.sends THEN {PullEnd(r)} ELSE {})

Receive ==
    /\ \/ /\ IF pc = "handshake" THEN ~Readable(input) ELSE up = "copying" /\ ~Copyable(input)
          /\ peer.end # "reset"
          /\ input' \in Arrival(input, peer) /\ UNCHANGED downstream
       \/ /\ down = "copying" /\ ~Copyable(downstream) /\ client.end # "reset"
          /\ downstream' \in Arrival(downstream, client) /\ UNCHANGED input
    /\ UNCHANGED <<proxy, running, expired, peer, client>>

Stop ==
    /\ running
    /\ running' = FALSE
    /\ UNCHANGED <<proxy, expired, links>>

Elapse ==
    /\ pc \in {"write", "top", "handshake"} /\ ~expired
    /\ expired' = TRUE
    /\ UNCHANGED <<proxy, running, links>>

Next == Proxy \/ PeerSends \/ ClientSends \/ Ends \/ Receive \/ Stop \/ Elapse

Spec == Init /\ [][Next]_vars

\* What is sent arrives, time goes on, a connect attempt is given up by the
\* system in the end, and the tasks of the proxy are scheduled.  A TLS
\* handshake, what the ends send and that they leave is up to them.
Fairness ==
    /\ WF_vars(Receive /\ UNCHANGED downstream) /\ WF_vars(Receive /\ UNCHANGED input)
    /\ WF_vars(Elapse)
    /\ WF_vars(Connect) /\ WF_vars(WriteRequest) /\ WF_vars(Expires) /\ WF_vars(WhileRunning)
    /\ WF_vars(ReadReset) /\ WF_vars(ReadHead \/ ReadMore) /\ WF_vars(Answer) /\ WF_vars(WriteHead)
    /\ WF_vars(UpstreamHandler) /\ WF_vars(DownstreamHandler) /\ WF_vars(EndTunnel)

FairSpec == Spec /\ Fairness

----------------------------------------------------------------------------
(* Properties. *)

\* The client gets exactly the units behind the head of the upstream's
\* response, in order, the ones that arrived together with the head included;
\* the upstream host gets exactly what the client sent.
Relayed ==
    LET skipped == IF greeted THEN HeadLen ELSE 0 IN
    /\ client.got = Units(skipped, skipped + Len(client.got))
    /\ pc = "tunnel" => input.pos = skipped + Len(client.got)
    /\ peer.got = Units(0, downstream.pos)

\* The client is only told to switch protocols once the upstream host has
\* answered - or the server is being stopped, when TryUpgrade returns as if it
\* had.  (Whether the answer was a 101 is not looked at.)
SwitchedAfterGreeting == status = 101 => greeted \/ ~running

\* A tunnel that has ended has disposed of the connection to the upstream
\* host, and has relayed everything either end sent, if neither end was lost.
NothingCut ==
    pc = "ended" =>
        /\ raw = "disposed"
        /\ peer.end # "reset" /\ client.end # "reset" =>
             /\ greeted => HeadLen + Len(client.got) = peer.sends
             /\ Len(peer.got) = client.sends

\* What the client and the upstream host can tell of all this.
Phase ==
    CASE pc = "tunnel" -> "open"
      [] pc = "ended"  -> "over"
      [] pc = "error"  -> "refused"
      [] OTHER         -> "asked"

Both(c, h) == [e \in {"client", "host"} |-> IF e = "client" THEN c ELSE h]

Promise == INSTANCE Relay WITH
    phase <- Phase,
    stopping <- ~running,
    answered <- greeted,
    head <- IF greeted THEN HeadLen ELSE 0,
    sent <- Both(client.sends, peer.sends),
    end <- Both(client.end, peer.end),
    got <- Both(client.got, peer.got)

\* The proxy keeps the promise of a relay to both ends: nobody is switched over
\* before the upstream host has answered (unless the server is stopping, and
\* whatever the status of the answer), everything is passed on in order and
\* without a gap, to no end that is lost, and a tunnel of which no end was lost
\* is only over when both have stopped and have got everything.
RelayKept == Promise!Spec

\* HandleAsync returns, however silent the upstream host is, unless it is
\* silent in the TLS handshake.
Answered == pc \in {"connect", "write"} ~> pc \in {"tls", "tunnel", "ended", "error"}

\* The tunnel ends once both ends have stopped (not when one of them has).
TunnelEnds == client.end # "no" /\ peer.end # "no" /\ pc = "tunnel" ~> pc = "ended"
=============================================================================
