--------------------------- MODULE ClientHandler ---------------------------
(***************************************************************************)
(* One connection of the internal engine: the loop of ClientHandler.cs     *)
(* with everything it calls on the request (Request.cs, RequestBody.cs),   *)
(* on the body (ContentLengthFraming.cs, ChunkedFraming.cs,                *)
(* ContinueReader.cs) and on the response (ResponseHandler.cs), against a  *)
(* client that sends a script of requests, pipelined or not, cut into      *)
(* reads anywhere, and that may end its half, reset the connection or hold *)
(* a body back until it hears from the server.                             *)
(*                                                                         *)
(* The bytes of the client are units numbered from 0 (see PipeReader).  A  *)
(* request is a header of HeadLen units followed by "size" units of body:  *)
(* data for Content-Length, whole chunks and the final chunk for chunked.  *)
(***************************************************************************)
EXTENDS Naturals, Sequences, PipeReader


CONSTANTS
    Scripts,    \* the sequences of requests a client may send
    HeadLen,    \* the units of a request header
    Patient,    \* does the client hold an expected body back until it hears from the server?
    Faults,     \* what may go wrong: a subset of FaultKinds
    Handling    \* what the handlers of the application may do: a subset of HandlingKinds

FaultKinds == {"fin", "reset", "timeout", "stop"}

HandlingKinds == {"throw", "close", "upgrade", "late read", "flush", "fail"}

Framings == {"none", "length", "chunked", "unsupported"}

Request == [at : Nat,               \* the position of its first unit
            size : Nat,             \* the units of its body
            framing : Framings,     \* what its headers say of the body
            expect : BOOLEAN,       \* Expect: 100-continue, not over HTTP/1.0
            keep : BOOLEAN,         \* it asks to keep the connection
            valid : BOOLEAN,        \* its header can be parsed
            corrupt : BOOLEAN]      \* its last chunk is malformed

(* A script is laid out without gaps, and only a framed request has a body. *)
IsScript(s) ==
    /\ s \in Seq(Request) /\ s # <<>>
    /\ \A i \in 1..Len(s) :
        /\ s[i].at = IF i = 1 THEN 0 ELSE s[i - 1].at + HeadLen + s[i - 1].size
        /\ s[i].framing = "none" => s[i].size = 0
        /\ s[i].framing = "chunked" => s[i].size > 0
        /\ s[i].corrupt => s[i].framing = "chunked"

ASSUME HeadAssumption == HeadLen \in Nat \ {0}
ASSUME ScriptAssumption == \A s \in Scripts : IsScript(s)
ASSUME KindAssumption == /\ Patient \in BOOLEAN
                         /\ Faults \subseteq FaultKinds
                         /\ Handling \subseteq HandlingKinds

VARIABLES
    script,     \* the requests of this client
    client,     \* its half of the connection
    wire,       \* the messages it has received
    reader,     \* the pipe reader of the connection
    pending,    \* the messages in the writer that have not been flushed
    pc,         \* where the loop is
    remaining,  \* dataRemaining
    expired,    \* _cts is cancelled
    running,    \* Server.Running
    cur,        \* the request being served (0 before the first)
    body,       \* the RequestBody of the pooled request
    reading,    \* the read of the body a handler is waiting for
    mode        \* what HandleRequestAsync makes of the connection

vars == <<script, client, wire, reader, pending, pc, remaining, expired,
          running, cur, body, reading, mode>>

Body == [state : {"pending", "opened", "upgraded"},
         present : BOOLEAN,
         framing : {"none", "length", "chunked"},   \* _framing, "none" for null
         left : Nat,            \* units the framing has not consumed yet
         held : Nat,            \* _heldEnd, _chunkEnd: where the view handed out ends (0: no view)
         expects : BOOLEAN,     \* _continueWriter is set
         armed : BOOLEAN,       \* _continue still has its writer
         sent : BOOLEAN]        \* _continue.Sent

NoBody == [state |-> "pending", present |-> FALSE, framing |-> "none", left |-> 0,
           held |-> 0, expects |-> FALSE, armed |-> FALSE, sent |-> FALSE]

Locations == {"top", "reading", "parse", "handle", "write", "finish", "skip",
              "next", "error", "closed"}

Serving == {"handle", "write", "finish", "skip"}

Message == [req : Nat, part : {"continue", "head", "end"}, keep : BOOLEAN]

Continue == [req |-> cur, part |-> "continue", keep |-> TRUE]
HeadOf(keep) == [req |-> cur, part |-> "head", keep |-> keep]
End == [req |-> cur, part |-> "end", keep |-> TRUE]

Req == script[cur]
BodyAt(r) == r.at + HeadLen
EndOf(r) == BodyAt(r) + r.size
NextAt == IF cur = 0 THEN 0 ELSE EndOf(Req)

Greatest(a, b) == IF a < b THEN b ELSE a
Least(a, b) == IF a < b THEN a ELSE b

TypeOK ==
    /\ script \in Scripts
    /\ client \in {"open", "fin", "reset"}
    /\ wire \in Seq(Message)
    /\ reader \in Reader
    /\ pending \in Seq(Message)
    /\ pc \in Locations
    /\ remaining \in BOOLEAN
    /\ expired \in BOOLEAN
    /\ running \in BOOLEAN
    /\ cur \in 0..Len(script)
    /\ body \in Body
    /\ reading \in {"no", "some", "all"}
    /\ mode \in {"keep", "close", "upgrade"}

Init ==
    /\ script \in Scripts
    /\ client = "open"
    /\ wire = <<>>
    /\ reader = Fresh
    /\ pending = <<>>
    /\ pc = "top"
    /\ remaining = FALSE
    /\ expired = FALSE
    /\ running = TRUE
    /\ cur = 0
    /\ body = NoBody
    /\ reading = "no"
    /\ mode = "keep"

(***************************************************************************)
(* Writing.  A flush hands everything that has been written to the client. *)
(* After a reset it reaches nobody, and may or may not fail.               *)
(***************************************************************************)
Write(msgs) == pending' = pending \o msgs /\ UNCHANGED wire

Flush(more) ==
    /\ pending' = <<>>
    /\ wire' = IF client = "reset" THEN wire ELSE wire \o pending \o more

AfterFlush(goto) == IF client = "reset" THEN {goto, "error"} ELSE {goto}

Silent == UNCHANGED <<wire, pending>>

(***************************************************************************)
(* The client and the network.  A read of the stream returns any number of *)
(* the units the client is willing to send by then, so that a request may  *)
(* be cut anywhere and several may arrive at once.                         *)
(***************************************************************************)
Heard(i) == \E k \in 1..Len(wire) : wire[k].req = i

Willing(upTo) ==
    /\ upTo <= EndOf(script[Len(script)])
    /\ Patient => \A i \in 1..Len(script) :
                    script[i].expect /\ script[i].size > 0 /\ ~Heard(i)
                        => upTo <= BodyAt(script[i])

(* The loop, SkipAsync or a handler waits for a read of the stream. *)
Waiting ==
    /\ pc \in {"reading", "skip"} \/ (pc \in {"handle", "write"} /\ reading # "no")
    /\ ~Readable(reader)

Receive ==
    /\ Waiting
    /\ \/ /\ client = "open"
          /\ \E upTo \in (reader.end + 1)..EndOf(script[Len(script)]) :
                Willing(upTo) /\ reader' = Pull(reader, upTo)
       \/ client = "fin" /\ reader' = PullEnd(reader)
    /\ UNCHANGED <<script, client, wire, pending, pc, remaining, expired, running,
                   cur, body, reading, mode>>

GoAway ==
    /\ pc # "closed"
    /\ \/ client = "open" /\ "fin" \in Faults /\ client' = "fin"
       \/ client # "reset" /\ "reset" \in Faults /\ client' = "reset"
    /\ UNCHANGED <<script, wire, reader, pending, pc, remaining, expired, running,
                   cur, body, reading, mode>>

(* The timer of _cts fires, whatever the loop is doing. *)
Expire ==
    /\ "timeout" \in Faults /\ pc # "closed" /\ ~expired
    /\ expired' = TRUE
    /\ UNCHANGED <<script, client, wire, reader, pending, pc, remaining, running,
                   cur, body, reading, mode>>

Stop ==
    /\ "stop" \in Faults /\ pc # "closed" /\ running
    /\ running' = FALSE
    /\ UNCHANGED <<script, client, wire, reader, pending, pc, remaining, expired,
                   cur, body, reading, mode>>

(***************************************************************************)
(* The loop of HandlePipeAsync up to the handler.                          *)
(***************************************************************************)
LoopUnchanged == UNCHANGED <<script, client, wire, pending, running, body, reading, mode>>

(* while (Server.Running), and a read only if no data is left over *)
Top ==
    /\ pc = "top"
    /\ pc' = IF ~running THEN "closed" ELSE IF remaining THEN "parse" ELSE "reading"
    /\ remaining' = FALSE
    /\ UNCHANGED <<reader, expired, cur>> /\ LoopUnchanged

(* reader.ReadAsync(_cts.Token): cancelled or reset, the connection ends; a *)
(* read that is back is not cancelled any more                              *)
ReadFails ==
    /\ pc = "reading"
    /\ (expired /\ ~reader.back) \/ (client = "reset" /\ ~Readable(reader))
    /\ pc' = "closed"
    /\ UNCHANGED <<reader, remaining, expired, cur>> /\ LoopUnchanged

ReadDone ==
    /\ pc = "reading" /\ Readable(reader) /\ (expired => reader.back)
    /\ pc' = "parse"
    /\ UNCHANGED <<reader, remaining, expired, cur>> /\ LoopUnchanged

(* The parser is handed whatever the reader is positioned at. *)
Upcoming == cur + 1

AtRequest == Upcoming <= Len(script) /\ reader.pos = script[Upcoming].at

(* A header cut by the end of the stream will never be complete. *)
AlwaysAgain(r) == "top"
AfterPartial(r) == IF r.eof THEN "closed" ELSE "top"

ParseIncomplete ==
    /\ pc = "parse"
    /\ Available(reader) < HeadLen
    /\ reader' = ExamineAll(reader)
    /\ pc' = AfterPartial(reader)
    /\ UNCHANGED <<remaining, expired, cur>> /\ LoopUnchanged

ParseFails ==
    /\ pc = "parse"
    /\ Available(reader) >= HeadLen
    /\ ~(AtRequest /\ script[Upcoming].valid)
    /\ pc' = "error"
    /\ cur' = Upcoming
    /\ UNCHANGED <<reader, remaining, expired>> /\ LoopUnchanged

(* Request.Apply, which arms the ContinueReader; then the root handler runs *)
AppliedTo(r, expects) ==
    [NoBody EXCEPT !.present = r.framing # "none", !.expects = expects, !.armed = expects]

Applied(r) == AppliedTo(r, r.framing # "none" /\ r.expect)

Parsed ==
    /\ pc = "parse"
    /\ Available(reader) >= HeadLen
    /\ AtRequest /\ script[Upcoming].valid
    /\ cur' = Upcoming
    /\ body' = Applied(script[Upcoming])
    /\ pc' = "handle"
    /\ mode' = "keep"
    /\ UNCHANGED <<script, client, wire, reader, pending, remaining, expired, running, reading>>

(***************************************************************************)
(* What a handler, or the content of its response, does with the body.     *)
(***************************************************************************)
HandlerUnchanged ==
    UNCHANGED <<script, client, pc, remaining, expired, running, cur, mode>>

InHandler == pc = "handle" \/ (pc = "write" /\ "late read" \in Handling)

(* Release: the reader moves past the header, once *)
Released ==
    IF body.state = "pending" THEN Consume(reader, BodyAt(Req)) ELSE reader

(* ResolveFraming, of a body it supports *)
Resolved == [body EXCEPT !.state = "opened", !.framing = Req.framing, !.left = Req.size]

(* GetBody; an unsupported framing throws before anything has changed *)
OpenBody ==
    /\ pc = "handle" /\ reading = "no"
    /\ body.state = "pending"
    /\ Req.framing # "unsupported"
    /\ reader' = Released
    /\ body' = Resolved
    /\ UNCHANGED <<wire, pending, reading>> /\ HandlerUnchanged

(* Upgrade: the connection is handed to another protocol *)
Upgrade ==
    /\ pc = "handle" /\ reading = "no" /\ "upgrade" \in Handling
    /\ body.state # "upgraded"
    /\ reader' = Released
    /\ body' = [body EXCEPT !.state = "upgraded", !.present = FALSE]
    /\ UNCHANGED <<wire, pending, reading>> /\ HandlerUnchanged

(* The other protocol reads from the connection. *)
ReadUpgraded ==
    /\ pc \in {"handle", "write"} /\ body.state = "upgraded"
    /\ \E upTo \in (reader.pos + 1)..reader.end : reader' = Consume(reader, upTo)
    /\ UNCHANGED <<wire, pending, reading, body>> /\ HandlerUnchanged

(* The view handed out last is given up, so the reader may move behind it. *)
StillHeld(b, r) == r
Behind(b, r) == IF b.held # 0 THEN Consume(r, b.held) ELSE r

(* ReadAsync of the stream ("some") or AsMemoryAsync ("all") up to its wait *)
(* for the connection; the first read of all sends the 100 (Continue).      *)
StartRead(how) ==
    /\ InHandler /\ reading = "no"
    /\ body.state = "opened" /\ body.left > 0
    /\ how = "some" => body.held = 0
    /\ reader' = Behind(body, reader)
    /\ body' = [body EXCEPT !.held = 0, !.armed = FALSE, !.sent = @ \/ body.armed]
    /\ IF body.armed
       THEN Flush(<<Continue>>) /\ reading' \in (IF client = "reset" THEN {how, "no"} ELSE {how})
       ELSE Silent /\ reading' = how
    /\ HandlerUnchanged

(* The rest of a chunk that did not fit is handed out without a read. *)
CopyHeldChunk ==
    /\ InHandler /\ reading = "no"
    /\ body.state = "opened" /\ body.framing = "chunked" /\ body.held # 0
    /\ reader' = Behind(body, reader)
    /\ body' = [body EXCEPT !.held = 0]
    /\ UNCHANGED <<wire, pending, reading>> /\ HandlerUnchanged

Malformed == Req.corrupt /\ Available(reader) >= body.left

(* The framing consumes n units. *)
Take(n) ==
    /\ reader' = Consume(reader, reader.pos + n)
    /\ body' = [body EXCEPT !.left = @ - n]

(* The framing hands out a view of n units the reader stays in front of. *)
HoldUncounted(n) ==
    /\ reader' = Unadvanced(reader)
    /\ body' = [body EXCEPT !.held = reader.pos + n]

Hold(n) ==
    /\ reader' = Unadvanced(reader)
    /\ body' = [body EXCEPT !.left = @ - n, !.held = reader.pos + n]

ReadSome ==
    /\ InHandler /\ reading = "some" /\ Readable(reader)
    /\ Available(reader) > 0
    /\ reading' = "no"
    /\ \/ /\ body.framing = "length"
          /\ \E n \in 1..Least(body.left, Available(reader)) : Take(n)
       \/ /\ body.framing = "chunked" /\ ~(Malformed /\ body.left = 1)
          /\ Take(1) \/ (body.left > 1 /\ Hold(1))
    /\ Silent /\ HandlerUnchanged

ReadAll ==
    /\ InHandler /\ reading = "all" /\ Readable(reader)
    /\ Available(reader) >= body.left /\ ~Malformed
    /\ reading' = "no"
    /\ Take(body.left) \/ (body.framing = "length" /\ Hold(body.left))
    /\ Silent /\ HandlerUnchanged

(* Too little for AsMemoryAsync: chunks are consumed as they arrive, a body *)
(* of known length stays in the reader until it is complete.  The end of    *)
(* the stream is an error, after which the handler goes on as it likes.     *)
ReadOn ==
    /\ InHandler /\ reading = "all" /\ Readable(reader)
    /\ Available(reader) < body.left
    /\ IF body.framing = "chunked"
       THEN Take(Available(reader))
       ELSE reader' = ExamineAll(reader) /\ body' = body
    /\ reading' = IF reader.eof THEN "no" ELSE reading
    /\ Silent /\ HandlerUnchanged

(* So does it when a chunk is malformed, which throws before the reader is  *)
(* advanced, when there is nothing left to read, or after a reset.          *)
ReadThrows ==
    /\ InHandler /\ reading # "no"
    /\ IF Readable(reader)
       THEN \/ /\ Malformed /\ (reading = "some" => body.left = 1)
               /\ reader' = Unadvanced(reader)
            \/ /\ reading = "some" /\ reader.eof /\ Available(reader) = 0
               /\ reader' = ExamineAll(reader)
       ELSE client = "reset" /\ reader' = reader
    /\ reading' = "no"
    /\ body' = body
    /\ Silent /\ HandlerUnchanged

(***************************************************************************)
(* The response: HandleRequestAsync around ResponseHandler.HandleAsync.    *)
(***************************************************************************)
ServerUnchanged == UNCHANGED <<script, client, remaining, running, cur, reading>>

(* ResponseStarting: from now on no read sends a 100 (Continue). *)
StillArmed(b) == b
Disarmed(b) == [b EXCEPT !.armed = FALSE]

(* keepAliveRequested && !closeRequested *)
ModeOfHandler(m) == m
ModeOf(m) == IF m = "keep" /\ ~Req.keep THEN "close" ELSE m

(* The handler returns a response: its head is written, which disarms the *)
(* ContinueReader, and tells the client whether the connection is kept.   *)
Respond(m) ==
    /\ pc = "handle" /\ reading = "no"
    /\ m = "close" => "close" \in Handling
    /\ m = "upgrade" => body.state = "upgraded"
    /\ mode' = ModeOf(m)
    /\ Write(<<HeadOf(Req.keep /\ m = "keep")>>)
    /\ body' = Disarmed(body)
    /\ pc' = "write"
    /\ UNCHANGED <<reader, expired>> /\ ServerUnchanged

(* The handler throws, or returns null. *)
Throw ==
    /\ pc = "handle" /\ reading = "no" /\ "throw" \in Handling
    /\ pc' = "error"
    /\ Silent /\ UNCHANGED <<reader, body, mode, expired>> /\ ServerUnchanged

(* The content of the response flushes what it has written. *)
FlushContent ==
    /\ pc = "write" /\ reading = "no" /\ "flush" \in Handling
    /\ Flush(<<>>)
    /\ UNCHANGED <<pc, reader, body, mode, expired>> /\ ServerUnchanged

(* The content has been written, or has thrown (active is false then).  A *)
(* connection found dead is left without a word, one to be closed is       *)
(* flushed, and one that was upgraded has been flushed by its content.     *)
EndResponse(active) ==
    /\ pc = "write" /\ reading = "no"
    /\ ~active => "fail" \in Handling
    /\ LET msgs == IF active THEN <<End>> ELSE <<>>
       IN  \/ client = "reset" /\ pc' = "closed" /\ Write(msgs)
           \/ mode = "upgrade" /\ pc' = "closed" /\ (IF active THEN Flush(msgs) ELSE Silent)
           \/ mode = "keep" /\ active /\ pc' = "finish" /\ Write(msgs)
           \/ /\ mode = "close" \/ (mode = "keep" /\ ~active)
              /\ Flush(msgs) /\ pc' \in AfterFlush("closed")
    /\ UNCHANGED <<reader, body, mode, expired>> /\ ServerUnchanged

(***************************************************************************)
(* FinishAsync: the reader moves to the start of the next request, or the  *)
(* connection is closed.                                                   *)
(***************************************************************************)
CloseFlushed == Flush(<<>>) /\ pc' \in AfterFlush("closed")

FinishImpossible ==
    /\ pc = "finish"
    /\ \/ body.state = "upgraded"
       \/ body.present /\ body.framing = "none" /\ Req.framing = "unsupported"
    /\ CloseFlushed
    /\ UNCHANGED <<reader, body, mode, expired>> /\ ServerUnchanged

FinishBodiless ==
    /\ pc = "finish"
    /\ body.state # "upgraded" /\ ~body.present
    /\ reader' = Released
    /\ body' = [body EXCEPT !.state = "opened"]
    /\ pc' = "next"
    /\ Silent /\ UNCHANGED <<mode, expired>> /\ ServerUnchanged

(* A client still waiting for its 100 (Continue) gets the response first. *)
NeverOwed(b) == FALSE
ResponseOwed(b) == b.expects /\ ~b.sent

FinishBody ==
    /\ pc = "finish"
    /\ body.state # "upgraded" /\ body.present
    /\ body.framing # "none" \/ Req.framing # "unsupported"
    /\ LET b == IF body.framing = "none" THEN Resolved ELSE body
           next == IF b.left = 0 THEN "next" ELSE "skip"
       IN  /\ reader' = Behind(b, Released)
           /\ body' = [Disarmed(b) EXCEPT !.held = 0]
           /\ IF ResponseOwed(b)
              THEN Flush(<<>>) /\ pc' \in AfterFlush(next)
              ELSE Silent /\ pc' = next
    /\ UNCHANGED <<mode, expired>> /\ ServerUnchanged

SkipSome ==
    /\ pc = "skip" /\ Readable(reader) /\ ~Malformed
    /\ reader.eof => Available(reader) >= body.left
    /\ Take(Least(body.left, Available(reader)))
    /\ pc' = IF body'.left = 0 THEN "next" ELSE "skip"
    /\ Silent /\ UNCHANGED <<mode, expired>> /\ ServerUnchanged

(* The body ends early, a chunk is malformed (the connection is closed), or *)
(* the connection is reset (the exception leaves the loop).                 *)
SkipFails ==
    /\ pc = "skip"
    /\ IF Readable(reader)
       THEN (Malformed \/ (reader.eof /\ Available(reader) < body.left)) /\ CloseFlushed
       ELSE client = "reset" /\ pc' = "error" /\ Silent
    /\ UNCHANGED <<reader, body, mode, expired>> /\ ServerUnchanged

WaitUnflushed == Silent /\ pc' = "top"
FlushAndWait == Flush(<<>>) /\ pc' \in AfterFlush("top")

(* Request.Reset, then on to what is in the buffer, or flush and wait.  The  *)
(* loop's test of IsCompleted is left out: no read that ended a stream was  *)
(* ever followed by a complete header.                                      *)
NextRequest ==
    /\ pc = "next"
    /\ body' = NoBody
    /\ IF HasMore(reader)
       THEN /\ remaining' = TRUE /\ pc' = "top"
            /\ Silent /\ UNCHANGED expired
       ELSE /\ expired' = FALSE
            /\ FlushAndWait
            /\ UNCHANGED remaining
    /\ UNCHANGED <<script, client, reader, running, cur, reading, mode>>

(* SendErrorAsync, for whatever left the loop by an exception *)
SendError ==
    /\ pc = "error"
    /\ Flush(<<HeadOf(FALSE), End>>)
    /\ pc' = "closed"
    /\ UNCHANGED <<reader, body, mode, expired>> /\ ServerUnchanged

Server ==
    \/ Top \/ ReadFails \/ ReadDone \/ ParseIncomplete \/ ParseFails \/ Parsed
    \/ OpenBody \/ Upgrade \/ ReadUpgraded \/ (\E how \in {"some", "all"} : StartRead(how))
    \/ CopyHeldChunk \/ ReadSome \/ ReadAll \/ ReadOn \/ ReadThrows
    \/ (\E m \in {"keep", "close", "upgrade"} : Respond(m)) \/ Throw \/ FlushContent
    \/ (\E active \in BOOLEAN : EndResponse(active))
    \/ FinishImpossible \/ FinishBodiless \/ FinishBody \/ SkipSome \/ SkipFails
    \/ NextRequest \/ SendError

Next == Server \/ Receive \/ GoAway \/ Expire \/ Stop

Spec == Init /\ [][Next]_vars

(* The server keeps going, the client sends what it is willing to send, and  *)
(* a handler that is not waiting for a read does not try reads forever, nor  *)
(* does its content flush forever.                                           *)
FairSpec ==
    /\ Spec
    /\ WF_vars(Server) /\ WF_vars(Receive)
    /\ SF_vars(\E m \in {"keep", "close", "upgrade"} : Respond(m))
    /\ SF_vars(\E active \in BOOLEAN : EndResponse(active))

(***************************************************************************)
(* Properties                                                              *)
(***************************************************************************)

(* Whenever the loop is about to read or to parse a header, the reader     *)
(* stands at the first unit behind the previous request: whatever the      *)
(* handlers read, held or left unread, FinishAsync has moved past exactly  *)
(* that body, or has closed the connection.                                *)
Aligned == pc \in {"top", "reading", "parse"} => reader.pos = NextAt

(* While a request is served, what its framing has consumed, handed out as *)
(* a view and still expects add up to its body, and its header is not       *)
(* overtaken before the body is opened (Request.Header reads it there).    *)
Accounted ==
    pc \in Serving =>
        /\ body.state = "pending" => reader.pos = Req.at
        /\ body.state = "opened" =>
            /\ (IF body.held # 0 THEN body.held ELSE reader.pos) + body.left = EndOf(Req)
            /\ body.held # 0 => reader.pos < body.held

(* What these two rest on: together with them, and with TypeOK, it is       *)
(* inductive.  The reader stays inside what the client sends, the framing   *)
(* is the one the header asks for and is resolved as the body is opened,    *)
(* and the loop goes on only from the end of a body.                        *)
Grounded ==
    /\ reader.pos <= reader.end
    /\ reader.end <= EndOf(script[Len(script)])
    /\ pc \in Serving \cup {"next"} => cur > 0
    /\ pc = "next" => reader.pos = NextAt
    /\ pc = "skip" => body.state = "opened" /\ body.held = 0
    /\ reading # "no" => /\ pc \in {"handle", "write"} /\ body.state = "opened"
                         /\ body.held = 0 /\ body.left > 0
    /\ pc \in Serving =>
        /\ body.state # "upgraded" => body.present = (Req.framing # "none")
        /\ body.state = "pending" => /\ body.framing = "none" /\ body.held = 0
                                     /\ BodyAt(Req) <= reader.end
        /\ body.state = "opened" /\ body.present => body.framing # "none"
        /\ body.state = "opened" => body.framing = Req.framing
        /\ body.state = "opened" /\ ~body.present => body.held = 0 /\ body.left = 0
        /\ body.held <= reader.end

(* What the client receives is a legal HTTP/1.1 conversation: requests are  *)
(* answered in order, each at most once, with at most one 100 (Continue),   *)
(* which never follows the final response and goes only to a client that    *)
(* asked for it and has a body to send, and an answer starts only after the *)
(* previous one is complete.                                                *)
Rank(m) == CASE m.part = "continue" -> 1 [] m.part = "head" -> 2 [] m.part = "end" -> 3

Follows(m, n) ==
    IF m.req = n.req THEN Rank(m) < Rank(n) ELSE m.part = "end" /\ n.req = m.req + 1

WireOrdered ==
    /\ \A k \in 1..Len(wire) - 1 : Follows(wire[k], wire[k + 1])
    /\ \A k \in 1..Len(wire) : wire[k].part = "continue" =>
        script[wire[k].req].expect /\ script[wire[k].req].framing # "none"

(* A client that has been told Connection: close with a response gets the   *)
(* rest of that response and never another one.                             *)
CloseKept ==
    \A j, k \in 1..Len(wire) :
        j < k /\ wire[j].part = "head" /\ ~wire[j].keep => wire[k].req = wire[j].req

(* The connection is not closed over a response that has been written but   *)
(* not been sent, unless the client is gone or the handler has upgraded it. *)
NothingUnsent ==
    pc = "closed" /\ client # "reset" /\ mode # "upgrade" => pending = <<>>

Answered(i) == \E k \in 1..Len(wire) : wire[k].req = i /\ wire[k].part = "end"

(* A read has thrown because of a malformed chunk, and the one after it, or  *)
(* the skip, asks the stream instead of looking at that chunk again, from a  *)
(* client that has sent all it will.                                         *)
Stranded ==
    /\ pc = "skip" \/ reading # "no"
    /\ Waiting /\ Malformed
    /\ \A upTo \in reader.end + 1..EndOf(script[Len(script)]) : ~Willing(upTo)

(* A request that has reached its handler is answered in full, even if its  *)
(* client waits to hear from the server before it sends the body, unless    *)
(* its body, or that of the request pipelined behind it, is malformed and   *)
(* has stranded the loop before the answer was flushed.                     *)
Served ==
    \A i \in UNION {1..Len(s) : s \in Scripts} :
        (cur = i /\ pc = "handle")
            ~> (Answered(i) \/ (cur = i /\ mode = "upgrade") \/ Stranded)

(* If the timer, a stop of the server or a client that ends its half does   *)
(* cost a written response, then only because units of the next request     *)
(* were already waiting: the loop holds responses back for nothing else.    *)
UnsentBehindNext ==
    pc = "closed" /\ client # "reset" /\ mode # "upgrade" /\ pending # <<>>
        => reader.end > NextAt

(* When the client is gone, so is the connection, whatever the server was   *)
(* doing for it.                                                            *)
GoneThenClosed == client # "open" ~> pc = "closed"

Promise ==
    INSTANCE Conversation
    WITH requests <- script, arrived <- reader.end, late <- expired, stopping <- ~running,
         taken <- body.state = "upgraded", got <- wire, over <- pc = "closed"

(* The connection keeps its promise to the client, whatever the loop, the   *)
(* handlers and the flushes do: every request is answered in its turn and   *)
(* only once it is there, the client is told what a legal HTTP/1.1          *)
(* conversation allows, its time starts anew only when it has everything,   *)
(* and the connection is never closed without a reason it knows or caused.  *)
ConversationKept == Promise!Spec
=============================================================================
