------------------------ MODULE ClientHandlerProofs ------------------------
(***************************************************************************)
(* Proofs about ClientHandler, for every script of requests, every header  *)
(* length and every choice of faults and of what handlers do.              *)
(***************************************************************************)
EXTENDS ClientHandler, PipeReaderProofs, SequenceTheorems, TLAPS

(* The requests of a script are requests, laid out one behind the other. *)
LEMMA ScriptFacts ==
    ASSUME NEW s \in Scripts
    PROVE  /\ s \in Seq(Request)
           /\ Len(s) \in Nat \ {0}
           /\ \A i \in 1..Len(s) :
                /\ s[i] \in Request
                /\ s[i].framing = "none" => s[i].size = 0
           /\ s[1].at = 0
           /\ \A i \in 2..Len(s) : s[i].at = EndOf(s[i - 1])
<1>1. IsScript(s)
  BY ScriptAssumption
<1>2. s \in Seq(Request) /\ s # <<>>
  BY <1>1 DEF IsScript
<1>3. Len(s) \in Nat /\ Len(s) # 0
  BY <1>2
<1>4. \A i \in 1..Len(s) : s[i] \in Request
  BY <1>2, <1>3
<1>5. \A i \in 1..Len(s) : s[i].framing = "none" => s[i].size = 0
  BY <1>1 DEF IsScript
<1>6. s[1].at = 0 /\ \A i \in 2..Len(s) : s[i].at = EndOf(s[i - 1])
  <2>1. \A i \in 1..Len(s) :
          s[i].at = IF i = 1 THEN 0 ELSE s[i - 1].at + HeadLen + s[i - 1].size
    BY <1>1 DEF IsScript
  <2>2. 1 \in 1..Len(s) /\ \A i \in 2..Len(s) : i \in 1..Len(s) /\ i # 1
    BY <1>3
  <2> QED
    BY <2>1, <2>2 DEF EndOf, BodyAt
<1> QED
  BY <1>2, <1>3, <1>4, <1>5, <1>6

IndInv == TypeOK /\ Grounded /\ Aligned /\ Accounted

(* Every message the server writes is one. *)
LEMMA MessageFacts ==
    ASSUME TypeOK
    PROVE  /\ Continue \in Message /\ End \in Message
           /\ \A keep \in BOOLEAN : HeadOf(keep) \in Message
<1> QED
  BY ScriptFacts DEF TypeOK, Message, Continue, End, HeadOf

LEMMA InitInv == Init => IndInv
<1> SUFFICES ASSUME Init PROVE IndInv
  OBVIOUS
<1>1. TypeOK
  <2>1. wire \in Seq(Message) /\ pending \in Seq(Message)
    BY DEF Init
  <2>2. body \in Body
    BY DEF Init, Body, NoBody
  <2>3. reader \in Reader
    BY DEF Init, Reader, Fresh
  <2>4. cur \in 0..Len(script)
    BY ScriptFacts DEF Init
  <2>5. pc \in Locations
    BY DEF Init, Locations
  <2> QED
    BY <2>1, <2>2, <2>3, <2>4, <2>5 DEF Init, TypeOK
<1>2. Grounded
  <2>1. reader.pos = 0 /\ reader.end = 0
    BY DEF Init, Fresh
  <2>2. 0 <= EndOf(script[Len(script)])
    <3>1. script[Len(script)] \in Request
      BY ScriptFacts DEF Init
    <3> QED
      BY <3>1, HeadAssumption DEF EndOf, BodyAt, Request
  <2>3. pc = "top" /\ reading = "no"
    BY DEF Init
  <2> QED
    BY <2>1, <2>2, <2>3 DEF Grounded, Serving
<1>3. Aligned /\ Accounted
  BY DEF Init, Aligned, Accounted, Fresh, NextAt, Serving
<1> QED
  BY <1>1, <1>2, <1>3 DEF IndInv

(* The request being served, as the arithmetic of the invariant sees it *)
LEMMA ReqFacts ==
    ASSUME TypeOK, cur > 0
    PROVE  /\ Req \in Request
           /\ Req.at \in Nat /\ BodyAt(Req) \in Nat /\ EndOf(Req) \in Nat
           /\ Req.at < BodyAt(Req)
           /\ EndOf(Req) = BodyAt(Req) + Req.size
           /\ Req.size \in Nat
           /\ Req.framing = "none" => Req.size = 0
           /\ NextAt = EndOf(Req)
<1> cur \in 1..Len(script) /\ script \in Scripts
  BY ScriptFacts DEF TypeOK
<1>1. Req \in Request /\ (Req.framing = "none" => Req.size = 0)
  BY ScriptFacts DEF Req
<1>2. Req.at \in Nat /\ Req.size \in Nat
  BY <1>1 DEF Request
<1> QED
  BY <1>1, <1>2, HeadAssumption DEF BodyAt, EndOf, NextAt

(* A step of the client or of its surroundings *)
LEMMA EnvironmentStep ==
    ASSUME IndInv, Receive \/ GoAway \/ Expire \/ Stop
    PROVE  IndInv'
<1> TypeOK /\ Grounded /\ Aligned /\ Accounted
  BY DEF IndInv
<1>1. CASE Receive
  <2>1. reader \in Reader /\ reader.end \in Nat
    BY DEF TypeOK, Reader
  <2>2. /\ reader' \in Reader /\ reader'.pos = reader.pos
        /\ reader.end <= reader'.end /\ reader'.end <= EndOf(script[Len(script)])
    <3>1. CASE reader' = PullEnd(reader)
      BY <2>1, <3>1, ReaderFacts DEF Grounded
    <3>2. CASE \E upTo \in (reader.end + 1)..EndOf(script[Len(script)]) :
                 Willing(upTo) /\ reader' = Pull(reader, upTo)
      <4>1. PICK upTo \in (reader.end + 1)..EndOf(script[Len(script)]) : reader' = Pull(reader, upTo)
        BY <3>2
      <4>2. upTo \in Nat /\ reader.end <= upTo /\ upTo <= EndOf(script[Len(script)])
        BY <2>1, <4>1
      <4> QED
        BY <2>1, <4>1, <4>2, ReaderFacts
    <3> QED
      BY <1>1, <3>1, <3>2 DEF Receive
  <2>3. TypeOK'
    BY <1>1, <2>2 DEF Receive, TypeOK
  <2>4. reader.pos \in Nat /\ reader'.end \in Nat /\ body.held \in Nat
    BY <2>1, <2>2 DEF Reader, TypeOK, Body
  <2>5. Grounded'
    BY <1>1, <2>1, <2>2, <2>4, ReqFacts DEF Receive, Grounded, Req, NextAt, EndOf, BodyAt, Serving
  <2>6. Aligned' /\ Accounted'
    BY <1>1, <2>2 DEF Receive, Aligned, Accounted, Req, NextAt, EndOf, BodyAt
  <2> QED
    BY <2>3, <2>5, <2>6 DEF IndInv
<1>2. CASE GoAway
  <2>1. TypeOK'
    BY <1>2 DEF GoAway, TypeOK
  <2> QED
    BY <1>2, <2>1 DEF IndInv, GoAway, Grounded, Aligned, Accounted, Req, NextAt, EndOf, BodyAt
<1>3. CASE Expire
  <2>1. TypeOK'
    BY <1>3 DEF Expire, TypeOK
  <2> QED
    BY <1>3, <2>1 DEF IndInv, Expire, Grounded, Aligned, Accounted, Req, NextAt, EndOf, BodyAt
<1>4. CASE Stop
  <2>1. TypeOK'
    BY <1>4 DEF Stop, TypeOK
  <2> QED
    BY <1>4, <2>1 DEF IndInv, Stop, Grounded, Aligned, Accounted, Req, NextAt, EndOf, BodyAt
<1> QED
  BY <1>1, <1>2, <1>3, <1>4

(* Writing and flushing keep the messages messages. *)
LEMMA WriteFacts ==
    ASSUME TypeOK, NEW msgs \in Seq(Message)
    PROVE  /\ Write(msgs) => wire' \in Seq(Message) /\ pending' \in Seq(Message)
           /\ Flush(msgs) => wire' \in Seq(Message) /\ pending' \in Seq(Message)
           /\ Silent => wire' \in Seq(Message) /\ pending' \in Seq(Message)
           /\ \A l \in Locations : AfterFlush(l) \subseteq Locations
<1>1. wire \in Seq(Message) /\ pending \in Seq(Message)
  BY DEF TypeOK
<1>2. pending \o msgs \in Seq(Message) /\ wire \o pending \o msgs \in Seq(Message)
  BY <1>1
<1>3. \A l \in Locations : AfterFlush(l) \subseteq Locations
  BY DEF AfterFlush, Locations
<1>4. Write(msgs) => wire' \in Seq(Message) /\ pending' \in Seq(Message)
  BY <1>1, <1>2 DEF Write
<1>5. Flush(msgs) => wire' \in Seq(Message) /\ pending' \in Seq(Message)
  BY <1>1, <1>2 DEF Flush
<1>6. Silent => wire' \in Seq(Message) /\ pending' \in Seq(Message)
  BY <1>1 DEF Silent
<1> QED
  BY <1>3, <1>4, <1>5, <1>6

(* The steps of the loop up to the handler *)
LEMMA LoopStep ==
    ASSUME IndInv,
           Top \/ ReadFails \/ ReadDone \/ ParseIncomplete \/ ParseFails \/ Parsed
    PROVE  IndInv'
<1> TypeOK /\ Grounded /\ Aligned /\ Accounted
  BY DEF IndInv
<1>1. CASE Top
  <2>1. TypeOK'
    BY <1>1 DEF Top, LoopUnchanged, TypeOK, Locations
  <2> QED
    BY <1>1, <2>1 DEF IndInv, Top, LoopUnchanged, Grounded, Aligned, Accounted, Serving,
                      Req, NextAt, EndOf, BodyAt
<1>2. CASE ReadFails
  <2>1. TypeOK'
    BY <1>2 DEF ReadFails, LoopUnchanged, TypeOK, Locations
  <2> QED
    BY <1>2, <2>1 DEF IndInv, ReadFails, LoopUnchanged, Grounded, Aligned, Accounted, Serving,
                      Req, NextAt, EndOf, BodyAt
<1>3. CASE ReadDone
  <2>1. TypeOK'
    BY <1>3 DEF ReadDone, LoopUnchanged, TypeOK, Locations
  <2> QED
    BY <1>3, <2>1 DEF IndInv, ReadDone, LoopUnchanged, Grounded, Aligned, Accounted, Serving,
                      Req, NextAt, EndOf, BodyAt
<1>4. CASE ParseIncomplete
  <2>1. reader' \in Reader /\ reader'.pos = reader.pos /\ reader'.end = reader.end
    BY <1>4, ReaderFacts DEF ParseIncomplete, TypeOK
  <2>2. TypeOK'
    BY <1>4, <2>1 DEF ParseIncomplete, AfterPartial, LoopUnchanged, TypeOK, Locations
  <2> QED
    BY <1>4, <2>1, <2>2 DEF IndInv, ParseIncomplete, AfterPartial, LoopUnchanged, Grounded, Aligned, Accounted,
                            Serving, Req, NextAt, EndOf, BodyAt
<1>5. (ParseFails \/ Parsed) => cur < Len(script)
  <2> SUFFICES ASSUME ParseFails \/ Parsed, cur >= Len(script) PROVE FALSE
    BY ScriptFacts DEF TypeOK
  <2>1. cur = Len(script) /\ cur > 0
    BY ScriptFacts DEF TypeOK
  <2>2. reader.pos = EndOf(script[Len(script)])
    BY <2>1, ReqFacts DEF ParseFails, Parsed, Aligned, Req
  <2>3. reader.pos \in Nat /\ reader.end \in Nat
    BY DEF TypeOK, Reader
  <2> QED
    BY <2>2, <2>3, HeadAssumption DEF ParseFails, Parsed, Available, Grounded
<1>6. CASE ParseFails
  <2>1. TypeOK'
    BY <1>5, <1>6, ScriptFacts DEF ParseFails, LoopUnchanged, TypeOK, Locations, Upcoming
  <2> QED
    BY <1>6, <2>1 DEF IndInv, ParseFails, LoopUnchanged, Grounded, Aligned, Accounted, Serving,
                      EndOf, BodyAt
<1>7. CASE Parsed
  <2>1. /\ cur' = cur + 1 /\ cur' \in 1..Len(script) /\ script' = script
        /\ reader' = reader /\ reader.pos = script[cur'].at /\ Req' = script[cur']
    BY <1>5, <1>7, ScriptFacts DEF Parsed, AtRequest, Upcoming, TypeOK, Req
  <2>2. script[cur'] \in Request
    BY <2>1, ScriptFacts DEF TypeOK
  <2>3. /\ body' \in Body
        /\ body'.state = "pending" /\ body'.framing = "none" /\ body'.held = 0
        /\ body'.present = (script[cur'].framing # "none")
    BY <1>7, <2>1, <2>2 DEF Parsed, Upcoming, Applied, AppliedTo, NoBody, Body, Request
  <2>4. TypeOK'
    BY <1>7, <2>1, <2>3 DEF Parsed, TypeOK, Locations
  <2>5. reader.pos \in Nat /\ reader.end \in Nat /\ script[cur'].at \in Nat
    BY <2>2 DEF TypeOK, Reader, Request
  <2>6. BodyAt(Req)' <= reader'.end
    BY <1>7, <2>1, <2>5, HeadAssumption DEF Parsed, Available, BodyAt, Grounded
  <2>7. Grounded'
    BY <1>7, <2>1, <2>3, <2>5, <2>6 DEF Parsed, Grounded, Serving, EndOf, BodyAt
  <2>8. Aligned' /\ Accounted'
    BY <1>7, <2>1, <2>3 DEF Parsed, Aligned, Accounted, Serving
  <2> QED
    BY <2>4, <2>7, <2>8 DEF IndInv
<1> QED
  BY <1>1, <1>2, <1>3, <1>4, <1>6, <1>7

(* The fields of the body, and of the reader, after the steps of a framing *)
LEMMA BodyFacts ==
    ASSUME IndInv, pc \in Serving
    PROVE  /\ cur \in 1..Len(script)
           /\ body \in Body /\ body.left \in Nat /\ body.held \in Nat
           /\ reader \in Reader /\ reader.pos \in Nat /\ reader.end \in Nat
           /\ Available(reader) \in Nat
           /\ Released \in Reader /\ Released.end = reader.end
           /\ body.state = "pending" => Released.pos = BodyAt(Req) /\ BodyAt(Req) <= reader.end
           /\ body.state # "pending" => Released = reader
           /\ Behind(body, reader) \in Reader /\ Behind(body, reader).end = reader.end
           /\ body.held # 0 => Behind(body, reader).pos = body.held
           /\ body.held = 0 => Behind(body, reader) = reader
<1> TypeOK /\ Grounded /\ Aligned /\ Accounted
  BY DEF IndInv
<1>1. cur \in 1..Len(script) /\ cur > 0
  BY ScriptFacts DEF TypeOK, Grounded
<1>2. body \in Body /\ body.left \in Nat /\ body.held \in Nat
  BY DEF TypeOK, Body
<1>3. reader \in Reader /\ reader.pos \in Nat /\ reader.end \in Nat
  BY DEF TypeOK, Reader
<1>4. Available(reader) \in Nat
  BY <1>3 DEF Available, Grounded
<1>5. BodyAt(Req) \in Nat
  BY <1>1, ReqFacts
<1>6. /\ Released \in Reader /\ Released.end = reader.end
      /\ body.state = "pending" => Released.pos = BodyAt(Req)
      /\ body.state # "pending" => Released = reader
  BY <1>3, <1>5, ReaderFacts DEF Released
<1>7. /\ Behind(body, reader) \in Reader /\ Behind(body, reader).end = reader.end
      /\ body.held # 0 => Behind(body, reader).pos = body.held
      /\ body.held = 0 => Behind(body, reader) = reader
  BY <1>2, <1>3, ReaderFacts DEF Behind
<1>8. body.state = "pending" => BodyAt(Req) <= reader.end
  BY DEF Grounded
<1> QED
  BY <1>1, <1>2, <1>3, <1>4, <1>6, <1>7, <1>8

LEMMA ResolvedFacts ==
    ASSUME IndInv, pc \in Serving, Req.framing # "unsupported"
    PROVE  /\ Resolved \in Body
           /\ Resolved.state = "opened" /\ Resolved.framing = Req.framing
           /\ Resolved.left = Req.size
           /\ Resolved.held = body.held /\ Resolved.present = body.present
<1>1. body \in Body /\ Req \in Request
  BY BodyFacts, ReqFacts DEF IndInv
<1>2. Req.framing \in {"none", "length", "chunked"} /\ Req.size \in Nat
  BY <1>1 DEF Request, Framings
<1> QED
  BY <1>1, <1>2 DEF Resolved, Body

(* What a step of a read leaves: it takes, or hands out, part of the body. *)
LEMMA TakeFacts ==
    ASSUME IndInv, pc \in Serving, NEW n \in Nat,
           body.state = "opened", body.held = 0,
           n <= body.left, n <= Available(reader)
    PROVE  /\ Take(n) =>
                /\ reader' \in Reader /\ reader'.end = reader.end
                /\ reader'.pos = reader.pos + n /\ reader'.pos <= reader.end
                /\ body' \in Body /\ body'.left = body.left - n
                /\ body'.state = "opened" /\ body'.held = 0
                /\ body'.framing = body.framing /\ body'.present = body.present
           /\ Hold(n) =>
                /\ reader' \in Reader
                /\ reader'.pos = reader.pos /\ reader'.end = reader.end
                /\ body' \in Body /\ body'.left = body.left - n
                /\ body'.state = "opened" /\ body'.held = reader.pos + n
                /\ body'.held <= reader.end
                /\ body'.framing = body.framing /\ body'.present = body.present
<1>1. /\ body \in Body /\ body.left \in Nat /\ reader \in Reader
      /\ reader.pos \in Nat /\ reader.end \in Nat /\ Available(reader) \in Nat
  BY BodyFacts
<1>2. reader.pos + n \in Nat /\ body.left - n \in Nat /\ reader.pos + n <= reader.end
  BY <1>1 DEF Available
<1>3. Take(n) => /\ reader' \in Reader /\ reader'.end = reader.end
                 /\ reader'.pos = reader.pos + n /\ reader'.pos <= reader.end
  <2>1. Take(n) => reader' = Consume(reader, reader.pos + n)
    BY DEF Take
  <2>2. LET c == Consume(reader, reader.pos + n)
        IN  c \in Reader /\ c.end = reader.end /\ c.pos = reader.pos + n
    BY <1>1, <1>2, ReaderFacts
  <2> QED
    BY <1>2, <2>1, <2>2
<1>4. Take(n) => /\ body' \in Body /\ body'.left = body.left - n
                 /\ body'.state = "opened" /\ body'.held = 0
                 /\ body'.framing = body.framing /\ body'.present = body.present
  BY <1>1, <1>2 DEF Take, Body
<1>5. Hold(n) => /\ reader' \in Reader
                 /\ reader'.pos = reader.pos /\ reader'.end = reader.end
  BY <1>1, UnadvancedFacts DEF Hold
<1>6. Hold(n) => /\ body' \in Body /\ body'.left = body.left - n
                 /\ body'.state = "opened" /\ body'.held = reader.pos + n
                 /\ body'.held <= reader.end
                 /\ body'.framing = body.framing /\ body'.present = body.present
  BY <1>1, <1>2 DEF Hold, Body
<1> QED
  BY <1>3, <1>4, <1>5, <1>6

(* A step of a handler keeps the invariant if the reader and the body it     *)
(* leaves account for the request as before.                                *)
LEMMA HandlerKeeps ==
    ASSUME IndInv, pc \in Serving, pc' \in {"handle", "write"},
           UNCHANGED <<script, cur>>, TypeOK',
           reader'.end = reader.end, reader'.pos <= reader.end,
           body'.held <= reader.end,
           reading' # "no" => body'.state = "opened" /\ body'.held = 0 /\ body'.left > 0,
           body'.state # "upgraded" =>
                /\ body.state # "upgraded" /\ body'.present = body.present
                /\ body'.state = "pending" =>
                    /\ body.state = "pending" /\ reader' = reader
                    /\ body'.framing = body.framing /\ body'.held = body.held,
           body'.state = "opened" =>
                /\ body'.framing = Req.framing
                /\ ~body'.present => body'.held = 0 /\ body'.left = 0
                /\ body'.held # 0 => reader'.pos < body'.held
                /\ (IF body'.held # 0 THEN body'.held ELSE reader'.pos) + body'.left = EndOf(Req)
    PROVE  IndInv'
<1> TypeOK /\ Grounded /\ Aligned /\ Accounted
  BY DEF IndInv
<1>1. Req' = Req /\ NextAt' = NextAt /\ EndOf(Req)' = EndOf(Req) /\ BodyAt(Req)' = BodyAt(Req)
      /\ EndOf(script[Len(script)])' = EndOf(script[Len(script)])
  BY DEF Req, NextAt, EndOf, BodyAt
<1>2. cur > 0 /\ pc' \notin {"top", "reading", "parse", "next"}
  BY DEF Grounded
<1>3. body'.state \in {"pending", "opened", "upgraded"}
  BY DEF TypeOK, Body
<1>4. Aligned'
  BY <1>2 DEF Aligned
<1>5. Accounted'
  BY <1>1 DEF Accounted
<1>6. Grounded'
  BY <1>1, <1>2, <1>3 DEF Grounded, Serving
<1> QED
  BY <1>4, <1>5, <1>6 DEF IndInv

(* What a handler does with the body keeps the invariant. *)
LEMMA OpenStep ==
    ASSUME IndInv, OpenBody \/ Upgrade \/ ReadUpgraded
    PROVE  IndInv'
<1> TypeOK /\ Grounded /\ Aligned /\ Accounted
  BY DEF IndInv
<1>0. /\ pc \in Serving /\ pc' \in {"handle", "write"} /\ reading' = "no"
      /\ UNCHANGED <<script, cur, pc, wire, pending, reading>>
  BY DEF OpenBody, Upgrade, ReadUpgraded, HandlerUnchanged, Serving, Grounded, TypeOK
<1>1. Req \in Request /\ EndOf(Req) = BodyAt(Req) + Req.size /\ BodyAt(Req) \in Nat
      /\ Req.size \in Nat /\ (Req.framing = "none" => Req.size = 0)
  BY <1>0, BodyFacts, ReqFacts
<1>2. CASE OpenBody
  <2>1. body.state = "pending" /\ body.held = 0 /\ Req.framing # "unsupported"
    BY <1>0, <1>2 DEF OpenBody, Grounded
  <2>2. reader' = Released /\ body' = Resolved
    BY <1>2 DEF OpenBody
  <2>3. TypeOK'
    BY <1>0, <1>2, <2>1, <2>2, BodyFacts, ResolvedFacts DEF OpenBody, HandlerUnchanged, TypeOK
  <2>4. /\ reader'.end = reader.end /\ reader'.pos = BodyAt(Req) /\ reader'.pos <= reader.end
        /\ body'.state = "opened" /\ body'.held = 0 /\ body'.framing = Req.framing
        /\ body'.left = Req.size /\ body'.present = body.present
    BY <1>0, <2>1, <2>2, BodyFacts, ResolvedFacts
  <2>5. body'.held <= reader.end /\ (~body'.present => body'.left = 0)
    BY <1>0, <1>1, <2>1, <2>4, BodyFacts DEF Grounded
  <2>6. (IF body'.held # 0 THEN body'.held ELSE reader'.pos) + body'.left = EndOf(Req)
    BY <1>1, <2>4
  <2> QED
    BY <1>0, <2>1, <2>3, <2>4, <2>5, <2>6, HandlerKeeps
<1>3. CASE Upgrade
  <2>1. /\ body'.state = "upgraded" /\ body'.held = body.held /\ body' \in Body
        /\ reader' = Released
    BY <1>3 DEF Upgrade, TypeOK, Body
  <2>2. TypeOK'
    BY <1>0, <1>3, <2>1, BodyFacts DEF Upgrade, HandlerUnchanged, TypeOK
  <2>3. /\ reader'.end = reader.end /\ reader'.pos <= reader.end
        /\ body.held <= reader.end
    BY <1>0, <2>1, BodyFacts DEF Grounded, Accounted
  <2> QED
    BY <1>0, <1>3, <2>1, <2>2, <2>3, HandlerKeeps DEF Upgrade
<1>4. CASE ReadUpgraded
  <2>1. PICK upTo \in (reader.pos + 1)..reader.end : reader' = Consume(reader, upTo)
    BY <1>4 DEF ReadUpgraded
  <2>2. upTo \in Nat /\ upTo <= reader.end /\ body' = body /\ body.state = "upgraded"
    BY <1>0, <1>4, BodyFacts DEF ReadUpgraded
  <2>3. reader' \in Reader /\ reader'.end = reader.end /\ reader'.pos <= reader.end
    BY <1>0, <2>1, <2>2, BodyFacts, ReaderFacts
  <2>4. TypeOK'
    BY <1>0, <1>4, <2>2, <2>3 DEF ReadUpgraded, HandlerUnchanged, TypeOK
  <2>5. body.held <= reader.end
    BY <1>0 DEF Grounded
  <2> QED
    BY <1>0, <2>2, <2>3, <2>4, <2>5, HandlerKeeps
<1> QED
  BY <1>2, <1>3, <1>4

(* A read of the body, up to its wait and from there on *)
LEMMA ReadStep ==
    ASSUME IndInv,
           \/ \E how \in {"some", "all"} : StartRead(how)
           \/ CopyHeldChunk \/ ReadSome \/ ReadAll \/ ReadOn \/ ReadThrows
    PROVE  IndInv'
<1> TypeOK /\ Grounded /\ Aligned /\ Accounted
  BY DEF IndInv
<1>0. /\ pc \in Serving /\ pc' \in {"handle", "write"}
      /\ UNCHANGED <<script, client, pc, remaining, expired, running, cur, mode>>
  BY DEF StartRead, CopyHeldChunk, ReadSome, ReadAll, ReadOn, ReadThrows, HandlerUnchanged,
         InHandler, Serving
<1>1. /\ body \in Body /\ body.left \in Nat /\ body.held \in Nat /\ body.held <= reader.end
      /\ reader \in Reader /\ reader.pos \in Nat /\ reader.end \in Nat
      /\ reader.pos <= reader.end /\ Available(reader) \in Nat
  BY <1>0, BodyFacts DEF Grounded
<1>2. EndOf(Req) \in Nat
  BY <1>0, BodyFacts, ReqFacts
<1>3. reading' \in {"no", "some", "all"}
  BY DEF StartRead, CopyHeldChunk, ReadSome, ReadAll, ReadOn, ReadThrows, TypeOK
<1>4. wire' \in Seq(Message) /\ pending' \in Seq(Message)
  <2>1. <<Continue>> \in Seq(Message)
    BY MessageFacts
  <2>2. Flush(<<Continue>>) \/ Silent
    BY DEF StartRead, CopyHeldChunk, ReadSome, ReadAll, ReadOn, ReadThrows, Silent
  <2> QED
    BY <2>1, <2>2, WriteFacts
<1>5. (body' \in Body /\ reader' \in Reader) => TypeOK'
  BY <1>0, <1>3, <1>4 DEF TypeOK
<1>6. CASE (\E how \in {"some", "all"} : StartRead(how)) \/ CopyHeldChunk
  <2>1. /\ reader' = Behind(body, reader) /\ body.state = "opened"
        /\ body' \in Body /\ body'.held = 0 /\ body'.left = body.left
        /\ body'.state = "opened" /\ body'.framing = body.framing
        /\ body'.present = body.present
        /\ reading' # "no" => body'.left > 0
    <3>1. CASE \E how \in {"some", "all"} : StartRead(how)
      <4>1. /\ reader' = Behind(body, reader) /\ body.state = "opened" /\ body.left > 0
            /\ body' = [body EXCEPT !.held = 0, !.armed = FALSE, !.sent = @ \/ body.armed]
        BY <3>1 DEF StartRead
      <4>2. (body.sent \/ body.armed) \in BOOLEAN
        OBVIOUS
      <4> QED
        BY <1>1, <4>1, <4>2 DEF Body
    <3>2. CASE CopyHeldChunk
      <4>1. /\ reader' = Behind(body, reader) /\ body.state = "opened"
            /\ body' = [body EXCEPT !.held = 0] /\ reading' = "no"
        BY <3>2 DEF CopyHeldChunk
      <4> QED
        BY <1>1, <4>1 DEF Body
    <3> QED
      BY <1>6, <3>1, <3>2
  <2>2. /\ reader' \in Reader /\ reader'.end = reader.end /\ reader'.pos <= reader.end
        /\ reader'.pos = IF body.held # 0 THEN body.held ELSE reader.pos
    BY <1>0, <1>1, <2>1, BodyFacts
  <2>3. body.framing = Req.framing /\ body.present
    <3>1. body.left > 0 \/ body.held # 0
      BY <1>6 DEF StartRead, CopyHeldChunk
    <3> QED
      BY <1>0, <1>1, <2>1, <3>1 DEF Grounded
  <2>4. reader'.pos + body'.left = EndOf(Req)
    BY <1>0, <2>1, <2>2 DEF Accounted
  <2>5. TypeOK' /\ body'.held <= reader.end
    BY <1>1, <1>5, <2>1, <2>2
  <2> QED
    BY <1>0, <2>1, <2>2, <2>3, <2>4, <2>5, HandlerKeeps
<1>7. CASE ReadSome \/ ReadAll \/ ReadOn
  <2>1. body.state = "opened" /\ body.held = 0 /\ body.left > 0
    BY <1>7 DEF ReadSome, ReadAll, ReadOn, Grounded
  <2>2. \/ \E n \in Nat : /\ n <= body.left /\ n <= Available(reader)
                         /\ \/ Take(n) /\ (reading' # "no" => n < body.left)
                            \/ Hold(n) /\ reading' = "no" /\ n > 0
        \/ reader' = ExamineAll(reader) /\ body' = body
    <3>1. CASE ReadSome
      <4>1. Least(body.left, Available(reader)) <= body.left
            /\ Least(body.left, Available(reader)) <= Available(reader)
            /\ Least(body.left, Available(reader)) \in Nat
        BY <1>1 DEF Least
      <4> QED
        BY <1>1, <2>1, <3>1, <4>1 DEF ReadSome
    <3>2. CASE ReadAll
      <4>1. /\ body.left <= Available(reader) /\ reading' = "no"
            /\ Take(body.left) \/ Hold(body.left)
        BY <1>1, <3>2 DEF ReadAll
      <4> QED
        BY <1>1, <2>1, <4>1
    <3>3. CASE ReadOn
      BY <1>1, <3>3 DEF ReadOn
    <3> QED
      BY <1>7, <3>1, <3>2, <3>3
  <2>3. body.framing = Req.framing /\ body.present /\ reader.pos + body.left = EndOf(Req)
    BY <1>0, <1>1, <2>1 DEF Grounded, Accounted
  <2>4. CASE reader' = ExamineAll(reader) /\ body' = body
    <3>1. reader' \in Reader /\ reader'.pos = reader.pos /\ reader'.end = reader.end
      BY <1>1, <2>4, ReaderFacts
    <3>2. TypeOK'
      BY <1>1, <1>5, <2>4, <3>1
    <3> QED
      BY <1>0, <1>1, <2>1, <2>3, <2>4, <3>1, <3>2, HandlerKeeps
  <2>5. ASSUME NEW n \in Nat, n <= body.left, n <= Available(reader), Take(n),
               reading' # "no" => n < body.left
        PROVE  IndInv'
    <3>1. /\ reader' \in Reader /\ reader'.end = reader.end
          /\ reader'.pos = reader.pos + n /\ reader'.pos <= reader.end
          /\ body' \in Body /\ body'.left = body.left - n
          /\ body'.state = "opened" /\ body'.held = 0
          /\ body'.framing = body.framing /\ body'.present = body.present
      BY <1>0, <2>1, <2>5, TakeFacts
    <3>2. TypeOK' /\ body'.held <= reader.end
      BY <1>1, <1>5, <3>1
    <3>3. reader'.pos + body'.left = EndOf(Req)
      BY <1>1, <2>3, <3>1
    <3>4. reading' # "no" => body'.left > 0
      BY <1>1, <2>5, <3>1
    <3> QED
      BY <1>0, <2>1, <2>3, <3>1, <3>2, <3>3, <3>4, HandlerKeeps
  <2>6. ASSUME NEW n \in Nat, n <= body.left, n <= Available(reader), Hold(n),
               reading' = "no", n > 0
        PROVE  IndInv'
    <3>1. /\ reader' \in Reader
          /\ reader'.pos = reader.pos /\ reader'.end = reader.end
          /\ body' \in Body /\ body'.left = body.left - n
          /\ body'.state = "opened" /\ body'.held = reader.pos + n
          /\ body'.held <= reader.end
          /\ body'.framing = body.framing /\ body'.present = body.present
      BY <1>0, <2>1, <2>6, TakeFacts
    <3>2. TypeOK'
      BY <1>1, <1>5, <3>1
    <3>3. body'.held # 0 /\ reader'.pos < body'.held
          /\ body'.held + body'.left = EndOf(Req)
      BY <1>1, <2>3, <2>6, <3>1
    <3> QED
      BY <1>0, <1>1, <2>1, <2>3, <2>6, <3>1, <3>2, <3>3, HandlerKeeps
  <2> QED
    BY <2>2, <2>4, <2>5, <2>6
<1>8. CASE ReadThrows
  <2>1. /\ body' = body /\ reading' = "no"
        /\ body.state = "opened" /\ body.held = 0 /\ body.left > 0
    BY <1>8 DEF ReadThrows, Grounded
  <2>0. reader' \in Reader /\ reader'.pos = reader.pos /\ reader'.end = reader.end
    <3>1. reader' \in {reader, Unadvanced(reader), ExamineAll(reader)}
      BY <1>8 DEF ReadThrows
    <3> QED
      BY <1>1, <3>1, ReaderFacts, UnadvancedFacts
  <2>2. TypeOK'
    BY <1>1, <1>5, <2>0, <2>1
  <2>3. body.framing = Req.framing /\ body.present /\ reader.pos + body.left = EndOf(Req)
    BY <1>0, <1>1, <2>1 DEF Grounded, Accounted
  <2> QED
    BY <1>0, <1>1, <2>0, <2>1, <2>2, <2>3, HandlerKeeps
<1> QED
  BY <1>6, <1>7, <1>8

(* A step that gives the connection up keeps the invariant. *)
LEMMA LeaveKeeps ==
    ASSUME IndInv, TypeOK', pc' \in {"closed", "error"}, reading' = "no",
           UNCHANGED <<script, cur>>, reader'.end = reader.end, reader'.pos <= reader.end
    PROVE  IndInv'
<1> TypeOK /\ Grounded
  BY DEF IndInv
<1>1. Aligned' /\ Accounted'
  BY DEF Aligned, Accounted, Serving
<1>2. Grounded'
  BY DEF Grounded, Serving, EndOf, BodyAt
<1> QED
  BY <1>1, <1>2 DEF IndInv

(* The response *)
LEMMA ResponseStep ==
    ASSUME IndInv,
           \/ \E m \in {"keep", "close", "upgrade"} : Respond(m)
           \/ Throw \/ FlushContent \/ \E active \in BOOLEAN : EndResponse(active)
    PROVE  IndInv'
<1> TypeOK /\ Grounded /\ Aligned /\ Accounted
  BY DEF IndInv
<1>0. /\ pc \in {"handle", "write"} /\ pc \in Serving /\ reading' = "no"
      /\ UNCHANGED <<script, client, remaining, running, cur, reading, reader, expired>>
  BY DEF Respond, Throw, FlushContent, EndResponse, ServerUnchanged, Serving
<1>1. /\ body \in Body /\ body.held \in Nat /\ body.held <= reader.end
      /\ reader.pos \in Nat /\ reader.end \in Nat /\ reader.pos <= reader.end
  BY <1>0, BodyFacts DEF Grounded
<1>2. /\ <<>> \in Seq(Message) /\ <<End>> \in Seq(Message)
      /\ \A keep \in BOOLEAN : <<HeadOf(keep)>> \in Seq(Message)
  BY MessageFacts
<1>3. CASE \E m \in {"keep", "close", "upgrade"} : Respond(m)
  <2>1. PICK m \in {"keep", "close", "upgrade"} : Respond(m)
    BY <1>3
  <2>2. Req \in Request /\ (Req.keep /\ m = "keep") \in BOOLEAN
    BY <1>0, BodyFacts, ReqFacts
  <2>3. wire' \in Seq(Message) /\ pending' \in Seq(Message)
    BY <1>2, <2>1, <2>2, WriteFacts DEF Respond
  <2>4. mode' \in {"keep", "close", "upgrade"} /\ pc' = "write"
    BY <2>1 DEF Respond, ModeOf
  <2>5. body' = [body EXCEPT !.armed = FALSE]
    BY <2>1 DEF Respond, Disarmed
  <2>6. /\ body' \in Body /\ body'.held = body.held /\ body'.left = body.left
        /\ body'.state = body.state /\ body'.framing = body.framing
        /\ body'.present = body.present
    BY <1>1, <2>5 DEF Body
  <2>7. TypeOK'
    BY <1>0, <2>3, <2>4, <2>6 DEF TypeOK, Locations
  <2>8. /\ body.state = "opened" =>
              /\ body.framing = Req.framing
              /\ ~body.present => body.held = 0 /\ body.left = 0
              /\ body.held # 0 => reader.pos < body.held
              /\ (IF body.held # 0 THEN body.held ELSE reader.pos) + body.left = EndOf(Req)
    BY <1>0 DEF Grounded, Accounted
  <2> QED
    BY <1>0, <1>1, <2>4, <2>6, <2>7, <2>8, HandlerKeeps
<1>4. CASE Throw
  <2>1. TypeOK'
    BY <1>0, <1>4 DEF Throw, Silent, TypeOK, Locations
  <2> QED
    BY <1>0, <1>1, <1>4, <2>1, LeaveKeeps DEF Throw
<1>5. CASE FlushContent
  <2>1. wire' \in Seq(Message) /\ pending' \in Seq(Message)
    BY <1>2, <1>5, WriteFacts DEF FlushContent
  <2>2. TypeOK' /\ body' = body /\ pc' = pc
    BY <1>0, <1>5, <2>1 DEF FlushContent, TypeOK
  <2>3. /\ body.state = "opened" =>
              /\ body.framing = Req.framing
              /\ ~body.present => body.held = 0 /\ body.left = 0
              /\ body.held # 0 => reader.pos < body.held
              /\ (IF body.held # 0 THEN body.held ELSE reader.pos) + body.left = EndOf(Req)
    BY <1>0 DEF Grounded, Accounted
  <2> QED
    BY <1>0, <1>1, <2>2, <2>3, HandlerKeeps
<1>6. CASE \E active \in BOOLEAN : EndResponse(active)
  <2>1. PICK active \in BOOLEAN : EndResponse(active)
    BY <1>6
  <2>2. pc' \in {"closed", "finish", "error"} /\ UNCHANGED <<body, mode>>
    BY <2>1 DEF EndResponse, AfterFlush
  <2>3. wire' \in Seq(Message) /\ pending' \in Seq(Message)
    <3>1. PICK msgs \in Seq(Message) : Write(msgs) \/ Flush(msgs) \/ Silent
      BY <1>2, <2>1 DEF EndResponse
    <3> QED
      BY <3>1, WriteFacts
  <2>4. TypeOK'
    BY <1>0, <2>2, <2>3 DEF TypeOK, Locations
  <2>5. CASE pc' = "finish"
    <3>1. Aligned' /\ Accounted'
      BY <1>0, <2>2, <2>5 DEF Aligned, Accounted, Req, EndOf, BodyAt
    <3>2. Grounded'
      BY <1>0, <2>2, <2>5 DEF Grounded, Req, EndOf, BodyAt, Serving
    <3> QED
      BY <2>4, <3>1, <3>2 DEF IndInv
  <2> QED
    BY <1>0, <1>1, <2>2, <2>4, <2>5, LeaveKeeps
<1> QED
  BY <1>3, <1>4, <1>5, <1>6

(* A step that leaves the reader at the end of the body, or what is left of *)
(* the body in front of it, keeps the invariant.                            *)
LEMMA FinishKeeps ==
    ASSUME IndInv, pc \in Serving, reading' = "no", TypeOK', UNCHANGED <<script, cur>>,
           reader'.end = reader.end, reader'.pos <= reader.end,
           \/ pc' = "next" /\ reader'.pos = EndOf(Req)
           \/ /\ pc' = "skip" /\ reader'.pos + body'.left = EndOf(Req)
              /\ body'.state = "opened" /\ body'.held = 0
              /\ body'.framing = Req.framing /\ Req.framing # "none" /\ body'.present
    PROVE  IndInv'
<1> TypeOK /\ Grounded /\ Aligned /\ Accounted
  BY DEF IndInv
<1>1. /\ Req' = Req /\ NextAt' = NextAt /\ EndOf(Req)' = EndOf(Req) /\ BodyAt(Req)' = BodyAt(Req)
      /\ EndOf(script[Len(script)])' = EndOf(script[Len(script)])
  BY DEF Req, NextAt, EndOf, BodyAt
<1>2. cur > 0 /\ NextAt = EndOf(Req) /\ reader.end \in Nat
  BY BodyFacts, ReqFacts DEF Grounded
<1>3. Aligned'
  BY DEF Aligned
<1>4. Accounted'
  BY <1>1 DEF Accounted, Serving
<1>5. /\ pc' = "skip" => body'.held <= reader'.end
      /\ reader'.end <= EndOf(script[Len(script)])' /\ reader'.pos <= reader'.end /\ cur' > 0
  BY <1>1, <1>2 DEF Grounded
<1>6. Grounded'
  BY <1>1, <1>2, <1>5 DEF Grounded, Serving
<1> QED
  BY <1>3, <1>4, <1>6 DEF IndInv

(* FinishAsync up to the skipping of what is left *)
LEMMA FinishStep ==
    ASSUME IndInv, FinishImpossible \/ FinishBodiless \/ FinishBody
    PROVE  IndInv'
<1> TypeOK /\ Grounded /\ Aligned /\ Accounted
  BY DEF IndInv
<1>0. /\ pc = "finish" /\ pc \in Serving /\ reading' = "no"
      /\ UNCHANGED <<script, client, remaining, running, cur, reading, mode, expired>>
  BY DEF FinishImpossible, FinishBodiless, FinishBody, ServerUnchanged, Serving, Grounded, TypeOK
<1>1. /\ body \in Body /\ body.held \in Nat /\ body.held <= reader.end /\ body.left \in Nat
      /\ reader \in Reader
      /\ reader.pos \in Nat /\ reader.end \in Nat /\ reader.pos <= reader.end
  BY <1>0, BodyFacts DEF Grounded
<1>2. /\ Req \in Request /\ EndOf(Req) = BodyAt(Req) + Req.size /\ BodyAt(Req) \in Nat
      /\ Req.size \in Nat /\ (Req.framing = "none" => Req.size = 0)
  BY <1>0, BodyFacts, ReqFacts
<1>3. wire' \in Seq(Message) /\ pending' \in Seq(Message)
  <2>1. <<>> \in Seq(Message)
    OBVIOUS
  <2>2. Flush(<<>>) \/ Silent
    BY DEF FinishImpossible, FinishBodiless, FinishBody, CloseFlushed
  <2> QED
    BY <2>1, <2>2, WriteFacts
<1>4. pc' \in {"closed", "error", "next", "skip"}
  BY DEF FinishImpossible, FinishBodiless, FinishBody, CloseFlushed, AfterFlush
<1>5. (body' \in Body /\ reader' \in Reader) => TypeOK'
  BY <1>0, <1>3, <1>4 DEF TypeOK, Locations
<1>6. CASE FinishImpossible
  <2>1. UNCHANGED <<reader, body>> /\ pc' \in {"closed", "error"}
    BY <1>6 DEF FinishImpossible, CloseFlushed, AfterFlush
  <2> QED
    BY <1>0, <1>1, <1>5, <2>1, LeaveKeeps
<1>7. CASE FinishBodiless
  <2>1. /\ body' = [body EXCEPT !.state = "opened"] /\ reader' = Released /\ pc' = "next"
        /\ ~body.present /\ body.state \in {"pending", "opened"}
    BY <1>1, <1>7 DEF FinishBodiless, Body
  <2>2. body' \in Body /\ reader' \in Reader /\ reader'.end = reader.end
    BY <1>0, <1>1, <2>1, BodyFacts DEF Body
  <2>3. reader'.pos = EndOf(Req) /\ reader'.pos <= reader.end
    <3>1. CASE body.state = "pending"
      <4>1. Req.framing = "none"
        BY <1>0, <2>1, <3>1 DEF Grounded
      <4> QED
        BY <1>0, <1>2, <2>1, <3>1, <4>1, BodyFacts
    <3>2. CASE body.state = "opened"
      <4>1. body.held = 0 /\ body.left = 0 /\ reader.pos + body.left = EndOf(Req)
        BY <1>0, <2>1, <3>2 DEF Grounded, Accounted
      <4> QED
        BY <1>0, <1>1, <1>2, <2>1, <3>2, <4>1, BodyFacts
    <3> QED
      BY <2>1, <3>1, <3>2
  <2> QED
    BY <1>0, <1>5, <2>1, <2>2, <2>3, FinishKeeps
<1>8. CASE FinishBody
  <2> DEFINE b == IF body.framing = "none" THEN Resolved ELSE body
  <2>1. /\ reader' = Behind(b, Released) /\ body' = [Disarmed(b) EXCEPT !.held = 0]
        /\ pc' \in {"next", "skip", "error"} /\ (b.left = 0 => pc' # "skip")
        /\ (b.left # 0 => pc' # "next")
        /\ body.present /\ body.state \in {"pending", "opened"}
        /\ (body.framing # "none" \/ Req.framing # "unsupported")
    BY <1>1, <1>8 DEF FinishBody, AfterFlush, Body
  <2>2. /\ Req.framing # "none"
        /\ body.state = "pending" <=> body.framing = "none"
    BY <1>0, <2>1 DEF Grounded
  <2>3. /\ b \in Body /\ b.held \in Nat /\ b.left \in Nat
        /\ b.state = "opened" /\ b.framing = Req.framing /\ b.present
        /\ Behind(b, Released) \in Reader /\ Behind(b, Released).end = reader.end
        /\ Behind(b, Released).pos + b.left = EndOf(Req)
        /\ Behind(b, Released).pos <= reader.end
    <3>1. CASE body.state = "pending"
      <4>1. b = Resolved /\ Req.framing # "unsupported" /\ body.held = 0
        BY <1>0, <2>1, <2>2, <3>1 DEF Grounded
      <4>2. /\ b \in Body /\ b.state = "opened" /\ b.framing = Req.framing /\ b.left = Req.size
            /\ b.held = 0 /\ b.present
        BY <1>0, <2>1, <4>1, ResolvedFacts
      <4>3. Behind(b, Released) = Released
        BY <4>2 DEF Behind
      <4>4. /\ Released \in Reader /\ Released.end = reader.end
            /\ Released.pos = BodyAt(Req) /\ BodyAt(Req) <= reader.end
        BY <1>0, <3>1, BodyFacts
      <4> QED
        BY <1>2, <4>2, <4>3, <4>4
    <3>2. CASE body.state = "opened"
      <4>1. b = body /\ body.framing = Req.framing
        BY <1>0, <2>2, <3>2 DEF Grounded
      <4>2. Released = reader
        BY <1>0, <3>2, BodyFacts
      <4>3. (IF body.held # 0 THEN body.held ELSE reader.pos) + body.left = EndOf(Req)
        BY <1>0, <3>2 DEF Accounted
      <4>4. /\ Behind(body, reader) \in Reader /\ Behind(body, reader).end = reader.end
            /\ body.held # 0 => Behind(body, reader).pos = body.held
            /\ body.held = 0 => Behind(body, reader) = reader
        BY <1>0, BodyFacts
      <4> QED
        BY <1>1, <2>1, <3>2, <4>1, <4>2, <4>3, <4>4
    <3> QED
      BY <2>1, <3>1, <3>2
  <2> HIDE DEF b
  <2>4. /\ body' \in Body /\ body'.held = 0 /\ body'.left = b.left /\ body'.state = "opened"
        /\ body'.framing = Req.framing /\ body'.present
    BY <2>1, <2>3 DEF Disarmed, Body
  <2>5. TypeOK'
    BY <1>5, <2>1, <2>3, <2>4
  <2>6. CASE pc' \in {"next", "skip"}
    <3>1. pc' = "next" => reader'.pos = EndOf(Req)
      BY <1>2, <2>1, <2>3, <2>6 DEF Reader
    <3> QED
      BY <1>0, <2>1, <2>2, <2>3, <2>4, <2>5, <2>6, <3>1, FinishKeeps
  <2>7. CASE pc' = "error"
    BY <1>0, <2>1, <2>3, <2>5, <2>7, LeaveKeeps
  <2> QED
    BY <2>1, <2>6, <2>7
<1> QED
  BY <1>6, <1>7, <1>8

(* The skipping of what is left, and the way to the next request or out *)
LEMMA SkipStep ==
    ASSUME IndInv, SkipSome \/ SkipFails \/ NextRequest \/ SendError
    PROVE  IndInv'
<1> TypeOK /\ Grounded /\ Aligned /\ Accounted
  BY DEF IndInv
<1>0. /\ reading' = "no" /\ UNCHANGED <<script, client, running, cur, reading, mode>>
      /\ reader \in Reader /\ reader.pos \in Nat /\ reader.end \in Nat /\ reader.pos <= reader.end
  BY DEF SkipSome, SkipFails, NextRequest, SendError, ServerUnchanged, Grounded, TypeOK, Reader
<1>1. wire' \in Seq(Message) /\ pending' \in Seq(Message)
  <2>1. <<>> \in Seq(Message) /\ <<HeadOf(FALSE), End>> \in Seq(Message)
    <3>1. HeadOf(FALSE) \in Message /\ End \in Message
      BY MessageFacts
    <3>2. <<>> \in Seq(Message) /\ \A m, n \in Message : <<m, n>> \in Seq(Message)
      OBVIOUS
    <3> QED
      BY <3>1, <3>2
  <2>2. Flush(<<>>) \/ Flush(<<HeadOf(FALSE), End>>) \/ Silent
    BY DEF SkipSome, SkipFails, NextRequest, SendError, CloseFlushed, FlushAndWait
  <2> QED
    BY <2>1, <2>2, WriteFacts
<1>2. /\ pc' \in {"next", "skip", "closed", "error", "top"}
      /\ remaining' \in BOOLEAN /\ expired' \in BOOLEAN
  BY DEF SkipSome, SkipFails, NextRequest, SendError, ServerUnchanged, CloseFlushed, FlushAndWait, AfterFlush, TypeOK
<1>3. (body' \in Body /\ reader' \in Reader) => TypeOK'
  BY <1>0, <1>1, <1>2 DEF TypeOK, Locations
<1>4. CASE SkipSome
  <2>1. /\ pc = "skip" /\ pc \in Serving /\ body.state = "opened" /\ body.held = 0
        /\ pc' = IF body'.left = 0 THEN "next" ELSE "skip"
        /\ Take(Least(body.left, Available(reader)))
    BY <1>4 DEF SkipSome, Grounded, Serving
  <2>2. /\ body \in Body /\ body.left \in Nat /\ Available(reader) \in Nat
        /\ EndOf(Req) \in Nat
    BY <2>1, BodyFacts, ReqFacts
  <2> DEFINE n == Least(body.left, Available(reader))
  <2>3. n \in Nat /\ n <= body.left /\ n <= Available(reader)
    BY <2>2 DEF Least
  <2> HIDE DEF n
  <2>4. /\ reader' \in Reader /\ reader'.end = reader.end
        /\ reader'.pos = reader.pos + n /\ reader'.pos <= reader.end
        /\ body' \in Body /\ body'.left = body.left - n
        /\ body'.state = "opened" /\ body'.held = 0
        /\ body'.framing = body.framing /\ body'.present = body.present
    <3>1. Take(n)
      BY <2>1 DEF n
    <3> QED
      BY <2>1, <2>3, <3>1, TakeFacts
  <2>5. TypeOK'
    BY <1>3, <2>4
  <2>6. body.framing = Req.framing /\ reader.pos + body.left = EndOf(Req)
    BY <2>1 DEF Grounded, Accounted
  <2>7. reader'.pos + body'.left = EndOf(Req) /\ body'.left \in Nat
    BY <1>0, <2>2, <2>3, <2>4, <2>6
  <2>8. pc' = "next" => reader'.pos = EndOf(Req)
    BY <1>0, <2>1, <2>3, <2>4, <2>7
  <2>9. pc' = "skip" => Req.framing # "none" /\ body'.present
    <3> SUFFICES ASSUME pc' = "skip" PROVE Req.framing # "none" /\ body.present
      BY <2>4
    <3>1. body.left > 0
      BY <2>1, <2>2, <2>3, <2>4
    <3> QED
      BY <2>1, <2>2, <3>1 DEF Grounded
  <2> QED
    BY <1>0, <2>1, <2>4, <2>5, <2>6, <2>7, <2>8, <2>9, FinishKeeps
<1>5. CASE SkipFails
  <2>1. UNCHANGED <<reader, body>> /\ pc' \in {"closed", "error"}
    BY <1>5 DEF SkipFails, CloseFlushed, AfterFlush
  <2>2. TypeOK'
    BY <1>0, <1>3, <2>1 DEF TypeOK
  <2> QED
    BY <1>0, <2>1, <2>2, LeaveKeeps
<1>6. CASE NextRequest
  <2>1. UNCHANGED reader /\ body' = NoBody /\ pc = "next" /\ pc' \in {"top", "error"}
    BY <1>6 DEF NextRequest, FlushAndWait, AfterFlush
  <2>2. body' \in Body
    BY <2>1 DEF NoBody, Body
  <2>3. TypeOK'
    BY <1>0, <1>3, <2>1, <2>2
  <2>4. CASE pc' = "error"
    BY <1>0, <2>1, <2>3, <2>4, LeaveKeeps
  <2>5. CASE pc' = "top"
    <3>1. Aligned' /\ Accounted'
      BY <1>0, <2>1, <2>5 DEF Aligned, Accounted, Grounded, Serving, NextAt, Req, EndOf, BodyAt
    <3>2. Grounded'
      BY <1>0, <2>1, <2>5 DEF Grounded, Serving, EndOf, BodyAt
    <3> QED
      BY <2>3, <3>1, <3>2 DEF IndInv
  <2> QED
    BY <2>1, <2>4, <2>5
<1>7. CASE SendError
  <2>1. UNCHANGED <<reader, body>> /\ pc' = "closed"
    BY <1>7 DEF SendError
  <2>2. TypeOK'
    BY <1>0, <1>3, <2>1 DEF TypeOK
  <2> QED
    BY <1>0, <2>1, <2>2, LeaveKeeps
<1> QED
  BY <1>4, <1>5, <1>6, <1>7

(* Nothing happens. *)
LEMMA StutterStep ==
    ASSUME IndInv, UNCHANGED vars PROVE IndInv'
<1>1. TypeOK'
  BY DEF IndInv, vars, TypeOK
<1>2. Grounded' /\ Aligned' /\ Accounted'
  BY DEF IndInv, vars, Grounded, Aligned, Accounted, NextAt, Req, EndOf, BodyAt
<1> QED
  BY <1>1, <1>2 DEF IndInv

(* Every step of the connection keeps the invariant. *)
LEMMA NextStep == IndInv /\ [Next]_vars => IndInv'
<1> SUFFICES ASSUME IndInv, [Next]_vars PROVE IndInv'
  OBVIOUS
<1>1. CASE Server
  BY <1>1, LoopStep, OpenStep, ReadStep, ResponseStep, FinishStep, SkipStep DEF Server
<1>2. CASE Receive \/ GoAway \/ Expire \/ Stop
  BY <1>2, EnvironmentStep
<1>3. CASE UNCHANGED vars
  BY <1>3, StutterStep
<1> QED
  BY <1>1, <1>2, <1>3 DEF Next

(* The inductive invariant of the connection: what Aligned and Accounted say *)
(* holds because the reader stays inside what the client sends and the body  *)
(* is opened, read, held and finished the way Grounded says.                 *)
THEOREM Invariance == Spec => []IndInv
<1> QED
  BY InitInv, NextStep, PTL DEF Spec

(* The state of a connection keeps its type, whatever the client sends and   *)
(* the handlers do.                                                          *)
THEOREM TypeCorrect == Spec => []TypeOK
<1>1. IndInv => TypeOK
  BY DEF IndInv
<1> QED
  BY <1>1, Invariance, PTL

(* For every script, every cut of it into reads and every way handlers treat *)
(* a body, the loop parses each request from its first unit.                 *)
THEOREM AlwaysAligned == Spec => []Aligned
<1>1. IndInv => Aligned
  BY DEF IndInv
<1> QED
  BY <1>1, Invariance, PTL

(* For all of them, the framing of a body loses no unit and takes none twice. *)
THEOREM AlwaysAccounted == Spec => []Accounted
<1>1. IndInv => Accounted
  BY DEF IndInv
<1> QED
  BY <1>1, Invariance, PTL

(* The same for the strengthening the two rest on. *)
THEOREM AlwaysGrounded == Spec => []Grounded
<1>1. IndInv => Grounded
  BY DEF IndInv
<1> QED
  BY <1>1, Invariance, PTL

(***************************************************************************)
(* What a client receives: the messages of a connection                    *)
(***************************************************************************)
(* A legal conversation about a script: WireOrdered and CloseKept of it     *)
Legal(s, about) ==
    /\ \A k \in 1..Len(s) - 1 : Follows(s[k], s[k + 1])
    /\ \A k \in 1..Len(s) : s[k].part = "continue" =>
        about[s[k].req].expect /\ about[s[k].req].framing # "none"
    /\ \A j, k \in 1..Len(s) :
        j < k /\ s[j].part = "head" /\ ~s[j].keep => s[k].req = s[j].req

(* What has been written, whether it was flushed or not *)
Out == wire \o pending

Latest(s) == s[Len(s)]

Refuses(m) == m.part = "head" /\ ~m.keep

(* Where the loop is between two responses, or behind one that is complete *)
Between == {"top", "reading", "parse", "finish", "skip", "next"}

(* What was written last, by where the loop is *)
Staged ==
    /\ pc \in Between /\ Out # <<>> => Latest(Out).part = "end" /\ Latest(Out).req = cur
    /\ pc \in {"handle", "error"} /\ Out # <<>> =>
        \/ Latest(Out).part = "end" /\ Latest(Out).req + 1 = cur
        \/ Latest(Out).part = "continue" /\ Latest(Out).req = cur /\ ~body.armed
    /\ pc = "write" => /\ Out # <<>> /\ Latest(Out).part = "head" /\ Latest(Out).req = cur
                       /\ ~body.armed

(* Only a request that asks for it has the interim response armed. *)
Promised == pc = "handle" /\ body.armed => Req.expect /\ Req.framing # "none"

(* A response that refuses to keep the connection is the last one. *)
Closing ==
    \A j \in 1..Len(Out) : Refuses(Out[j]) =>
        /\ pc \in {"write", "closed"}
        /\ pc = "write" => mode # "keep" /\ Out[j].req = cur

(* Of what a client that has reset its connection would have got, nothing   *)
(* is said.                                                                 *)
Talk ==
    /\ Legal(wire, script)
    /\ client # "reset" => Legal(Out, script) /\ Staged /\ Promised /\ Closing

(* A sequence with one more element *)
LEMMA OneMore ==
    ASSUME NEW S, NEW s \in Seq(S), NEW m \in S
    PROVE  /\ s \o <<m>> \in Seq(S) /\ Len(s \o <<m>>) = Len(s) + 1
           /\ \A k \in 1..Len(s) : (s \o <<m>>)[k] = s[k]
           /\ (s \o <<m>>)[Len(s) + 1] = m
           /\ s \o <<m>> # <<>> /\ Latest(s \o <<m>>) = m
<1>1. <<m>> \in Seq(S) /\ Len(<<m>>) = 1 /\ <<m>>[1] = m
  OBVIOUS
<1>2. /\ s \o <<m>> \in Seq(S)
      /\ Len(s \o <<m>>) = Len(s) + Len(<<m>>)
      /\ \A i \in 1..Len(s) + Len(<<m>>) :
           (s \o <<m>>)[i] = IF i <= Len(s) THEN s[i] ELSE <<m>>[i - Len(s)]
  BY <1>1, ConcatProperties, Zenon
<1> DEFINE t == s \o <<m>>
<1> DEFINE u == <<m>>
<1> HIDE DEF t, u
<1>3. /\ t \in Seq(S) /\ Len(t) = Len(s) + 1
      /\ \A i \in 1..Len(s) + 1 : t[i] = IF i <= Len(s) THEN s[i] ELSE u[i - Len(s)]
  BY <1>1, <1>2 DEF t, u
<1>4. \A k \in 1..Len(s) : t[k] = s[k]
  BY <1>3
<1>5. t[Len(s) + 1] = m
  <2>1. Len(s) + 1 \in 1..Len(s) + 1 /\ ~(Len(s) + 1 <= Len(s)) /\ Len(s) + 1 - Len(s) = 1
    BY <1>3
  <2>2. u[1] = m
    BY <1>1 DEF u
  <2> QED
    BY <1>3, <2>1, <2>2
<1>6. t # <<>> /\ Latest(t) = m
  BY <1>3, <1>5 DEF Latest
<1> QED
  BY <1>3, <1>4, <1>5, <1>6 DEF t

(* A message that may follow the last one keeps a conversation legal. *)
LEMMA LegalMore ==
    ASSUME NEW s \in Seq(Message), NEW m \in Message, NEW about,
           Legal(s, about),
           s # <<>> => Follows(Latest(s), m),
           m.part = "continue" => about[m.req].expect /\ about[m.req].framing # "none",
           \A j \in 1..Len(s) : Refuses(s[j]) => m.req = s[j].req
    PROVE  Legal(s \o <<m>>, about)
<1> DEFINE t == s \o <<m>>
<1>1. /\ t \in Seq(Message) /\ Len(t) = Len(s) + 1
      /\ \A k \in 1..Len(s) : t[k] = s[k]
      /\ t[Len(s) + 1] = m
  BY OneMore
<1> HIDE DEF t
<1>2. Len(s) \in Nat
  OBVIOUS
<1>3. ASSUME NEW k \in 1..Len(t) - 1 PROVE Follows(t[k], t[k + 1])
  <2>1. CASE k < Len(s)
    <3>1. k \in 1..Len(s) /\ k + 1 \in 1..Len(s) /\ k \in 1..Len(s) - 1
      BY <1>1, <1>2, <2>1
    <3>2. Follows(s[k], s[k + 1])
      BY <3>1 DEF Legal
    <3> QED
      BY <1>1, <3>1, <3>2
  <2>2. CASE ~(k < Len(s))
    <3>1. k = Len(s) /\ k \in 1..Len(s) /\ s # <<>>
      BY <1>1, <1>2, <2>2
    <3> QED
      BY <1>1, <3>1 DEF Latest
  <2> QED
    BY <2>1, <2>2
<1>4. ASSUME NEW k \in 1..Len(t), t[k].part = "continue"
      PROVE  about[t[k].req].expect /\ about[t[k].req].framing # "none"
  <2>1. k \in 1..Len(s) \/ k = Len(s) + 1
    BY <1>1, <1>2
  <2> QED
    BY <1>1, <1>4, <2>1 DEF Legal
<1>5. ASSUME NEW j \in 1..Len(t), NEW k \in 1..Len(t), j < k, t[j].part = "head", ~t[j].keep
      PROVE  t[k].req = t[j].req
  <2>1. j \in 1..Len(s) /\ (k \in 1..Len(s) \/ k = Len(s) + 1)
    BY <1>1, <1>2, <1>5
  <2> QED
    BY <1>1, <1>5, <2>1 DEF Legal, Refuses
<1> QED
  BY <1>3, <1>4, <1>5 DEF Legal, t

(* A step writes these messages, and whatever it flushes is what was written *)
(* so far.  With a client that is gone nothing arrives.                      *)
Sends(msgs) ==
    /\ client # "reset" => Out' = Out \o msgs
    /\ wire' = wire \/ (client # "reset" /\ wire' = Out')

LEMMA OutFacts ==
    ASSUME IndInv
    PROVE  /\ wire \in Seq(Message) /\ pending \in Seq(Message) /\ Out \in Seq(Message)
           /\ Out \o <<>> = Out
<1>1. wire \in Seq(Message) /\ pending \in Seq(Message)
  BY DEF IndInv, TypeOK
<1>2. Out \in Seq(Message)
  BY <1>1, ConcatProperties, Zenon DEF Out
<1> QED
  BY <1>1, <1>2, ConcatEmptySeq, Zenon

LEMMA SendFacts ==
    ASSUME IndInv, NEW msgs \in Seq(Message)
    PROVE  /\ Silent => Sends(<<>>)
           /\ Write(msgs) => Sends(msgs)
           /\ Flush(msgs) => Sends(msgs)
<1>1. wire \in Seq(Message) /\ pending \in Seq(Message) /\ Out \in Seq(Message) /\ Out \o <<>> = Out
  BY OutFacts
<1>2. ASSUME Silent PROVE Sends(<<>>)
  <2>1. Out' = Out /\ wire' = wire
    BY <1>2 DEF Silent, Out
  <2> QED
    BY <1>1, <2>1 DEF Sends
<1>3. ASSUME Write(msgs) PROVE Sends(msgs)
  <2>1. wire \o (pending \o msgs) = (wire \o pending) \o msgs
    <3>1. (wire \o pending) \o msgs = wire \o (pending \o msgs)
      BY <1>1, ConcatAssociative
    <3> QED
      BY <3>1
  <2>2. wire' = wire /\ pending' = pending \o msgs
    BY <1>3 DEF Write
  <2>3. Out' = Out \o msgs
    BY <2>1, <2>2 DEF Out
  <2> QED
    BY <2>2, <2>3 DEF Sends
<1>4. ASSUME Flush(msgs) PROVE Sends(msgs)
  <2>1. CASE client = "reset"
    BY <1>4, <2>1 DEF Flush, Sends
  <2>2. CASE client # "reset"
    <3>1. wire' = wire \o pending \o msgs /\ pending' = <<>>
      BY <1>4, <2>2 DEF Flush
    <3>2. wire' = Out \o msgs
      BY <3>1 DEF Out
    <3>3. Out \o msgs \in Seq(Message)
      BY <1>1, ConcatProperties, Zenon
    <3>4. Out' = wire'
      <4>1. Out' = wire' \o <<>>
        BY <3>1 DEF Out
      <4>2. (Out \o msgs) \o <<>> = Out \o msgs
        BY <3>3, ConcatEmptySeq, Zenon
      <4> QED
        BY <3>2, <4>1, <4>2
    <3> QED
      BY <2>2, <3>2, <3>4 DEF Sends
  <2> QED
    BY <2>1, <2>2
<1> QED
  BY <1>2, <1>3, <1>4

(* A step that writes nothing, whether it flushes or not *)
LEMMA NothingSent ==
    ASSUME IndInv
    PROVE  (Silent => Sends(<<>>)) /\ (Flush(<<>>) => Sends(<<>>))
<1>1. \A msgs \in Seq(Message) : (Silent => Sends(<<>>)) /\ (Flush(msgs) => Sends(msgs))
  BY SendFacts
<1>2. <<>> \in Seq(Message)
  OBVIOUS
<1> QED
  BY <1>1, <1>2

(* What is left to show of a step: what it adds to the conversation, for a  *)
(* client that has not reset its connection.                                *)
LEMMA TalkKeeps ==
    ASSUME Talk, script' = script, NEW msgs, Sends(msgs), client' # "reset" => client # "reset",
           client # "reset" => Legal(Out \o msgs, script),
           client' # "reset" => Staged' /\ Promised' /\ Closing'
    PROVE  Talk'
<1>1. Legal(wire', script')
  BY DEF Talk, Sends
<1>2. client' # "reset" => Legal(Out', script')
  BY DEF Sends
<1> QED
  BY <1>1, <1>2 DEF Talk

(* A step that writes nothing and goes on, ends, or leaves by an exception  *)
LEMMA SilentKeeps ==
    ASSUME IndInv, Talk, script' = script, cur' = cur, Sends(<<>>),
           client' # "reset" => client # "reset",
           client' # "reset" => (body'.armed => body.armed) /\
             \/ pc' = pc /\ mode' = mode
             \/ pc \in Between /\ pc' \in Between
             \/ pc = "handle" /\ pc' = "error"
             \/ pc' = "closed"
    PROVE  Talk'
<1>1. Out \o <<>> = Out
  BY OutFacts
<1>2. client # "reset" => Legal(Out \o <<>>, script)
  BY <1>1 DEF Talk
<1>3. ASSUME client' # "reset" PROVE Staged' /\ Promised' /\ Closing'
  <2>1. client # "reset" /\ Staged /\ Promised /\ Closing /\ Out' = Out
    BY <1>1, <1>3 DEF Talk, Sends
  <2>2. (body'.armed => body.armed) /\
             \/ pc' = pc /\ mode' = mode
             \/ pc \in Between /\ pc' \in Between
             \/ pc = "handle" /\ pc' = "error"
             \/ pc' = "closed"
    BY <1>3
  <2>3. Staged'
    BY <2>1, <2>2 DEF Staged, Between
  <2>4. Promised'
    BY <2>1, <2>2 DEF Promised, Between, Req
  <2>5. Closing'
    BY <2>1, <2>2 DEF Closing, Between
  <2> QED
    BY <2>3, <2>4, <2>5
<1> QED
  BY <1>2, <1>3, TalkKeeps

LEMMA EnvironmentTalk ==
    ASSUME IndInv, Talk, Receive \/ GoAway \/ Expire \/ Stop
    PROVE  Talk'
<1>1. /\ UNCHANGED <<script, wire, pending, pc, cur, body, mode>>
      /\ client' # "reset" => client # "reset"
  BY DEF Receive, GoAway, Expire, Stop
<1>2. Sends(<<>>)
  <2>1. Silent
    BY <1>1 DEF Silent
  <2> QED
    BY <2>1, NothingSent
<1> QED
  BY <1>1, <1>2, SilentKeeps

(* The loop up to the parser, and the end of a response *)
LEMMA LoopTalk ==
    ASSUME IndInv, Talk,
           \/ Top \/ ReadFails \/ ReadDone \/ ParseIncomplete
           \/ FinishImpossible \/ FinishBodiless \/ FinishBody
           \/ SkipSome \/ SkipFails \/ NextRequest
    PROVE  Talk'
<1>1. script' = script /\ cur' = cur /\ client' = client /\ pc \in Between
  BY DEF Top, ReadFails, ReadDone, ParseIncomplete, LoopUnchanged, FinishImpossible,
         FinishBodiless, FinishBody, SkipSome, SkipFails, NextRequest, ServerUnchanged, Between
<1>2. Sends(<<>>)
  <2>1. Silent \/ Flush(<<>>)
    BY DEF Top, ReadFails, ReadDone, ParseIncomplete, LoopUnchanged, FinishImpossible,
           FinishBodiless, FinishBody, SkipSome, SkipFails, NextRequest, CloseFlushed,
           FlushAndWait, Silent
  <2> QED
    BY <2>1, NothingSent
<1>3. client # "reset" => pc' \in Between \cup {"closed"}
  BY DEF Top, ReadFails, ReadDone, ParseIncomplete, FinishImpossible, FinishBodiless,
         FinishBody, SkipSome, SkipFails, NextRequest, CloseFlushed, FlushAndWait,
         AfterFlush, AfterPartial, Between
<1>4. body'.armed => body.armed
  <2>0. body \in Body
    BY DEF IndInv, TypeOK
  <2>1. CASE Top \/ ReadFails \/ ReadDone \/ ParseIncomplete \/ FinishImpossible \/ SkipFails
    BY <2>1 DEF Top, ReadFails, ReadDone, ParseIncomplete, LoopUnchanged, FinishImpossible, SkipFails
  <2>2. CASE FinishBodiless \/ SkipSome
    BY <2>0, <2>2 DEF FinishBodiless, SkipSome, Take, Body
  <2>3. CASE FinishBody
    <3>1. ~body'.armed
      BY <2>0, <2>3 DEF FinishBody, Disarmed, Resolved, Body
    <3> QED
      BY <3>1
  <2>4. CASE NextRequest
    BY <2>4 DEF NextRequest, NoBody
  <2> QED
    BY <2>1, <2>2, <2>3, <2>4
<1> QED
  BY <1>1, <1>2, <1>3, <1>4, SilentKeeps

(* The next request: what was written last ends the one before. *)
LEMMA ParseTalk ==
    ASSUME IndInv, Talk, ParseFails \/ Parsed
    PROVE  Talk'
<1>1. /\ script' = script /\ client' = client /\ wire' = wire /\ pending' = pending
      /\ pc = "parse" /\ pc' \in {"handle", "error"} /\ cur' = cur + 1 /\ cur \in Nat
  BY DEF ParseFails, Parsed, LoopUnchanged, Upcoming, IndInv, TypeOK
<1>2. Sends(<<>>)
  <2>1. Silent
    BY <1>1 DEF Silent
  <2> QED
    BY <2>1, NothingSent
<1>3. Out \o <<>> = Out
  BY OutFacts
<1>4. client # "reset" => Legal(Out \o <<>>, script)
  BY <1>3 DEF Talk
<1>5. ASSUME client' # "reset" PROVE Staged' /\ Promised' /\ Closing'
  <2>1. client # "reset" /\ Staged /\ Closing /\ Out' = Out
    BY <1>1, <1>2, <1>3, <1>5 DEF Talk, Sends
  <2>2. Staged'
    BY <1>1, <2>1 DEF Staged, Between
  <2>3. Promised'
    <3>1. CASE Parsed
      BY <3>1 DEF Parsed, Applied, AppliedTo, NoBody, Promised, Req, Upcoming, LoopUnchanged
    <3>2. CASE ParseFails
      BY <3>2 DEF ParseFails, Promised
    <3> QED
      BY <3>1, <3>2
  <2>4. Closing'
    BY <1>1, <2>1 DEF Closing
  <2> QED
    BY <2>2, <2>3, <2>4
<1> QED
  BY <1>1, <1>2, <1>4, <1>5, TalkKeeps

(* What handlers do with a body, without a word to the client *)
LEMMA BodyTalk ==
    ASSUME IndInv, Talk,
           \/ OpenBody \/ Upgrade \/ ReadUpgraded
           \/ CopyHeldChunk \/ ReadSome \/ ReadAll \/ ReadOn \/ ReadThrows
    PROVE  Talk'
<1>1. UNCHANGED <<script, client, wire, pending, pc, cur, mode>>
  BY DEF OpenBody, Upgrade, ReadUpgraded, CopyHeldChunk, ReadSome, ReadAll, ReadOn, ReadThrows,
         HandlerUnchanged, Silent
<1>2. body'.armed = body.armed
  <2>0. body \in Body
    BY DEF IndInv, TypeOK
  <2>1. CASE OpenBody \/ Upgrade \/ ReadUpgraded \/ CopyHeldChunk
    BY <2>0, <2>1 DEF OpenBody, Upgrade, ReadUpgraded, CopyHeldChunk, Resolved, Body
  <2>2. CASE ReadSome \/ ReadAll \/ ReadOn \/ ReadThrows
    BY <2>0, <2>2 DEF ReadSome, ReadAll, ReadOn, ReadThrows, Take, Hold, Body
  <2> QED
    BY <2>1, <2>2
<1>3. Sends(<<>>)
  <2>1. Silent
    BY <1>1 DEF Silent
  <2> QED
    BY <2>1, NothingSent
<1> QED
  BY <1>1, <1>2, <1>3, SilentKeeps

(* The first read sends the 100 (Continue), if it is still armed: then      *)
(* nothing has been written for this request.                               *)
LEMMA StartReadTalk ==
    ASSUME IndInv, Talk, NEW how \in {"some", "all"}, StartRead(how)
    PROVE  Talk'
<1>1. /\ UNCHANGED <<script, client, pc, cur, mode>>
      /\ pc \in {"handle", "write"} /\ body \in Body /\ ~body'.armed
  BY DEF StartRead, HandlerUnchanged, InHandler, IndInv, TypeOK, Body
<1>2. CASE ~body.armed
  <2>1. Silent
    BY <1>2 DEF StartRead
  <2>2. Sends(<<>>)
    BY <2>1, NothingSent
  <2> QED
    BY <1>1, <2>2, SilentKeeps
<1>3. CASE body.armed
  <2>1. Continue \in Message /\ <<Continue>> \in Seq(Message) /\ Out \in Seq(Message)
    BY MessageFacts, OutFacts DEF IndInv
  <2>2. Sends(<<Continue>>)
    <3>1. Flush(<<Continue>>)
      BY <1>3 DEF StartRead
    <3> QED
      BY <2>1, <3>1, SendFacts
  <2>3. ASSUME client # "reset"
        PROVE  Legal(Out \o <<Continue>>, script) /\ Staged' /\ Promised' /\ Closing'
    <3>1. Legal(Out, script) /\ Staged /\ Promised /\ Closing
      BY <2>3 DEF Talk
    <3>2. pc = "handle"
      BY <1>1, <1>3, <3>1 DEF Staged
    <3>3. Continue.req = cur /\ Continue.part = "continue" /\ Continue.keep = TRUE
      BY DEF Continue
    <3>4. Out # <<>> => Follows(Latest(Out), Continue)
      <4>1. Out # <<>> => Latest(Out).part = "end" /\ Latest(Out).req + 1 = cur
        BY <1>3, <3>1, <3>2 DEF Staged
      <4>2. Out # <<>> => Latest(Out).req \in Nat
        <5>1. Out # <<>> => Len(Out) \in 1..Len(Out)
          BY <2>1
        <5>2. Out # <<>> => Latest(Out) \in Message
          BY <2>1, <5>1 DEF Latest
        <5> QED
          BY <5>2 DEF Message
      <4> QED
        BY <3>3, <4>1, <4>2 DEF Follows
    <3>5. \A j \in 1..Len(Out) : ~Refuses(Out[j])
      BY <3>1, <3>2 DEF Closing
    <3>6. script[Continue.req].expect /\ script[Continue.req].framing # "none"
      BY <1>3, <3>1, <3>2, <3>3 DEF Promised, Req
    <3>7. Legal(Out \o <<Continue>>, script)
      BY <2>1, <3>1, <3>4, <3>5, <3>6, LegalMore
    <3>8. Out' = Out \o <<Continue>>
      BY <2>2, <2>3 DEF Sends
    <3>9. /\ Len(Out') = Len(Out) + 1 /\ \A k \in 1..Len(Out) : Out'[k] = Out[k]
          /\ Out'[Len(Out) + 1] = Continue /\ Out' # <<>> /\ Latest(Out') = Continue
      BY <2>1, <3>8, OneMore
    <3>10. Staged'
      BY <1>1, <3>2, <3>3, <3>9 DEF Staged, Between
    <3>11. Promised'
      BY <1>1 DEF Promised
    <3>12. Closing'
      <4> SUFFICES ASSUME NEW j \in 1..Len(Out') PROVE ~Refuses(Out'[j])
        BY DEF Closing
      <4>1. j \in 1..Len(Out) \/ j = Len(Out) + 1
        BY <2>1, <3>9
      <4> QED
        BY <3>3, <3>5, <3>9, <4>1 DEF Refuses
    <3> QED
      BY <3>7, <3>10, <3>11, <3>12
  <2> QED
    BY <1>1, <2>2, <2>3, TalkKeeps
<1> QED
  BY <1>2, <1>3

(* The head of a response follows the end of the one before, or the 100     *)
(* (Continue) of its own request.                                           *)
LEMMA HeadFollows ==
    ASSUME IndInv, client # "reset", Talk, pc \in {"handle", "error"}, NEW m \in Message,
           m.part = "head", m.req = cur
    PROVE  Legal(Out \o <<m>>, script)
<1>1. Legal(Out, script) /\ Staged /\ Closing /\ Out \in Seq(Message) /\ cur \in Nat
  BY OutFacts DEF Talk, IndInv, TypeOK
<1>2. Out # <<>> => Follows(Latest(Out), m)
  <2>1. Out # <<>> => \/ Latest(Out).part = "end" /\ Latest(Out).req + 1 = cur
                      \/ Latest(Out).part = "continue" /\ Latest(Out).req = cur
    BY <1>1 DEF Staged
  <2>2. Out # <<>> => Len(Out) \in 1..Len(Out)
    BY <1>1
  <2>3. Out # <<>> => Latest(Out) \in Message
    BY <1>1, <2>2 DEF Latest
  <2>4. Out # <<>> => Latest(Out).req \in Nat
    BY <2>3 DEF Message
  <2> QED
    BY <1>1, <2>1, <2>4 DEF Follows, Rank
<1>3. \A j \in 1..Len(Out) : ~Refuses(Out[j])
  BY <1>1 DEF Closing
<1> QED
  BY <1>1, <1>2, <1>3, LegalMore

LEMMA RespondTalk ==
    ASSUME IndInv, Talk, NEW m \in {"keep", "close", "upgrade"}, Respond(m)
    PROVE  Talk'
<1>1. /\ UNCHANGED <<script, client, cur>> /\ pc = "handle" /\ pc' = "write"
      /\ body \in Body /\ body' = [body EXCEPT !.armed = FALSE]
  BY DEF Respond, ServerUnchanged, Disarmed, IndInv, TypeOK
<1>2. ~body'.armed
  BY <1>1 DEF Body
<1>3. Req \in Request /\ (Req.keep /\ m = "keep") \in BOOLEAN /\ TypeOK
  BY <1>1, BodyFacts, ReqFacts DEF IndInv, Grounded, Serving
<1>4. PICK h \in Message : /\ h.part = "head" /\ h.req = cur
                           /\ h.keep = (Req.keep /\ m = "keep") /\ Write(<<h>>)
  <2>1. HeadOf(Req.keep /\ m = "keep") \in Message
    BY <1>3, MessageFacts
  <2> QED
    BY <2>1 DEF Respond, HeadOf
<1>5. Sends(<<h>>)
  <2>1. <<h>> \in Seq(Message)
    OBVIOUS
  <2> QED
    BY <1>4, <2>1, SendFacts
<1>6. ~h.keep => mode' # "keep"
  BY <1>4 DEF Respond, ModeOf
<1>7. ASSUME client # "reset"
      PROVE  Legal(Out \o <<h>>, script) /\ Staged' /\ Promised' /\ Closing'
  <2>1. Closing /\ Out \in Seq(Message)
    BY <1>7, OutFacts DEF Talk
  <2>2. Legal(Out \o <<h>>, script)
    BY <1>1, <1>4, <1>7, HeadFollows
  <2>3. Out' = Out \o <<h>>
    BY <1>5, <1>7 DEF Sends
  <2>4. /\ Len(Out') = Len(Out) + 1 /\ \A k \in 1..Len(Out) : Out'[k] = Out[k]
        /\ Out'[Len(Out) + 1] = h /\ Out' # <<>> /\ Latest(Out') = h
    BY <2>1, <2>3, OneMore
  <2>5. Staged'
    BY <1>1, <1>2, <1>4, <2>4 DEF Staged, Between
  <2>6. Promised'
    BY <1>1 DEF Promised
  <2>7. Closing'
    <3> SUFFICES ASSUME NEW j \in 1..Len(Out'), Refuses(Out'[j])
                 PROVE  mode' # "keep" /\ Out'[j].req = cur'
      BY <1>1 DEF Closing
    <3>1. j \in 1..Len(Out) \/ j = Len(Out) + 1
      BY <2>1, <2>4
    <3>2. \A k \in 1..Len(Out) : ~Refuses(Out[k])
      BY <1>1, <2>1 DEF Closing
    <3>3. Out'[j] = h
      BY <2>4, <3>1, <3>2
    <3> QED
      BY <1>1, <1>4, <1>6, <3>3 DEF Refuses
  <2> QED
    BY <2>2, <2>5, <2>6, <2>7
<1> QED
  BY <1>1, <1>5, <1>7, TalkKeeps

(* A handler that throws, and a flush in the middle of a response *)
LEMMA InterludeTalk ==
    ASSUME IndInv, Talk, Throw \/ FlushContent
    PROVE  Talk'
<1>1. /\ UNCHANGED <<script, client, cur, body, mode>>
      /\ pc' = pc \/ (pc = "handle" /\ pc' = "error")
  BY DEF Throw, FlushContent, ServerUnchanged
<1>2. Sends(<<>>)
  <2>1. Silent \/ Flush(<<>>)
    BY DEF Throw, FlushContent
  <2> QED
    BY <2>1, NothingSent
<1> QED
  BY <1>1, <1>2, SilentKeeps

(* A response that is complete lets the loop go on only if it was announced *)
(* that way; one whose content has thrown ends the connection.              *)
LEMMA EndResponseTalk ==
    ASSUME IndInv, Talk, NEW active \in BOOLEAN, EndResponse(active)
    PROVE  Talk'
<1>1. /\ UNCHANGED <<script, client, cur, body, mode>> /\ pc = "write"
  BY DEF EndResponse, ServerUnchanged
<1>2. CASE ~active
  <2>1. <<>> \in Seq(Message)
    OBVIOUS
  <2>2. Write(<<>>) \/ Silent \/ Flush(<<>>)
    BY <1>2 DEF EndResponse
  <2>3. Sends(<<>>)
    BY <2>1, <2>2, SendFacts
  <2>4. client # "reset" => pc' = "closed"
    BY <1>2 DEF EndResponse, AfterFlush
  <2> QED
    BY <1>1, <2>3, <2>4, SilentKeeps
<1>3. CASE active
  <2>1. PICK e \in Message : /\ e.part = "end" /\ e.req = cur
                             /\ Write(<<e>>) \/ Flush(<<e>>)
    <3>1. End \in Message
      BY MessageFacts DEF IndInv
    <3> QED
      BY <1>3, <3>1 DEF EndResponse, End
  <2>2. Sends(<<e>>)
    <3>1. <<e>> \in Seq(Message)
      OBVIOUS
    <3> QED
      BY <2>1, <3>1, SendFacts
  <2>3. ASSUME client # "reset"
        PROVE  Legal(Out \o <<e>>, script) /\ Staged' /\ Promised' /\ Closing'
    <3>1. Legal(Out, script) /\ Staged /\ Closing /\ Out \in Seq(Message)
      BY <2>3, OutFacts DEF Talk
    <3>2. Out # <<>> /\ Latest(Out).part = "head" /\ Latest(Out).req = cur
      BY <1>1, <3>1 DEF Staged
    <3>3. Follows(Latest(Out), e)
      BY <2>1, <3>2 DEF Follows, Rank
    <3>4. Legal(Out \o <<e>>, script)
      <4>1. \A j \in 1..Len(Out) : Refuses(Out[j]) => e.req = Out[j].req
        BY <1>1, <2>1, <3>1 DEF Closing
      <4> QED
        BY <2>1, <3>1, <3>3, <4>1, LegalMore
    <3>5. Out' = Out \o <<e>>
      BY <2>2, <2>3 DEF Sends
    <3>6. /\ Len(Out') = Len(Out) + 1 /\ \A k \in 1..Len(Out) : Out'[k] = Out[k]
          /\ Out'[Len(Out) + 1] = e /\ Latest(Out') = e
      BY <3>1, <3>5, OneMore
    <3>7. pc' = "closed" \/ (pc' = "finish" /\ mode = "keep")
      BY <1>3, <2>3 DEF EndResponse, AfterFlush
    <3>8. Staged'
      BY <1>1, <2>1, <3>6, <3>7 DEF Staged, Between
    <3>9. Promised'
      BY <3>7 DEF Promised
    <3>10. Closing'
      <4>1. CASE pc' = "closed"
        BY <4>1 DEF Closing
      <4>2. CASE pc' = "finish" /\ mode = "keep"
        <5> SUFFICES ASSUME NEW j \in 1..Len(Out') PROVE ~Refuses(Out'[j])
          BY DEF Closing
        <5>1. j \in 1..Len(Out) \/ j = Len(Out) + 1
          BY <3>1, <3>6
        <5>2. \A k \in 1..Len(Out) : ~Refuses(Out[k])
          BY <1>1, <3>1, <4>2 DEF Closing
        <5> QED
          BY <2>1, <3>6, <5>1, <5>2 DEF Refuses
      <4> QED
        BY <3>7, <4>1, <4>2
    <3> QED
      BY <3>4, <3>8, <3>9, <3>10
  <2> QED
    BY <1>1, <2>2, <2>3, TalkKeeps
<1> QED
  BY <1>2, <1>3

(* Two messages at once are one after the other. *)
LEMMA TwoMore ==
    ASSUME NEW S, NEW m \in S, NEW n \in S
    PROVE  <<m>> \o <<n>> = <<m, n>>
<1>1. <<m>> \in Seq(S) /\ <<m, n>> \in Seq(S) /\ Len(<<m>>) = 1 /\ Len(<<m, n>>) = 2
  OBVIOUS
<1>2. PICK s : s = <<m>> \o <<n>>
  OBVIOUS
<1>3. s \in Seq(S) /\ Len(s) = 2 /\ s[1] = m /\ s[2] = n
  <2>1. /\ <<m>> \o <<n>> \in Seq(S) /\ Len(<<m>> \o <<n>>) = Len(<<m>>) + 1
        /\ \A k \in 1..Len(<<m>>) : (<<m>> \o <<n>>)[k] = <<m>>[k]
        /\ (<<m>> \o <<n>>)[Len(<<m>>) + 1] = n
    BY <1>1, OneMore
  <2>2. <<m>>[1] = m
    OBVIOUS
  <2> QED
    BY <1>1, <1>2, <2>1, <2>2
<1>4. PICK t : t = <<m, n>>
  OBVIOUS
<1>5. t \in Seq(S) /\ Len(t) = 2 /\ t[1] = m /\ t[2] = n
  BY <1>1, <1>4
<1>6. s = t
  <2>1. \A i \in 1..Len(s) : s[i] = t[i]
    BY <1>3, <1>5
  <2> QED
    BY <1>3, <1>5, <2>1, SeqEqual
<1> QED
  BY <1>2, <1>4, <1>6

(* SendErrorAsync answers in full, and is the last word. *)
LEMMA SendErrorTalk ==
    ASSUME IndInv, Talk, SendError
    PROVE  Talk'
<1>1. UNCHANGED <<script, client, cur>> /\ pc = "error" /\ pc' = "closed"
  BY DEF SendError, ServerUnchanged
<1>2. PICK h \in Message, e \in Message :
        /\ h.part = "head" /\ h.req = cur /\ e.part = "end" /\ e.req = cur
        /\ Flush(<<h, e>>)
  <2>1. HeadOf(FALSE) \in Message /\ End \in Message
    BY MessageFacts DEF IndInv
  <2> QED
    BY <2>1 DEF SendError, HeadOf, End
<1>3. <<h, e>> \in Seq(Message) /\ <<h>> \in Seq(Message) /\ <<e>> \in Seq(Message)
  OBVIOUS
<1>4. Sends(<<h, e>>)
  BY <1>2, <1>3, SendFacts
<1>5. ASSUME client # "reset" PROVE Legal(Out \o <<h, e>>, script)
  <2>1. Closing /\ Out \in Seq(Message)
    BY <1>5, OutFacts DEF Talk
  <2>2. Legal(Out \o <<h>>, script)
    BY <1>1, <1>2, <1>5, HeadFollows
  <2>3. PICK s : s = Out \o <<h>>
    OBVIOUS
  <2>4. /\ s \in Seq(Message) /\ Len(s) = Len(Out) + 1 /\ \A k \in 1..Len(Out) : s[k] = Out[k]
        /\ s[Len(Out) + 1] = h /\ s # <<>> /\ Latest(s) = h
    BY <2>1, <2>3, OneMore
  <2>5. Follows(Latest(s), e)
    BY <1>2, <2>4 DEF Follows, Rank
  <2>6. \A j \in 1..Len(s) : Refuses(s[j]) => e.req = s[j].req
    <3> SUFFICES ASSUME NEW j \in 1..Len(s), Refuses(s[j]) PROVE e.req = s[j].req
      OBVIOUS
    <3>1. j \in 1..Len(Out) \/ j = Len(Out) + 1
      BY <2>1, <2>4
    <3>2. \A k \in 1..Len(Out) : ~Refuses(Out[k])
      BY <1>1, <2>1 DEF Closing
    <3> QED
      BY <1>2, <2>4, <3>1, <3>2
  <2>7. Legal(s \o <<e>>, script)
    BY <1>2, <2>2, <2>3, <2>4, <2>5, <2>6, LegalMore
  <2>8. s \o <<e>> = Out \o <<h, e>>
    <3>1. <<h>> \o <<e>> = <<h, e>>
      BY TwoMore
    <3>2. (Out \o <<h>>) \o <<e>> = Out \o (<<h>> \o <<e>>)
      BY <1>3, <2>1, ConcatAssociative
    <3> QED
      BY <2>3, <3>1, <3>2
  <2> QED
    BY <2>7, <2>8
<1>6. Staged' /\ Promised' /\ Closing'
  BY <1>1 DEF Staged, Promised, Closing, Between
<1> QED
  BY <1>1, <1>4, <1>5, <1>6, TalkKeeps

LEMMA InitTalk == Init => Talk
<1> SUFFICES ASSUME Init PROVE Talk
  OBVIOUS
<1>1. wire = <<>> /\ pending = <<>> /\ pc = "top"
  BY DEF Init
<1>2. Out = <<>>
  BY <1>1, ConcatEmptySeq DEF Out
<1>3. Legal(<<>>, script)
  BY DEF Legal
<1> QED
  BY <1>1, <1>2, <1>3 DEF Talk, Staged, Promised, Closing, Between

LEMMA NextTalk == IndInv /\ Talk /\ [Next]_vars => Talk'
<1> SUFFICES ASSUME IndInv, Talk, [Next]_vars PROVE Talk'
  OBVIOUS
<1>1. CASE \/ Top \/ ReadFails \/ ReadDone \/ ParseIncomplete
           \/ FinishImpossible \/ FinishBodiless \/ FinishBody
           \/ SkipSome \/ SkipFails \/ NextRequest
  BY <1>1, LoopTalk
<1>2. CASE ParseFails \/ Parsed
  BY <1>2, ParseTalk
<1>3. CASE \/ OpenBody \/ Upgrade \/ ReadUpgraded
           \/ CopyHeldChunk \/ ReadSome \/ ReadAll \/ ReadOn \/ ReadThrows
  BY <1>3, BodyTalk
<1>4. CASE \E how \in {"some", "all"} : StartRead(how)
  BY <1>4, StartReadTalk
<1>5. CASE \E m \in {"keep", "close", "upgrade"} : Respond(m)
  BY <1>5, RespondTalk
<1>6. CASE Throw \/ FlushContent
  BY <1>6, InterludeTalk
<1>7. CASE \E active \in BOOLEAN : EndResponse(active)
  BY <1>7, EndResponseTalk
<1>8. CASE SendError
  BY <1>8, SendErrorTalk
<1>9. CASE Receive \/ GoAway \/ Expire \/ Stop
  BY <1>9, EnvironmentTalk
<1>10. CASE UNCHANGED vars
  BY <1>10 DEF vars, Talk, Out, Staged, Promised, Closing, Req
<1> QED
  BY <1>1, <1>2, <1>3, <1>4, <1>5, <1>6, <1>7, <1>8, <1>9, <1>10 DEF Next, Server

(* What the client has been sent, or would be sent next, is at any time a    *)
(* legal conversation: what was written last determines what the loop may   *)
(* write now, and the loop knows by where it is.                            *)
LEMMA AlwaysTalk == Spec => []Talk
<1>1. IndInv /\ Talk /\ [Next]_vars => Talk'
  BY NextTalk
<1> QED
  BY <1>1, InitTalk, Invariance, PTL DEF Spec

(* Whatever handlers and clients do, and whenever the timer fires or the    *)
(* server stops, requests are answered in order, each at most once, with a  *)
(* 100 (Continue) only in front of the answer and only where it was asked   *)
(* for.                                                                     *)
THEOREM AlwaysOrdered == Spec => []WireOrdered
<1>1. Talk => WireOrdered
  BY DEF Talk, Legal, WireOrdered
<1> QED
  BY <1>1, AlwaysTalk, PTL

(* Nothing is ever sent behind a response that announced Connection: close. *)
THEOREM AlwaysKept == Spec => []CloseKept
<1>1. Talk => CloseKept
  BY DEF Talk, Legal, CloseKept
<1> QED
  BY <1>1, AlwaysTalk, PTL

(***************************************************************************)
(* What is held back                                                       *)
(***************************************************************************)
(* The loop goes round with a response it has not flushed only if units of   *)
(* the next request are there.                                               *)
HeldBack ==
    pc \in {"top", "reading", "parse", "closed"} /\ client # "reset" /\ mode # "upgrade"
        /\ pending # <<>>
        => reader.end > NextAt

LEMMA EndIsNat ==
    ASSUME NEW s \in Scripts, NEW i \in 1..Len(s) PROVE EndOf(s[i]) \in Nat
<1>1. s[i] \in Request
  BY ScriptFacts
<1> QED
  BY <1>1, HeadAssumption DEF EndOf, BodyAt, Request

(* A step that writes nothing and goes round on the same request *)
LEMMA HeldStill ==
    ASSUME HeldBack, UNCHANGED <<script, cur, mode, pending>>,
           pc \in {"top", "reading", "parse", "closed"},
           client' # "reset" => client # "reset",
           reader'.end = reader.end
    PROVE  HeldBack'
<1>1. NextAt' = NextAt
  BY DEF NextAt, Req, EndOf, BodyAt
<1> QED
  BY <1>1 DEF HeldBack

LEMMA LoopHeld ==
    ASSUME IndInv, HeldBack,
           Top \/ ReadFails \/ ReadDone \/ ParseIncomplete \/ ParseFails \/ Parsed
    PROVE  HeldBack'
<1>1. CASE Top \/ ReadFails \/ ReadDone
  BY <1>1, HeldStill DEF Top, ReadFails, ReadDone, LoopUnchanged
<1>2. CASE ParseIncomplete
  <2>1. reader \in Reader
    BY DEF IndInv, TypeOK
  <2>2. reader'.end = reader.end
    BY <1>2, <2>1, ReaderFacts DEF ParseIncomplete
  <2> QED
    BY <1>2, <2>2, HeldStill DEF ParseIncomplete, LoopUnchanged
<1>3. CASE ParseFails \/ Parsed
  BY <1>3 DEF ParseFails, Parsed, HeldBack
<1> QED
  BY <1>1, <1>2, <1>3

(* A response is over: what is written is flushed before the connection is    *)
(* closed, unless there is nobody or another protocol at the other end.       *)
LEMMA ResponseHeld ==
    ASSUME IndInv, HeldBack,
           \/ \E m \in {"keep", "close", "upgrade"} : Respond(m)
           \/ Throw \/ FlushContent \/ SendError
           \/ \E active \in BOOLEAN : EndResponse(active)
    PROVE  HeldBack'
<1>1. CASE \/ \E m \in {"keep", "close", "upgrade"} : Respond(m)
           \/ Throw \/ FlushContent
  BY <1>1 DEF Respond, Throw, FlushContent, HeldBack
<1>2. CASE SendError
  BY <1>2 DEF SendError, Flush, HeldBack
<1>3. ASSUME NEW active \in BOOLEAN, EndResponse(active) PROVE HeldBack'
  <2>1. UNCHANGED <<client, mode>>
    BY <1>3 DEF EndResponse, ServerUnchanged
  <2>2. \/ client = "reset" \/ mode = "upgrade" \/ pc' = "finish" \/ pending' = <<>>
    BY <1>3 DEF EndResponse, Flush
  <2> QED
    BY <2>1, <2>2 DEF HeldBack
<1> QED
  BY <1>1, <1>2, <1>3

LEMMA FinishHeld ==
    ASSUME IndInv, HeldBack,
           \/ FinishImpossible \/ FinishBodiless \/ FinishBody \/ SkipSome \/ SkipFails
           \/ NextRequest
    PROVE  HeldBack'
<1>1. CASE FinishImpossible
  BY <1>1 DEF FinishImpossible, CloseFlushed, Flush, HeldBack
<1>2. CASE FinishBodiless \/ SkipSome
  BY <1>2 DEF FinishBodiless, SkipSome, HeldBack
<1>3. CASE FinishBody
  <2>1. pc' \in {"next", "skip", "error"}
    BY <1>3 DEF FinishBody, AfterFlush
  <2> QED
    BY <2>1 DEF HeldBack
<1>4. CASE SkipFails
  BY <1>4 DEF SkipFails, CloseFlushed, Flush, HeldBack
<1>5. CASE NextRequest
  <2>1. CASE HasMore(reader)
    <3>1. reader.pos = NextAt /\ reader.pos \in Nat /\ reader.end \in Nat
      BY <1>5 DEF NextRequest, IndInv, Grounded, TypeOK, Reader
    <3>2. reader.end > NextAt
      BY <2>1, <3>1 DEF HasMore
    <3>3. reader'.end = reader.end /\ NextAt' = NextAt
      BY <1>5 DEF NextRequest, NextAt, Req, EndOf, BodyAt
    <3> QED
      BY <3>2, <3>3 DEF HeldBack
  <2>2. CASE ~HasMore(reader)
    BY <1>5, <2>2 DEF NextRequest, FlushAndWait, Flush, HeldBack
  <2> QED
    BY <2>1, <2>2
<1> QED
  BY <1>1, <1>2, <1>3, <1>4, <1>5

(* What a handler does with the body is none of this. *)
LEMMA BodyHeld ==
    ASSUME IndInv, HeldBack,
           \/ OpenBody \/ Upgrade \/ ReadUpgraded \/ \E how \in {"some", "all"} : StartRead(how)
           \/ CopyHeldChunk \/ ReadSome \/ ReadAll \/ ReadOn \/ ReadThrows
    PROVE  HeldBack'
<1>1. pc' \in {"handle", "write"}
  BY DEF OpenBody, Upgrade, ReadUpgraded, StartRead, CopyHeldChunk, ReadSome, ReadAll, ReadOn,
         ReadThrows, InHandler, HandlerUnchanged
<1> QED
  BY <1>1 DEF HeldBack

LEMMA EnvironmentHeld ==
    ASSUME IndInv, HeldBack, Receive \/ GoAway \/ Expire \/ Stop PROVE HeldBack'
<1>1. CASE GoAway \/ Expire \/ Stop
  <2>1. CASE pc \in {"top", "reading", "parse", "closed"}
    BY <1>1, <2>1, HeldStill DEF GoAway, Expire, Stop
  <2>2. CASE pc \notin {"top", "reading", "parse", "closed"}
    BY <1>1, <2>2 DEF GoAway, Expire, Stop, HeldBack
  <2> QED
    BY <2>1, <2>2
<1>2. CASE Receive
  <2>1. /\ reader \in Reader /\ reader.end \in Nat /\ script \in Scripts /\ cur \in 0..Len(script)
    BY DEF IndInv, TypeOK, Reader
  <2>2. reader'.end \in Nat /\ reader'.end >= reader.end
    <3>1. EndOf(script[Len(script)]) \in Nat
      <4>1. Len(script) \in 1..Len(script)
        BY <2>1, ScriptFacts
      <4> QED
        BY <2>1, <4>1, EndIsNat
    <3>2. ASSUME NEW upTo \in reader.end + 1..EndOf(script[Len(script)])
          PROVE  /\ Pull(reader, upTo).end = upTo /\ upTo \in Nat /\ upTo >= reader.end
      <4>1. upTo \in Nat /\ upTo >= reader.end
        BY <2>1, <3>1
      <4> QED
        BY <2>1, <4>1, ReaderFacts
    <3>3. PullEnd(reader).end = reader.end
      BY <2>1, ReaderFacts
    <3> QED
      BY <1>2, <2>1, <3>2, <3>3 DEF Receive
  <2>3. NextAt \in Nat
    BY <2>1, EndIsNat DEF NextAt, Req
  <2>4. NextAt' = NextAt
    BY <1>2 DEF Receive, NextAt, Req, EndOf, BodyAt
  <2>5. reader.end > NextAt => reader'.end > NextAt'
    BY <2>1, <2>2, <2>3, <2>4
  <2> QED
    BY <1>2, <2>5 DEF Receive, HeldBack
<1> QED
  BY <1>1, <1>2

(* If the timer, a stop of the server or a client that ends its half costs a  *)
(* response that was written, then only because the loop saw more units behind *)
(* the request: it never waits for a client with an unflushed response.       *)
THEOREM AlwaysBehindNext == Spec => []UnsentBehindNext
<1>1. Init => HeldBack
  BY DEF Init, HeldBack
<1>2. IndInv /\ HeldBack /\ [Next]_vars => HeldBack'
  <2> SUFFICES ASSUME IndInv, HeldBack, [Next]_vars PROVE HeldBack'
    OBVIOUS
  <2>1. CASE Server
    BY <2>1, LoopHeld, BodyHeld, ResponseHeld, FinishHeld DEF Server
  <2>2. CASE Receive \/ GoAway \/ Expire \/ Stop
    BY <2>2, EnvironmentHeld
  <2>3. CASE UNCHANGED vars
    BY <2>3 DEF vars, HeldBack, NextAt, Req, EndOf, BodyAt
  <2> QED
    BY <2>1, <2>2, <2>3 DEF Next
<1>3. HeldBack => UnsentBehindNext
  BY DEF HeldBack, UnsentBehindNext
<1> QED
  BY <1>1, <1>2, <1>3, Invariance, PTL DEF Spec

(***************************************************************************)
(* The refinement of Conversation: what a connection promises its client   *)
(***************************************************************************)
(* A conversation about the first n requests of a script, each of whose     *)
(* headers is among the units up to one: it begins with the first request,  *)
(* and keeps the connection only for a request that asked for it.           *)
Asking(m, about, n, upTo) ==
    /\ m.req \in 1..n /\ BodyAt(about[m.req]) <= upTo
    /\ m.part = "head" /\ m.keep => about[m.req].keep /\ about[m.req].valid

Answers(s, about, n, upTo) ==
    /\ s # <<>> => s[1].req = 1
    /\ \A k \in 1..Len(s) : Asking(s[k], about, n, upTo)

(* The header of the request being served has arrived, a stream that ends   *)
(* was ended by the client, and a connection that was handed over to        *)
(* another protocol serves no other request.                                *)
Begun ==
    /\ cur > 0 => BodyAt(Req) <= reader.end
    /\ pc = "handle" => Req.valid
    /\ reader.eof => client # "open"
    /\ pc \in {"top", "reading", "parse", "skip", "next"} => body.state # "upgraded"
    /\ pc = "write" /\ mode = "upgrade" => body.state = "upgraded"

(* No request is passed over, and a response that ends the connection says so. *)
InTurn ==
    /\ pc \in Between /\ Out = <<>> => cur = 0
    /\ pc \in {"handle", "error"} /\ Out = <<>> => cur = 1
    /\ pc = "write" /\ mode = "close" => ~Latest(Out).keep

Answering ==
    /\ Answers(wire, script, cur, reader.end)
    /\ client # "reset" => Answers(Out, script, cur, reader.end) /\ InTurn

(* Moving a reader changes neither what has arrived nor that no more will. *)
LEMMA MoveFacts ==
    ASSUME NEW r \in Reader
    PROVE  /\ \A n : Consume(r, n).end = r.end /\ Consume(r, n).eof = r.eof
           /\ ExamineAll(r).end = r.end /\ ExamineAll(r).eof = r.eof
<1> QED
  BY DEF Consume, ExamineAll, AdvanceTo, Reader

(* The server reads, and only a read of the stream makes more arrive. *)
LEMMA ServerMoves ==
    ASSUME IndInv, Server
    PROVE  reader'.end = reader.end /\ reader'.eof = reader.eof
<1>0. pc \in Serving => /\ Released.end = reader.end /\ Released.eof = reader.eof
                        /\ Released \in Reader
  <2>1. CASE pc \in Serving
    <3>1. reader \in Reader /\ Released \in Reader
      BY <2>1, BodyFacts
    <3> QED
      BY <3>1, MoveFacts DEF Released
  <2> QED
    BY <2>1
<1>1. reader \in Reader
  BY DEF IndInv, TypeOK
<1>2. /\ Behind(body, reader).end = reader.end /\ Behind(body, reader).eof = reader.eof
      /\ \A b : pc \in Serving =>
            Behind(b, Released).end = reader.end /\ Behind(b, Released).eof = reader.eof
  BY <1>0, <1>1, MoveFacts DEF Behind
<1>3. ASSUME UNCHANGED reader PROVE reader'.end = reader.end /\ reader'.eof = reader.eof
  BY <1>3
<1>4. CASE \/ Top \/ ReadFails \/ ReadDone \/ ParseFails \/ Parsed
           \/ (\E m \in {"keep", "close", "upgrade"} : Respond(m)) \/ Throw \/ FlushContent
           \/ (\E active \in BOOLEAN : EndResponse(active))
           \/ FinishImpossible \/ SkipFails \/ NextRequest \/ SendError
  <2>1. UNCHANGED reader
    BY <1>4 DEF Top, ReadFails, ReadDone, ParseFails, Parsed, Respond, Throw,
                FlushContent, EndResponse, FinishImpossible, SkipFails, NextRequest, SendError
  <2> QED
    BY <1>3, <2>1
<1>5. CASE ParseIncomplete \/ ReadUpgraded
  BY <1>1, <1>5, MoveFacts DEF ParseIncomplete, ReadUpgraded
<1>6. CASE OpenBody \/ Upgrade \/ FinishBodiless
  <2>1. pc \in Serving /\ reader' = Released
    BY <1>6 DEF OpenBody, Upgrade, FinishBodiless, Serving
  <2> QED
    BY <1>0, <2>1
<1>7. CASE CopyHeldChunk \/ \E how \in {"some", "all"} : StartRead(how)
  <2>1. reader' = Behind(body, reader)
    BY <1>7 DEF CopyHeldChunk, StartRead
  <2> QED
    BY <1>2, <2>1
<1>8. CASE ReadSome \/ ReadAll \/ ReadOn \/ ReadThrows \/ SkipSome
  <2>1. \/ reader' \in {reader, Unadvanced(reader), ExamineAll(reader)}
        \/ \E n : reader' = Consume(reader, n)
    BY <1>8 DEF ReadSome, ReadAll, ReadOn, ReadThrows, SkipSome, Take, Hold
  <2> QED
    BY <1>1, <2>1, MoveFacts, UnadvancedFacts
<1>9. CASE FinishBody
  <2>1. pc \in Serving /\ \E b : reader' = Behind(b, Released)
    BY <1>9 DEF FinishBody, Serving
  <2> QED
    BY <1>2, <2>1
<1> QED
  BY <1>4, <1>5, <1>6, <1>7, <1>8, <1>9 DEF Server

(* What has arrived stays, a script is never changed, and the loop goes on  *)
(* from request to request.                                                 *)
LEMMA StepGrows ==
    ASSUME IndInv, [Next]_vars
    PROVE  /\ script' = script /\ script \in Scripts
           /\ cur \in 0..Len(script)
           /\ cur' = cur \/ (cur' = cur + 1 /\ (Parsed \/ ParseFails))
           /\ reader.end \in Nat /\ reader'.end \in Nat /\ reader.end <= reader'.end
           /\ client' # "reset" => client # "reset"
           /\ client' = "open" => client = "open"
<1>0. reader \in Reader /\ reader.end \in Nat /\ script \in Scripts /\ cur \in 0..Len(script)
  BY DEF IndInv, TypeOK, Reader
<1>1. CASE Server
  <2>1. reader'.end = reader.end
    BY <1>1, ServerMoves
  <2>2. CASE Parsed \/ ParseFails
    BY <1>0, <2>1, <2>2 DEF Parsed, ParseFails, LoopUnchanged, Upcoming
  <2>3. CASE ~(Parsed \/ ParseFails)
    <3>1. UNCHANGED <<script, client, cur>>
      BY <1>1, <2>3 DEF Server, Top, ReadFails, ReadDone, ParseIncomplete, LoopUnchanged, OpenBody,
           Upgrade, ReadUpgraded, StartRead, CopyHeldChunk, ReadSome, ReadAll, ReadOn, ReadThrows,
           HandlerUnchanged, Respond, Throw, FlushContent, EndResponse, FinishImpossible,
           FinishBodiless, FinishBody, SkipSome, SkipFails, NextRequest, SendError, ServerUnchanged
    <3> QED
      BY <1>0, <2>1, <3>1
  <2> QED
    BY <2>2, <2>3
<1>2. CASE Receive
  <2>1. UNCHANGED <<script, client, cur>>
    BY <1>2 DEF Receive
  <2>2. reader'.end \in Nat /\ reader.end <= reader'.end
    <3>1. CASE reader' = PullEnd(reader)
      <4>1. PullEnd(reader).end = reader.end
        BY <1>0, ReaderFacts
      <4> QED
        BY <1>0, <3>1, <4>1
    <3>2. CASE reader' # PullEnd(reader)
      <4>1. PICK upTo \in (reader.end + 1)..EndOf(script[Len(script)]) : reader' = Pull(reader, upTo)
        BY <1>2, <3>2 DEF Receive
      <4>2. EndOf(script[Len(script)]) \in Nat
        BY <1>0, ScriptFacts, EndIsNat
      <4>3. upTo \in Nat /\ reader.end <= upTo
        BY <1>0, <4>1, <4>2
      <4> QED
        BY <1>0, <4>1, <4>3, ReaderFacts
    <3> QED
      BY <3>1, <3>2
  <2> QED
    BY <1>0, <2>1, <2>2
<1>3. CASE GoAway \/ Expire \/ Stop
  BY <1>0, <1>3 DEF GoAway, Expire, Stop
<1>4. CASE UNCHANGED vars
  BY <1>0, <1>4 DEF vars
<1> QED
  BY <1>1, <1>2, <1>3, <1>4 DEF Next

(* What was said stays an answer as the connection goes on. *)
LEMMA AnswersLast ==
    ASSUME NEW about \in Scripts, NEW n \in Nat, NEW m \in Nat, n <= m, m <= Len(about),
           NEW upTo \in Nat, NEW more \in Nat, upTo <= more,
           NEW s \in Seq(Message), Answers(s, about, n, upTo)
    PROVE  Answers(s, about, m, more)
<1> SUFFICES ASSUME NEW k \in 1..Len(s) PROVE Asking(s[k], about, m, more)
  BY DEF Answers
<1>1. Asking(s[k], about, n, upTo)
  BY DEF Answers
<1>2. PICK r : r = s[k].req
  OBVIOUS
<1>3. r \in 1..n /\ BodyAt(about[r]) <= upTo
  BY <1>1, <1>2 DEF Asking
<1>4. Len(about) \in Nat /\ \A i \in 1..Len(about) : about[i] \in Request
  BY ScriptFacts
<1>5. r \in 1..m /\ r \in 1..Len(about)
  BY <1>3, <1>4
<1>6. BodyAt(about[r]) \in Nat
  BY <1>4, <1>5, HeadAssumption DEF BodyAt, Request
<1>7. BodyAt(about[r]) <= more
  BY <1>3, <1>6
<1> QED
  BY <1>1, <1>2, <1>5, <1>7 DEF Asking

(* One more message about a request *)
LEMMA AnswersMore ==
    ASSUME NEW s \in Seq(Message), NEW m \in Message, NEW about, NEW n, NEW upTo,
           Answers(s, about, n, upTo), Asking(m, about, n, upTo), s = <<>> => m.req = 1
    PROVE  Answers(s \o <<m>>, about, n, upTo)
<1> DEFINE t == s \o <<m>>
<1>1. /\ t \in Seq(Message) /\ Len(t) = Len(s) + 1
      /\ \A k \in 1..Len(s) : t[k] = s[k]
      /\ t[Len(s) + 1] = m
  BY OneMore
<1> HIDE DEF t
<1>2. \A k \in 1..Len(t) : k \in 1..Len(s) \/ k = Len(s) + 1
  BY <1>1
<1>3. \A k \in 1..Len(t) : Asking(t[k], about, n, upTo)
  BY <1>1, <1>2 DEF Answers
<1>4. t[1].req = 1
  <2>1. CASE s = <<>>
    BY <1>1, <2>1
  <2>2. CASE s # <<>>
    <3>1. 1 \in 1..Len(s)
      BY <2>2
    <3> QED
      BY <1>1, <2>2, <3>1 DEF Answers
  <2> QED
    BY <2>1, <2>2
<1> QED
  BY <1>3, <1>4 DEF Answers, t

LEMMA NoAnswers ==
    ASSUME NEW about, NEW n, NEW upTo PROVE Answers(<<>>, about, n, upTo)
<1> QED
  BY DEF Answers

(* As with Talk: what is left to show of a step *)
LEMMA AnsweringKeeps ==
    ASSUME IndInv, IndInv', Answering, [Next]_vars, NEW msgs, Sends(msgs),
           client # "reset" => Answers(Out \o msgs, script, cur', reader'.end),
           client' # "reset" => InTurn'
    PROVE  Answering'
<1>1. /\ script' = script /\ script \in Scripts /\ cur \in Nat /\ cur' \in Nat
      /\ cur <= cur' /\ cur' <= Len(script)
      /\ reader.end \in Nat /\ reader'.end \in Nat /\ reader.end <= reader'.end
      /\ client' # "reset" => client # "reset"
  <2>1. cur' \in 0..Len(script')
    BY DEF IndInv, TypeOK
  <2> QED
    BY <2>1, StepGrows, ScriptFacts
<1>2. Answers(wire, script, cur', reader'.end)
  BY <1>1, AnswersLast, OutFacts DEF Answering
<1>3. client # "reset" => Answers(Out', script, cur', reader'.end)
  BY DEF Sends
<1>4. Answers(wire', script', cur', reader'.end)
  BY <1>1, <1>2, <1>3 DEF Sends
<1>5. client' # "reset" => Answers(Out', script', cur', reader'.end)
  BY <1>1, <1>3
<1> QED
  BY <1>4, <1>5 DEF Answering

(* Where the parser finds a header, there is the next request. *)
LEMMA NextIsThere ==
    ASSUME IndInv, pc = "parse", Upcoming <= Len(script)
    PROVE  reader.pos = script[Upcoming].at
<1>1. script \in Scripts /\ cur \in 0..Len(script) /\ reader.pos = NextAt
  BY DEF IndInv, TypeOK, Aligned
<1>2. CASE cur = 0
  BY <1>1, <1>2, ScriptFacts DEF NextAt, Upcoming
<1>3. CASE cur # 0
  <2>1. Upcoming \in 2..Len(script) /\ Upcoming - 1 = cur
    BY <1>1, <1>3, ScriptFacts DEF Upcoming
  <2>2. script[Upcoming].at = EndOf(script[cur])
    BY <1>1, <2>1, ScriptFacts
  <2> QED
    BY <1>1, <1>3, <2>2 DEF NextAt, Req
<1> QED
  BY <1>2, <1>3

(* A request is served or refused only when its header is complete. *)
LEMMA HeaderThere ==
    ASSUME IndInv, IndInv', Begun, [Next]_vars
    PROVE  cur' > 0 => BodyAt(Req)' <= reader'.end
<1>1. /\ script' = script /\ script \in Scripts /\ cur \in 0..Len(script)
      /\ reader.end \in Nat /\ reader'.end \in Nat /\ reader.end <= reader'.end
      /\ Len(script) \in Nat
  BY StepGrows, ScriptFacts
<1>2. CASE cur' = cur
  <2> SUFFICES ASSUME cur > 0 PROVE BodyAt(Req) <= reader'.end
    BY <1>1, <1>2 DEF BodyAt, Req
  <2>1. BodyAt(Req) \in Nat
    BY ReqFacts DEF IndInv
  <2> QED
    BY <1>1, <2>1 DEF Begun
<1>3. CASE cur' = cur + 1 /\ (Parsed \/ ParseFails)
  <2>1. pc = "parse" /\ Available(reader) >= HeadLen
    BY <1>3 DEF Parsed, ParseFails
  <2>2. Upcoming \in 1..Len(script)
    <3>1. cur' \in 0..Len(script')
      BY DEF IndInv, TypeOK
    <3> QED
      BY <1>1, <1>3, <3>1 DEF Upcoming
  <2>3. reader.pos = script[Upcoming].at
    BY <2>1, <2>2, NextIsThere
  <2>4. reader.pos \in Nat /\ reader.pos <= reader.end
    BY DEF IndInv, TypeOK, Reader, Grounded
  <2>5. script[Upcoming].at + HeadLen <= reader.end
    BY <1>1, <2>1, <2>3, <2>4, HeadAssumption DEF Available
  <2>6. BodyAt(Req)' = script[Upcoming].at + HeadLen
    BY <1>1, <1>3 DEF BodyAt, Req, Upcoming
  <2> QED
    BY <1>1, <2>3, <2>4, <2>5, <2>6, HeadAssumption
<1> QED
  BY <1>2, <1>3, StepGrows

(* What becomes of the state of a body *)
LEMMA BodyState ==
    ASSUME IndInv, Server
    PROVE  \/ body'.state = body.state
           \/ OpenBody \/ Upgrade \/ FinishBodiless \/ FinishBody \/ NextRequest \/ Parsed
<1>0. body \in Body
  BY DEF IndInv, TypeOK
<1>1. CASE \/ Top \/ ReadFails \/ ReadDone \/ ParseIncomplete \/ ParseFails \/ ReadUpgraded
           \/ ReadThrows \/ Throw \/ FlushContent \/ (\E active \in BOOLEAN : EndResponse(active))
           \/ FinishImpossible \/ SkipFails \/ SendError
  <2>1. body' = body
    BY <1>1 DEF Top, ReadFails, ReadDone, ParseIncomplete, ParseFails, LoopUnchanged, ReadUpgraded,
       ReadThrows, Throw, FlushContent, EndResponse, FinishImpossible, SkipFails, SendError
  <2> QED
    BY <2>1
<1>2. CASE ReadSome \/ ReadAll \/ ReadOn \/ SkipSome
  BY <1>0, <1>2 DEF ReadSome, ReadAll, ReadOn, SkipSome, Take, Hold, Body
<1>3. CASE CopyHeldChunk \/ (\E how \in {"some", "all"} : StartRead(how))
  BY <1>0, <1>3 DEF CopyHeldChunk, StartRead, Body
<1>4. CASE \E m \in {"keep", "close", "upgrade"} : Respond(m)
  BY <1>0, <1>4 DEF Respond, Disarmed, Body
<1> QED
  BY <1>1, <1>2, <1>3, <1>4 DEF Server

(* A connection that was handed over to another protocol stays there. *)
LEMMA StaysTaken ==
    ASSUME IndInv, Begun, Server
    PROVE  /\ body.state = "upgraded" => body'.state = "upgraded"
           /\ ~Upgrade => (body'.state = "upgraded" => body.state = "upgraded")
<1>0. body \in Body
  BY DEF IndInv, TypeOK
<1>1. CASE OpenBody
  BY <1>0, <1>1 DEF OpenBody, Resolved, Body
<1>2. CASE Upgrade
  BY <1>0, <1>2 DEF Upgrade, Body
<1>3. CASE FinishBodiless
  BY <1>0, <1>3 DEF FinishBodiless, Body
<1>4. CASE FinishBody
  <2>1. body.state # "upgraded"
    BY <1>4 DEF FinishBody
  <2>2. PICK b : b \in {body, Resolved} /\ body' = [Disarmed(b) EXCEPT !.held = 0]
    BY <1>4 DEF FinishBody
  <2>3. body'.state = b.state
    BY <1>0, <2>2 DEF Disarmed, Resolved, Body
  <2>4. b.state # "upgraded"
    BY <1>0, <2>1, <2>2 DEF Resolved, Body
  <2> QED
    BY <2>1, <2>3, <2>4
<1>5. CASE NextRequest
  BY <1>5 DEF NextRequest, NoBody, Begun
<1>6. CASE Parsed
  BY <1>6 DEF Parsed, Applied, AppliedTo, NoBody, Begun
<1> QED
  BY <1>1, <1>2, <1>3, <1>4, <1>5, <1>6, BodyState

LEMMA InitBegun == Init => Begun
<1> SUFFICES ASSUME Init PROVE Begun
  OBVIOUS
<1> QED
  BY DEF Init, Begun, NoBody, Fresh

LEMMA BegunStep ==
    ASSUME IndInv, IndInv', Begun, [Next]_vars
    PROVE  Begun'
<1>1. (cur > 0 => BodyAt(Req) <= reader.end)'
  BY HeaderThere
<1>2. CASE Server
  <2>1. (reader.eof => client # "open")'
    BY <1>2, ServerMoves, StepGrows DEF Begun
  <2>2. (pc = "handle" => Req.valid)'
    <3>1. CASE Parsed
      BY <3>1 DEF Parsed, Req, Upcoming
    <3>2. CASE ~Parsed
      <4>1. pc' = "handle" => pc = "handle" /\ ~ParseFails
        BY <1>2, <3>2 DEF Server, Top, ReadFails, ReadDone, ParseIncomplete, AfterPartial, ParseFails,
           OpenBody, Upgrade, ReadUpgraded, StartRead, CopyHeldChunk, ReadSome, ReadAll, ReadOn,
           ReadThrows, HandlerUnchanged, Respond, Throw, FlushContent, EndResponse, AfterFlush,
           CloseFlushed, FlushAndWait, FinishImpossible, FinishBodiless, FinishBody, SkipSome,
           SkipFails, NextRequest, SendError
      <4>2. pc' = "handle" => script' = script /\ cur' = cur
        BY <3>2, <4>1, StepGrows
      <4> QED
        BY <4>1, <4>2 DEF Begun, Req
    <3> QED
      BY <3>1, <3>2
  <2>3. (pc \in {"top", "reading", "parse", "skip", "next"} => body.state # "upgraded")'
    <3> SUFFICES ASSUME pc' \in {"top", "reading", "parse", "skip", "next"}, body'.state = "upgraded"
                 PROVE  FALSE
      OBVIOUS
    <3>1. ~Upgrade
      BY DEF Upgrade, HandlerUnchanged
    <3>2. body.state = "upgraded"
      BY <1>2, <3>1, StaysTaken
    <3>3. pc \in {"top", "reading", "parse", "skip", "next"} \/ FinishBodiless \/ FinishBody
      BY <1>2 DEF Server, Top, ReadFails, ReadDone, ParseIncomplete, AfterPartial, ParseFails, Parsed,
           OpenBody, Upgrade, ReadUpgraded, StartRead, CopyHeldChunk, ReadSome, ReadAll, ReadOn,
           ReadThrows, HandlerUnchanged, Respond, Throw, FlushContent, EndResponse, AfterFlush,
           CloseFlushed, FlushAndWait, FinishImpossible, SkipSome, SkipFails, NextRequest, SendError
    <3> QED
      BY <3>2, <3>3 DEF Begun, FinishBodiless, FinishBody
  <2>4. (pc = "write" /\ mode = "upgrade" => body.state = "upgraded")'
    <3> SUFFICES ASSUME pc' = "write", mode' = "upgrade" PROVE body.state = "upgraded"
      BY <1>2, StaysTaken
    <3>1. CASE \E m \in {"keep", "close", "upgrade"} : Respond(m)
      BY <3>1 DEF Respond, ModeOf
    <3>2. CASE ~\E m \in {"keep", "close", "upgrade"} : Respond(m)
      <4>1. pc = "write"
        BY <1>2, <3>2 DEF Server, Top, ReadFails, ReadDone, ParseIncomplete, AfterPartial, ParseFails,
           Parsed, OpenBody, Upgrade, ReadUpgraded, StartRead, CopyHeldChunk, ReadSome, ReadAll, ReadOn,
           ReadThrows, HandlerUnchanged, Throw, FlushContent, EndResponse, AfterFlush,
           CloseFlushed, FlushAndWait, FinishImpossible, FinishBodiless, FinishBody, SkipSome,
           SkipFails, NextRequest, SendError
      <4>2. mode' = mode
        BY <1>2, <3>2 DEF Server, Top, ReadFails, ReadDone, ParseIncomplete, ParseFails,
           LoopUnchanged, Parsed, OpenBody, Upgrade, ReadUpgraded, StartRead, CopyHeldChunk, ReadSome,
           ReadAll, ReadOn, ReadThrows, HandlerUnchanged, Throw, FlushContent, EndResponse,
           FinishImpossible, FinishBodiless, FinishBody, SkipSome, SkipFails, NextRequest, SendError
      <4> QED
        BY <4>1, <4>2 DEF Begun
    <3> QED
      BY <3>1, <3>2
  <2> QED
    BY <1>1, <2>1, <2>2, <2>3, <2>4 DEF Begun
<1>3. CASE ~Server
  <2>1. UNCHANGED <<script, pc, cur, body, mode>>
    BY <1>3 DEF Next, Receive, GoAway, Expire, Stop, vars
  <2>2. reader'.eof => reader.eof \/ client' = "fin"
    <3>1. CASE Receive
      <4>1. reader \in Reader
        BY DEF IndInv, TypeOK
      <4>2. client' = client /\ (client = "fin" \/ \E upTo : reader' = Pull(reader, upTo))
        BY <3>1 DEF Receive
      <4> QED
        BY <4>1, <4>2 DEF Pull, Reader
    <3>2. CASE ~Receive
      <4>1. reader' = reader
        BY <1>3, <3>2 DEF Next, GoAway, Expire, Stop, vars
      <4> QED
        BY <4>1
    <3> QED
      BY <3>1, <3>2
  <2>3. (reader.eof => client # "open")'
    BY <2>2, StepGrows DEF Begun
  <2>4. Req' = Req
    BY <2>1 DEF Req
  <2> QED
    BY <1>1, <2>1, <2>3, <2>4 DEF Begun
<1> QED
  BY <1>2, <1>3

(* A message about the request being served *)
LEMMA AskingCur ==
    ASSUME IndInv, Begun, cur > 0, NEW m \in Message, m.req = cur,
           m.part = "head" /\ m.keep => Req.keep /\ Req.valid
    PROVE  Asking(m, script, cur, reader.end)
<1> QED
  BY DEF Asking, Begun, Req, IndInv, TypeOK

(* A step that says nothing, and where it may lead *)
LEMMA QuietAnswering ==
    ASSUME IndInv, IndInv', Begun, Talk, Answering, [Next]_vars, Sends(<<>>),
           client' # "reset" =>
             \/ pc' = pc /\ mode' = mode /\ cur' = cur
             \/ pc \in Between /\ pc' \in Between /\ cur' = cur
             \/ pc = "parse" /\ pc' \in {"handle", "error"} /\ cur' = cur + 1
             \/ pc = "handle" /\ pc' = "error" /\ cur' = cur
             \/ pc' = "closed"
    PROVE  Answering'
<1>0. Out \o <<>> = Out /\ Out \in Seq(Message)
  BY OutFacts
<1>1. /\ script \in Scripts /\ cur \in Nat /\ cur' \in Nat
      /\ cur <= cur' /\ cur' <= Len(script)
      /\ reader.end \in Nat /\ reader'.end \in Nat /\ reader.end <= reader'.end
      /\ client' # "reset" => client # "reset"
  <2>1. script' = script /\ cur' \in 0..Len(script')
    BY StepGrows DEF IndInv, TypeOK
  <2> QED
    BY <2>1, StepGrows, ScriptFacts
<1>2. client # "reset" => Answers(Out \o <<>>, script, cur', reader'.end)
  <2>1. client # "reset" => Answers(Out, script, cur, reader.end)
    BY DEF Answering
  <2>2. client # "reset" => Answers(Out, script, cur', reader'.end)
    BY <1>0, <1>1, <2>1, AnswersLast
  <2> QED
    BY <1>0, <2>2
<1>3. ASSUME client' # "reset" PROVE InTurn'
  <2>1. InTurn /\ Out' = Out
    BY <1>0, <1>1, <1>3 DEF Answering, Sends
  <2> QED
    BY <1>1, <1>3, <2>1 DEF InTurn, Between
<1> QED
  BY <1>2, <1>3, AnsweringKeeps

LEMMA LoopAnswering ==
    ASSUME IndInv, IndInv', Begun, Talk, Answering, [Next]_vars,
           \/ Top \/ ReadFails \/ ReadDone \/ ParseIncomplete
           \/ FinishImpossible \/ FinishBodiless \/ FinishBody
           \/ SkipSome \/ SkipFails \/ NextRequest \/ ParseFails \/ Parsed
    PROVE  Answering'
<1>1. Sends(<<>>)
  <2>1. Silent \/ Flush(<<>>)
    BY DEF Top, ReadFails, ReadDone, ParseIncomplete, ParseFails, Parsed, LoopUnchanged,
           FinishImpossible, FinishBodiless, FinishBody, SkipSome, SkipFails, NextRequest,
           CloseFlushed, FlushAndWait, Silent
  <2> QED
    BY <2>1, NothingSent
<1>2. CASE ParseFails \/ Parsed
  <2>1. pc = "parse" /\ pc' \in {"handle", "error"} /\ cur' = cur + 1
    BY <1>2 DEF ParseFails, Parsed, Upcoming
  <2> QED
    BY <1>1, <2>1, QuietAnswering
<1>3. CASE ~(ParseFails \/ Parsed)
  <2>1. script' = script /\ cur' = cur /\ client' = client /\ pc \in Between
    BY <1>3 DEF Top, ReadFails, ReadDone, ParseIncomplete, LoopUnchanged, FinishImpossible,
         FinishBodiless, FinishBody, SkipSome, SkipFails, NextRequest, ServerUnchanged, Between
  <2>2. client # "reset" => pc' \in Between \cup {"closed"}
    BY <1>3 DEF Top, ReadFails, ReadDone, ParseIncomplete, FinishImpossible, FinishBodiless,
         FinishBody, SkipSome, SkipFails, NextRequest, CloseFlushed, FlushAndWait,
         AfterFlush, AfterPartial, Between
  <2> QED
    BY <1>1, <2>1, <2>2, QuietAnswering
<1> QED
  BY <1>2, <1>3

LEMMA StillAnswering ==
    ASSUME IndInv, IndInv', Begun, Talk, Answering, [Next]_vars,
           \/ OpenBody \/ Upgrade \/ ReadUpgraded
           \/ CopyHeldChunk \/ ReadSome \/ ReadAll \/ ReadOn \/ ReadThrows
           \/ Throw \/ FlushContent \/ EndResponse(FALSE)
           \/ Receive \/ GoAway \/ Expire \/ Stop \/ UNCHANGED vars
    PROVE  Answering'
<1>1. cur' = cur /\ \/ pc' = pc /\ mode' = mode
                    \/ pc = "handle" /\ pc' = "error"
                    \/ EndResponse(FALSE)
  BY DEF OpenBody, Upgrade, ReadUpgraded, CopyHeldChunk, ReadSome, ReadAll, ReadOn, ReadThrows,
         HandlerUnchanged, Throw, FlushContent, EndResponse, ServerUnchanged, Receive, GoAway,
         Expire, Stop, vars
<1>2. Sends(<<>>)
  <2>1. CASE EndResponse(FALSE)
    <3>1. <<>> \in Seq(Message)
      OBVIOUS
    <3>2. Write(<<>>) \/ Silent \/ Flush(<<>>)
      BY <2>1 DEF EndResponse
    <3> QED
      BY <3>1, <3>2, SendFacts
  <2>2. CASE ~EndResponse(FALSE)
    <3>1. Silent \/ Flush(<<>>)
      BY <2>2 DEF OpenBody, Upgrade, ReadUpgraded, CopyHeldChunk, ReadSome, ReadAll, ReadOn,
         ReadThrows, HandlerUnchanged, Throw, FlushContent, Receive, GoAway, Expire, Stop, vars, Silent
    <3> QED
      BY <3>1, NothingSent
  <2> QED
    BY <2>1, <2>2
<1>3. EndResponse(FALSE) /\ client' # "reset" => pc' = "closed"
  BY DEF EndResponse, ServerUnchanged, AfterFlush
<1> QED
  BY <1>1, <1>2, <1>3, QuietAnswering

(* A step that says one thing about the request being served *)
LEMMA OneAnswering ==
    ASSUME IndInv, IndInv', Begun, Answering, [Next]_vars, NEW m \in Message, Sends(<<m>>),
           cur' = cur, cur > 0, m.req = cur, m.part = "head" /\ m.keep => Req.keep /\ Req.valid,
           client # "reset" => (Out = <<>> => cur = 1),
           client' # "reset" /\ pc' = "write" /\ mode' = "close" => ~m.keep
    PROVE  Answering'
<1>0. Out \in Seq(Message)
  BY OutFacts
<1>1. /\ script \in Scripts /\ cur \in Nat /\ cur' \in Nat
      /\ cur <= cur' /\ cur' <= Len(script)
      /\ reader.end \in Nat /\ reader'.end \in Nat /\ reader.end <= reader'.end
      /\ client' # "reset" => client # "reset"
  <2>1. script' = script /\ cur' \in 0..Len(script')
    BY StepGrows DEF IndInv, TypeOK
  <2> QED
    BY <2>1, StepGrows, ScriptFacts
<1>2. PICK s : s = Out \o <<m>>
  OBVIOUS
<1>3. s \in Seq(Message) /\ s # <<>> /\ Latest(s) = m
  BY <1>0, <1>2, OneMore
<1>4. client # "reset" => Answers(Out \o <<m>>, script, cur', reader'.end)
  <2>1. client # "reset" => Answers(Out, script, cur, reader.end)
    BY DEF Answering
  <2>2. Asking(m, script, cur, reader.end)
    BY AskingCur
  <2>3. client # "reset" => Answers(Out \o <<m>>, script, cur, reader.end)
    BY <1>0, <2>1, <2>2, AnswersMore
  <2>4. client # "reset" => Answers(s, script, cur, reader.end)
    BY <1>2, <2>3
  <2>5. client # "reset" => Answers(s, script, cur', reader'.end)
    BY <1>1, <1>3, <2>4, AnswersLast
  <2> QED
    BY <1>2, <2>5
<1>5. ASSUME client' # "reset" PROVE InTurn'
  <2>1. Out' = s
    BY <1>1, <1>2, <1>5 DEF Sends
  <2> QED
    BY <1>3, <1>5, <2>1 DEF InTurn
<1> QED
  BY <1>4, <1>5, AnsweringKeeps

LEMMA StartReadAnswering ==
    ASSUME IndInv, IndInv', Begun, Talk, Answering, [Next]_vars,
           NEW how \in {"some", "all"}, StartRead(how)
    PROVE  Answering'
<1>1. /\ UNCHANGED <<script, client, pc, cur, mode>> /\ pc \in {"handle", "write"}
  BY DEF StartRead, HandlerUnchanged, InHandler
<1>2. CASE ~body.armed
  <2>1. Silent
    BY <1>2 DEF StartRead
  <2>2. Sends(<<>>)
    BY <2>1, NothingSent
  <2> QED
    BY <1>1, <2>2, QuietAnswering
<1>3. CASE body.armed
  <2>1. PICK m \in Message : m = Continue
    BY MessageFacts DEF IndInv
  <2>2. <<m>> \in Seq(Message)
    OBVIOUS
  <2>3. Sends(<<m>>)
    <3>1. Flush(<<m>>)
      BY <1>3, <2>1 DEF StartRead
    <3> QED
      BY <2>2, <3>1, SendFacts
  <2>4. cur > 0
    BY <1>1 DEF IndInv, Grounded, Serving
  <2>5. client # "reset" => pc = "handle" /\ (Out = <<>> => cur = 1)
    BY <1>1, <1>3 DEF Talk, Staged, Answering, InTurn
  <2>6. m.req = cur /\ m.part = "continue" /\ m.keep
    BY <2>1 DEF Continue
  <2> QED
    BY <1>1, <2>3, <2>4, <2>5, <2>6, OneAnswering
<1> QED
  BY <1>2, <1>3

LEMMA RespondAnswering ==
    ASSUME IndInv, IndInv', Begun, Talk, Answering, [Next]_vars,
           NEW m \in {"keep", "close", "upgrade"}, Respond(m)
    PROVE  Answering'
<1>1. /\ UNCHANGED <<script, client, cur>> /\ pc = "handle" /\ pc' = "write"
      /\ mode' = ModeOf(m)
  BY DEF Respond, ServerUnchanged
<1>2. cur > 0 /\ Req \in Request /\ TypeOK /\ Req.valid
  BY <1>1, ReqFacts DEF IndInv, Grounded, Serving, Begun
<1>3. (Req.keep /\ m = "keep") \in BOOLEAN
  BY <1>2 DEF Request
<1>4. PICK h \in Message : /\ h.part = "head" /\ h.req = cur
                           /\ h.keep = (Req.keep /\ m = "keep") /\ Write(<<h>>)
  <2>1. HeadOf(Req.keep /\ m = "keep") \in Message
    BY <1>2, <1>3, MessageFacts
  <2> QED
    BY <2>1 DEF Respond, HeadOf
<1>5. Sends(<<h>>)
  <2>1. <<h>> \in Seq(Message)
    OBVIOUS
  <2> QED
    BY <1>4, <2>1, SendFacts
<1>6. mode' = "close" => ~h.keep
  BY <1>1, <1>4 DEF ModeOf
<1>7. client # "reset" => (Out = <<>> => cur = 1)
  BY <1>1 DEF Answering, InTurn
<1> QED
  BY <1>1, <1>2, <1>4, <1>5, <1>6, <1>7, OneAnswering

LEMMA EndResponseAnswering ==
    ASSUME IndInv, IndInv', Begun, Talk, Answering, [Next]_vars, EndResponse(TRUE)
    PROVE  Answering'
<1>1. UNCHANGED <<script, client, cur>> /\ pc = "write" /\ pc' # "write"
  BY DEF EndResponse, ServerUnchanged, AfterFlush
<1>2. PICK e \in Message : /\ e.part = "end" /\ e.req = cur
                           /\ Write(<<e>>) \/ Flush(<<e>>)
  <2>1. End \in Message
    BY MessageFacts DEF IndInv
  <2> QED
    BY <2>1 DEF EndResponse, End
<1>3. Sends(<<e>>)
  <2>1. <<e>> \in Seq(Message)
    OBVIOUS
  <2> QED
    BY <1>2, <2>1, SendFacts
<1>4. cur > 0
  BY <1>1 DEF IndInv, Grounded, Serving
<1>5. client # "reset" => Out # <<>>
  BY <1>1 DEF Talk, Staged
<1> QED
  BY <1>1, <1>2, <1>3, <1>4, <1>5, OneAnswering

LEMMA SendErrorAnswering ==
    ASSUME IndInv, IndInv', Begun, Talk, Answering, [Next]_vars, SendError
    PROVE  Answering'
<1>0. Out \in Seq(Message) /\ script \in Scripts
  BY OutFacts DEF IndInv, TypeOK
<1>1. UNCHANGED <<script, client, cur, reader>> /\ pc = "error" /\ pc' = "closed"
  BY DEF SendError, ServerUnchanged
<1>2. PICK h \in Message, e \in Message :
        /\ h.part = "head" /\ h.req = cur /\ ~h.keep /\ e.part = "end" /\ e.req = cur
        /\ Flush(<<h, e>>)
  <2>1. HeadOf(FALSE) \in Message /\ End \in Message
    BY MessageFacts DEF IndInv
  <2> QED
    BY <2>1 DEF SendError, HeadOf, End
<1>3. <<h, e>> \in Seq(Message) /\ <<h>> \in Seq(Message) /\ <<e>> \in Seq(Message)
  OBVIOUS
<1>4. Sends(<<h, e>>)
  BY <1>2, <1>3, SendFacts
<1>5. ASSUME client # "reset" PROVE Answers(Out \o <<h, e>>, script, cur', reader'.end)
  <2>1. Answers(Out, script, cur, reader.end) /\ (Out = <<>> => cur = 1)
    BY <1>1, <1>5 DEF Answering, InTurn
  <2>0. cur > 0
    <3>1. CASE Out = <<>>
      BY <2>1, <3>1
    <3>2. CASE Out # <<>>
      <4>1. 1 \in 1..Len(Out)
        BY <1>0, <3>2
      <4>2. Out[1].req \in 1..cur
        BY <2>1, <4>1 DEF Answers, Asking
      <4> QED
        BY <4>2 DEF IndInv, TypeOK
    <3> QED
      BY <3>1, <3>2
  <2>2. Asking(h, script, cur, reader.end) /\ Asking(e, script, cur, reader.end)
    BY <1>2, <2>0, AskingCur
  <2>3. PICK s : s = Out \o <<h>>
    OBVIOUS
  <2>4. s \in Seq(Message) /\ s # <<>> /\ Answers(s, script, cur, reader.end)
    BY <1>0, <1>2, <2>1, <2>2, <2>3, OneMore, AnswersMore
  <2>5. Answers(s \o <<e>>, script, cur, reader.end)
    BY <2>2, <2>4, AnswersMore
  <2>6. s \o <<e>> = Out \o <<h, e>>
    <3>1. <<h>> \o <<e>> = <<h, e>>
      BY TwoMore
    <3>2. (Out \o <<h>>) \o <<e>> = Out \o (<<h>> \o <<e>>)
      BY <1>0, <1>3, ConcatAssociative
    <3> QED
      BY <2>3, <3>1, <3>2
  <2> QED
    BY <1>1, <2>5, <2>6
<1>6. InTurn'
  BY <1>1 DEF InTurn, Between
<1> QED
  BY <1>4, <1>5, <1>6, AnsweringKeeps

LEMMA InitAnswering == Init => Answering
<1> SUFFICES ASSUME Init PROVE Answering
  OBVIOUS
<1>1. wire = <<>> /\ pending = <<>> /\ pc = "top" /\ cur = 0
  BY DEF Init
<1>2. Out = <<>>
  BY <1>1, ConcatEmptySeq DEF Out
<1> QED
  BY <1>1, <1>2, NoAnswers DEF Answering, InTurn

LEMMA AnsweringStep ==
    ASSUME IndInv, IndInv', Begun, Talk, Answering, [Next]_vars
    PROVE  Answering'
<1>1. CASE \/ Top \/ ReadFails \/ ReadDone \/ ParseIncomplete
           \/ FinishImpossible \/ FinishBodiless \/ FinishBody
           \/ SkipSome \/ SkipFails \/ NextRequest \/ ParseFails \/ Parsed
  BY <1>1, LoopAnswering
<1>2. CASE \/ OpenBody \/ Upgrade \/ ReadUpgraded
           \/ CopyHeldChunk \/ ReadSome \/ ReadAll \/ ReadOn \/ ReadThrows
           \/ Throw \/ FlushContent \/ EndResponse(FALSE)
           \/ Receive \/ GoAway \/ Expire \/ Stop \/ UNCHANGED vars
  BY <1>2, StillAnswering
<1>3. CASE \E how \in {"some", "all"} : StartRead(how)
  BY <1>3, StartReadAnswering
<1>4. CASE \E m \in {"keep", "close", "upgrade"} : Respond(m)
  BY <1>4, RespondAnswering
<1>5. CASE EndResponse(TRUE)
  BY <1>5, EndResponseAnswering
<1>6. CASE SendError
  BY <1>6, SendErrorAnswering
<1> QED
  BY <1>1, <1>2, <1>3, <1>4, <1>5, <1>6 DEF Next, Server

(* The invariant of the refinement: where the loop is determines what it     *)
(* may say, to whom, and why it may end.                                     *)
Holding == IndInv /\ Talk /\ Begun /\ Answering

LEMMA AlwaysHolding == Spec => []Holding
<1>1. Init => Holding
  BY InitInv, InitTalk, InitBegun, InitAnswering DEF Holding
<1>2. Holding /\ [Next]_vars => Holding'
  BY NextStep, NextTalk, BegunStep, AnsweringStep DEF Holding
<1> QED
  BY <1>1, <1>2, PTL DEF Spec

(* What the client has received is legal, to a Conversation as well. *)
LEMMA LegalPromise == Holding => Promise!Legal(wire)
<1> SUFFICES ASSUME Holding PROVE Promise!Legal(wire)
  OBVIOUS
<1>1. /\ wire \in Seq(Message) /\ Legal(wire, script) /\ Answers(wire, script, cur, reader.end)
      /\ cur \in 0..Len(script) /\ script \in Scripts
  BY OutFacts DEF Holding, IndInv, TypeOK, Talk, Answering
<1>2. \A k \in 1..Len(wire) : wire[k] \in Message
  BY <1>1
<1>3. ASSUME NEW k \in 1..Len(wire) PROVE Promise!Proper(wire[k])
  <2>1. Asking(wire[k], script, cur, reader.end)
    BY <1>1 DEF Answers
  <2>2. wire[k].req \in 1..Len(script)
    BY <1>1, <2>1, ScriptFacts DEF Asking
  <2> QED
    BY <1>1, <2>1, <2>2 DEF Promise!Proper, Promise!Asked, Asking, BodyAt, Legal
<1>4. ASSUME NEW k \in 1..Len(wire) - 1 PROVE Promise!Succeeds(wire[k], wire[k + 1])
  <2>1. k \in 1..Len(wire) /\ k + 1 \in 1..Len(wire)
    BY <1>1
  <2>2. PICK m \in Message, n \in Message : m = wire[k] /\ n = wire[k + 1] /\ Follows(m, n)
    BY <1>1, <1>2, <2>1 DEF Legal
  <2>3. m.part \in {"continue", "head", "end"} /\ n.part \in {"continue", "head", "end"}
        /\ m.req \in Nat /\ n.req \in Nat
    BY DEF Message
  <2>4. Promise!Ranks[m.part] = Rank(m) /\ Promise!Ranks[n.part] = Rank(n)
    BY <2>3 DEF Promise!Ranks, Rank
  <2>5. Promise!Succeeds(m, n)
    BY <2>2, <2>3, <2>4 DEF Follows, Promise!Succeeds
  <2> QED
    BY <2>2, <2>5
<1>5. \A j, k \in 1..Len(wire) : j < k /\ Promise!Refuses(wire[j]) => wire[k].req = wire[j].req
  BY <1>1 DEF Legal, Promise!Refuses
<1>6. wire # <<>> => wire[1].req = 1
  BY <1>1 DEF Answers
<1> QED
  BY <1>3, <1>4, <1>5, <1>6 DEF Promise!Legal

LEMMA LegalAfter == Holding' => Promise!Legal(wire)'
<1> QED
  BY LegalPromise, PTL

(* Whatever a step of the server says, it says in one of three ways. *)
LEMMA ServerSends ==
    ASSUME IndInv, Server
    PROVE  \E msgs \in Seq(Message) : Sends(msgs)
<1>1. \E msgs \in Seq(Message) : Silent \/ Write(msgs) \/ Flush(msgs)
  <2>0. <<>> \in Seq(Message)
    OBVIOUS
  <2>1. CASE \/ Top \/ ReadFails \/ ReadDone \/ ParseIncomplete \/ ParseFails \/ Parsed
             \/ OpenBody \/ Upgrade \/ ReadUpgraded \/ CopyHeldChunk \/ ReadSome \/ ReadAll
             \/ ReadOn \/ ReadThrows \/ Throw \/ FlushContent \/ FinishImpossible
             \/ FinishBodiless \/ FinishBody \/ SkipSome \/ SkipFails \/ NextRequest
    <3>1. Silent \/ Flush(<<>>)
      BY <2>1 DEF Top, ReadFails, ReadDone, ParseIncomplete, ParseFails, LoopUnchanged, Parsed,
         OpenBody, Upgrade, ReadUpgraded, CopyHeldChunk, ReadSome, ReadAll, ReadOn, ReadThrows,
         Throw, FlushContent, FinishImpossible, FinishBodiless, FinishBody, SkipSome, SkipFails,
         NextRequest, CloseFlushed, FlushAndWait, Silent
    <3> QED
      BY <2>0, <3>1
  <2>2. ASSUME NEW how \in {"some", "all"}, StartRead(how)
        PROVE  \E msgs \in Seq(Message) : Silent \/ Flush(msgs)
    <3>1. PICK msgs : msgs = <<Continue>>
      OBVIOUS
    <3>2. msgs \in Seq(Message)
      BY <3>1, MessageFacts DEF IndInv
    <3>3. Silent \/ Flush(msgs)
      BY <2>2, <3>1 DEF StartRead
    <3> QED
      BY <3>2, <3>3
  <2>3. ASSUME NEW m \in {"keep", "close", "upgrade"}, Respond(m)
        PROVE  \E msgs \in Seq(Message) : Write(msgs)
    <3>1. Req \in Request
      <4>1. pc \in Serving
        BY <2>3 DEF Respond, Serving
      <4> QED
        BY <4>1, ReqFacts DEF IndInv, Grounded
    <3>2. PICK keep \in BOOLEAN : keep = (Req.keep /\ m = "keep")
      BY <3>1 DEF Request
    <3>3. PICK h \in Message : h = HeadOf(keep)
      BY MessageFacts DEF IndInv
    <3>4. <<h>> \in Seq(Message)
      OBVIOUS
    <3>5. Write(<<h>>)
      BY <2>3, <3>2, <3>3 DEF Respond
    <3> QED
      BY <3>4, <3>5
  <2>4. ASSUME NEW active \in BOOLEAN, EndResponse(active)
        PROVE  \E msgs \in Seq(Message) : Silent \/ Write(msgs) \/ Flush(msgs)
    <3>1. PICK msgs : msgs = IF active THEN <<End>> ELSE <<>>
      OBVIOUS
    <3>2. msgs \in Seq(Message)
      BY <2>0, <3>1, MessageFacts DEF IndInv
    <3>3. Silent \/ Write(msgs) \/ Flush(msgs)
      BY <2>4, <3>1 DEF EndResponse
    <3> QED
      BY <3>2, <3>3
  <2>5. CASE SendError
    <3>1. PICK h \in Message, e \in Message : h = HeadOf(FALSE) /\ e = End
      BY MessageFacts DEF IndInv
    <3>2. <<h, e>> \in Seq(Message)
      OBVIOUS
    <3>3. Flush(<<h, e>>)
      BY <2>5, <3>1 DEF SendError
    <3> QED
      BY <3>2, <3>3
  <2> QED
    BY <2>1, <2>2, <2>3, <2>4, <2>5 DEF Server
<1>2. PICK msgs \in Seq(Message) : Silent \/ Write(msgs) \/ Flush(msgs)
  BY <1>1
<1>3. <<>> \in Seq(Message)
  OBVIOUS
<1> QED
  BY <1>2, <1>3, SendFacts

(* What was said stays said, and nothing reaches a client that has gone. *)
LEMMA SaidPromise ==
    ASSUME Holding, Holding', Server
    PROVE  Promise!Said
<1>0. PICK msgs \in Seq(Message) : Sends(msgs)
  BY ServerSends DEF Holding
<1>1. wire \in Seq(Message) /\ pending \in Seq(Message) /\ Out \in Seq(Message)
  BY OutFacts DEF Holding
<1>2. wire' = wire \/ (client # "reset" /\ wire' = Out \o msgs)
  BY <1>0 DEF Sends
<1>3. PICK rest \in Seq(Message) : Out \o msgs = wire \o rest
  <2>1. pending \o msgs \in Seq(Message)
    BY <1>1, ConcatProperties, Zenon
  <2>2. (wire \o pending) \o msgs = wire \o (pending \o msgs)
    BY <1>1, ConcatAssociative
  <2> QED
    BY <2>1, <2>2 DEF Out
<1>4. /\ Len(wire \o rest) = Len(wire) + Len(rest)
      /\ \A k \in 1..Len(wire) + Len(rest) :
            (wire \o rest)[k] = IF k <= Len(wire) THEN wire[k] ELSE rest[k - Len(wire)]
  BY <1>1, ConcatProperties, Zenon
<1>5. Len(wire) \in Nat /\ Len(rest) \in Nat
  BY <1>1
<1>6. PICK t : t = wire \o rest
  OBVIOUS
<1>7. Len(wire) <= Len(t) /\ \A k \in 1..Len(wire) : t[k] = wire[k]
  BY <1>4, <1>5, <1>6
<1>8. Len(wire) <= Len(wire') /\ \A k \in 1..Len(wire) : wire'[k] = wire[k]
  <2>1. CASE wire' = wire
    BY <1>5, <2>1
  <2>2. CASE wire' = t
    BY <1>7, <2>2
  <2> QED
    BY <1>2, <1>3, <1>6, <2>1, <2>2
<1>9. Promise!Legal(wire')
  <2>1. script' = script /\ reader'.end = reader.end
    BY StepGrows, ServerMoves DEF Holding, Next
  <2>2. Promise!Legal(wire)'
    BY LegalAfter
  <2> QED
    BY <2>1, <2>2 DEF Promise!Legal, Promise!Proper, Promise!Asked
<1> QED
  BY <1>2, <1>8, <1>9 DEF Promise!Said

(* A step that does not close the connection: the client may be told more. *)
LEMMA SayPromise ==
    ASSUME Holding, Holding', Server, ~Upgrade, UNCHANGED <<client, running, expired>>,
           pc # "closed", pc' # "closed"
    PROVE  Promise!Next
<1>1. /\ script' = script /\ reader'.end = reader.end
      /\ (body'.state = "upgraded") = (body.state = "upgraded")
  BY StepGrows, ServerMoves, StaysTaken DEF Holding, Next
<1>2. Promise!Said
  BY SaidPromise
<1>3. Promise!Say
  BY <1>1, <1>2 DEF Promise!Say
<1> QED
  BY <1>3 DEF Promise!Next

(* A step that closes it, for a reason *)
LEMMA ClosePromise ==
    ASSUME Holding, Holding', Server, ~Upgrade, UNCHANGED <<client, running, expired>>,
           pc # "closed", pc' = "closed", Promise!Excused \/ Promise!Explained(wire')
    PROVE  Promise!Next
<1>1. /\ script' = script /\ reader'.end = reader.end
      /\ (body'.state = "upgraded") = (body.state = "upgraded")
  BY StepGrows, ServerMoves, StaysTaken DEF Holding, Next
<1>2. Promise!Said
  BY SaidPromise
<1>3. Promise!Close
  BY <1>1, <1>2 DEF Promise!Close
<1> QED
  BY <1>3 DEF Promise!Next

(* The steps of the client, the timer and the server's host *)
LEMMA EnvironmentPromise ==
    ASSUME Holding, Receive \/ GoAway \/ Expire \/ Stop
    PROVE  [Promise!Next]_(Promise!vars)
<1>0. reader \in Reader /\ reader.end \in Nat
  BY DEF Holding, IndInv, TypeOK, Reader
<1>1. CASE Receive
  <2>1. UNCHANGED <<script, client, wire, expired, running, body, pc>> /\ pc # "closed"
    BY <1>1 DEF Receive, Waiting
  <2>2. reader.end <= reader'.end /\ reader'.end \in Nat
    BY <1>1, StepGrows DEF Holding, Next
  <2>3. CASE reader'.end = reader.end
    BY <2>1, <2>3 DEF Promise!vars
  <2>4. CASE reader'.end # reader.end
    <3>1. reader'.end > reader.end
      BY <1>0, <2>2, <2>4
    <3>2. Promise!Arrive
      BY <2>1, <2>2, <3>1 DEF Promise!Arrive
    <3> QED
      BY <3>2 DEF Promise!Next
  <2> QED
    BY <2>3, <2>4
<1>2. CASE GoAway
  <2>1. Promise!Leave
    BY <1>2 DEF GoAway, Promise!Leave
  <2> QED
    BY <2>1 DEF Promise!Next
<1>3. CASE Expire
  <2>1. Promise!Linger
    BY <1>3 DEF Expire, Promise!Linger
  <2> QED
    BY <2>1 DEF Promise!Next
<1>4. CASE Stop
  <2>1. Promise!Stop
    BY <1>4 DEF Stop, Promise!Stop
  <2> QED
    BY <2>1 DEF Promise!Next
<1> QED
  BY <1>1, <1>2, <1>3, <1>4

(* The loop up to the handler: it ends because the server stops, because the *)
(* client kept it waiting, or because the client has gone.                   *)
LEMMA LoopPromise ==
    ASSUME Holding, Holding',
           Top \/ ReadFails \/ ReadDone \/ ParseIncomplete \/ ParseFails \/ Parsed
    PROVE  Promise!Next
<1>1. /\ UNCHANGED <<client, running, expired>> /\ pc # "closed" /\ Server /\ ~Upgrade
  BY DEF Top, ReadFails, ReadDone, ParseIncomplete, ParseFails, Parsed, LoopUnchanged, Server, Upgrade
<1>2. pc' = "closed" => Promise!Excused
  BY DEF Top, ReadFails, ReadDone, ParseIncomplete, ParseFails, Parsed, AfterPartial,
         Holding, Begun, Promise!Excused
<1> QED
  BY <1>1, <1>2, SayPromise, ClosePromise

(* Only the request being served can hand its connection over. *)
LEMMA UpgradePromise ==
    ASSUME Holding, Upgrade
    PROVE  Promise!Next
<1>1. /\ UNCHANGED <<script, client, wire, expired, running, pc>> /\ pc = "handle"
      /\ body'.state = "upgraded"
  BY DEF Upgrade, HandlerUnchanged, Holding, IndInv, TypeOK, Body
<1>2. reader'.end = reader.end
  BY ServerMoves DEF Holding, Server
<1>3. cur \in 1..Len(script) /\ Promise!Asked(cur) /\ script[cur].valid
  <2>1. cur \in 1..Len(script)
    BY <1>1, BodyFacts DEF Holding, Serving
  <2> QED
    BY <1>1, <2>1 DEF Holding, Begun, Promise!Asked, BodyAt, Req
<1>4. Promise!HandOver
  BY <1>1, <1>2, <1>3 DEF Promise!HandOver
<1> QED
  BY <1>4 DEF Promise!Next

(* Handlers, and the start of a response *)
LEMMA HandlerPromise ==
    ASSUME Holding, Holding',
           \/ OpenBody \/ ReadUpgraded \/ CopyHeldChunk \/ ReadSome \/ ReadAll \/ ReadOn
           \/ ReadThrows \/ Throw \/ FlushContent
           \/ \E how \in {"some", "all"} : StartRead(how)
           \/ \E m \in {"keep", "close", "upgrade"} : Respond(m)
    PROVE  Promise!Next
<1>1. UNCHANGED <<client, running, expired>>
  BY DEF OpenBody, ReadUpgraded, CopyHeldChunk, ReadSome, ReadAll, ReadOn, ReadThrows,
         HandlerUnchanged, Throw, FlushContent, StartRead, Respond, ServerUnchanged
<1>2. pc \in {"handle", "write"} /\ pc' \in {"handle", "write", "error"}
  BY DEF OpenBody, ReadUpgraded, CopyHeldChunk, ReadSome, ReadAll, ReadOn, ReadThrows,
         InHandler, HandlerUnchanged, Throw, FlushContent, StartRead, Respond
<1>3. Server
  BY DEF Server
<1>4. CASE ~Upgrade
  BY <1>1, <1>2, <1>3, <1>4, SayPromise
<1>5. CASE Upgrade
  BY <1>5, UpgradePromise
<1> QED
  BY <1>4, <1>5

(* A flush that reaches the client leaves nothing out. *)
LEMMA FlushFacts ==
    ASSUME IndInv, NEW msgs \in Seq(Message), Flush(msgs), client # "reset"
    PROVE  wire' = Out \o msgs
<1> QED
  BY DEF Flush, Out

LEMMA EmptyFlush ==
    ASSUME IndInv, Flush(<<>>), client # "reset"
    PROVE  wire' = Out
<1>1. wire' = Out \o <<>>
  BY DEF Flush, Out
<1> QED
  BY <1>1, OutFacts

(* What was flushed last, as a reason to close the connection *)
LEMMA LastFacts ==
    ASSUME NEW s \in Seq(Message), s # <<>>
    PROVE  /\ Len(s) \in 1..Len(s) /\ Latest(s) = s[Len(s)]
           /\ Latest(s).part = "head" => Promise!Explained(s)
           /\ Latest(s).part = "end" /\ (script[Latest(s).req].corrupt
                    \/ script[Latest(s).req].framing = "unsupported") => Promise!Explained(s)
<1>1. Len(s) \in 1..Len(s) /\ Latest(s) = s[Len(s)]
  BY DEF Latest
<1> QED
  BY <1>1 DEF Promise!Explained

(* The end of a response closes the connection if its head has said so, if *)
(* its content has failed, or if another protocol was spoken.              *)
LEMMA EndResponsePromise ==
    ASSUME Holding, Holding', NEW active \in BOOLEAN, EndResponse(active)
    PROVE  Promise!Next
<1>0. IndInv /\ Talk /\ Begun /\ Answering /\ Server /\ Out \in Seq(Message)
  BY OutFacts DEF Holding, Server
<1>1. UNCHANGED <<client, running, expired>> /\ pc = "write" /\ ~Upgrade
  BY DEF EndResponse, ServerUnchanged, Upgrade
<1>2. CASE pc' # "closed"
  BY <1>0, <1>1, <1>2, SayPromise
<1>3. CASE pc' = "closed"
  <2>1. CASE client = "reset" \/ mode = "upgrade"
    <3>1. Promise!Excused
      BY <1>0, <1>1, <2>1 DEF Begun, Promise!Excused
    <3> QED
      BY <1>0, <1>1, <1>3, <3>1, ClosePromise
  <2>2. CASE client # "reset" /\ mode # "upgrade"
    <3>0. Out # <<>> /\ Latest(Out).part = "head" /\ (mode = "close" => ~Latest(Out).keep)
      BY <1>0, <1>1, <2>2 DEF Talk, Staged, Answering, InTurn
    <3>1. CASE active
      <4>1. mode = "close"
        BY <1>3, <2>2, <3>1 DEF EndResponse
      <4>2. PICK e \in Message : wire' = Out \o <<e>>
        <5>1. End \in Message
          BY <1>0, MessageFacts DEF IndInv
        <5>2. Flush(<<End>>)
          BY <1>3, <2>2, <3>1, <4>1 DEF EndResponse
        <5> QED
          BY <2>2, <5>1, <5>2 DEF Flush, Out
      <4>3. /\ wire'[Len(Out)] = Latest(Out) /\ Len(Out) \in 1..Len(wire')
        <5>1. Len(Out) \in 1..Len(Out) /\ Latest(Out) = Out[Len(Out)]
          BY <1>0, <3>0, LastFacts
        <5>2. /\ Len(Out \o <<e>>) = Len(Out) + 1
              /\ \A k \in 1..Len(Out) : (Out \o <<e>>)[k] = Out[k]
          BY <1>0, OneMore
        <5>3. Len(Out) \in Nat
          BY <1>0
        <5> QED
          BY <4>2, <5>1, <5>2, <5>3
      <4>4. Promise!Explained(wire')
        BY <3>0, <4>1, <4>3 DEF Promise!Explained, Promise!Refuses
      <4> QED
        BY <1>0, <1>1, <1>3, <4>4, ClosePromise
    <3>2. CASE ~active
      <4>1. Flush(<<>>)
        BY <1>3, <2>2, <3>2 DEF EndResponse
      <4>2. wire' = Out
        BY <1>0, <2>2, <4>1, EmptyFlush
      <4>3. Promise!Explained(wire')
        BY <1>0, <3>0, <4>2, LastFacts
      <4> QED
        BY <1>0, <1>1, <1>3, <4>3, ClosePromise
    <3> QED
      BY <3>1, <3>2
  <2> QED
    BY <2>1, <2>2
<1> QED
  BY <1>2, <1>3

(* An error is answered with a head that closes the connection. *)
LEMMA SendErrorPromise ==
    ASSUME Holding, Holding', SendError
    PROVE  Promise!Next
<1>0. IndInv /\ Server /\ Out \in Seq(Message)
  BY OutFacts DEF Holding, Server
<1>1. UNCHANGED <<client, running, expired>> /\ pc = "error" /\ pc' = "closed" /\ ~Upgrade
  BY DEF SendError, ServerUnchanged, Upgrade
<1>2. CASE client = "reset"
  <2>1. Promise!Excused
    BY <1>2 DEF Promise!Excused
  <2> QED
    BY <1>0, <1>1, <2>1, ClosePromise
<1>3. CASE client # "reset"
  <2>1. PICK h \in Message, e \in Message :
          h.part = "head" /\ ~h.keep /\ wire' = Out \o <<h, e>>
    <3>1. HeadOf(FALSE) \in Message /\ End \in Message
      BY <1>0, MessageFacts DEF IndInv
    <3>2. HeadOf(FALSE).part = "head" /\ ~HeadOf(FALSE).keep
      BY DEF HeadOf
    <3>3. wire' = Out \o <<HeadOf(FALSE), End>>
      BY <1>3 DEF SendError, Flush, Out
    <3> QED
      BY <3>1, <3>2, <3>3
  <2>2. PICK t : t = <<h, e>>
    OBVIOUS
  <2>3. t \in Seq(Message) /\ Len(t) = 2 /\ t[1] = h
    BY <2>2
  <2>4. /\ Len(Out \o t) = Len(Out) + Len(t)
        /\ \A k \in 1..Len(Out) + Len(t) :
             (Out \o t)[k] = IF k <= Len(Out) THEN Out[k] ELSE t[k - Len(Out)]
    BY <1>0, <2>3, ConcatProperties, Zenon
  <2>5. PICK w : w = Out \o t
    OBVIOUS
  <2>6. Len(Out) + 1 \in 1..Len(w) /\ w[Len(Out) + 1] = h
    <3>1. Len(Out) \in Nat
      BY <1>0
    <3>2. /\ Len(w) = Len(Out) + 2
          /\ \A k \in 1..Len(Out) + 2 : w[k] = IF k <= Len(Out) THEN Out[k] ELSE t[k - Len(Out)]
      BY <2>3, <2>4, <2>5
    <3>3. Len(Out) + 1 \in 1..Len(Out) + 2 /\ ~(Len(Out) + 1 <= Len(Out))
          /\ Len(Out) + 1 - Len(Out) = 1
      BY <3>1
    <3> QED
      BY <2>3, <3>2, <3>3
  <2>7. wire' = w
    BY <2>1, <2>2, <2>5
  <2>8. Promise!Explained(wire')
    BY <2>1, <2>6, <2>7 DEF Promise!Explained, Promise!Refuses
  <2> QED
    BY <1>0, <1>1, <2>8, ClosePromise
<1> QED
  BY <1>2, <1>3

(* Behind a complete response: everything has been said, and the last word *)
(* was its end.                                                            *)
LEMMA Complete ==
    ASSUME Holding, pc \in {"finish", "skip", "next"}, client # "reset"
    PROVE  Out # <<>> /\ Latest(Out).part = "end" /\ Latest(Out).req = cur
<1>1. cur > 0
  BY DEF Holding, IndInv, Grounded, Serving
<1> QED
  BY <1>1 DEF Holding, IndInv, TypeOK, Answering, InTurn, Talk, Staged, Between

(* FinishAsync closes the connection only if the body cannot be told from   *)
(* the next request, or the client has stopped in the middle of it.         *)
LEMMA FinishPromise ==
    ASSUME Holding, Holding', FinishImpossible \/ FinishBodiless \/ FinishBody \/ SkipSome \/ SkipFails
    PROVE  Promise!Next
<1>0. IndInv /\ Begun /\ Server /\ Out \in Seq(Message)
  BY OutFacts DEF Holding, Server
<1>1. UNCHANGED <<client, running, expired>> /\ pc \in {"finish", "skip"} /\ ~Upgrade
  BY DEF FinishImpossible, FinishBodiless, FinishBody, SkipSome, SkipFails, ServerUnchanged, Upgrade
<1>2. CASE pc' # "closed"
  BY <1>0, <1>1, <1>2, SayPromise
<1>3. CASE pc' = "closed"
  <2>1. FinishImpossible \/ SkipFails
    BY <1>3 DEF FinishBodiless, FinishBody, SkipSome, AfterFlush
  <2>2. client # "reset" => wire' = Out
    <3>1. CloseFlushed
      BY <1>3, <2>1 DEF FinishImpossible, SkipFails
    <3> QED
      BY <1>0, <3>1, EmptyFlush DEF CloseFlushed
  <2>3. \/ Promise!Excused
        \/ client # "reset" /\ (Req.corrupt \/ Req.framing = "unsupported")
    BY <1>0, <1>3, <2>1 DEF FinishImpossible, SkipFails, Malformed, Begun, Promise!Excused
  <2>4. CASE client # "reset" /\ (Req.corrupt \/ Req.framing = "unsupported")
    <3>1. Out # <<>> /\ Latest(Out).part = "end" /\ Latest(Out).req = cur
      BY <1>1, <2>4, Complete
    <3>2. Promise!Explained(wire')
      BY <1>0, <2>2, <2>4, <3>1, LastFacts DEF Req
    <3> QED
      BY <1>0, <1>1, <1>3, <3>2, ClosePromise
  <2> QED
    BY <1>0, <1>1, <1>3, <2>3, <2>4, ClosePromise
<1> QED
  BY <1>2, <1>3

(* The timer starts anew only when everything has been said. *)
LEMMA NextPromise ==
    ASSUME Holding, Holding', NextRequest
    PROVE  Promise!Next
<1>0. IndInv /\ Server /\ Out \in Seq(Message)
  BY OutFacts DEF Holding, Server
<1>1. UNCHANGED <<client, running>> /\ pc = "next" /\ pc' # "closed" /\ ~Upgrade
  BY DEF NextRequest, FlushAndWait, AfterFlush, Upgrade
<1>2. CASE HasMore(reader)
  BY <1>0, <1>1, <1>2, SayPromise DEF NextRequest
<1>3. CASE ~HasMore(reader)
  <2>1. expired' = FALSE /\ Flush(<<>>)
    BY <1>3 DEF NextRequest, FlushAndWait
  <2>2. /\ script' = script /\ reader'.end = reader.end
        /\ (body'.state = "upgraded") = (body.state = "upgraded")
    BY <1>0, <1>1, StepGrows, ServerMoves, StaysTaken DEF Holding, Next
  <2>3. Promise!Said
    BY <1>0, SaidPromise
  <2>4. client # "reset" => wire' # <<>> /\ wire'[Len(wire')].part = "end"
    BY <1>0, <1>1, <2>1, EmptyFlush, Complete, LastFacts
  <2>5. Promise!Await
    BY <1>1, <2>1, <2>2, <2>3, <2>4 DEF Promise!Await
  <2> QED
    BY <2>5 DEF Promise!Next
<1> QED
  BY <1>2, <1>3

(* A connection is a Conversation: whatever the client sends and however it *)
(* goes away, whatever handlers do, and whenever the timer fires or the     *)
(* server stops, requests are answered in their turn and never before they  *)
(* are there, and the connection is never closed without a reason.          *)
THEOREM KeepsPromise == Spec => ConversationKept
<1>1. Init => Promise!Init
  BY DEF Init, Promise!Init, Fresh, NoBody
<1>2. Holding /\ Holding' /\ [Next]_vars => [Promise!Next]_(Promise!vars)
  <2> SUFFICES ASSUME Holding, Holding', [Next]_vars PROVE [Promise!Next]_(Promise!vars)
    OBVIOUS
  <2>1. CASE Server
    BY <2>1, LoopPromise, UpgradePromise, HandlerPromise, EndResponsePromise, SendErrorPromise,
       FinishPromise, NextPromise DEF Server
  <2>2. CASE Receive \/ GoAway \/ Expire \/ Stop
    BY <2>2, EnvironmentPromise
  <2>3. CASE UNCHANGED vars
    BY <2>3 DEF vars, Promise!vars
  <2> QED
    BY <2>1, <2>2, <2>3 DEF Next
<1> QED
  BY <1>1, <1>2, AlwaysHolding, PTL DEF Spec, ConversationKept, Promise!Spec
=============================================================================
