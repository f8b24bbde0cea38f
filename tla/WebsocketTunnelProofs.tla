------------------------ MODULE WebsocketTunnelProofs ------------------------
(***************************************************************************)
(* Proofs about WebsocketTunnel, for every length of the upstream's head   *)
(* and however much either end sends.                                      *)
(***************************************************************************)
EXTENDS WebsocketTunnel, PipeReaderProofs, SequenceTheorems, TLAPS

Limit == HeadLen + MaxSent

Skipped == IF greeted THEN HeadLen ELSE 0

Handshaking == {"connect", "tls", "write", "top", "handshake"}
Relaying == {"tunnel", "ended"}

LEMMA LimitFacts == HeadLen \in Nat \ {0} /\ MaxSent \in Nat /\ Limit \in Nat
<1> QED
  BY HeadAssumption, BoundAssumption DEF Limit

(* A piece of what was sent: how long it is, and that it was sent *)
LEMMA UnitsFacts ==
    ASSUME NEW a \in Nat, NEW b \in Nat, a <= b
    PROVE  /\ Len(Units(a, b)) = b - a
           /\ \A i \in 1..b - a : Units(a, b)[i] = a + i
           /\ \A n \in Nat : b <= n => Units(a, b) \in Seq(1..n)
           /\ Units(a, b) \in Seq(Nat)
<1>1. b - a \in Nat
  OBVIOUS
<1>2. \A i \in 1..b - a : a + i \in Nat /\ a + i \in 1..b
  OBVIOUS
<1>3. Units(a, b) \in Seq(Nat)
  BY <1>1, <1>2 DEF Units
<1>4. Len(Units(a, b)) = b - a
  BY <1>1 DEF Units
<1>5. ASSUME NEW n \in Nat, b <= n PROVE Units(a, b) \in Seq(1..n)
  <2>1. \A i \in 1..b - a : a + i \in 1..n
    BY <1>2, <1>5
  <2> QED
    BY <1>1, <2>1 DEF Units
<1> QED
  BY <1>3, <1>4, <1>5 DEF Units

LEMMA NoUnits == \A a \in Nat : Units(a, a) = <<>>
<1>1. ASSUME NEW a \in Nat PROVE Units(a, a) = <<>>
  <2>1. Units(a, a) \in Seq(Nat) /\ Len(Units(a, a)) = 0
    BY UnitsFacts
  <2> QED
    BY <2>1
<1> QED
  BY <1>1

(* Two pieces of a stream, one behind the other, are one. *)
LEMMA UnitsJoin ==
    ASSUME NEW a \in Nat, NEW b \in Nat, NEW c \in Nat, a <= b, b <= c
    PROVE  Units(a, b) \o Units(b, c) = Units(a, c)
<1> DEFINE s == Units(a, b)
<1> DEFINE t == Units(b, c)
<1> DEFINE u == Units(a, c)
<1>1. s \in Seq(Nat) /\ Len(s) = b - a /\ \A i \in 1..b - a : s[i] = a + i
  BY UnitsFacts
<1>2. t \in Seq(Nat) /\ Len(t) = c - b /\ \A i \in 1..c - b : t[i] = b + i
  BY UnitsFacts
<1>3. a <= c
  OBVIOUS
<1>4. u \in Seq(Nat) /\ Len(u) = c - a /\ \A i \in 1..c - a : u[i] = a + i
  BY UnitsFacts, <1>3
<1> HIDE DEF s, t, u
<1>5. /\ s \o t \in Seq(Nat)
      /\ Len(s \o t) = c - a
      /\ \A i \in 1..c - a : (s \o t)[i] = IF i <= b - a THEN s[i] ELSE t[i - (b - a)]
  <2>1. Len(s) + Len(t) = c - a
    BY <1>1, <1>2
  <2>2. /\ s \o t \in Seq(Nat)
        /\ Len(s \o t) = Len(s) + Len(t)
        /\ \A i \in 1..Len(s) + Len(t) :
             (s \o t)[i] = IF i <= Len(s) THEN s[i] ELSE t[i - Len(s)]
    BY <1>1, <1>2, ConcatProperties, Zenon
  <2> QED
    BY <1>1, <2>1, <2>2
<1>6. \A i \in 1..c - a : (s \o t)[i] = u[i]
  <2>1. ASSUME NEW i \in 1..c - a PROVE (s \o t)[i] = a + i
    <3>1. CASE i <= b - a
      <4>1. i \in 1..b - a
        BY <2>1, <3>1
      <4> QED
        BY <1>1, <1>5, <2>1, <3>1, <4>1
    <3>2. CASE ~(i <= b - a)
      <4>1. i - (b - a) \in 1..c - b /\ b + (i - (b - a)) = a + i
        BY <2>1, <3>2
      <4> QED
        BY <1>2, <1>5, <2>1, <3>2, <4>1
    <3> QED
      BY <3>1, <3>2
  <2> QED
    BY <1>4, <2>1
<1>7. s \o t = u
  BY <1>4, <1>5, <1>6, SeqEqual
<1> QED
  BY <1>7 DEF s, t, u

(* The readers stay inside what the ends send, and see the end of a stream  *)
(* only behind everything that was sent.                                    *)
Ordered ==
    /\ input.pos <= input.end /\ input.end <= peer.sends
    /\ downstream.pos <= downstream.end /\ downstream.end <= client.sends
    /\ input.eof => peer.end # "no" /\ input.end = peer.sends
    /\ downstream.eof => client.end # "no" /\ downstream.end = client.sends

(* Until the tunnel is open nothing is relayed, and only the upstream's head *)
(* is consumed; then the reader is behind what the client has got.           *)
Staged ==
    /\ pc \in Handshaking => ~greeted /\ input.pos = 0
    /\ pc \in {"answer", "head"} => input.pos = Skipped /\ (greeted \/ ~running)
    /\ pc \notin Relaying => up = "off" /\ down = "off" /\ client.got = <<>>
    /\ pc \in Relaying => input.pos = Skipped + Len(client.got)

(* A direction fails only with one of its ends, and is done only at the end *)
(* of its stream.                                                           *)
Copied ==
    /\ up = "failed" \/ down = "failed" => peer.end = "reset" \/ client.end = "reset"
    /\ up = "done" => input.eof /\ input.pos = input.end
    /\ down = "done" => downstream.eof /\ downstream.pos = downstream.end
    /\ pc = "ended" => raw = "disposed" /\ {up, down} \cap {"off", "copying"} = {}

IndInv == TypeOK /\ Ordered /\ Staged /\ Copied /\ Relayed /\ SwitchedAfterGreeting

----------------------------------------------------------------------------
LEMMA EndFacts ==
    ASSUME TypeOK
    PROVE  /\ input \in Reader /\ downstream \in Reader
           /\ peer.sends \in 0..Limit /\ client.sends \in 0..Limit
           /\ peer.got \in Seq(1..Limit) /\ client.got \in Seq(1..Limit)
           /\ Len(peer.got) \in Nat /\ Len(client.got) \in Nat
           /\ input.pos \in Nat /\ input.end \in Nat /\ input.eof \in BOOLEAN
           /\ downstream.pos \in Nat /\ downstream.end \in Nat /\ downstream.eof \in BOOLEAN
           /\ Skipped \in Nat
<1>1. peer \in End /\ client \in End
  BY DEF TypeOK
<1>2. /\ peer.sends \in 0..Limit /\ client.sends \in 0..Limit
      /\ peer.got \in Seq(1..Limit) /\ client.got \in Seq(1..Limit)
  BY <1>1 DEF End, Limit
<1>3. Len(peer.got) \in Nat /\ Len(client.got) \in Nat
  BY <1>2
<1> QED
  BY <1>2, <1>3, LimitFacts DEF TypeOK, Reader, Skipped

LEMMA InitInv == Init => IndInv
<1> SUFFICES ASSUME Init PROVE IndInv
  OBVIOUS
<1>1. <<>> \in Seq(1..Limit) /\ Len(<<>>) = 0
  OBVIOUS
<1>2. peer \in End /\ client \in End
  BY <1>1, LimitFacts DEF Init, End, Limit
<1>3. TypeOK
  BY <1>2 DEF Init, TypeOK, Copying, Reader, Fresh
<1>4. Ordered /\ Copied /\ SwitchedAfterGreeting
  BY DEF Init, Ordered, Copied, SwitchedAfterGreeting, Fresh
<1>5. Staged
  BY <1>1 DEF Init, Staged, Handshaking, Relaying, Fresh
<1>6. Relayed
  <2>1. Units(0, 0) = <<>>
    BY NoUnits
  <2> QED
    BY <1>1, <2>1 DEF Init, Relayed, Fresh
<1> QED
  BY <1>3, <1>4, <1>5, <1>6 DEF IndInv

(* A request that fails has relayed nothing. *)
LEMMA FailsStep ==
    ASSUME IndInv, pc \in Handshaking \cup {"answer", "head"},
           NEW s \in {0, 400, 500, 502, 504}, Fails(s)
    PROVE  IndInv'
<1>1. TypeOK'
  BY DEF IndInv, Fails, links, settings, TypeOK
<1>2. Ordered' /\ Copied' /\ SwitchedAfterGreeting'
  BY DEF IndInv, Fails, links, settings, Ordered, Copied, SwitchedAfterGreeting
<1>3. Staged'
  BY DEF IndInv, Fails, links, settings, Staged, Handshaking, Relaying
<1>4. Relayed'
  BY DEF IndInv, Fails, links, settings, Relayed
<1> QED
  BY <1>1, <1>2, <1>3, <1>4 DEF IndInv

(* A step on the way to the tunnel that moves nothing *)
LEMMA GoesStep ==
    ASSUME IndInv, NEW to, Goes(to), UNCHANGED greeted,
           \/ pc \in Handshaking /\ to \in Handshaking
           \/ pc = "top" /\ to = "answer" /\ ~running
           \/ pc = "answer" /\ to = "head"
    PROVE  IndInv'
<1>1. TypeOK'
  BY DEF IndInv, Goes, links, settings, TypeOK, Handshaking
<1>2. Ordered' /\ Copied' /\ SwitchedAfterGreeting'
  BY DEF IndInv, Goes, links, settings, Ordered, Copied, SwitchedAfterGreeting, Handshaking
<1>3. Staged'
  BY DEF IndInv, Goes, links, settings, Staged, Handshaking, Relaying, Skipped
<1>4. Relayed'
  BY DEF IndInv, Goes, links, settings, Relayed, Handshaking
<1> QED
  BY <1>1, <1>2, <1>3, <1>4 DEF IndInv

LEMMA HandshakeStep ==
    ASSUME IndInv,
           Connect \/ Authenticate \/ WriteRequest \/ Expires \/ WhileRunning \/ ReadReset \/ Answer
    PROVE  IndInv'
<1>1. CASE Connect
  BY <1>1, FailsStep, GoesStep DEF Connect, Handshaking
<1>2. CASE Authenticate
  BY <1>2, FailsStep, GoesStep DEF Authenticate, Handshaking
<1>3. CASE WriteRequest
  BY <1>3, FailsStep, GoesStep DEF WriteRequest, Handshaking
<1>4. CASE Expires
  BY <1>4, FailsStep DEF Expires, TimedOut, Handshaking
<1>5. CASE WhileRunning
  BY <1>5, GoesStep DEF WhileRunning, Handshaking
<1>6. CASE ReadReset
  BY <1>6, FailsStep DEF ReadReset, Handshaking
<1>7. CASE Answer
  BY <1>7, FailsStep, GoesStep DEF Answer
<1> QED
  BY <1>1, <1>2, <1>3, <1>4, <1>5, <1>6, <1>7

(* The head of the upstream's response is consumed, and nothing behind it. *)
LEMMA ReadHeadStep == ASSUME IndInv, ReadHead PROVE IndInv'
<1>1. /\ input' \in Reader /\ input'.pos = HeadLen /\ input'.end = input.end
      /\ input'.eof = input.eof
  <2>1. input \in Reader /\ HeadLen \in Nat
    BY EndFacts, LimitFacts DEF IndInv
  <2>2. input' = Consume(input, HeadLen)
    BY DEF ReadHead, BehindHead
  <2> QED
    BY <2>1, <2>2, ReaderFacts, EofFacts
<1>2. greeted' = TRUE /\ HeadLen <= input.end
  BY DEF ReadHead, HeadArrived
<1>3. TypeOK'
  BY <1>1, <1>2 DEF IndInv, ReadHead, settings, TypeOK
<1>4. Ordered'
  BY <1>1, <1>2 DEF IndInv, ReadHead, Ordered
<1>5. client'.got = <<>> /\ Len(client'.got) = 0
  BY DEF IndInv, ReadHead, Staged, Relaying
<1>6. Staged'
  BY <1>1, <1>2, <1>5 DEF IndInv, ReadHead, Staged, Handshaking, Relaying, Skipped
<1>7. Copied' /\ SwitchedAfterGreeting'
  BY <1>2 DEF IndInv, ReadHead, Staged, Relaying, Copied, SwitchedAfterGreeting
<1>8. Relayed'
  <2>1. Units(HeadLen, HeadLen + 0) = <<>>
    BY LimitFacts, NoUnits
  <2> QED
    BY <1>2, <1>5, <2>1 DEF IndInv, ReadHead, Relayed
<1> QED
  BY <1>3, <1>4, <1>6, <1>7, <1>8 DEF IndInv

LEMMA ReadMoreStep == ASSUME IndInv, ReadMore PROVE IndInv'
<1>1. CASE input.eof
  BY <1>1, FailsStep DEF ReadMore, Handshaking
<1>2. CASE ~input.eof
  <2>1. /\ input' \in Reader /\ input'.pos = input.pos /\ input'.end = input.end
        /\ input'.eof = input.eof
    <3>1. input \in Reader /\ input' = ExamineAll(input)
      BY <1>2, EndFacts DEF IndInv, ReadMore
    <3> QED
      BY <3>1, ReaderFacts, EofFacts
  <2>2. TypeOK'
    BY <1>2, <2>1 DEF IndInv, ReadMore, settings, TypeOK
  <2>3. Ordered' /\ Copied' /\ SwitchedAfterGreeting'
    BY <1>2, <2>1 DEF IndInv, ReadMore, Ordered, Copied, SwitchedAfterGreeting
  <2>4. Staged'
    BY <1>2, <2>1 DEF IndInv, ReadMore, Staged, Handshaking, Relaying
  <2>5. Relayed'
    BY <1>2, <2>1 DEF IndInv, ReadMore, Relayed
  <2> QED
    BY <2>2, <2>3, <2>4, <2>5 DEF IndInv
<1> QED
  BY <1>1, <1>2

LEMMA WriteHeadStep == ASSUME IndInv, WriteHead PROVE IndInv'
<1>1. CASE client.end = "reset"
  BY <1>1, FailsStep DEF WriteHead
<1>2. CASE client.end # "reset"
  <2>1. TypeOK'
    BY <1>2 DEF IndInv, WriteHead, settings, TypeOK, Copying
  <2>2. Ordered' /\ Copied' /\ SwitchedAfterGreeting'
    BY <1>2 DEF IndInv, WriteHead, Staged, Ordered, Copied, SwitchedAfterGreeting
  <2>3. input.pos = Skipped /\ client.got = <<>> /\ Len(client.got) = 0
    BY DEF IndInv, WriteHead, Staged, Relaying
  <2>4. Staged' /\ Relayed'
    BY <1>2, <2>3, EndFacts DEF IndInv, WriteHead, Staged, Relayed, Handshaking, Relaying, Skipped
  <2> QED
    BY <2>1, <2>2, <2>4 DEF IndInv
<1> QED
  BY <1>1, <1>2

----------------------------------------------------------------------------
(* What the client gets is continued by exactly what is in the reader. *)
LEMMA UpstreamStep == ASSUME IndInv, UpstreamHandler PROVE IndInv'
<1>1. CASE UNCHANGED <<client, input>> /\ up' = "failed"
  <2>1. peer.end = "reset" \/ client.end = "reset"
    BY <1>1, EndFacts DEF UpstreamHandler, IndInv
  <2>2. TypeOK'
    BY <1>1 DEF IndInv, UpstreamHandler, settings, TypeOK, Copying
  <2>3. Ordered' /\ Copied' /\ SwitchedAfterGreeting'
    BY <1>1, <2>1 DEF IndInv, UpstreamHandler, Ordered, Copied, SwitchedAfterGreeting
  <2>4. Staged' /\ Relayed'
    BY <1>1 DEF IndInv, UpstreamHandler, Staged, Relayed, Handshaking, Relaying, Skipped
  <2> QED
    BY <2>2, <2>3, <2>4 DEF IndInv
<1>2. CASE /\ client' = [client EXCEPT !.got = @ \o Units(input.pos, input.end)]
           /\ input' = Consume(input, input.end)
           /\ up' = IF input.eof THEN "done" ELSE "copying"
  <2> DEFINE piece == Units(input.pos, input.end)
  <2>1. /\ input' \in Reader /\ input'.pos = input.end /\ input'.end = input.end
        /\ input'.eof = input.eof
    <3>1. input \in Reader /\ input.end \in Nat
      BY EndFacts DEF IndInv
    <3> QED
      BY <1>2, <3>1, ReaderFacts, EofFacts
  <2>2. /\ piece \in Seq(1..Limit) /\ Len(piece) = input.end - input.pos
        /\ input.pos <= input.end /\ input.end <= Limit
    <3>1. input.pos \in Nat /\ input.end \in Nat /\ Limit \in Nat
      BY EndFacts, LimitFacts DEF IndInv
    <3>2. input.pos <= input.end /\ input.end <= Limit
      BY <3>1, EndFacts DEF IndInv, Ordered
    <3> QED
      BY <3>1, <3>2, UnitsFacts
  <2> HIDE DEF piece
  <2>3. /\ client'.got = client.got \o piece
        /\ client'.sends = client.sends /\ client'.end = client.end
        /\ client' \in End
        /\ Len(client'.got) = Len(client.got) + (input.end - input.pos)
    <3>1. /\ client.got \o piece \in Seq(1..Limit)
          /\ Len(client.got \o piece) = Len(client.got) + Len(piece)
      BY <2>2, EndFacts, ConcatProperties DEF IndInv
    <3>2. client \in End
      BY DEF IndInv, TypeOK
    <3> QED
      BY <1>2, <2>2, <3>1, <3>2 DEF End, Limit, piece
  <2>4. TypeOK'
    BY <1>2, <2>1, <2>3 DEF IndInv, UpstreamHandler, settings, TypeOK, Copying
  <2>5. Ordered' /\ SwitchedAfterGreeting'
    BY <1>2, <2>1, <2>3, EndFacts DEF IndInv, UpstreamHandler, Ordered, SwitchedAfterGreeting
  <2>6. Copied'
    BY <1>2, <2>1, <2>3 DEF IndInv, UpstreamHandler, Copied
  <2>7. input.pos = Skipped + Len(client.got) /\ pc = "tunnel"
    BY DEF IndInv, UpstreamHandler, Staged, Relaying
  <2>8. input'.pos = Skipped + Len(client'.got)
    BY SMTT(30), <2>1, <2>3, <2>7, EndFacts DEF IndInv
  <2>9. Staged'
    BY <2>7, <2>8 DEF UpstreamHandler, Staged, Handshaking, Relaying, Skipped
  <2>10. client.got \o piece = Units(Skipped, input.end)
    <3>1. client.got = Units(Skipped, input.pos)
      BY <2>7 DEF IndInv, Relayed, Skipped
    <3>2. Skipped <= input.pos
      BY <2>7, EndFacts DEF IndInv
    <3> QED
      <4>1. Skipped \in Nat /\ input.pos \in Nat /\ input.end \in Nat
        BY EndFacts DEF IndInv
      <4> QED
        BY <2>2, <3>1, <3>2, <4>1, UnitsJoin, ZenonT(60) DEF piece
  <2>11. Relayed'
    BY <2>1, <2>3, <2>8, <2>10 DEF IndInv, UpstreamHandler, Relayed, Skipped
  <2> QED
    BY <2>4, <2>5, <2>6, <2>9, <2>11 DEF IndInv
<1> QED
  BY <1>1, <1>2 DEF UpstreamHandler

(* The same for the upstream host. *)
LEMMA DownstreamStep == ASSUME IndInv, DownstreamHandler PROVE IndInv'
<1>1. CASE UNCHANGED <<peer, downstream>> /\ down' = "failed"
  <2>1. peer.end = "reset" \/ client.end = "reset"
    BY <1>1, EndFacts DEF DownstreamHandler, IndInv
  <2>2. TypeOK'
    BY <1>1 DEF IndInv, DownstreamHandler, settings, TypeOK, Copying
  <2>3. Ordered' /\ Copied' /\ SwitchedAfterGreeting'
    BY <1>1, <2>1 DEF IndInv, DownstreamHandler, Ordered, Copied, SwitchedAfterGreeting
  <2>4. Staged' /\ Relayed'
    BY <1>1 DEF IndInv, DownstreamHandler, Staged, Relayed, Handshaking, Relaying, Skipped
  <2> QED
    BY <2>2, <2>3, <2>4 DEF IndInv
<1>2. CASE /\ peer' = [peer EXCEPT !.got = @ \o Units(downstream.pos, downstream.end)]
           /\ downstream' = Consume(downstream, downstream.end)
           /\ down' = IF downstream.eof THEN "done" ELSE "copying"
  <2> DEFINE piece == Units(downstream.pos, downstream.end)
  <2>1. /\ downstream' \in Reader /\ downstream'.pos = downstream.end
        /\ downstream'.end = downstream.end /\ downstream'.eof = downstream.eof
    <3>1. downstream \in Reader /\ downstream.end \in Nat
      BY EndFacts DEF IndInv
    <3> QED
      BY <1>2, <3>1, ReaderFacts, EofFacts
  <2>2. /\ piece \in Seq(1..Limit)
        /\ downstream.pos <= downstream.end /\ downstream.end <= Limit
    <3>1. downstream.pos \in Nat /\ downstream.end \in Nat /\ Limit \in Nat
      BY EndFacts, LimitFacts DEF IndInv
    <3>2. downstream.pos <= downstream.end /\ downstream.end <= Limit
      BY <3>1, EndFacts DEF IndInv, Ordered
    <3> QED
      BY <3>1, <3>2, UnitsFacts
  <2> HIDE DEF piece
  <2>3. /\ peer'.got = peer.got \o piece
        /\ peer'.sends = peer.sends /\ peer'.end = peer.end
        /\ peer' \in End
    <3>1. peer.got \o piece \in Seq(1..Limit)
      BY <2>2, EndFacts, ConcatProperties DEF IndInv
    <3>2. peer \in End
      BY DEF IndInv, TypeOK
    <3> QED
      BY <1>2, <2>2, <3>1, <3>2 DEF End, Limit, piece
  <2>4. TypeOK'
    BY <1>2, <2>1, <2>3 DEF IndInv, DownstreamHandler, settings, TypeOK, Copying
  <2>5. Ordered' /\ SwitchedAfterGreeting'
    BY <1>2, <2>1, <2>3, EndFacts DEF IndInv, DownstreamHandler, Ordered, SwitchedAfterGreeting
  <2>6. Copied'
    BY <1>2, <2>1, <2>3 DEF IndInv, DownstreamHandler, Copied
  <2>7. Staged'
    BY DEF IndInv, DownstreamHandler, Staged, Handshaking, Relaying, Skipped
  <2>8. peer.got \o piece = Units(0, downstream.end)
    <3>1. peer.got = Units(0, downstream.pos)
      BY DEF IndInv, Relayed
    <3> QED
      <4>1. downstream.pos \in Nat /\ downstream.end \in Nat /\ 0 <= downstream.pos
        BY EndFacts DEF IndInv
      <4> QED
        BY <2>2, <3>1, <4>1, UnitsJoin DEF piece
  <2>9. Relayed'
    BY <2>1, <2>3, <2>8 DEF IndInv, DownstreamHandler, Relayed
  <2> QED
    BY <2>4, <2>5, <2>6, <2>7, <2>9 DEF IndInv
<1> QED
  BY <1>1, <1>2 DEF DownstreamHandler

LEMMA EndTunnelStep == ASSUME IndInv, EndTunnel PROVE IndInv'
<1>1. TypeOK' /\ Ordered'
  BY DEF IndInv, EndTunnel, links, settings, TypeOK, Ordered
<1>2. Copied' /\ SwitchedAfterGreeting'
  BY DEF IndInv, EndTunnel, BothEnded, links, Copied, SwitchedAfterGreeting
<1>3. Staged' /\ Relayed'
  BY DEF IndInv, EndTunnel, links, Staged, Relayed, Handshaking, Relaying, Skipped
<1> QED
  BY <1>1, <1>2, <1>3 DEF IndInv

----------------------------------------------------------------------------
(* The ends send and leave: what was seen of them stays true. *)
LEMMA PeerSendsStep == ASSUME IndInv, PeerSends PROVE IndInv'
<1>1. /\ peer' \in End /\ peer'.got = peer.got /\ peer'.end = peer.end
      /\ peer'.sends > peer.sends
  <2>1. PICK n \in peer.sends + 1..HeadLen + MaxSent : peer' = [peer EXCEPT !.sends = n]
    BY DEF PeerSends
  <2>2. peer \in End /\ peer.sends \in Nat
    BY EndFacts, LimitFacts DEF IndInv, TypeOK
  <2>3. n \in 0..HeadLen + MaxSent /\ n > peer.sends
    BY <2>1, <2>2, LimitFacts
  <2> QED
    BY <2>1, <2>2, <2>3 DEF End
<1>2. ~input.eof
  BY DEF IndInv, PeerSends, Ordered
<1>3. TypeOK'
  BY <1>1 DEF IndInv, PeerSends, proxy, settings, TypeOK
<1>4. Ordered' /\ Copied' /\ SwitchedAfterGreeting'
  BY SMTT(30), <1>1, <1>2, EndFacts DEF IndInv, PeerSends, proxy, Ordered, Copied, SwitchedAfterGreeting
<1>5. Staged' /\ Relayed'
  BY <1>1 DEF IndInv, PeerSends, proxy, Staged, Relayed, Skipped
<1> QED
  BY <1>3, <1>4, <1>5 DEF IndInv

LEMMA ClientSendsStep == ASSUME IndInv, ClientSends PROVE IndInv'
<1>1. /\ client' \in End /\ client'.got = client.got /\ client'.end = client.end
      /\ client'.sends > client.sends
  <2>1. client \in End /\ client.sends \in Nat
    BY EndFacts, LimitFacts DEF IndInv, TypeOK
  <2>2. /\ client' = [client EXCEPT !.sends = client.sends + 1]
        /\ client.sends + 1 \in 0..HeadLen + MaxSent
    BY <2>1, LimitFacts DEF ClientSends
  <2> QED
    BY <2>1, <2>2 DEF End
<1>2. ~downstream.eof
  BY DEF IndInv, ClientSends, Ordered
<1>3. TypeOK'
  BY <1>1 DEF IndInv, ClientSends, proxy, settings, TypeOK
<1>4. Ordered' /\ Copied' /\ SwitchedAfterGreeting'
  BY <1>1, <1>2, EndFacts DEF IndInv, ClientSends, proxy, Ordered, Copied, SwitchedAfterGreeting
<1>5. Staged' /\ Relayed'
  BY <1>1 DEF IndInv, ClientSends, proxy, Staged, Relayed, Skipped
<1> QED
  BY <1>3, <1>4, <1>5 DEF IndInv

LEMMA EndsStep == ASSUME IndInv, Ends PROVE IndInv'
<1>1. /\ peer' \in End /\ peer'.got = peer.got /\ peer'.sends = peer.sends
      /\ client' \in End /\ client'.got = client.got /\ client'.sends = client.sends
  BY DEF IndInv, TypeOK, Ends, End
<1>2. /\ peer.end # "no" => peer'.end # "no"
      /\ client.end # "no" => client'.end # "no"
      /\ peer.end = "reset" => peer'.end = "reset"
      /\ client.end = "reset" => client'.end = "reset"
  BY DEF IndInv, TypeOK, Ends, End
<1>3. TypeOK'
  BY <1>1 DEF IndInv, Ends, proxy, settings, TypeOK
<1>4. Ordered' /\ Copied' /\ SwitchedAfterGreeting'
  BY <1>1, <1>2 DEF IndInv, Ends, proxy, Ordered, Copied, SwitchedAfterGreeting
<1>5. Staged' /\ Relayed'
  BY <1>1 DEF IndInv, Ends, proxy, Staged, Relayed, Skipped
<1> QED
  BY <1>3, <1>4, <1>5 DEF IndInv

(* A read of either stream: what its end has sent, or that it has ended *)
LEMMA ArrivalFacts ==
    ASSUME NEW r \in Reader, NEW from \in End, NEW s \in Arrival(r, from), ~r.eof
    PROVE  /\ s \in Reader /\ s.pos = r.pos /\ s.end >= r.end
           /\ r.end <= from.sends => s.end <= from.sends
           /\ s.eof => from.end # "no" /\ s.end = from.sends
<1>1. from.sends \in Nat /\ r.end \in Nat /\ r.eof \in BOOLEAN
  BY LimitFacts DEF End, Reader
<1>2. CASE \E n \in r.end + 1..from.sends : s = Pull(r, n)
  <2>1. PICK n \in r.end + 1..from.sends : s = Pull(r, n)
    BY <1>2
  <2>2. n \in Nat /\ n >= r.end /\ n <= from.sends
    BY <1>1, <2>1
  <2> QED
    <3>1. s \in Reader /\ s.pos = r.pos /\ s.end = n /\ s.eof = r.eof
      BY <2>1, <2>2 DEF Pull, Reader
    <3> QED
      BY <1>1, <2>2, <3>1
<1>3. CASE from.end = "fin" /\ r.end = from.sends /\ s = PullEnd(r)
  BY <1>1, <1>3, ReaderFacts, EofFacts
<1> QED
  BY <1>2, <1>3 DEF Arrival

LEMMA ReceiveStep == ASSUME IndInv, Receive PROVE IndInv'
<1>1. CASE input' \in Arrival(input, peer) /\ ~input.eof /\ UNCHANGED downstream
  <2>1. /\ input' \in Reader /\ input'.pos = input.pos /\ input'.end >= input.end
        /\ input'.end <= peer.sends
        /\ input'.eof => peer.end # "no" /\ input'.end = peer.sends
    BY <1>1, ArrivalFacts DEF IndInv, TypeOK, Ordered
  <2>2. up # "done"
    BY <1>1 DEF IndInv, Copied
  <2>3. TypeOK'
    BY <1>1, <2>1 DEF IndInv, Receive, proxy, settings, TypeOK
  <2>4. Ordered' /\ Copied' /\ SwitchedAfterGreeting'
    BY <1>1, <2>1, <2>2, EndFacts DEF IndInv, TypeOK, Reader, Receive, proxy, Ordered, Copied, SwitchedAfterGreeting
  <2>5. Staged' /\ Relayed'
    BY <1>1, <2>1 DEF IndInv, Receive, proxy, Staged, Relayed, Skipped
  <2> QED
    BY <2>3, <2>4, <2>5 DEF IndInv
<1>2. CASE downstream' \in Arrival(downstream, client) /\ ~downstream.eof /\ UNCHANGED input
  <2>1. /\ downstream' \in Reader /\ downstream'.pos = downstream.pos
        /\ downstream'.end >= downstream.end /\ downstream'.end <= client.sends
        /\ downstream'.eof => client.end # "no" /\ downstream'.end = client.sends
    BY <1>2, ArrivalFacts DEF IndInv, TypeOK, Ordered
  <2>2. down # "done"
    BY <1>2 DEF IndInv, Copied
  <2>3. TypeOK'
    BY <1>2, <2>1 DEF IndInv, Receive, proxy, settings, TypeOK
  <2>4. Ordered' /\ Copied' /\ SwitchedAfterGreeting'
    BY <1>2, <2>1, <2>2, EndFacts DEF IndInv, TypeOK, Reader, Receive, proxy, Ordered, Copied, SwitchedAfterGreeting
  <2>5. Staged' /\ Relayed'
    BY <1>2, <2>1 DEF IndInv, Receive, proxy, Staged, Relayed, Skipped
  <2> QED
    BY <2>3, <2>4, <2>5 DEF IndInv
<1> QED
  BY <1>1, <1>2 DEF Receive, Readable, Copyable

LEMMA QuietStep == ASSUME IndInv, Stop \/ Elapse \/ UNCHANGED vars PROVE IndInv'
<1>1. UNCHANGED <<pc, status, raw, settings, links, greeted>> /\ (running' => running)
  BY DEF Stop, Elapse, vars, proxy, links, settings
<1>2. TypeOK'
  <2>1. running' \in BOOLEAN /\ expired' \in BOOLEAN
    BY ZenonT(60) DEF IndInv, Stop, Elapse, vars, TypeOK, proxy
  <2> QED
    BY <1>1, <2>1 DEF IndInv, links, settings, TypeOK
<1>3. Ordered' /\ Copied' /\ SwitchedAfterGreeting'
  BY <1>1 DEF IndInv, links, Ordered, Copied, SwitchedAfterGreeting
<1>4. Staged' /\ Relayed'
  BY <1>1 DEF IndInv, links, Staged, Relayed, Skipped
<1> QED
  BY <1>2, <1>3, <1>4 DEF IndInv

LEMMA NextStep == IndInv /\ [Next]_vars => IndInv'
<1> SUFFICES ASSUME IndInv, [Next]_vars PROVE IndInv'
  OBVIOUS
<1>1. CASE Proxy
  BY <1>1, HandshakeStep, ReadHeadStep, ReadMoreStep, WriteHeadStep, UpstreamStep,
     DownstreamStep, EndTunnelStep DEF Proxy
<1>2. CASE PeerSends \/ ClientSends \/ Ends \/ Receive
  BY <1>2, PeerSendsStep, ClientSendsStep, EndsStep, ReceiveStep
<1>3. CASE Stop \/ Elapse \/ UNCHANGED vars
  BY <1>3, QuietStep
<1> QED
  BY <1>1, <1>2, <1>3 DEF Next

(* The inductive invariant: what is relayed is exact because the readers stay *)
(* inside what was sent and only the upstream's head is left out.             *)
THEOREM Invariance == Spec => []IndInv
<1> QED
  BY InitInv, NextStep, PTL DEF Spec

(* The state of a relayed connection keeps its type. *)
THEOREM TypeCorrect == Spec => []TypeOK
<1>1. IndInv => TypeOK
  BY DEF IndInv
<1> QED
  BY <1>1, Invariance, PTL

(* However the head of the upstream's response and the frames behind it are   *)
(* cut into reads, and however the two ends take turns, the tunnel hands over *)
(* exactly what was sent, in order and each unit once.                        *)
THEOREM AlwaysRelayed == Spec => []Relayed
<1>1. IndInv => Relayed
  BY DEF IndInv
<1> QED
  BY <1>1, Invariance, PTL

(* No client is told to switch before the upstream host has answered, unless  *)
(* the server is being stopped.                                               *)
THEOREM AlwaysGreeted == Spec => []SwitchedAfterGreeting
<1>1. IndInv => SwitchedAfterGreeting
  BY DEF IndInv
<1> QED
  BY <1>1, Invariance, PTL

(* A tunnel that ends without losing an end has relayed all that was sent. *)
THEOREM AlwaysComplete == Spec => []NothingCut
<1>1. IndInv => NothingCut
  <2> SUFFICES ASSUME IndInv, pc = "ended"
               PROVE  /\ raw = "disposed"
                      /\ peer.end # "reset" /\ client.end # "reset" =>
                           /\ greeted => HeadLen + Len(client.got) = peer.sends
                           /\ Len(peer.got) = client.sends
    BY DEF NothingCut
  <2>1. raw = "disposed"
    BY DEF IndInv, Copied
  <2>2. ASSUME peer.end # "reset", client.end # "reset"
        PROVE  up = "done" /\ down = "done"
    <3>1. up \in Copying /\ down \in Copying
      BY DEF IndInv, TypeOK
    <3>2. {up, down} \cap {"off", "copying"} = {}
      BY DEF IndInv, Copied
    <3>3. up \notin {"off", "copying"} /\ down \notin {"off", "copying"}
      BY <3>2
    <3> QED
      BY <2>2, <3>1, <3>3 DEF IndInv, Copied, Copying
  <2>3. ASSUME up = "done", down = "done"
        PROVE  input.pos = peer.sends /\ downstream.pos = client.sends
    BY <2>3 DEF IndInv, Copied, Ordered
  <2>4. greeted => input.pos = HeadLen + Len(client.got)
    BY DEF IndInv, Staged, Relaying, Skipped
  <2>5. Len(peer.got) = downstream.pos
    <3>1. peer.got = Units(0, downstream.pos)
      BY DEF IndInv, Relayed
    <3> QED
      <4>1. downstream.pos \in Nat /\ 0 <= downstream.pos /\ downstream.pos - 0 = downstream.pos
        BY EndFacts DEF IndInv
      <4>2. Len(Units(0, downstream.pos)) = downstream.pos - 0
        BY <4>1, UnitsFacts
      <4> QED
        BY <3>1, <4>1, <4>2
  <2> QED
    BY <2>1, <2>2, <2>3, <2>4, <2>5
<1> QED
  BY <1>1, Invariance, PTL

----------------------------------------------------------------------------
(* The refinement of Relay                                                 *)

LEMMA InitRelay == Init => Promise!Init
<1> SUFFICES ASSUME Init PROVE Promise!Init
  OBVIOUS
<1>1. /\ pc = "connect" /\ running = TRUE /\ greeted = FALSE
      /\ peer.sends = 0 /\ peer.end = "no" /\ peer.got = <<>>
      /\ client.sends = 0 /\ client.end = "no" /\ client.got = <<>>
  BY DEF Init
<1> QED
  BY <1>1 DEF Promise!Init, Promise!Ends, Phase, Both

(* What moves nothing but the request *)
LEMMA HeldStep ==
    ASSUME UNCHANGED <<Phase, running, greeted, client, peer>>
    PROVE  UNCHANGED Promise!vars
<1> QED
  BY DEF Promise!vars

LEMMA FailsRefuse ==
    ASSUME pc \in Handshaking \cup {"answer", "head"}, NEW s, Fails(s)
    PROVE  Promise!Refuse
<1> QED
  BY DEF Fails, links, Handshaking, Phase, Promise!Refuse

LEMMA GoesHeld ==
    ASSUME NEW to, Goes(to), UNCHANGED greeted,
           pc \in Handshaking \cup {"answer"}, to \in Handshaking \cup {"answer", "head"}
    PROVE  UNCHANGED Promise!vars
<1> QED
  BY HeldStep DEF Goes, links, Handshaking, Phase

LEMMA HandshakeRelay ==
    ASSUME Connect \/ Authenticate \/ WriteRequest \/ Expires \/ WhileRunning \/ ReadReset \/ Answer
    PROVE  Promise!Refuse \/ UNCHANGED Promise!vars
<1>1. CASE Connect
  BY <1>1, FailsRefuse, GoesHeld DEF Connect, Handshaking
<1>2. CASE Authenticate
  BY <1>2, FailsRefuse, GoesHeld DEF Authenticate, Handshaking
<1>3. CASE WriteRequest
  BY <1>3, FailsRefuse, GoesHeld DEF WriteRequest, Handshaking
<1>4. CASE Expires
  BY <1>4, FailsRefuse DEF Expires, Handshaking
<1>5. CASE WhileRunning
  BY <1>5, GoesHeld DEF WhileRunning, Handshaking
<1>6. CASE ReadReset
  BY <1>6, FailsRefuse DEF ReadReset, Handshaking
<1>7. CASE Answer
  BY <1>7, FailsRefuse, GoesHeld DEF Answer
<1> QED
  BY <1>1, <1>2, <1>3, <1>4, <1>5, <1>6, <1>7

LEMMA ReadHeadRelay == ASSUME IndInv, ReadHead PROVE Promise!Answer
<1>1. ~greeted /\ greeted'
  BY DEF IndInv, Staged, Handshaking, ReadHead, HeadArrived
<1>2. HeadLen \in 1..peer.sends
  BY EndFacts, LimitFacts DEF IndInv, Ordered, ReadHead, HeadArrived
<1>3. Phase = "asked" /\ Phase' = "asked"
  BY DEF ReadHead, Phase
<1> QED
  BY <1>1, <1>2, <1>3 DEF ReadHead, Promise!Answer, Both

LEMMA ReadMoreRelay == ASSUME ReadMore PROVE Promise!Refuse \/ UNCHANGED Promise!vars
<1>1. CASE input.eof
  BY <1>1, FailsRefuse DEF ReadMore, Handshaking
<1>2. CASE ~input.eof
  BY <1>2, HeldStep DEF ReadMore, Phase
<1> QED
  BY <1>1, <1>2

LEMMA WriteHeadRelay == ASSUME IndInv, WriteHead PROVE Promise!Refuse \/ Promise!Switch
<1>1. CASE client.end = "reset"
  BY <1>1, FailsRefuse DEF WriteHead
<1>2. CASE client.end # "reset"
  <2>1. greeted \/ ~running
    BY DEF IndInv, Staged, WriteHead
  <2> QED
    BY <1>2, <2>1 DEF WriteHead, Phase, Promise!Switch, Both
<1> QED
  BY <1>1, <1>2

LEMMA BothFacts ==
    ASSUME NEW g, NEW h, NEW x
    PROVE  /\ Both(g, h)["client"] = g /\ Both(g, h)["host"] = h
           /\ [Both(g, h) EXCEPT !["client"] = x] = Both(x, h)
           /\ [Both(g, h) EXCEPT !["host"] = x] = Both(g, x)
<1> QED
  BY DEF Both

(* What is copied is the next piece of what was sent, if it is anything. *)
LEMMA UpstreamRelay ==
    ASSUME IndInv, UpstreamHandler
    PROVE  Promise!Deliver("host") \/ UNCHANGED Promise!vars
<1>1. CASE UNCHANGED client
  BY <1>1, HeldStep DEF UpstreamHandler, Phase
<1>2. CASE /\ client.end = "reset" => ~(Available(input) > 0)
           /\ client' = [client EXCEPT !.got = @ \o Units(input.pos, input.end)]
  <2>1. /\ input.pos = Skipped + Len(client.got)
        /\ input.pos \in Nat /\ input.end \in Nat /\ input.pos <= input.end /\ input.end <= peer.sends
        /\ Available(input) = input.end - input.pos
        /\ peer.sends \in Nat
    BY EndFacts, LimitFacts DEF IndInv, Ordered, Staged, Relaying, UpstreamHandler, Available
  <2>2. CASE input.pos = input.end
    <3>1. Units(input.pos, input.end) = <<>>
      BY <2>1, <2>2, NoUnits
    <3>2. client.got \o Units(input.pos, input.end) = client.got
      BY <3>1, EndFacts DEF IndInv
    <3>3. client' = client
      BY <1>2, <3>2 DEF IndInv, TypeOK, End
    <3> QED
      BY <3>3, HeldStep DEF UpstreamHandler, Phase
  <2>3. CASE input.pos # input.end
    <3>1. client.end # "reset" /\ input.end \in input.pos + 1..peer.sends
      BY <1>2, <2>1, <2>3
    <3>2. /\ client'.got = client.got \o Units(input.pos, input.end)
          /\ client'.sends = client.sends /\ client'.end = client.end
      BY <1>2 DEF IndInv, TypeOK, End
    <3>3. Promise!Passed("host") = input.pos
      BY <2>1 DEF Promise!Passed, Promise!Other, Skipped, Both
    <3>4. Promise!Units(input.pos, input.end) = Units(input.pos, input.end)
      BY DEF Promise!Units, Units
    <3>5. Phase = "open" /\ Phase' = "open"
      BY DEF UpstreamHandler, Phase
    <3>6. UNCHANGED <<running, greeted, peer>>
      BY DEF UpstreamHandler
    <3>7. Both(client.got, peer.got)' =
            [Both(client.got, peer.got) EXCEPT
               !["client"] = @ \o Units(input.pos, input.end)]
      <4> DEFINE more == client.got \o Units(input.pos, input.end)
      <4>1. client'.got = more /\ peer'.got = peer.got
        BY <3>2, <3>6
      <4> HIDE DEF more
      <4>2. [Both(client.got, peer.got) EXCEPT !["client"] = more]
              = Both(more, peer.got)
        BY BothFacts, Zenon DEF Both
      <4>3. Both(client.got, peer.got)' =
              [Both(client.got, peer.got) EXCEPT !["client"] = more]
        BY <4>1, <4>2
      <4>4. Both(client.got, peer.got)["client"] = client.got
        BY DEF Both
      <4> QED
        BY <4>3, <4>4, Zenon DEF more
    <3>8. Both(client.end, peer.end)[Promise!Other("host")] # "reset"
      BY <3>1 DEF Promise!Other, Both
    <3>9. UNCHANGED <<Both(client.sends, peer.sends),
                      Both(client.end, peer.end)>>
      BY <3>2, <3>6
    <3>10. \E to \in Promise!Passed("host") + 1..Both(client.sends, peer.sends)["host"] :
             Both(client.got, peer.got)' =
               [Both(client.got, peer.got) EXCEPT
                  ![Promise!Other("host")] = @ \o Promise!Units(Promise!Passed("host"), to)]
      <4>1. Promise!Other("host") = "client"
        BY DEF Promise!Other
      <4>2. Both(client.sends, peer.sends)["host"] = peer.sends
        BY DEF Both
      <4>3. input.end \in Promise!Passed("host") + 1..peer.sends
        BY <3>1, <3>3
      <4>4. input.end \in Promise!Passed("host") + 1..Both(client.sends, peer.sends)["host"]
        BY <4>2, <4>3
      <4> WITNESS input.end \in Promise!Passed("host") + 1..Both(client.sends, peer.sends)["host"]
      <4> QED
        BY <3>3, <3>4, <3>7, <4>1, Zenon
    <3>11. Promise!Deliver("host")
      BY <3>5, <3>6, <3>8, <3>9, <3>10 DEF Promise!Deliver
    <3> QED
      BY <3>11
  <2> QED
    BY <2>2, <2>3
<1> QED
  BY <1>1, <1>2 DEF UpstreamHandler

LEMMA DownstreamRelay ==
    ASSUME IndInv, DownstreamHandler
    PROVE  Promise!Deliver("client") \/ UNCHANGED Promise!vars
<1>1. CASE UNCHANGED peer
  BY <1>1, HeldStep DEF DownstreamHandler, Phase
<1>2. CASE /\ peer.end = "reset" => ~(Available(downstream) > 0)
           /\ peer' = [peer EXCEPT !.got = @ \o Units(downstream.pos, downstream.end)]
  <2>1. /\ downstream.pos \in Nat /\ downstream.end \in Nat
        /\ downstream.pos <= downstream.end /\ downstream.end <= client.sends
        /\ Available(downstream) = downstream.end - downstream.pos
        /\ client.sends \in Nat
    BY EndFacts, LimitFacts DEF IndInv, Ordered, Available
  <2>2. CASE downstream.pos = downstream.end
    <3>1. Units(downstream.pos, downstream.end) = <<>>
      BY <2>1, <2>2, NoUnits
    <3>2. peer.got \o Units(downstream.pos, downstream.end) = peer.got
      BY <3>1, EndFacts DEF IndInv
    <3>3. peer' = peer
      BY <1>2, <3>2 DEF IndInv, TypeOK, End
    <3> QED
      BY <3>3, HeldStep DEF DownstreamHandler, Phase
  <2>3. CASE downstream.pos # downstream.end
    <3>1. peer.end # "reset" /\ downstream.end \in downstream.pos + 1..client.sends
      BY <1>2, <2>1, <2>3
    <3>2. /\ peer'.got = peer.got \o Units(downstream.pos, downstream.end)
          /\ peer'.sends = peer.sends /\ peer'.end = peer.end
      BY <1>2 DEF IndInv, TypeOK, End
    <3>3. Promise!Passed("client") = downstream.pos
      <4>1. Len(peer.got) = downstream.pos
        <5>1. peer.got = Units(0, downstream.pos)
          BY DEF IndInv, Relayed
        <5>2. 0 \in Nat /\ 0 <= downstream.pos
          BY <2>1
        <5>3. Len(Units(0, downstream.pos)) = downstream.pos - 0
          BY <2>1, <5>2, UnitsFacts
        <5> QED
          BY <2>1, <5>1, <5>3
      <4> QED
        BY <2>1, <4>1 DEF Promise!Passed, Promise!Other, Both
    <3>4. Promise!Units(downstream.pos, downstream.end) = Units(downstream.pos, downstream.end)
      BY DEF Promise!Units, Units
    <3>5. Phase = "open" /\ Phase' = "open"
      BY DEF DownstreamHandler, Phase
    <3>6. UNCHANGED <<running, greeted, client>>
      BY DEF DownstreamHandler
    <3>7. Both(client.got, peer.got)' =
            [Both(client.got, peer.got) EXCEPT
               !["host"] = @ \o Units(downstream.pos, downstream.end)]
      <4> DEFINE more == peer.got \o Units(downstream.pos, downstream.end)
      <4>1. peer'.got = more /\ client'.got = client.got
        BY <3>2, <3>6
      <4> HIDE DEF more
      <4>2. [Both(client.got, peer.got) EXCEPT !["host"] = more]
              = Both(client.got, more)
        BY BothFacts, ZenonT(60)
      <4>3. Both(client.got, peer.got)' =
              [Both(client.got, peer.got) EXCEPT !["host"] = more]
        BY <4>1, <4>2
      <4>4. Both(client.got, peer.got)["host"] = peer.got
        BY DEF Both
      <4> QED
        BY <4>3, <4>4, Zenon DEF more
    <3>8. Both(client.end, peer.end)[Promise!Other("client")] # "reset"
      BY <3>1 DEF Promise!Other, Both
    <3>9. UNCHANGED <<Both(client.sends, peer.sends),
                      Both(client.end, peer.end)>>
      BY <3>2, <3>6
    <3>10. \E to \in Promise!Passed("client") + 1..Both(client.sends, peer.sends)["client"] :
             Both(client.got, peer.got)' =
               [Both(client.got, peer.got) EXCEPT
                  ![Promise!Other("client")] = @ \o Promise!Units(Promise!Passed("client"), to)]
      <4>1. Promise!Other("client") = "host"
        BY DEF Promise!Other
      <4>2. Both(client.sends, peer.sends)["client"] = client.sends
        BY DEF Both
      <4>3. downstream.end \in Promise!Passed("client") + 1..client.sends
        BY <3>1, <3>3
      <4>4. downstream.end \in Promise!Passed("client") + 1..Both(client.sends, peer.sends)["client"]
        BY <4>2, <4>3
      <4> WITNESS downstream.end \in Promise!Passed("client") + 1..Both(client.sends, peer.sends)["client"]
      <4> QED
        BY <3>3, <3>4, <3>7, <4>1, Zenon
    <3>11. Promise!Deliver("client")
      BY <3>5, <3>6, <3>8, <3>9, <3>10 DEF Promise!Deliver
    <3> QED
      BY <3>11
  <2> QED
    BY <2>2, <2>3
<1> QED
  BY <1>1, <1>2 DEF DownstreamHandler

(* A direction that was not lost is done at the end of its stream. *)
LEMMA EndTunnelRelay == ASSUME IndInv, EndTunnel PROVE Promise!Finish
<1>1. CASE peer.end = "reset" \/ client.end = "reset"
  BY <1>1 DEF EndTunnel, links, Phase, Promise!Finish, Promise!Ends, Both
<1>2. CASE peer.end # "reset" /\ client.end # "reset"
  <2>1. up = "done" /\ down = "done"
    <3>1. up \in Copying /\ down \in Copying /\ up # "failed" /\ down # "failed"
      BY <1>2 DEF IndInv, TypeOK, Copied
    <3>2. up \notin {"off", "copying"} /\ down \notin {"off", "copying"}
      BY Zenon DEF EndTunnel, BothEnded
    <3> QED
      BY <3>1, <3>2 DEF Copying
  <2>2. /\ input.eof /\ input.pos = peer.sends /\ peer.end = "fin"
        /\ downstream.eof /\ downstream.pos = client.sends /\ client.end = "fin"
    BY <1>2, <2>1 DEF IndInv, TypeOK, End, Copied, Ordered
  <2>3. Promise!Passed("host") = peer.sends
    BY <2>2 DEF IndInv, Staged, Relaying, Skipped, EndTunnel, Promise!Passed, Promise!Other, Both
  <2>4. Promise!Passed("client") = client.sends
    <3>1. peer.got = Units(0, downstream.pos) /\ downstream.pos \in Nat
      BY EndFacts DEF IndInv, Relayed
    <3>2. Len(Units(0, downstream.pos)) = downstream.pos - 0
      BY <3>1, UnitsFacts
    <3> QED
      BY <2>2, <3>1, <3>2 DEF Promise!Passed, Promise!Other, Both
  <2> QED
    BY <2>2, <2>3, <2>4 DEF EndTunnel, links, Phase, Promise!Finish, Promise!Ends, Both
<1> QED
  BY <1>1, <1>2

LEMMA SendsRelay ==
    ASSUME IndInv, PeerSends \/ ClientSends
    PROVE  Promise!Send("host") \/ Promise!Send("client")
<1>1. peer \in End /\ client \in End /\ peer.sends \in Nat /\ client.sends \in Nat
  BY EndFacts, LimitFacts DEF IndInv, TypeOK
<1>2. CASE PeerSends
  <2>1. PICK n \in peer.sends + 1..HeadLen + MaxSent : peer' = [peer EXCEPT !.sends = n]
    BY <1>2 DEF PeerSends
  <2>2. n \in Nat /\ n > peer.sends
    BY <1>1, <2>1, LimitFacts
  <2>3. peer'.sends = n /\ peer'.end = peer.end /\ peer'.got = peer.got
    BY <1>1, <2>1 DEF End
  <2>4. /\ Phase' = Phase /\ (Phase = "open" \/ Phase = "asked")
        /\ UNCHANGED <<running, greeted, client>> /\ peer.end = "no"
    BY <1>2 DEF PeerSends, proxy, Phase
  <2>5. Promise!Send("host")
    BY <2>2, <2>3, <2>4 DEF Promise!Send, Both
  <2> QED
    BY <2>5
<1>3. CASE ClientSends
  <2>1. /\ client'.sends \in Nat /\ client'.sends > client.sends
        /\ client'.end = client.end /\ client'.got = client.got
    <3>1. client'.sends = client.sends + 1 /\ client'.end = client.end /\ client'.got = client.got
      BY <1>1, <1>3 DEF ClientSends, End
    <3> QED
      BY <1>1, <3>1
  <2>2. /\ Phase = "open" /\ Phase' = "open"
        /\ UNCHANGED <<running, greeted, peer>> /\ client.end = "no"
    BY <1>3 DEF ClientSends, proxy, Phase
  <2>3. Promise!Send("client")
    BY <2>1, <2>2 DEF Promise!Send, Both
  <2> QED
    BY <2>3
<1> QED
  BY <1>2, <1>3

LEMMA EndsRelay ==
    ASSUME IndInv, Ends
    PROVE  \E e \in Promise!Ends : \E how \in {"fin", "reset"} : Promise!Leave(e, how)
<1>1. peer \in End /\ client \in End
  BY DEF IndInv, TypeOK
<1>2. Phase' = Phase /\ UNCHANGED <<running, greeted>>
  BY DEF Ends, proxy, Phase
<1>3. PICK how \in {"fin", "reset"} :
        \/ peer.end # "reset" /\ peer' = [peer EXCEPT !.end = how] /\ UNCHANGED client
        \/ client.end # "reset" /\ client' = [client EXCEPT !.end = how] /\ UNCHANGED peer
  BY DEF Ends
<1>4. CASE peer.end # "reset" /\ peer' = [peer EXCEPT !.end = how] /\ UNCHANGED client
  <2>1. peer'.end = how /\ peer'.sends = peer.sends /\ peer'.got = peer.got
    BY <1>1, <1>4 DEF End
  <2>2. Promise!Leave("host", how)
    BY <1>2, <1>4, <2>1 DEF Promise!Leave, Both
  <2> QED
    BY <2>2 DEF Promise!Ends
<1>5. CASE client.end # "reset" /\ client' = [client EXCEPT !.end = how] /\ UNCHANGED peer
  <2>1. client'.end = how /\ client'.sends = client.sends /\ client'.got = client.got
    BY <1>1, <1>5 DEF End
  <2>2. Promise!Leave("client", how)
    BY <1>2, <1>5, <2>1 DEF Promise!Leave, Both
  <2> QED
    BY <2>2 DEF Promise!Ends
<1> QED
  BY <1>3, <1>4, <1>5

LEMMA QuietRelay ==
    ASSUME Receive \/ Stop \/ Elapse \/ UNCHANGED vars
    PROVE  Promise!Stop \/ UNCHANGED Promise!vars
<1>1. CASE Stop
  BY <1>1 DEF Stop, proxy, links, Phase, Promise!Stop
<1>2. CASE Receive \/ Elapse \/ UNCHANGED vars
  <2>1. UNCHANGED <<pc, running, greeted, client, peer>>
    BY <1>2 DEF Receive, Elapse, vars, proxy, links
  <2> QED
    BY <2>1, HeldStep DEF Phase
<1> QED
  BY <1>1, <1>2

LEMMA NextRelay == IndInv /\ [Next]_vars => [Promise!Next]_(Promise!vars)
<1> SUFFICES ASSUME IndInv, [Next]_vars PROVE Promise!Next \/ UNCHANGED Promise!vars
  OBVIOUS
<1>1. CASE Proxy
  <2>1. Promise!Refuse \/ Promise!Answer \/ Promise!Switch \/ Promise!Finish
          \/ Promise!Deliver("host") \/ Promise!Deliver("client") \/ UNCHANGED Promise!vars
    BY <1>1, HandshakeRelay, ReadHeadRelay, ReadMoreRelay, WriteHeadRelay, UpstreamRelay,
       DownstreamRelay, EndTunnelRelay DEF Proxy
  <2> QED
    BY <2>1 DEF Promise!Next, Promise!Ends
<1>2. CASE PeerSends \/ ClientSends
  BY <1>2, SendsRelay DEF Promise!Next, Promise!Ends
<1>3. CASE Ends
  BY <1>3, EndsRelay DEF Promise!Next
<1>4. CASE Receive \/ Stop \/ Elapse \/ UNCHANGED vars
  BY <1>4, QuietRelay DEF Promise!Next
<1> QED
  BY <1>1, <1>2, <1>3, <1>4 DEF Next

(* The proxy implements Relay, for every head, however it is cut, and whatever *)
(* the two ends do.                                                           *)
THEOREM KeepsPromise == Spec => RelayKept
<1>1. Init => Promise!Init
  BY InitRelay
<1>2. IndInv /\ [Next]_vars => [Promise!Next]_(Promise!vars)
  BY NextRelay
<1> QED
  BY <1>1, <1>2, Invariance, PTL DEF Spec, RelayKept, Promise!Spec
=============================================================================
