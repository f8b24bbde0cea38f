------------------------ MODULE WebsocketReaderProofs ------------------------
(***************************************************************************)
(* Proofs about WebsocketReader, for scripts of any length and every way    *)
(* they are cut into reads, with handlers that go on with a message once    *)
(* they have begun it (Habits is empty; the others break all of this).      *)
(***************************************************************************)
EXTENDS WebsocketReader, PipeReaderProofs, SequenceTheorems, TLAPS

(***************************************************************************)
(* The invariant                                                           *)
(***************************************************************************)
Assembling == at = "next" \/ (at = "idle" /\ skipFrameInit)

(* Where the next frame is decoded *)
Upcoming ==
    IF at = "next" THEN inner
    ELSE IF at = "idle" /\ skipFrameInit THEN examined
    ELSE IF at = "idle" /\ pendingAdvance THEN consumed ELSE reader.pos

Placed ==
    /\ reader.pos <= reader.end
    /\ at # "done" => reader.pos <= Upcoming /\ Upcoming <= reader.end
    /\ at = "first" => ~pendingAdvance /\ ~skipFrameInit /\ ~keepValid
    /\ at = "next" => ~skipFrameInit /\ ~keepValid
    /\ at = "idle" => /\ keepValid = skipFrameInit
                      /\ skipFrameInit => pendingAdvance
                      /\ pendingAdvance => consumed = examined
    /\ Assembling => ~manual /\ bufferStart = reader.pos

(* The message that is being assembled, when n frames have been decoded *)
Assembled(n) ==
    /\ parts # <<>>
    /\ \A m \in 1..Len(parts) :
        /\ parts[m] <= n /\ frames[parts[m]] = "more" /\ Payload(parts[m]) >= reader.pos
        /\ \A o \in 1..m - 1 : parts[o] < parts[m]
        /\ \A k \in 1..Len(returned) : \A o \in 1..Len(Parts(k)) :
            returned[k].type = "data" => Parts(k)[o] < parts[m]

(* All that was decoded has been handed out or is part of that message. *)
DecodedUpTo(n) ==
    /\ Upcoming = 2 * n
    /\ \A i \in Indices : unmasked[i] = IF i <= n THEN 1 ELSE 0
    /\ \A k \in 1..Len(returned) : \A m \in 1..Len(Parts(k)) : Parts(k)[m] <= n
    /\ \A i \in 1..n : \/ \E k \in 1..Len(returned) : i \in ToSet(Parts(k))
                       \/ Assembling /\ i \in ToSet(parts)
    /\ Assembling => Assembled(n)

InOrder == at # "done" => \E n \in 0..Len(frames) : DecodedUpTo(n)

(* What must be copied is, and the frame the handler looks at is still there. *)
Held ==
    /\ released => reader.eof
    /\ \A k \in 1..Len(returned) :
        allocate /\ ~manual /\ returned[k].type = "data" => returned[k].cached
    /\ at = "idle" /\ pendingAdvance /\ returned # <<>> =>
        StillThere(Parts(Len(returned)), reader)

IInv == TypeOK /\ Placed /\ InOrder /\ MessagesWhole /\ UnmaskedOnce /\ Held

(***************************************************************************)
(* Facts about the state                                                   *)
(***************************************************************************)
LEMMA TypeFacts ==
    ASSUME TypeOK
    PROVE  /\ Len(frames) \in Nat
           /\ \A i \in Indices : frames[i] \in {"more", "last", "ping", "close", "bad"}
           /\ reader \in Reader /\ reader.pos \in Nat /\ reader.end \in Nat
           /\ reader.end <= 2 * Len(frames)
           /\ bufferStart \in Nat /\ consumed \in Nat /\ examined \in Nat /\ inner \in Nat
           /\ bufferStart <= consumed /\ consumed <= examined /\ examined <= reader.end
           /\ returned \in Seq(Frame) /\ parts \in Seq(Indices)
<1>1. frames \in Seq({"more", "last", "ping", "close", "bad"})
  BY ScriptsAssumption DEF TypeOK
<1>2. Len(frames) \in Nat /\ \A i \in Indices : frames[i] \in {"more", "last", "ping", "close", "bad"}
  BY <1>1 DEF Indices
<1>3. reader \in Reader /\ reader.pos \in Nat /\ reader.end \in Nat
  BY DEF TypeOK, Reader
<1>4. reader.end <= 2 * Len(frames) /\ bufferStart \in Nat /\ inner \in Nat
  BY <1>2 DEF TypeOK, Units
<1>5. consumed \in Nat /\ examined \in Nat /\ bufferStart <= consumed /\ consumed <= examined
      /\ examined <= reader.end
  BY <1>3, <1>4 DEF TypeOK
<1> QED
  BY <1>2, <1>3, <1>4, <1>5 DEF TypeOK

(* A frame handed out *)
LEMMA AppendFacts ==
    ASSUME TypeOK, NEW f \in Frame, returned' = Append(returned, f)
    PROVE  /\ Len(returned) \in Nat
           /\ Len(returned') = Len(returned) + 1
           /\ \A k \in 1..Len(returned) : returned'[k] = returned[k]
           /\ returned'[Len(returned) + 1] = f
           /\ returned' \in Seq(Frame)
           /\ returned' # <<>>
<1>1. returned \in Seq(Frame)
  BY DEF TypeOK
<1> QED
  BY <1>1

(* What a frame at an even position is, and what decoding it does *)
LEMMA DecodedFacts ==
    ASSUME TypeOK, NEW n \in 0..Len(frames), Decoded(2 * n)
    PROVE  /\ At(2 * n) = n + 1 /\ n + 1 \in Indices /\ n \in Nat /\ n + 1 \in 0..Len(frames)
           /\ 2 * n < reader.end
           /\ pendingAdvance' = TRUE /\ examined' = consumed'
           /\ frames[n + 1] = "bad" => consumed' = 2 * n + 1 /\ unmasked' = unmasked
           /\ frames[n + 1] # "bad" =>
                /\ consumed' = 2 * (n + 1) /\ 2 * (n + 1) <= reader.end
                /\ unmasked' = [unmasked EXCEPT ![n + 1] = @ + 1]
<1>1. n \in Nat /\ Len(frames) \in Nat /\ reader.end \in Nat /\ reader.end <= 2 * Len(frames)
  BY TypeFacts
<1>2. (2 * n) \div 2 = n
  BY <1>1
<1>3. At(2 * n) = n + 1
  BY <1>2 DEF At
<1>4. 2 * n < reader.end /\ ~Incomplete(2 * n)
  BY DEF Decoded
<1>5. n + 1 \in Indices /\ n + 1 \in 0..Len(frames)
  BY <1>1, <1>4 DEF Indices
<1>6. frames[n + 1] # "bad" => 2 * (n + 1) <= reader.end
  <2>1. frames[n + 1] # "bad" => 2 * n + 1 # reader.end
    BY <1>3, <1>4 DEF Incomplete
  <2> QED
    BY <1>1, <1>4, <2>1
<1>7. 2 * n + 2 = 2 * (n + 1)
  BY <1>1
<1> QED
  BY <1>1, <1>3, <1>4, <1>5, <1>6, <1>7 DEF Decoded

(* Every frame is unmasked at most once, one more of them *)
LEMMA UnmaskedMore ==
    ASSUME TypeOK, NEW n \in 0..Len(frames), n + 1 \in Indices, UNCHANGED frames,
           \A i \in Indices : unmasked[i] = IF i <= n THEN 1 ELSE 0,
           unmasked' = [unmasked EXCEPT ![n + 1] = @ + 1]
    PROVE  /\ unmasked' \in [Indices -> Nat]
           /\ \A i \in Indices : unmasked'[i] = IF i <= n + 1 THEN 1 ELSE 0
           /\ UnmaskedOnce'
<1>1. n \in Nat /\ Len(frames) \in Nat
  BY TypeFacts
<1>2. unmasked \in [Indices -> Nat]
  BY DEF TypeOK
<1>3. \A i \in Indices : unmasked'[i] = IF i = n + 1 THEN unmasked[i] + 1 ELSE unmasked[i]
  BY <1>2
<1>4. \A i \in Indices : unmasked'[i] = IF i <= n + 1 THEN 1 ELSE 0
  <2> SUFFICES ASSUME NEW i \in Indices PROVE unmasked'[i] = IF i <= n + 1 THEN 1 ELSE 0
    OBVIOUS
  <2>1. i \in Nat
    BY DEF Indices
  <2>2. unmasked[i] = IF i <= n THEN 1 ELSE 0
    OBVIOUS
  <2> QED
    BY <1>1, <1>3, <2>1, <2>2
<1>5. unmasked' \in [Indices -> Nat]
  BY <1>2, <1>3
<1>6. UnmaskedOnce'
  <2>1. Indices' = Indices
    BY DEF Indices
  <2> QED
    BY <1>4, <2>1 DEF UnmaskedOnce
<1> QED
  BY <1>4, <1>5, <1>6

(***************************************************************************)
(* What the handler has seen                                               *)
(***************************************************************************)
(* A frame that may follow those that were returned *)
Fits(f) ==
    /\ \A m \in 1..Len(f.parts) :
        /\ Type(f.parts[m]) = f.type
        /\ \A o \in 1..m - 1 : f.parts[o] < f.parts[m]
        /\ \A k \in 1..Len(returned) : \A o \in 1..Len(Parts(k)) :
            returned[k].type = f.type => Parts(k)[o] < f.parts[m]
        /\ \A i \in 1..f.parts[m] :
            Type(i) = f.type => \/ i \in ToSet(f.parts)
                                \/ \E k \in 1..Len(returned) : i \in ToSet(Parts(k))
    /\ f.type = "data" /\ Len(f.parts) > 1 =>
        \A m \in 1..Len(f.parts) : frames[f.parts[m]] = "last" <=> m = Len(f.parts)

LEMMA PartsFacts ==
    ASSUME TypeOK, NEW k \in 1..Len(returned)
    PROVE  /\ returned[k] \in Frame /\ Parts(k) \in Seq(Indices) /\ Len(Parts(k)) \in Nat
           /\ \A m \in 1..Len(Parts(k)) : Parts(k)[m] \in Indices /\ Parts(k)[m] \in Nat
<1>1. returned \in Seq(Frame)
  BY DEF TypeOK
<1>2. returned[k] \in Frame
  BY <1>1
<1>3. Parts(k) \in Seq(Indices)
  BY <1>2 DEF Parts, Frame
<1> QED
  BY <1>2, <1>3 DEF Indices

LEMMA WholeMore ==
    ASSUME TypeOK, MessagesWhole, NEW f \in Frame, returned' = Append(returned, f), Fits(f),
           UNCHANGED frames
    PROVE  MessagesWhole'
<1>. PICK last \in Nat : last = Len(returned) + 1
  BY DEF TypeOK
<1>1. /\ Len(returned) \in Nat /\ Len(returned') = last
      /\ \A k \in 1..Len(returned) : returned'[k] = returned[k]
      /\ returned'[last] = f
  BY AppendFacts
<1>2. \A k \in 1..Len(returned) : Parts(k)' = Parts(k) /\ k \in 1..last
  BY <1>1 DEF Parts
<1>3. Parts(last)' = f.parts /\ last \in 1..last
  BY <1>1 DEF Parts
<1>4. \A i : Type(i)' = Type(i)
  BY DEF Type
<1>5. f.parts \in Seq(Indices) /\ Len(f.parts) \in Nat
  BY DEF Frame
<1>6. \A k \in 1..last : k = last \/ k \in 1..Len(returned)
  BY <1>1
<1>7. ASSUME NEW k \in 1..last, NEW m \in 1..Len(Parts(k)')
      PROVE  InPlace(k, m)'
  <2>1. CASE k \in 1..Len(returned)
    <3>1. \A l \in 1..k : l \in 1..Len(returned)
      BY <1>1, <2>1
    <3>2. InPlace(k, m)
      BY <1>2, <2>1 DEF MessagesWhole
    <3> QED
      BY <1>1, <1>2, <1>4, <2>1, <3>1, <3>2 DEF InPlace
  <2>2. CASE k = last
    <3>1. m \in 1..Len(f.parts)
      BY <1>3, <2>2
    <3>2. (Type(Parts(k)[m]) = returned[k].type)'
      BY <1>1, <1>3, <1>4, <2>2, <3>1 DEF Fits
    <3>3. ASSUME NEW l \in 1..k, NEW o \in 1..Len(Parts(l)'),
                 (returned[l].type = returned[k].type)', l < k \/ o < m
          PROVE  (Parts(l)[o] < Parts(k)[m])'
      <4>1. CASE l = last
        <5>1. o \in 1..m - 1
          BY <1>1, <1>3, <1>5, <2>2, <3>1, <3>3, <4>1
        <5> QED
          BY <1>3, <2>2, <3>1, <4>1, <5>1 DEF Fits
      <4>2. CASE l \in 1..Len(returned)
        BY <1>1, <1>2, <1>3, <2>2, <3>1, <3>3, <4>2 DEF Fits
      <4> QED
        BY <1>6, <2>2, <4>1, <4>2
    <3>4. ASSUME NEW i \in 1..Parts(k)'[m], (Type(i) = returned[k].type)'
          PROVE  \E l \in 1..k : i \in ToSet(Parts(l)')
      <4>1. \/ i \in ToSet(f.parts)
            \/ \E l \in 1..Len(returned) : i \in ToSet(Parts(l))
        BY <1>1, <1>3, <1>4, <2>2, <3>1, <3>4 DEF Fits
      <4> QED
        BY <1>2, <1>3, <2>2, <4>1
    <3> QED
      BY <3>2, <3>3, <3>4 DEF InPlace
  <2> QED
    BY <1>6, <2>1, <2>2
<1>8. ASSUME NEW k \in 1..last, (returned[k].type = "data")', Len(Parts(k)') > 1,
             NEW m \in 1..Len(Parts(k)')
      PROVE  (frames[Parts(k)[m]] = "last" <=> m = Len(Parts(k)))'
  <2>1. CASE k \in 1..Len(returned)
    BY <1>1, <1>2, <1>8, <2>1 DEF MessagesWhole
  <2>2. CASE k = last
    BY <1>1, <1>3, <1>8, <2>2 DEF Fits
  <2> QED
    BY <1>6, <2>1, <2>2
<1> QED
  BY <1>1, <1>7, <1>8 DEF MessagesWhole

(* Nothing of a message follows. *)
LEMMA WholeEnd ==
    ASSUME TypeOK, MessagesWhole, NEW f \in Frame, f.parts = <<>>, UNCHANGED frames,
           returned' = Append(returned, f)
    PROVE  MessagesWhole'
<1>1. Len(f.parts) = 0
  OBVIOUS
<1>2. Fits(f)
  BY <1>1 DEF Fits
<1> QED
  BY <1>2, WholeMore

(* One frame by itself fits, and so does a message with its last fragment. *)
LEMMA SingleFits ==
    ASSUME TypeOK, NEW n \in 0..Len(frames), DecodedUpTo(n), n + 1 \in Indices, Placed,
           NEW f \in Frame, f.parts = <<n + 1>>, f.type = Type(n + 1),
           Assembling => f.type # "data"
    PROVE  Fits(f)
<1>1. n \in Nat /\ Len(f.parts) = 1 /\ f.parts[1] = n + 1 /\ ToSet(f.parts) = {n + 1}
  BY TypeFacts DEF ToSet
<1>2. ASSUME NEW m \in 1..1 PROVE m = 1
  OBVIOUS
<1>3. \A i \in 1..n + 1 : i = n + 1 \/ i \in 1..n
  BY <1>1
<1>4. ASSUME NEW i \in ToSet(parts), Assembling PROVE Type(i) # f.type
  <2>1. PICK m \in 1..Len(parts) : parts[m] = i
    BY <1>4 DEF ToSet, TypeOK
  <2>2. frames[i] = "more"
    BY <1>4, <2>1 DEF DecodedUpTo, Assembled
  <2> QED
    BY <1>4, <2>2 DEF Type
<1>5. ASSUME NEW i \in 1..n + 1, Type(i) = f.type
      PROVE  i \in ToSet(f.parts) \/ \E k \in 1..Len(returned) : i \in ToSet(Parts(k))
  BY <1>1, <1>3, <1>4, <1>5 DEF DecodedUpTo
<1>6. ASSUME NEW k \in 1..Len(returned), NEW o \in 1..Len(Parts(k))
      PROVE  Parts(k)[o] < n + 1
  <2>1. Parts(k)[o] <= n
    BY DEF DecodedUpTo
  <2>2. Parts(k)[o] \in Nat
    BY PartsFacts
  <2> QED
    BY <1>1, <2>1, <2>2
<1>7. \A o \in 1..1 - 1 : FALSE
  OBVIOUS
<1> QED
  BY <1>1, <1>2, <1>5, <1>6, <1>7 DEF Fits

LEMMA MessageFits ==
    ASSUME TypeOK, NEW n \in 0..Len(frames), DecodedUpTo(n), n + 1 \in Indices, Assembling,
           frames[n + 1] = "last",
           NEW f \in Frame, f.parts = Append(parts, n + 1), f.type = "data"
    PROVE  Fits(f)
<1> DEFINE last == Len(parts) + 1
<1>1. /\ n \in Nat /\ Len(parts) \in Nat /\ Len(f.parts) = last /\ f.parts[last] = n + 1
      /\ \A m \in 1..Len(parts) : f.parts[m] = parts[m] /\ parts[m] \in Nat /\ m # last
      /\ \A m \in 1..last : m \in 1..Len(parts) \/ m = last
      /\ \A m \in 1..last : \A o \in 1..m - 1 : o \in 1..Len(parts)
  BY SMTT(30) DEF TypeOK, Indices
<1>2. Assembled(n)
  BY DEF DecodedUpTo
<1> HIDE DEF last
<1>3. \A m \in 1..Len(parts) : parts[m] <= n /\ frames[parts[m]] = "more"
  BY <1>2 DEF Assembled
<1>4. \A i : i \in ToSet(f.parts) <=> \E m \in 1..last : f.parts[m] = i
  BY <1>1, SMTT(30) DEF ToSet, Frame
<1>5. ASSUME NEW m \in 1..last
      PROVE  Type(f.parts[m]) = "data"
  BY <1>1, <1>3 DEF Type
<1>6. ASSUME NEW m \in 1..last, NEW o \in 1..m - 1
      PROVE  f.parts[o] < f.parts[m]
  <2>1. CASE m = last
    BY <1>1, <1>3, <2>1
  <2>2. CASE m \in 1..Len(parts)
    BY <1>1, <1>2, <2>2 DEF Assembled
  <2> QED
    BY <1>1, <2>1, <2>2
<1>7. ASSUME NEW m \in 1..last, NEW k \in 1..Len(returned), NEW o \in 1..Len(Parts(k)),
             returned[k].type = "data"
      PROVE  Parts(k)[o] < f.parts[m]
  <2>1. CASE m = last
    <3>1. Parts(k)[o] <= n /\ Parts(k)[o] \in Nat
      BY PartsFacts DEF DecodedUpTo
    <3> QED
      BY <1>1, <2>1, <3>1
  <2>2. CASE m \in 1..Len(parts)
    BY <1>1, <1>2, <1>7, <2>2 DEF Assembled
  <2> QED
    BY <1>1, <2>1, <2>2
<1>8. ASSUME NEW i \in 1..n + 1
      PROVE  i \in ToSet(f.parts) \/ \E k \in 1..Len(returned) : i \in ToSet(Parts(k))
  <2>1. CASE i = n + 1
    BY <1>1, <1>4, <2>1 DEF last
  <2>2. CASE i \in 1..n
    <3>1. i \in ToSet(parts) => i \in ToSet(f.parts)
      <4>1. i \in ToSet(parts) => \E m \in 1..Len(parts) : parts[m] = i
        BY DEF ToSet, TypeOK
      <4> QED
        BY <1>1, <1>4, <4>1 DEF last
    <3> QED
      BY <2>2, <3>1 DEF DecodedUpTo
  <2> QED
    BY <1>1, <2>1, <2>2
<1>9. ASSUME NEW m \in 1..last, NEW i \in 1..f.parts[m]
      PROVE  i \in 1..n + 1
  <2>1. f.parts[m] <= n + 1 /\ f.parts[m] \in Nat
    BY <1>1, <1>3
  <2> QED
    BY <1>1, <2>1
<1>10. \A m \in 1..last : frames[f.parts[m]] = "last" <=> m = last
  BY <1>1, <1>3
<1> QED
  BY <1>1, <1>5, <1>6, <1>7, <1>8, <1>9, <1>10 DEF Fits

(***************************************************************************)
(* How far the connection has come                                         *)
(***************************************************************************)
(* Nothing is decoded and nothing is handed out. *)
LEMMA OrderStays ==
    ASSUME TypeOK, InOrder, at # "done",
           UNCHANGED <<frames, parts, unmasked, returned>>,
           Upcoming' = Upcoming, Assembling' = Assembling,
           Assembling => reader'.pos = reader.pos
    PROVE  InOrder'
<1>1. PICK n \in 0..Len(frames) : DecodedUpTo(n)
  BY DEF InOrder
<1>2. Assembling' => Assembled(n)'
  <2>1. (\A k : Parts(k)' = Parts(k)) /\ (\A i : Payload(i)' = Payload(i))
    BY DEF Parts, Payload
  <2>2. Assembling' => Assembled(n) /\ reader'.pos = reader.pos
    BY <1>1 DEF DecodedUpTo
  <2> QED
    BY <2>1, <2>2 DEF Assembled
<1>3. DecodedUpTo(n)'
  <2>1. \A k : Parts(k)' = Parts(k)
    BY DEF Parts
  <2>2. Indices' = Indices
    BY DEF Indices
  <2> QED
    BY <1>1, <1>2, <2>1, <2>2 DEF DecodedUpTo
<1> QED
  BY <1>1, <1>3 DEF InOrder

(* The next frame is handed out, alone or with the message it completes. *)
LEMMA OrderReturned ==
    ASSUME TypeOK, NEW n \in 0..Len(frames), DecodedUpTo(n), n + 1 \in Indices,
           NEW f \in Frame, returned' = Append(returned, f), UNCHANGED frames,
           unmasked' = [unmasked EXCEPT ![n + 1] = @ + 1], Upcoming' = 2 * (n + 1),
           n + 1 \in ToSet(f.parts), \A m \in 1..Len(f.parts) : f.parts[m] <= n + 1,
           Assembling => Assembling' \/ \A i \in ToSet(parts) : i \in ToSet(f.parts),
           Assembling' => /\ Assembling /\ UNCHANGED parts /\ reader'.pos = reader.pos
                          /\ f.type # "data"
    PROVE  InOrder'
<1>. PICK last \in Nat : last = Len(returned) + 1
  BY DEF TypeOK
<1>1. /\ Len(returned) \in Nat /\ Len(returned') = last
      /\ \A k \in 1..Len(returned) : returned'[k] = returned[k]
      /\ returned'[last] = f
  BY AppendFacts
<1>2. \A k \in 1..Len(returned) : Parts(k)' = Parts(k) /\ k \in 1..last
  BY <1>1 DEF Parts
<1>3. Parts(last)' = f.parts /\ last \in 1..last
  BY <1>1 DEF Parts
<1>4. \A k \in 1..last : k = last \/ k \in 1..Len(returned)
  BY <1>1
<1>5. n \in Nat /\ n + 1 \in 0..Len(frames) /\ (\A i \in 1..n + 1 : i \in 1..n \/ i = n + 1)
  BY TypeFacts DEF Indices
<1>6. \A i \in Indices' : unmasked'[i] = IF i <= n + 1 THEN 1 ELSE 0
  <2>1. \A i \in Indices : unmasked[i] = IF i <= n THEN 1 ELSE 0
    BY DEF DecodedUpTo
  <2>2. Indices' = Indices
    BY DEF Indices
  <2> QED
    BY <2>1, <2>2, UnmaskedMore
<1>7. ASSUME NEW k \in 1..last, NEW m \in 1..Len(Parts(k)')
      PROVE  Parts(k)'[m] <= n + 1
  <2>1. CASE k \in 1..Len(returned)
    <3>1. Parts(k)[m] <= n /\ Parts(k)[m] \in Nat
      BY <1>2, <2>1, PartsFacts DEF DecodedUpTo
    <3> QED
      BY <1>2, <1>5, <2>1, <3>1
  <2>2. CASE k = last
    BY <1>3, <2>2
  <2> QED
    BY <1>4, <2>1, <2>2
<1>8. ASSUME NEW i \in 1..n + 1
      PROVE  \/ \E k \in 1..last : i \in ToSet(Parts(k)')
             \/ Assembling' /\ i \in ToSet(parts')
  <2>1. CASE i = n + 1
    BY <1>3, <2>1
  <2>2. CASE \E k \in 1..Len(returned) : i \in ToSet(Parts(k))
    BY <1>2, <2>2
  <2>3. CASE Assembling /\ i \in ToSet(parts)
    BY <1>3, <2>3
  <2> QED
    BY <1>5, <2>1, <2>2, <2>3 DEF DecodedUpTo
<1>9. ASSUME Assembling' PROVE Assembled(n + 1)'
  <2>1. Assembled(n)
    BY <1>9 DEF DecodedUpTo
  <2>2. parts' = parts /\ reader'.pos = reader.pos /\ \A i : Payload(i)' = Payload(i)
    BY <1>9 DEF Payload
  <2>3. \A m \in 1..Len(parts) : parts[m] <= n + 1
    <3>1. \A m \in 1..Len(parts) : parts[m] \in Nat /\ parts[m] <= n
      BY <2>1 DEF Assembled, TypeOK, Indices
    <3> QED
      BY <1>5, <3>1
  <2>4. ASSUME NEW m \in 1..Len(parts), NEW k \in 1..last, NEW o \in 1..Len(Parts(k)'),
               returned'[k].type = "data"
        PROVE  Parts(k)'[o] < parts[m]
    <3>1. k \in 1..Len(returned)
      BY <1>1, <1>4, <1>9, <2>4
    <3> QED
      BY <1>1, <1>2, <2>1, <2>4, <3>1 DEF Assembled
  <2> QED
    BY <1>1, <2>1, <2>2, <2>3, <2>4 DEF Assembled
<1>10. DecodedUpTo(n + 1)'
  BY <1>1, <1>6, <1>7, <1>8, <1>9 DEF DecodedUpTo
<1> QED
  BY <1>5, <1>10 DEF InOrder

LEMMA DomainIs ==
    ASSUME NEW S, NEW s \in Seq(S)
    PROVE  DOMAIN s = 1..Len(s)
OBVIOUS

(* The next frame becomes part of the message that is assembled. *)
LEMMA OrderAssembled ==
    ASSUME TypeOK, Placed, NEW n \in 0..Len(frames), DecodedUpTo(n), n + 1 \in Indices,
           UNCHANGED <<frames, returned>>, frames[n + 1] = "more", reader'.pos = reader.pos,
           unmasked' = [unmasked EXCEPT ![n + 1] = @ + 1], Upcoming' = 2 * (n + 1),
           at # "done", Assembling',
           parts' = IF Assembling THEN Append(parts, n + 1) ELSE <<n + 1>>
    PROVE  InOrder'
<1>1. /\ n \in Nat /\ n + 1 \in 0..Len(frames) /\ (\A i \in 1..n + 1 : i \in 1..n \/ i = n + 1)
      /\ Len(frames) \in Nat /\ parts \in Seq(Indices) /\ Len(parts) \in Nat /\ reader.pos \in Nat
  BY TypeFacts DEF Indices
<1>2. (\A k : Parts(k)' = Parts(k)) /\ (\A i : Payload(i)' = Payload(i)) /\ Indices' = Indices
  BY DEF Parts, Payload, Indices
<1>3. \A i \in Indices : unmasked'[i] = IF i <= n + 1 THEN 1 ELSE 0
  <2>1. \A i \in Indices : unmasked[i] = IF i <= n THEN 1 ELSE 0
    BY DEF DecodedUpTo
  <2> QED
    BY <2>1, UnmaskedMore
<1>4. ASSUME NEW k \in 1..Len(returned), NEW o \in 1..Len(Parts(k))
      PROVE  Parts(k)[o] <= n + 1 /\ Parts(k)[o] < n + 1
  <2>1. Parts(k)[o] <= n /\ Parts(k)[o] \in Nat
    BY PartsFacts DEF DecodedUpTo
  <2> QED
    BY <1>1, <2>1
<1>5. Payload(n + 1) >= reader.pos
  <2>1. reader.pos <= 2 * n
    BY DEF Placed, DecodedUpTo
  <2> QED
    BY <1>1, <2>1 DEF Payload
<1>. PICK last \in Nat : last = IF Assembling THEN Len(parts) + 1 ELSE 1
  BY <1>1
<1>6. /\ parts' # <<>> /\ parts' \in Seq(Indices) /\ Len(parts') = last /\ parts'[last] = n + 1
      /\ last \in 1..last
  BY <1>1
<1>7. ASSUME NEW m \in 1..last, m # last
      PROVE  /\ Assembling /\ m \in 1..Len(parts) /\ parts'[m] = parts[m]
             /\ parts[m] \in Nat /\ parts[m] <= n
  <2>1. Assembling /\ m \in 1..Len(parts)
    BY <1>1, <1>7
  <2>2. parts'[m] = parts[m] /\ parts[m] \in Nat
    BY <1>1, <2>1 DEF Indices
  <2>3. parts[m] <= n
    BY <2>1 DEF DecodedUpTo, Assembled
  <2> QED
    BY <2>1, <2>2, <2>3
<1>8. ASSUME NEW m \in 1..last
      PROVE  /\ parts'[m] <= n + 1 /\ frames[parts'[m]] = "more" /\ Payload(parts'[m]) >= reader.pos
             /\ \A k \in 1..Len(returned) : \A o \in 1..Len(Parts(k)) :
                 returned[k].type = "data" => Parts(k)[o] < parts'[m]
  <2>1. CASE m = last
    BY <1>1, <1>4, <1>5, <1>6, <2>1
  <2>2. CASE m # last
    <3>1. Assembled(n)
      BY <1>7, <2>2 DEF DecodedUpTo
    <3>2. parts'[m] <= n + 1
      BY <1>1, <1>7, <2>2
    <3> QED
      BY <1>7, <2>2, <3>1, <3>2 DEF Assembled
  <2> QED
    BY <2>1, <2>2
<1>9. ASSUME NEW m \in 1..last, NEW o \in 1..m - 1
      PROVE  parts'[o] < parts'[m]
  <2>1. o \in 1..last /\ o # last
    OBVIOUS
  <2>2. parts'[o] = parts[o] /\ parts[o] \in Nat /\ parts[o] <= n
    BY <1>7, <2>1
  <2>3. CASE m = last
    BY <1>1, <1>6, <2>2, <2>3
  <2>4. CASE m # last
    <3>1. Assembled(n) /\ m \in 1..Len(parts) /\ parts'[m] = parts[m]
      BY <1>7, <2>4 DEF DecodedUpTo
    <3> QED
      BY <2>2, <3>1 DEF Assembled
  <2> QED
    BY <2>3, <2>4
<1>10. Assembled(n + 1)'
  BY <1>2, <1>6, <1>8, <1>9 DEF Assembled
<1>11. ASSUME NEW i \in 1..n + 1
       PROVE  i \in ToSet(parts') \/ \E k \in 1..Len(returned) : i \in ToSet(Parts(k))
  <2>1. \A m \in 1..last : parts'[m] \in ToSet(parts')
    <3>1. DOMAIN parts' = 1..last
      BY <1>6, DomainIs
    <3> QED
      BY <3>1 DEF ToSet
  <2>2. CASE i = n + 1
    BY <1>6, <2>1, <2>2
  <2>3. CASE i \in 1..n
    <3>1. ASSUME Assembling, i \in ToSet(parts) PROVE i \in ToSet(parts')
      <4>1. PICK m \in 1..Len(parts) : parts[m] = i
        BY <1>1, <3>1 DEF ToSet
      <4>2. m \in 1..last /\ m # last
        BY <1>1, <3>1
      <4> QED
        BY <1>7, <2>1, <4>1, <4>2
    <3> QED
      BY <2>3, <3>1 DEF DecodedUpTo
  <2> QED
    BY <1>1, <2>2, <2>3
<1>12. DecodedUpTo(n + 1)'
  BY <1>2, <1>3, <1>4, <1>10, <1>11 DEF DecodedUpTo
<1> QED
  BY <1>1, <1>12 DEF InOrder

(***************************************************************************)
(* The kinds of steps                                                      *)
(***************************************************************************)
NothingMore ==
    \/ UNCHANGED returned
    \/ \E f \in Frame : /\ f.parts = <<>> /\ f.type \in {"close", "error"}
                      /\ returned' = Append(returned, f)

(* The connection ends, perhaps with an error or a close. *)
LEMMA Ends ==
    ASSUME IInv, TypeOK', at' = "done", UNCHANGED settings,
           reader'.pos <= reader'.end, released' => reader'.eof, UnmaskedOnce',
           NothingMore
    PROVE  IInv'
<1> USE DEF settings
<1>1. MessagesWhole' /\ Held'
  <2>1. CASE UNCHANGED returned
    <3>1. MessagesWhole'
      BY <2>1 DEF IInv, MessagesWhole, InPlace, Parts, Type
    <3> QED
      BY <2>1, <3>1 DEF IInv, Held
  <2>2. ASSUME NEW f \in Frame, f.parts = <<>>, f.type \in {"close", "error"},
               returned' = Append(returned, f)
        PROVE  MessagesWhole' /\ Held'
    <3>1. MessagesWhole'
      BY <2>2, WholeEnd DEF IInv
    <3>2. \A k \in 1..Len(returned') : k \in 1..Len(returned) \/ returned'[k] = f
      BY <2>2, AppendFacts DEF IInv
    <3>3. \A k \in 1..Len(returned) : returned'[k] = returned[k]
      BY <2>2, AppendFacts DEF IInv
    <3> QED
      BY <2>2, <3>1, <3>2, <3>3 DEF IInv, Held
  <2> QED
    BY <2>1, <2>2 DEF NothingMore
<1> QED
  BY <1>1 DEF IInv, Placed, InOrder, Assembling

(* Nothing is decoded and nothing is handed out. *)
LEMMA Stays ==
    ASSUME IInv, TypeOK', Placed', at # "done",
           UNCHANGED <<settings, parts, unmasked, returned>>,
           Upcoming' = Upcoming, Assembling' = Assembling,
           Assembling => reader'.pos = reader.pos,
           released' => reader'.eof,
           at' = "idle" /\ pendingAdvance' =>
            at = "idle" /\ pendingAdvance /\ reader'.pos = reader.pos
    PROVE  IInv'
<1> USE DEF settings
<1>1. InOrder'
  BY OrderStays DEF IInv
<1>2. MessagesWhole' /\ UnmaskedOnce'
  BY DEF IInv, MessagesWhole, InPlace, Parts, Type, UnmaskedOnce, Indices
<1>3. Held'
  <2>1. \A k : Parts(k)' = Parts(k)
    BY DEF Parts
  <2>2. \A i : Payload(i)' = Payload(i)
    BY DEF Payload
  <2> QED
    BY <2>1, <2>2 DEF IInv, Held, StillThere
<1> QED
  BY <1>1, <1>2, <1>3 DEF IInv

(* The next frame is handed out, alone or with the message it completes. *)
LEMMA HandsOut ==
    ASSUME IInv, TypeOK', Placed', UNCHANGED settings,
           NEW n \in 0..Len(frames), DecodedUpTo(n), n + 1 \in Indices,
           NEW f \in Frame, returned' = Append(returned, f), Fits(f),
           unmasked' = [unmasked EXCEPT ![n + 1] = @ + 1], Upcoming' = 2 * (n + 1),
           n + 1 \in ToSet(f.parts), \A m \in 1..Len(f.parts) : f.parts[m] <= n + 1,
           Assembling => Assembling' \/ \A i \in ToSet(parts) : i \in ToSet(f.parts),
           Assembling' => /\ Assembling /\ UNCHANGED parts /\ reader'.pos = reader.pos
                          /\ f.type # "data",
           released' => reader'.eof, allocate /\ ~manual /\ f.type = "data" => f.cached,
           StillThere(f.parts, reader')
    PROVE  IInv'
<1> USE DEF settings
<1>1. InOrder'
  BY OrderReturned DEF IInv
<1>2. MessagesWhole'
  BY WholeMore DEF IInv
<1>3. UnmaskedOnce'
  BY UnmaskedMore DEF IInv, DecodedUpTo
<1>4. /\ Len(returned) \in Nat /\ Len(returned') = Len(returned) + 1
      /\ \A k \in 1..Len(returned) : returned'[k] = returned[k]
      /\ returned'[Len(returned) + 1] = f
  BY AppendFacts DEF IInv
<1>5. \A k \in 1..Len(returned') : k \in 1..Len(returned) \/ returned'[k] = f
  BY <1>4
<1>6. Parts(Len(returned))' = f.parts
  BY <1>4 DEF Parts
<1>7. \A i : Payload(i)' = Payload(i)
  BY DEF Payload
<1>8. StillThere(Parts(Len(returned)), reader)'
  BY <1>6, <1>7 DEF StillThere
<1>9. Held'
  BY <1>4, <1>5, <1>8 DEF IInv, Held
<1> QED
  BY <1>1, <1>2, <1>3, <1>9 DEF IInv

(* The next frame becomes part of the message that is assembled. *)
LEMMA Assembles ==
    ASSUME IInv, TypeOK', Placed', UNCHANGED <<settings, returned, released>>,
           NEW n \in 0..Len(frames), DecodedUpTo(n), n + 1 \in Indices,
           frames[n + 1] = "more", reader'.pos = reader.pos, reader'.eof = reader.eof,
           unmasked' = [unmasked EXCEPT ![n + 1] = @ + 1], Upcoming' = 2 * (n + 1),
           at # "done", at' = "next",
           parts' = IF Assembling THEN Append(parts, n + 1) ELSE <<n + 1>>
    PROVE  IInv'
<1> USE DEF settings
<1>1. InOrder'
  <2>1. Assembling'
    BY DEF Assembling
  <2> QED
    BY <2>1, OrderAssembled DEF IInv
<1>2. MessagesWhole'
  BY ZenonT(60) DEF IInv, MessagesWhole, InPlace, Parts, Type
<1>3. UnmaskedOnce'
  BY UnmaskedMore DEF IInv, DecodedUpTo
<1>4. Held'
  BY DEF IInv, Held
<1> QED
  BY <1>1, <1>2, <1>3, <1>4 DEF IInv

(* Nothing of the connection changes. *)
LEMMA Unmoved ==
    ASSUME IInv, UNCHANGED <<settings, reader, connection>>,
           client' \in {"open", "fin"}, running' \in BOOLEAN
    PROVE  IInv'
<1> USE DEF settings, connection, positions, flags
<1>1. TypeOK'
  BY DEF IInv, TypeOK, Units, Indices, Frame
<1>2. Placed' /\ Upcoming' = Upcoming /\ Assembling' = Assembling
  BY DEF IInv, Placed, Upcoming, Assembling
<1>3. InOrder' /\ MessagesWhole' /\ UnmaskedOnce' /\ Held'
  <2>1. CASE at = "done"
    BY <2>1 DEF IInv, InOrder, MessagesWhole, InPlace, Parts, Type, UnmaskedOnce, Indices, Held
  <2>2. CASE at # "done"
    BY <1>1, <1>2, <2>2, Stays DEF IInv, Held
  <2> QED
    BY <2>1, <2>2
<1> QED
  BY <1>1, <1>2, <1>3 DEF IInv

LEMMA Typed ==
    ASSUME TypeOK, UNCHANGED settings, client' \in {"open", "fin"}, running' \in BOOLEAN,
           reader' \in Reader, reader'.end \in Units, bufferStart' \in Units,
           consumed' \in bufferStart'..examined', examined' \in 0..reader'.end,
           skipFrameInit' \in BOOLEAN, keepValid' \in BOOLEAN, pendingAdvance' \in BOOLEAN,
           parts' \in Seq(Indices), inner' \in Units, at' \in {"idle", "first", "next", "done"},
           unmasked' \in [Indices -> Nat], released' \in BOOLEAN, returned' \in Seq(Frame)
    PROVE  TypeOK'
<1>1. Units' = Units /\ Indices' = Indices /\ Frame' = Frame
  BY DEF settings, Units, Indices, Frame
<1> QED
  BY <1>1 DEF TypeOK, settings

LEMMA AdvanceFacts ==
    ASSUME NEW r \in Reader, NEW c \in Nat, NEW e \in Nat
    PROVE  /\ AdvanceTo(r, c, e) \in Reader /\ AdvanceTo(r, c, e).pos = c
           /\ AdvanceTo(r, c, e).end = r.end /\ AdvanceTo(r, c, e).eof = r.eof
BY DEF AdvanceTo, Reader

(* Giving back what the last call returned *)
LEMMA AdvancedFacts ==
    ASSUME IInv, at = "idle"
    PROVE  /\ Advanced \in Reader /\ Advanced.end = reader.end /\ Advanced.eof = reader.eof
           /\ Advanced.pos \in Nat /\ Advanced.pos <= reader.end
           /\ ~skipFrameInit => Advanced.pos = Upcoming
           /\ skipFrameInit => Advanced.pos = reader.pos /\ bufferStart = reader.pos
           /\ ~pendingAdvance => Advanced.pos = reader.pos
<1>1. TypeOK /\ Placed
  BY DEF IInv
<1>2. /\ reader \in Reader /\ reader.pos \in Nat /\ reader.end \in Nat /\ bufferStart \in Nat
      /\ consumed \in Nat /\ examined \in Nat /\ bufferStart <= consumed /\ consumed <= examined
      /\ examined <= reader.end
  BY <1>1, TypeFacts
<1>3. CASE ~pendingAdvance
  <2>1. Advanced = reader
    BY <1>3 DEF Advanced
  <2> QED
    BY <1>1, <1>2, <1>3, <2>1 DEF Placed, Upcoming
<1>4. CASE pendingAdvance /\ keepValid
  <2>1. Advanced = AdvanceTo(reader, bufferStart, examined)
    BY <1>4 DEF Advanced, KeepsFragments
  <2>2. skipFrameInit /\ bufferStart = reader.pos
    BY <1>1, <1>4 DEF Placed, Assembling
  <2>3. /\ Advanced \in Reader /\ Advanced.pos = bufferStart
        /\ Advanced.end = reader.end /\ Advanced.eof = reader.eof
    <3>1. reader \in Reader /\ bufferStart \in Nat /\ examined \in Nat
      BY <1>2
    <3> QED
      BY <2>1, <3>1, AdvanceFacts
  <2>4. bufferStart <= reader.end
    BY <1>1, <2>2 DEF Placed
  <2>5. Advanced.pos \in Nat /\ Advanced.pos <= reader.end /\ Advanced.pos = reader.pos
    BY <1>2, <2>2, <2>3, <2>4
  <2> QED
    BY <1>4, <2>2, <2>3, <2>5
<1>5. CASE pendingAdvance /\ ~keepValid
  <2>1. Advanced = AdvanceTo(reader, consumed, examined)
    BY <1>5 DEF Advanced, KeepsFragments
  <2>2. ~skipFrameInit /\ Upcoming = consumed /\ consumed <= reader.end
    BY <1>1, <1>2, <1>5 DEF Placed, Upcoming
  <2>3. /\ Advanced \in Reader /\ Advanced.pos = consumed
        /\ Advanced.end = reader.end /\ Advanced.eof = reader.eof
    <3>1. reader \in Reader /\ consumed \in Nat /\ examined \in Nat
      BY <1>2
    <3> QED
      BY <2>1, <3>1, AdvanceFacts
  <2>4. Advanced.pos \in Nat /\ Advanced.pos <= reader.end /\ Advanced.pos = Upcoming
    BY <1>2, <2>2, <2>3
  <2> QED
    BY <1>5, <2>2, <2>3, <2>4
<1> QED
  BY <1>3, <1>4, <1>5

LEMMA NothingMoreTyped ==
    ASSUME TypeOK, NothingMore PROVE returned' \in Seq(Frame)
BY AppendFacts DEF NothingMore, TypeOK

(* An error, or the end of the stream *)
LEMMA ReturnsNothing ==
    ASSUME NEW type \in {"close", "error"}, NEW cached \in BOOLEAN, Return(type, <<>>, cached)
    PROVE  NothingMore /\ at' = "done"
<1> DEFINE f == [type |-> type, parts |-> <<>>, cached |-> cached]
<1>1. f \in Frame /\ f.parts = <<>> /\ f.type \in {"close", "error"}
  <2>1. <<>> \in Seq(Indices)
    OBVIOUS
  <2> QED
    BY <2>1 DEF Frame
<1>2. returned' = Append(returned, f) /\ at' = "done"
  BY DEF Return
<1> QED
  BY <1>1, <1>2 DEF NothingMore

LEMMA AwaitNextFacts ==
    ASSUME NEW p, AwaitNext(p)
    PROVE  \/ at' = "next" /\ inner' = p /\ UNCHANGED returned /\ running
           \/ at' = "done" /\ inner' = inner /\ NothingMore /\ ~running
<1>1. CASE Await("next", p)
  BY <1>1 DEF Await, Throw, NothingMore
<1>2. CASE ~running /\ Return("error", <<>>, FALSE) /\ UNCHANGED inner
  BY <1>2, ReturnsNothing
<1> QED
  BY <1>1, <1>2 DEF AwaitNext

(***************************************************************************)
(* The steps                                                               *)
(***************************************************************************)
LEMMA ReadFrameAsyncStep == ASSUME IInv, ReadFrameAsync PROVE IInv'
<1>1. /\ Advanced \in Reader /\ Advanced.end = reader.end /\ Advanced.eof = reader.eof
      /\ Advanced.pos \in Nat /\ Advanced.pos <= reader.end /\ Advanced.pos = Upcoming
  BY AdvancedFacts DEF ReadFrameAsync
<1>2. TypeOK /\ Placed /\ ~skipFrameInit /\ ~keepValid /\ UNCHANGED settings /\ at = "idle"
  BY DEF IInv, Placed, ReadFrameAsync
<1>3. /\ reader' = Advanced /\ keepValid' = FALSE /\ pendingAdvance' = FALSE
      /\ UNCHANGED <<client, running, positions, skipFrameInit, parts, unmasked, released>>
  BY <1>2 DEF ReadFrameAsync
<1>4. /\ UNCHANGED returned
      /\ (at' = "first" /\ inner' = 0) \/ (at' = "done" /\ inner' = inner)
  BY DEF ReadFrameAsync, Await, Throw
<1>5. TypeOK'
  <2>1. 0 \in Units
    BY <1>2, TypeFacts DEF Units
  <2> QED
    BY <1>1, <1>2, <1>3, <1>4, <2>1, Typed DEF TypeOK, positions
<1>6. CASE at' = "first"
  <2>1. Placed' /\ Upcoming' = Upcoming /\ Assembling' = Assembling /\ ~Assembling
    BY <1>1, <1>2, <1>3, <1>6 DEF Placed, Upcoming, Assembling
  <2> QED
    BY <1>1, <1>2, <1>3, <1>4, <1>5, <1>6, <2>1, Stays DEF IInv, Held
<1>7. CASE at' = "done"
  <2>1. NothingMore /\ UnmaskedOnce'
    BY <1>2, <1>3, <1>4 DEF IInv, NothingMore, UnmaskedOnce, Indices, settings
  <2> QED
    BY <1>1, <1>2, <1>3, <1>5, <1>7, <2>1, Ends DEF IInv, Held
<1> QED
  BY <1>4, <1>6, <1>7

LEMMA ResumeFrameAsyncStep == ASSUME IInv, ResumeFrameAsync PROVE IInv'
<1>1. TypeOK /\ Placed /\ skipFrameInit /\ keepValid /\ pendingAdvance /\ UNCHANGED settings /\ at = "idle"
  BY DEF IInv, Placed, ResumeFrameAsync
<1>2. /\ Advanced \in Reader /\ Advanced.end = reader.end /\ Advanced.eof = reader.eof
      /\ Advanced.pos = bufferStart /\ Advanced.pos = reader.pos
  BY <1>1, AdvancedFacts
<1>3. /\ reader.pos \in Nat /\ reader.end \in Nat /\ bufferStart \in Nat /\ examined \in Nat
      /\ examined <= reader.end /\ Len(frames) \in Nat /\ reader.end <= 2 * Len(frames)
  BY <1>1, TypeFacts
<1>4. /\ reader' \in Reader /\ reader'.end = reader.end /\ reader'.eof = reader.eof
      /\ reader'.pos = reader.pos
  <2>1. Advanced \in Reader /\ bufferStart \in Nat /\ examined \in Nat
    BY <1>2, <1>3
  <2>2. reader' = Advanced \/ reader' = AdvanceTo(Advanced, bufferStart, examined)
    BY DEF ResumeFrameAsync
  <2>3. /\ AdvanceTo(Advanced, bufferStart, examined) \in Reader
        /\ AdvanceTo(Advanced, bufferStart, examined).pos = bufferStart
        /\ AdvanceTo(Advanced, bufferStart, examined).end = Advanced.end
        /\ AdvanceTo(Advanced, bufferStart, examined).eof = Advanced.eof
    BY <2>1, AdvanceFacts
  <2> QED
    BY <1>2, <2>2, <2>3
<1>5. released' = released
  <2>1. ~(bufferStart < Advanced.pos)
    BY <1>2, <1>3
  <2>2. released \in BOOLEAN /\ running \in BOOLEAN
    BY <1>1 DEF TypeOK
  <2> QED
    BY <2>1, <2>2 DEF ResumeFrameAsync
<1>6. /\ skipFrameInit' = FALSE /\ keepValid' = FALSE /\ pendingAdvance' = FALSE
      /\ UNCHANGED <<client, running, positions, parts, unmasked>>
  BY <1>1 DEF ResumeFrameAsync
<1>7. \/ at' = "next" /\ inner' = examined /\ UNCHANGED returned
      \/ at' = "done" /\ inner' = inner /\ NothingMore
  BY AwaitNextFacts DEF ResumeFrameAsync
<1>8. TypeOK'
  <2>1. examined \in Units
    BY <1>3 DEF Units
  <2>2. returned' \in Seq(Frame)
    BY <1>1, <1>7, NothingMoreTyped DEF NothingMore
  <2> QED
    BY <1>1, <1>4, <1>5, <1>6, <1>7, <2>1, <2>2, Typed DEF TypeOK, positions
<1>9. CASE at' = "next" /\ inner' = examined /\ UNCHANGED returned
  <2>1. Upcoming = examined /\ Upcoming' = examined
    BY <1>1, <1>9 DEF Upcoming
  <2>2. Assembling /\ Assembling'
    BY <1>1, <1>9 DEF Assembling
  <2>3. Placed'
    BY <1>1, <1>3, <1>4, <1>6, <1>9, <2>1, <2>2 DEF Placed, positions, settings
  <2> QED
    BY <1>1, <1>4, <1>5, <1>6, <1>8, <1>9, <2>1, <2>2, <2>3, Stays DEF IInv, Held
<1>10. CASE at' = "done" /\ NothingMore
  <2>1. UnmaskedOnce'
    BY <1>1, <1>6 DEF IInv, UnmaskedOnce, Indices, settings
  <2>2. reader'.pos <= reader'.end
    BY <1>1, <1>4 DEF Placed
  <2> QED
    BY <1>1, <1>4, <1>5, <1>8, <1>10, <2>1, <2>2, Ends DEF IInv, Held
<1> QED
  BY <1>7, <1>9, <1>10

LEMMA CleanEndStep == ASSUME IInv, CleanEnd PROVE IInv'
<1>1. TypeOK /\ Placed /\ UNCHANGED settings
  BY DEF IInv, CleanEnd
<1>2. /\ reader \in Reader /\ reader.end \in Nat /\ Len(frames) \in Nat
      /\ reader.end <= 2 * Len(frames)
  BY <1>1, TypeFacts
<1>3. NothingMore /\ at' = "done"
  BY ReturnsNothing DEF CleanEnd
<1>4. /\ reader' \in Reader /\ reader'.pos = reader.end /\ reader'.end = reader.end
      /\ reader'.eof = reader.eof
  BY <1>2, ReaderFacts, EofFacts DEF CleanEnd
<1>5. TypeOK'
  <2>1. reader.end \in Units /\ reader.end \in reader.end..reader.end
    BY <1>2 DEF Units
  <2>2. returned' \in Seq(Frame)
    BY <1>1, <1>3, NothingMoreTyped
  <2>3. reader.end \in 0..reader.end
    BY <1>2
  <2> QED
    BY <1>1, <1>3, <1>4, <2>1, <2>2, <2>3, Typed DEF TypeOK, CleanEnd, flags
<1>6. UnmaskedOnce' /\ released' = released
  BY <1>1 DEF IInv, UnmaskedOnce, Indices, settings, CleanEnd
<1> QED
  BY <1>1, <1>2, <1>3, <1>4, <1>5, <1>6, Ends DEF IInv, Held

(* Where a read looks for the next frame *)
LEMMA StartFacts ==
    ASSUME IInv, HasRead
    PROVE  /\ Start = Upcoming /\ Start \in Nat /\ reader.pos <= Start /\ Start <= reader.end
           /\ at \in {"first", "next"} /\ at # "idle" /\ at # "done"
<1>1. TypeOK /\ Placed /\ reader.pos \in Nat /\ inner \in Nat
  BY TypeFacts DEF IInv
<1> QED
  BY <1>1 DEF HasRead, Start, Upcoming, Placed

LEMMA NeedsMoreStep == ASSUME IInv, NeedsMore PROVE IInv'
<1>1. TypeOK /\ Placed /\ UNCHANGED settings
  BY DEF IInv, NeedsMore
<1>2. /\ reader \in Reader /\ reader.end \in Nat /\ reader.pos \in Nat /\ Len(frames) \in Nat
      /\ reader.end <= 2 * Len(frames)
  BY <1>1, TypeFacts
<1>3. /\ Start = Upcoming /\ Start \in Nat /\ reader.pos <= Start /\ Start <= reader.end
      /\ at \in {"first", "next"} /\ at # "idle" /\ at # "done"
  BY StartFacts DEF NeedsMore
<1>4. /\ reader' \in Reader /\ reader'.pos = reader.pos /\ reader'.end = reader.end
      /\ reader'.eof = reader.eof
  BY <1>2, ReaderFacts, EofFacts DEF NeedsMore, ExamineBuffer
<1>5. /\ bufferStart' = reader.pos /\ consumed' = Start /\ examined' = reader.end
      /\ UNCHANGED <<client, running, flags, parts, unmasked, released>>
  BY DEF NeedsMore
<1>6. inner' = inner /\ returned' = returned /\ (at' = at \/ at' = "done")
  BY DEF NeedsMore, Await, Throw
<1>7. TypeOK'
  <2>1. reader.pos \in Units /\ Start \in reader.pos..reader.end /\ reader.end \in 0..reader.end
    BY <1>2, <1>3 DEF Units
  <2> QED
    BY <1>1, <1>4, <1>5, <1>6, <2>1, Typed DEF TypeOK, flags
<1>8. CASE at' = at
  <2>1. Upcoming' = Upcoming /\ Assembling' = Assembling
    BY <1>3, <1>4, <1>5, <1>6, <1>8 DEF Upcoming, Assembling, flags
  <2>2. Placed'
    BY <1>1, <1>3, <1>4, <1>5, <1>8, <2>1 DEF Placed, flags, settings
  <2> QED
    BY <1>1, <1>3, <1>4, <1>5, <1>6, <1>7, <1>8, <2>1, <2>2, Stays DEF IInv, Held
<1>9. CASE at' = "done"
  <2>1. UnmaskedOnce' /\ NothingMore
    BY <1>1, <1>5, <1>6 DEF IInv, UnmaskedOnce, Indices, settings, NothingMore
  <2>2. reader'.pos <= reader'.end
    BY <1>1, <1>4 DEF Placed
  <2> QED
    BY <1>1, <1>4, <1>5, <1>7, <1>9, <2>1, <2>2, Ends DEF IInv, Held
<1> QED
  BY <1>6, <1>8, <1>9

LEMMA CutOffStep == ASSUME IInv, CutOff PROVE IInv'
<1>1. TypeOK /\ Placed /\ UNCHANGED settings /\ reader.eof
  BY DEF IInv, CutOff
<1>2. /\ reader \in Reader /\ reader.end \in Nat /\ reader.pos \in Nat /\ Len(frames) \in Nat
      /\ reader.end <= 2 * Len(frames) /\ reader.pos <= reader.end
  BY <1>1, TypeFacts DEF Placed
<1>3. NothingMore /\ at' = "done" /\ released' \in BOOLEAN
  <2>1. CASE at = "next" /\ allocate
    BY <2>1 DEF CutOff, Throw, NothingMore
  <2>2. CASE ~(at = "next" /\ allocate)
    <3>1. Return("error", <<>>, FALSE) /\ released' = released
      BY <2>2 DEF CutOff
    <3> QED
      BY <1>1, <3>1, ReturnsNothing DEF TypeOK
  <2> QED
    BY <2>1, <2>2
<1>4. /\ reader' \in Reader /\ reader'.pos = reader.end /\ reader'.end = reader.end
      /\ reader'.eof = reader.eof
  BY <1>2, ReaderFacts, EofFacts DEF CutOff
<1>5. TypeOK'
  <2>1. reader.pos \in Units /\ reader.end \in reader.pos..reader.end /\ reader.end \in 0..reader.end
    BY <1>2 DEF Units
  <2>2. returned' \in Seq(Frame)
    BY <1>1, <1>3, NothingMoreTyped
  <2> QED
    BY <1>1, <1>3, <1>4, <2>1, <2>2, Typed DEF TypeOK, CutOff, flags
<1>6. UnmaskedOnce'
  BY <1>1 DEF IInv, UnmaskedOnce, Indices, settings, CutOff
<1> QED
  BY <1>1, <1>2, <1>3, <1>4, <1>5, <1>6, Ends

(* A frame is decoded and handed out by itself. *)
LEMMA ReturnsFrame ==
    ASSUME IInv, UNCHANGED <<settings, client, running, inner, released>>, at # "done",
           NEW n \in 0..Len(frames), DecodedUpTo(n), Decoded(2 * n),
           NEW cached \in BOOLEAN, ReturnFrame(n + 1, cached),
           reader' \in Reader, reader'.pos <= 2 * n, reader'.end = reader.end,
           reader'.eof = reader.eof, bufferStart' = reader'.pos, parts' \in Seq(Indices),
           skipFrameInit' = (Assembling /\ frames[n + 1] = "ping"),
           keepValid' = skipFrameInit',
           Assembling => ~manual /\ Type(n + 1) # "data" /\ UNCHANGED <<parts, reader>>,
           ~manual /\ allocate /\ Type(n + 1) = "data" => cached
    PROVE  IInv'
<1>1. TypeOK /\ Placed
  BY DEF IInv
<1>2. /\ n + 1 \in Indices /\ n \in Nat /\ n + 1 \in 0..Len(frames) /\ 2 * n < reader.end
      /\ pendingAdvance' = TRUE /\ examined' = consumed'
      /\ frames[n + 1] = "bad" => consumed' = 2 * n + 1 /\ unmasked' = unmasked
      /\ frames[n + 1] # "bad" =>
           /\ consumed' = 2 * (n + 1) /\ 2 * (n + 1) <= reader.end
           /\ unmasked' = [unmasked EXCEPT ![n + 1] = @ + 1]
  BY <1>1, DecodedFacts
<1>3. /\ reader.end \in Nat /\ Len(frames) \in Nat /\ reader.end <= 2 * Len(frames)
      /\ reader'.pos \in Nat /\ frames[n + 1] \in {"more", "last", "ping", "close", "bad"}
  BY <1>1, <1>2, TypeFacts DEF Reader
<1>4. /\ reader'.end \in Units /\ bufferStart' \in Units /\ consumed' \in bufferStart'..examined'
      /\ examined' \in 0..reader'.end /\ reader'.pos <= reader'.end
      /\ consumed' \in Nat /\ reader'.pos <= consumed' /\ consumed' <= reader.end
  <2>1. consumed' \in Nat /\ 2 * n <= consumed' /\ consumed' <= reader.end
    BY <1>2, <1>3
  <2> QED
    BY <1>2, <1>3, <2>1 DEF Units
<1>5. unmasked' \in [Indices -> Nat] /\ UnmaskedOnce'
  <2>1. CASE frames[n + 1] = "bad"
    BY <1>1, <1>2, <2>1 DEF TypeOK, IInv, UnmaskedOnce, Indices, settings
  <2>2. CASE frames[n + 1] # "bad"
    BY <1>1, <1>2, <2>2, UnmaskedMore DEF DecodedUpTo, settings
  <2> QED
    BY <2>1, <2>2
<1>6. skipFrameInit' \in BOOLEAN
  BY DEF Assembling
<1>7. CASE frames[n + 1] \in {"bad", "close"}
  <2>1. NothingMore /\ at' = "done"
    <3>1. CASE frames[n + 1] = "bad"
      <4>1. Return("error", <<>>, cached)
        BY <3>1 DEF ReturnFrame
      <4> QED
        BY <4>1, ReturnsNothing
    <3>2. CASE frames[n + 1] = "close"
      <4>1. Return("close", <<>>, cached)
        BY <3>2 DEF ReturnFrame
      <4> QED
        BY <4>1, ReturnsNothing
    <3> QED
      BY <1>7, <3>1, <3>2
  <2>2. returned' \in Seq(Frame)
    BY <1>1, <2>1, NothingMoreTyped
  <2>3. TypeOK'
    BY <1>1, <1>2, <1>4, <1>5, <1>6, <2>1, <2>2, Typed DEF TypeOK
  <2> QED
    BY <1>4, <1>5, <2>1, <2>3, Ends DEF IInv, Held
<1>8. CASE frames[n + 1] \notin {"bad", "close"}
  <2> DEFINE f == [type |-> Type(n + 1), parts |-> <<n + 1>>, cached |-> cached]
  <2>1. Type(n + 1) \in {"data", "ping"} /\ (Type(n + 1) = "ping" <=> frames[n + 1] = "ping")
    BY <1>3, <1>8 DEF Type
  <2>2. f \in Frame /\ f.parts = <<n + 1>> /\ f.type = Type(n + 1) /\ f.cached = cached
    <3>1. <<n + 1>> \in Seq(Indices)
      BY <1>2
    <3> QED
      BY <2>1, <3>1 DEF Frame
  <2>3. returned' = Append(returned, f) /\ at' = "idle"
    <3>1. Return(Type(n + 1), <<n + 1>>, cached)
      BY <1>8 DEF ReturnFrame
    <3> QED
      BY <2>1, <3>1 DEF Return
  <2> HIDE DEF f
  <2>4. Fits(f)
    BY <1>1, <1>2, <2>2, SingleFits
  <2>5. TypeOK'
    <3>1. returned' \in Seq(Frame)
      BY <1>1, <2>2, <2>3, AppendFacts DEF TypeOK
    <3> QED
      BY <1>1, <1>2, <1>4, <1>5, <1>6, <2>3, <3>1, Typed DEF TypeOK
  <2>6. consumed' = 2 * (n + 1)
    BY <1>2, <1>8
  <2>7. Upcoming' = 2 * (n + 1)
    BY <1>2, <2>3, <2>6 DEF Upcoming
  <2>8. /\ Assembling' => Assembling
        /\ Assembling => Assembling'
    <3>1. Assembling' = skipFrameInit'
      BY <1>6, <2>3 DEF Assembling
    <3> QED
      BY <2>1, <3>1
  <2>9. Placed'
    <3>1. /\ reader'.pos <= reader'.end /\ reader'.pos <= Upcoming' /\ Upcoming' <= reader'.end
      BY <1>4, <2>6, <2>7
    <3>2. Assembling' => ~manual'
      BY <2>8 DEF settings
    <3> QED
      BY <1>2, <2>3, <3>1, <3>2 DEF Placed
  <2>10. /\ ToSet(f.parts) = {n + 1} /\ \A m \in 1..Len(f.parts) : f.parts[m] = n + 1
    BY <1>2, <2>2 DEF ToSet
  <2>11. n + 1 \in ToSet(f.parts) /\ \A m \in 1..Len(f.parts) : f.parts[m] <= n + 1
    <3>1. n + 1 <= n + 1
      BY <1>2
    <3> QED
      BY <2>10, <3>1, Zenon
  <2>12. StillThere(f.parts, reader')
    <3>1. Payload(n + 1) >= reader'.pos
      BY <1>2, <1>3 DEF Payload
    <3> QED
      BY <2>10, <3>1 DEF StillThere
  <2>13. released' => reader'.eof
    BY DEF IInv, Held
  <2>14. Assembling' => /\ Assembling /\ UNCHANGED parts /\ reader'.pos = reader.pos
                        /\ f.type # "data"
    BY <2>2, <2>8
  <2>15. frames[n + 1] # "bad"
    BY <1>8
  <2>16. unmasked' = [unmasked EXCEPT ![n + 1] = @ + 1]
    BY <1>2, <2>15
  <2>17. allocate /\ ~manual /\ f.type = "data" => f.cached
    BY <2>2
  <2> QED
    BY <1>2, <2>2, <2>3, <2>4, <2>5, <2>7, <2>8, <2>9, <2>11, <2>12, <2>13, <2>14, <2>16,
       <2>17, HandsOut
<1> QED
  BY <1>7, <1>8

LEMMA AppendedSet ==
    ASSUME NEW S, NEW s \in Seq(S), NEW x \in S
    PROVE  Append(s, x) \in Seq(S) /\ ToSet(Append(s, x)) = ToSet(s) \cup {x}
<1>1. Append(s, x) \in Seq(S) /\ Len(Append(s, x)) = Len(s) + 1 /\ Len(s) \in Nat
  OBVIOUS
<1>2. \A m \in 1..Len(s) : Append(s, x)[m] = s[m]
  OBVIOUS
<1>3. Append(s, x)[Len(s) + 1] = x
  OBVIOUS
<1>4. \A m \in 1..Len(s) + 1 : m \in 1..Len(s) \/ m = Len(s) + 1
  BY <1>1
<1>5. DOMAIN s = 1..Len(s) /\ DOMAIN Append(s, x) = 1..Len(s) + 1
  OBVIOUS
<1> QED
  BY <1>1, <1>2, <1>3, <1>4, <1>5 DEF ToSet

(* The last fragment of a message is decoded, and the message is handed out. *)
LEMMA CompletesMessage ==
    ASSUME IInv, NextFragment, UNCHANGED <<settings, client, running, skipFrameInit, keepValid>>,
           at = "next", Assembling, ~manual, ~skipFrameInit, ~keepValid,
           NEW n \in 0..Len(frames), DecodedUpTo(n), Start = 2 * n, At(2 * n) = n + 1,
           n + 1 \in Indices, frames[n + 1] = "last", n \in Nat, reader \in Reader,
           pendingAdvance' = TRUE, consumed' = 2 * (n + 1), examined' = 2 * (n + 1),
           2 * (n + 1) <= reader.end, reader.pos <= 2 * n, bufferStart' = reader.pos,
           unmasked' = [unmasked EXCEPT ![n + 1] = @ + 1], parts' = Append(parts, n + 1),
           parts' \in Seq(Indices), ToSet(parts') = ToSet(parts) \cup {n + 1},
           \A m \in 1..Len(parts') : /\ parts'[m] \in Indices /\ parts'[m] <= n + 1
                                     /\ Payload(parts'[m]) >= reader.pos,
           unmasked' \in [Indices -> Nat], bufferStart' \in Units,
           consumed' \in bufferStart'..examined', examined' \in 0..reader.end
    PROVE  IInv'
<1>1. TypeOK /\ Placed /\ Len(frames) \in Nat /\ reader.pos \in Nat /\ reader.end \in Nat
  BY TypeFacts DEF IInv
<1>. PICK slices \in Seq(Indices) : slices = parts'
  OBVIOUS
<1>. PICK cached \in BOOLEAN : cached = allocate
  BY <1>1 DEF TypeOK
<1>. DEFINE f == [type |-> "data", parts |-> slices, cached |-> cached]
<1>2. f \in Frame /\ f.parts = slices /\ f.type = "data" /\ f.cached = cached
  BY DEF Frame
<1>3. returned' = Append(returned, f) /\ at' = "idle" /\ UNCHANGED <<reader, inner>>
  BY DEF NextFragment, Return, Cached
<1> HIDE DEF f
<1>4. StillThere(slices, reader)
  BY DEF StillThere
<1>5. UNCHANGED released
  <2>1. CASE allocate
    <3>1. Copied(parts')
      BY <2>1 DEF NextFragment
    <3>2. released' = (released \/ ~StillThere(slices, reader))
      BY <3>1 DEF Copied
    <3> QED
      BY <1>1, <1>4, <3>2 DEF TypeOK
  <2>2. CASE ~allocate
    BY <2>2 DEF NextFragment
  <2> QED
    BY <2>1, <2>2
<1>6. Fits(f)
  BY <1>1, <1>2, MessageFits
<1>7. TypeOK'
  <2>1. returned' \in Seq(Frame)
    BY <1>1, <1>2, <1>3, AppendFacts DEF TypeOK
  <2> QED
    BY <1>1, <1>3, <1>5, <2>1, Typed DEF TypeOK
<1>8. Upcoming' = 2 * (n + 1) /\ ~Assembling'
  BY <1>3 DEF Upcoming, Assembling
<1>9. Placed'
  <2>1. reader.pos <= 2 * (n + 1) /\ reader.pos <= reader.end
    BY <1>1 DEF Placed
  <2>2. keepValid' = skipFrameInit' /\ ~skipFrameInit'
    BY <1>1 DEF TypeOK
  <2> QED
    BY <1>3, <1>8, <2>1, <2>2 DEF Placed
<1>10. released' => reader'.eof
  BY <1>3, <1>5 DEF IInv, Held
<1>11. /\ n + 1 \in ToSet(f.parts) /\ \A i \in ToSet(parts) : i \in ToSet(f.parts)
       /\ StillThere(f.parts, reader')
  BY <1>2, <1>3, <1>4
<1>12. \A m \in 1..Len(f.parts) : f.parts[m] <= n + 1
  BY <1>2
<1>13. allocate /\ ~manual /\ f.type = "data" => f.cached
  BY <1>2
<1>14. /\ Assembling => Assembling' \/ \A i \in ToSet(parts) : i \in ToSet(f.parts)
       /\ Assembling' => /\ Assembling /\ UNCHANGED parts /\ reader'.pos = reader.pos
                         /\ f.type # "data"
  BY <1>8, <1>11
<1> QED
  BY <1>2, <1>3, <1>6, <1>7, <1>8, <1>9, <1>10, <1>11, <1>12, <1>13, <1>14, HandsOut

LEMMA FirstFrameStep == ASSUME IInv, FirstFrame PROVE IInv'
<1>1. TypeOK /\ Placed /\ UNCHANGED settings /\ at = "first" /\ HasRead /\ Decoded(Start)
  BY DEF IInv, FirstFrame
<1>. PICK n \in 0..Len(frames) : DecodedUpTo(n)
  BY <1>1 DEF IInv, InOrder
<1>2. Start = 2 * n /\ Upcoming = 2 * n /\ Start = reader.pos /\ ~Assembling /\ at # "done"
  BY <1>1, StartFacts DEF DecodedUpTo, Start, Assembling
<1>3. Decoded(2 * n)
  BY <1>1, <1>2
<1>4. /\ At(2 * n) = n + 1 /\ n + 1 \in Indices /\ n \in Nat
      /\ pendingAdvance' = TRUE /\ examined' = consumed'
      /\ frames[n + 1] # "bad" =>
           /\ consumed' = 2 * (n + 1) /\ 2 * (n + 1) <= reader.end
           /\ unmasked' = [unmasked EXCEPT ![n + 1] = @ + 1]
  BY <1>1, <1>3, DecodedFacts
<1>5. /\ reader \in Reader /\ reader.end \in Nat /\ reader.pos \in Nat /\ Len(frames) \in Nat
      /\ reader.end <= 2 * Len(frames)
  BY <1>1, TypeFacts
<1>6. /\ bufferStart' = reader.pos
      /\ UNCHANGED <<client, running, skipFrameInit, keepValid, released>>
      /\ ~skipFrameInit /\ ~keepValid
  BY <1>1 DEF FirstFrame, Placed
<1>7. parts' = IF manual THEN parts ELSE <<n + 1>>
  BY <1>2, <1>4 DEF FirstFrame
<1>8. parts' \in Seq(Indices)
  BY <1>1, <1>4, <1>7 DEF TypeOK
<1>9. CASE frames[n + 1] = "more" /\ ~manual
  <2>1. AwaitNext(examined') /\ reader' = AdvanceTo(reader, reader.pos, examined')
    BY <1>2, <1>4, <1>9 DEF FirstFrame
  <2>2. consumed' = 2 * (n + 1) /\ examined' = 2 * (n + 1) /\ 2 * (n + 1) <= reader.end
        /\ unmasked' = [unmasked EXCEPT ![n + 1] = @ + 1]
    BY <1>4, <1>9
  <2>3. 2 * (n + 1) \in Nat /\ 2 * (n + 1) \in Units
    BY <1>4, <1>5, <2>2 DEF Units
  <2>4. /\ reader' \in Reader /\ reader'.pos = reader.pos /\ reader'.end = reader.end
        /\ reader'.eof = reader.eof
    <3>1. reader \in Reader /\ reader.pos \in Nat /\ examined' \in Nat
      BY <1>5, <2>2, <2>3
    <3> QED
      BY <2>1, <3>1, AdvanceFacts
  <2>. PICK p \in Nat : p = examined'
    BY <2>2, <2>3
  <2>5. AwaitNext(p)
    BY <2>1
  <2>6. \/ at' = "next" /\ inner' = p /\ UNCHANGED returned
        \/ at' = "done" /\ inner' = inner /\ NothingMore
    BY <2>5, AwaitNextFacts
  <2>7. unmasked' \in [Indices -> Nat] /\ UnmaskedOnce'
    BY <1>1, <1>4, <2>2, UnmaskedMore DEF DecodedUpTo, settings
  <2>8. TypeOK'
    <3>1. returned' \in Seq(Frame)
      BY <1>1, <2>6, NothingMoreTyped DEF NothingMore
    <3>2. reader.pos \in Units /\ reader.pos <= 2 * n
      BY <1>2, <1>4, <1>5, <2>2 DEF Units
    <3>3. 2 * (n + 1) \in reader.pos..2 * (n + 1) /\ 2 * (n + 1) \in 0..reader.end
      BY <1>4, <1>5, <2>2, <3>2
    <3> QED
      BY <1>1, <1>4, <1>6, <1>8, <2>2, <2>3, <2>4, <2>6, <2>7, <3>1, <3>2, <3>3, Typed DEF TypeOK
  <2>9. CASE at' = "next" /\ inner' = p /\ UNCHANGED returned
    <3>1. Upcoming' = 2 * (n + 1)
      BY <2>2, <2>9 DEF Upcoming
    <3>2. reader.pos <= 2 * (n + 1)
      BY <1>2, <1>4
    <3>3. Placed'
      BY <1>1, <1>6, <1>9, <2>2, <2>4, <2>9, <3>1, <3>2 DEF Placed, settings
    <3>4. parts' = IF Assembling THEN Append(parts, n + 1) ELSE <<n + 1>>
      BY <1>2, <1>7, <1>9
    <3> QED
      BY <1>1, <1>2, <1>4, <1>6, <1>9, <2>2, <2>4, <2>8, <2>9, <3>1, <3>3, <3>4, Assembles
  <2>10. CASE at' = "done" /\ NothingMore
    <3>1. reader'.pos <= reader'.end
      BY <1>1, <2>4 DEF Placed
    <3> QED
      BY <1>1, <1>6, <2>4, <2>7, <2>8, <2>10, <3>1, Ends DEF IInv, Held
  <2> QED
    BY <2>6, <2>9, <2>10
<1>10. CASE ~(frames[n + 1] = "more" /\ ~manual)
  <2>. PICK cached \in BOOLEAN : cached = Cached(~manual)
    BY <1>1 DEF Cached, TypeOK
  <2>1. ReturnFrame(n + 1, cached) /\ UNCHANGED <<reader, inner>>
    BY <1>2, <1>4, <1>10 DEF FirstFrame
  <2>2. ~manual /\ allocate => cached
    BY DEF Cached
  <2>3. reader.pos <= 2 * n
    BY <1>2, <1>5
  <2>4. /\ skipFrameInit' = (Assembling /\ frames[n + 1] = "ping")
        /\ keepValid' = skipFrameInit'
    BY <1>1, <1>2, <1>6 DEF TypeOK
  <2> QED
    BY <1>1, <1>2, <1>3, <1>5, <1>6, <1>8, <2>1, <2>2, <2>3, <2>4, ReturnsFrame
<1> QED
  BY <1>9, <1>10

LEMMA InterruptedStep == ASSUME IInv, Interrupted PROVE IInv'
<1>1. TypeOK /\ Placed /\ UNCHANGED settings /\ at = "next" /\ HasRead /\ Decoded(Start)
  BY DEF IInv, Interrupted
<1>. PICK n \in 0..Len(frames) : DecodedUpTo(n)
  BY <1>1 DEF IInv, InOrder
<1>2. Start = 2 * n /\ reader.pos <= Start /\ Assembling /\ at # "done"
  BY <1>1, StartFacts DEF DecodedUpTo, Assembling
<1>3. Decoded(2 * n)
  BY <1>1, <1>2
<1>4. At(2 * n) = n + 1
  BY <1>1, <1>3, DecodedFacts
<1>5. /\ bufferStart' = reader.pos /\ Type(n + 1) # "data" /\ ReturnFrame(n + 1, FALSE)
      /\ UNCHANGED <<client, running, reader, parts, inner>>
  BY <1>2, <1>4 DEF Interrupted
<1>6. /\ ~skipFrameInit /\ ~keepValid /\ ~manual
      /\ skipFrameInit' = (frames[n + 1] = "ping") /\ keepValid' = skipFrameInit'
  <2>1. ~skipFrameInit /\ ~keepValid /\ ~manual
    BY <1>1, <1>2 DEF Placed
  <2>2. CASE frames[n + 1] = "ping"
    BY <1>2, <1>4, <2>1, <2>2 DEF Interrupted
  <2>3. CASE frames[n + 1] # "ping"
    <3>1. UNCHANGED <<keepValid, skipFrameInit>>
      BY <1>2, <1>4, <2>3 DEF Interrupted
    <3>2. keepValid = FALSE /\ skipFrameInit = FALSE
      BY <1>1, <2>1 DEF TypeOK
    <3> QED
      BY <2>1, <2>3, <3>1, <3>2
  <2> QED
    BY <2>2, <2>3
<1>7. UNCHANGED released
  <2>1. StillThere(parts, reader)
    BY <1>2 DEF DecodedUpTo, Assembled, StillThere
  <2> QED
    BY <1>1, <2>1 DEF Interrupted, Copied, TypeOK
<1>8. /\ parts' \in Seq(Indices) /\ reader \in Reader
      /\ skipFrameInit' = (Assembling /\ frames[n + 1] = "ping")
  BY <1>1, <1>2, <1>5, <1>6, TypeFacts
<1> QED
  BY <1>1, <1>2, <1>3, <1>5, <1>6, <1>7, <1>8, ReturnsFrame

LEMMA NextFragmentStep == ASSUME IInv, NextFragment PROVE IInv'
<1>1. TypeOK /\ Placed /\ UNCHANGED settings /\ at = "next" /\ HasRead /\ Decoded(Start)
  BY DEF IInv, NextFragment
<1>. PICK n \in 0..Len(frames) : DecodedUpTo(n)
  BY <1>1 DEF IInv, InOrder
<1>2. Start = 2 * n /\ reader.pos <= 2 * n /\ Assembling /\ at # "done" /\ ~manual
  BY <1>1, StartFacts DEF DecodedUpTo, Assembling, Placed
<1>3. Decoded(2 * n)
  BY <1>1, <1>2
<1>4. At(2 * n) = n + 1
  BY <1>1, <1>3, DecodedFacts
<1>5. frames[n + 1] \in {"more", "last"} /\ parts' = Append(parts, n + 1)
  <2>1. n + 1 \in Indices
    BY <1>1, <1>3, DecodedFacts
  <2> QED
    BY <1>1, <1>2, <1>4, <2>1, TypeFacts DEF NextFragment, Type
<1>6. /\ n + 1 \in Indices /\ n \in Nat /\ pendingAdvance' = TRUE
      /\ consumed' = 2 * (n + 1) /\ examined' = 2 * (n + 1) /\ 2 * (n + 1) <= reader.end
      /\ unmasked' = [unmasked EXCEPT ![n + 1] = @ + 1]
  <2>1. frames[n + 1] # "bad"
    BY <1>5
  <2> QED
    BY <1>1, <1>3, <2>1, DecodedFacts
<1>7. /\ reader \in Reader /\ reader.end \in Nat /\ reader.pos \in Nat /\ Len(frames) \in Nat
      /\ reader.end <= 2 * Len(frames) /\ parts \in Seq(Indices)
  BY <1>1, TypeFacts
<1>8. /\ bufferStart' = reader.pos
      /\ UNCHANGED <<client, running, skipFrameInit, keepValid>>
      /\ ~skipFrameInit /\ ~keepValid
  BY <1>1 DEF NextFragment, Placed
<1>9. parts' \in Seq(Indices) /\ ToSet(parts') = ToSet(parts) \cup {n + 1}
      /\ \A m \in 1..Len(parts') : parts'[m] \in Indices /\ parts'[m] <= n + 1
                                    /\ Payload(parts'[m]) >= reader.pos
  <2>. PICK s \in Seq(Indices) : s = parts
    BY <1>7
  <2>1. Append(s, n + 1) \in Seq(Indices) /\ ToSet(Append(s, n + 1)) = ToSet(s) \cup {n + 1}
    BY <1>6, AppendedSet
  <2>2. \A m \in 1..Len(s) : s[m] \in Nat /\ s[m] <= n /\ Payload(s[m]) >= reader.pos
    BY <1>2 DEF DecodedUpTo, Assembled, Indices
  <2>3. Payload(n + 1) >= reader.pos
    BY <1>2, <1>6, <1>7 DEF Payload
  <2>4. \A i : i <= n /\ i \in Nat => i <= n + 1
    BY <1>6
  <2>5. n + 1 <= n + 1
    BY <1>6
  <2>6. ASSUME NEW m \in 1..Len(Append(s, n + 1))
        PROVE  Append(s, n + 1)[m] = n + 1 \/ (m \in 1..Len(s) /\ Append(s, n + 1)[m] = s[m])
    OBVIOUS
  <2>7. ASSUME NEW m \in 1..Len(Append(s, n + 1))
        PROVE  Append(s, n + 1)[m] <= n + 1 /\ Payload(Append(s, n + 1)[m]) >= reader.pos
    BY <2>2, <2>3, <2>4, <2>5, <2>6
  <2>8. \A m \in 1..Len(Append(s, n + 1)) : Append(s, n + 1)[m] \in Indices
    BY <2>1
  <2> QED
    BY <1>5, <2>1, <2>7, <2>8
<1>10. unmasked' \in [Indices -> Nat] /\ UnmaskedOnce'
  BY <1>1, <1>6, UnmaskedMore DEF DecodedUpTo, settings
<1>11. /\ bufferStart' \in Units /\ consumed' \in bufferStart'..examined'
       /\ examined' \in 0..reader.end /\ 2 * (n + 1) \in Units
  <2>1. reader.pos <= 2 * (n + 1)
    BY <1>2, <1>6, <1>7
  <2> QED
    BY <1>6, <1>7, <1>8, <2>1 DEF Units
<1>12. CASE frames[n + 1] = "last"
  BY <1>1, <1>2, <1>4, <1>5, <1>6, <1>7, <1>8, <1>9, <1>10, <1>11, <1>12, CompletesMessage
<1>13. CASE frames[n + 1] = "more"
  <2>1. /\ AwaitNext(examined') /\ reader' = AdvanceTo(reader, reader.pos, examined')
        /\ UNCHANGED released
    BY <1>2, <1>4, <1>13 DEF NextFragment
  <2>2. /\ reader' \in Reader /\ reader'.pos = reader.pos /\ reader'.end = reader.end
        /\ reader'.eof = reader.eof
    <3>1. reader \in Reader /\ reader.pos \in Nat /\ examined' \in Nat
      BY <1>6, <1>7
    <3> QED
      BY <2>1, <3>1, AdvanceFacts
  <2>. PICK p \in Nat : p = examined'
    BY <1>6
  <2>3. AwaitNext(p)
    BY <2>1
  <2>4. \/ at' = "next" /\ inner' = p /\ UNCHANGED returned
        \/ at' = "done" /\ inner' = inner /\ NothingMore
    BY <2>3, AwaitNextFacts
  <2>5. TypeOK'
    <3>1. returned' \in Seq(Frame)
      BY <1>1, <2>4, NothingMoreTyped DEF NothingMore
    <3>2. p \in Units
      BY <1>6, <1>11
    <3> QED
      BY <1>1, <1>6, <1>8, <1>9, <1>10, <1>11, <2>1, <2>2, <2>4, <3>1, <3>2, Typed DEF TypeOK
  <2>6. CASE at' = "next" /\ inner' = p /\ UNCHANGED returned
    <3>1. Upcoming' = 2 * (n + 1)
      BY <1>6, <2>6 DEF Upcoming
    <3>2. reader.pos <= 2 * (n + 1)
      BY <1>2, <1>6, <1>7
    <3>3. Placed'
      BY <1>1, <1>2, <1>6, <1>8, <2>2, <2>6, <3>1, <3>2 DEF Placed, settings
    <3>4. parts' = IF Assembling THEN Append(parts, n + 1) ELSE <<n + 1>>
      BY <1>2, <1>5
    <3> QED
      BY <1>1, <1>2, <1>6, <1>13, <2>1, <2>2, <2>5, <2>6, <3>1, <3>3, <3>4, Assembles
  <2>7. CASE at' = "done" /\ NothingMore
    <3>1. reader'.pos <= reader'.end
      BY <1>1, <2>2 DEF Placed
    <3> QED
      BY <1>1, <1>10, <2>1, <2>2, <2>5, <2>7, <3>1, Ends DEF IInv, Held
  <2> QED
    BY <2>4, <2>6, <2>7
<1> QED
  BY <1>5, <1>12, <1>13

LEMMA CancelReadStep == ASSUME IInv, Habits = {}, CancelRead PROVE IInv'
<1>1. TypeOK /\ Placed /\ at = "first" /\ at' = "idle"
      /\ UNCHANGED <<settings, client, running, reader, positions, flags, parts, inner,
                     unmasked, released, returned>>
  BY DEF IInv, CancelRead
<1>2. TypeOK'
  BY <1>1 DEF TypeOK, settings, positions, flags, Units, Indices, Frame
<1>3. Placed' /\ Upcoming' = Upcoming /\ Assembling' = Assembling /\ ~pendingAdvance'
  BY <1>1 DEF TypeOK, Placed, Upcoming, Assembling, settings, positions, flags
<1> QED
  BY <1>1, <1>2, <1>3, Stays DEF IInv, Held

(* What a call of TryReadFrame between two messages starts from *)
LEMMA TryFacts ==
    ASSUME IInv, Habits = {}, Try
    PROVE  /\ TypeOK /\ Placed /\ at = "idle" /\ ~skipFrameInit /\ ~Assembling
           /\ skipFrameInit' = FALSE /\ keepValid' = FALSE
           /\ UNCHANGED <<settings, client, running, parts, inner, released>>
           /\ Advanced \in Reader /\ Advanced.pos \in Nat /\ Advanced.pos <= reader.end
           /\ Advanced.end = reader.end /\ Advanced.eof = reader.eof
           /\ Advanced.pos = Upcoming /\ reader.end \in Nat
           /\ Len(frames) \in Nat /\ reader.end <= 2 * Len(frames)
<1>1. TypeOK /\ Placed /\ at = "idle" /\ ~skipFrameInit
  BY DEF IInv, Try
<1>2. skipFrameInit = FALSE /\ keepValid = FALSE
  BY <1>1 DEF TypeOK, Placed
<1>3. ~Assembling
  BY <1>1 DEF Assembling
<1>4. skipFrameInit' = FALSE /\ keepValid' = FALSE
      /\ UNCHANGED <<settings, client, running, parts, inner, released>>
  BY <1>2 DEF Try
<1>5. /\ Advanced \in Reader /\ Advanced.pos \in Nat /\ Advanced.pos <= reader.end
      /\ Advanced.end = reader.end /\ Advanced.eof = reader.eof /\ Advanced.pos = Upcoming
  BY <1>1, AdvancedFacts
<1> QED
  BY <1>1, <1>3, <1>4, <1>5, TypeFacts

LEMMA TryNothingStep == ASSUME IInv, Habits = {}, TryNothing PROVE IInv'
<1>1. /\ TypeOK /\ Placed /\ at = "idle" /\ ~skipFrameInit /\ ~Assembling
      /\ skipFrameInit' = FALSE /\ keepValid' = FALSE
      /\ UNCHANGED <<settings, client, running, parts, inner, released>>
      /\ Advanced \in Reader /\ Advanced.pos \in Nat /\ Advanced.pos <= reader.end
      /\ Advanced.end = reader.end /\ Advanced.eof = reader.eof
      /\ Advanced.pos = Upcoming
  BY TryFacts DEF TryNothing
<1>2. /\ reader' = Advanced /\ pendingAdvance' = FALSE
      /\ UNCHANGED <<positions, at, unmasked, returned>>
  BY DEF TryNothing
<1>3. TypeOK'
  BY <1>1, <1>2, Typed DEF TypeOK, positions
<1>4. Placed' /\ Upcoming' = Upcoming /\ ~Assembling'
  <2>1. at' = "idle" /\ keepValid' = skipFrameInit' /\ ~skipFrameInit' /\ ~pendingAdvance'
    BY <1>1, <1>2
  <2>2. Upcoming' = Advanced.pos /\ ~Assembling'
    BY <1>2, <2>1 DEF Upcoming, Assembling
  <2>3. reader'.pos <= reader'.end /\ reader'.pos <= Upcoming' /\ Upcoming' <= reader'.end
    BY <1>1, <1>2, <2>2
  <2> QED
    BY <1>1, <2>1, <2>2, <2>3 DEF Placed
<1>5. Assembling' = Assembling
  BY <1>1, <1>4 DEF Assembling
<1> QED
  BY <1>1, <1>2, <1>3, <1>4, <1>5, Stays DEF IInv, Held

LEMMA TryEndStep == ASSUME IInv, Habits = {}, TryEnd PROVE IInv'
<1>1. /\ TypeOK /\ Placed /\ UNCHANGED <<settings, client, running, parts, inner, released>>
      /\ skipFrameInit' = FALSE /\ keepValid' = FALSE
      /\ Advanced \in Reader /\ Advanced.end = reader.end /\ Advanced.eof = reader.eof
      /\ reader.end \in Nat /\ Len(frames) \in Nat /\ reader.end <= 2 * Len(frames)
  BY TryFacts DEF TryEnd
<1>2. NothingMore /\ at' = "done"
  BY ReturnsNothing DEF TryEnd
<1>3. /\ reader' \in Reader /\ reader'.pos = reader.end /\ reader'.end = reader.end
      /\ reader'.eof = reader.eof
  <2>. PICK r \in Reader : r = Advanced
    BY <1>1
  <2>1. /\ Consume(r, reader.end) \in Reader /\ Consume(r, reader.end).pos = reader.end
        /\ Consume(r, reader.end).end = r.end /\ Consume(r, reader.end).eof = r.eof
    BY <1>1, ReaderFacts, EofFacts
  <2>2. reader' = Consume(r, reader.end)
    BY DEF TryEnd
  <2> QED
    BY <1>1, <2>1, <2>2
<1>4. bufferStart' = reader.end /\ consumed' = reader.end /\ examined' = reader.end
      /\ pendingAdvance' = FALSE /\ unmasked' = unmasked
  BY DEF TryEnd
<1>5. TypeOK'
  <2>1. reader.end \in Units /\ reader.end \in reader.end..reader.end /\ reader.end \in 0..reader.end
    BY <1>1 DEF Units
  <2>2. returned' \in Seq(Frame)
    BY <1>1, <1>2, NothingMoreTyped
  <2> QED
    BY <1>1, <1>2, <1>3, <1>4, <2>1, <2>2, Typed DEF TypeOK
<1>6. UnmaskedOnce' /\ reader'.pos <= reader'.end
  BY <1>1, <1>3, <1>4 DEF IInv, UnmaskedOnce, Indices, settings
<1> QED
  BY <1>1, <1>2, <1>3, <1>5, <1>6, Ends DEF IInv, Held

LEMMA TryPartialStep == ASSUME IInv, Habits = {}, TryPartial PROVE IInv'
<1>1. /\ TypeOK /\ Placed /\ at = "idle" /\ ~skipFrameInit /\ ~Assembling
      /\ skipFrameInit' = FALSE /\ keepValid' = FALSE
      /\ UNCHANGED <<settings, client, running, parts, inner, released>>
      /\ Advanced \in Reader /\ Advanced.pos \in Nat /\ Advanced.pos <= reader.end
      /\ Advanced.end = reader.end /\ Advanced.eof = reader.eof
      /\ Advanced.pos = Upcoming /\ reader.end \in Nat
      /\ Len(frames) \in Nat /\ reader.end <= 2 * Len(frames)
  BY TryFacts DEF TryPartial
<1>2. /\ bufferStart' = Advanced.pos /\ consumed' = Advanced.pos /\ examined' = reader.end
      /\ pendingAdvance' = FALSE /\ UNCHANGED <<at, unmasked, returned>>
  BY DEF TryPartial
<1>3. /\ reader' \in Reader /\ reader'.pos = Advanced.pos /\ reader'.end = reader.end
      /\ reader'.eof = reader.eof
  <2>. PICK r \in Reader : r = Advanced
    BY <1>1
  <2>1. /\ ExamineAll(r) \in Reader /\ ExamineAll(r).pos = r.pos
        /\ ExamineAll(r).end = r.end /\ ExamineAll(r).eof = r.eof
    BY <1>1, ReaderFacts, EofFacts
  <2>2. reader' = ExamineAll(r)
    BY DEF TryPartial
  <2> QED
    BY <1>1, <2>1, <2>2
<1>4. TypeOK'
  <2>. PICK p \in Nat : p = Advanced.pos
    BY <1>1
  <2>1. p \in Units /\ p \in p..reader.end /\ reader.end \in 0..reader.end /\ reader.end \in Units
    BY <1>1 DEF Units
  <2> QED
    BY <1>1, <1>2, <1>3, <2>1, Typed DEF TypeOK
<1>5. Upcoming' = Upcoming /\ ~Assembling'
  BY <1>1, <1>2, <1>3 DEF Upcoming, Assembling
<1>6. Placed' /\ Assembling' = Assembling
  <2>1. reader'.pos <= reader'.end /\ reader'.pos <= Upcoming' /\ Upcoming' <= reader'.end
    BY <1>1, <1>3, <1>5
  <2>2. at' = "idle" /\ keepValid' = skipFrameInit' /\ ~skipFrameInit' /\ ~pendingAdvance'
    BY <1>1, <1>2
  <2>3. Placed'
    BY <1>5, <2>1, <2>2 DEF Placed
  <2>4. Assembling \in BOOLEAN /\ Assembling' \in BOOLEAN
    BY DEF Assembling
  <2> QED
    BY <1>1, <1>5, <2>3, <2>4
<1> QED
  BY <1>1, <1>2, <1>3, <1>4, <1>5, <1>6, Stays DEF IInv, Held

LEMMA TryFrameStep == ASSUME IInv, Habits = {}, TryFrame PROVE IInv'
<1>1. /\ TypeOK /\ Placed /\ at = "idle" /\ ~skipFrameInit /\ ~Assembling
      /\ skipFrameInit' = FALSE /\ keepValid' = FALSE
      /\ UNCHANGED <<settings, client, running, parts, inner, released>>
      /\ Advanced \in Reader /\ Advanced.pos \in Nat
      /\ Advanced.end = reader.end /\ Advanced.eof = reader.eof /\ Advanced.pos = Upcoming
  BY TryFacts DEF TryFrame
<1>. PICK n \in 0..Len(frames) : DecodedUpTo(n)
  BY <1>1 DEF IInv, InOrder
<1>2. Advanced.pos = 2 * n
  BY <1>1 DEF DecodedUpTo
<1>3. Decoded(2 * n)
  BY <1>2 DEF TryFrame
<1>4. At(2 * n) = n + 1
  BY <1>1, <1>3, DecodedFacts
<1>. PICK cached \in BOOLEAN : cached = Cached(TRUE)
  BY <1>1 DEF Cached, TypeOK
<1>5. ReturnFrame(n + 1, cached) /\ reader' = Advanced /\ bufferStart' = Advanced.pos
  BY <1>2, <1>4 DEF TryFrame
<1>6. allocate => cached
  BY DEF Cached
<1>7. /\ reader' \in Reader /\ reader'.pos <= 2 * n /\ reader'.end = reader.end
      /\ reader'.eof = reader.eof /\ bufferStart' = reader'.pos
  BY <1>1, <1>2, <1>5
<1>8. parts' \in Seq(Indices) /\ skipFrameInit' = (Assembling /\ frames[n + 1] = "ping")
      /\ keepValid' = skipFrameInit'
  BY <1>1 DEF TypeOK
<1> QED
  BY <1>1, <1>3, <1>5, <1>6, <1>7, <1>8, ReturnsFrame

LEMMA ReceiveStep == ASSUME IInv, Receive PROVE IInv'
<1>1. /\ TypeOK /\ Placed /\ at \in {"first", "next"} /\ ~Readable(reader)
      /\ UNCHANGED <<settings, running, connection>>
  BY DEF IInv, Receive
<1>2. /\ reader \in Reader /\ reader.pos \in Nat /\ reader.end \in Nat /\ Len(frames) \in Nat
      /\ reader.end <= 2 * Len(frames)
  BY <1>1, TypeFacts
<1>3. /\ reader' \in Reader /\ reader'.pos = reader.pos /\ reader.end <= reader'.end
      /\ reader'.end \in Nat /\ reader'.end <= 2 * Len(frames) /\ client' \in {"open", "fin"}
  <2>1. ASSUME NEW upTo \in reader.end + 1..2 * Len(frames)
        PROVE  /\ Pull(reader, upTo) \in Reader /\ Pull(reader, upTo).pos = reader.pos
               /\ Pull(reader, upTo).end = upTo
               /\ PullEnd(Pull(reader, upTo)) \in Reader
               /\ PullEnd(Pull(reader, upTo)).pos = reader.pos
               /\ PullEnd(Pull(reader, upTo)).end = upTo
               /\ reader.end <= upTo /\ upTo \in Nat /\ upTo <= 2 * Len(frames)
    <3>1. reader.end <= upTo /\ upTo \in Nat /\ upTo <= 2 * Len(frames)
      BY <1>2
    <3>. PICK r : r = Pull(reader, upTo)
      OBVIOUS
    <3>2. r \in Reader /\ r.pos = reader.pos /\ r.end = upTo
      BY <1>2, <3>1, ReaderFacts
    <3>3. PullEnd(r) \in Reader /\ PullEnd(r).pos = r.pos /\ PullEnd(r).end = r.end
      BY <1>2, <3>2, ReaderFacts
    <3> QED
      BY <3>1, <3>2, <3>3
  <2>2. PullEnd(reader) \in Reader /\ PullEnd(reader).pos = reader.pos
        /\ PullEnd(reader).end = reader.end
    BY <1>2, ReaderFacts
  <2>3. CASE client = "fin" /\ reader' = PullEnd(reader) /\ UNCHANGED client
    BY <1>2, <2>2, <2>3
  <2>4. CASE client = "open" /\ \E upTo \in reader.end + 1..2 * Len(frames) :
               \/ reader' = Pull(reader, upTo) /\ UNCHANGED client
               \/ reader' = PullEnd(Pull(reader, upTo)) /\ client' = "fin"
    <3>. PICK upTo \in reader.end + 1..2 * Len(frames) :
               \/ reader' = Pull(reader, upTo) /\ UNCHANGED client
               \/ reader' = PullEnd(Pull(reader, upTo)) /\ client' = "fin"
      BY <2>4
    <3> QED
      BY <2>1, <2>4
  <2> QED
    BY <2>3, <2>4 DEF Receive
<1>4. TypeOK'
  <2>1. reader'.end \in Units
    BY <1>3 DEF Units
  <2>2. examined \in 0..reader'.end
    BY <1>1, <1>2, <1>3 DEF TypeOK
  <2> QED
    BY <1>1, <1>3, <2>1, <2>2, Typed DEF TypeOK, connection, positions, flags
<1>5. Upcoming' = Upcoming /\ Assembling' = Assembling
  BY <1>1, <1>3 DEF Upcoming, Assembling, connection, positions, flags
<1>6. Upcoming \in Nat
  BY <1>1, <1>2, TypeFacts DEF Upcoming
<1>7. Placed'
  <2>1. reader'.pos <= reader'.end /\ reader'.pos <= Upcoming' /\ Upcoming' <= reader'.end
    BY <1>1, <1>2, <1>3, <1>5, <1>6 DEF Placed
  <2> QED
    BY <1>1, <1>3, <1>5, <2>1 DEF Placed, connection, positions, flags, settings
<1>8. released' => reader'.eof
  BY <1>1 DEF IInv, Held, Readable, connection
<1> QED
  BY <1>1, <1>3, <1>4, <1>5, <1>7, <1>8, Stays DEF connection, positions, flags

(***************************************************************************)
(* The theorems                                                            *)
(***************************************************************************)
LEMMA Initially == Init => IInv
<1> SUFFICES ASSUME Init PROVE IInv
  OBVIOUS
<1>1. frames \in Seq({"more", "last", "ping", "close", "bad"}) /\ Len(frames) \in Nat
  BY ScriptsAssumption DEF Init
<1>2. reader \in Reader /\ reader.pos = 0 /\ reader.end = 0
  BY DEF Init, Fresh, Reader
<1>3. 0 \in Units /\ 0 \in 0..0
  BY <1>1 DEF Units
<1>4. Len(<<>>) = 0 /\ <<>> \in Seq(Indices) /\ <<>> \in Seq(Frame)
  OBVIOUS
<1>5. TypeOK
  BY <1>2, <1>3, <1>4 DEF Init, TypeOK
<1>6. Placed
  <2>1. at = "idle" /\ keepValid = skipFrameInit /\ ~skipFrameInit /\ ~pendingAdvance
    BY DEF Init
  <2>2. Upcoming = 0 /\ ~Assembling
    BY <1>2, <2>1 DEF Upcoming, Assembling
  <2>3. reader.pos <= reader.end /\ reader.pos <= Upcoming /\ Upcoming <= reader.end
    BY <1>2, <2>2
  <2> QED
    BY <2>1, <2>2, <2>3 DEF Placed
<1>7. InOrder
  <2>1. 0 \in 0..Len(frames) /\ 2 * 0 = 0
    BY <1>1
  <2>2. DecodedUpTo(0)
    BY <1>2, <1>4, <2>1 DEF Init, DecodedUpTo, Upcoming, Assembling, Indices
  <2> QED
    BY <2>1, <2>2 DEF InOrder
<1>8. MessagesWhole /\ UnmaskedOnce /\ Held
  BY <1>4 DEF Init, MessagesWhole, UnmaskedOnce, Held
<1> QED
  BY <1>5, <1>6, <1>7, <1>8 DEF IInv

LEMMA Invariant == ASSUME Habits = {} PROVE Spec => []IInv
<1>1. ASSUME IInv, [Next]_vars PROVE IInv'
  <2>1. CASE Handler
    BY <1>1, <2>1, ReadFrameAsyncStep, ResumeFrameAsyncStep, CancelReadStep, TryNothingStep,
       TryEndStep, TryPartialStep, TryFrameStep DEF Handler, TryReadFrame
  <2>2. CASE Read
    BY <1>1, <2>2, CleanEndStep, NeedsMoreStep, CutOffStep, FirstFrameStep, NextFragmentStep,
       InterruptedStep DEF Read
  <2>3. CASE Receive
    BY <1>1, <2>3, ReceiveStep
  <2>4. CASE Leave \/ Stop \/ UNCHANGED vars
    <3>1. /\ UNCHANGED <<settings, reader, connection>>
          /\ client' \in {"open", "fin"} /\ running' \in BOOLEAN
      BY <1>1, <2>4 DEF Leave, Stop, vars, connection, IInv, TypeOK
    <3> QED
      BY <1>1, <3>1, Unmoved
  <2> QED
    BY <1>1, <2>1, <2>2, <2>3, <2>4 DEF Next
<1> QED
  BY <1>1, Initially, PTL DEF Spec

(* Every variable keeps its type: the positions a call leaves behind for the    *)
(* next one stay in order and inside what the reader has got.                   *)
THEOREM TypeCorrect == ASSUME Habits = {} PROVE Spec => []TypeOK
BY Invariant, PTL DEF IInv

(* However long the script is and however it is cut into reads, the handler     *)
(* sees every fragment and every ping in order, once and none missing, and an   *)
(* assembled message ends with the frame that has FIN: ReadFrameSegmentAsync     *)
(* goes on where a control frame has interrupted it.                            *)
THEOREM AlwaysWhole == ASSUME Habits = {} PROVE Spec => []MessagesWhole
BY Invariant, PTL DEF IInv

(* No frame is decoded, and so unmasked, a second time, although partial frames *)
(* and interrupted messages are read again from the same buffer.                *)
THEOREM AlwaysOnce == ASSUME Habits = {} PROVE Spec => []UnmaskedOnce
BY Invariant, PTL DEF IInv

(* Advance never gives back a slice that the connection or the handler still    *)
(* looks at, and what a builder asked to be allocated has been copied.          *)
THEOREM AlwaysKept == ASSUME Habits = {} PROVE Spec => []DataKept
<1>1. IInv => DataKept
  BY DEF IInv, Held, DataKept, Parts
<1> QED
  BY <1>1, Invariant, PTL

(***************************************************************************)
(* The refinement of MessageStream                                         *)
(***************************************************************************)
(* Every step of the connection is a step of the stream, or none. *)
StreamStep == Promise!Next \/ UNCHANGED Promise!vars

(* The reader has only seen the end of the stream when the client has left. *)
EndSeen == reader.eof => client = "fin"

LEMMA PartsOfIs ==
    ASSUME NEW S, NEW s \in Seq(S)
    PROVE  Promise!PartsOf(s) = ToSet(s)
BY DomainIs DEF Promise!PartsOf, ToSet

LEMMA DeliveredIs ==
    ASSUME TypeOK, NEW i
    PROVE  Promise!Delivered(i) <=> \E k \in 1..Len(returned) : i \in ToSet(Parts(k))
<1>1. ASSUME NEW k \in 1..Len(returned)
      PROVE  Promise!PartsOf(returned[k].parts) = ToSet(Parts(k))
  BY PartsFacts, PartsOfIs DEF Parts
<1> QED
  BY <1>1 DEF Promise!Delivered

(* A delivered frame has a place in what was returned. *)
LEMMA DeliveredAt ==
    ASSUME TypeOK, NEW i, Promise!Delivered(i)
    PROVE  \E k \in 1..Len(returned) : \E m \in 1..Len(Parts(k)) : Parts(k)[m] = i
<1>. PICK k \in 1..Len(returned) : i \in ToSet(Parts(k))
  BY DeliveredIs
<1>1. DOMAIN Parts(k) = 1..Len(Parts(k))
  BY PartsFacts, DomainIs
<1>. PICK m \in 1..Len(Parts(k)) : Parts(k)[m] = i
  BY <1>1 DEF ToSet
<1> QED
  OBVIOUS

(* What n decoded frames leave to be handed out *)
LEMMA OpenFacts ==
    ASSUME TypeOK, MessagesWhole, NEW n \in 0..Len(frames), DecodedUpTo(n)
    PROVE  /\ \A i : Promise!Delivered(i) => i \in 1..n
           /\ \A i \in 1..n : ~Promise!Delivered(i) => Assembling /\ i \in ToSet(parts)
           /\ Assembling => \A i \in ToSet(parts) :
                i \in 1..n /\ frames[i] = "more" /\ ~Promise!Delivered(i)
<1>1. n \in Nat /\ Len(frames) \in Nat /\ parts \in Seq(Indices) /\ Indices \subseteq Nat \ {0}
  BY TypeFacts DEF Indices
<1>2. ASSUME NEW i, Promise!Delivered(i) PROVE i \in 1..n
  <2>. PICK k \in 1..Len(returned) : \E m \in 1..Len(Parts(k)) : Parts(k)[m] = i
    BY <1>2, DeliveredAt
  <2>. PICK m \in 1..Len(Parts(k)) : Parts(k)[m] = i
    OBVIOUS
  <2>1. i \in Indices
    BY PartsFacts
  <2>2. i <= n
    BY DEF DecodedUpTo
  <2> QED
    BY <1>1, <2>1, <2>2
<1>3. ASSUME NEW i \in 1..n, ~Promise!Delivered(i) PROVE Assembling /\ i \in ToSet(parts)
  BY <1>3, DeliveredIs DEF DecodedUpTo
<1>4. ASSUME Assembling, NEW i \in ToSet(parts)
      PROVE  i \in 1..n /\ frames[i] = "more" /\ ~Promise!Delivered(i)
  <2>1. DOMAIN parts = 1..Len(parts)
    BY <1>1, DomainIs
  <2>. PICK j \in 1..Len(parts) : parts[j] = i
    BY <2>1 DEF ToSet
  <2>2. Assembled(n)
    BY <1>4 DEF DecodedUpTo
  <2>3. i <= n /\ frames[i] = "more"
    BY <2>2 DEF Assembled
  <2>4. i \in Indices
    BY <1>1
  <2>5. ASSUME Promise!Delivered(i) PROVE FALSE
    <3>. PICK k \in 1..Len(returned) : \E m \in 1..Len(Parts(k)) : Parts(k)[m] = i
      BY <2>5, DeliveredAt
    <3>. PICK m \in 1..Len(Parts(k)) : Parts(k)[m] = i
      OBVIOUS
    <3>1. returned[k].type = "data"
      BY <2>3 DEF MessagesWhole, InPlace, Type
    <3>2. Parts(k)[m] < parts[j]
      BY <2>2, <3>1 DEF Assembled
    <3> QED
      BY <1>1, <2>4, <3>2
  <2> QED
    BY <1>1, <2>3, <2>4, <2>5
<1> QED
  BY <1>2, <1>3, <1>4

(* The frame that is decoded next is the one whose turn it is. *)
LEMMA FollowsNext ==
    ASSUME TypeOK, MessagesWhole, NEW n \in 0..Len(frames), DecodedUpTo(n), n + 1 \in Indices
    PROVE  Promise!Follows(n + 1)
<1>1. n \in Nat /\ Len(frames) \in Nat
  BY TypeFacts
<1>2. ASSUME NEW j \in 1..n + 1 - 1 PROVE Promise!Delivered(j) \/ frames[j] = "more"
  <2>1. j \in 1..n
    BY <1>1
  <2> QED
    BY <2>1, OpenFacts
<1>3. ASSUME NEW j \in n + 1..Len(frames) PROVE ~Promise!Delivered(j)
  <2>1. j \notin 1..n
    BY <1>1
  <2> QED
    BY <2>1, OpenFacts
<1> QED
  BY <1>2, <1>3 DEF Promise!Follows

(* If it is data, it completes what is assembled. *)
LEMMA FragmentsNext ==
    ASSUME TypeOK, MessagesWhole, NEW n \in 0..Len(frames), DecodedUpTo(n), n + 1 \in Indices,
           Type(n + 1) = "data"
    PROVE  Promise!Fragments(n + 1) = {n + 1} \cup (IF Assembling THEN ToSet(parts) ELSE {})
<1>1. n \in Nat /\ \A i \in 1..n + 1 : i \in 1..n \/ i = n + 1
  BY TypeFacts
<1>2. n + 1 \in 1..n + 1 /\ n + 1 \notin 1..n /\ \A i \in 1..n : i \in 1..n + 1
  BY <1>1
<1>3. frames[n + 1] \in Promise!Data
  <2>1. frames[n + 1] \in {"more", "last", "ping", "close", "bad"}
    BY TypeFacts
  <2> QED
    BY <2>1 DEF Type, Promise!Data
<1>4. ~Promise!Delivered(n + 1)
  BY <1>2, OpenFacts
<1>5. ASSUME NEW i, i \in Promise!Fragments(n + 1)
      PROVE  i = n + 1 \/ (Assembling /\ i \in ToSet(parts))
  <2>1. i \in 1..n + 1 /\ ~Promise!Delivered(i)
    BY <1>5 DEF Promise!Fragments
  <2> QED
    BY <1>1, <2>1, OpenFacts
<1>6. n + 1 \in Promise!Fragments(n + 1)
  BY <1>2, <1>3, <1>4 DEF Promise!Fragments
<1>7. ASSUME Assembling, NEW i \in ToSet(parts) PROVE i \in Promise!Fragments(n + 1)
  <2>1. i \in 1..n /\ frames[i] = "more" /\ ~Promise!Delivered(i)
    BY <1>7, OpenFacts
  <2> QED
    BY <1>2, <2>1 DEF Promise!Fragments, Promise!Data
<1> QED
  BY <1>5, <1>6, <1>7

LEMMA HandOutFacts ==
    ASSUME TypeOK, NEW f \in Frame, returned' = Append(returned, f), at # "done",
           UNCHANGED <<settings, client, running>>
    PROVE  /\ Promise!HandOut(f.type) /\ Promise!OneMore /\ Promise!Latest' = f
<1>1. Len(returned') = Len(returned) + 1 /\ returned'[Len(returned')] = f
  BY AppendFacts
<1>2. Promise!Latest' = f
  BY <1>1 DEF Promise!Latest
<1>3. Promise!OneMore
  BY <1>1, <1>2 DEF Promise!OneMore
<1> QED
  BY <1>2, <1>3 DEF Promise!HandOut, settings

(***************************************************************************)
(* The kinds of steps                                                      *)
(***************************************************************************)
LEMMA SilentStream ==
    ASSUME UNCHANGED <<settings, client, running, returned>>, at # "done", at' # "done"
    PROVE  StreamStep
BY DEF StreamStep, Promise!vars, settings

LEMMA FailsStream ==
    ASSUME TypeOK, UNCHANGED <<settings, client, running>>, at # "done", at' = "done",
           NothingMore, client = "fin" \/ ~running
    PROVE  StreamStep
<1>1. CASE UNCHANGED returned
  BY <1>1 DEF StreamStep, Promise!Next, Promise!Fail, settings
<1>2. ASSUME NEW f \in Frame, f.parts = <<>>, f.type \in {"close", "error"},
             returned' = Append(returned, f)
      PROVE  StreamStep
  <2>1. Promise!OneMore /\ Promise!Latest' = f
    BY <1>2, HandOutFacts
  <2>2. Promise!Fail
    BY <1>2, <2>1 DEF Promise!Fail, settings
  <2> QED
    BY <2>2 DEF StreamStep, Promise!Next
<1> QED
  BY <1>1, <1>2 DEF NothingMore

(* Frame n + 1 is handed out by itself. *)
LEMMA SingleStream ==
    ASSUME TypeOK, MessagesWhole, UNCHANGED <<settings, client, running>>, at # "done",
           NEW n \in 0..Len(frames), DecodedUpTo(n), n + 1 \in Indices,
           NEW cached \in BOOLEAN, ReturnFrame(n + 1, cached),
           Assembling => Type(n + 1) # "data"
    PROVE  StreamStep
<1>1. frames[n + 1] \in {"more", "last", "ping", "close", "bad"}
  BY TypeFacts
<1>2. n + 1 \in Promise!Indices /\ Promise!Follows(n + 1)
  BY FollowsNext DEF Promise!Indices, Indices
<1>3. <<n + 1>> \in Seq(Indices) /\ <<>> \in Seq(Indices)
  OBVIOUS
<1>4. CASE frames[n + 1] \in {"bad", "close"}
  <2>. PICK type \in {"error", "close"} : type = IF frames[n + 1] = "close" THEN "close" ELSE "error"
    OBVIOUS
  <2>. DEFINE f == [type |-> type, parts |-> <<>>, cached |-> cached]
  <2>1. f \in Frame /\ f.type = type /\ f.parts = <<>>
    BY <1>3 DEF Frame
  <2>2. returned' = Append(returned, f) /\ at' = "done"
    BY <1>4 DEF ReturnFrame, Return
  <2> HIDE DEF f
  <2>3. Promise!HandOut(f.type) /\ Promise!Latest' = f
    BY <2>1, <2>2, HandOutFacts
  <2>4. Promise!Close(n + 1)
    BY <1>2, <1>4, <2>1, <2>2, <2>3 DEF Promise!Close
  <2> QED
    BY <1>2, <2>4 DEF StreamStep, Promise!Next
<1>5. CASE frames[n + 1] \in {"more", "last", "ping"}
  <2>. PICK type \in {"data", "ping"} : type = Type(n + 1)
    BY <1>5 DEF Type
  <2>. DEFINE f == [type |-> type, parts |-> <<n + 1>>, cached |-> cached]
  <2>1. f \in Frame /\ f.type = type /\ f.parts = <<n + 1>>
    BY <1>3 DEF Frame
  <2>2. returned' = Append(returned, f) /\ at' = "idle"
    <3>1. Return(type, <<n + 1>>, cached)
      BY <1>5 DEF ReturnFrame
    <3> QED
      BY <3>1 DEF Return
  <2> HIDE DEF f
  <2>3. Promise!HandOut(f.type) /\ Promise!Latest' = f
    BY <2>1, <2>2, HandOutFacts
  <2>4. CASE frames[n + 1] = "ping"
    <3>1. Promise!Ping(n + 1)
      BY <1>2, <2>1, <2>2, <2>3, <2>4 DEF Promise!Ping, Type
    <3> QED
      BY <1>2, <3>1 DEF StreamStep, Promise!Next
  <2>5. CASE frames[n + 1] \in {"more", "last"}
    <3>1. type = "data" /\ ~Assembling
      BY <2>5 DEF Type
    <3>2. Promise!Fragments(n + 1) = {n + 1}
      BY <3>1, FragmentsNext
    <3>3. Promise!PartsOf(f.parts) = {n + 1} /\ Promise!Ascending(f.parts)
      BY <2>1 DEF Promise!PartsOf, Promise!Ascending
    <3>4. Promise!Message(n + 1)
      BY <1>2, <2>1, <2>2, <2>3, <2>5, <3>1, <3>2, <3>3 DEF Promise!Message, Promise!Data
    <3> QED
      BY <1>2, <3>4 DEF StreamStep, Promise!Next
  <2> QED
    BY <1>5, <2>4, <2>5
<1> QED
  BY <1>1, <1>4, <1>5

(* Frame n + 1 completes the message that is assembled. *)
LEMMA CompletedStream ==
    ASSUME TypeOK, MessagesWhole, UNCHANGED <<settings, client, running>>, at # "done",
           NEW n \in 0..Len(frames), DecodedUpTo(n), n + 1 \in Indices,
           frames[n + 1] = "last", Assembling, NEW slices \in Seq(Indices),
           slices = Append(parts, n + 1), NEW cached \in BOOLEAN,
           Return("data", slices, cached)
    PROVE  StreamStep
<1>1. n + 1 \in Promise!Indices /\ Promise!Follows(n + 1)
  BY FollowsNext DEF Promise!Indices, Indices
<1>. DEFINE f == [type |-> "data", parts |-> slices, cached |-> cached]
<1>2. f \in Frame /\ f.type = "data" /\ f.parts = slices
  BY DEF Frame
<1>3. returned' = Append(returned, f) /\ at' = "idle"
  BY DEF Return
<1> HIDE DEF f
<1>4. Promise!HandOut("data") /\ Promise!Latest' = f
  BY <1>2, <1>3, HandOutFacts
<1>5. Promise!PartsOf(f.parts) = Promise!Fragments(n + 1)
  <2>1. ToSet(slices) = ToSet(parts) \cup {n + 1}
    BY AppendedSet DEF TypeOK
  <2>2. Promise!Fragments(n + 1) = {n + 1} \cup ToSet(parts)
    BY FragmentsNext DEF Type
  <2> QED
    BY <1>2, <2>1, <2>2, PartsOfIs
<1>6. Promise!Ascending(f.parts)
  <2>1. Fits(f)
    BY <1>2, MessageFits
  <2> QED
    BY <2>1 DEF Fits, Promise!Ascending
<1>7. Promise!Message(n + 1)
  BY <1>1, <1>2, <1>3, <1>4, <1>5, <1>6 DEF Promise!Message, Promise!Data
<1> QED
  BY <1>1, <1>7 DEF StreamStep, Promise!Next

(***************************************************************************)
(* The steps of the stream                                                 *)
(***************************************************************************)
LEMMA EndSeenStep == ASSUME IInv, EndSeen, [Next]_vars PROVE EndSeen'
<1>1. reader \in Reader /\ TypeOK
  BY TypeFacts DEF IInv
<1>2. \A c, e : AdvanceTo(reader, c, e).eof = reader.eof
  BY <1>1 DEF AdvanceTo, Reader
<1>3. CASE Handler \/ Read
  <2>1. client' = client
    BY <1>3 DEF Handler, Read, ReadFrameAsync, ResumeFrameAsync, TryReadFrame, CancelRead, Try,
       TryNothing, TryEnd, TryPartial, TryFrame, CleanEnd, NeedsMore, CutOff, FirstFrame,
       NextFragment, Interrupted
  <2>2. reader'.eof = reader.eof
    <3>1. CASE Read
      BY <1>1, <1>2, <3>1 DEF Read, CleanEnd, NeedsMore, CutOff, FirstFrame, NextFragment,
         Interrupted, Consume, ExamineBuffer, ExamineAll
    <3>2. CASE CancelRead
      BY <3>2 DEF CancelRead
    <3>3. CASE at = "idle" /\ ~CancelRead /\ Handler
      <4>. PICK r : r = Advanced
        OBVIOUS
      <4>1. r \in Reader /\ r.eof = reader.eof
        BY <3>3, AdvancedFacts
      <4>2. \A c, e : AdvanceTo(r, c, e).eof = reader.eof
        BY <4>1 DEF AdvanceTo, Reader
      <4> QED
        <5>1. reader' = r \/ \E c, e : reader' = AdvanceTo(r, c, e)
          BY <3>3 DEF Handler, ReadFrameAsync, ResumeFrameAsync, TryReadFrame,
             TryNothing, TryEnd, TryPartial, TryFrame, Consume, ExamineAll
        <5> QED
          BY <4>1, <4>2, <5>1
    <3> QED
      BY <1>3, <3>1, <3>2, <3>3 DEF Handler, ReadFrameAsync, ResumeFrameAsync, TryReadFrame,
         TryNothing, TryEnd, TryPartial, TryFrame, Try
  <2> QED
    BY <2>1, <2>2 DEF EndSeen
<1>4. CASE Receive
  <2>1. CASE client' = "fin"
    BY <2>1 DEF EndSeen
  <2>2. CASE client' # "fin"
    <3>. PICK upTo : reader' = Pull(reader, upTo) /\ UNCHANGED client
      BY <1>4, <2>2 DEF Receive
    <3>1. Pull(reader, upTo).eof = reader.eof
      BY <1>1 DEF Pull, Reader
    <3> QED
      BY <3>1 DEF EndSeen
  <2> QED
    BY <2>1, <2>2
<1>5. CASE Leave \/ Stop \/ UNCHANGED vars
  BY <1>5 DEF EndSeen, Leave, Stop, vars
<1> QED
  BY <1>3, <1>4, <1>5 DEF Next

LEMMA CallsStream ==
    ASSUME IInv, Habits = {}, ReadFrameAsync \/ ResumeFrameAsync
    PROVE  StreamStep
<1>1. TypeOK /\ at = "idle" /\ UNCHANGED <<settings, client, running>>
  BY DEF IInv, ReadFrameAsync, ResumeFrameAsync
<1>2. \/ at' # "done" /\ UNCHANGED returned
      \/ at' = "done" /\ NothingMore /\ ~running
  <2>1. CASE ReadFrameAsync
    BY <2>1 DEF ReadFrameAsync, Await, Throw, NothingMore
  <2>2. CASE ResumeFrameAsync
    BY <2>2, AwaitNextFacts DEF ResumeFrameAsync
  <2> QED
    BY <2>1, <2>2
<1> QED
  BY <1>1, <1>2, SilentStream, FailsStream

LEMMA EndsStream ==
    ASSUME IInv, EndSeen, Habits = {}, CleanEnd \/ CutOff \/ TryEnd
    PROVE  StreamStep
<1>1. TypeOK /\ at # "done" /\ UNCHANGED <<settings, client, running>>
  BY DEF IInv, CleanEnd, CutOff, TryEnd, Try, HasRead
<1>2. reader.eof
  BY DEF CleanEnd, CutOff, TryEnd
<1>3. at' = "done" /\ NothingMore
  <2>1. CASE Return("close", <<>>, FALSE) \/ Return("error", <<>>, FALSE)
    BY <2>1, ReturnsNothing
  <2> QED
    BY <2>1 DEF CleanEnd, CutOff, TryEnd, Throw, NothingMore
<1> QED
  BY <1>1, <1>2, <1>3, FailsStream DEF EndSeen

LEMMA PartialStream ==
    ASSUME IInv, NeedsMore \/ CancelRead \/ TryNothing \/ TryPartial
    PROVE  StreamStep
<1>1. TypeOK /\ at # "done" /\ UNCHANGED <<settings, client, running, returned>>
  BY DEF IInv, NeedsMore, HasRead, Await, Throw, CancelRead, TryNothing, TryPartial, Try
<1>2. at' # "done" \/ ~running
  BY <1>1 DEF NeedsMore, Await, CancelRead, TryNothing, TryPartial
<1>3. NothingMore
  BY <1>1 DEF NothingMore
<1> QED
  BY <1>1, <1>2, <1>3, SilentStream, FailsStream

LEMMA FirstFrameStream == ASSUME IInv, FirstFrame PROVE StreamStep
<1>1. TypeOK /\ MessagesWhole /\ UNCHANGED <<settings, client, running>> /\ at = "first"
      /\ Decoded(Start) /\ HasRead
  BY DEF IInv, FirstFrame
<1>. PICK n \in 0..Len(frames) : DecodedUpTo(n)
  BY <1>1 DEF IInv, InOrder
<1>2. Start = 2 * n /\ ~Assembling
  BY <1>1, StartFacts DEF DecodedUpTo, Assembling
<1>3. At(Start) = n + 1 /\ n + 1 \in Indices
  BY <1>1, <1>2, DecodedFacts
<1>4. CASE frames[n + 1] = "more" /\ ~manual
  <2>1. AwaitNext(examined')
    BY <1>3, <1>4 DEF FirstFrame
  <2>2. \/ at' # "done" /\ UNCHANGED returned
        \/ at' = "done" /\ NothingMore /\ ~running
    BY <2>1, AwaitNextFacts
  <2> QED
    BY <1>1, <2>2, SilentStream, FailsStream
<1>5. CASE ~(frames[n + 1] = "more" /\ ~manual)
  <2>. PICK cached \in BOOLEAN : cached = Cached(~manual)
    BY <1>1 DEF Cached, TypeOK
  <2>1. ReturnFrame(n + 1, cached)
    BY <1>3, <1>5 DEF FirstFrame
  <2> QED
    BY <1>1, <1>2, <1>3, <2>1, SingleStream
<1> QED
  BY <1>4, <1>5

LEMMA NextFragmentStream == ASSUME IInv, NextFragment PROVE StreamStep
<1>1. TypeOK /\ MessagesWhole /\ UNCHANGED <<settings, client, running>> /\ at = "next"
      /\ Decoded(Start) /\ HasRead
  BY DEF IInv, NextFragment
<1>. PICK n \in 0..Len(frames) : DecodedUpTo(n)
  BY <1>1 DEF IInv, InOrder
<1>2. Start = 2 * n /\ Assembling
  BY <1>1, StartFacts DEF DecodedUpTo, Assembling
<1>3. At(Start) = n + 1 /\ n + 1 \in Indices
  BY <1>1, <1>2, DecodedFacts
<1>4. CASE frames[n + 1] = "last"
  <2>. PICK slices \in Seq(Indices) : slices = Append(parts, n + 1)
    BY <1>1, <1>3, AppendedSet DEF TypeOK
  <2>. PICK cached \in BOOLEAN : cached = Cached(TRUE)
    BY <1>1 DEF Cached, TypeOK
  <2>1. Return("data", slices, cached)
    BY <1>3, <1>4 DEF NextFragment
  <2> QED
    BY <1>1, <1>2, <1>3, <1>4, <2>1, CompletedStream
<1>5. CASE frames[n + 1] # "last"
  <2>1. AwaitNext(examined')
    BY <1>3, <1>5 DEF NextFragment
  <2>2. \/ at' # "done" /\ UNCHANGED returned
        \/ at' = "done" /\ NothingMore /\ ~running
    BY <2>1, AwaitNextFacts
  <2> QED
    BY <1>1, <2>2, SilentStream, FailsStream
<1> QED
  BY <1>4, <1>5

LEMMA InterruptedStream == ASSUME IInv, Interrupted PROVE StreamStep
<1>1. TypeOK /\ MessagesWhole /\ UNCHANGED <<settings, client, running>> /\ at = "next"
      /\ Decoded(Start) /\ HasRead
  BY DEF IInv, Interrupted
<1>. PICK n \in 0..Len(frames) : DecodedUpTo(n)
  BY <1>1 DEF IInv, InOrder
<1>2. Start = 2 * n
  BY <1>1, StartFacts DEF DecodedUpTo
<1>3. At(Start) = n + 1 /\ n + 1 \in Indices
  BY <1>1, <1>2, DecodedFacts
<1>4. Type(n + 1) # "data" /\ ReturnFrame(n + 1, FALSE)
  BY <1>3 DEF Interrupted
<1> QED
  BY <1>1, <1>3, <1>4, SingleStream

LEMMA TryFrameStream == ASSUME IInv, Habits = {}, TryFrame PROVE StreamStep
<1>1. TypeOK /\ MessagesWhole /\ at = "idle" /\ ~Assembling
      /\ UNCHANGED <<settings, client, running>> /\ Advanced.pos = Upcoming
  BY TryFacts DEF TryFrame, IInv
<1>. PICK n \in 0..Len(frames) : DecodedUpTo(n)
  BY <1>1 DEF IInv, InOrder
<1>2. Advanced.pos = 2 * n
  BY <1>1 DEF DecodedUpTo
<1>3. At(Advanced.pos) = n + 1 /\ n + 1 \in Indices
  <2>1. Decoded(2 * n)
    BY <1>2 DEF TryFrame
  <2> QED
    BY <1>1, <1>2, <2>1, DecodedFacts
<1>. PICK cached \in BOOLEAN : cached = Cached(TRUE)
  BY <1>1 DEF Cached, TypeOK
<1>4. ReturnFrame(n + 1, cached)
  BY <1>3 DEF TryFrame
<1> QED
  BY <1>1, <1>3, <1>4, SingleStream

(* What the client, the server and the connection beneath do *)
LEMMA AroundStream ==
    ASSUME IInv, Receive \/ Leave \/ Stop \/ UNCHANGED vars
    PROVE  StreamStep
<1>1. UNCHANGED <<frames, returned, at>>
  BY DEF Receive, Leave, Stop, vars, settings, connection
<1>2. \/ client' = "fin" \/ ~running'
      \/ UNCHANGED <<client, running>>
  BY DEF Receive, Leave, Stop, vars
<1>3. CASE client' = "fin" \/ ~running'
  BY <1>1, <1>3 DEF StreamStep, Promise!Next, Promise!Break
<1>4. CASE UNCHANGED <<client, running>>
  BY <1>1, <1>4 DEF StreamStep, Promise!vars
<1> QED
  BY <1>2, <1>3, <1>4

(* The connection hands out what MessageStream promises, for every script and  *)
(* however it is cut into reads.                                               *)
THEOREM KeepsPromise == ASSUME Habits = {} PROVE Spec => StreamKept
<1>1. Init => Promise!Init /\ EndSeen
  BY ScriptsAssumption DEF Init, Fresh, EndSeen, Promise!Init
<1>2. IInv /\ EndSeen /\ [Next]_vars => EndSeen'
  BY EndSeenStep
<1>3. IInv /\ EndSeen /\ [Next]_vars => [Promise!Next]_(Promise!vars)
  <2> SUFFICES ASSUME IInv, EndSeen, [Next]_vars PROVE StreamStep
    BY DEF StreamStep
  <2>1. CASE Handler
    BY <2>1, CallsStream, EndsStream, PartialStream, TryFrameStream DEF Handler, TryReadFrame
  <2>2. CASE Read
    BY <2>2, EndsStream, PartialStream, FirstFrameStream, NextFragmentStream,
       InterruptedStream DEF Read
  <2>3. CASE Receive \/ Leave \/ Stop \/ UNCHANGED vars
    BY <2>3, AroundStream
  <2> QED
    BY <2>1, <2>2, <2>3 DEF Next
<1> QED
  BY <1>1, <1>2, <1>3, Invariant, PTL DEF Spec, StreamKept, Promise!Spec
=============================================================================
