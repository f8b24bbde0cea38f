------------------------ MODULE RequestFramingProofs ------------------------
(***************************************************************************)
(* Both framings implement BodyReader, for bodies of every length, any     *)
(* number of chunks of any sizes, buffers of every size and every way the  *)
(* stream is cut into reads.                                               *)
(***************************************************************************)
EXTENDS RequestFraming, PipeReaderProofs, SequenceTheorems, WellFoundedInduction, TLAPS

(* BodyReader has runs of its own. *)
LEMMA SameRun == \A a, b : Promise!Run(a, b) = Run(a, b)
<1> QED
  BY DEF Promise!Run, Run

(* What a step of a framing must be for BodyReader *)
PromiseStep == Promise!Next \/ UNCHANGED Promise!vars

(* A step that leaves the body, the client and what was received alone does *)
(* not spoil the body.                                                      *)
LEMMA SameFlaw ==
    ASSUME UNCHANGED environment, reader'.end = reader.end
    PROVE  body' = body /\ client' = client /\ body.size' = body.size /\ Flawed' = Flawed
<1> QED
  BY DEF environment, Flawed

GivenUp == {"skipped", "given up"}

(***************************************************************************)
(* The body of a known length                                              *)
(***************************************************************************)
(* The last unit handed out, when they were handed out from the first on *)
LEMMA LastOfRun ==
    ASSUME got \in Seq(Nat), got = Run(1, Len(got))
    PROVE  Promise!Last = Len(got)
<1>1. CASE got = <<>>
  BY <1>1 DEF Promise!Last
<1>2. CASE got # <<>>
  <2> DEFINE n == Len(got)
  <2>1. n \in Nat \ {0}
    BY <1>2
  <2>2. 1 \in Nat \ {0} /\ 1 <= n + 1 /\ n \in 1..n + 1 - 1 /\ 1 + n - 1 = n
    BY <2>1
  <2>3. \A i \in 1..n + 1 - 1 : Run(1, n)[i] = 1 + i - 1
    BY <2>1, <2>2, RunFacts
  <2>4. Run(1, n)[n] = n
    BY <2>2, <2>3
  <2>5. got[n] = n
    BY <2>4
  <2> QED
    BY <1>2, <2>5 DEF Promise!Last
<1> QED
  BY <1>1, <1>2

(* Where the reader is: the units in front of it are those that were read   *)
(* or skipped, except for a view, which is still behind it.                *)
Accounted ==
    /\ reader.pos <= reader.end
    /\ heldEnd = 0 => reader.pos + remaining = body.end
    /\ heldEnd # 0 => heldEnd = body.end /\ heldEnd <= reader.end /\ remaining = 0

(* What was handed out is a front of the body, and until the consumer skips *)
(* it is all of the body that is not remaining.                            *)
FromTheFront ==
    /\ got = Run(1, Len(got))
    /\ Len(got) + remaining <= body.size
    /\ call # "skip" /\ result \notin GivenUp => Len(got) + remaining = body.size

(* A call that waits has no result, and the end of the stream is the client's. *)
LengthInStep ==
    /\ call # "no" => result = "none"
    /\ reader.eof => client = "fin"
    /\ result = "skipped" => heldEnd = 0 /\ remaining = 0

LengthInv == LengthOK /\ Accounted /\ FromTheFront /\ LengthInStep

LEMMA BodyFacts ==
    ASSUME LengthAssumption, body \in LengthBodies
    PROVE  body.size \in Nat /\ body.end = body.size /\ body.corrupt = FALSE
<1> QED
  BY DEF LengthAssumption

(* What the invariant says about a call that does not find the body exhausted *)
LEMMA Reading ==
    ASSUME LengthAssumption, LengthInv, remaining > 0
    PROVE  /\ body.size \in Nat /\ body.end = body.size /\ body.corrupt = FALSE
           /\ reader \in Reader /\ reader.pos \in Nat /\ reader.end \in Nat
           /\ remaining \in Nat \ {0} /\ Available(reader) \in Nat
           /\ heldEnd = 0 /\ reader.pos + remaining = body.size
           /\ reader.pos + Available(reader) = reader.end
<1>1. body.size \in Nat /\ body.end = body.size /\ body.corrupt = FALSE
  BY BodyFacts DEF LengthInv, LengthOK, ConsumerOK
<1>2. reader \in Reader /\ reader.pos \in Nat /\ reader.end \in Nat
  BY DEF LengthInv, LengthOK, ConsumerOK, Reader
<1>3. remaining \in Nat \ {0}
  BY <1>1 DEF LengthInv, LengthOK
<1>4. heldEnd = 0 /\ reader.pos + remaining = body.size
  BY <1>1, <1>3 DEF LengthInv, Accounted
<1>5. Available(reader) \in Nat /\ reader.pos + Available(reader) = reader.end
  BY <1>2 DEF LengthInv, Accounted, Available
<1> QED
  BY <1>1, <1>2, <1>3, <1>4, <1>5

(* Units from the reader's position on continue what was handed out. *)
LEMMA Continues ==
    ASSUME LengthAssumption, LengthInv, call \in {"some", "all"},
           NEW n \in 1..remaining, got' = got \o Ahead(n)
    PROVE  /\ got' = Run(1, Len(got'))
           /\ Len(got') = Len(got) + n
           /\ got' \in Seq(1..body.size)
           /\ Promise!Last = reader.pos
           /\ got' = got \o Promise!Run(Promise!Last + 1, Promise!Last + n)
<1>1. remaining > 0 /\ n \in Nat \ {0} /\ n <= remaining
  <2>1. body.size \in Nat
    BY BodyFacts DEF LengthInv, LengthOK, ConsumerOK
  <2>2. remaining \in Nat
    BY <2>1 DEF LengthInv, LengthOK
  <2> QED
    BY <2>2
<1>2. /\ body.size \in Nat /\ reader.pos \in Nat /\ remaining \in Nat
      /\ reader.pos + remaining = body.size
  BY <1>1, Reading
<1>3. got \in Seq(1..body.size) /\ got = Run(1, Len(got)) /\ Len(got) = reader.pos
  <2>1. got \in Seq(1..body.size) /\ got = Run(1, Len(got))
    BY DEF LengthInv, LengthOK, ConsumerOK, FromTheFront
  <2>2. result \notin GivenUp
    BY DEF LengthInv, LengthInStep, GivenUp
  <2>3. Len(got) + remaining = body.size
    BY <2>2 DEF LengthInv, FromTheFront
  <2>4. Len(got) \in Nat
    BY <2>1
  <2> QED
    BY <1>2, <2>1, <2>3, <2>4
<1>4. Ahead(n) = Run(reader.pos + 1, reader.pos + n)
  BY DEF Ahead
<1>5. reader.pos + n \in Nat /\ reader.pos <= reader.pos + n /\ reader.pos + n <= body.size
  BY <1>1, <1>2
<1>6. got' = Run(1, reader.pos + n)
  <2>1. 1 \in Nat \ {0} /\ 1 <= reader.pos + 1
    BY <1>2
  <2>2. Run(1, reader.pos) \o Run(reader.pos + 1, reader.pos + n) = Run(1, reader.pos + n)
    BY <1>2, <1>5, <2>1, RunJoin
  <2> QED
    BY <1>3, <1>4, <2>2
<1>7. got' \in Seq(1..body.size) /\ Len(got') = reader.pos + n
  <2>1. 1 \in Nat \ {0} /\ 1 <= reader.pos + n + 1 /\ reader.pos + n + 1 - 1 = reader.pos + n
    BY <1>5
  <2>2. /\ Len(Run(1, reader.pos + n)) = reader.pos + n + 1 - 1
        /\ Run(1, reader.pos + n) \in Seq(1..body.size)
    BY <1>2, <1>5, <2>1, RunFacts
  <2> QED
    BY <1>6, <2>1, <2>2
<1>8. Promise!Last = reader.pos
  <2>1. got \in Seq(Nat)
    BY <1>2, <1>3
  <2> QED
    BY <1>3, <2>1, LastOfRun
<1> QED
  BY <1>3, <1>4, <1>6, <1>7, <1>8, SameRun

(* Nothing of a call that only waits or only gives a view up is handed out. *)
LEMMA NothingAdded ==
    ASSUME LengthInv, got' = got \o <<>> PROVE got' = got
<1>1. got \in Seq(1..body.size)
  BY DEF LengthInv, LengthOK, ConsumerOK
<1> QED
  BY <1>1, ConcatEmptySeq, Zenon

LEMMA LengthConsumerSteps ==
    ASSUME LengthAssumption, FramingAssumption, LengthInv, LengthConsumer
    PROVE  LengthInv' /\ PromiseStep
<1> PICK how \in Calls : Call(how)
  BY DEF LengthConsumer, lengthState
<1>1. /\ call = "no" /\ result \notin GivenUp
      /\ call' = how /\ room' \in Rooms /\ result' = "none"
      /\ UNCHANGED <<body, client, reader, failed, got, remaining, heldEnd>>
  BY DEF Call, LengthConsumer, GivenUp, lengthState
<1>2. LengthOK'
  BY <1>1 DEF LengthInv, LengthOK, ConsumerOK, Calls
<1>3. Accounted' /\ FromTheFront' /\ LengthInStep'
  BY <1>1 DEF LengthInv, Accounted, FromTheFront, LengthInStep, GivenUp
<1>4. Promise!Call(how)
  <2>1. Flawed' = Flawed
    BY <1>1 DEF Flawed
  <2> QED
    BY <1>1, <2>1 DEF Promise!Call, GivenUp
<1> QED
  BY <1>2, <1>3, <1>4 DEF LengthInv, PromiseStep, Promise!Next, Calls

LEMMA NothingLeftSteps ==
    ASSUME LengthAssumption, LengthInv, NothingLeft
    PROVE  LengthInv' /\ PromiseStep
<1>1. /\ call \in {"some", "all"} /\ remaining = 0
      /\ call' = "no" /\ result' = "end" /\ got' = got /\ failed' = failed
      /\ UNCHANGED <<room, body, client, reader, remaining, heldEnd>>
  <2>1. got' = got \o <<>>
    BY DEF NothingLeft, Return
  <2>2. failed' = failed
    BY DEF NothingLeft, Return, LengthInv, LengthOK, ConsumerOK
  <2> QED
    BY <2>1, <2>2, NothingAdded DEF NothingLeft, Return, environment
<1>2. LengthOK'
  BY <1>1 DEF LengthInv, LengthOK, ConsumerOK
<1>3. result \notin GivenUp /\ result' \notin GivenUp
  BY <1>1 DEF LengthInv, LengthInStep, GivenUp
<1>4. Accounted' /\ FromTheFront' /\ LengthInStep'
  BY <1>1, <1>3 DEF LengthInv, Accounted, FromTheFront, LengthInStep
<1>5. /\ body.size \in Nat /\ got \in Seq(1..body.size)
      /\ Len(got) \in Nat /\ Len(got) = body.size
  <2>1. body.size \in Nat /\ got \in Seq(1..body.size) /\ Len(got) \in Nat
    <3>1. body.size \in Nat
      BY BodyFacts DEF LengthInv, LengthOK, ConsumerOK
    <3>2. got \in Seq(1..body.size)
      BY DEF LengthInv, LengthOK, ConsumerOK
    <3> QED
      BY <3>1, <3>2
  <2>2. Len(got) + remaining = body.size
    BY <1>1, <1>3 DEF LengthInv, FromTheFront
  <2> QED
    BY <1>1, <2>1, <2>2
<1>6. Promise!Last = body.size
  <2>1. got \in Seq(Nat) /\ got = Run(1, Len(got))
    BY <1>5 DEF LengthInv, FromTheFront
  <2> QED
    BY <1>5, <2>1, LastOfRun
<1>7. Flawed' = Flawed /\ body.size' = body.size
  BY <1>1 DEF Flawed
<1>8. CASE call = "some"
  <2>1. Promise!AtEnd
    BY <1>1, <1>6, <1>7, <1>8 DEF Promise!AtEnd, Promise!Return
  <2> QED
    BY <1>2, <1>4, <2>1 DEF LengthInv, PromiseStep, Promise!Next
<1>9. CASE call = "all"
  <2>1. got' = got \o Promise!Run(body.size + 1, body.size)
    <3>1. Promise!Run(body.size + 1, body.size) = <<>>
      BY <1>5, EmptyRun, SameRun
    <3>2. got \o <<>> = got
      BY <1>5, ConcatEmptySeq, Zenon
    <3> QED
      BY <1>1, <3>1, <3>2
  <2>2. body.size + 1 \in Promise!Last + 1..body.size + 1
    BY <1>5, <1>6
  <2>3. Promise!HandOutRest
    BY <1>1, <1>6, <1>7, <1>9, <2>1, <2>2 DEF Promise!HandOutRest, Promise!Return
  <2> QED
    BY <1>2, <1>4, <2>3 DEF LengthInv, PromiseStep, Promise!Next
<1> QED
  BY <1>1, <1>8, <1>9

LEMMA ReadSteps ==
    ASSUME LengthAssumption, FramingAssumption, LengthInv, ReadAsync
    PROVE  LengthInv' /\ PromiseStep
<1> DEFINE count == Least(Least(room, remaining), Available(reader))
<1>1. /\ call = "some" /\ remaining > 0 /\ Available(reader) > 0
      /\ reader' = Consume(reader, reader.pos + count)
      /\ remaining' = remaining - count
      /\ call' = "no" /\ result' = "data" /\ got' = got \o Ahead(count)
      /\ UNCHANGED <<room, body, client, heldEnd>>
  BY DEF ReadAsync, Return, environment
<1>2. failed' = failed
  BY DEF ReadAsync, Return, LengthInv, LengthOK, ConsumerOK
<1>3. /\ body.size \in Nat /\ body.end = body.size
      /\ reader \in Reader /\ reader.pos \in Nat /\ reader.end \in Nat
      /\ remaining \in Nat \ {0} /\ Available(reader) \in Nat
      /\ heldEnd = 0 /\ reader.pos + remaining = body.size
      /\ reader.pos + Available(reader) = reader.end
  BY <1>1, Reading
<1>4. count \in 1..remaining /\ count <= Available(reader) /\ count \in Nat
  <2>1. room \in Nat \ {0}
    BY DEF FramingAssumption, LengthInv, LengthOK, ConsumerOK
  <2> QED
    BY <1>1, <1>3, <2>1 DEF Least
<1>5. /\ got' = Run(1, Len(got')) /\ Len(got') = Len(got) + count
      /\ got' \in Seq(1..body.size) /\ Promise!Last = reader.pos
      /\ got' = got \o Promise!Run(Promise!Last + 1, Promise!Last + count)
  BY <1>1, <1>4, Continues
<1> HIDE DEF count
<1>6. /\ reader' \in Reader /\ reader'.pos = reader.pos + count
      /\ reader'.end = reader.end /\ reader'.eof = reader.eof
  <2>1. reader.pos + count \in Nat
    BY <1>3, <1>4
  <2> QED
    BY <1>1, <1>3, <2>1, ReaderFacts, EofFacts
<1>7. LengthOK'
  <2>1. remaining - count \in 0..body.size
    BY <1>3, <1>4
  <2> QED
    BY <1>1, <1>2, <1>5, <1>6, <2>1 DEF LengthInv, LengthOK, ConsumerOK
<1>8. Accounted'
  BY <1>1, <1>3, <1>4, <1>6 DEF Accounted
<1>9. FromTheFront' /\ LengthInStep'
  <2>1. result \notin GivenUp
    BY <1>1 DEF LengthInv, LengthInStep, GivenUp
  <2>2. Len(got) + remaining = body.size /\ Len(got) \in Nat
    <3>1. got \in Seq(1..body.size)
      BY DEF LengthInv, LengthOK, ConsumerOK
    <3> QED
      BY <1>1, <2>1, <3>1 DEF LengthInv, FromTheFront
  <2>3. Len(got') + remaining' = body.size
    BY <1>1, <1>3, <1>4, <1>5, <2>2
  <2>4. FromTheFront'
    <3>1. Len(got') + remaining' <= body'.size /\ Len(got') + remaining' = body'.size
      BY <1>1, <1>3, <2>3
    <3>2. got' = Run(1, Len(got'))
      BY <1>5
    <3> QED
      BY <3>1, <3>2, Zenon DEF FromTheFront
  <2> QED
    BY <1>1, <1>6, <2>4 DEF LengthInv, LengthInStep
<1>10. Promise!HandOut
  <2>1. Flawed' = Flawed /\ body.size' = body.size
    BY <1>1, <1>6 DEF Flawed
  <2>2. /\ Promise!Last + 1 \in Promise!Last + 1..body.size
        /\ Promise!Last + count \in Promise!Last + 1..body.size
    <3>1. Promise!Last = reader.pos
      BY <1>5
    <3>2. /\ reader.pos + 1 \in reader.pos + 1..body.size
          /\ reader.pos + count \in reader.pos + 1..body.size
      BY <1>3, <1>4
    <3> QED
      BY <3>1, <3>2
  <2> QED
    BY <1>1, <1>2, <1>5, <2>1, <2>2 DEF Promise!HandOut, Promise!Return
<1> QED
  BY <1>7, <1>8, <1>9, <1>10 DEF LengthInv, PromiseStep, Promise!Next

LEMMA ReadRemainingSteps ==
    ASSUME LengthAssumption, LengthInv, ReadRemainingAsync
    PROVE  LengthInv' /\ PromiseStep
<1>1. /\ call = "all" /\ remaining > 0 /\ Available(reader) >= remaining
      /\ remaining' = 0
      /\ call' = "no" /\ result' = "end" /\ got' = got \o Ahead(remaining)
      /\ UNCHANGED <<room, body, client>>
  BY DEF ReadRemainingAsync, Return, environment
<1>2. failed' = failed
  BY DEF ReadRemainingAsync, Return, LengthInv, LengthOK, ConsumerOK
<1>3. /\ body.size \in Nat /\ body.end = body.size
      /\ reader \in Reader /\ reader.pos \in Nat /\ reader.end \in Nat
      /\ remaining \in Nat \ {0} /\ Available(reader) \in Nat
      /\ heldEnd = 0 /\ reader.pos + remaining = body.size
      /\ reader.pos + Available(reader) = reader.end
  BY <1>1, Reading
<1>4. /\ got' = Run(1, Len(got')) /\ Len(got') = Len(got) + remaining
      /\ got' \in Seq(1..body.size) /\ Promise!Last = reader.pos
      /\ got' = got \o Promise!Run(Promise!Last + 1, Promise!Last + remaining)
  <2>1. remaining \in 1..remaining
    BY <1>3
  <2> QED
    BY <1>1, <2>1, Continues
<1>5. \/ heldEnd' = body.size /\ reader' = Unadvanced(reader)
      \/ heldEnd' = 0 /\ reader' = Consume(reader, body.size)
  BY <1>3 DEF ReadRemainingAsync, HoldView
<1>6. /\ reader' \in Reader /\ reader'.end = reader.end /\ reader'.eof = reader.eof
      /\ \/ heldEnd' = body.size /\ reader'.pos = reader.pos
         \/ heldEnd' = 0 /\ reader'.pos = body.size
  <2>1. /\ Consume(reader, body.size) \in Reader
        /\ Consume(reader, body.size).pos = body.size
        /\ Consume(reader, body.size).end = reader.end
        /\ Consume(reader, body.size).eof = reader.eof
    BY <1>3, ReaderFacts, EofFacts
  <2>2. /\ Unadvanced(reader) \in Reader /\ Unadvanced(reader).pos = reader.pos
        /\ Unadvanced(reader).end = reader.end /\ Unadvanced(reader).eof = reader.eof
    BY <1>3, UnadvancedFacts
  <2> QED
    BY <1>3, <1>5, <2>1, <2>2
<1>7. LengthOK'
  <2>1. heldEnd' \in 0..body.end /\ remaining' \in 0..body.size
    BY <1>1, <1>3, <1>6
  <2> QED
    BY <1>1, <1>2, <1>4, <1>6, <2>1 DEF LengthInv, LengthOK, ConsumerOK
<1>8. Accounted'
  <2>1. body'.end = body.size /\ remaining' = 0 /\ body.size <= reader.end /\ body.size # 0
    BY <1>1, <1>3
  <2>2. reader'.pos <= reader'.end
    BY <1>3, <1>6, <2>1
  <2>3. heldEnd' = 0 => reader'.pos + remaining' = body'.end
    BY <1>3, <1>6, <2>1
  <2>4. heldEnd' # 0 => heldEnd' = body'.end /\ heldEnd' <= reader'.end /\ remaining' = 0
    BY <1>6, <2>1
  <2> QED
    BY <2>2, <2>3, <2>4 DEF Accounted
<1>9. FromTheFront' /\ LengthInStep'
  <2>1. Len(got') = body.size
    <3>1. result \notin GivenUp
      BY <1>1 DEF LengthInv, LengthInStep, GivenUp
    <3>2. Len(got) + remaining = body.size
      BY <1>1, <3>1 DEF LengthInv, FromTheFront
    <3> QED
      BY <1>4, <3>2
  <2>2. Len(got') + remaining' <= body'.size /\ Len(got') + remaining' = body'.size
    BY <1>1, <1>3, <2>1
  <2>3. got' = Run(1, Len(got'))
    BY <1>4
  <2>4. FromTheFront'
    BY <2>2, <2>3, Zenon DEF FromTheFront
  <2> QED
    BY <1>1, <1>6, <2>4 DEF LengthInv, LengthInStep
<1>10. Promise!HandOutRest
  <2>1. Flawed' = Flawed /\ body.size' = body.size
    BY <1>1, <1>6 DEF Flawed
  <2>2. Promise!Last + 1 \in Promise!Last + 1..body.size + 1 /\ Promise!Last + remaining = body.size
    <3>1. reader.pos + 1 \in reader.pos + 1..body.size + 1
      BY <1>3
    <3> QED
      BY <1>3, <1>4, <3>1
  <2>3. got' = got \o Promise!Run(Promise!Last + 1, body.size)
    BY <1>4, <2>2
  <2> QED
    BY <1>1, <1>2, <2>1, <2>2, <2>3 DEF Promise!HandOutRest, Promise!Return
<1> QED
  BY <1>7, <1>8, <1>9, <1>10 DEF LengthInv, PromiseStep, Promise!Next

(* A read waits, or fails because the client has left in front of the end.  *)
LEMMA AwaitSteps ==
    ASSUME LengthAssumption, LengthInv, AwaitMore
    PROVE  LengthInv' /\ PromiseStep
<1>1. /\ call \in {"some", "all"} /\ remaining > 0
      /\ Available(reader) < (IF call = "some" THEN 1 ELSE remaining)
      /\ reader' = ExamineAll(reader)
      /\ UNCHANGED <<body, client, remaining, heldEnd>>
      /\ IF reader.eof THEN Return("failed", <<>>) ELSE UNCHANGED consumer
  BY DEF AwaitMore, environment, ExamineEverything, StreamEnded
<1>2. /\ body.size \in Nat /\ body.end = body.size
      /\ reader \in Reader /\ reader.pos \in Nat /\ reader.end \in Nat
      /\ remaining \in Nat \ {0} /\ Available(reader) \in Nat
      /\ heldEnd = 0 /\ reader.pos + remaining = body.size
      /\ reader.pos + Available(reader) = reader.end
  BY <1>1, Reading
<1>3. /\ reader' \in Reader /\ reader'.pos = reader.pos
      /\ reader'.end = reader.end /\ reader'.eof = reader.eof
  BY <1>1, <1>2, ReaderFacts, EofFacts
<1>4. Flawed' = Flawed /\ body.size' = body.size
  BY <1>1, <1>3 DEF Flawed
<1>5. got' = got
  <2>1. CASE reader.eof
    BY <1>1, <2>1, NothingAdded DEF Return
  <2>2. CASE ~reader.eof
    BY <1>1, <2>2 DEF consumer
  <2> QED
    BY <2>1, <2>2
<1>6. Accounted'
  BY <1>1, <1>2, <1>3 DEF LengthInv, Accounted
<1>7. CASE reader.eof
  <2>1. call' = "no" /\ result' = "failed" /\ failed' = TRUE /\ room' = room
    BY <1>1, <1>7 DEF Return
  <2>2. LengthOK'
    BY <1>1, <1>3, <1>5, <2>1 DEF LengthInv, LengthOK, ConsumerOK
  <2>3. FromTheFront'
    BY <1>1, <1>5, <2>1 DEF LengthInv, FromTheFront, LengthInStep, GivenUp
  <2>4. LengthInStep'
    BY <1>1, <1>3, <2>1 DEF LengthInv, LengthInStep
  <2>5. Flawed
    <3>1. client = "fin"
      BY <1>7 DEF LengthInv, LengthInStep
    <3>2. reader.end < body.end
      BY <1>1, <1>2
    <3> QED
      BY <3>1, <3>2 DEF Flawed
  <2>6. Promise!Fail
    BY <1>1, <1>4, <1>5, <2>1, <2>5 DEF Promise!Fail, Promise!Return
  <2> QED
    BY <1>6, <2>2, <2>3, <2>4, <2>6 DEF LengthInv, PromiseStep, Promise!Next
<1>8. CASE ~reader.eof
  <2>1. UNCHANGED <<call, room, result, failed, got>>
    BY <1>1, <1>8 DEF consumer
  <2>2. LengthOK'
    BY <1>1, <1>3, <2>1 DEF LengthInv, LengthOK, ConsumerOK
  <2>3. FromTheFront' /\ LengthInStep'
    BY <1>1, <1>3, <2>1 DEF LengthInv, FromTheFront, LengthInStep
  <2>4. UNCHANGED Promise!vars
    BY <1>4, <2>1 DEF Promise!vars
  <2> QED
    BY <1>6, <2>2, <2>3, <2>4 DEF LengthInv, PromiseStep
<1> QED
  BY <1>7, <1>8

LEMMA ReleaseSteps ==
    ASSUME LengthAssumption, LengthInv, ReleaseView
    PROVE  LengthInv' /\ PromiseStep
<1>1. /\ call = "skip" /\ heldEnd # 0
      /\ reader' = Consume(reader, heldEnd) /\ heldEnd' = 0
      /\ UNCHANGED <<body, client, call, room, result, failed, got, remaining>>
  BY DEF ReleaseView, environment, consumer
<1>2. /\ body.size \in Nat /\ body.end = body.size /\ reader \in Reader
      /\ heldEnd = body.size /\ heldEnd <= reader.end /\ remaining = 0
  <2>1. body.size \in Nat /\ body.end = body.size
    BY BodyFacts DEF LengthInv, LengthOK, ConsumerOK
  <2> QED
    BY <1>1, <2>1 DEF LengthInv, LengthOK, ConsumerOK, Accounted
<1>3. /\ reader' \in Reader /\ reader'.pos = body.size
      /\ reader'.end = reader.end /\ reader'.eof = reader.eof
  BY <1>1, <1>2, ReaderFacts, EofFacts
<1>4. LengthOK'
  BY <1>1, <1>2, <1>3 DEF LengthInv, LengthOK, ConsumerOK
<1>5. Accounted' /\ FromTheFront' /\ LengthInStep'
  BY <1>1, <1>2, <1>3 DEF LengthInv, Accounted, FromTheFront, LengthInStep
<1>6. UNCHANGED Promise!vars
  BY <1>1, <1>3 DEF Promise!vars, Flawed
<1> QED
  BY <1>4, <1>5, <1>6 DEF LengthInv, PromiseStep

LEMMA SkipSteps ==
    ASSUME LengthAssumption, LengthInv, SkipRemainingAsync
    PROVE  LengthInv' /\ PromiseStep
<1> DEFINE count == Least(remaining, Available(reader))
<1> DEFINE left == remaining - count
<1>1. /\ call = "skip" /\ heldEnd = 0
      /\ remaining' = left
      /\ reader' = IF remaining > 0 THEN Consume(reader, reader.pos + count) ELSE reader
      /\ IF left = 0 THEN Return("skipped", <<>>)
         ELSE IF reader.eof THEN Return("given up", <<>>) ELSE UNCHANGED consumer
      /\ UNCHANGED <<body, client, heldEnd>>
  BY DEF SkipRemainingAsync, ReportCut, environment
<1>2. /\ body.size \in Nat /\ body.end = body.size
      /\ reader \in Reader /\ reader.pos \in Nat /\ reader.end \in Nat
      /\ remaining \in Nat /\ reader.pos + remaining = body.size
      /\ Available(reader) \in Nat /\ reader.pos + Available(reader) = reader.end
  <2>1. body.size \in Nat /\ body.end = body.size
    BY BodyFacts DEF LengthInv, LengthOK, ConsumerOK
  <2>2. reader \in Reader /\ reader.pos \in Nat /\ reader.end \in Nat
    BY DEF LengthInv, LengthOK, ConsumerOK, Reader
  <2>3. remaining \in Nat /\ reader.pos + remaining = body.size /\ reader.pos <= reader.end
    <3>1. remaining \in 0..body.size
      BY DEF LengthInv, LengthOK
    <3>2. reader.pos <= reader.end /\ reader.pos + remaining = body.end
      BY <1>1 DEF LengthInv, Accounted
    <3> QED
      BY <2>1, <3>1, <3>2
  <2> QED
    BY <2>1, <2>2, <2>3 DEF Available
<1>3. /\ count \in Nat /\ count <= remaining /\ count <= Available(reader)
      /\ left \in Nat /\ remaining = left + count
      /\ remaining = 0 => count = 0
      /\ left > 0 => count = Available(reader) /\ remaining > 0
  BY <1>2 DEF Least
<1> HIDE DEF count, left
<1>4. /\ reader' \in Reader /\ reader'.pos = reader.pos + count
      /\ reader'.end = reader.end /\ reader'.eof = reader.eof
  <2>1. CASE remaining > 0
    <3>1. reader.pos + count \in Nat
      BY <1>2, <1>3
    <3> QED
      BY <1>1, <1>2, <2>1, <3>1, ReaderFacts, EofFacts
  <2>2. CASE ~(remaining > 0)
    <3>1. count = 0
      BY <1>2, <1>3, <2>2
    <3>2. reader' = reader
      BY <1>1, <2>2
    <3> QED
      BY <1>2, <3>1, <3>2
  <2> QED
    BY <2>1, <2>2
<1>5. Flawed' = Flawed /\ body.size' = body.size
  BY <1>1, <1>4 DEF Flawed
<1>6. got' = got /\ failed' = failed /\ room' = room
  <2>1. CASE UNCHANGED consumer
    BY <2>1 DEF consumer
  <2>2. CASE Return("skipped", <<>>) \/ Return("given up", <<>>)
    <3>1. got' = got \o <<>> /\ room' = room
      BY <2>2 DEF Return
    <3>2. failed' = failed
      BY <2>2 DEF Return, LengthInv, LengthOK, ConsumerOK
    <3> QED
      BY <3>1, <3>2, NothingAdded
  <2> QED
    BY <1>1, <2>1, <2>2
<1>7. Accounted'
  <2>1. reader.pos + count <= reader.end /\ reader.pos + count + left = body.end
    BY <1>2, <1>3
  <2>2. heldEnd' = 0 /\ remaining' = left /\ body' = body
    BY <1>1
  <2> QED
    BY <1>4, <2>1, <2>2 DEF Accounted
<1>8. got' = Run(1, Len(got')) /\ Len(got') + remaining' <= body'.size
  <2>1. got \in Seq(1..body.size) /\ got = Run(1, Len(got))
    BY DEF LengthInv, LengthOK, ConsumerOK, FromTheFront
  <2>2. Len(got) \in Nat /\ Len(got) + remaining <= body.size
    BY <2>1 DEF LengthInv, FromTheFront
  <2>3. got' = Run(1, Len(got'))
    BY <1>6, <2>1
  <2>4. Len(got') + remaining' <= body'.size
    <3>1. Len(got) + left <= body.size
      BY <1>2, <1>3, <2>2
    <3> QED
      BY <1>1, <1>6, <3>1
  <2> QED
    BY <2>3, <2>4
<1>9. ASSUME \/ Return("skipped", <<>>) /\ left = 0
             \/ Return("given up", <<>>)
             \/ UNCHANGED consumer
      PROVE  LengthOK' /\ FromTheFront' /\ LengthInStep'
  <2>1. \/ call' = "no" /\ result' = "skipped" /\ remaining' = 0
        \/ call' = "no" /\ result' = "given up"
        \/ call' = "skip" /\ result' = result
    BY <1>1, <1>9 DEF Return, consumer
  <2>2. LengthOK'
    <3>1. left \in 0..body.size
      BY <1>2, <1>3
    <3> QED
      BY <1>1, <1>4, <1>6, <2>1, <3>1 DEF LengthInv, LengthOK, ConsumerOK
  <2>3. FromTheFront'
    <3>1. ~(call' # "skip" /\ result' \notin GivenUp)
      BY <2>1 DEF GivenUp
    <3> QED
      BY <1>8, <3>1, Zenon DEF FromTheFront, GivenUp
  <2>4. LengthInStep'
    BY <1>1, <1>4, <2>1 DEF LengthInv, LengthInStep
  <2> QED
    BY <2>2, <2>3, <2>4
<1>10. LengthInv'
  BY <1>1, <1>7, <1>9 DEF LengthInv
<1>11. CASE left = 0
  <2>1. Promise!Skipped
    BY <1>1, <1>5, <1>6, <1>11 DEF Return, Promise!Skipped, Promise!Return
  <2> QED
    BY <1>10, <2>1 DEF PromiseStep, Promise!Next
<1>12. CASE left # 0 /\ reader.eof
  <2>1. client = "fin"
    BY <1>12 DEF LengthInv, LengthInStep
  <2>2. reader.end < body.end
    BY <1>2, <1>3, <1>12
  <2>3. Flawed
    BY <2>1, <2>2 DEF Flawed
  <2>4. Promise!GiveUp
    BY <1>1, <1>5, <1>6, <1>12, <2>3 DEF Return, Promise!GiveUp, Promise!Return
  <2> QED
    BY <1>10, <2>4 DEF PromiseStep, Promise!Next
<1>13. CASE left # 0 /\ ~reader.eof
  <2>1. UNCHANGED Promise!vars
    BY <1>1, <1>5, <1>13 DEF consumer, Promise!vars
  <2> QED
    BY <1>10, <2>1 DEF PromiseStep
<1> QED
  BY <1>11, <1>12, <1>13

LEMMA LengthNetworkSteps ==
    ASSUME LengthAssumption, FramingAssumption, LengthInv, LengthNetwork
    PROVE  LengthInv' /\ PromiseStep
<1>1. /\ call # "no" /\ remaining > 0 /\ ~reader.eof
      /\ \/ client = "open" /\ \E upTo \in reader.end + 1..Ended : reader' = Pull(reader, upTo)
         \/ client = "fin" /\ reader' = PullEnd(reader)
      /\ UNCHANGED <<body, client, call, room, result, failed, got, remaining, heldEnd>>
  BY DEF LengthNetwork, Receive, LengthAwaited, Readable, environment, consumer, lengthState
<1>2. /\ body.size \in Nat /\ body.end = body.size /\ body.corrupt = FALSE
      /\ reader \in Reader /\ reader.pos \in Nat /\ reader.end \in Nat
      /\ heldEnd = 0
  BY <1>1, Reading
<1>3. /\ reader' \in Reader /\ reader'.pos = reader.pos /\ reader'.pos <= reader'.end
      /\ reader'.eof => client = "fin"
      /\ client = "fin" => reader'.end = reader.end
  <2>1. reader.pos <= reader.end
    BY DEF LengthInv, Accounted
  <2>2. CASE client = "open"
    <3>1. Ended \in Nat
      BY <1>2 DEF FramingAssumption, Ended
    <3>2. PICK upTo \in reader.end + 1..Ended : reader' = Pull(reader, upTo)
      BY <1>1, <2>2
    <3>3. upTo \in Nat /\ reader.end < upTo
      BY <1>2, <3>1
    <3>4. /\ reader' \in Reader /\ reader'.pos = reader.pos
          /\ reader'.end = upTo /\ reader'.eof = reader.eof
      <4>1. /\ Pull(reader, upTo) \in Reader /\ Pull(reader, upTo).pos = reader.pos
            /\ Pull(reader, upTo).end = upTo /\ Pull(reader, upTo).eof = reader.eof
        <5>1. reader \in Reader /\ upTo \in Nat
          BY <1>2, <3>3
        <5> QED
          BY <5>1, ReaderFacts, EofFacts
      <4> QED
        BY <3>2, <4>1
    <3> QED
      BY <1>1, <1>2, <2>1, <2>2, <3>3, <3>4
  <2>3. CASE client = "fin"
    <3>1. reader' \in Reader /\ reader'.pos = reader.pos /\ reader'.end = reader.end
      BY <1>1, <1>2, <2>3, ReaderFacts
    <3> QED
      BY <2>1, <2>3, <3>1
  <2> QED
    BY <1>1, <2>2, <2>3
<1>4. LengthOK'
  BY <1>1, <1>3 DEF LengthInv, LengthOK, ConsumerOK
<1>5. Accounted' /\ FromTheFront' /\ LengthInStep'
  BY <1>1, <1>2, <1>3 DEF LengthInv, Accounted, FromTheFront, LengthInStep
<1>6. Flawed' = Flawed
  <2>1. CASE client = "fin"
    BY <1>1, <1>3, <2>1 DEF Flawed
  <2>2. CASE client # "fin"
    BY <1>1, <1>2, <2>2 DEF Flawed
  <2> QED
    BY <2>1, <2>2
<1>7. UNCHANGED Promise!vars
  BY <1>1, <1>6 DEF Promise!vars
<1> QED
  BY <1>4, <1>5, <1>7 DEF LengthInv, PromiseStep

(* The body is spoiled if the client leaves before all of it was received. *)
LEMMA LengthClientSteps ==
    ASSUME LengthAssumption, LengthInv, LengthClient
    PROVE  LengthInv' /\ PromiseStep
<1>1. /\ client = "open" /\ client' = "fin"
      /\ UNCHANGED <<body, reader, call, room, result, failed, got, remaining, heldEnd>>
  BY DEF LengthClient, Leave, consumer, lengthState
<1>2. LengthOK'
  BY <1>1 DEF LengthInv, LengthOK, ConsumerOK
<1>3. Accounted' /\ FromTheFront' /\ LengthInStep'
  BY <1>1 DEF LengthInv, Accounted, FromTheFront, LengthInStep
<1>4. ~Flawed
  BY <1>1, BodyFacts DEF Flawed, LengthInv, LengthOK, ConsumerOK
<1>5. CASE Flawed'
  <2>1. Flawed' = TRUE
    BY <1>5 DEF Flawed
  <2>2. Promise!Spoil
    BY <1>1, <2>1 DEF Promise!Spoil
  <2> QED
    BY <1>2, <1>3, <2>2 DEF LengthInv, PromiseStep, Promise!Next
<1>6. CASE ~Flawed'
  <2>1. Flawed' = Flawed
    BY <1>4, <1>6 DEF Flawed
  <2>2. UNCHANGED Promise!vars
    BY <1>1, <2>1 DEF Promise!vars
  <2> QED
    BY <1>2, <1>3, <2>2 DEF LengthInv, PromiseStep
<1> QED
  BY <1>5, <1>6

LEMMA LengthStarted ==
    ASSUME LengthAssumption, LengthInit
    PROVE  LengthInv /\ Promise!Init
<1>1. /\ body \in LengthBodies /\ client = "open" /\ reader = Fresh /\ call = "no"
      /\ room \in Rooms /\ result = "none" /\ failed = FALSE /\ got = <<>>
      /\ remaining = body.size /\ heldEnd = 0
  BY DEF LengthInit, ConsumerInit
<1>2. body.size \in Nat /\ body.end = body.size /\ body.corrupt = FALSE
  BY <1>1, BodyFacts
<1>3. reader \in Reader /\ reader.pos = 0 /\ reader.end = 0 /\ reader.eof = FALSE
  BY <1>1 DEF Fresh, Reader
<1>4. LengthOK
  <2>1. got \in Seq(1..body.size)
    BY <1>1
  <2>2. remaining \in 0..body.size /\ heldEnd \in 0..body.end
    BY <1>1, <1>2
  <2> QED
    BY <1>1, <1>3, <2>1, <2>2 DEF LengthOK, ConsumerOK
<1>5. Accounted /\ LengthInStep
  BY <1>1, <1>2, <1>3 DEF Accounted, LengthInStep
<1>6. FromTheFront
  <2>1. Len(got) = 0 /\ Run(1, 0) = <<>>
    <3>1. Run(0 + 1, 0) = <<>> /\ 0 + 1 = 1
      BY EmptyRun
    <3> QED
      BY <1>1, <3>1
  <2> QED
    BY <1>1, <1>2, <2>1 DEF FromTheFront
<1>7. Promise!Init
  BY <1>1, <1>2 DEF Promise!Init, Flawed
<1> QED
  BY <1>4, <1>5, <1>6, <1>7 DEF LengthInv

LEMMA LengthStepped ==
    ASSUME LengthAssumption, FramingAssumption, LengthInv, [LengthNext]_lengthVars
    PROVE  LengthInv' /\ PromiseStep
<1>1. CASE LengthConsumer
  BY <1>1, LengthConsumerSteps
<1>2. CASE NothingLeft
  BY <1>2, NothingLeftSteps
<1>3. CASE ReadAsync
  BY <1>3, ReadSteps
<1>4. CASE ReadRemainingAsync
  BY <1>4, ReadRemainingSteps
<1>5. CASE AwaitMore
  BY <1>5, AwaitSteps
<1>6. CASE ReleaseView
  BY <1>6, ReleaseSteps
<1>7. CASE SkipRemainingAsync
  BY <1>7, SkipSteps
<1>8. CASE LengthNetwork
  BY <1>8, LengthNetworkSteps
<1>9. CASE LengthClient
  BY <1>9, LengthClientSteps
<1>10. CASE UNCHANGED lengthVars
  <2>1. UNCHANGED <<body, client, reader, call, room, result, failed, got, remaining, heldEnd>>
    BY <1>10 DEF lengthVars, consumer, lengthState
  <2>2. LengthInv'
    BY <2>1 DEF LengthInv, LengthOK, ConsumerOK, Accounted, FromTheFront, LengthInStep
  <2>3. UNCHANGED Promise!vars
    BY <2>1 DEF Promise!vars, Flawed
  <2> QED
    BY <2>2, <2>3 DEF PromiseStep
<1> QED
  BY <1>1, <1>2, <1>3, <1>4, <1>5, <1>6, <1>7, <1>8, <1>9, <1>10 DEF LengthNext, LengthStep

(***************************************************************************)
(* The body in chunks                                                      *)
(***************************************************************************)
(* Induction over the chunks of a body, as the least counterexample *)
LEMMA LeastOf ==
    ASSUME NEW T \in SUBSET Nat, T # {}
    PROVE  \E x \in T : \A y \in T : x <= y
<1>1. PICK R : R = OpToRel(<, Nat)
  OBVIOUS
<1>2. IsWellFoundedOn(R, Nat)
  BY <1>1, NatLessThanWellFounded
<1>3. \E x \in T : \A y \in T : ~ (<<y, x>> \in R)
  BY <1>2, WFMin
<1>4. \A x \in T, y \in T : <<y, x>> \in R <=> y < x
  BY <1>1 DEF OpToRel
<1>5. PICK x \in T : \A y \in T : ~ (<<y, x>> \in R)
  BY <1>3
<1>6. ASSUME NEW y \in T PROVE x <= y
  <2>1. ~(y < x)
    BY <1>4, <1>5
  <2> QED
    BY <2>1
<1> QED
  BY <1>6

(***************************************************************************)
(* The layout of a body                                                    *)
(***************************************************************************)
LEMMA ChunkFacts ==
    ASSUME ChunkedAssumption, body \in ChunkedBodies
    PROVE  /\ MaxPosition \in Nat
           /\ Final \in Nat \ {0} /\ 1 \in 1..Final /\ Final \in 1..Final
           /\ \A i \in 1..Final :
                /\ Chunks[i].at \in Nat /\ Chunks[i].end \in Nat
                /\ Chunks[i].from \in Nat /\ Chunks[i].to \in Nat /\ Chunks[i].bad \in BOOLEAN
                /\ Chunks[i].at < Chunks[i].end
                /\ i < Final => Chunks[i].from <= Chunks[i].to
           /\ \A i \in 2..Final : /\ Chunks[i].at = Chunks[i - 1].end
                                  /\ Chunks[i].from = Chunks[i - 1].to + 1
           /\ Chunks[1].at = 0 /\ Chunks[1].from = 1
           /\ Chunks[Final].to = Chunks[Final].from - 1
           /\ body.size = Chunks[Final].to /\ body.end = Chunks[Final].end
           /\ body.corrupt = \E i \in 1..Final : Chunks[i].bad
<1>1. IsChunked(body) /\ MaxPosition \in Nat
  BY DEF ChunkedAssumption
<1>2. Chunks \in Seq(Chunk) /\ Final > 0 /\ Final \in Nat
  <2>1. Chunks \in Seq(Chunk) /\ Final > 0
    BY <1>1 DEF IsChunked, Chunks, Final
  <2> QED
    BY <2>1 DEF Final
<1>3. \A i \in 1..Final : Chunks[i] \in Chunk
  BY <1>2 DEF Final
<1>4. \A i \in 1..Final : /\ Chunks[i].at \in Nat /\ Chunks[i].end \in Nat
                          /\ Chunks[i].from \in Nat /\ Chunks[i].to \in Nat
                          /\ Chunks[i].bad \in BOOLEAN
  BY <1>3 DEF Chunk
<1>5. \A i \in 1..Final : /\ Chunks[i].end > Chunks[i].at
                          /\ i < Final => Chunks[i].to >= Chunks[i].from
  BY <1>1 DEF IsChunked, Chunks, Final
<1>6. /\ \A i \in 2..Final : /\ Chunks[i].at = Chunks[i - 1].end
                             /\ Chunks[i].from = Chunks[i - 1].to + 1
      /\ Chunks[1].at = 0 /\ Chunks[1].from = 1
      /\ Chunks[Final].to = Chunks[Final].from - 1
      /\ body.size = Chunks[Final].to /\ body.end = Chunks[Final].end
      /\ body.corrupt = \E i \in 1..Final : Chunks[i].bad
  BY <1>1 DEF IsChunked, Chunks, Final
<1>7. Final \in Nat \ {0} /\ 1 \in 1..Final /\ Final \in 1..Final
  BY <1>2
<1>8. \A i \in 1..Final : /\ Chunks[i].at < Chunks[i].end
                          /\ i < Final => Chunks[i].from <= Chunks[i].to
  BY <1>4, <1>5
<1> QED
  BY <1>1, <1>4, <1>6, <1>7, <1>8

(* A chunk ends in front of all later ones, and so do the units in it. *)
LEMMA ChunksOrdered ==
    ASSUME ChunkedAssumption, body \in ChunkedBodies, NEW i \in 1..Final, NEW j \in 1..Final, i < j
    PROVE  Chunks[i].end <= Chunks[j].at /\ Chunks[i].to < Chunks[j].from
<1> DEFINE Behind(k) == Chunks[i].end <= Chunks[k].at /\ Chunks[i].to < Chunks[k].from
<1> DEFINE T == {k \in i + 1..Final : ~Behind(k)}
<1>0. Final \in Nat /\ i \in Nat
  BY ChunkFacts
<1>1. T = {}
  <2> SUFFICES ASSUME T # {} PROVE FALSE
    OBVIOUS
  <2>1. T \in SUBSET Nat
    BY <1>0
  <2> HIDE DEF T
  <2>2. PICK k \in T : \A y \in T : k <= y
    BY <2>1, LeastOf
  <2>3. k \in i + 1..Final /\ ~Behind(k)
    BY DEF T
  <2> HIDE DEF Behind
  <2>4. k \in 2..Final /\ k - 1 \in 1..Final /\ (k - 1 = i \/ k - 1 \in i + 1..Final)
    BY <1>0, <2>3
  <2>5. Chunks[k].at = Chunks[k - 1].end /\ Chunks[k].from = Chunks[k - 1].to + 1
    BY <2>4, ChunkFacts
  <2>6. /\ Chunks[i].end \in Nat /\ Chunks[i].to \in Nat
        /\ Chunks[k - 1].end \in Nat /\ Chunks[k - 1].to \in Nat
        /\ Chunks[k - 1].at \in Nat /\ Chunks[k - 1].from \in Nat
        /\ Chunks[k - 1].at < Chunks[k - 1].end
        /\ Chunks[k - 1].from <= Chunks[k - 1].to
    <3>1. k - 1 < Final
      BY <1>0, <2>3
    <3> QED
      BY <2>4, <3>1, ChunkFacts
  <2>7. CASE k - 1 = i
    BY <2>3, <2>5, <2>6, <2>7 DEF Behind
  <2>8. CASE k - 1 \in i + 1..Final
    <3>1. k - 1 \notin T
      BY <1>0, <2>2, <2>3
    <3>2. Behind(k - 1)
      BY <2>8, <3>1 DEF T
    <3> QED
      BY <2>3, <2>5, <2>6, <3>2 DEF Behind
  <2> QED
    BY <2>4, <2>7, <2>8
<1>2. j \in i + 1..Final
  BY <1>0
<1> QED
  BY <1>1, <1>2

(* Every chunk lies in the body. *)
LEMMA InBody ==
    ASSUME ChunkedAssumption, body \in ChunkedBodies, NEW i \in 1..Final
    PROVE  /\ Chunks[i].end <= body.end
           /\ Chunks[i].from \in Nat \ {0} /\ Chunks[i].from <= body.size + 1
           /\ Chunks[i].to <= body.size
           /\ i < Final => Chunks[i].from <= Chunks[i].to /\ Chunks[i].end < body.end
<1> DEFINE n == Final
<1>1. /\ n \in Nat \ {0} /\ 1 \in 1..n /\ n \in 1..n
      /\ Chunks[n].at \in Nat /\ Chunks[n].end \in Nat /\ Chunks[n].at < Chunks[n].end
      /\ Chunks[n].from \in Nat /\ Chunks[n].to \in Nat
      /\ Chunks[n].to = Chunks[n].from - 1
      /\ body.size = Chunks[n].to /\ body.end = Chunks[n].end
      /\ Chunks[1].from = 1 /\ Chunks[1].to \in Nat
      /\ 1 < n => Chunks[1].from <= Chunks[1].to
  BY ChunkFacts
<1>2. /\ Chunks[i].end \in Nat /\ Chunks[i].from \in Nat /\ Chunks[i].to \in Nat
      /\ i < n => Chunks[i].from <= Chunks[i].to
  BY ChunkFacts
<1>3. i < n => Chunks[i].end <= Chunks[n].at /\ Chunks[i].to < Chunks[n].from
  BY <1>1, ChunksOrdered
<1>4. 1 < i => Chunks[1].to < Chunks[i].from
  BY <1>1, ChunksOrdered
<1> HIDE DEF n
<1>5. i = n \/ i < n
  BY <1>1 DEF n
<1>6. i = 1 \/ 1 < i
  BY <1>1 DEF n
<1>7. Chunks[i].from \in Nat \ {0}
  BY <1>1, <1>2, <1>4, <1>6
<1> QED
  BY <1>1, <1>2, <1>3, <1>5, <1>7 DEF n

(* At the first unit of a chunk there is no other. *)
LEMMA AtOne ==
    ASSUME ChunkedAssumption, body \in ChunkedBodies, NEW i \in 1..Final
    PROVE  At(Chunks[i].at) = {i} /\ ChunkAt(Chunks[i].at) = Chunks[i]
<1>1. ASSUME NEW j \in 1..Final, Chunks[j].at = Chunks[i].at PROVE j = i
  <2>1. /\ Chunks[i].at \in Nat /\ Chunks[i].end \in Nat /\ Chunks[i].at < Chunks[i].end
        /\ Chunks[j].at \in Nat /\ Chunks[j].end \in Nat /\ Chunks[j].at < Chunks[j].end
    BY ChunkFacts
  <2>2. i < j => Chunks[i].end <= Chunks[j].at
    BY ChunksOrdered
  <2>3. j < i => Chunks[j].end <= Chunks[i].at
    BY ChunksOrdered
  <2>4. i < j \/ j < i \/ i = j
    OBVIOUS
  <2> QED
    BY <1>1, <2>1, <2>2, <2>3, <2>4
<1>2. At(Chunks[i].at) = {i}
  BY <1>1 DEF At
<1> QED
  BY <1>2 DEF ChunkAt

(* What the parser says of the chunk it is at *)
LEMMA StatusFacts ==
    ASSUME ChunkedAssumption, body \in ChunkedBodies, NEW i \in 1..Final, NEW end \in Nat
    PROVE  LET status == Status(Chunks[i].at, end)
           IN  /\ status \in {"need more data", "malformed", "completed", "chunk"}
               /\ status = "malformed" => body.corrupt
               /\ status = "need more data" => end < Chunks[i].end
               /\ status = "completed" => i = Final /\ Chunks[i].end <= end
               /\ status = "chunk" => i < Final /\ Chunks[i].end <= end
<1> DEFINE c == Chunks[i]
<1> DEFINE status == Status(c.at, end)
<1>1. At(c.at) = {i}
  BY AtOne
<1>2. c.at \in Nat /\ c.end \in Nat /\ c.at < c.end /\ Final \in Nat /\ c.bad \in BOOLEAN
  BY ChunkFacts
<1>3. status = IF end = c.at THEN "need more data"
               ELSE IF c.bad THEN "malformed"
               ELSE IF c.end > end THEN "need more data"
               ELSE IF i = Final THEN "completed" ELSE "chunk"
  BY <1>1 DEF Status
<1>4. body.corrupt = \E k \in 1..Final : Chunks[k].bad
  BY ChunkFacts
<1>5. c.bad => body.corrupt
  BY <1>4
<1> HIDE DEF c, status
<1>6. /\ status \in {"need more data", "malformed", "completed", "chunk"}
      /\ status = "malformed" => c.bad
      /\ status = "need more data" => end < c.end
      /\ status = "completed" => i = Final /\ c.end <= end
      /\ status = "chunk" => i # Final /\ c.end <= end
  <2>1. CASE end = c.at \/ (~c.bad /\ c.end > end)
    <3>1. ~c.bad \/ end = c.at
      BY <2>1
    <3>2. status = "need more data"
      BY <1>3, <2>1, <3>1, Zenon
    <3> QED
      BY <1>2, <2>1, <3>2
  <2>2. CASE end # c.at /\ c.bad
    BY <1>3, <2>2
  <2>3. CASE end # c.at /\ ~c.bad /\ ~(c.end > end)
    <3>1. status = IF i = Final THEN "completed" ELSE "chunk"
      BY <1>3, <2>3, Zenon
    <3> QED
      BY <1>2, <2>3, <3>1
  <2> QED
    BY <2>1, <2>2, <2>3
<1>7. i # Final => i < Final
  BY <1>2
<1> QED
  BY <1>5, <1>6, <1>7 DEF c, status

(* ConsumeBuffered stops at a chunk, which is in front of what is buffered. *)
LEMMA StopFacts ==
    ASSUME ChunkedAssumption, body \in ChunkedBodies, NEW i \in 1..Final, NEW end \in Nat,
           Chunks[i].at <= end
    PROVE  \E k \in i..Final : /\ Stop(Chunks[i].at, end) = Chunks[k].at
                               /\ Chunks[k].at <= end
                               /\ Status(Chunks[k].at, end) # "chunk"
<1> DEFINE p == Chunks[i].at
<1> DEFINE S(k) == Status(Chunks[k].at, end)
<1> DEFINE Stops(k) == /\ Chunks[k].at >= p /\ S(k) # "chunk"
                       /\ \A j \in 1..Final : p <= Chunks[j].at /\ Chunks[j].at < Chunks[k].at
                            => S(j) = "chunk"
<1>0. Final \in Nat \ {0} /\ i \in Nat /\ Final \in i..Final
  BY ChunkFacts
<1>1. \A j \in 1..Final : Chunks[j].at \in Nat /\ Chunks[j].end \in Nat /\ Chunks[j].at < Chunks[j].end
  BY ChunkFacts
<1>2. \A j, k \in 1..Final : Chunks[j].at < Chunks[k].at <=> j < k
  <2> SUFFICES ASSUME NEW j \in 1..Final, NEW k \in 1..Final
               PROVE  Chunks[j].at < Chunks[k].at <=> j < k
    OBVIOUS
  <2>1. j < k => Chunks[j].end <= Chunks[k].at
    BY ChunksOrdered
  <2>2. k < j => Chunks[k].end <= Chunks[j].at
    BY ChunksOrdered
  <2>3. j < k \/ k < j \/ j = k
    OBVIOUS
  <2> QED
    BY <1>1, <2>1, <2>2, <2>3
<1>3. \E k \in i..Final : Stops(k)
  <2> DEFINE T == {k \in i..Final : S(k) # "chunk"}
  <2>1. T \in SUBSET Nat /\ T # {}
    <3>1. S(Final) # "chunk"
      <4>1. Final \in 1..Final
        BY <1>0
      <4>2. S(Final) = "chunk" => Final < Final
        BY <4>1, StatusFacts
      <4> QED
        BY <1>0, <4>2
    <3> QED
      BY <1>0, <3>1
  <2> HIDE DEF T
  <2>2. PICK k \in T : \A y \in T : k <= y
    BY <2>1, LeastOf
  <2> HIDE DEF S
  <2>3. k \in i..Final /\ k \in 1..Final /\ S(k) # "chunk"
    BY <1>0 DEF T
  <2>4. Chunks[k].at >= p
    BY <1>0, <1>1, <1>2, <2>3
  <2>5. ASSUME NEW j \in 1..Final, p <= Chunks[j].at, Chunks[j].at < Chunks[k].at
        PROVE  S(j) = "chunk"
    <3>1. j < k
      BY <1>2, <2>3, <2>5
    <3>2. ~(j < i)
      BY <1>0, <1>1, <1>2, <2>5
    <3>3. j \in i..Final /\ ~(k <= j)
      BY <1>0, <2>3, <3>1, <3>2
    <3> QED
      BY <2>2, <3>3 DEF T
  <2> QED
    BY <2>3, <2>4, <2>5
<1>4. \E q \in {Chunks[k].at : k \in 1..Final} :
         /\ q >= p /\ Status(q, end) # "chunk"
         /\ \A j \in 1..Final : p <= Chunks[j].at /\ Chunks[j].at < q
              => Status(Chunks[j].at, end) = "chunk"
  <2>1. PICK k \in i..Final : Stops(k)
    BY <1>3
  <2>2. k \in 1..Final
    BY <1>0
  <2> QED
    BY <2>1, <2>2
<1>5. PICK q : q = Stop(p, end)
  OBVIOUS
<1>6. /\ q \in {Chunks[k].at : k \in 1..Final}
      /\ q >= p /\ Status(q, end) # "chunk"
      /\ \A j \in 1..Final : p <= Chunks[j].at /\ Chunks[j].at < q
              => Status(Chunks[j].at, end) = "chunk"
  BY <1>4, <1>5 DEF Stop
<1>7. PICK k \in 1..Final : q = Chunks[k].at
  BY <1>6
<1>8. k \in i..Final
  BY <1>0, <1>1, <1>2, <1>6, <1>7
<1>9. Chunks[k].at <= end
  <2>1. CASE k = i
    BY <2>1
  <2>2. CASE k # i
    <3>1. k - 1 \in 1..Final /\ k - 1 < k /\ k \in 2..Final /\ i <= k - 1
      BY <1>0, <1>8, <2>2
    <3>2. Chunks[k - 1].at < q
      BY <1>2, <1>7, <3>1
    <3>3. p <= Chunks[k - 1].at
      BY <1>0, <1>1, <1>2, <3>1
    <3>4. Status(Chunks[k - 1].at, end) = "chunk"
      BY <1>6, <3>1, <3>2, <3>3
    <3>5. Chunks[k - 1].end <= end
      BY <3>1, <3>4, StatusFacts
    <3>6. Chunks[k].at = Chunks[k - 1].end
      BY <3>1, ChunkFacts
    <3> QED
      BY <3>5, <3>6
  <2> QED
    BY <2>1, <2>2
<1> QED
  BY <1>5, <1>6, <1>7, <1>8, <1>9

(***************************************************************************)
(* The invariant                                                           *)
(***************************************************************************)
(* The reader is at the first unit of a chunk, and if the chunk is held, a  *)
(* part of it is left to be copied.                                         *)
AtChunk(i) ==
    /\ reader.pos = Chunks[i].at
    /\ chunkEnd # 0 =>
        /\ i < Final /\ chunkEnd = Chunks[i].end /\ chunkEnd <= reader.end
        /\ rest.to = Chunks[i].to /\ rest.from \in Chunks[i].from..Chunks[i].to

Placed ==
    /\ reader.pos <= reader.end
    /\ IF completed THEN reader.pos = body.end /\ chunkEnd = 0 ELSE \E i \in 1..Final : AtChunk(i)

(* The next unit that a read will find *)
Following ==
    IF completed THEN body.size + 1
    ELSE IF chunkEnd # 0 THEN rest.from ELSE ChunkAt(reader.pos).from

(* What was handed out and what ReadToEndAsync has written so far are in    *)
(* order and in front of that unit; without failures nothing is missing.    *)
Delivered ==
    \E from \in Nat \ {0} :
        /\ Promise!Last < from /\ from <= Following
        /\ call = "all" => written = Run(from, Following - 1)
        /\ call # "all" => from = Following
        /\ ~failed /\ call # "skip" /\ result \notin GivenUp => from = Promise!Last + 1

Counted == ~failed => position = Len(got) + (IF call = "all" THEN Len(written) ELSE 0)

(* A call that waits has no result, and the end of the stream is the client's. *)
ChunkedInStep ==
    /\ call # "no" => result = "none"
    /\ reader.eof => client = "fin"
    /\ result = "skipped" => completed

ChunkedInv == ChunkedOK /\ Placed /\ Delivered /\ Counted /\ ChunkedInStep

(* What the types say *)
LEMMA TypeFacts ==
    ASSUME ChunkedAssumption, ChunkedOK
    PROVE  /\ body \in ChunkedBodies /\ body.size \in Nat /\ body.end \in Nat
           /\ reader \in Reader /\ reader.pos \in Nat /\ reader.end \in Nat
           /\ got \in Seq(1..body.size) /\ got \in Seq(Nat) /\ Len(got) \in Nat
           /\ Promise!Last \in Nat
           /\ rest.from \in Nat /\ rest.to \in Nat /\ position \in Nat /\ Final \in Nat \ {0}
<1>1. body \in ChunkedBodies /\ reader \in Reader /\ got \in Seq(1..body.size) /\ position \in Nat
  BY DEF ChunkedOK, ConsumerOK
<1>2. body.size \in Nat /\ body.end \in Nat /\ Final \in Nat \ {0}
  <2>1. /\ Final \in 1..Final /\ body.size = Chunks[Final].to /\ body.end = Chunks[Final].end
        /\ Final \in Nat \ {0}
    BY <1>1, ChunkFacts
  <2>2. Chunks[Final].to \in Nat /\ Chunks[Final].end \in Nat
    BY <1>1, <2>1, ChunkFacts
  <2> QED
    BY <2>1, <2>2
<1>3. reader.pos \in Nat /\ reader.end \in Nat
  BY <1>1 DEF Reader
<1>4. got \in Seq(Nat) /\ Len(got) \in Nat
  BY <1>1, <1>2
<1>5. Promise!Last \in Nat
  <2>1. got # <<>> => Len(got) \in 1..Len(got)
    BY <1>4
  <2>2. got # <<>> => got[Len(got)] \in Nat
    BY <1>4, <2>1
  <2> QED
    BY <2>2 DEF Promise!Last
<1>6. rest.from \in Nat /\ rest.to \in Nat
  BY DEF ChunkedOK, Held
<1> QED
  BY <1>1, <1>2, <1>3, <1>4, <1>5, <1>6

(* Which unit is next, by where the reader is *)
LEMMA FollowingFacts ==
    ASSUME ChunkedAssumption, ChunkedOK, NEW i \in 1..Final, AtChunk(i), ~completed
    PROVE  /\ Following = IF chunkEnd # 0 THEN rest.from ELSE Chunks[i].from
           /\ Following \in Nat \ {0} /\ Following <= body.size + 1
           /\ Chunks[i].from <= Following
           /\ i < Final => Following <= Chunks[i].to
<1>1. /\ ChunkAt(Chunks[i].at) = Chunks[i] /\ body.size \in Nat
      /\ Chunks[i].from \in Nat \ {0} /\ Chunks[i].from <= body.size + 1
      /\ Chunks[i].to \in Nat /\ Chunks[i].to <= body.size
      /\ i < Final => Chunks[i].from <= Chunks[i].to
  BY TypeFacts, ChunkFacts, InBody, AtOne
<1>2. Following = IF chunkEnd # 0 THEN rest.from ELSE Chunks[i].from
  BY <1>1 DEF Following, AtChunk
<1>3. chunkEnd # 0 => rest.from \in Chunks[i].from..Chunks[i].to
  BY DEF AtChunk
<1>4. CASE chunkEnd # 0
  BY <1>1, <1>2, <1>3, <1>4
<1>5. CASE chunkEnd = 0
  BY <1>1, <1>2, <1>5
<1> QED
  BY <1>4, <1>5

(* Units handed out behind others *)
LEMMA MoreUnits ==
    ASSUME ChunkedAssumption, ChunkedOK, NEW a \in Nat \ {0}, NEW n \in Nat, a <= n + 1, n <= body.size,
           got' = got \o Run(a, n), body' = body
    PROVE  /\ got' \in Seq(1..body.size)
           /\ Len(got') = Len(got) + (n + 1 - a)
           /\ a <= n => Promise!Last' = n
           /\ a = n + 1 => got' = got
<1>1. /\ body.size \in Nat /\ got \in Seq(1..body.size) /\ got \in Seq(Nat) /\ Len(got) \in Nat
  BY TypeFacts
<1>2. /\ Len(Run(a, n)) = n + 1 - a /\ Run(a, n) \in Seq(1..body.size)
      /\ \A i \in 1..n + 1 - a : Run(a, n)[i] = a + i - 1
  BY <1>1, RunFacts
<1>3. PICK r : r = Run(a, n)
  OBVIOUS
<1>4. PICK s : s = got \o r
  OBVIOUS
<1>5. /\ s \in Seq(1..body.size) /\ Len(s) = Len(got) + Len(r)
      /\ \A i \in 1..Len(got) + Len(r) : s[i] = IF i <= Len(got) THEN got[i] ELSE r[i - Len(got)]
  BY <1>1, <1>2, <1>3, <1>4, ConcatProperties, SMTT(30)
<1>6. got' = s
  BY <1>3, <1>4
<1>7. ASSUME a <= n PROVE Promise!Last' = n
  <2> DEFINE k == n + 1 - a
  <2>1. /\ k \in Nat \ {0} /\ Len(r) = k /\ a + k - 1 = n /\ k \in 1..k
        /\ Len(got) + k \in 1..Len(got) + k /\ ~(Len(got) + k <= Len(got))
        /\ Len(got) + k - Len(got) = k
    BY <1>1, <1>2, <1>3, <1>7
  <2>2. r[k] = n
    BY <1>2, <1>3, <2>1
  <2> HIDE DEF k
  <2>3. Len(s) = Len(got) + k /\ s[Len(got) + k] = n
    BY <1>5, <2>1, <2>2
  <2>4. s # <<>>
    BY <1>1, <1>5, <2>1
  <2> QED
    BY <1>6, <2>3, <2>4 DEF Promise!Last
<1>8. ASSUME a = n + 1 PROVE got' = got
  <2>1. r = <<>>
    BY <1>3, <1>8, EmptyRun
  <2> QED
    BY <1>1, <1>4, <1>6, <2>1, ConcatEmptySeq, Zenon
<1>9. Len(got') = Len(got) + (n + 1 - a)
  BY <1>2, <1>3, <1>5, <1>6
<1> QED
  BY <1>5, <1>6, <1>7, <1>8, <1>9

(* A call that returns without units leaves what was handed out alone. *)
LEMMA NothingReturned ==
    ASSUME ChunkedOK, NEW outcome, Return(outcome, <<>>)
    PROVE  got' = got
<1>1. got \in Seq(1..body.size) /\ got' = got \o <<>>
  BY DEF ChunkedOK, ConsumerOK, Return
<1> QED
  BY <1>1, ConcatEmptySeq, Zenon

(***************************************************************************)
(* Where a step leaves the reader                                          *)
(***************************************************************************)

(* At the first unit of a chunk, of which nothing is held *)
LEMMA ToChunk ==
    ASSUME ChunkedAssumption, ChunkedOK, body' = body, NEW k \in 1..Final,
           reader'.pos = Chunks[k].at, Chunks[k].at <= reader'.end,
           chunkEnd' = 0, completed' = FALSE
    PROVE  Placed' /\ Following' = Chunks[k].from
<1>1. At(Chunks[k].at) = {k} /\ ChunkAt(Chunks[k].at) = Chunks[k]
  BY TypeFacts, AtOne
<1>2. Chunks' = Chunks /\ Final' = Final
  BY DEF Chunks, Final
<1>3. At(reader.pos)' = {k}
  BY <1>1, <1>2 DEF At
<1>4. ChunkAt(reader.pos)' = Chunks[k]
  BY <1>2, <1>3 DEF ChunkAt
<1>5. Following' = Chunks[k].from
  BY <1>4 DEF Following
<1>6. AtChunk(k)'
  BY <1>2 DEF AtChunk
<1> QED
  BY <1>2, <1>5, <1>6 DEF Placed

(* In front of a chunk of which a part is held *)
LEMMA ToRest ==
    ASSUME ChunkedAssumption, ChunkedOK, body' = body, NEW k \in 1..Final, k < Final,
           reader'.pos = reader.pos, reader'.end = reader.end,
           reader.pos = Chunks[k].at, Chunks[k].end <= reader.end,
           chunkEnd' = Chunks[k].end, completed' = FALSE,
           NEW from \in Chunks[k].from..Chunks[k].to,
           rest' = [from |-> from, to |-> Chunks[k].to]
    PROVE  Placed' /\ Following' = from
<1>1. Chunks' = Chunks /\ Final' = Final
  BY DEF Chunks, Final
<1>2. chunkEnd' # 0 /\ reader.pos <= reader.end
  <2>1. /\ Chunks[k].at \in Nat /\ Chunks[k].end \in Nat /\ Chunks[k].at < Chunks[k].end
        /\ reader.end \in Nat
    BY TypeFacts, ChunkFacts
  <2> QED
    BY <2>1
<1>3. rest'.from = from /\ rest'.to = Chunks[k].to
  OBVIOUS
<1>4. Following' = from
  BY <1>2, <1>3 DEF Following
<1>5. AtChunk(k)'
  BY <1>1, <1>2, <1>3 DEF AtChunk
<1> QED
  BY <1>1, <1>2, <1>4, <1>5 DEF Placed

(* Behind the body *)
LEMMA ToEnd ==
    ASSUME body' = body, reader'.pos = body.end, body.end <= reader'.end,
           chunkEnd' = 0, completed' = TRUE
    PROVE  Placed' /\ Following' = body.size + 1
<1> QED
  BY DEF Placed, Following

(* The units of a read are the next ones, and BodyReader hands out as many. *)
LEMMA DataSteps ==
    ASSUME ChunkedAssumption, FramingAssumption, ChunkedInv, call = "some",
           NEW f \in Nat \ {0}, f = Following, NEW to \in Nat, f <= to, to <= body.size,
           Return("data", Run(f, to)), UNCHANGED environment,
           position' = position + (to + 1 - f),
           reader' \in Reader, reader'.end = reader.end, reader'.eof = reader.eof,
           completed' = FALSE, Placed', Following' = to + 1,
           rest' \in Held, chunkEnd' \in 0..body.end, written' = written
    PROVE  ChunkedInv' /\ PromiseStep
<1>1. /\ call' = "no" /\ result' = "data" /\ got' = got \o Run(f, to) /\ room' = room
      /\ body' = body /\ client' = client
  BY DEF Return, environment
<1>2. failed' = failed
  BY DEF Return, ChunkedInv, ChunkedOK, ConsumerOK
<1>3. /\ body.size \in Nat /\ Len(got) \in Nat /\ Promise!Last \in Nat /\ position \in Nat
  BY TypeFacts DEF ChunkedInv
<1>4. got' \in Seq(1..body.size) /\ Len(got') = Len(got) + (to + 1 - f) /\ Promise!Last' = to
  BY <1>1, MoreUnits DEF ChunkedInv
<1>5. Promise!Last < f /\ (~failed => f = Promise!Last + 1)
  <2>1. result \notin GivenUp
    BY DEF ChunkedInv, ChunkedInStep, GivenUp
  <2> QED
    BY <2>1 DEF ChunkedInv, Delivered
<1>6. ChunkedOK'
  <2>1. position' \in Nat
    BY <1>3
  <2> QED
    BY <1>1, <1>2, <1>4, <2>1 DEF ChunkedInv, ChunkedOK, ConsumerOK
<1>7. Delivered'
  <2>1. to + 1 \in Nat \ {0} /\ to < to + 1 /\ to + 1 <= to + 1
    OBVIOUS
  <2> QED
    BY <1>1, <1>4, <2>1 DEF Delivered
<1>8. Counted'
  <2> SUFFICES ASSUME ~failed' PROVE position' = Len(got')
    BY <1>1, <1>3, <1>4 DEF Counted
  <2>1. position = Len(got)
    BY <1>2, <1>3 DEF ChunkedInv, Counted
  <2> QED
    BY <1>4, <2>1
<1>9. ChunkedInStep'
  BY <1>1 DEF ChunkedInv, ChunkedInStep
<1>10. Promise!HandOut
  <2>1. Flawed' = Flawed /\ body.size' = body.size
    BY SameFlaw
  <2>2. f \in Promise!Last + 1..body.size /\ to \in f..body.size
    BY <1>3, <1>5
  <2>3. got' = got \o Promise!Run(f, to)
    BY <1>1, SameRun
  <2> QED
    BY <1>1, <1>2, <1>5, <2>1, <2>2, <2>3 DEF Promise!HandOut, Promise!Return
<1> QED
  BY <1>6, <1>7, <1>8, <1>9, <1>10 DEF ChunkedInv, PromiseStep, Promise!Next

LEMMA CopySteps ==
    ASSUME ChunkedAssumption, FramingAssumption, ChunkedInv, call = "some", ~completed,
           NEW i \in 1..Final, AtChunk(i), i < Final, Chunks[i].end <= reader.end,
           NEW f, f = Following, Copy(f, Chunks[i].to, Chunks[i].end),
           UNCHANGED <<environment, completed, written>>
    PROVE  ChunkedInv' /\ PromiseStep
<1> DEFINE c == Chunks[i]
<1>1. /\ f \in Nat \ {0} /\ c.from <= f /\ f <= c.to /\ c.to \in Nat /\ c.to <= body.size
      /\ c.end \in Nat /\ c.at \in Nat /\ c.at < c.end /\ c.from \in Nat
      /\ c.end <= body.end /\ body.size \in Nat /\ body.end \in Nat
      /\ Chunks[i + 1].at = c.end /\ Chunks[i + 1].from = c.to + 1 /\ i + 1 \in 1..Final
  <2>1. i + 1 \in 2..Final /\ i + 1 \in 1..Final /\ i + 1 - 1 = i
    BY TypeFacts, SMTT(30) DEF ChunkedInv
  <2>2. /\ c.to \in Nat /\ c.end \in Nat /\ c.at \in Nat /\ c.at < c.end /\ c.from \in Nat
        /\ body.size \in Nat /\ body.end \in Nat
    BY TypeFacts, ChunkFacts DEF ChunkedInv
  <2>3. c.to <= body.size /\ c.end <= body.end
    BY TypeFacts, InBody DEF ChunkedInv
  <2>4. Chunks[i + 1].at = c.end /\ Chunks[i + 1].from = c.to + 1
    <3>1. Chunks[i + 1].at = Chunks[i + 1 - 1].end /\ Chunks[i + 1].from = Chunks[i + 1 - 1].to + 1
      BY <2>1, TypeFacts, ChunkFacts DEF ChunkedInv
    <3> QED
      BY <2>1, <3>1
  <2>5. f \in Nat \ {0} /\ c.from <= f /\ f <= c.to
    BY FollowingFacts DEF ChunkedInv
  <2> QED
    BY <2>1, <2>2, <2>3, <2>4, <2>5
<1>2. PICK count : count = Least(room, c.to + 1 - f)
  OBVIOUS
<1>3. count \in Nat \ {0} /\ f + count <= c.to + 1
  <2>1. room \in Nat \ {0}
    BY DEF FramingAssumption, ChunkedInv, ChunkedOK, ConsumerOK
  <2> QED
    BY <1>1, <1>2, <2>1 DEF Least
<1>4. PICK to \in Nat : to = f + count - 1
  BY <1>1, <1>3
<1>5. /\ f <= to /\ to <= body.size /\ to <= c.to /\ to + 1 = f + count
      /\ to + 1 - f = count
  BY <1>1, <1>3, <1>4
<1>6. /\ IF f + count > c.to
         THEN reader' = Consume(reader, c.end) /\ rest' = NoRest /\ chunkEnd' = 0
         ELSE /\ reader' = Unadvanced(reader) /\ chunkEnd' = c.end
              /\ rest' = [from |-> f + count, to |-> c.to]
      /\ position' = position + count
      /\ Return("data", Run(f, f + count - 1))
  BY <1>2 DEF Copy, ReleaseChunk
<1>7. body' = body /\ completed' = FALSE /\ written' = written
  BY DEF environment, ChunkedInv, ChunkedOK
<1>8. reader \in Reader /\ reader.pos = c.at /\ reader.end \in Nat
  BY TypeFacts DEF ChunkedInv, AtChunk
<1>9. /\ reader' \in Reader /\ reader'.end = reader.end /\ reader'.eof = reader.eof
      /\ Placed' /\ Following' = to + 1 /\ rest' \in Held /\ chunkEnd' \in 0..body.end
  <2>1. CASE f + count > c.to
    <3>1. /\ reader' \in Reader /\ reader'.end = reader.end /\ reader'.eof = reader.eof
          /\ reader'.pos = c.end /\ rest' = NoRest /\ chunkEnd' = 0
      <4>1. reader' = Consume(reader, c.end) /\ rest' = NoRest /\ chunkEnd' = 0
        BY <1>6, <2>1
      <4>2. c.end \in Nat
        BY <1>1
      <4> HIDE DEF c
      <4>3. /\ Consume(reader, c.end) \in Reader /\ Consume(reader, c.end).pos = c.end
            /\ Consume(reader, c.end).end = reader.end /\ Consume(reader, c.end).eof = reader.eof
        BY <1>8, <4>2, ReaderFacts, EofFacts
      <4> QED
        BY <4>1, <4>3
    <3>2. Placed' /\ Following' = Chunks[i + 1].from
      <4>1. reader'.pos = Chunks[i + 1].at /\ Chunks[i + 1].at <= reader'.end
        BY <1>1, <3>1
      <4> QED
        BY <1>1, <1>7, <3>1, <4>1, ToChunk DEF ChunkedInv
    <3>3. Chunks[i + 1].from = to + 1
      BY <1>1, <1>3, <1>4, <2>1
    <3>4. rest' \in Held /\ chunkEnd' \in 0..body.end
      BY <1>1, <3>1 DEF Held, NoRest
    <3> QED
      BY <3>1, <3>2, <3>3, <3>4
  <2>2. CASE ~(f + count > c.to)
    <3>1. f + count \in c.from..c.to /\ f + count \in Nat
      BY <1>1, <1>3, <2>2
    <3>2. chunkEnd' = c.end /\ rest' = [from |-> f + count, to |-> c.to]
      BY <1>6, <2>2
    <3>5. /\ reader' \in Reader /\ reader'.pos = reader.pos
          /\ reader'.end = reader.end /\ reader'.eof = reader.eof
      BY <1>6, <1>8, <2>2, UnadvancedFacts
    <3>3. Placed' /\ Following' = f + count
      BY <1>7, <1>8, <3>1, <3>2, <3>5, ToRest DEF ChunkedInv
    <3>4. rest' \in Held /\ chunkEnd' \in 0..body.end
      BY <1>1, <3>1, <3>2 DEF Held
    <3> QED
      BY <1>5, <3>3, <3>4, <3>5
  <2> QED
    BY <2>1, <2>2
<1>10. Return("data", Run(f, to)) /\ position' = position + (to + 1 - f) /\ UNCHANGED environment
  BY <1>4, <1>5, <1>6
<1> HIDE DEF c
<1> QED
  BY <1>1, <1>5, <1>7, <1>9, <1>10, DataSteps

(***************************************************************************)
(* What ReadToEndAsync collects, and how calls end                         *)
(***************************************************************************)

(* After a step that passes over all units up to one, while ReadToEndAsync  *)
(* collects them and SkipAsync does not.                                    *)
Collected(to) ==
    /\ written' \in Seq(1..body.size) /\ position' \in Nat
    /\ \E from \in Nat \ {0} :
        /\ Promise!Last < from /\ from <= to + 1
        /\ call = "all" => written' = Run(from, to)
        /\ ~failed /\ call = "all" => from = Promise!Last + 1
    /\ ~failed => position' = Len(got) + (IF call = "all" THEN Len(written') ELSE 0)

LEMMA Collects ==
    ASSUME ChunkedAssumption, ChunkedInv, call \in {"all", "skip"},
           NEW f \in Nat \ {0}, f = Following, NEW to \in Nat, f <= to + 1, to <= body.size,
           IF call = "all"
           THEN written' = written \o Run(f, to) /\ position' = position + (to + 1 - f)
           ELSE UNCHANGED <<written, position>>
    PROVE  Collected(to)
<1>1. /\ body.size \in Nat /\ Len(got) \in Nat /\ Promise!Last \in Nat /\ position \in Nat
      /\ written \in Seq(1..body.size)
  BY TypeFacts DEF ChunkedInv, ChunkedOK
<1>2. result = "none" /\ result \notin GivenUp
  BY DEF ChunkedInv, ChunkedInStep, GivenUp
<1>3. PICK from \in Nat \ {0} :
        /\ Promise!Last < from /\ from <= f
        /\ call = "all" => written = Run(from, f - 1)
        /\ ~failed /\ call # "skip" => from = Promise!Last + 1
  BY <1>2 DEF ChunkedInv, Delivered
<1>4. ~failed => position = Len(got) + (IF call = "all" THEN Len(written) ELSE 0)
  BY DEF ChunkedInv, Counted
<1>5. CASE call = "all"
  <2>1. PICK m \in Nat : m = f - 1
    OBVIOUS
  <2>2. from <= m + 1 /\ m + 1 = f /\ m <= to /\ from <= to + 1 /\ m <= body.size
    BY <1>1, <1>3, <2>1
  <2>3. written = Run(from, m) /\ Len(written) = f - from
    <3>1. written = Run(from, m)
      BY <1>3, <1>5, <2>1
    <3>2. Len(Run(from, m)) = m + 1 - from
      BY <2>2, RunFacts
    <3> QED
      BY <2>2, <3>1, <3>2
  <2>4. written' = Run(from, to) /\ position' = position + (to + 1 - f)
    <3>1. written' = Run(from, m) \o Run(m + 1, to) /\ position' = position + (to + 1 - f)
      BY <1>5, <2>2, <2>3
    <3>2. Run(from, m) \o Run(m + 1, to) = Run(from, to)
      BY <2>2, RunJoin
    <3> QED
      BY <3>1, <3>2
  <2>5. Len(Run(from, to)) = to + 1 - from /\ Run(from, to) \in Seq(1..body.size)
    BY <1>1, <2>2, RunFacts
  <2>6. written' \in Seq(1..body.size) /\ Len(written') = to + 1 - from
    BY <2>4, <2>5
  <2>7. position' \in Nat
    BY <1>1, <2>2, <2>4
  <2>8. ~failed => position' = Len(got) + Len(written')
    <3> SUFFICES ASSUME ~failed PROVE position' = Len(got) + (to + 1 - from)
      BY <2>6
    <3>1. position = Len(got) + (f - from)
      BY <1>4, <1>5, <2>3
    <3>2. position' = position + (to + 1 - f)
      BY <2>4
    <3> QED
      BY <1>1, <3>1, <3>2
  <2> QED
    BY <1>3, <1>5, <2>2, <2>4, <2>6, <2>7, <2>8 DEF Collected
<1>6. CASE call # "all"
  <2>1. written' = written /\ position' = position
    BY <1>6
  <2>2. Promise!Last < f
    BY <1>1, <1>3
  <2> QED
    BY <1>1, <1>4, <1>6, <2>1, <2>2 DEF Collected
<1> QED
  BY <1>5, <1>6

(* A call goes on behind the units it has passed over. *)
LEMMA GoesOn ==
    ASSUME ChunkedAssumption, ChunkedInv, call \in {"all", "skip"},
           NEW to \in Nat, Collected(to), Following' = to + 1,
           UNCHANGED <<environment, consumer, completed>>,
           reader' \in Reader, reader'.end = reader.end, reader'.eof = reader.eof,
           Placed', rest' \in Held, chunkEnd' \in 0..body.end
    PROVE  ChunkedInv' /\ PromiseStep
<1>1. /\ UNCHANGED <<body, client, call, room, result, failed, got>>
      /\ Promise!Last' = Promise!Last
  BY DEF environment, consumer, Promise!Last
<1>2. ChunkedOK'
  BY <1>1 DEF ChunkedInv, ChunkedOK, ConsumerOK, Collected
<1>3. Promise!Last \in Nat
  BY TypeFacts DEF ChunkedInv
<1>4. Delivered'
  <2>1. PICK from \in Nat \ {0} :
          /\ Promise!Last < from /\ from <= to + 1
          /\ call = "all" => written' = Run(from, to)
          /\ ~failed /\ call = "all" => from = Promise!Last + 1
    BY DEF Collected
  <2>2. CASE call = "all"
    <3>1. to + 1 - 1 = to
      OBVIOUS
    <3> QED
      BY <1>1, <2>1, <2>2, <3>1 DEF Delivered
  <2>3. CASE call = "skip"
    <3>1. to + 1 \in Nat \ {0} /\ Promise!Last < to + 1 /\ to + 1 <= to + 1
      BY <1>3, <2>1
    <3> QED
      BY <1>1, <2>3, <3>1 DEF Delivered
  <2> QED
    BY <2>2, <2>3
<1>5. Counted' /\ ChunkedInStep'
  BY <1>1 DEF ChunkedInv, Counted, ChunkedInStep, Collected
<1>6. UNCHANGED Promise!vars
  <2>1. Flawed' = Flawed /\ body.size' = body.size
    BY SameFlaw
  <2> QED
    BY <1>1, <2>1 DEF Promise!vars
<1> QED
  BY <1>2, <1>4, <1>5, <1>6 DEF ChunkedInv, PromiseStep

LEMMA Successor == \A n \in Nat : n + 1 \in Nat \ {0} /\ n + 1 <= n + 1 /\ n + 0 = n
<1> QED
  OBVIOUS

(* A call fails, or a skip gives up, over a body that is flawed. *)
LEMMA Breaks ==
    ASSUME ChunkedAssumption, ChunkedInv, Flawed,
           \/ call \in {"some", "all"} /\ Return("failed", <<>>)
           \/ call = "skip" /\ Return("given up", <<>>),
           NEW to \in Nat, Promise!Last < to + 1, Following' = to + 1,
           written' \in Seq(1..body.size), position' \in Nat,
           ~failed /\ call = "skip" => position' = Len(got),
           UNCHANGED <<environment, completed>>,
           reader' \in Reader, reader'.end = reader.end, reader'.eof = reader.eof,
           Placed', rest' \in Held, chunkEnd' \in 0..body.end
    PROVE  ChunkedInv' /\ PromiseStep
<1>1. UNCHANGED <<body, client, room>> /\ call' = "no" /\ got' = got
  BY NothingReturned DEF ChunkedInv, environment, Return
<1>2. Promise!Last' = Promise!Last
  BY <1>1 DEF Promise!Last
<1>3. \/ call \in {"some", "all"} /\ result' = "failed" /\ failed' = TRUE
      \/ call = "skip" /\ result' = "given up" /\ failed' = failed
  BY DEF Return, ChunkedInv, ChunkedOK, ConsumerOK
<1>4. ChunkedOK'
  BY <1>1, <1>3 DEF ChunkedInv, ChunkedOK, ConsumerOK
<1>5. Delivered'
  <2>1. to + 1 \in Nat \ {0} /\ to + 1 <= to + 1
    BY Successor
  <2> QED
    BY <1>1, <1>2, <1>3, <2>1 DEF Delivered, GivenUp
<1>6. Len(got) \in Nat
  BY TypeFacts DEF ChunkedInv
<1>7. Counted' /\ ChunkedInStep'
  <2>1. Counted'
    <3>1. Len(got') \in Nat /\ Len(got') + 0 = Len(got')
      BY <1>1, <1>6, Successor
    <3>2. ~failed' => position' = Len(got')
      BY <1>1, <1>3
    <3> QED
      BY <1>1, <3>1, <3>2 DEF Counted
  <2>2. ChunkedInStep'
    <3>1. call' = "no" /\ result' # "skipped"
      BY <1>1, <1>3
    <3>2. reader'.eof => client' = "fin"
      BY <1>1 DEF ChunkedInv, ChunkedInStep
    <3> QED
      BY <3>1, <3>2 DEF ChunkedInStep
  <2> QED
    BY <2>1, <2>2
<1>8. Flawed' = Flawed /\ body.size' = body.size
  BY SameFlaw
<1>9. Promise!Fail \/ Promise!GiveUp
  BY <1>1, <1>3, <1>8 DEF Promise!Fail, Promise!GiveUp, Promise!Return
<1> QED
  BY <1>4, <1>5, <1>7, <1>9 DEF ChunkedInv, PromiseStep, Promise!Next

(* ReadToEndAsync hands out what it has collected, SkipAsync has succeeded. *)
LEMMA Completes ==
    ASSUME ChunkedAssumption, ChunkedInv, Collected(body.size), call \in {"all", "skip"},
           IF call = "all" THEN Return("end", written') ELSE Return("skipped", <<>>),
           Following' = body.size + 1, completed' = TRUE, UNCHANGED environment,
           reader' \in Reader, reader'.end = reader.end, reader'.eof = reader.eof,
           Placed', rest' \in Held, chunkEnd' \in 0..body.end
    PROVE  ChunkedInv' /\ PromiseStep
<1>1. /\ UNCHANGED <<body, client, room>> /\ call' = "no" /\ failed' = failed
      /\ body.size \in Nat /\ Len(got) \in Nat /\ Promise!Last \in Nat
      /\ body.size + 1 \in Nat \ {0} /\ body.size + 1 <= body.size + 1
  <2>1. body.size \in Nat /\ Len(got) \in Nat /\ Promise!Last \in Nat
    BY TypeFacts DEF ChunkedInv
  <2>2. UNCHANGED <<body, client>>
    BY DEF environment
  <2>3. call' = "no" /\ room' = room /\ (Return("end", written') \/ Return("skipped", <<>>))
    BY DEF Return
  <2>4. failed' = failed
    BY <2>3 DEF Return, ChunkedInv, ChunkedOK, ConsumerOK
  <2> QED
    BY <2>1, <2>2, <2>3, <2>4, Successor
<1>2. PICK from \in Nat \ {0} :
        /\ Promise!Last < from /\ from <= body.size + 1
        /\ call = "all" => written' = Run(from, body.size)
        /\ ~failed /\ call = "all" => from = Promise!Last + 1
  BY DEF Collected
<1>3. Flawed' = Flawed /\ body.size' = body.size
  BY SameFlaw
<1>4. CASE call = "all"
  <2>1. result' = "end" /\ got' = got \o written' /\ got' = got \o Run(from, body.size)
    BY <1>2, <1>4 DEF Return
  <2>2. /\ got' \in Seq(1..body.size) /\ Len(got') = Len(got) + (body.size + 1 - from)
        /\ from <= body.size => Promise!Last' = body.size
        /\ from = body.size + 1 => got' = got
    <3>1. PICK n \in Nat : n = body.size
      BY <1>1
    <3>2. got' = got \o Run(from, n) /\ from <= n + 1 /\ n <= body.size
      BY <1>1, <1>2, <2>1, <3>1
    <3>3. /\ got' \in Seq(1..body.size) /\ Len(got') = Len(got) + (n + 1 - from)
          /\ from <= n => Promise!Last' = n
          /\ from = n + 1 => got' = got
      BY <1>1, <3>2, MoreUnits DEF ChunkedInv
    <3> QED
      BY <3>1, <3>3
  <2>3. ChunkedOK'
    BY <1>1, <2>1, <2>2 DEF ChunkedInv, ChunkedOK, ConsumerOK, Collected
  <2>4. Promise!Last' < body.size + 1 /\ (~failed => Promise!Last' = body.size)
    <3>1. CASE from <= body.size
      BY <1>1, <2>2, <3>1
    <3>2. CASE from = body.size + 1
      <4>1. Promise!Last' = Promise!Last
        BY <2>2, <3>2 DEF Promise!Last
      <4> QED
        BY <1>1, <1>2, <1>4, <3>2, <4>1
    <3> QED
      BY <1>1, <1>2, <3>1, <3>2
  <2>5. Delivered'
    BY <1>1, <2>1, <2>4 DEF Delivered
  <2>6. Counted'
    <3> SUFFICES ASSUME ~failed PROVE position' = Len(got')
      BY <1>1, <2>2 DEF Counted
    <3>1. position' = Len(got) + Len(written')
      BY <1>4 DEF Collected
    <3>2. Len(written') = body.size + 1 - from
      BY <1>1, <1>2, <1>4, RunFacts
    <3> QED
      BY <2>2, <3>1, <3>2
  <2>7. ChunkedInStep'
    BY <1>1, <2>1 DEF ChunkedInv, ChunkedInStep
  <2>8. Promise!HandOutRest
    <3>1. from \in Promise!Last + 1..body.size + 1
      BY <1>1, <1>2
    <3>2. got' = got \o Promise!Run(from, body.size)
      BY <2>1, SameRun
    <3> QED
      BY <1>1, <1>2, <1>3, <1>4, <2>1, <3>1, <3>2 DEF Promise!HandOutRest, Promise!Return
  <2> QED
    BY <2>3, <2>5, <2>6, <2>7, <2>8 DEF ChunkedInv, PromiseStep, Promise!Next
<1>5. CASE call = "skip"
  <2>1. result' = "skipped" /\ got' = got
    BY <1>5, NothingReturned DEF Return, ChunkedInv
  <2>2. Promise!Last' = Promise!Last
    BY <2>1 DEF Promise!Last
  <2>3. ChunkedOK'
    BY <1>1, <2>1 DEF ChunkedInv, ChunkedOK, ConsumerOK, Collected
  <2>4. Delivered'
    <3>1. Promise!Last < body.size + 1
      BY <1>1, <1>2
    <3> QED
      BY <1>1, <2>1, <2>2, <3>1 DEF Delivered, GivenUp
  <2>5. Counted' /\ ChunkedInStep'
    BY <1>1, <1>5, <2>1 DEF ChunkedInv, Counted, ChunkedInStep, Collected
  <2>6. Promise!Skipped
    BY <1>1, <1>3, <1>5, <2>1 DEF Promise!Skipped, Promise!Return
  <2> QED
    BY <2>3, <2>4, <2>5, <2>6 DEF ChunkedInv, PromiseStep, Promise!Next
<1> QED
  BY <1>4, <1>5

(***************************************************************************)
(* The steps                                                               *)
(***************************************************************************)
LEMMA ChunkedConsumerSteps ==
    ASSUME ChunkedAssumption, ChunkedInv, ChunkedConsumer
    PROVE  ChunkedInv' /\ PromiseStep
<1> PICK how \in Calls : Call(how)
  BY DEF ChunkedConsumer
<1>1. /\ call = "no" /\ result \notin GivenUp
      /\ call' = how /\ room' \in Rooms /\ result' = "none" /\ written' = <<>>
      /\ UNCHANGED <<body, client, reader, failed, got, completed, position, rest, chunkEnd>>
  BY DEF Call, ChunkedConsumer, GivenUp
<1>2. ChunkedOK'
  <2>1. <<>> \in Seq(1..body.size)
    OBVIOUS
  <2>2. written' \in Seq(1..body'.size)
    BY <1>1, <2>1
  <2> QED
    BY <1>1, <2>2 DEF ChunkedInv, ChunkedOK, ConsumerOK, Calls
<1>3. Placed' /\ Following' = Following /\ Promise!Last' = Promise!Last
  BY <1>1 DEF ChunkedInv, Placed, AtChunk, Following, ChunkAt, At, Chunks, Final, Promise!Last
<1>4. Delivered'
  <2>1. PICK from \in Nat \ {0} :
          /\ Promise!Last < from /\ from <= Following /\ from = Following
          /\ ~failed => from = Promise!Last + 1
    BY <1>1 DEF ChunkedInv, Delivered
  <2>2. Run(from, from - 1) = <<>>
    <3>1. PICK n \in Nat : n = from - 1
      OBVIOUS
    <3>2. from = n + 1
      BY <3>1
    <3> QED
      BY <3>1, <3>2, EmptyRun
  <2> QED
    BY <1>1, <1>3, <2>1, <2>2 DEF Delivered
<1>5. Counted' /\ ChunkedInStep'
  <2>1. Len(<<>>) = 0
    OBVIOUS
  <2> QED
    BY <1>1, <2>1 DEF ChunkedInv, Counted, ChunkedInStep
<1>6. Promise!Call(how)
  <2>1. Flawed' = Flawed
    BY <1>1 DEF Flawed
  <2> QED
    BY <1>1, <2>1 DEF Promise!Call, GivenUp
<1> QED
  BY <1>2, <1>3, <1>4, <1>5, <1>6 DEF ChunkedInv, PromiseStep, Promise!Next, Calls

LEMMA CopyFromChunkSteps ==
    ASSUME ChunkedAssumption, FramingAssumption, ChunkedInv, CopyFromChunk
    PROVE  ChunkedInv' /\ PromiseStep
<1>1. /\ call = "some" /\ chunkEnd # 0 /\ Copy(rest.from, rest.to, chunkEnd)
      /\ UNCHANGED <<environment, completed, written>>
  BY DEF CopyFromChunk
<1>2. ~completed
  BY <1>1 DEF ChunkedInv, Placed
<1>3. PICK i \in 1..Final : AtChunk(i)
  BY <1>2 DEF ChunkedInv, Placed
<1>4. /\ i < Final /\ chunkEnd = Chunks[i].end /\ Chunks[i].end <= reader.end
      /\ rest.to = Chunks[i].to
  BY <1>1, <1>3 DEF AtChunk
<1>5. PICK f : f = Following
  OBVIOUS
<1>6. f = rest.from
  BY <1>1, <1>2, <1>5 DEF Following
<1>7. Copy(f, Chunks[i].to, Chunks[i].end)
  BY <1>1, <1>4, <1>6
<1> QED
  BY <1>1, <1>2, <1>3, <1>4, <1>5, <1>7, CopySteps

LEMMA ReadChunkSteps ==
    ASSUME ChunkedAssumption, FramingAssumption, ChunkedInv, ReadChunk
    PROVE  ChunkedInv' /\ PromiseStep
<1>1. /\ call = "some" /\ chunkEnd = 0 /\ ~completed
      /\ Status(reader.pos, reader.end) = "chunk"
      /\ Copy(ChunkAt(reader.pos).from, ChunkAt(reader.pos).to, ChunkAt(reader.pos).end)
      /\ UNCHANGED <<environment, completed, written>>
  BY DEF ReadChunk
<1>2. PICK i \in 1..Final : AtChunk(i)
  BY <1>1 DEF ChunkedInv, Placed
<1>3. ChunkAt(reader.pos) = Chunks[i]
  BY <1>2, TypeFacts, AtOne DEF ChunkedInv, AtChunk
<1>4. i < Final /\ Chunks[i].end <= reader.end
  <2>1. PICK e \in Nat : e = reader.end
    BY TypeFacts DEF ChunkedInv
  <2>2. Status(Chunks[i].at, e) = "chunk"
    BY <1>1, <1>2, <2>1 DEF AtChunk
  <2> QED
    BY <2>1, <2>2, TypeFacts, StatusFacts DEF ChunkedInv
<1>5. PICK f : f = Following
  OBVIOUS
<1>6. f = Chunks[i].from
  BY <1>1, <1>3, <1>5 DEF Following
<1>7. Copy(f, Chunks[i].to, Chunks[i].end)
  BY <1>1, <1>3, <1>6
<1> QED
  BY <1>1, <1>2, <1>4, <1>5, <1>7, CopySteps

(* Where the reader ends up behind the last chunk *)
LEMMA LastChunk ==
    ASSUME ChunkedAssumption, ChunkedInv, NEW i \in 1..Final, NEW p, p = Chunks[i].at,
           Status(p, reader.end) = "completed", body' = body,
           reader' = Consume(reader, ChunkAt(p).end), chunkEnd' = 0, completed' = TRUE
    PROVE  /\ i = Final /\ Chunks[i].from = body.size + 1
           /\ reader' \in Reader /\ reader'.end = reader.end /\ reader'.eof = reader.eof
           /\ Placed' /\ Following' = body.size + 1
<1>1. PICK e \in Nat : e = reader.end
  BY TypeFacts DEF ChunkedInv
<1>2. i = Final /\ Chunks[i].end <= reader.end
  <2>1. Status(Chunks[i].at, e) = "completed"
    BY <1>1
  <2> QED
    BY <1>1, <2>1, TypeFacts, StatusFacts DEF ChunkedInv
<1>3. /\ Chunks[i].end = body.end /\ Chunks[i].to = body.size /\ body.end \in Nat
      /\ Chunks[i].from \in Nat /\ Chunks[i].to = Chunks[i].from - 1
  BY <1>2, TypeFacts, ChunkFacts DEF ChunkedInv
<1>4. PICK q \in Nat : q = ChunkAt(p).end /\ q = body.end
  BY <1>3, TypeFacts, AtOne DEF ChunkedInv
<1>5. /\ reader' \in Reader /\ reader'.pos = q
      /\ reader'.end = reader.end /\ reader'.eof = reader.eof
  <2>1. reader' = Consume(reader, q) /\ reader \in Reader
    BY <1>4, TypeFacts DEF ChunkedInv
  <2>2. /\ Consume(reader, q) \in Reader /\ Consume(reader, q).pos = q
        /\ Consume(reader, q).end = reader.end /\ Consume(reader, q).eof = reader.eof
    BY <2>1, ReaderFacts, EofFacts
  <2> QED
    BY <2>1, <2>2
<1>6. Placed' /\ Following' = body.size + 1
  BY <1>2, <1>3, <1>4, <1>5, ToEnd
<1>7. Chunks[i].from = body.size + 1
  <2>1. body.size = Chunks[i].from - 1
    BY <1>3
  <2> QED
    BY <1>3, <2>1
<1> QED
  BY <1>2, <1>5, <1>6, <1>7

LEMMA ReadFinalSteps ==
    ASSUME ChunkedAssumption, ChunkedInv, ReadFinal
    PROVE  ChunkedInv' /\ PromiseStep
<1>1. /\ call = "some" /\ chunkEnd = 0 /\ Return("end", <<>>)
      /\ UNCHANGED <<environment, position, rest, chunkEnd, written>>
  BY DEF ReadFinal
<1>2. /\ UNCHANGED <<body, client, room, got>> /\ call' = "no" /\ result' = "end"
      /\ failed' = failed /\ Promise!Last' = Promise!Last
  <2>1. UNCHANGED <<body, client, room, got>> /\ call' = "no" /\ result' = "end"
    BY <1>1, NothingReturned DEF ChunkedInv, environment, Return
  <2>2. failed' = failed
    BY <1>1 DEF Return, ChunkedInv, ChunkedOK, ConsumerOK
  <2> QED
    BY <2>1, <2>2 DEF Promise!Last
<1>3. /\ Following = body.size + 1 /\ Following' = body.size + 1 /\ Placed' /\ completed' = TRUE
      /\ reader' \in Reader /\ reader'.end = reader.end /\ reader'.eof = reader.eof
  <2>1. CASE completed /\ UNCHANGED <<reader, completed>>
    <3>1. reader.pos = body.end /\ reader.pos <= reader.end /\ completed = TRUE
      BY <2>1 DEF ChunkedInv, Placed, ChunkedOK
    <3> QED
      BY <1>1, <1>2, <2>1, <3>1, TypeFacts DEF ChunkedInv, Placed, Following
  <2>2. CASE /\ ~completed /\ Status(reader.pos, reader.end) = "completed"
             /\ reader' = Consume(reader, ChunkAt(reader.pos).end) /\ completed' = TRUE
    <3>1. PICK i \in 1..Final : AtChunk(i)
      BY <2>2 DEF ChunkedInv, Placed
    <3>2. PICK p : p = reader.pos
      OBVIOUS
    <3>3. p = Chunks[i].at
      BY <3>1, <3>2 DEF AtChunk
    <3>4. chunkEnd' = 0 /\ body' = body
      BY <1>1, <1>2
    <3>5. /\ Chunks[i].from = body.size + 1
          /\ reader' \in Reader /\ reader'.end = reader.end /\ reader'.eof = reader.eof
          /\ Placed' /\ Following' = body.size + 1
      BY <2>2, <3>2, <3>3, <3>4, LastChunk
    <3>6. Following = Chunks[i].from
      BY <1>1, <2>2, <3>1, FollowingFacts DEF ChunkedInv
    <3> QED
      BY <2>2, <3>5, <3>6
  <2> QED
    BY <2>1, <2>2 DEF ReadFinal
<1>4. Promise!Last < body.size + 1 /\ (~failed => Promise!Last = body.size)
  <2>1. result \notin GivenUp
    BY <1>1 DEF ChunkedInv, ChunkedInStep, GivenUp
  <2>2. Promise!Last < body.size + 1 /\ (~failed => body.size + 1 = Promise!Last + 1)
    BY <1>1, <1>3, <2>1 DEF ChunkedInv, Delivered
  <2>3. Promise!Last \in Nat /\ body.size \in Nat
    BY TypeFacts DEF ChunkedInv
  <2> QED
    BY <2>2, <2>3
<1>5. ChunkedOK'
  BY <1>1, <1>2, <1>3 DEF ChunkedInv, ChunkedOK, ConsumerOK
<1>6. Delivered'
  <2>1. body.size + 1 \in Nat \ {0} /\ body.size + 1 <= body.size + 1
    BY TypeFacts, Successor DEF ChunkedInv
  <2> QED
    BY <1>2, <1>3, <1>4, <2>1 DEF Delivered
<1>7. Counted' /\ ChunkedInStep'
  BY <1>1, <1>2, <1>3 DEF ChunkedInv, Counted, ChunkedInStep
<1>8. Promise!AtEnd
  <2>1. Flawed' = Flawed /\ body.size' = body.size
    BY <1>1, <1>3, SameFlaw
  <2> QED
    BY <1>1, <1>2, <1>4, <2>1 DEF Promise!AtEnd, Promise!Return
<1> QED
  BY <1>3, <1>5, <1>6, <1>7, <1>8 DEF ChunkedInv, PromiseStep, Promise!Next

(* A step of the reader alone, or of the client *)
LEMMA Stays ==
    ASSUME ChunkedAssumption, ChunkedInv, UNCHANGED <<consumer, chunkedState, body>>,
           client' \in {"open", "fin"}, reader' \in Reader, reader'.eof => client' = "fin",
           Placed', Following' = Following, Flawed' = Flawed \/ Flawed' = TRUE
    PROVE  ChunkedInv' /\ PromiseStep
<1>1. /\ UNCHANGED <<body, call, room, result, failed, got, completed, position, rest, chunkEnd, written>>
      /\ Promise!Last' = Promise!Last
  BY DEF consumer, chunkedState, Promise!Last
<1>2. ChunkedOK'
  BY <1>1 DEF ChunkedInv, ChunkedOK, ConsumerOK
<1>3. Delivered' /\ Counted' /\ ChunkedInStep'
  BY <1>1 DEF ChunkedInv, Delivered, Counted, ChunkedInStep
<1>4. PromiseStep
  BY <1>1 DEF PromiseStep, Promise!Next, Promise!Spoil, Promise!vars
<1> QED
  BY <1>2, <1>3, <1>4 DEF ChunkedInv

(* Where a call finds the reader *)
LEMMA Standing ==
    ASSUME ChunkedAssumption, ChunkedInv, ~completed, chunkEnd = 0
    PROVE  \E i \in 1..Final :
             /\ AtChunk(i) /\ reader.pos = Chunks[i].at /\ Following = Chunks[i].from
             /\ Chunks[i].from \in Nat \ {0} /\ Chunks[i].at \in Nat
             /\ reader.pos <= reader.end
<1>1. PICK i \in 1..Final : AtChunk(i)
  BY DEF ChunkedInv, Placed
<1>2. Following = Chunks[i].from /\ Following \in Nat \ {0}
  BY <1>1, FollowingFacts DEF ChunkedInv
<1>3. Chunks[i].at \in Nat
  BY TypeFacts, ChunkFacts DEF ChunkedInv
<1> QED
  BY <1>1, <1>2, <1>3 DEF AtChunk, ChunkedInv, Placed

LEMMA BetweenLess ==
    ASSUME NEW a \in Nat, NEW b \in Nat, NEW c \in Nat, a < b, b <= c
    PROVE  a < c
<1> QED
  OBVIOUS

LEMMA NotEqualLess ==
    ASSUME NEW a \in Nat, NEW b \in Nat, a <= b, a # b
    PROVE  a < b
<1> QED
  OBVIOUS

(* A body is flawed if a chunk of it is malformed or is cut off. *)
LEMMA FlawFound ==
    ASSUME ChunkedAssumption, ChunkedInv, NEW i \in 1..Final,
           \/ Status(Chunks[i].at, reader.end) = "malformed"
           \/ Status(Chunks[i].at, reader.end) = "need more data" /\ reader.eof
    PROVE  Flawed
<1>1. PICK e \in Nat : e = reader.end
  BY TypeFacts DEF ChunkedInv
<1>2. \/ body.corrupt
      \/ e < Chunks[i].end /\ reader.eof
  BY <1>1, TypeFacts, StatusFacts DEF ChunkedInv
<1>3. Chunks[i].end <= body.end /\ Chunks[i].end \in Nat /\ body.end \in Nat
  BY TypeFacts, InBody, ChunkFacts DEF ChunkedInv
<1>4. ASSUME e < Chunks[i].end PROVE reader.end < body.end
  <2>1. PICK a \in Nat, b \in Nat : a = Chunks[i].end /\ b = body.end
    BY <1>3
  <2>2. e < a /\ a <= b
    BY <1>3, <1>4, <2>1
  <2>3. e < b
    BY <2>2, BetweenLess
  <2> QED
    BY <1>1, <2>1, <2>3
<1> QED
  BY <1>2, <1>4 DEF Flawed, ChunkedInv, ChunkedInStep

(* Nothing that was handed out is in front of the reader. *)
LEMMA InOrder ==
    ASSUME ChunkedAssumption, ChunkedInv, Following \in Nat
    PROVE  Promise!Last < Following
<1>1. PICK from \in Nat \ {0} : Promise!Last < from /\ from <= Following
  BY DEF ChunkedInv, Delivered
<1>2. Promise!Last \in Nat
  BY TypeFacts DEF ChunkedInv
<1> QED
  BY <1>1, <1>2

LEMMA ReadNothingSteps ==
    ASSUME ChunkedAssumption, ChunkedInv, ReadNothing
    PROVE  ChunkedInv' /\ PromiseStep
<1>1. /\ call = "some" /\ chunkEnd = 0 /\ ~completed
      /\ UNCHANGED <<environment, chunkedState>>
      /\ \/ Status(reader.pos, reader.end) = "malformed" /\ Return("failed", <<>>)
            /\ reader' = Unadvanced(reader)
         \/ /\ Status(reader.pos, reader.end) = "need more data"
            /\ reader' = ExamineAll(reader)
            /\ IF reader.eof THEN Return("failed", <<>>) ELSE UNCHANGED consumer
  BY DEF ReadNothing, StreamEnded
<1>2. PICK i \in 1..Final :
        /\ reader.pos = Chunks[i].at /\ Following = Chunks[i].from
        /\ Chunks[i].from \in Nat \ {0} /\ reader.pos <= reader.end
  BY <1>1, Standing
<1>3. /\ reader' \in Reader /\ reader'.pos = reader.pos
      /\ reader'.end = reader.end /\ reader'.eof = reader.eof
  <2>1. /\ ExamineAll(reader) \in Reader /\ ExamineAll(reader).pos = reader.pos
        /\ ExamineAll(reader).end = reader.end /\ ExamineAll(reader).eof = reader.eof
        /\ reader \in Reader
    BY TypeFacts, ReaderFacts, EofFacts DEF ChunkedInv
  <2>2. /\ Unadvanced(reader) \in Reader /\ Unadvanced(reader).pos = reader.pos
        /\ Unadvanced(reader).end = reader.end /\ Unadvanced(reader).eof = reader.eof
    BY <2>1, UnadvancedFacts
  <2> QED
    BY <1>1, <2>1, <2>2
<1>4. /\ UNCHANGED <<body, client, completed, position, rest, chunkEnd, written>>
      /\ completed' = FALSE /\ chunkEnd' = 0
  BY <1>1 DEF environment, chunkedState, ChunkedInv, ChunkedOK
<1>5. Placed' /\ Following' = Following
  <2>1. reader'.pos = Chunks[i].at /\ Chunks[i].at <= reader'.end
    BY <1>2, <1>3
  <2> QED
    BY <1>2, <1>4, <2>1, ToChunk DEF ChunkedInv
<1>6. CASE Return("failed", <<>>)
  <2>1. Flawed
    BY <1>1, <1>2, <1>6, FlawFound DEF ReadNothing, StreamEnded, consumer, Return, ChunkedInv, ChunkedInStep
  <2>2. PICK to \in Nat : to + 1 = Following
    <3>1. Following - 1 \in Nat /\ Following - 1 + 1 = Following
      BY <1>2
    <3> QED
      BY <3>1
  <2>3. Promise!Last < to + 1
    BY <2>2, <1>2, InOrder
  <2>4. written' \in Seq(1..body.size) /\ position' \in Nat /\ rest' \in Held /\ chunkEnd' \in 0..body.end
    BY <1>4 DEF ChunkedInv, ChunkedOK
  <2> QED
    BY <1>1, <1>3, <1>4, <1>5, <1>6, <2>1, <2>2, <2>3, <2>4, Breaks
<1>7. CASE UNCHANGED consumer
  <2>1. Flawed' = Flawed
    BY <1>3, <1>4 DEF Flawed
  <2> QED
    BY <1>1, <1>3, <1>4, <1>5, <1>7, <2>1, Stays DEF ChunkedInv, ChunkedOK, ConsumerOK, ChunkedInStep
<1> QED
  BY <1>1, <1>6, <1>7

LEMMA GiveUpChunkSteps ==
    ASSUME ChunkedAssumption, ChunkedInv, GiveUpChunk
    PROVE  ChunkedInv' /\ PromiseStep
<1>1. /\ call \in {"all", "skip"} /\ chunkEnd # 0
      /\ reader' = Consume(reader, chunkEnd)
      /\ IF call = "all"
         THEN /\ written' = written \o Run(rest.from, rest.to)
              /\ position' = position + rest.to + 1 - rest.from
         ELSE UNCHANGED <<written, position>>
      /\ rest' = NoRest /\ chunkEnd' = 0
      /\ UNCHANGED <<environment, consumer, completed>>
  BY DEF GiveUpChunk, ReleaseChunk
<1>2. ~completed
  BY <1>1 DEF ChunkedInv, Placed
<1>3. PICK i \in 1..Final : AtChunk(i)
  BY <1>2 DEF ChunkedInv, Placed
<1>4. /\ i < Final /\ chunkEnd = Chunks[i].end /\ chunkEnd <= reader.end
      /\ rest.to = Chunks[i].to /\ rest.from = Following
  BY <1>1, <1>2, <1>3 DEF AtChunk, Following
<1>5. PICK f \in Nat \ {0}, to \in Nat :
        f = Following /\ f = rest.from /\ to = rest.to /\ f <= to + 1 /\ to <= body.size
  <2>1. Following \in Nat \ {0} /\ Following <= Chunks[i].to
    BY <1>2, <1>3, <1>4, FollowingFacts DEF ChunkedInv
  <2>2. Chunks[i].to \in Nat /\ Chunks[i].to <= body.size
    BY TypeFacts, ChunkFacts, InBody DEF ChunkedInv
  <2>3. Following <= Chunks[i].to + 1
    BY <2>1, <2>2
  <2> QED
    BY <1>4, <2>1, <2>2, <2>3
<1>6. Collected(to)
  <2>1. position \in Nat
    BY TypeFacts DEF ChunkedInv
  <2>2. position + to + 1 - f = position + (to + 1 - f)
    BY <2>1
  <2>3. IF call = "all"
        THEN written' = written \o Run(f, to) /\ position' = position + (to + 1 - f)
        ELSE UNCHANGED <<written, position>>
    BY <1>1, <1>5, <2>2
  <2> QED
    BY <1>1, <1>5, <2>3, Collects
<1>7. PICK k \in 1..Final : k = i + 1
  BY <1>4, TypeFacts DEF ChunkedInv
<1>8. /\ Chunks[k].at = chunkEnd /\ Chunks[k].from = to + 1 /\ chunkEnd \in Nat
  <2>1. k \in 2..Final /\ k - 1 = i
    BY <1>7, TypeFacts DEF ChunkedInv
  <2>2. Chunks[k].at = Chunks[k - 1].end /\ Chunks[k].from = Chunks[k - 1].to + 1
    BY <2>1, TypeFacts, ChunkFacts DEF ChunkedInv
  <2>3. Chunks[i].end \in Nat
    BY TypeFacts, ChunkFacts DEF ChunkedInv
  <2> QED
    BY <1>4, <1>5, <2>1, <2>2, <2>3
<1>9. /\ reader' \in Reader /\ reader'.pos = chunkEnd
      /\ reader'.end = reader.end /\ reader'.eof = reader.eof
  <2>1. PICK e \in Nat : e = chunkEnd
    BY <1>8
  <2>2. /\ Consume(reader, e) \in Reader /\ Consume(reader, e).pos = e
        /\ Consume(reader, e).end = reader.end /\ Consume(reader, e).eof = reader.eof
    BY TypeFacts, ReaderFacts, EofFacts, ZenonT(60) DEF ChunkedInv
  <2> QED
    BY <1>1, <2>1, <2>2
<1>10. body' = body /\ completed' = FALSE
  BY <1>1, <1>2 DEF environment, ChunkedInv, ChunkedOK
<1>11. Placed' /\ Following' = to + 1
  <2>1. reader'.pos = Chunks[k].at /\ Chunks[k].at <= reader'.end
    BY <1>4, <1>8, <1>9
  <2> QED
    BY <1>1, <1>8, <1>10, <2>1, ToChunk DEF ChunkedInv
<1>12. rest' \in Held /\ chunkEnd' \in 0..body.end
  BY <1>1, TypeFacts DEF ChunkedInv, Held, NoRest
<1> QED
  BY <1>1, <1>6, <1>9, <1>11, <1>12, GoesOn

(* ConsumeBuffered stops at a chunk, and has collected what is in front of it. *)
LEMMA PassOverFacts ==
    ASSUME ChunkedAssumption, ChunkedInv, call \in {"all", "skip"}, chunkEnd = 0, ~completed,
           NEW q, q = Stop(reader.pos, reader.end), PassOver(reader.pos, q)
    PROVE  \E k \in 1..Final, to \in Nat :
             /\ q = Chunks[k].at /\ Chunks[k].at <= reader.end
             /\ Status(Chunks[k].at, reader.end) # "chunk"
             /\ Chunks[k].from = to + 1 /\ Collected(to)
<1>1. PICK e \in Nat : e = reader.end
  BY TypeFacts DEF ChunkedInv
<1>2. PICK i \in 1..Final :
        /\ reader.pos = Chunks[i].at /\ Following = Chunks[i].from
        /\ Chunks[i].from \in Nat \ {0} /\ Chunks[i].at <= e
  BY <1>1, Standing
<1>3. PICK k \in i..Final :
        /\ Stop(Chunks[i].at, e) = Chunks[k].at /\ Chunks[k].at <= e
        /\ Status(Chunks[k].at, e) # "chunk"
  BY <1>1, <1>2, TypeFacts, StopFacts DEF ChunkedInv
<1>4. k \in 1..Final /\ i <= k /\ q = Chunks[k].at
  BY <1>1, <1>2, <1>3
<1>5. PICK f \in Nat \ {0} : f = Chunks[i].from
  BY <1>2
<1>6. PICK to \in Nat : Chunks[k].from = to + 1
  <2>1. Chunks[k].from \in Nat \ {0}
    BY <1>4, TypeFacts, InBody DEF ChunkedInv
  <2>2. Chunks[k].from - 1 \in Nat /\ Chunks[k].from = Chunks[k].from - 1 + 1
    BY <2>1
  <2> QED
    BY <2>2
<1>7. f <= to + 1 /\ to <= body.size
  <2>1. to + 1 <= body.size + 1 /\ body.size \in Nat
    BY <1>4, <1>6, TypeFacts, InBody DEF ChunkedInv
  <2>2. f <= to + 1
    <3>1. CASE i = k
      BY <1>5, <1>6, <3>1
    <3>2. CASE i # k
      <4>1. i < k /\ i < Final
        <5>1. i \in Nat /\ k \in Nat /\ Final \in Nat /\ k <= Final
          BY <1>4, TypeFacts DEF ChunkedInv
        <5>2. i < k
          BY <1>4, <3>2, <5>1, NotEqualLess
        <5> QED
          BY <5>1, <5>2, BetweenLess
      <4>2. Chunks[i].to < Chunks[k].from
        BY <1>4, <4>1, TypeFacts, ChunksOrdered DEF ChunkedInv
      <4>3. Chunks[i].from <= Chunks[i].to /\ Chunks[i].to \in Nat
        BY <4>1, TypeFacts, ChunkFacts DEF ChunkedInv
      <4> QED
        BY <1>5, <1>6, <4>2, <4>3
    <3> QED
      BY <3>1, <3>2
  <2> QED
    BY <2>1, <2>2
<1>8. ChunkAt(reader.pos).from = f /\ ChunkAt(q).from - 1 = to
  <2>1. ChunkAt(Chunks[i].at) = Chunks[i] /\ ChunkAt(Chunks[k].at) = Chunks[k]
    BY <1>4, TypeFacts, AtOne DEF ChunkedInv
  <2>2. to + 1 - 1 = to
    OBVIOUS
  <2> QED
    BY <1>2, <1>4, <1>5, <1>6, <2>1, <2>2
<1>9. Len(Run(f, to)) = to + 1 - f
  BY <1>7, RunFacts
<1>10. IF call = "all"
       THEN written' = written \o Run(f, to) /\ position' = position + (to + 1 - f)
       ELSE UNCHANGED <<written, position>>
  BY <1>8, <1>9 DEF PassOver
<1>11. Collected(to)
  BY <1>2, <1>5, <1>7, <1>10, Collects
<1> QED
  BY <1>1, <1>3, <1>4, <1>6, <1>11

LEMMA ConsumeFinalSteps ==
    ASSUME ChunkedAssumption, ChunkedInv, ConsumeFinal
    PROVE  ChunkedInv' /\ PromiseStep
<1>1. /\ call \in {"all", "skip"} /\ chunkEnd = 0
      /\ IF call = "all" THEN Return("end", written') ELSE Return("skipped", <<>>)
      /\ UNCHANGED <<environment, rest, chunkEnd>>
  BY DEF ConsumeFinal, Consuming
<1>2. body' = body /\ chunkEnd' = 0 /\ body.size \in Nat /\ rest' \in Held /\ chunkEnd' \in 0..body.end
  BY <1>1, TypeFacts DEF environment, ChunkedInv, ChunkedOK
<1>3. /\ Collected(body.size) /\ Following' = body.size + 1 /\ completed' = TRUE /\ Placed'
      /\ reader' \in Reader /\ reader'.end = reader.end /\ reader'.eof = reader.eof
  <2>1. CASE completed /\ UNCHANGED <<reader, completed, position, written>>
    <3>1. reader.pos = body.end /\ reader.pos <= reader.end /\ completed = TRUE
      BY <2>1 DEF ChunkedInv, Placed, ChunkedOK
    <3>2. Following' = body.size + 1 /\ Following = body.size + 1 /\ completed' = TRUE
      BY <1>2, <2>1, <3>1 DEF Following
    <3>3. reader' \in Reader /\ reader'.end = reader.end /\ reader'.eof = reader.eof
      BY <2>1, TypeFacts DEF ChunkedInv
    <3>4. Placed'
      BY <1>2, <2>1, <3>1, ToEnd
    <3>5. PICK n \in Nat : n = body.size
      BY <1>2
    <3>6. n + 1 \in Nat \ {0} /\ n + 1 = Following /\ n + 1 <= n + 1 /\ n + 1 - (n + 1) = 0
      BY <3>2, <3>5
    <3>7. Run(n + 1, n) = <<>>
      BY EmptyRun
    <3>8. IF call = "all"
          THEN written' = written \o Run(n + 1, n) /\ position' = position + (n + 1 - (n + 1))
          ELSE UNCHANGED <<written, position>>
      <4>1. written \o <<>> = written
        <5>1. written \in Seq(1..body.size)
          BY DEF ChunkedInv, ChunkedOK
        <5> QED
          BY <5>1, ConcatEmptySeq, Zenon
      <4>2. position + 0 = position
        BY TypeFacts DEF ChunkedInv
      <4> QED
        BY <2>1, <3>6, <3>7, <4>1, <4>2
    <3>9. n <= body.size
      BY <3>5
    <3>10. PICK f \in Nat \ {0} : f = n + 1
      BY <3>6
    <3>11. Collected(n)
      BY <1>1, <3>6, <3>8, <3>9, <3>10, Collects
    <3> QED
      BY <3>2, <3>3, <3>4, <3>5, <3>11
  <2>2. CASE /\ ~completed
             /\ LET q == Stop(reader.pos, reader.end)
                IN  /\ Status(q, reader.end) = "completed"
                    /\ PassOver(reader.pos, q)
                    /\ reader' = Consume(reader, ChunkAt(q).end)
             /\ completed' = TRUE
    <3>1. PICK q : q = Stop(reader.pos, reader.end)
      OBVIOUS
    <3>2. /\ Status(q, reader.end) = "completed" /\ PassOver(reader.pos, q)
          /\ reader' = Consume(reader, ChunkAt(q).end) /\ ~completed /\ completed' = TRUE
      BY <2>2, <3>1
    <3>3. PICK k \in 1..Final, to \in Nat :
            q = Chunks[k].at /\ Chunks[k].from = to + 1 /\ Collected(to)
      BY <1>1, <3>1, <3>2, PassOverFacts
    <3>4. /\ Chunks[k].from = body.size + 1
          /\ reader' \in Reader /\ reader'.end = reader.end /\ reader'.eof = reader.eof
          /\ Placed' /\ Following' = body.size + 1
      BY <1>2, <3>2, <3>3, LastChunk
    <3>5. to = body.size
      BY <1>2, <3>3, <3>4
    <3> QED
      BY <3>2, <3>3, <3>4, <3>5
  <2> QED
    BY <2>1, <2>2 DEF ConsumeFinal
<1> QED
  BY <1>1, <1>2, <1>3, Completes

LEMMA ConsumeMoreSteps ==
    ASSUME ChunkedAssumption, ChunkedInv, ConsumeMore
    PROVE  ChunkedInv' /\ PromiseStep
<1>1. PICK q : q = Stop(reader.pos, reader.end)
  OBVIOUS
<1>2. /\ call \in {"all", "skip"} /\ chunkEnd = 0 /\ ~completed /\ PassOver(reader.pos, q)
      /\ \/ Status(q, reader.end) = "malformed" /\ Broken /\ reader' = Unadvanced(reader)
         \/ /\ Status(q, reader.end) = "need more data"
            /\ reader' = Examined(q)
            /\ IF reader.eof THEN Broken ELSE UNCHANGED consumer
      /\ UNCHANGED <<environment, completed, rest, chunkEnd>>
  BY <1>1 DEF ConsumeMore, Consuming, StreamEnded
<1>3. PICK k \in 1..Final, to \in Nat :
        /\ q = Chunks[k].at /\ Chunks[k].at <= reader.end
        /\ Chunks[k].from = to + 1 /\ Collected(to)
  BY <1>1, <1>2, PassOverFacts
<1>4. /\ body' = body /\ chunkEnd' = 0 /\ completed' = FALSE
      /\ rest' \in Held /\ chunkEnd' \in 0..body.end
  BY <1>2 DEF environment, ChunkedInv, ChunkedOK
<1>5. /\ written' \in Seq(1..body.size) /\ position' \in Nat
      /\ ~failed /\ call = "skip" => position' = Len(got)
      /\ Promise!Last < to + 1
  <2>1. Len(got) \in Nat /\ Promise!Last \in Nat
    BY TypeFacts DEF ChunkedInv
  <2>2. Len(got) + 0 = Len(got)
    BY <2>1
  <2>3. Promise!Last < to + 1
    <3>1. PICK from \in Nat \ {0} : Promise!Last < from /\ from <= to + 1
      BY <1>3 DEF Collected
    <3> QED
      BY <2>1, <3>1
  <2>4. ~failed /\ call = "skip" => position' = Len(got)
    <3> SUFFICES ASSUME ~failed, call = "skip" PROVE position' = Len(got)
      OBVIOUS
    <3>1. position' = Len(got) + (IF call = "all" THEN Len(written') ELSE 0)
      BY <1>3 DEF Collected
    <3> QED
      BY <2>2, <3>1
  <2> QED
    BY <1>3, <2>3, <2>4 DEF Collected
<1>6. Broken => \/ call \in {"some", "all"} /\ Return("failed", <<>>)
                \/ call = "skip" /\ Return("given up", <<>>)
  BY <1>2 DEF Broken
<1>7. CASE Status(q, reader.end) = "malformed" /\ Broken /\ reader' = Unadvanced(reader)
  <2>1. Flawed
    BY <1>3, <1>7, FlawFound
  <2>2. PICK i \in 1..Final :
          /\ reader.pos = Chunks[i].at /\ Following = Chunks[i].from
          /\ Chunks[i].from \in Nat \ {0} /\ reader.pos <= reader.end
    BY <1>2, Standing
  <2>6. /\ reader' \in Reader /\ reader'.pos = reader.pos
        /\ reader'.end = reader.end /\ reader'.eof = reader.eof
    BY <1>7, TypeFacts, UnadvancedFacts DEF ChunkedInv
  <2>3. Placed' /\ Following' = Following
    <3>1. reader'.pos = Chunks[i].at /\ Chunks[i].at <= reader'.end
      BY <2>2, <2>6
    <3> QED
      BY <1>4, <2>2, <3>1, ToChunk DEF ChunkedInv
  <2>4. PICK n \in Nat : n + 1 = Following
    <3>1. Following - 1 \in Nat /\ Following - 1 + 1 = Following
      BY <2>2
    <3> QED
      BY <3>1
  <2>5. Promise!Last < n + 1
    BY <2>4, <2>2, InOrder
  <2>7. Following' = n + 1
    BY <2>3, <2>4
  <2>8. UNCHANGED <<environment, completed>>
    BY <1>2
  <2>9. \/ call \in {"some", "all"} /\ Return("failed", <<>>)
        \/ call = "skip" /\ Return("given up", <<>>)
    BY <1>6, <1>7
  <2> QED
    BY <1>4, <1>5, <2>1, <2>3, <2>5, <2>6, <2>7, <2>8, <2>9, Breaks
<1>8. CASE /\ Status(q, reader.end) = "need more data"
           /\ reader' = Examined(q)
           /\ IF reader.eof THEN Broken ELSE UNCHANGED consumer
  <2>1. /\ reader' \in Reader /\ reader'.pos = q
        /\ reader'.end = reader.end /\ reader'.eof = reader.eof
    <3>1. q \in Nat /\ reader \in Reader /\ reader.end \in Nat
      BY <1>3, TypeFacts, ChunkFacts DEF ChunkedInv
    <3> QED
      BY <1>8, <3>1 DEF Examined, AdvanceTo, Reader
  <2>2. Placed' /\ Following' = to + 1
    <3>1. reader'.pos = Chunks[k].at /\ Chunks[k].at <= reader'.end
      BY <1>3, <2>1
    <3> QED
      BY <1>3, <1>4, <3>1, ToChunk DEF ChunkedInv
  <2>3. CASE reader.eof
    <3>1. Flawed
      BY <1>3, <1>8, <2>3, FlawFound
    <3>2. \/ call \in {"some", "all"} /\ Return("failed", <<>>)
          \/ call = "skip" /\ Return("given up", <<>>)
      BY <1>6, <1>8, <2>3
    <3>3. UNCHANGED <<environment, completed>>
      BY <1>2
    <3> QED
      BY <1>4, <1>5, <2>1, <2>2, <3>1, <3>2, <3>3, Breaks
  <2>4. CASE ~reader.eof
    <3>1. UNCHANGED <<environment, consumer, completed>>
      BY <1>2, <1>8, <2>4
    <3> QED
      BY <1>2, <1>3, <1>4, <2>1, <2>2, <3>1, GoesOn
  <2> QED
    BY <2>3, <2>4
<1> QED
  BY <1>2, <1>7, <1>8

(* Only an open chunk is waited for: what arrives is behind all that is held. *)
LEMMA ChunkedNetworkSteps ==
    ASSUME ChunkedAssumption, FramingAssumption, ChunkedInv, ChunkedNetwork
    PROVE  ChunkedInv' /\ PromiseStep
<1>1. /\ chunkEnd = 0 /\ ~completed
      /\ \/ client = "open" /\ \E upTo \in reader.end + 1..Ended : reader' = Pull(reader, upTo)
         \/ client = "fin" /\ reader' = PullEnd(reader)
      /\ UNCHANGED <<body, client, consumer, chunkedState>>
  BY DEF ChunkedNetwork, Receive, ChunkedAwaited, environment
<1>2. PICK i \in 1..Final :
        reader.pos = Chunks[i].at /\ Following = Chunks[i].from /\ reader.pos <= reader.end
  BY <1>1, Standing
<1>3. reader \in Reader /\ reader.pos \in Nat /\ reader.end \in Nat /\ body.end \in Nat
  BY TypeFacts DEF ChunkedInv
<1>4. /\ reader' \in Reader /\ reader'.pos = reader.pos /\ reader'.pos <= reader'.end
      /\ reader'.eof => client = "fin"
      /\ client = "fin" => reader'.end = reader.end
      /\ client \in {"open", "fin"}
  <2>1. CASE client = "open"
    <3>1. Ended \in Nat
      BY <1>3 DEF FramingAssumption, Ended
    <3>2. PICK upTo \in reader.end + 1..Ended : reader' = Pull(reader, upTo)
      BY <1>1, <2>1
    <3>3. upTo \in Nat /\ reader.end < upTo
      BY <1>3, <3>1
    <3>4. /\ reader' \in Reader /\ reader'.pos = reader.pos
          /\ reader'.end = upTo /\ reader'.eof = reader.eof
      <4>1. /\ Pull(reader, upTo) \in Reader /\ Pull(reader, upTo).pos = reader.pos
            /\ Pull(reader, upTo).end = upTo /\ Pull(reader, upTo).eof = reader.eof
        BY <1>3, <3>3, ReaderFacts, EofFacts
      <4> QED
        BY <3>2, <4>1
    <3>5. reader'.pos <= reader'.end
      BY <1>2, <1>3, <3>3, <3>4
    <3>6. reader'.eof => client = "fin"
      BY <3>4 DEF ChunkedInv, ChunkedInStep
    <3> QED
      BY <2>1, <3>4, <3>5, <3>6
  <2>2. CASE client = "fin"
    <3>1. reader' \in Reader /\ reader'.pos = reader.pos /\ reader'.end = reader.end
      BY <1>1, <1>3, <2>2, ReaderFacts
    <3> QED
      BY <1>2, <2>2, <3>1
  <2> QED
    BY <1>1, <2>1, <2>2
<1>5. Placed' /\ Following' = Following
  <2>1. chunkEnd' = 0 /\ completed' = FALSE
    BY <1>1 DEF chunkedState, ChunkedInv, ChunkedOK
  <2>2. reader'.pos = Chunks[i].at /\ Chunks[i].at <= reader'.end
    BY <1>2, <1>4
  <2> QED
    BY <1>1, <1>2, <2>1, <2>2, ToChunk DEF ChunkedInv
<1>6. Flawed' = Flawed
  <2>1. CASE client = "fin"
    BY <1>1, <1>4, <2>1 DEF Flawed
  <2>2. CASE client # "fin"
    BY <1>1, <2>2 DEF Flawed
  <2> QED
    BY <2>1, <2>2
<1>7. UNCHANGED <<consumer, chunkedState, body>> /\ client' = client
  BY <1>1
<1> QED
  BY <1>4, <1>5, <1>6, <1>7, Stays

(* The body is spoiled if the client leaves before all of it was received. *)
LEMMA ChunkedClientSteps ==
    ASSUME ChunkedAssumption, ChunkedInv, ChunkedClient
    PROVE  ChunkedInv' /\ PromiseStep
<1>1. client = "open" /\ client' = "fin" /\ UNCHANGED <<body, reader, consumer, chunkedState>>
  BY DEF ChunkedClient, Leave
<1>2. Placed' /\ Following' = Following
  BY <1>1 DEF ChunkedInv, Placed, AtChunk, Following, ChunkAt, At, Chunks, Final, chunkedState
<1>3. Flawed' = Flawed \/ Flawed' = TRUE
  BY <1>1 DEF Flawed
<1>4. reader' \in Reader
  BY <1>1, TypeFacts DEF ChunkedInv
<1> QED
  BY <1>1, <1>2, <1>3, <1>4, Stays

LEMMA ChunkedStarted ==
    ASSUME ChunkedAssumption, ChunkedInit
    PROVE  ChunkedInv /\ Promise!Init
<1>1. /\ body \in ChunkedBodies /\ client = "open" /\ reader = Fresh /\ call = "no"
      /\ room \in Rooms /\ result = "none" /\ failed = FALSE /\ got = <<>>
      /\ completed = FALSE /\ position = 0 /\ rest = NoRest /\ chunkEnd = 0 /\ written = <<>>
  BY DEF ChunkedInit, ConsumerInit
<1>2. reader \in Reader /\ reader.pos = 0 /\ reader.end = 0 /\ reader.eof = FALSE
  BY <1>1 DEF Fresh, Reader
<1>3. /\ 1 \in 1..Final /\ Final \in 1..Final
      /\ Chunks[1].at = 0 /\ Chunks[1].from = 1
      /\ body.size = Chunks[Final].to /\ body.end = Chunks[Final].end
      /\ body.corrupt = \E i \in 1..Final : Chunks[i].bad
  BY <1>1, ChunkFacts
<1>4. body.size \in Nat /\ body.end \in Nat
  BY <1>1, <1>3, ChunkFacts
<1>5. ChunkedOK
  <2>1. got \in Seq(1..body.size) /\ written \in Seq(1..body.size)
    BY <1>1
  <2>2. chunkEnd \in 0..body.end /\ rest \in Held
    BY <1>1, <1>4 DEF Held, NoRest
  <2> QED
    BY <1>1, <1>2, <2>1, <2>2 DEF ChunkedOK, ConsumerOK
<1>6. Placed
  <2>1. AtChunk(1)
    BY <1>1, <1>2, <1>3 DEF AtChunk
  <2> QED
    BY <1>1, <1>2, <1>3, <2>1 DEF Placed
<1>7. Following = 1 /\ Promise!Last = 0
  <2>1. ChunkAt(Chunks[1].at) = Chunks[1]
    BY <1>1, <1>3, AtOne
  <2> QED
    BY <1>1, <1>2, <1>3, <2>1 DEF Following, Promise!Last
<1>8. Delivered
  <2>1. 1 \in Nat \ {0} /\ 0 < 1 /\ 1 <= 1 /\ 1 = 0 + 1
    OBVIOUS
  <2> QED
    BY <1>1, <1>7, <2>1 DEF Delivered
<1>9. Counted /\ ChunkedInStep
  BY <1>1, <1>2 DEF Counted, ChunkedInStep
<1>10. Promise!Init
  <2>1. Flawed \in BOOLEAN
    BY <1>1, <1>3 DEF Flawed
  <2> QED
    BY <1>1, <1>4, <2>1 DEF Promise!Init
<1> QED
  BY <1>5, <1>6, <1>8, <1>9, <1>10 DEF ChunkedInv

LEMMA ChunkedStepped ==
    ASSUME ChunkedAssumption, FramingAssumption, ChunkedInv, [ChunkedNext]_chunkedVars
    PROVE  ChunkedInv' /\ PromiseStep
<1>1. CASE ChunkedConsumer
  BY <1>1, ChunkedConsumerSteps
<1>2. CASE CopyFromChunk
  BY <1>2, CopyFromChunkSteps
<1>3. CASE ReadChunk
  BY <1>3, ReadChunkSteps
<1>4. CASE ReadFinal
  BY <1>4, ReadFinalSteps
<1>5. CASE ReadNothing
  BY <1>5, ReadNothingSteps
<1>6. CASE GiveUpChunk
  BY <1>6, GiveUpChunkSteps
<1>7. CASE ConsumeFinal
  BY <1>7, ConsumeFinalSteps
<1>8. CASE ConsumeMore
  BY <1>8, ConsumeMoreSteps
<1>9. CASE ChunkedNetwork
  BY <1>9, ChunkedNetworkSteps
<1>10. CASE ChunkedClient
  BY <1>10, ChunkedClientSteps
<1>11. CASE UNCHANGED chunkedVars
  <2>1. UNCHANGED <<body, client, reader, consumer, chunkedState>>
    BY <1>11 DEF chunkedVars, chunkedState
  <2>2. Placed' /\ Following' = Following
    BY <2>1 DEF ChunkedInv, Placed, AtChunk, Following, ChunkAt, At, Chunks, Final, chunkedState
  <2>3. Flawed' = Flawed
    BY <2>1 DEF Flawed
  <2>4. /\ client' \in {"open", "fin"} /\ reader' \in Reader
        /\ reader'.eof => client' = "fin"
    BY <2>1, TypeFacts DEF ChunkedInv, ChunkedOK, ConsumerOK, ChunkedInStep
  <2> QED
    BY <2>1, <2>2, <2>3, <2>4, Stays
<1> QED
  BY <1>1, <1>2, <1>3, <1>4, <1>5, <1>6, <1>7, <1>8, <1>9, <1>10, <1>11 DEF ChunkedNext, ChunkedStep

(***************************************************************************)
(* A body with the framing that was chosen for it                          *)
(***************************************************************************)
IInv ==
    IF Chunked THEN ChunkedInv /\ LengthUnused ELSE LengthInv /\ ChunkedUnused

(* The framing a body is read with is the one it was chosen for. *)
LEMMA FramingChosen ==
    /\ ChunkedInv => Chunked
    /\ LengthInv => ~Chunked
<1>1. ChunkedInv => body \in ChunkedBodies
  BY DEF ChunkedInv, ChunkedOK
<1>2. LengthInv => body \in LengthBodies
  BY DEF LengthInv, LengthOK
<1>3. LengthBodies \cap ChunkedBodies = {}
  BY FramingsAssumption DEF FramingAssumption
<1> QED
  BY <1>1, <1>2, <1>3 DEF Chunked

LEMMA Started ==
    ASSUME Init PROVE IInv /\ Promise!Init
<1>1. CASE LengthInit /\ ChunkedUnused
  <2>1. LengthInv /\ Promise!Init
    BY <1>1, FramingsAssumption, LengthStarted
  <2> QED
    BY <1>1, <2>1, FramingChosen DEF IInv
<1>2. CASE ChunkedInit /\ LengthUnused
  <2>1. ChunkedInv /\ Promise!Init
    BY <1>2, FramingsAssumption, ChunkedStarted
  <2> QED
    BY <1>2, <2>1, FramingChosen DEF IInv
<1> QED
  BY <1>1, <1>2 DEF Init

(* A step of the framing that was not chosen is none at all. *)
LEMMA Stepped ==
    ASSUME IInv, [Next]_vars PROVE IInv' /\ PromiseStep
<1>1. CASE Chunked
  <2>1. ChunkedInv /\ LengthUnused
    BY <1>1 DEF IInv
  <2>2. [ChunkedNext]_chunkedVars /\ UNCHANGED lengthState
    BY <1>1 DEF Next, vars, chunkedVars
  <2>3. ChunkedInv' /\ PromiseStep
    BY <2>1, <2>2, FramingsAssumption, ChunkedStepped
  <2>4. LengthUnused'
    BY <2>1, <2>2 DEF LengthUnused, lengthState
  <2>5. Chunked'
    BY <2>3 DEF Chunked, ChunkedInv, ChunkedOK
  <2> QED
    BY <2>3, <2>4, <2>5 DEF IInv
<1>2. CASE ~Chunked
  <2>1. LengthInv /\ ChunkedUnused
    BY <1>2 DEF IInv
  <2>2. [LengthNext]_lengthVars /\ UNCHANGED chunkedState
    BY <1>2 DEF Next, vars, lengthVars
  <2>3. LengthInv' /\ PromiseStep
    BY <2>1, <2>2, FramingsAssumption, LengthStepped
  <2>4. ChunkedUnused'
    BY <2>1, <2>2 DEF ChunkedUnused, chunkedState
  <2>5. ~Chunked'
    <3>1. (body \in LengthBodies)'
      BY <2>3 DEF LengthInv, LengthOK
    <3> QED
      BY <3>1, FramingsAssumption DEF Chunked, FramingAssumption
  <2> QED
    BY <2>3, <2>4, <2>5 DEF IInv
<1> QED
  BY <1>1, <1>2

LEMMA Invariant == Spec => []IInv
<1>1. Init => IInv
  BY Started
<1>2. IInv /\ [Next]_vars => IInv'
  BY Stepped
<1> QED
  BY <1>1, <1>2, PTL DEF Spec

(* The state of the chosen framing keeps its type, that of the other its     *)
(* initial values.                                                           *)
THEOREM TypeCorrect == Spec => []TypeOK
<1>1. IInv => TypeOK
  BY DEF IInv, TypeOK, LengthInv, ChunkedInv
<1> QED
  BY <1>1, Invariant, PTL

(* SkipAsync that reports success has moved the reader behind the last unit  *)
(* of the body (ContentLengthFraming.cs), or behind the last chunk and its   *)
(* trailers (ChunkedFraming.cs), and no further, whether it had to pass over *)
(* units, to release what was held, or found the body read: the loop parses  *)
(* the next request from there.                                              *)
THEOREM AlwaysLands == Spec => []SkipLands
<1>1. LengthInv => SkipLands
  <2> SUFFICES ASSUME LengthInv, result = "skipped" PROVE reader.pos = body.end
    BY DEF SkipLands
  <2>1. heldEnd = 0 /\ remaining = 0 /\ reader.pos + remaining = body.end
    BY DEF LengthInv, LengthInStep, Accounted
  <2>2. reader.pos \in Nat
    BY DEF LengthInv, LengthOK, ConsumerOK, Reader
  <2> QED
    BY <2>1, <2>2
<1>2. ChunkedInv => SkipLands
  BY DEF ChunkedInv, ChunkedInStep, Placed, SkipLands
<1>3. IInv => SkipLands
  BY <1>1, <1>2 DEF IInv
<1> QED
  BY <1>3, Invariant, PTL

(* Position is what the consumer has got: computed from _remaining alone by  *)
(* the length framing, always; as the sum of what the calls have counted by  *)
(* the chunked one, until a call fails.                                      *)
THEOREM AlwaysHandedOut == Spec => []PositionIsHandedOut
<1>1. LengthInv => LengthHandedOut
  <2> SUFFICES ASSUME LengthInv, result \notin GivenUp, call # "skip"
               PROVE  body.size - remaining = Len(got)
    BY DEF LengthHandedOut, GivenUp
  <2>1. Len(got) + remaining = body.size
    BY DEF LengthInv, FromTheFront
  <2>2. got \in Seq(1..body.size) /\ body.size \in Nat
    BY FramingsAssumption, BodyFacts DEF LengthInv, LengthOK, ConsumerOK
  <2>3. remaining \in Nat /\ Len(got) \in Nat
    BY <2>2 DEF LengthInv, LengthOK
  <2> QED
    BY <2>1, <2>2, <2>3
<1>2. ChunkedInv => ChunkedHandedOut
  <2> SUFFICES ASSUME ChunkedInv, ~failed, call = "no" PROVE position = Len(got)
    BY DEF ChunkedHandedOut
  <2>1. Len(got) \in Nat
    BY FramingsAssumption, TypeFacts DEF ChunkedInv
  <2> QED
    BY <2>1 DEF ChunkedInv, Counted
<1>3. IInv => PositionIsHandedOut
  BY <1>1, <1>2 DEF IInv, PositionIsHandedOut
<1> QED
  BY <1>3, Invariant, PTL

(* The framings implement IBodyFraming as BodyReader states it: whatever the *)
(* consumer calls and however the stream is cut into reads, every unit is    *)
(* handed out at most once and in order, none is missing before a call       *)
(* fails, and only a body that is malformed or cut off makes a call fail.    *)
THEOREM KeepsPromise == Spec => PromiseKept
<1>1. Init => Promise!Init
  BY Started
<1>2. IInv /\ [Next]_vars => [Promise!Next]_(Promise!vars)
  BY Stepped DEF PromiseStep
<1> QED
  BY <1>1, <1>2, Invariant, PTL DEF Spec, PromiseKept, Promise!Spec
=============================================================================
