--------------------------- MODULE LengthFraming ---------------------------
(***************************************************************************)
(* ContentLengthFraming.cs: a body of a known length.  Unit d of the body  *)
(* is the unit d - 1 of the connection, so what a read hands out depends   *)
(* on where the reader really is.                                          *)
(***************************************************************************)
EXTENDS BodyFraming

VARIABLES
    remaining,  \* _remaining
    heldEnd     \* _heldEnd, 0 for null

lengthState == <<remaining, heldEnd>>
lengthVars == <<body, client, reader, consumer, lengthState>>

LengthAssumption ==
    \A b \in LengthBodies : b.size \in Nat /\ b.end = b.size /\ b.corrupt = FALSE

LengthOK ==
    /\ body \in LengthBodies /\ ConsumerOK
    /\ remaining \in 0..body.size /\ heldEnd \in 0..body.end

LengthInit == ConsumerInit(LengthBodies) /\ remaining = body.size /\ heldEnd = 0

LengthConsumer ==
    /\ \E how \in Calls : Call(how)
    /\ UNCHANGED lengthState

(* The units in front of the reader *)
AheadButOne(n) == Run(reader.pos + 1, reader.pos + n - 1)
Ahead(n) == Run(reader.pos + 1, reader.pos + n)

(* _remaining == 0 *)
NothingLeft ==
    /\ call \in {"some", "all"} /\ remaining = 0
    /\ Return("end", <<>>)
    /\ UNCHANGED <<environment, reader, remaining, heldEnd>>

ReadAsync ==
    /\ call = "some" /\ remaining > 0
    /\ Readable(reader) /\ Available(reader) > 0
    /\ LET count == Least(Least(room, remaining), Available(reader))
       IN  /\ reader' = Consume(reader, reader.pos + count)
           /\ remaining' = remaining - count
           /\ Return("data", Ahead(count))
    /\ UNCHANGED <<environment, heldEnd>>

(* The view of a single segment stays in the buffer of the reader, what is  *)
(* spread over several is copied.                                           *)
HoldView == heldEnd' = reader.pos + remaining /\ reader' = Unadvanced(reader)

ReadRemainingAsync ==
    /\ call = "all" /\ remaining > 0
    /\ Readable(reader) /\ Available(reader) >= remaining
    /\ \/ HoldView
       \/ reader' = Consume(reader, reader.pos + remaining) /\ UNCHANGED heldEnd
    /\ remaining' = 0
    /\ Return("end", Ahead(remaining))
    /\ UNCHANGED environment

(* Not enough: everything is examined, and the end of the stream is an error. *)
ExamineNothing == Consume(reader, reader.pos)
ExamineEverything == ExamineAll(reader)

AwaitMore ==
    /\ call \in {"some", "all"} /\ remaining > 0 /\ Readable(reader)
    /\ Available(reader) < (IF call = "some" THEN 1 ELSE remaining)
    /\ reader' = ExamineEverything
    /\ IF StreamEnded THEN Return("failed", <<>>) ELSE UNCHANGED consumer
    /\ UNCHANGED <<environment, remaining, heldEnd>>

(* SkipAsync: the view is given up first *)
ReleaseView ==
    /\ call = "skip" /\ heldEnd # 0
    /\ reader' = Consume(reader, heldEnd)
    /\ heldEnd' = 0
    /\ UNCHANGED <<environment, consumer, remaining>>

ReportSkipped == Return("skipped", <<>>)
ReportCut == Return("given up", <<>>)

SkipRemainingAsync ==
    /\ call = "skip" /\ heldEnd = 0
    /\ remaining > 0 => Readable(reader)
    /\ LET count == Least(remaining, Available(reader))
           left == remaining - count
       IN  /\ remaining' = left
           /\ reader' = IF remaining > 0 THEN Consume(reader, reader.pos + count) ELSE reader
           /\ IF left = 0 THEN Return("skipped", <<>>)
              ELSE IF reader.eof THEN ReportCut
              ELSE UNCHANGED consumer
    /\ UNCHANGED <<environment, heldEnd>>

LengthStep ==
    \/ NothingLeft \/ ReadAsync \/ ReadRemainingAsync \/ AwaitMore
    \/ ReleaseView \/ SkipRemainingAsync

(* The calls that do not return by themselves await the reader. *)
LengthAwaited == call # "no" /\ remaining > 0

LengthNetwork == Receive(LengthAwaited) /\ UNCHANGED lengthState
LengthClient == Leave /\ UNCHANGED lengthState

LengthNext == LengthConsumer \/ LengthStep \/ LengthNetwork \/ LengthClient

(* Position, length minus remaining, counts what has been handed out. *)
LengthHandedOut ==
    result \notin {"skipped", "given up"} /\ call # "skip" => body.size - remaining = Len(got)
=============================================================================
