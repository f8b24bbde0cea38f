--------------------------- MODULE ChunkedFraming ---------------------------
(***************************************************************************)
(* ChunkedFraming.cs: a body sent in chunks.  A chunk is a header of one   *)
(* unit and its data; the last chunk has no data, but may have trailers.   *)
(* The parser (Glyph11's ChunkedBodyStream, external) sees a chunk only    *)
(* once it has been buffered completely, and only from its first unit.     *)
(***************************************************************************)
EXTENDS BodyFraming

CONSTANT MaxPosition    \* bound: no further calls once more units than these were counted

VARIABLES
    completed,  \* _completed
    position,   \* _position
    rest,       \* _segment and _remaining: the units of the chunk held that are to be copied
    chunkEnd,   \* _chunkEnd, 0 for null
    written     \* the writer of ReadToEndAsync

chunkedState == <<completed, position, rest, chunkEnd, written>>
chunkedVars == <<body, client, reader, consumer, chunkedState>>

Chunk == [at : Nat, end : Nat,      \* its first unit, and the one behind it
          from : Nat, to : Nat,     \* the units of the body in it
          bad : BOOLEAN]            \* it is malformed

(* Chunks follow each other without gaps, and so do the units in them. *)
IsChunked(b) ==
    LET c == b.chunks
        n == Len(c)
    IN  /\ c \in Seq(Chunk) /\ n > 0
        /\ c[1].at = 0 /\ c[1].from = 1
        /\ \A i \in 1..n : /\ c[i].end > c[i].at
                           /\ i < n => c[i].to >= c[i].from
                           /\ i < n => c[i].end = c[i].at + 2 + c[i].to - c[i].from
        /\ \A i \in 2..n : c[i].at = c[i - 1].end /\ c[i].from = c[i - 1].to + 1
        /\ c[n].to = c[n].from - 1
        /\ b.size = c[n].to /\ b.end = c[n].end
        /\ b.corrupt = \E i \in 1..n : c[i].bad

ChunkedAssumption == MaxPosition \in Nat /\ \A b \in ChunkedBodies : IsChunked(b)

Chunks == body.chunks
Final == Len(Chunks)

Held == [from : Nat, to : Nat]
NoRest == [from |-> 1, to |-> 0]

ChunkedOK ==
    /\ body \in ChunkedBodies /\ ConsumerOK
    /\ completed \in BOOLEAN
    /\ position \in Nat
    /\ rest \in Held
    /\ chunkEnd \in 0..body.end
    /\ written \in Seq(1..body.size)

ChunkedInit ==
    /\ ConsumerInit(ChunkedBodies)
    /\ completed = FALSE
    /\ position = 0
    /\ rest = NoRest
    /\ chunkEnd = 0
    /\ written = <<>>

(* ReadToEndAsync starts with a writer of its own.  The bound is needed only *)
(* because every failing ReadToEndAsync counts the same units once more.     *)
ChunkedConsumer ==
    /\ position <= MaxPosition
    /\ \E how \in Calls : Call(how)
    /\ written' = <<>>
    /\ UNCHANGED <<completed, position, rest, chunkEnd>>

(***************************************************************************)
(* TryReadChunk on what is buffered from a position on                     *)
(***************************************************************************)
At(p) == {i \in 1..Final : Chunks[i].at = p}

Status(p, end) ==
    IF end = p THEN "need more data"
    ELSE IF At(p) = {} \/ \E i \in At(p) : Chunks[i].bad THEN "malformed"
    ELSE IF \E i \in At(p) : Chunks[i].end > end THEN "need more data"
    ELSE IF Final \in At(p) THEN "completed" ELSE "chunk"

ChunkAt(p) == Chunks[CHOOSE i \in At(p) : TRUE]

(***************************************************************************)
(* ReadAsync                                                               *)
(***************************************************************************)
ReleaseChunk == rest' = NoRest /\ chunkEnd' = 0

(* CopyFromChunk, of the units from and to that are left of a chunk; p is   *)
(* where the reader goes when they have all been copied                     *)
Copy(from, to, p) ==
    LET count == Least(room, to + 1 - from)
    IN  /\ IF from + count > to
           THEN reader' = Consume(reader, p) /\ ReleaseChunk
           ELSE /\ reader' = Unadvanced(reader) /\ chunkEnd' = p
                /\ rest' = [from |-> from + count, to |-> to]
        /\ position' = position + count
        /\ Return("data", Run(from, from + count - 1))

CopyFromChunk ==
    /\ call = "some" /\ chunkEnd # 0
    /\ Copy(rest.from, rest.to, chunkEnd)
    /\ UNCHANGED <<environment, completed, written>>

(* The chunk in front of the reader, as a whole or as the held one *)
ReadChunk ==
    /\ call = "some" /\ chunkEnd = 0 /\ ~completed
    /\ Readable(reader) /\ Status(reader.pos, reader.end) = "chunk"
    /\ LET c == ChunkAt(reader.pos) IN Copy(c.from, c.to, c.end)
    /\ UNCHANGED <<environment, completed, written>>

ReadFinal ==
    /\ call = "some" /\ chunkEnd = 0
    /\ \/ completed /\ UNCHANGED <<reader, completed>>
       \/ /\ ~completed /\ Readable(reader) /\ Status(reader.pos, reader.end) = "completed"
          /\ reader' = Consume(reader, ChunkAt(reader.pos).end)
          /\ completed' = TRUE
    /\ Return("end", <<>>)
    /\ UNCHANGED <<environment, position, rest, chunkEnd, written>>

(* A malformed chunk throws before the reader is advanced, an incomplete one *)
(* is waited for unless the stream has ended.                                *)
ReadNothing ==
    /\ call = "some" /\ chunkEnd = 0 /\ ~completed /\ Readable(reader)
    /\ LET status == Status(reader.pos, reader.end)
       IN  \/ status = "malformed" /\ Return("failed", <<>>) /\ reader' = Unadvanced(reader)
           \/ /\ status = "need more data"
              /\ reader' = ExamineAll(reader)
              /\ IF StreamEnded THEN Return("failed", <<>>) ELSE UNCHANGED consumer
    /\ UNCHANGED <<environment, chunkedState>>

(***************************************************************************)
(* ReadToEndAsync and SkipAsync                                            *)
(***************************************************************************)

(* WriteChunk, or the release at the beginning of SkipAsync *)
GiveUpChunk ==
    /\ call \in {"all", "skip"} /\ chunkEnd # 0
    /\ reader' = Consume(reader, chunkEnd)
    /\ IF call = "all"
       THEN written' = written \o Run(rest.from, rest.to)
            /\ position' = position + rest.to + 1 - rest.from
       ELSE UNCHANGED <<written, position>>
    /\ ReleaseChunk
    /\ UNCHANGED <<environment, consumer, completed>>

(* ConsumeBuffered passes over complete chunks, up to the first that is not *)
Stop(p, end) ==
    CHOOSE q \in {Chunks[i].at : i \in 1..Final} :
        /\ q >= p /\ Status(q, end) # "chunk"
        /\ \A i \in 1..Final : p <= Chunks[i].at /\ Chunks[i].at < q
                => Status(Chunks[i].at, end) = "chunk"

(* The writer gets the data of the chunks passed over, and the position is  *)
(* increased, before anything can be wrong with the next one.               *)
PassOverUncounted(p, q) ==
    IF call = "all"
    THEN written' = written \o Run(ChunkAt(p).from, ChunkAt(q).from - 1) /\ UNCHANGED position
    ELSE UNCHANGED <<written, position>>

PassOver(p, q) ==
    LET data == Run(ChunkAt(p).from, ChunkAt(q).from - 1)
    IN  IF call = "all"
        THEN written' = written \o data /\ position' = position + Len(data)
        ELSE UNCHANGED <<written, position>>

Consuming == call \in {"all", "skip"} /\ chunkEnd = 0

ConsumeFinal ==
    /\ Consuming
    /\ \/ completed /\ UNCHANGED <<reader, completed, position, written>>
       \/ /\ ~completed /\ Readable(reader)
          /\ LET q == Stop(reader.pos, reader.end)
             IN  /\ Status(q, reader.end) = "completed"
                 /\ PassOver(reader.pos, q)
                 /\ reader' = Consume(reader, ChunkAt(q).end)
          /\ completed' = TRUE
    /\ IF call = "all" THEN Return("end", written') ELSE Return("skipped", <<>>)
    /\ UNCHANGED <<environment, rest, chunkEnd>>

BrokenUnlessRead == IF call = "all" THEN Return("failed", <<>>) ELSE Return("skipped", <<>>)
Broken == IF call = "all" THEN Return("failed", <<>>) ELSE Return("given up", <<>>)

Consumed(q) == Consume(reader, q)
Examined(q) == AdvanceTo(reader, q, reader.end)

ConsumeMore ==
    /\ Consuming /\ ~completed /\ Readable(reader)
    /\ LET q == Stop(reader.pos, reader.end)
       IN  /\ PassOver(reader.pos, q)
           /\ \/ Status(q, reader.end) = "malformed" /\ Broken /\ reader' = Unadvanced(reader)
              \/ /\ Status(q, reader.end) = "need more data"
                 /\ reader' = Examined(q)
                 /\ IF StreamEnded THEN Broken ELSE UNCHANGED consumer
    /\ UNCHANGED <<environment, completed, rest, chunkEnd>>

ChunkedStep ==
    \/ CopyFromChunk \/ ReadChunk \/ ReadFinal \/ ReadNothing
    \/ GiveUpChunk \/ ConsumeFinal \/ ConsumeMore

(* The calls that do not return by themselves await the reader. *)
ChunkedAwaited == call # "no" /\ chunkEnd = 0 /\ ~completed

ChunkedNetwork == Receive(ChunkedAwaited) /\ UNCHANGED chunkedState
ChunkedClient == Leave /\ UNCHANGED chunkedState

ChunkedNext == ChunkedConsumer \/ ChunkedStep \/ ChunkedNetwork \/ ChunkedClient

(* Position is the number of units handed out so far, as long as no call has *)
(* failed: a read to the end counts the chunks it passes over before it      *)
(* finds a malformed one, and hands out nothing then.                        *)
ChunkedHandedOut == ~failed => (call = "no" => position = Len(got))
=============================================================================
