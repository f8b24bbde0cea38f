---------------------------- MODULE BodyFraming ----------------------------
(***************************************************************************)
(* What the framings of a request body have in common: the consumer that   *)
(* calls them, the pipe reader of the connection they read from and the    *)
(* client at its other end.  LengthFraming and ChunkedFraming extend this  *)
(* module with the calls themselves.                                       *)
(*                                                                         *)
(* The reader is at the first unit of the body in the beginning.  Behind   *)
(* the body the client sends "Extra" units of its next request, which a    *)
(* framing must leave alone.                                               *)
(***************************************************************************)
EXTENDS Naturals, Sequences, PipeReader

CONSTANTS
    LengthBodies,   \* the bodies of a known length a client may send
    ChunkedBodies,  \* the ones it may send in chunks
    Rooms,          \* the sizes of the buffers the consumer reads into
    Extra           \* units of the next request

FramingAssumption ==
    /\ Rooms \subseteq Nat \ {0} /\ Extra \in Nat
    /\ LengthBodies \cap ChunkedBodies = {}

VARIABLES
    body,       \* the body: its size, the unit behind it, is it corrupt?
    client,     \* the client's half of the connection
    reader,     \* the pipe reader of the connection
    call,       \* the call the consumer waits for
    room,       \* the size of its buffer
    result,     \* how the last call ended
    failed,     \* has a call failed?
    got         \* the units handed out so far

environment == <<body, client>>
consumer == <<call, room, result, failed, got>>

Calls == {"some", "all", "skip"}

ConsumerOK ==
    /\ client \in {"open", "fin"}
    /\ reader \in Reader
    /\ call \in {"no"} \cup Calls
    /\ room \in Rooms
    /\ result \in {"none", "data", "end", "failed", "skipped", "given up"}
    /\ failed \in BOOLEAN
    /\ got \in Seq(1..body.size)

ConsumerInit(bodies) ==
    /\ body \in bodies
    /\ client = "open"
    /\ reader = Fresh
    /\ call = "no"
    /\ room \in Rooms
    /\ result = "none"
    /\ failed = FALSE
    /\ got = <<>>

(* The consumer reads, whatever happened before, or gives the body up. *)
Call(how) ==
    /\ call = "no" /\ result \notin {"skipped", "given up"}
    /\ call' = how
    /\ room' \in Rooms
    /\ result' = "none"
    /\ UNCHANGED <<body, client, reader, failed, got>>

Return(outcome, units) ==
    /\ call' = "no"
    /\ result' = outcome
    /\ got' = got \o units
    /\ failed' = (failed \/ outcome = "failed")
    /\ UNCHANGED room

Greatest(a, b) == IF a < b THEN b ELSE a
Least(a, b) == IF a < b THEN a ELSE b

ShortRead == TRUE
StreamEnded == reader.eof

Ended == body.end + Extra

(* A read of the stream: some units, or the end of the stream *)
Receive(awaited) ==
    /\ awaited /\ ~Readable(reader)
    /\ \/ client = "open" /\ \E upTo \in reader.end + 1..Ended : reader' = Pull(reader, upTo)
       \/ client = "fin" /\ reader' = PullEnd(reader)
    /\ UNCHANGED <<environment, consumer>>

(* The client ends its half, in the middle of the body or not. *)
Leave ==
    /\ client = "open"
    /\ client' = "fin"
    /\ UNCHANGED <<body, reader, consumer>>

(* The body cannot arrive complete any more, or is malformed *)
Flawed == body.corrupt \/ (client = "fin" /\ reader.end < body.end)

(* A call that says that the body was skipped leaves the reader exactly at  *)
(* the next request, however much of the body was read, held or left.       *)
SkipLands == result = "skipped" => reader.pos = body.end

(* What the framing implements *)
Promise == INSTANCE BodyReader WITH size <- body.size, flawed <- Flawed
PromiseKept == Promise!Spec

(* A malformed chunk makes a call throw without advancing the reader.  What *)
(* is left there is not returned again if everything had been examined      *)
(* before it arrived: the next call asks the stream, and waits for a client *)
(* that may have nothing more to send.                                      *)
Stranded == failed /\ body.corrupt /\ reader.end = Ended /\ ~Readable(reader)

(* Every call returns once the client has sent the body or has left, except *)
(* one that follows a malformed chunk and has been stranded by it.          *)
Returned == call # "no" ~> call = "no" \/ Stranded
=============================================================================
