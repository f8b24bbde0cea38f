--------------------------- MODULE RequestFraming ---------------------------
(***************************************************************************)
(* A request body with the framing RequestBody.ResolveFraming chooses for  *)
(* it.  The one that is not chosen keeps its initial state.  What both     *)
(* promise is stated in BodyFraming.                                       *)
(***************************************************************************)
EXTENDS LengthFraming, ChunkedFraming

ASSUME FramingsAssumption == FramingAssumption /\ LengthAssumption /\ ChunkedAssumption

vars == <<body, client, reader, consumer, lengthState, chunkedState>>

Chunked == body \in ChunkedBodies

LengthUnused == remaining = 0 /\ heldEnd = 0

ChunkedUnused ==
    /\ completed = FALSE /\ position = 0 /\ rest = NoRest
    /\ chunkEnd = 0 /\ written = <<>>

Init ==
    \/ LengthInit /\ ChunkedUnused
    \/ ChunkedInit /\ LengthUnused

Next ==
    \/ ~Chunked /\ LengthNext /\ UNCHANGED chunkedState
    \/ Chunked /\ ChunkedNext /\ UNCHANGED lengthState

Spec == Init /\ [][Next]_vars

LengthMoves == ~Chunked /\ LengthStep /\ UNCHANGED chunkedState
ChunksMove == Chunked /\ ChunkedStep /\ UNCHANGED lengthState
NetworkMoves ==
    \/ ~Chunked /\ LengthNetwork /\ UNCHANGED chunkedState
    \/ Chunked /\ ChunkedNetwork /\ UNCHANGED lengthState

(* What the client sends arrives, and the call is scheduled again. *)
FairSpec == Spec /\ WF_vars(LengthMoves) /\ WF_vars(ChunksMove) /\ WF_vars(NetworkMoves)

(* The type invariants of both framings, of which the other is not touched *)
TypeOK ==
    IF Chunked THEN ChunkedOK /\ LengthUnused ELSE LengthOK /\ ChunkedUnused

(* The position counts what was handed out: always by length, until a call  *)
(* has failed by chunks.                                                    *)
PositionIsHandedOut == IF Chunked THEN ChunkedHandedOut ELSE LengthHandedOut
=============================================================================
