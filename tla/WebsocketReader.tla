-------------------------- MODULE WebsocketReader --------------------------
(***************************************************************************)
(* WebsocketConnection.cs: the frames of a client, as a handler reads them.*)
(*                                                                         *)
(* A frame is two units of the connection, its header and its payload.     *)
(* "more" and "last" are data without and with FIN, "bad" is a header the  *)
(* decoder rejects.  Payloads are unmasked in place and handed out as      *)
(* slices of the buffer of the pipe reader, so a frame is only worth       *)
(* something as long as the reader holds it, and may be decoded only once. *)
(***************************************************************************)
EXTENDS Naturals, Sequences, SequencesExt, PipeReader

CONSTANTS
    Scripts,    \* what clients may send, sequences of frames
    Habits      \* what handlers do in the middle of a message

ASSUME HabitsAssumption == Habits \subseteq {"try", "cancel"}
ASSUME ScriptsAssumption ==
    Scripts \subseteq Seq({"more", "last", "ping", "close", "bad"})

VARIABLES
    frames,         \* what the client sends
    manual,         \* Settings.HandleContinuationFramesManually
    allocate,       \* Settings.AllocateFrameData
    client,         \* the client's half of the connection
    running,        \* Request.Server.Running
    reader,         \* _pipeReader
    bufferStart,    \* _bufferStart
    consumed,       \* _consumed
    examined,       \* _examined
    skipFrameInit,  \* _skipFrameInit
    keepValid,      \* _keepPipeReaderBufferValid
    pendingAdvance, \* _pendingAdvance
    parts,          \* the frames whose payload _frame refers to
    inner,          \* innerExamined
    at,             \* where the connection waits: nowhere, for the first frame
                    \* of a message, for the next one, or never again
    unmasked,       \* how often the payload of each frame has been unmasked
    released,       \* has anything been used that was already given back?
    returned        \* the frames the handler has seen

settings == <<frames, manual, allocate>>
positions == <<bufferStart, consumed, examined>>
flags == <<skipFrameInit, keepValid, pendingAdvance>>
vars == <<settings, client, running, reader, positions, flags,
          parts, inner, at, unmasked, released, returned>>

Units == 0..2 * Len(frames)
Indices == 1..Len(frames)

Frame == [type : {"data", "ping", "close", "error"}, parts : Seq(Indices),
          cached : BOOLEAN]

TypeOK ==
    /\ frames \in Scripts /\ manual \in BOOLEAN /\ allocate \in BOOLEAN
    /\ client \in {"open", "fin"} /\ running \in BOOLEAN
    /\ reader \in Reader /\ reader.end \in Units
    /\ bufferStart \in Units
    /\ consumed \in bufferStart..examined /\ examined \in 0..reader.end
    /\ skipFrameInit \in BOOLEAN /\ keepValid \in BOOLEAN /\ pendingAdvance \in BOOLEAN
    /\ parts \in Seq(Indices)
    /\ inner \in Units
    /\ at \in {"idle", "first", "next", "done"}
    /\ unmasked \in [Indices -> Nat]
    /\ released \in BOOLEAN
    /\ returned \in Seq(Frame)

Init ==
    /\ frames \in Scripts /\ manual \in BOOLEAN /\ allocate \in BOOLEAN
    /\ client = "open" /\ running = TRUE
    /\ reader = Fresh
    /\ bufferStart = 0 /\ consumed = 0 /\ examined = 0
    /\ skipFrameInit = FALSE /\ keepValid = FALSE /\ pendingAdvance = FALSE
    /\ parts = <<>> /\ inner = 0
    /\ at = "idle"
    /\ unmasked = [i \in Indices |-> 0]
    /\ released = FALSE
    /\ returned = <<>>

-----------------------------------------------------------------------------
(* Decoding at a position of the buffer *)

At(p) == p \div 2 + 1
Type(i) == IF frames[i] \in {"more", "last"} THEN "data" ELSE frames[i]

(* Less than a frame is there; a header is rejected before its payload is. *)
Incomplete(p) ==
    \/ p = reader.end
    \/ p + 1 = reader.end /\ frames[At(p)] # "bad"

(* A rejected header taken for a whole frame *)
DecodedBeyond(p) ==
    /\ p < reader.end /\ ~Incomplete(p)
    /\ consumed' = p + 2 /\ examined' = p + 2
    /\ unmasked' = IF frames[At(p)] = "bad" THEN unmasked
                   ELSE [unmasked EXCEPT ![At(p)] = @ + 1]
    /\ pendingAdvance' = TRUE

(* A frame, or a rejected header, starts at p. *)
Decoded(p) ==
    /\ p < reader.end /\ ~Incomplete(p)
    /\ consumed' = (IF frames[At(p)] = "bad" THEN p + 1 ELSE p + 2)
    /\ examined' = consumed'
    /\ unmasked' = IF frames[At(p)] = "bad" THEN unmasked
                   ELSE [unmasked EXCEPT ![At(p)] = @ + 1]
    /\ pendingAdvance' = TRUE

-----------------------------------------------------------------------------
(* Handing out a frame *)

Payload(i) == 2 * i - 1
StillThere(slices, r) == \A k \in 1..Len(slices) : Payload(slices[k]) >= r.pos

CachedNever(whenAllocated) == FALSE
Cached(whenAllocated) == whenAllocated /\ allocate

Return(type, slices, cached) ==
    /\ returned' = Append(returned, [type |-> type, parts |-> slices, cached |-> cached])
    /\ at' = IF type \in {"close", "error"} THEN "done" ELSE "idle"

Throw == at' = "done" /\ UNCHANGED returned

(* Frame i by itself; an error or the parsed reason of a close refers to    *)
(* nothing in the buffer.                                                   *)
ReturnFrame(i, cached) ==
    CASE frames[i] = "bad"   -> Return("error", <<>>, cached)
      [] frames[i] = "close" -> Return("close", <<>>, cached)
      [] OTHER               -> Return(Type(i), <<i>>, cached)

-----------------------------------------------------------------------------
(* Advance(): what the last call returned is given back, except for the     *)
(* fragments in front of a control frame.                                   *)
KeepsAll == TRUE
KeepsFragments == keepValid

Advanced ==
    IF ~pendingAdvance THEN reader
    ELSE IF KeepsFragments THEN AdvanceTo(reader, bufferStart, examined)
    ELSE AdvanceTo(reader, consumed, examined)

(* The connection waits for a frame unless the server has stopped. *)
Await(where, p) ==
    IF running THEN at' = where /\ inner' = p /\ UNCHANGED returned
    ELSE Throw /\ UNCHANGED inner

(* The loop over fragments reports a stop, if it is the first to notice it.  *)
AwaitNext(p) ==
    \/ Await("next", p)
    \/ ~running /\ Return("error", <<>>, FALSE) /\ UNCHANGED inner

(* ReadFrameAsync, which starts a message or resumes the one a control      *)
(* frame has interrupted.                                                   *)
ReadFrameAsync ==
    /\ at = "idle" /\ ~skipFrameInit
    /\ reader' = Advanced
    /\ Await("first", 0)
    /\ keepValid' = (keepValid /\ ~pendingAdvance)
    /\ pendingAdvance' = FALSE
    /\ UNCHANGED <<settings, client, running, positions, skipFrameInit, parts,
                   unmasked, released>>

ResumeFrameAsync ==
    /\ at = "idle" /\ skipFrameInit
    /\ reader' = IF running THEN AdvanceTo(Advanced, bufferStart, examined) ELSE Advanced
    /\ released' = (released \/ (running /\ bufferStart < Advanced.pos))
    /\ skipFrameInit' = FALSE
    /\ AwaitNext(examined)
    /\ keepValid' = (keepValid /\ ~pendingAdvance)
    /\ pendingAdvance' = FALSE
    /\ UNCHANGED <<settings, client, running, positions, parts, unmasked>>

-----------------------------------------------------------------------------
(* ReadFrameSegmentAsync, after a read of the pipe *)

HasRead == at \in {"first", "next"} /\ Readable(reader)

(* Where the frame that is waited for starts *)
StartExamined == IF at = "first" THEN reader.pos ELSE examined
Start == IF at = "first" THEN reader.pos ELSE inner

CleanEnd ==
    /\ HasRead /\ Available(reader) = 0 /\ reader.eof
    /\ reader' = Consume(reader, reader.end)
    /\ bufferStart' = reader.end /\ consumed' = reader.end /\ examined' = reader.end
    /\ Return("close", <<>>, FALSE)
    /\ UNCHANGED <<settings, client, running, flags, parts, inner, unmasked, released>>

ExamineNothing == Consume(reader, reader.pos)
ExamineBuffer == ExamineAll(reader)

NeedsMore ==
    /\ HasRead /\ Available(reader) > 0 /\ ~reader.eof /\ Incomplete(Start)
    /\ reader' = ExamineBuffer
    /\ bufferStart' = reader.pos /\ consumed' = Start /\ examined' = reader.end
    /\ Await(at, inner)
    /\ UNCHANGED <<settings, client, running, flags, parts, unmasked, released>>

(* The stream ends inside a frame.  Everything is consumed; a message that   *)
(* was being assembled is copied all the same, which throws.                 *)
CutOff ==
    /\ HasRead /\ Available(reader) > 0 /\ reader.eof /\ Incomplete(Start)
    /\ reader' = Consume(reader, reader.end)
    /\ bufferStart' = reader.pos /\ consumed' = reader.end /\ examined' = reader.end
    /\ IF at = "next" /\ allocate
       THEN released' = TRUE /\ Throw
       ELSE Return("error", <<>>, FALSE) /\ UNCHANGED released
    /\ UNCHANGED <<settings, client, running, flags, parts, inner, unmasked>>

(* The copy of SetCachedData *)
Copied(slices) == released' = (released \/ ~StillThere(slices, reader))

(* The first frame of a message, or any frame if fragments are not assembled *)
FirstFrame ==
    /\ HasRead /\ at = "first" /\ Decoded(Start)
    /\ bufferStart' = reader.pos
    /\ LET i == At(Start)
       IN  /\ parts' = IF manual THEN parts ELSE <<i>>
           /\ IF frames[i] = "more" /\ ~manual
              THEN /\ reader' = AdvanceTo(reader, reader.pos, examined')
                   /\ AwaitNext(examined')
              ELSE /\ ReturnFrame(i, Cached(~manual))
                   /\ UNCHANGED <<reader, inner>>
    /\ UNCHANGED <<settings, client, running, skipFrameInit, keepValid, released>>

(* Another fragment: the message is complete, or goes on. *)
NextFragment ==
    /\ HasRead /\ at = "next" /\ Decoded(Start)
    /\ bufferStart' = reader.pos
    /\ LET i == At(Start)
       IN  /\ Type(i) = "data"
           /\ parts' = Append(parts, i)
           /\ IF frames[i] = "last"
              THEN /\ Return("data", parts', Cached(TRUE))
                   /\ IF allocate THEN Copied(parts') ELSE UNCHANGED released
                   /\ UNCHANGED <<reader, inner>>
              ELSE /\ reader' = AdvanceTo(reader, reader.pos, examined')
                   /\ AwaitNext(examined')
                   /\ UNCHANGED released
    /\ UNCHANGED <<settings, client, running, skipFrameInit, keepValid>>

(* A control frame or an error in the middle of a message; what is assembled *)
(* so far is copied, not what is returned.                                   *)
Interrupted ==
    /\ HasRead /\ at = "next" /\ Decoded(Start)
    /\ bufferStart' = reader.pos
    /\ LET i == At(Start)
       IN  /\ Type(i) # "data"
           /\ IF frames[i] = "ping"
              THEN keepValid' = TRUE /\ skipFrameInit' = TRUE
              ELSE UNCHANGED <<keepValid, skipFrameInit>>
           /\ ReturnFrame(i, FALSE)
    /\ IF allocate THEN Copied(parts) ELSE UNCHANGED released
    /\ UNCHANGED <<settings, client, running, reader, parts, inner>>

(* The token of the call fires while it waits for data. *)
CancelRead ==
    /\ at \in {"first", "next"} /\ ~Readable(reader)
    /\ at = "next" => "cancel" \in Habits
    /\ at' = "idle"
    /\ UNCHANGED <<settings, client, running, reader, positions, flags, parts,
                   inner, unmasked, released, returned>>

Read ==
    \/ CleanEnd \/ NeedsMore \/ CutOff
    \/ FirstFrame \/ NextFragment \/ Interrupted

-----------------------------------------------------------------------------
(* TryReadFrame, which decodes single frames from what the reader has got;   *)
(* when the stream has ended, pipes differ in what they answer.              *)
Try ==
    /\ at = "idle"
    /\ skipFrameInit => "try" \in Habits
    /\ keepValid' = (keepValid /\ ~pendingAdvance)
    /\ UNCHANGED <<settings, client, running, skipFrameInit, parts, inner, released>>

TryNothing ==
    /\ Try /\ ~HasMore(Advanced)
    /\ reader' = Advanced
    /\ pendingAdvance' = FALSE
    /\ UNCHANGED <<positions, at, unmasked, returned>>

TryEnd ==
    /\ Try /\ Available(Advanced) = 0 /\ reader.eof
    /\ reader' = Consume(Advanced, reader.end)
    /\ bufferStart' = reader.end /\ consumed' = reader.end /\ examined' = reader.end
    /\ pendingAdvance' = FALSE
    /\ Return("close", <<>>, FALSE)
    /\ UNCHANGED unmasked

TryPartial ==
    /\ Try /\ HasMore(Advanced) /\ Incomplete(Advanced.pos)
    /\ reader' = ExamineAll(Advanced)
    /\ bufferStart' = Advanced.pos /\ consumed' = Advanced.pos /\ examined' = reader.end
    /\ pendingAdvance' = FALSE
    /\ UNCHANGED <<at, unmasked, returned>>

TryFrame ==
    /\ Try /\ HasMore(Advanced) /\ Decoded(Advanced.pos)
    /\ reader' = Advanced
    /\ bufferStart' = Advanced.pos
    /\ ReturnFrame(At(Advanced.pos), Cached(TRUE))

TryReadFrame == TryNothing \/ TryEnd \/ TryPartial \/ TryFrame

-----------------------------------------------------------------------------
connection == <<positions, flags, parts, inner, at, unmasked, released, returned>>

(* The pipe asks the stream: some units, its end, or, with the pipes of some  *)
(* engines, both at once.                                                     *)
Receive ==
    /\ at \in {"first", "next"} /\ ~Readable(reader)
    /\ \/ /\ client = "open"
          /\ \E upTo \in reader.end + 1..2 * Len(frames) :
               \/ reader' = Pull(reader, upTo) /\ UNCHANGED client
               \/ reader' = PullEnd(Pull(reader, upTo)) /\ client' = "fin"
       \/ client = "fin" /\ reader' = PullEnd(reader) /\ UNCHANGED client
    /\ UNCHANGED <<settings, running, connection>>

(* The client leaves, after a frame or inside one. *)
Leave ==
    /\ client = "open" /\ client' = "fin"
    /\ UNCHANGED <<settings, running, reader, connection>>

Stop ==
    /\ running /\ running' = FALSE
    /\ UNCHANGED <<settings, client, reader, connection>>

Handler == ReadFrameAsync \/ ResumeFrameAsync \/ TryReadFrame \/ CancelRead

Next == Handler \/ Read \/ Receive \/ Leave \/ Stop

Spec == Init /\ [][Next]_vars

(* The loop of the handler reads on (ReactiveWebsocketContent), its reads    *)
(* are scheduled, and what the client sends arrives, also at a read that     *)
(* follows a cancelled one.                                                  *)
FairSpec ==
    /\ Spec
    /\ WF_vars(ReadFrameAsync \/ ResumeFrameAsync) /\ WF_vars(Read) /\ SF_vars(Receive)

-----------------------------------------------------------------------------
Handed == {returned[k] : k \in 1..Len(returned)}
Parts(k) == returned[k].parts

(* Every fragment and every ping reaches the handler in the order they were    *)
(* sent, each once and none missing; an assembled message goes up to FIN and    *)
(* no further.                                                                  *)
InPlace(k, m) ==
    /\ Type(Parts(k)[m]) = returned[k].type
    /\ \A l \in 1..k : \A o \in 1..Len(Parts(l)) :
        returned[l].type = returned[k].type /\ (l < k \/ o < m) => Parts(l)[o] < Parts(k)[m]
    /\ \A i \in 1..Parts(k)[m] :
        Type(i) = returned[k].type => \E l \in 1..k : i \in ToSet(Parts(l))

MessagesWhole ==
    \A k \in 1..Len(returned) :
        /\ \A m \in 1..Len(Parts(k)) : InPlace(k, m)
        /\ returned[k].type = "data" /\ Len(Parts(k)) > 1 =>
            \A m \in 1..Len(Parts(k)) : frames[Parts(k)[m]] = "last" <=> m = Len(Parts(k))

(* What a handler can rely on: every fragment and every ping reaches it in the  *)
(* order they were sent, each once and none missing; an assembled message goes  *)
(* up to FIN and no further; and the stream ends only with a close, a malformed *)
(* frame, a client that left or a server that stops.                            *)
Promise == INSTANCE MessageStream WITH
    handed <- returned,
    over <- at = "done",
    broken <- client = "fin" \/ ~running
StreamKept == Promise!Spec

(* A payload is unmasked in place, so decoding it again would garble it: no    *)
(* interruption, cancelled read or partial frame makes the reader do that.     *)
UnmaskedOnce == \A i \in Indices : unmasked[i] <= 1

(* Nothing is used that has been given back to the reader: not by the reader   *)
(* itself, unless the stream ended inside a message, and not by a handler that *)
(* looks at a frame until its next call, or, unless the builder says           *)
(* otherwise, at a message ever after.                                         *)
DataKept ==
    /\ released => reader.eof
    /\ \A k \in 1..Len(returned) :
        LET f == returned[k]
        IN  \/ at = "idle" /\ k = Len(returned) /\ pendingAdvance
            \/ allocate /\ ~manual /\ f.type = "data"
            => f.cached \/ StillThere(f.parts, reader)

(* A client that stays gets every complete message to the handler.             *)
Owed == {i \in Indices : frames[i] # "more"}
Delivered ==
    <>[](client = "open" /\ running) =>
        <>(at = "done" \/ \A i \in Owed : \E f \in Handed : i \in ToSet(f.parts))
=============================================================================
