--------------------------- MODULE MessageStream ---------------------------
(***************************************************************************)
(* What a websocket connection promises the handler that reads from it     *)
(* (IImperativeConnection.ReadFrameAsync): the data its client sends is    *)
(* handed out in order, each fragment once, alone or as a message of all   *)
(* fragments up to FIN; a ping is handed out where it was sent, if need be *)
(* in front of a message that is not complete yet; and nothing ends the    *)
(* stream but a close, a frame that is malformed, or a connection that is  *)
(* broken: the client has left or the server stops.                        *)
(***************************************************************************)
EXTENDS Naturals, Sequences

VARIABLES
    frames,     \* the frames the client sends
    handed,     \* what the handler has been given
    over,       \* has it been told that there is nothing more?
    broken      \* has the client left, or does the server stop?

vars == <<frames, handed, over, broken>>

Indices == 1..Len(frames)
Data == {"more", "last"}

PartsOf(p) == {p[m] : m \in 1..Len(p)}
Delivered(i) == \E k \in 1..Len(handed) : i \in PartsOf(handed[k].parts)

(* Frame i follows what was handed out, but for fragments in front of it. *)
Follows(i) ==
    /\ \A j \in 1..i - 1 : Delivered(j) \/ frames[j] = "more"
    /\ \A j \in i..Len(frames) : ~Delivered(j)

(* The fragments that frame i completes, and the frame itself *)
Fragments(i) == {j \in 1..i : frames[j] \in Data /\ ~Delivered(j)}

Ascending(p) == \A m \in 1..Len(p) : \A o \in 1..m - 1 : p[o] < p[m]

Latest == handed[Len(handed)]

Init ==
    /\ frames \in Seq({"more", "last", "ping", "close", "bad"})
    /\ handed = <<>>
    /\ over = FALSE
    /\ broken = FALSE

Break ==
    /\ broken' = TRUE
    /\ UNCHANGED <<frames, handed, over>>

(* The handler is given one more frame. *)
OneMore == Len(handed') = Len(handed) + 1 /\ handed' = Append(handed, Latest')

HandOut(type) ==
    /\ ~over
    /\ OneMore /\ Latest'.type = type
    /\ UNCHANGED <<frames, broken>>

(* A message, or a fragment if there is none in front of it *)
Message(i) ==
    /\ Follows(i) /\ frames[i] \in Data
    /\ frames[i] = "more" => Fragments(i) = {i}
    /\ HandOut("data")
    /\ PartsOf(Latest'.parts) = Fragments(i) /\ Ascending(Latest'.parts)
    /\ UNCHANGED over

Ping(i) ==
    /\ Follows(i) /\ frames[i] = "ping"
    /\ HandOut("ping")
    /\ Latest'.parts = <<i>>
    /\ UNCHANGED over

Close(i) ==
    /\ Follows(i) /\ frames[i] \in {"close", "bad"}
    /\ HandOut(IF frames[i] = "close" THEN "close" ELSE "error")
    /\ Latest'.parts = <<>>
    /\ over' = TRUE

(* The connection is lost, with a last frame that says so or an exception. *)
Fail ==
    /\ broken /\ ~over
    /\ \/ UNCHANGED handed
       \/ /\ OneMore
          /\ Latest'.type \in {"close", "error"} /\ Latest'.parts = <<>>
    /\ over' = TRUE
    /\ UNCHANGED <<frames, broken>>

Next ==
    \/ \E i \in Indices : Message(i) \/ Ping(i) \/ Close(i)
    \/ Fail \/ Break

Spec == Init /\ [][Next]_vars
=============================================================================
