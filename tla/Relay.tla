------------------------------- MODULE Relay -------------------------------
(***************************************************************************)
(* What a relayed websocket connection promises its two ends.  A client    *)
(* asks for it and either learns that it was refused or is switched over,  *)
(* once the host has answered (or the server in between is stopping).      *)
(* From then on both ends get what the other has sent, from front to back, *)
(* and the connection is over when both have stopped and everything they   *)
(* sent has been delivered, or when one of them was lost.                  *)
(*                                                                         *)
(* The units an end sends are the numbers 1..sent[e]; those of the host    *)
(* begin with its answer, the units 1..head.                               *)
(***************************************************************************)
EXTENDS Naturals, Sequences

VARIABLES
    phase,      \* how far the connection is
    stopping,   \* is the server in between being stopped?
    answered,   \* has the host answered?
    head,       \* the units of its answer
    sent,       \* how many units each end has sent
    end,        \* has it stopped sending, or is it lost?
    got         \* the units each end has received

vars == <<phase, stopping, answered, head, sent, end, got>>

Ends == {"client", "host"}
Other(e) == IF e = "client" THEN "host" ELSE "client"

(* The units behind one, up to another, in order *)
Units(behind, to) == [i \in 1..to - behind |-> behind + i]

(* How many units of e the other end has received, or was not to receive *)
Passed(e) == (IF e = "host" THEN head ELSE 0) + Len(got[Other(e)])

TypeOK ==
    /\ phase \in {"asked", "refused", "open", "over"}
    /\ stopping \in BOOLEAN /\ answered \in BOOLEAN
    /\ head \in Nat
    /\ sent \in [Ends -> Nat]
    /\ end \in [Ends -> {"no", "fin", "reset"}]
    /\ got \in [Ends -> Seq(Nat)]

Init ==
    /\ phase = "asked"
    /\ stopping = FALSE /\ answered = FALSE
    /\ head = 0
    /\ sent = [e \in Ends |-> 0]
    /\ end = [e \in Ends |-> "no"]
    /\ got = [e \in Ends |-> <<>>]

(* The client has nothing to say before it is switched over. *)
Send(e) ==
    /\ end[e] = "no"
    /\ phase = "open" \/ (phase = "asked" /\ e = "host")
    /\ sent'[e] \in Nat /\ sent'[e] > sent[e]
    /\ sent' = [sent EXCEPT ![e] = sent'[e]]
    /\ UNCHANGED <<phase, stopping, answered, head, end, got>>

Leave(e, how) ==
    /\ end[e] # "reset"
    /\ end' = [end EXCEPT ![e] = how]
    /\ UNCHANGED <<phase, stopping, answered, head, sent, got>>

Stop ==
    /\ stopping' = TRUE
    /\ UNCHANGED <<phase, answered, head, sent, end, got>>

Answer ==
    /\ phase = "asked" /\ ~answered
    /\ answered' = TRUE
    /\ head' \in 1..sent["host"]
    /\ UNCHANGED <<phase, stopping, sent, end, got>>

Refuse ==
    /\ phase = "asked"
    /\ phase' = "refused"
    /\ UNCHANGED <<stopping, answered, head, sent, end, got>>

Switch ==
    /\ phase = "asked" /\ (answered \/ stopping) /\ end["client"] # "reset"
    /\ phase' = "open"
    /\ UNCHANGED <<stopping, answered, head, sent, end, got>>

(* Some more of what e has sent, in order and without a gap, and even if e  *)
(* is lost by now                                                           *)
Deliver(e) ==
    /\ phase = "open" /\ end[Other(e)] # "reset"
    /\ \E to \in Passed(e) + 1..sent[e] :
        got' = [got EXCEPT ![Other(e)] = @ \o Units(Passed(e), to)]
    /\ UNCHANGED <<phase, stopping, answered, head, sent, end>>

Finish ==
    /\ phase = "open"
    /\ \/ \E e \in Ends : end[e] = "reset"
       \/ \A e \in Ends : end[e] = "fin" /\ Passed(e) = sent[e]
    /\ phase' = "over"
    /\ UNCHANGED <<stopping, answered, head, sent, end, got>>

Next ==
    \/ \E e \in Ends : Send(e) \/ Deliver(e) \/ \E how \in {"fin", "reset"} : Leave(e, how)
    \/ Stop \/ Answer \/ Refuse \/ Switch \/ Finish

Spec == Init /\ [][Next]_vars
=============================================================================
