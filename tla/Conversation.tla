---------------------------- MODULE Conversation ----------------------------
(***************************************************************************)
(* What a connection of the engine promises its client.  Requests are      *)
(* answered one by one: first the first, never one whose header is not     *)
(* there yet, with an interim response only for a client that expects it,  *)
(* and kept open only for a client that wants it.  A response that says    *)
(* that the connection is to be closed is the last one.  And the           *)
(* connection is not closed without a reason: the client has gone or has   *)
(* kept the server waiting, the server stops, a handler has handed the     *)
(* connection over to another protocol, or what was said to the client     *)
(* tells why.                                                              *)
(***************************************************************************)
EXTENDS Naturals, Sequences

CONSTANT HeadLen    \* the units of a request header

VARIABLES
    requests,   \* the requests the client sends, as in ClientHandler
    arrived,    \* how many units of them have reached the server
    client,     \* the client's half of the connection
    late,       \* has the client kept the server waiting for too long?
    stopping,   \* does the server stop?
    taken,      \* was the connection handed over to another protocol?
    got,        \* the messages the client has received
    over        \* has the server closed the connection?

vars == <<requests, arrived, client, late, stopping, taken, got, over>>

(* The header of a request is there. *)
Asked(i) == requests[i].at + HeadLen <= arrived

Proper(m) ==
    /\ m.req \in 1..Len(requests) /\ Asked(m.req)
    /\ m.part = "continue" => requests[m.req].expect /\ requests[m.req].framing # "none"
    /\ m.part = "head" /\ m.keep => requests[m.req].keep /\ requests[m.req].valid

Refuses(m) == m.part = "head" /\ ~m.keep

Ranks == [continue |-> 1, head |-> 2, end |-> 3]

Succeeds(m, n) ==
    \/ n.req = m.req /\ Ranks[m.part] < Ranks[n.part]
    \/ n.req = m.req + 1 /\ m.part = "end"

Legal(s) ==
    /\ s # <<>> => s[1].req = 1
    /\ \A k \in 1..Len(s) : Proper(s[k])
    /\ \A k \in 1..Len(s) - 1 : Succeeds(s[k], s[k + 1])
    /\ \A j, k \in 1..Len(s) : j < k /\ Refuses(s[j]) => s[k].req = s[j].req

Init ==
    /\ arrived = 0
    /\ client = "open"
    /\ late = FALSE /\ stopping = FALSE /\ taken = FALSE
    /\ got = <<>>
    /\ over = FALSE

Arrive ==
    /\ ~over
    /\ arrived' \in Nat /\ arrived' > arrived
    /\ UNCHANGED <<requests, client, late, stopping, taken, got, over>>

Leave ==
    /\ ~over /\ client # "reset"
    /\ client' \in {"fin", "reset"}
    /\ UNCHANGED <<requests, arrived, late, stopping, taken, got, over>>

Linger ==
    /\ ~over
    /\ late' = TRUE
    /\ UNCHANGED <<requests, arrived, client, stopping, taken, got, over>>

Stop ==
    /\ ~over
    /\ stopping' = TRUE
    /\ UNCHANGED <<requests, arrived, client, late, taken, got, over>>

HandOver ==
    /\ ~over
    /\ \E i \in 1..Len(requests) : Asked(i) /\ requests[i].valid
    /\ taken' = TRUE
    /\ UNCHANGED <<requests, arrived, client, late, stopping, got, over>>

(* The client is told some more, if it is there to hear it. *)
Said ==
    /\ client = "reset" => got' = got
    /\ Len(got) <= Len(got') /\ \A k \in 1..Len(got) : got'[k] = got[k]
    /\ Legal(got')

Say ==
    /\ ~over
    /\ UNCHANGED <<requests, arrived, client, late, stopping, taken, over>>
    /\ Said

(* The client has the whole response: its time for the next request starts. *)
Await ==
    /\ ~over
    /\ late' = FALSE
    /\ UNCHANGED <<requests, arrived, client, stopping, taken, over>>
    /\ Said /\ (client # "reset" => got' # <<>> /\ got'[Len(got')].part = "end")

Excused == client # "open" \/ late \/ stopping \/ taken

(* It was told so, its response has failed in the middle, or the body of    *)
(* its request cannot be told from the next request.                        *)
Explained(s) ==
    \/ \E k \in 1..Len(s) : Refuses(s[k])
    \/ /\ s # <<>>
       /\ LET last == s[Len(s)]
          IN  \/ last.part = "head"
              \/ /\ last.part = "end"
                 /\ \/ requests[last.req].corrupt
                    \/ requests[last.req].framing = "unsupported"

Close ==
    /\ ~over
    /\ over' = TRUE
    /\ UNCHANGED <<requests, arrived, client, late, stopping, taken>>
    /\ Said
    /\ Excused \/ Explained(got')

Next ==
    \/ Arrive \/ Leave \/ Linger \/ Stop \/ HandOver
    \/ Say \/ Await \/ Close

Spec == Init /\ [][Next]_vars
=============================================================================
