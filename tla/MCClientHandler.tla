-------------------------- MODULE MCClientHandler --------------------------
(***************************************************************************)
(* ClientHandler on small instances.  A client sends two requests of the   *)
(* kinds below; every header has two units, so that it can be cut.         *)
(***************************************************************************)
EXTENDS ClientHandler

Kind(framing, size, expect, keep) ==
    [framing |-> framing, size |-> size, expect |-> expect, keep |-> keep,
     valid |-> TRUE, corrupt |-> FALSE]

Get == Kind("none", 0, FALSE, TRUE)
GetAndClose == Kind("none", 0, FALSE, FALSE)
Empty == Kind("length", 0, FALSE, TRUE)
Post == Kind("length", 2, FALSE, TRUE)
Expecting == Kind("length", 2, TRUE, TRUE)
Chunked == Kind("chunked", 3, FALSE, TRUE)
ExpectingChunked == Kind("chunked", 2, TRUE, TRUE)
Corrupt == [Kind("chunked", 2, FALSE, TRUE) EXCEPT !.corrupt = TRUE]
Unsupported == Kind("unsupported", 1, FALSE, TRUE)
Invalid == [Get EXCEPT !.valid = FALSE]

Kinds == {Get, GetAndClose, Empty, Post, Expecting, Chunked, ExpectingChunked,
          Corrupt, Unsupported, Invalid}

(* A kind as a request that starts at a position *)
Place(kind, at) == [f \in DOMAIN kind \cup {"at"} |-> IF f = "at" THEN at ELSE kind[f]]

Pair(a, b) == <<Place(a, 0), Place(b, HeadLen + a.size)>>

(* A client that may hold its body back *)
Expectant == {Pair(Expecting, Get)}

(* Every kind first, every kind second *)
AllPairs == {Pair(a, Get) : a \in Kinds} \cup {Pair(Post, b) : b \in Kinds}

(* Three requests in a row, so that a pipelined one has one on either side *)
Triple(a, b, c) ==
    Pair(a, b) \o <<Place(c, 2 * HeadLen + a.size + b.size)>>

Triples == {Triple(Get, a, Get) : a \in {Get, Expecting}}

(* With nothing but requests, in the middle of a pipeline *)
PairsAndTriple == AllPairs \cup {Triple(Get, Get, Get)}
=============================================================================
