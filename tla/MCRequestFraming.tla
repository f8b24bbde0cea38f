-------------------------- MODULE MCRequestFraming --------------------------
(***************************************************************************)
(* RequestFraming on small bodies: of a known length of up to five units,  *)
(* and of up to three chunks and a last chunk with and without trailers,   *)
(* each of them sound or malformed at one chunk.                           *)
(***************************************************************************)
EXTENDS RequestFraming

UpToFive == {[size |-> n, end |-> n, corrupt |-> FALSE] : n \in 0..5}

(* The body with data chunks of the given lengths; bad is 0 for none *)
Layout(lengths, trailers, bad) ==
    LET n == Len(lengths)
        before[i \in 1..n + 1] == IF i = 1 THEN 0 ELSE before[i - 1] + lengths[i - 1]
        start(i) == before[i] + i - 1
        chunk(i) ==
            [at |-> start(i), from |-> before[i] + 1, bad |-> i = bad,
             end |-> IF i <= n THEN start(i) + 1 + lengths[i] ELSE start(i) + 1 + trailers,
             to |-> IF i <= n THEN before[i] + lengths[i] ELSE before[i]]
    IN  [chunks |-> [i \in 1..n + 1 |-> chunk(i)], size |-> before[n + 1],
         end |-> start(n + 1) + 1 + trailers, corrupt |-> bad # 0]

Small == {Layout(<<>>, 0, 0), Layout(<<2>>, 1, 0), Layout(<<1, 3>>, 0, 0), Layout(<<2, 1, 2>>, 0, 0)}

Malformed == {Layout(<<2, 1>>, 0, bad) : bad \in 1..3}

SoundOrMalformed == Small \cup Malformed
=============================================================================
