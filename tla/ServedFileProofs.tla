-------------------------- MODULE ServedFileProofs --------------------------
(***************************************************************************)
(* Theorems about ServedFile, for every set of setups (chains of concerns  *)
(* in any order and number, versions of any lengths, any Range headers)    *)
(* and any number of requests.                                             *)
(***************************************************************************)
EXTENDS ServedFile, TLAPS

-----------------------------------------------------------------------------
(* Types.                                                                  *)

\* The file is gone or of the last version, the resource knows the length of
\* some version, and what is read has been opened.
Typed ==
    /\ TypeOK
    /\ disk \in {0, edits}
    /\ \E v \in Versions : length = history[v]
    /\ \A r \in Requests : req[r].at \in {"learn", "copy"} => req[r].opened # 0

LEMMA ModulusFacts == Modulus \in Nat /\ Modulus >= 4
BY ModulusAssumption

LEMMA SetupFacts ==
    ASSUME setup \in Setups
    PROVE  /\ chain \in Seq(Concerns) /\ Len(chain) \in Nat
           /\ history \in Seq(Nat) /\ Len(history) \in Nat /\ Len(history) >= 1
           /\ \A v \in Versions : history[v] \in Nat /\ 2 * history[v] < Modulus
           /\ setup.ranges \subseteq Requestable
           /\ setup.requests \in 0..MaxRequests /\ MaxRequests \in Nat
<1>1. setup \in Setup /\ history # <<>> /\ \A v \in DOMAIN history : 2 * history[v] < Modulus
  BY SetupAssumption DEF history
<1>2. chain \in Seq(Concerns) /\ history \in Seq(Nat) /\ setup.ranges \subseteq Requestable
      /\ setup.requests \in 0..MaxRequests
  BY <1>1 DEF Setup, chain, history
<1> QED BY <1>1, <1>2, BoundAssumption DEF Versions

\* A request with one field changed is one.
LEMMA Updates ==
    ASSUME NEW q \in Request
    PROVE  /\ \A x \in Steps : [q EXCEPT !.at = x] \in Request
           /\ \A x \in Nat : [q EXCEPT !.next = x] \in Request
           /\ \A x \in {0, 200, 206, 304, 416} : [q EXCEPT !.status = x] \in Request
           /\ \A x \in Window : [q EXCEPT !.window = x] \in Request
           /\ \A x \in BOOLEAN : [q EXCEPT !.chunked = x] \in Request
           /\ \A x \in Label : [q EXCEPT !.tag = x] \in Request
           /\ \A x \in {Chunked} \cup Unsigned : [q EXCEPT !.promised = x] \in Request
           /\ \A x \in 0..Len(history) : [q EXCEPT !.opened = x] \in Request
           /\ \A x \in Nat : [q EXCEPT !.read = x] \in Request
           /\ \A x \in Nat : [q EXCEPT !.position = x] \in Request
           /\ \A x \in Seq(Nat) : [q EXCEPT !.sent = x] \in Request
           /\ \A x \in BOOLEAN : [q EXCEPT !.calm = x] \in Request
           /\ \A x \in BOOLEAN : [q EXCEPT !.head = x] \in Request
           /\ \A x \in setup.ranges \cup {NoRange} : [q EXCEPT !.range = x] \in Request
           /\ \A x \in Stored : [q EXCEPT !.cached = x] \in Request
           /\ \A x \in 0..Len(history) : [q EXCEPT !.from = x] \in Request
           /\ \A x \in BOOLEAN : [q EXCEPT !.known = x] \in Request
<1> DEFINE N == Nat  B == BOOLEAN  R == setup.ranges \cup {NoRange}  S == {0, 200, 206, 304, 416}
           P == {Chunked} \cup Unsigned  V == 0..Len(history)  Q == Seq(Nat)
<1>1. Request = [at : Steps, next : N, head : B, range : R, cached : Stored, status : S,
                  window : Window, chunked : B, tag : Label, promised : P, opened : V, read : N,
                  position : N, sent : Q, from : V, known : B, calm : B]
  BY DEF Request
<1> HIDE DEF N, B, R, S, P, V, Q
<1>2. \A x \in Steps : [q EXCEPT !.at = x] \in Request BY <1>1
<1>3. \A x \in N : [q EXCEPT !.next = x] \in Request BY <1>1
<1>4. \A x \in S : [q EXCEPT !.status = x] \in Request BY <1>1
<1>5. \A x \in Window : [q EXCEPT !.window = x] \in Request BY <1>1
<1>6. \A x \in B : [q EXCEPT !.chunked = x] \in Request BY <1>1
<1>7. \A x \in Label : [q EXCEPT !.tag = x] \in Request BY <1>1
<1>8. \A x \in P : [q EXCEPT !.promised = x] \in Request BY <1>1
<1>9. \A x \in V : [q EXCEPT !.opened = x] \in Request BY <1>1
<1>10. \A x \in N : [q EXCEPT !.read = x] \in Request BY <1>1
<1>11. \A x \in N : [q EXCEPT !.position = x] \in Request BY <1>1
<1>12. \A x \in Q : [q EXCEPT !.sent = x] \in Request BY <1>1
<1>13. \A x \in B : [q EXCEPT !.calm = x] \in Request BY <1>1
<1>14. \A x \in B : [q EXCEPT !.head = x] \in Request BY <1>1
<1>15. \A x \in R : [q EXCEPT !.range = x] \in Request BY <1>1
<1>16. \A x \in Stored : [q EXCEPT !.cached = x] \in Request BY <1>1
<1>17. \A x \in V : [q EXCEPT !.from = x] \in Request BY <1>1
<1>18. \A x \in B : [q EXCEPT !.known = x] \in Request BY <1>1
<1> QED BY <1>2, <1>3, <1>4, <1>5, <1>6, <1>7, <1>8, <1>9, <1>10, <1>11, <1>12, <1>13, <1>14, <1>15, <1>16, <1>17, <1>18 DEF N, B, R, S, P, V, Q

\* What is left of a number that is put into 64 bits.
LEMMA Wraps ==
    ASSUME NEW x \in Int
    PROVE  x % Modulus \in Unsigned
BY ModulusFacts DEF Unsigned

LEMMA Windows ==
    ASSUME NEW a \in Int, NEW b \in Int
    PROVE  Part(a, b) \in Window
BY Wraps DEF Part, Window

LEMMA EveryWindow == Whole \in Window
BY ModulusFacts DEF Whole, Window, Unsigned

LEMMA IdleTyped ==
    ASSUME setup \in Setups
    PROVE  NoCopy \in Stored /\ Idle \in Request
<1>1. NoTag \in Label BY EveryWindow, SetupFacts DEF NoTag, Label
<1>2. NoCopy \in Stored BY <1>1, SetupFacts DEF NoCopy, Stored
<1>3. 0 \in Unsigned BY ModulusFacts DEF Unsigned
<1> QED BY <1>1, <1>2, <1>3, EveryWindow, SetupFacts DEF Idle, Request, Steps

\* A response that has passed a concern.
LEMMA OnwardsTyped ==
    ASSUME setup \in Setups, NEW q \in Request
    PROVE  Onwards(q) \in Request
<1>1. Len(chain) \in Nat /\ q.next \in Nat BY SetupFacts DEF Request
<1>2. "concern" \in Steps /\ "head" \in Steps BY DEF Steps
<1>3. q.next + 1 \in Nat BY <1>1
<1>4. [q EXCEPT !.at = "head"] \in Request BY <1>2, SMTT(30) DEF Request
<1>5. [q EXCEPT !.at = "concern", !.next = q.next + 1] \in Request BY <1>2, <1>3, ZenonT(60) DEF Request
<1> QED BY <1>4, <1>5 DEF Onwards

LEMMA RangeTyped ==
    ASSUME setup \in Setups, NEW q \in Request, length \in Nat
    PROVE  GetRange(q) \in Request
<1>1. q.range \in Requestable \cup {NoRange} BY SetupFacts DEF Request
<1>2. NotSatisfiable(q) \in Request
  <2>1. \A x \in {0, 200, 206, 304, 416} : [q EXCEPT !.status = x] \in Request BY Updates, ZenonT(60)
  <2>2. 416 \in {0, 200, 206, 304, 416} OBVIOUS
  <2> QED BY <2>1, <2>2 DEF NotSatisfiable
<1>3. ASSUME NEW a \in Int, NEW b \in Int
      PROVE  Satisfied(q, a, b) \in Request
  <2>1. PICK w \in Window : w = Part(a, b) BY Windows
  <2>2. PICK p \in Request : p = [q EXCEPT !.status = 206]
    <3>1. \A x \in {0, 200, 206, 304, 416} : [q EXCEPT !.status = x] \in Request BY Updates, ZenonT(60)
    <3>2. 206 \in {0, 200, 206, 304, 416} OBVIOUS
    <3> QED BY <3>1, <3>2
  <2>3. [p EXCEPT !.window = w] \in Request BY <2>1, Updates, ZenonT(60)
  <2>4. [p EXCEPT !.window = w] = [q EXCEPT !.status = 206, !.window = w] BY <2>2
  <2> QED BY <2>1, <2>3, <2>4 DEF Satisfied
<1>4. q.range # NoRange /\ q.range # Malformed => q.range.first \in Int /\ q.range.last \in Int
  BY <1>1 DEF Requestable, Absent
<1>5. ASSUME q.range # NoRange, q.range # Malformed
      PROVE  /\ GetRangeFromStart(q, q.range.first) \in Request
             /\ GetRangeFromEnd(q, q.range.last) \in Request
             /\ GetFullRange(q, q.range.first, q.range.last) \in Request
  <2>1. PICK f \in Int, l \in Int, n \in Int : f = q.range.first /\ l = q.range.last /\ n = length
    BY <1>4, <1>5
  <2>2. n - 1 \in Int /\ n - l \in Int BY <2>1
  <2>3. GetRangeFromStart(q, f) \in Request BY <2>1, <2>2, <1>2, <1>3 DEF GetRangeFromStart
  <2>4. GetRangeFromEnd(q, l) \in Request BY <2>1, <2>2, <1>2, <1>3 DEF GetRangeFromEnd
  <2>5. GetFullRange(q, f, l) \in Request BY <2>1, <1>2, <1>3 DEF GetFullRange
  <2> QED BY <2>1, <2>3, <2>4, <2>5
<1> QED BY <1>2, <1>5 DEF GetRange

\* The bytes a client gets.
LEMMA BytesTyped ==
    ASSUME NEW a \in Nat, NEW n \in Int
    PROVE  /\ Bytes(a, n) \in Seq(Nat) /\ Len(Bytes(a, n)) = IF n > 0 THEN n ELSE 0
           /\ DOMAIN Bytes(a, n) = 1..n
           /\ \A i \in 1..n : Bytes(a, n)[i] = a + i - 1
<1>1. CASE n > 0 BY <1>1 DEF Bytes
<1>2. CASE n <= 0
  <2>1. 1..n = 1..0 BY <1>2
  <2>2. Bytes(a, n) = [i \in 1..0 |-> a + i - 1] BY <2>1 DEF Bytes
  <2>3. \A i \in 1..0 : a + i - 1 \in Nat OBVIOUS
  <2>4. [i \in 1..0 |-> a + i - 1] \in [1..0 -> Nat] BY <2>3
  <2>5. Bytes(a, n) \in Seq(Nat) /\ Len(Bytes(a, n)) = 0 BY <2>2, <2>4
  <2> QED BY <2>1, <2>2, <2>5, <1>2
<1> QED BY <1>1, <1>2

-----------------------------------------------------------------------------
(* What the steps of a request do.                                         *)

\* What a request asks for, and what the ghosts say of its start.
SameAsked(p, q) ==
    /\ p.head = q.head /\ p.range = q.range /\ p.cached = q.cached
    /\ p.from = q.from /\ p.known = q.known /\ p.calm = q.calm

\* The response as the concerns have built it.
SameBuilt(p, q) ==
    /\ p.next = q.next /\ p.status = q.status /\ p.window = q.window
    /\ p.chunked = q.chunked /\ p.tag = q.tag

\* What has been written of it.
SameWritten(p, q) ==
    /\ p.promised = q.promised /\ p.opened = q.opened /\ p.read = q.read
    /\ p.position = q.position /\ p.sent = q.sent

\* A request moves on.
Moved(p, q, at) == SameAsked(p, q) /\ SameBuilt(p, q) /\ SameWritten(p, q) /\ p.at = at

\* The response has passed a concern.
Passes(p, q) ==
    IF q.next < Len(chain) THEN p.at = "concern" /\ p.next = q.next + 1
    ELSE p.at = "head" /\ p.next = q.next

LEMMA StepOf ==
    ASSUME NEW q \in Request, NEW at \in Steps
    PROVE  \E p \in Request : p = [q EXCEPT !.at = at] /\ Moved(p, q, at)
<1>1. PICK p \in Request : p = [q EXCEPT !.at = at]
  <2>1. \A x \in Steps : [q EXCEPT !.at = x] \in Request BY Updates, ZenonT(60)
  <2> QED BY <2>1
<1>2. Moved(p, q, at) BY <1>1 DEF Moved, SameAsked, SameBuilt, SameWritten, Request
<1> QED BY <1>1, <1>2

LEMMA PassesOn ==
    ASSUME setup \in Setups, NEW q \in Request
    PROVE  \E p \in Request :
             /\ p = Onwards(q) /\ Passes(p, q)
             /\ SameAsked(p, q) /\ SameWritten(p, q)
             /\ p.status = q.status /\ p.window = q.window /\ p.chunked = q.chunked /\ p.tag = q.tag
<1>1. PICK p \in Request : p = Onwards(q) BY OnwardsTyped
<1>2. Passes(p, q) BY <1>1 DEF Passes, Onwards, Request
<1>3. SameAsked(p, q) BY <1>1 DEF SameAsked, Onwards, Request
<1>4. SameWritten(p, q) BY <1>1 DEF SameWritten, Onwards, Request
<1>5. p.status = q.status /\ p.window = q.window /\ p.chunked = q.chunked /\ p.tag = q.tag
  BY <1>1 DEF Onwards, Request
<1> QED BY <1>1, <1>2, <1>3, <1>4, <1>5

LEMMA TypeFacts ==
    ASSUME Typed
    PROVE  /\ setup \in Setups /\ req \in [Requests -> Request] /\ copies \subseteq Stored
           /\ disk \in Nat /\ info \in Nat /\ length \in Nat /\ edits \in Versions
           /\ disk <= edits /\ info <= edits /\ edits <= Len(history)
           /\ 2 * length < Modulus
           /\ Versions = {v \in Nat : 1 <= v /\ v <= Len(history)}
<1>1. TypeOK /\ setup \in Setups BY DEF Typed, TypeOK
<1>2. Len(history) \in Nat /\ \A v \in Versions : history[v] \in Nat /\ 2 * history[v] < Modulus
  BY <1>1, SetupFacts
<1>3. 2 * length < Modulus BY <1>2 DEF Typed
<1> QED BY <1>1, <1>2, <1>3 DEF TypeOK, Versions

LEMMA ValidateDoes ==
    ASSUME Typed, NEW r \in Requests, Validate(r)
    PROVE  \E p \in Request :
             /\ Set(r, p) /\ Moved(p, req[r], "assign")
             /\ req[r].at = "concern" /\ chain[req[r].next] = "validate"
             /\ info' = disk /\ length' = length
<1>1. PICK q \in Request : q = req[r] BY TypeFacts
<1>2. PICK p \in Request : p = [q EXCEPT !.at = "assign"] /\ Moved(p, q, "assign")
  BY StepOf DEF Steps
<1> QED BY <1>1, <1>2 DEF Validate, Concern, Refreshed

LEMMA AssignDoes ==
    ASSUME Typed, NEW r \in Requests, Assign(r)
    PROVE  \E p \in Request :
             /\ Set(r, p) /\ req[r].at = "assign" /\ info' = info
             /\ \/ info = 0 /\ Moved(p, req[r], "failed") /\ length' = length
                \/ info \in Versions /\ Moved(p, req[r], "tag") /\ length' = history[info]
<1>1. PICK q \in Request : q = req[r] BY TypeFacts
<1>2. PICK p \in Request : p = [q EXCEPT !.at = "failed"] /\ Moved(p, q, "failed")
  BY StepOf DEF Steps
<1>3. PICK t \in Request : t = [q EXCEPT !.at = "tag"] /\ Moved(t, q, "tag")
  BY StepOf DEF Steps
<1>4. CASE info = 0 BY <1>1, <1>2, <1>4 DEF Assign, Fails, resource
<1>5. CASE info # 0
  <2>1. info \in Versions BY <1>5, TypeFacts
  <2> QED BY <1>1, <1>3, <1>5, <2>1 DEF Assign
<1> QED BY <1>4, <1>5

\* A tag has been compared with the one of the client.
LEMMA ComparedDoes ==
    ASSUME setup \in Setups, NEW q \in Request, NEW t \in Label, t.modified >= 0 \/ q.tag = t
    PROVE  \E p \in Request :
             /\ p = Compared(q, t) /\ p.tag = t
             /\ SameAsked(p, q) /\ SameWritten(p, q)
             /\ p.window = q.window /\ p.chunked = q.chunked
             /\ \/ /\ p.at = "done" /\ p.status = 304 /\ p.next = q.next
                   /\ p.cached # NoCopy /\ p.cached.tag = p.tag
                \/ /\ Passes(p, q) /\ p.status = q.status
                   /\ q.tag = t \/ p.cached.tag # p.tag
<1>1. PICK u \in Request : u = [q EXCEPT !.tag = t]
  <2>1. \A x \in Label : [q EXCEPT !.tag = x] \in Request BY Updates, ZenonT(60)
  <2> QED BY <2>1
<1>2. u.tag = t /\ SameAsked(u, q) /\ SameWritten(u, q)
      /\ u.next = q.next /\ u.status = q.status /\ u.window = q.window /\ u.chunked = q.chunked
  BY <1>1 DEF SameAsked, SameWritten, Request
<1>3. CASE Matches(q, t)
  <2>1. PICK v \in Request : v = [q EXCEPT !.at = "done"] /\ Moved(v, q, "done")
    BY StepOf DEF Steps
  <2>2. PICK w \in Request : w = [v EXCEPT !.status = 304]
    <3>1. \A x \in {0, 200, 206, 304, 416} : [v EXCEPT !.status = x] \in Request BY Updates, ZenonT(60)
    <3>2. 304 \in {0, 200, 206, 304, 416} OBVIOUS
    <3> QED BY <3>1, <3>2
  <2>3. PICK p \in Request : p = [w EXCEPT !.tag = t]
    <3>1. \A x \in Label : [w EXCEPT !.tag = x] \in Request BY Updates, ZenonT(60)
    <3> QED BY <3>1
  <2>4. p = [q EXCEPT !.at = "done", !.status = 304, !.tag = t]
    BY <2>1, <2>2, <2>3
  <2>5. /\ p.at = "done" /\ p.status = 304 /\ p.tag = t /\ SameAsked(p, q) /\ SameWritten(p, q)
        /\ p.next = q.next /\ p.window = q.window /\ p.chunked = q.chunked
    BY <2>1, <2>2, <2>3 DEF Moved, SameAsked, SameBuilt, SameWritten, Request
  <2>6. p.cached # NoCopy /\ p.cached.tag = p.tag BY <1>3, <2>5 DEF Matches, SameAsked
  <2>7. p = Compared(q, t) BY <1>3, <2>4 DEF Compared
  <2> QED BY <2>5, <2>6, <2>7
<1>4. CASE ~Matches(q, t)
  <2>1. PICK p \in Request :
             /\ p = Onwards(u) /\ Passes(p, u)
             /\ SameAsked(p, u) /\ SameWritten(p, u)
             /\ p.status = u.status /\ p.window = u.window /\ p.chunked = u.chunked /\ p.tag = u.tag
    BY PassesOn
  <2>2. SameAsked(p, q) /\ SameWritten(p, q) /\ p.tag = t /\ p.status = q.status
        /\ p.window = q.window /\ p.chunked = q.chunked
    BY <1>2, <2>1 DEF SameAsked, SameWritten
  <2>3. Passes(p, q) BY <1>2, <2>1 DEF Passes
  <2>4. p = Compared(q, t) BY <1>1, <1>4, <2>1 DEF Compared
  <2>5. q.tag = t \/ p.cached.tag # p.tag
    <3>1. p.cached = q.cached BY <2>2 DEF SameAsked
    <3>2. q.cached = NoCopy \/ q.cached.tag # t BY <1>4 DEF Matches
    <3>3. CASE q.cached = NoCopy
      <4>1. q.cached.tag.modified = -1 BY <3>3 DEF NoCopy, NoTag
      <4>2. q.tag = t \/ q.cached.tag # t BY <4>1
      <4> QED BY <2>2, <3>1, <4>2
    <3> QED BY <2>2, <3>1, <3>2, <3>3
  <2> QED BY <2>2, <2>3, <2>4, <2>5
<1> QED BY <1>3, <1>4

LEMMA TagDoes ==
    ASSUME Typed, NEW r \in Requests, Tag(r)
    PROVE  \E p \in Request :
             /\ Set(r, p) /\ req[r].at = "tag" /\ info' = info /\ length' = length
             /\ SameAsked(p, req[r]) /\ SameWritten(p, req[r])
             /\ p.window = req[r].window /\ p.chunked = req[r].chunked
             /\ p.tag.modified = info /\ p.tag.length = length
             /\ \/ /\ p.at = "done" /\ p.status = 304 /\ p.next = req[r].next
                   /\ p.cached # NoCopy /\ p.cached.tag = p.tag
                \/ /\ Passes(p, req[r]) /\ p.status = req[r].status
                   /\ req[r].tag = p.tag \/ p.cached.tag # p.tag
<1>1. PICK q \in Request : q = req[r] BY TypeFacts
<1>2. PICK t \in Label : t = TagOf(q) /\ t.modified = info /\ t.length = length
  <2>1. info \in -1..Len(history) /\ length \in Nat BY TypeFacts
  <2>2. q.window \in Window BY DEF Request
  <2>3. [modified |-> info, length |-> length, window |-> q.window] \in Label BY <2>1, <2>2 DEF Label
  <2> QED BY <2>3 DEF TagOf
<1>3. setup \in Setups /\ info \in Nat BY TypeFacts
<1>4. t.modified >= 0 BY <1>2, <1>3
<1>5. PICK p \in Request :
             /\ p = Compared(q, t) /\ p.tag = t
             /\ SameAsked(p, q) /\ SameWritten(p, q)
             /\ p.window = q.window /\ p.chunked = q.chunked
             /\ \/ /\ p.at = "done" /\ p.status = 304 /\ p.next = q.next
                   /\ p.cached # NoCopy /\ p.cached.tag = p.tag
                \/ /\ Passes(p, q) /\ p.status = q.status
                   /\ q.tag = t \/ p.cached.tag # p.tag
  BY <1>3, <1>4, ComparedDoes
<1>6. Set(r, p) /\ q.at = "tag" /\ info' = info /\ length' = length
  BY <1>1, <1>2, <1>5 DEF Tag, resource
<1> QED BY <1>1, <1>2, <1>5, <1>6

LEMMA ValidateAgainDoes ==
    ASSUME Typed, NEW r \in Requests, ValidateAgain(r)
    PROVE  \E p \in Request :
             /\ Set(r, p) /\ info' = info /\ length' = length
             /\ req[r].at = "concern" /\ chain[req[r].next] = "validate" /\ req[r].tag # NoTag
             /\ SameAsked(p, req[r]) /\ SameWritten(p, req[r])
             /\ p.window = req[r].window /\ p.chunked = req[r].chunked /\ p.tag = req[r].tag
             /\ \/ /\ p.at = "done" /\ p.status = 304 /\ p.next = req[r].next
                   /\ p.cached.tag = p.tag
                \/ Passes(p, req[r]) /\ p.status = req[r].status
<1>1. PICK q \in Request : q = req[r] BY TypeFacts
<1>2. PICK t \in Label : t = q.tag BY DEF Request
<1>3. setup \in Setups BY TypeFacts
<1>4. PICK p \in Request :
             /\ p = Compared(q, t) /\ p.tag = t
             /\ SameAsked(p, q) /\ SameWritten(p, q)
             /\ p.window = q.window /\ p.chunked = q.chunked
             /\ \/ /\ p.at = "done" /\ p.status = 304 /\ p.next = q.next
                   /\ p.cached # NoCopy /\ p.cached.tag = p.tag
                \/ /\ Passes(p, q) /\ p.status = q.status
                   /\ q.tag = t \/ p.cached.tag # p.tag
  BY <1>2, <1>3, ComparedDoes
<1>5. /\ Set(r, p) /\ info' = info /\ length' = length
      /\ q.at = "concern" /\ chain[q.next] = "validate" /\ q.tag # NoTag
  BY <1>1, <1>2, <1>4 DEF ValidateAgain, Concern, resource
<1> QED BY <1>1, <1>2, <1>4, <1>5

LEMMA WriteHeadDoes ==
    ASSUME Typed, NEW r \in Requests, WriteHead(r)
    PROVE  \E p \in Request :
             /\ Set(r, p) /\ req[r].at = "head" /\ info' = info /\ length' = length
             /\ SameAsked(p, req[r]) /\ SameBuilt(p, req[r])
             /\ p.opened = req[r].opened /\ p.read = req[r].read
             /\ p.position = req[r].position /\ p.sent = req[r].sent
             /\ p.promised = IF p.chunked THEN Chunked ELSE Length(p)
             /\ p.at = IF p.head THEN "done" ELSE "body"
<1>1. PICK q \in Request : q = req[r] BY TypeFacts
<1>2. PICK x \in {Chunked} \cup Unsigned : x = IF q.chunked THEN Chunked ELSE Length(q)
  <2>1. q.window.start \in Int /\ q.window.end \in Int
    <3>1. q.window \in Window BY DEF Request
    <3> QED BY <3>1, ModulusFacts DEF Window, Unsigned
  <2>2. RangedLength(q.window) \in Unsigned BY <2>1, Wraps DEF RangedLength
  <2>3. length \in Unsigned BY TypeFacts, ModulusFacts DEF Unsigned
  <2> QED BY <2>2, <2>3 DEF Length
<1>3. PICK u \in Request : u = [q EXCEPT !.promised = x]
  <2>1. \A y \in {Chunked} \cup Unsigned : [q EXCEPT !.promised = y] \in Request BY Updates, ZenonT(60)
  <2> QED BY <2>1
<1>4. u.promised = x /\ SameAsked(u, q) /\ SameBuilt(u, q)
      /\ u.opened = q.opened /\ u.read = q.read /\ u.position = q.position /\ u.sent = q.sent
  BY <1>3 DEF SameAsked, SameBuilt, Request
<1>5. PICK at \in Steps : at = IF q.head THEN "done" ELSE "body" BY DEF Steps
<1>6. PICK p \in Request : p = [u EXCEPT !.at = at] /\ Moved(p, u, at)
  BY StepOf
<1>7. p = [q EXCEPT !.promised = x, !.at = at] BY <1>3, <1>6 DEF Request
<1>8. Set(r, p) /\ q.at = "head" /\ info' = info /\ length' = length
  BY <1>1, <1>2, <1>5, <1>7 DEF WriteHead, resource
<1>9. SameAsked(p, q) /\ SameBuilt(p, q) /\ p.promised = x /\ p.at = at
      /\ p.opened = q.opened /\ p.read = q.read /\ p.position = q.position /\ p.sent = q.sent
  BY <1>4, <1>6 DEF Moved, SameAsked, SameBuilt, SameWritten
<1>10. p.chunked = q.chunked /\ p.head = q.head /\ Length(p) = Length(q)
  BY <1>9 DEF SameAsked, SameBuilt, Length
<1> QED BY <1>1, <1>2, <1>5, <1>8, <1>9, <1>10

LEMMA WriteBodyDoes ==
    ASSUME Typed, NEW r \in Requests, WriteBody(r)
    PROVE  \E p \in Request :
             /\ Set(r, p) /\ req[r].at = "body" /\ info' = info /\ length' = length
             /\ Moved(p, req[r], IF ShouldSendBody(req[r]) THEN "open" ELSE "done")
<1>1. PICK q \in Request : q = req[r] BY TypeFacts
<1>2. PICK at \in Steps : at = IF ShouldSendBody(q) THEN "open" ELSE "done" BY DEF Steps
<1>3. PICK p \in Request : p = [q EXCEPT !.at = at] /\ Moved(p, q, at)
  BY StepOf
<1> QED BY <1>1, <1>2, <1>3 DEF WriteBody, resource

LEMMA OpenDoes ==
    ASSUME Typed, NEW r \in Requests, Open(r)
    PROVE  \E p \in Request :
             /\ Set(r, p) /\ req[r].at = "open" /\ info' = info /\ length' = length
             /\ \/ disk = 0 /\ Moved(p, req[r], "failed")
                \/ /\ disk # 0 /\ p.at = "learn" /\ p.opened = disk
                   /\ SameAsked(p, req[r]) /\ SameBuilt(p, req[r])
                   /\ p.promised = req[r].promised /\ p.read = req[r].read
                   /\ p.position = req[r].position /\ p.sent = req[r].sent
<1>1. PICK q \in Request : q = req[r] BY TypeFacts
<1>2. CASE disk = 0
  <2>1. PICK p \in Request : p = [q EXCEPT !.at = "failed"] /\ Moved(p, q, "failed")
    BY StepOf DEF Steps
  <2> QED BY <1>1, <1>2, <2>1 DEF Open, Fails, resource
<1>3. CASE disk # 0
  <2>1. PICK u \in Request : u = [q EXCEPT !.at = "learn"] /\ Moved(u, q, "learn")
    BY StepOf DEF Steps
  <2>2. PICK p \in Request : p = [u EXCEPT !.opened = disk]
    <3>1. \A x \in 0..Len(history) : [u EXCEPT !.opened = x] \in Request BY Updates, ZenonT(60)
    <3>2. disk \in 0..Len(history)
      <4>1. Len(history) \in Nat BY SetupFacts, TypeFacts
      <4> QED BY <4>1, TypeFacts
    <3> QED BY <3>1, <3>2
  <2>3. p = [q EXCEPT !.at = "learn", !.opened = disk] BY <2>1, <2>2
  <2>4. /\ p.at = "learn" /\ p.opened = disk
        /\ SameAsked(p, q) /\ SameBuilt(p, q)
        /\ p.promised = q.promised /\ p.read = q.read /\ p.position = q.position /\ p.sent = q.sent
    BY <2>1, <2>2 DEF Moved, SameAsked, SameBuilt, SameWritten, Request
  <2> QED BY <1>1, <1>3, <2>3, <2>4 DEF Open, resource
<1> QED BY <1>2, <1>3

LEMMA LearnDoes ==
    ASSUME Typed, NEW r \in Requests, Learn(r)
    PROVE  \E p \in Request :
             /\ Set(r, p) /\ req[r].at = "learn" /\ info' = info
             /\ Moved(p, req[r], "copy")
             /\ req[r].opened \in Versions /\ length' = history[req[r].opened]
<1>1. PICK q \in Request : q = req[r] BY TypeFacts
<1>2. PICK p \in Request : p = [q EXCEPT !.at = "copy"] /\ Moved(p, q, "copy")
  BY StepOf DEF Steps
<1>3. q.opened \in 0..Len(history) BY DEF Request
<1>4. q.at = "learn" /\ length' = history[q.opened] /\ info' = info /\ Set(r, p)
  BY <1>1, <1>2 DEF Learn
<1>5. q.opened # 0 BY <1>1, <1>4 DEF Typed
<1>6. q.opened \in Versions BY <1>3, <1>5, TypeFacts, SetupFacts
<1> QED BY <1>1, <1>2, <1>4, <1>6

LEMMA WrittenTyped ==
    ASSUME NEW q \in Request, NEW n \in Nat
    PROVE  Written(q, n) \in Seq(Nat)
<1>1. q.read \in Nat /\ q.position \in Nat /\ q.window \in Window BY DEF Request
<1>2. q.window.start \in Int /\ q.window.end \in Int
  BY <1>1, ModulusFacts DEF Window, Unsigned
<1>3. PICK f \in Int, l \in Int : f = Signed(q.window.start) /\ l = Signed(q.window.end)
  BY <1>2, ModulusFacts DEF Signed
<1>4. PICK from \in Nat, to \in Int : from = Greatest(q.position, f) /\ to = Least(q.position + n - 1, l)
                                     /\ from >= q.position
  BY <1>1, <1>3 DEF Greatest, Least
<1>5. PICK a \in Nat, k \in Int : a = q.read + (from - q.position) /\ k = to - from + 1
  BY <1>1, <1>4
<1>6. Bytes(a, k) \in Seq(Nat) /\ Bytes(q.read, n) \in Seq(Nat)
  <2>1. Bytes(a, k) \in Seq(Nat) BY BytesTyped
  <2>2. PICK b \in Nat : b = q.read BY <1>1
  <2>3. n \in Int OBVIOUS
  <2>4. Bytes(b, n) \in Seq(Nat) BY <2>3, BytesTyped
  <2> QED BY <2>1, <2>2, <2>4
<1>7. LetThrough(q, n) \in {<<>>, Bytes(a, k)} BY <1>3, <1>4, <1>5 DEF LetThrough
<1>8. <<>> \in Seq(Nat) OBVIOUS
<1> QED BY <1>6, <1>7, <1>8 DEF Written

LEMMA CopyDoes ==
    ASSUME Typed, NEW r \in Requests, Copy(r)
    PROVE  \E p \in Request :
             /\ Set(r, p) /\ req[r].at = "copy" /\ info' = info /\ length' = length
             /\ req[r].opened \in Versions
             /\ \/ history[req[r].opened] = req[r].read /\ Moved(p, req[r], "done")
                \/ \E n \in Nat :
                     /\ n > 0 /\ req[r].read + n <= history[req[r].opened]
                     /\ p.at = "copy" /\ SameAsked(p, req[r]) /\ SameBuilt(p, req[r])
                     /\ p.promised = req[r].promised /\ p.opened = req[r].opened
                     /\ p.read = req[r].read + n /\ p.position = req[r].position + n
                     /\ p.sent = req[r].sent \o Written(req[r], n)
<1>1. PICK q \in Request : q = req[r] BY TypeFacts
<1>2. q.at = "copy" /\ info' = info /\ length' = length
  BY <1>1 DEF Copy, resource
<1>3. q.opened \in Versions /\ history[q.opened] \in Nat /\ q.read \in Nat /\ q.position \in Nat
  <2>1. q.opened \in 0..Len(history) /\ q.read \in Nat /\ q.position \in Nat BY DEF Request
  <2>2. q.opened # 0 BY <1>1, <1>2 DEF Typed
  <2>3. q.opened \in Versions BY <2>1, <2>2, TypeFacts, SetupFacts, SMTT(30)
  <2>4. history[q.opened] \in Nat BY <2>3, TypeFacts, SetupFacts
  <2> QED BY <2>1, <2>3, <2>4
<1>4. CASE Remaining(q) = 0
  <2>1. PICK p \in Request : p = [q EXCEPT !.at = "done"] /\ Moved(p, q, "done")
    BY StepOf DEF Steps
  <2>2. history[q.opened] = q.read BY <1>3, <1>4 DEF Remaining
  <2> QED BY <1>1, <1>2, <1>3, <1>4, <2>1, <2>2 DEF Copy
<1>5. CASE Remaining(q) # 0
  <2>1. PICK n \in 1..Remaining(q) :
          Set(r, [q EXCEPT !.sent = @ \o Written(q, n), !.read = @ + n, !.position = @ + n])
    BY <1>1, <1>5 DEF Copy
  <2>2. n \in Nat /\ n > 0 /\ q.read + n <= history[q.opened]
    BY <2>1, <1>3 DEF Remaining
  <2>3. PICK s \in Seq(Nat) : s = q.sent \o Written(q, n)
    <3>1. PICK x \in Seq(Nat) : x = q.sent BY DEF Request
    <3>2. PICK y \in Seq(Nat) : y = Written(q, n) BY <2>2, WrittenTyped
    <3>3. x \o y \in Seq(Nat) OBVIOUS
    <3> QED BY <3>1, <3>2, <3>3
  <2>4. PICK a \in Nat, b \in Nat : a = q.read + n /\ b = q.position + n BY <1>3, <2>2
  <2>5. PICK u \in Request : u = [q EXCEPT !.sent = s]
    <3>1. \A x \in Seq(Nat) : [q EXCEPT !.sent = x] \in Request BY Updates, ZenonT(60)
    <3> QED BY <3>1
  <2>6. PICK v \in Request : v = [u EXCEPT !.read = a]
    <3>1. \A x \in Nat : [u EXCEPT !.read = x] \in Request BY Updates, ZenonT(60)
    <3> QED BY <3>1
  <2>7. PICK p \in Request : p = [v EXCEPT !.position = b]
    <3>1. \A x \in Nat : [v EXCEPT !.position = x] \in Request BY Updates, ZenonT(60)
    <3> QED BY <3>1
  <2>8. p = [q EXCEPT !.sent = s, !.read = a, !.position = b] BY <2>5, <2>6, <2>7
  <2>9. Set(r, p) BY <2>1, <2>3, <2>4, <2>8
  <2>10. /\ p.at = q.at /\ SameAsked(p, q) /\ SameBuilt(p, q)
         /\ p.promised = q.promised /\ p.opened = q.opened
         /\ p.read = a /\ p.position = b /\ p.sent = s
    BY <2>5, <2>6, <2>7 DEF SameAsked, SameBuilt, Request
  <2> QED BY <1>1, <1>2, <1>3, <2>2, <2>3, <2>4, <2>9, <2>10
<1> QED BY <1>4, <1>5

\* The positions a..b are the ones of a content of that size a range asks for.
Fits(range, a, b, size) ==
    0 <= a /\ a <= b + 1 /\ b < size /\ Wanted(range, size) = a..b

LEMMA RangeFound ==
    ASSUME setup \in Setups, NEW q \in Request, NEW size \in Nat, size = length,
           q.range # NoRange, ~q.chunked
    PROVE  \/ GetRange(q) = NotSatisfiable(q)
           \/ \E a, b \in Int : GetRange(q) = Satisfied(q, a, b) /\ Fits(q.range, a, b, size)
<1>1. CASE q.range = Malformed BY <1>1 DEF GetRange
<1>2. CASE q.range # Malformed
  <2>1. q.range \in Requestable
    <3>1. setup.ranges \subseteq Requestable BY SetupFacts
    <3> QED BY <3>1 DEF Request
  <2>2. PICK f \in {Absent} \cup Nat, l \in {Absent} \cup Nat : q.range = [first |-> f, last |-> l]
    BY <1>2, <2>1 DEF Requestable
  <2>3. f \in Int /\ l \in Int /\ q.range.first = f /\ q.range.last = l
    BY <2>2 DEF Absent
  <2>4. ~(f = Absent /\ l = Absent) BY <2>2 DEF NoRange
  <2>5. CASE l = Absent
    <3>1. f \in Nat BY <2>4, <2>5
    <3>2. GetRange(q) = GetRangeFromStart(q, f)
      <4>1. GetRange(q) = CASE q.range.last = Absent -> GetRangeFromStart(q, q.range.first)
                            [] q.range.first = Absent -> GetRangeFromEnd(q, q.range.last)
                            [] OTHER -> GetFullRange(q, q.range.first, q.range.last)
        BY <1>2 DEF GetRange
      <4>2. q.range.last = Absent /\ q.range.first # Absent BY <2>3, <2>4, <2>5
      <4> QED BY <4>1, <4>2, <2>3
    <3>3. CASE f > size BY <3>2, <3>3 DEF GetRangeFromStart
    <3>4. CASE f <= size
      <4>1. GetRange(q) = Satisfied(q, f, size - 1) BY <2>3, <3>2, <3>4 DEF GetRangeFromStart
      <4>2. Wanted(q.range, size) = {i \in 0..size - 1 : i >= f}
        BY <2>3, <2>5, <3>1 DEF Wanted, Absent
      <4>3. {i \in 0..size - 1 : i >= f} = f..(size - 1) BY <3>1
      <4>4. Fits(q.range, f, size - 1, size) BY <3>1, <3>4, <4>2, <4>3 DEF Fits
      <4> QED BY <2>3, <4>1, <4>4
    <3> QED BY <2>3, <3>3, <3>4
  <2>6. CASE l # Absent /\ f = Absent
    <3>1. l \in Nat BY <2>6
    <3>2. GetRange(q) = GetRangeFromEnd(q, l) BY <1>2, <2>3, <2>6 DEF GetRange
    <3>3. CASE l > size BY <3>2, <3>3 DEF GetRangeFromEnd
    <3>4. CASE l <= size
      <4>1. GetRange(q) = Satisfied(q, size - l, size - 1) BY <2>3, <3>2, <3>4 DEF GetRangeFromEnd
      <4>2. Wanted(q.range, size) = {i \in 0..size - 1 : i >= size - l}
        BY <2>3, <2>6, <3>1 DEF Wanted, Absent
      <4>3. {i \in 0..size - 1 : i >= size - l} = (size - l)..(size - 1) BY <3>1, <3>4
      <4>4. Fits(q.range, size - l, size - 1, size) BY <3>1, <3>4, <4>2, <4>3 DEF Fits
      <4>5. size - l \in Int /\ size - 1 \in Int BY <2>3
      <4> QED BY <4>1, <4>4, <4>5
    <3> QED BY <2>3, <3>3, <3>4
  <2>7. CASE l # Absent /\ f # Absent
    <3>1. f \in Nat /\ l \in Nat BY <2>7
    <3>2. GetRange(q) = GetFullRange(q, f, l) BY <1>2, <2>3, <2>7 DEF GetRange
    <3>3. CASE f > l \/ l >= size BY <3>2, <3>3 DEF GetFullRange
    <3>4. CASE f <= l /\ l < size
      <4>1. GetRange(q) = Satisfied(q, f, l) BY <2>3, <3>2, <3>4 DEF GetFullRange
      <4>2. Wanted(q.range, size) = {i \in 0..size - 1 : f <= i /\ i <= l}
        BY <2>3, <2>7, <3>1 DEF Wanted, Absent
      <4>3. {i \in 0..size - 1 : f <= i /\ i <= l} = f..l BY <3>1, <3>4
      <4>4. Fits(q.range, f, l, size) BY <3>1, <3>4, <4>2, <4>3 DEF Fits
      <4> QED BY <2>3, <4>1, <4>4
    <3> QED BY <2>3, <3>3, <3>4
  <2> QED BY <2>5, <2>6, <2>7
<1> QED BY <1>1, <1>2

LEMMA RangeSupportDoes ==
    ASSUME Typed, NEW r \in Requests, RangeSupport(r)
    PROVE  \E p \in Request :
             /\ Set(r, p) /\ info' = info /\ length' = length
             /\ req[r].at = "concern" /\ chain[req[r].next] = "range"
             /\ \/ Moved(p, req[r], "failed")
                \/ /\ SameAsked(p, req[r]) /\ SameWritten(p, req[r])
                   /\ p.chunked = req[r].chunked /\ p.tag = req[r].tag
                   /\ \/ /\ p.at = "done" /\ p.status = 416
                         /\ p.next = req[r].next /\ p.window = req[r].window
                      \/ /\ Passes(p, req[r])
                         /\ p.status = req[r].status /\ p.window = req[r].window
                      \/ /\ Passes(p, req[r]) /\ p.status = 206
                         /\ \E a, b \in Int : p.window = Part(a, b) /\ Fits(p.range, a, b, length)
<1>1. PICK q \in Request : q = req[r] BY TypeFacts
<1>2. setup \in Setups /\ length \in Nat BY TypeFacts
<1>3. /\ q.at = "concern" /\ chain[q.next] = "range"
      /\ info' = info /\ length' = length
  BY <1>1 DEF RangeSupport, Concern, resource
<1>4. CASE ~q.chunked /\ Unparsable(q)
  <2>1. PICK p \in Request : p = [q EXCEPT !.at = "failed"] /\ Moved(p, q, "failed")
    BY StepOf DEF Steps
  <2> QED BY <1>1, <1>3, <1>4, <2>1 DEF RangeSupport, Fails
<1>5. CASE ~(~q.chunked /\ Unparsable(q))
  <2>1. PICK u \in Request : u = GetRange(q) BY <1>2, RangeTyped
  <2>2. Set(r, IF u.status = 416 THEN [u EXCEPT !.at = "done"] ELSE Onwards(u))
    BY <1>1, <1>5, <2>1 DEF RangeSupport
  <2>3. \/ u = q /\ (q.range = NoRange \/ q.chunked)
        \/ u = NotSatisfiable(q)
        \/ \E a, b \in Int : u = Satisfied(q, a, b) /\ Fits(q.range, a, b, length)
    <3>1. CASE q.range = NoRange \/ q.chunked BY <2>1, <3>1 DEF GetRange
    <3>2. CASE ~(q.range = NoRange \/ q.chunked) BY <1>2, <2>1, <3>2, RangeFound
    <3> QED BY <3>1, <3>2
  <2>4. /\ SameAsked(u, q) /\ SameWritten(u, q) /\ u.next = q.next /\ u.chunked = q.chunked /\ u.tag = q.tag
    <3>1. CASE u = q BY <3>1 DEF SameAsked, SameWritten
    <3>2. CASE u = NotSatisfiable(q) BY <3>2 DEF NotSatisfiable, SameAsked, SameWritten, Request
    <3>3. ASSUME NEW a \in Int, NEW b \in Int, u = Satisfied(q, a, b)
          PROVE  /\ SameAsked(u, q) /\ SameWritten(u, q)
                 /\ u.next = q.next /\ u.chunked = q.chunked /\ u.tag = q.tag
      BY <3>3 DEF Satisfied, SameAsked, SameWritten, Request
    <3> QED BY <2>3, <3>1, <3>2, <3>3
  <2>5. \/ u.status = q.status /\ u.window = q.window
        \/ u.status = 416 /\ u.window = q.window
        \/ u.status = 206 /\ \E a, b \in Int : u.window = Part(a, b) /\ Fits(q.range, a, b, length)
    <3>1. CASE u = NotSatisfiable(q) BY <3>1 DEF NotSatisfiable, Request
    <3>2. ASSUME NEW a \in Int, NEW b \in Int, u = Satisfied(q, a, b)
          PROVE  u.status = 206 /\ u.window = Part(a, b)
      BY <3>2 DEF Satisfied, Request
    <3> QED BY <2>3, <3>1, <3>2
  <2>6. CASE u.status = 416
    <3>1. PICK p \in Request : p = [u EXCEPT !.at = "done"] /\ Moved(p, u, "done")
      BY StepOf DEF Steps
    <3>2. /\ SameAsked(p, q) /\ SameWritten(p, q) /\ p.chunked = q.chunked /\ p.tag = q.tag
          /\ p.at = "done" /\ p.status = 416 /\ p.next = q.next /\ p.window = q.window
      BY <2>4, <2>5, <2>6, <3>1 DEF Moved, SameAsked, SameBuilt, SameWritten
    <3>3. Set(r, p) BY <2>2, <2>6, <3>1
    <3> QED BY <1>1, <1>3, <3>2, <3>3
  <2>7. CASE u.status # 416
    <3>1. PICK p \in Request :
             /\ p = Onwards(u) /\ Passes(p, u)
             /\ SameAsked(p, u) /\ SameWritten(p, u)
             /\ p.status = u.status /\ p.window = u.window /\ p.chunked = u.chunked /\ p.tag = u.tag
      BY <1>2, PassesOn
    <3>2. /\ SameAsked(p, q) /\ SameWritten(p, q) /\ p.chunked = q.chunked /\ p.tag = q.tag
          /\ p.range = q.range
      BY <2>4, <3>1 DEF SameAsked, SameWritten
    <3>3. Passes(p, q) BY <2>4, <3>1 DEF Passes
    <3>4. Set(r, p) BY <2>2, <2>7, <3>1
    <3>5. \/ p.status = q.status /\ p.window = q.window
          \/ p.status = 206 /\ \E a, b \in Int : p.window = Part(a, b) /\ Fits(p.range, a, b, length)
      BY <2>5, <2>7, <3>1, <3>2
    <3> QED BY <1>1, <1>3, <3>2, <3>3, <3>4, <3>5
  <2> QED BY <2>6, <2>7
<1> QED BY <1>4, <1>5

LEMMA CompressDoes ==
    ASSUME Typed, NEW r \in Requests, Compress(r)
    PROVE  \E p \in Request :
             /\ Set(r, p) /\ info' = info /\ length' = length
             /\ req[r].at = "concern" /\ chain[req[r].next] = "compress"
             /\ Passes(p, req[r]) /\ SameAsked(p, req[r]) /\ SameWritten(p, req[r])
             /\ p.status = req[r].status /\ p.window = req[r].window /\ p.tag = req[r].tag
<1>1. PICK q \in Request : q = req[r] BY TypeFacts
<1>2. PICK worth \in BOOLEAN : Set(r, Onwards([q EXCEPT !.chunked = worth]))
  BY <1>1 DEF Compress
<1>3. PICK u \in Request : u = [q EXCEPT !.chunked = worth]
  <2>1. \A x \in BOOLEAN : [q EXCEPT !.chunked = x] \in Request BY Updates, ZenonT(60)
  <2> QED BY <2>1
<1>4. /\ SameAsked(u, q) /\ SameWritten(u, q)
      /\ u.next = q.next /\ u.status = q.status /\ u.window = q.window /\ u.tag = q.tag
  BY <1>3 DEF SameAsked, SameWritten, Request
<1>5. PICK p \in Request :
         /\ p = Onwards(u) /\ Passes(p, u)
         /\ SameAsked(p, u) /\ SameWritten(p, u)
         /\ p.status = u.status /\ p.window = u.window /\ p.chunked = u.chunked /\ p.tag = u.tag
  BY PassesOn, TypeFacts
<1>6. Passes(p, q) BY <1>4, <1>5 DEF Passes
<1>7. SameAsked(p, q) /\ SameWritten(p, q) /\ p.status = q.status /\ p.window = q.window /\ p.tag = q.tag
  BY <1>4, <1>5 DEF SameAsked, SameWritten
<1>8. Set(r, p) /\ info' = info /\ length' = length /\ q.at = "concern" /\ chain[q.next] = "compress"
  BY <1>1, <1>2, <1>3, <1>5 DEF Compress, Concern, resource
<1> QED BY <1>1, <1>6, <1>7, <1>8

LEMMA StartDoes ==
    ASSUME Typed, NEW r \in Requests, Start(r)
    PROVE  \E p \in Request :
             /\ Set(r, p) /\ req[r].at = "idle" /\ started < MaxRequests /\ started' = started + 1
             /\ Passes(p, Idle) /\ SameWritten(p, Idle)
             /\ p.status = 200 /\ p.window = Whole /\ p.chunked = FALSE /\ p.tag = NoTag
             /\ p.from = edits /\ p.cached \in copies \cup {NoCopy}
             /\ p.known = (disk # 0 /\ length = history[disk])
             /\ p.calm = (\A s \in Requests : InFlight(s) => req[s].calm)
<1>1. setup \in Setups /\ started \in 0..MaxRequests /\ copies \subseteq Stored BY DEF Typed, TypeOK
<1>2. PICK range \in setup.ranges, head \in BOOLEAN, cached \in copies \cup {NoCopy} :
         Set(r, Onwards([Idle EXCEPT
             !.status = 200, !.head = head, !.range = range, !.cached = cached,
             !.from = edits, !.known = disk # 0 /\ length = history[disk],
             !.calm = \A s \in Requests : InFlight(s) => req[s].calm]))
  BY DEF Start
<1>3. PICK known \in BOOLEAN : known = (disk # 0 /\ length = history[disk]) OBVIOUS
<1>4. PICK calm \in BOOLEAN : calm = (\A s \in Requests : InFlight(s) => req[s].calm) OBVIOUS
<1>5. PICK u1 \in Request : u1 = [Idle EXCEPT !.status = 200]
  <2>1. \A x \in {0, 200, 206, 304, 416} : [Idle EXCEPT !.status = x] \in Request
    BY <1>1, IdleTyped, Updates, ZenonT(60)
  <2>2. 200 \in {0, 200, 206, 304, 416} OBVIOUS
  <2> QED BY <2>1, <2>2
<1>6. PICK u2 \in Request : u2 = [u1 EXCEPT !.head = head]
  <2>1. \A x \in BOOLEAN : [u1 EXCEPT !.head = x] \in Request BY Updates, ZenonT(60)
  <2> QED BY <2>1
<1>7. PICK u3 \in Request : u3 = [u2 EXCEPT !.range = range]
  <2>1. \A x \in setup.ranges \cup {NoRange} : [u2 EXCEPT !.range = x] \in Request BY Updates, ZenonT(60)
  <2> QED BY <2>1
<1>8. PICK u4 \in Request : u4 = [u3 EXCEPT !.cached = cached]
  <2>1. \A x \in Stored : [u3 EXCEPT !.cached = x] \in Request BY Updates, ZenonT(60)
  <2> QED BY <1>1, <2>1, IdleTyped
<1>9. PICK u5 \in Request : u5 = [u4 EXCEPT !.from = edits]
  <2>1. \A x \in 0..Len(history) : [u4 EXCEPT !.from = x] \in Request BY Updates, ZenonT(60)
  <2>2. edits \in 0..Len(history) BY SetupFacts, TypeFacts DEF Versions
  <2> QED BY <2>1, <2>2
<1>10. PICK u6 \in Request : u6 = [u5 EXCEPT !.known = known]
  <2>1. \A x \in BOOLEAN : [u5 EXCEPT !.known = x] \in Request BY Updates, ZenonT(60)
  <2> QED BY <2>1
<1>11. PICK u \in Request : u = [u6 EXCEPT !.calm = calm]
  <2>1. \A x \in BOOLEAN : [u6 EXCEPT !.calm = x] \in Request BY Updates, ZenonT(60)
  <2> QED BY <2>1
<1>12. u = [Idle EXCEPT
             !.status = 200, !.head = head, !.range = range, !.cached = cached,
             !.from = edits, !.known = known, !.calm = calm]
  BY <1>5, <1>6, <1>7, <1>8, <1>9, <1>10, <1>11
<1>13. /\ SameWritten(u, Idle) /\ u.next = 0 /\ u.status = 200 /\ u.window = Whole
       /\ u.chunked = FALSE /\ u.tag = NoTag
       /\ u.cached = cached /\ u.from = edits /\ u.known = known /\ u.calm = calm
  BY <1>12 DEF Idle, SameWritten
<1>14. PICK p \in Request :
         /\ p = Onwards(u) /\ Passes(p, u)
         /\ SameAsked(p, u) /\ SameWritten(p, u)
         /\ p.status = u.status /\ p.window = u.window /\ p.chunked = u.chunked /\ p.tag = u.tag
  BY <1>1, PassesOn
<1>15. Set(r, p) BY <1>2, <1>3, <1>4, <1>12, <1>14
<1>16. SameWritten(p, Idle) /\ p.from = edits /\ p.cached = cached /\ p.known = known /\ p.calm = calm
  BY <1>13, <1>14 DEF SameAsked, SameWritten
<1>17. Passes(p, Idle) BY <1>13, <1>14 DEF Passes, Idle
<1>18. req[r].at = "idle" /\ started < MaxRequests /\ started' = started + 1
  <2>1. started < setup.requests /\ started' = started + 1 /\ req[r].at = "idle" BY DEF Start
  <2>2. setup.requests \in 0..MaxRequests /\ MaxRequests \in Nat BY <1>1, SetupFacts
  <2> QED BY <1>1, <2>1, <2>2
<1> QED BY ZenonT(60), <1>3, <1>4, <1>13, <1>14, <1>15, <1>16, <1>17, <1>18

LEMMA FinishDoes ==
    ASSUME Typed, NEW r \in Requests, Finish(r)
    PROVE  /\ Set(r, Idle) /\ Idle \in Request /\ info' = info /\ length' = length
           /\ \/ copies' = copies
              \/ /\ req[r].at = "done" /\ Complete(req[r]) /\ req[r].tag # NoTag
                 /\ \E c \in Stored : /\ c.tag = req[r].tag /\ c.body = req[r].opened
                                      /\ c.calm = req[r].calm /\ copies' = copies \cup {c}
<1>1. Set(r, Idle) /\ Idle \in Request /\ info' = info /\ length' = length
  BY IdleTyped, TypeFacts DEF Finish, resource
<1>2. PICK q \in Request : q = req[r] BY TypeFacts
<1>3. PICK c \in Stored : c = [tag |-> q.tag, body |-> q.opened, calm |-> q.calm]
  <2>1. q.tag \in Label /\ q.opened \in 0..Len(history) /\ q.calm \in BOOLEAN BY DEF Request
  <2>2. [tag |-> q.tag, body |-> q.opened, calm |-> q.calm] \in Stored BY <2>1 DEF Stored
  <2> QED BY <2>2
<1>4. CASE copies' = copies BY <1>1, <1>4
<1>5. CASE copies' # copies
  <2>1. q.at = "done" /\ Complete(q) /\ q.tag # NoTag /\ copies' = copies \cup {c}
    BY <1>2, <1>3, <1>5 DEF Finish
  <2> QED BY <1>1, <1>2, <1>3, <2>1
<1> QED BY <1>4, <1>5

-----------------------------------------------------------------------------
(* Types are kept.                                                         *)

LEMMA SameTypes ==
    ASSUME setup' = setup
    PROVE  /\ Request' = Request /\ Stored' = Stored /\ Versions' = Versions
           /\ history' = history /\ chain' = chain
<1>1. history' = history /\ chain' = chain BY DEF history, chain
<1>2. Versions' = Versions BY <1>1 DEF Versions
<1>3. Label' = Label BY <1>1 DEF Label, Window, Unsigned
<1>4. Stored' = Stored BY <1>1, <1>3 DEF Stored
<1>5. Request' = Request BY <1>1, <1>3, <1>4 DEF Request, Window, Unsigned, Steps
<1> QED BY <1>1, <1>2, <1>4, <1>5

\* A step of a request keeps the types if the new request has its type and a
\* version the file had is looked at.
LEMMA SetKeepsTypes ==
    ASSUME Typed, NEW r \in Requests, NEW p \in Request, Set(r, p),
           UNCHANGED <<setup, disk, edits>>,
           started' \in 0..MaxRequests, copies' \subseteq Stored,
           info' \in {info, disk},
           length' = length \/ \E v \in Versions : length' = history[v],
           p.at \in {"learn", "copy"} => p.opened # 0
    PROVE  Typed'
<1>1. /\ Request' = Request /\ Stored' = Stored /\ Versions' = Versions /\ history' = history
  BY SameTypes
<1>2. req' = [req EXCEPT ![r] = p] /\ req \in [Requests -> Request] BY TypeFacts DEF Set
<1>3. req' \in [Requests -> Request] BY <1>2
<1>4. \E v \in Versions : length' = history[v] BY DEF Typed
<1>5. length' \in Nat
  <2>1. \A v \in Versions : history[v] \in Nat BY SetupFacts, TypeFacts
  <2> QED BY <1>4, <2>1
<1>6. TypeOK'
  <2>1. setup' \in Setups BY TypeFacts
  <2>2. disk' \in 0..edits' /\ edits' \in Versions' BY <1>1 DEF Typed, TypeOK
  <2>3. info' \in 0..edits' BY DEF Typed, TypeOK
  <2> QED BY <1>1, <1>3, <1>5, <2>1, <2>2, <2>3 DEF TypeOK
<1>7. \A s \in Requests : req'[s].at \in {"learn", "copy"} => req'[s].opened # 0
  BY <1>2 DEF Typed
<1>8. disk' \in {0, edits'} BY DEF Typed
<1> QED BY <1>1, <1>4, <1>6, <1>7, <1>8 DEF Typed

LEMMA HandleKeepsTypes ==
    ASSUME Typed, NEW r \in Requests, Handle(r)
    PROVE  Typed'
<1>1. /\ UNCHANGED <<setup, disk, edits>>
      /\ started' \in 0..MaxRequests /\ copies' \subseteq Stored
  <2>1. UNCHANGED <<setup, disk, edits, started, copies>>
    BY DEF Handle, RangeSupport, Compress, Validate, Assign, Tag, ValidateAgain, WriteHead, WriteBody, Open,
           Learn, Copy, Keeps, file
  <2> QED BY <2>1 DEF Typed, TypeOK
<1>2. PICK q \in Request : q = req[r] /\ (q.at \in {"learn", "copy"} => q.opened # 0)
  BY TypeFacts DEF Typed
<1> DEFINE Kept(p) == Set(r, p) /\ (p.at \in {"learn", "copy"} => p.opened # 0)
<1> DEFINE Looked == /\ info' \in {info, disk}
                     /\ length' = length \/ \E v \in Versions : length' = history[v]
<1>3. Looked /\ \E p \in Request : Kept(p)
  <2>1. CASE RangeSupport(r)
    <3>1. PICK p \in Request :
             /\ Set(r, p) /\ info' = info /\ length' = length
             /\ p.at = "failed" \/ p.at = "done" \/ Passes(p, q)
      BY <1>2, <2>1, RangeSupportDoes DEF Moved
    <3> QED BY <3>1 DEF Passes
  <2>2. CASE Compress(r)
    <3>1. PICK p \in Request : Set(r, p) /\ info' = info /\ length' = length /\ Passes(p, q)
      BY <1>2, <2>2, CompressDoes
    <3> QED BY <3>1 DEF Passes
  <2>3. CASE Validate(r) BY <2>3, ValidateDoes DEF Moved
  <2>4. CASE Assign(r) BY <2>4, AssignDoes DEF Moved
  <2>5. CASE Tag(r)
    <3>1. PICK p \in Request :
             Set(r, p) /\ info' = info /\ length' = length /\ (p.at = "done" \/ Passes(p, q))
      BY <1>2, <2>5, TagDoes
    <3> QED BY <3>1 DEF Passes
  <2>6. CASE WriteHead(r) BY <2>6, WriteHeadDoes
  <2>11. CASE ValidateAgain(r)
    <3>1. PICK p \in Request :
             Set(r, p) /\ info' = info /\ length' = length /\ (p.at = "done" \/ Passes(p, q))
      BY <1>2, <2>11, ValidateAgainDoes
    <3> QED BY <3>1 DEF Passes
  <2>7. CASE WriteBody(r) BY <2>7, WriteBodyDoes DEF Moved
  <2>8. CASE Open(r)
    <3>1. PICK p \in Request :
             /\ Set(r, p) /\ info' = info /\ length' = length
             /\ p.at = "failed" \/ (p.at = "learn" /\ p.opened = disk /\ disk # 0)
      BY <2>8, OpenDoes DEF Moved
    <3> QED BY <3>1
  <2>9. CASE Learn(r)
    <3>1. PICK p \in Request :
             /\ Set(r, p) /\ info' = info /\ p.at = "copy" /\ p.opened = q.opened
             /\ q.at = "learn" /\ q.opened \in Versions /\ length' = history[q.opened]
      BY <1>2, <2>9, LearnDoes DEF Moved, SameWritten
    <3> QED BY <1>2, <3>1
  <2>10. CASE Copy(r)
    <3>1. PICK p \in Request :
             /\ Set(r, p) /\ info' = info /\ length' = length /\ q.at = "copy"
             /\ p.at \in {"done", "copy"} /\ p.opened = q.opened
      BY <1>2, <2>10, CopyDoes DEF Moved, SameWritten
    <3> QED BY <1>2, <3>1
  <2> QED BY <2>1, <2>2, <2>3, <2>4, <2>5, <2>6, <2>7, <2>8, <2>9, <2>10, <2>11 DEF Handle
<1> QED BY <1>1, <1>3, SetKeepsTypes

\* The file changes: every request in flight learns that it has.
LEMMA DisturbDoes ==
    ASSUME Typed, Disturb, NEW r \in Requests
    PROVE  \E p \in Request :
             /\ p = req'[r] /\ p.at = req[r].at
             /\ SameBuilt(p, req[r]) /\ SameWritten(p, req[r])
             /\ p.head = req[r].head /\ p.range = req[r].range /\ p.cached = req[r].cached
             /\ p.from = req[r].from /\ p.known = req[r].known
             /\ IF p.at = "idle" THEN p.calm = req[r].calm ELSE p.calm = FALSE
<1>1. PICK q \in Request : q = req[r] BY TypeFacts
<1>2. req'[r] = IF q.at # "idle" THEN [q EXCEPT !.calm = FALSE] ELSE q
  BY <1>1 DEF Disturb, InFlight
<1>3. PICK u \in Request : u = [q EXCEPT !.calm = FALSE]
  <2>1. \A x \in BOOLEAN : [q EXCEPT !.calm = x] \in Request BY Updates, ZenonT(60)
  <2> QED BY <2>1
<1>4. /\ u.at = q.at /\ SameBuilt(u, q) /\ SameWritten(u, q) /\ u.calm = FALSE
      /\ u.head = q.head /\ u.range = q.range /\ u.cached = q.cached /\ u.from = q.from /\ u.known = q.known
  BY <1>3 DEF SameBuilt, SameWritten, Request
<1>5. CASE q.at = "idle" BY <1>1, <1>2, <1>5 DEF SameBuilt, SameWritten
<1>6. CASE q.at # "idle" BY <1>1, <1>2, <1>3, <1>4, <1>6
<1> QED BY <1>5, <1>6

LEMMA ChangeKeepsTypes ==
    ASSUME Typed, Replace \/ Remove
    PROVE  Typed'
<1>1. /\ Disturb /\ UNCHANGED <<setup, resource, started, copies>>
      /\ edits' \in {edits, edits + 1} /\ edits' \in Versions /\ disk' \in {0, edits'}
  BY TypeFacts DEF Replace, Remove, Versions
<1>2. /\ Request' = Request /\ Stored' = Stored /\ Versions' = Versions /\ history' = history
  BY <1>1, SameTypes
<1>3. \A r \in Requests : req'[r] \in Request /\ (req'[r].at \in {"learn", "copy"} => req'[r].opened # 0)
  <2> TAKE r \in Requests
  <2>1. PICK p \in Request : p = req'[r] /\ p.at = req[r].at /\ p.opened = req[r].opened
    BY <1>1, DisturbDoes DEF SameWritten
  <2> QED BY <2>1 DEF Typed
<1>4. req' = [r \in Requests |-> IF InFlight(r) THEN [req[r] EXCEPT !.calm = FALSE] ELSE req[r]]
  BY <1>1 DEF Disturb
<1>5. req' \in [Requests -> Request] BY <1>3, <1>4
<1>6. setup' \in Setups /\ length' = length /\ length \in Nat /\ info' = info /\ started' \in 0..MaxRequests
      /\ copies' \subseteq Stored
  BY <1>1 DEF resource, Typed, TypeOK
<1>7. disk' \in 0..edits' /\ info' \in 0..edits'
  <2>1. info \in 0..edits /\ edits \in Nat BY TypeFacts
  <2> QED BY <1>1, <1>6, <2>1
<1>8. TypeOK' BY <1>1, <1>2, <1>5, <1>6, <1>7 DEF TypeOK
<1>9. \E v \in Versions' : length' = history'[v] BY <1>2, <1>6 DEF Typed
<1> QED BY <1>1, <1>3, <1>8, <1>9 DEF Typed

LEMMA TypesKept ==
    ASSUME Typed, [Next]_vars
    PROVE  Typed'
<1>1. ASSUME NEW r \in Requests, Start(r) PROVE Typed'
  <2>1. PICK p \in Request : /\ Set(r, p) /\ started < MaxRequests /\ started' = started + 1
                             /\ Passes(p, Idle)
    BY <1>1, StartDoes
  <2>2. UNCHANGED <<setup, disk, edits, info, length>> /\ copies' \subseteq Stored
    BY <1>1 DEF Start, file, resource, Typed, TypeOK
  <2>3. started' \in 0..MaxRequests BY <2>1, BoundAssumption DEF Typed, TypeOK
  <2>4. p.at \notin {"learn", "copy"} BY <2>1 DEF Passes
  <2> QED BY <2>1, <2>2, <2>3, <2>4, SetKeepsTypes
<1>2. ASSUME NEW r \in Requests, Finish(r) PROVE Typed'
  <2>1. Set(r, Idle) /\ Idle \in Request /\ info' = info /\ length' = length /\ copies' \subseteq Stored
    BY <1>2, FinishDoes, TypeFacts
  <2>2. UNCHANGED <<setup, disk, edits>> /\ started' \in 0..MaxRequests
    BY <1>2 DEF Finish, file, Typed, TypeOK
  <2>3. Idle.at \notin {"learn", "copy"} BY DEF Idle
  <2>4. PICK p \in Request : p = Idle BY <2>1
  <2> QED BY <2>1, <2>2, <2>3, <2>4, SetKeepsTypes
<1>3. CASE UNCHANGED vars
  <2>1. Request' = Request /\ Stored' = Stored /\ Versions' = Versions /\ history' = history
    BY <1>3, SameTypes DEF vars
  <2> QED BY <1>3, <2>1 DEF Typed, TypeOK, vars, file, resource
<1> QED BY <1>1, <1>2, <1>3, HandleKeepsTypes, ChangeKeepsTypes DEF Next

LEMMA TypedAtFirst == ASSUME Init PROVE Typed
<1>1. setup \in Setups /\ history \in Seq(Nat) /\ Len(history) >= 1 /\ Len(history) \in Nat BY SetupFacts DEF Init
<1>2. 1 \in Versions /\ length = history[1] /\ history[1] \in Nat
  <2>1. 1 \in Versions BY <1>1 DEF Versions
  <2> QED BY <1>1, <2>1, SetupFacts DEF Init
<1>3. req \in [Requests -> Request] BY <1>1, IdleTyped DEF Init
<1>4. \A r \in Requests : req[r].at = "idle" BY DEF Init, Idle
<1>5. TypeOK BY <1>1, <1>2, <1>3, BoundAssumption DEF Init, TypeOK
<1> QED BY <1>2, <1>4, <1>5 DEF Typed, Init


\* Whatever the setup, everything has its type.
THEOREM TypeCorrect == Spec => []TypeOK
<1>1. Spec => []Typed BY TypedAtFirst, TypesKept, PTL DEF Spec
<1>2. Typed => TypeOK BY DEF Typed
<1> QED BY <1>1, <1>2, PTL

-----------------------------------------------------------------------------
(* What a request may look like at each of its steps.                      *)

\* The concern for validation has looked at the file and made the tag.
Passed(q) ==
    /\ q.at # "failed"
    /\ \E i \in 1..q.next :
        chain[i] = "validate" /\ (i = q.next => q.at \notin {"concern", "assign", "tag"})

Unopened == {"idle", "concern", "assign", "tag", "head", "body", "open"}
Streaming == {"body", "open", "learn", "copy"}

Shaped(q) ==
    /\ q.next <= Len(chain)
    /\ q.at \in {"concern", "assign", "tag"} => q.next >= 1
    /\ q.at \in {"assign", "tag"} => chain[q.next] = "validate"
    /\ (q.at \in Streaming \cup {"head"} \/ Ended(q)) => q.next = Len(chain)
    /\ q.position = q.read
    /\ q.at \in Unopened \cup {"learn"} => q.read = 0 /\ q.sent = <<>>
    /\ q.at \in Unopened => q.opened = 0
    /\ q.opened # 0 => q.read <= history[q.opened]
    /\ q.opened = 0 => q.sent = <<>>
    /\ q.window.part => q.status \in {206, 304, 416}
    /\ ~q.window.part => Len(q.sent) = q.read
    /\ (q.at \in Streaming \/ Ended(q)) =>
        IF q.chunked THEN q.promised = Chunked ELSE q.window.part => q.promised = RangedLength(q.window)
    /\ Ended(q) => IF q.opened = 0 THEN ~q.chunked ELSE q.read = history[q.opened]
    /\ ~Passed(q) /\ q.at # "failed" => q.tag = NoTag

AllShaped == \A r \in Requests : Shaped(req[r])

LEMMA Fields ==
    ASSUME setup \in Setups, NEW q \in Request
    PROVE  /\ q.at \in Steps /\ q.next \in Nat /\ Len(chain) \in Nat
           /\ q.read \in Nat /\ q.position \in Nat /\ q.sent \in Seq(Nat) /\ q.opened \in Nat
           /\ q.opened # 0 => q.opened \in Versions /\ history[q.opened] \in Nat
           /\ q.window.part \in BOOLEAN /\ q.chunked \in BOOLEAN /\ q.head \in BOOLEAN
           /\ q.known \in BOOLEAN /\ q.calm \in BOOLEAN
           /\ q.window.start \in Unsigned /\ q.window.end \in Unsigned
<1>1. q.opened \in 0..Len(history) /\ Len(history) \in Nat BY SetupFacts DEF Request
<1>2. q.opened # 0 => q.opened \in Versions BY <1>1 DEF Versions
<1>3. q.opened # 0 => history[q.opened] \in Nat BY <1>2, SetupFacts
<1>4. q.window \in Window BY DEF Request
<1>5. q.window.part \in BOOLEAN /\ q.window.start \in Unsigned /\ q.window.end \in Unsigned
  BY <1>4 DEF Window
<1> QED BY <1>1, <1>2, <1>3, <1>5, SetupFacts DEF Request

\* A concern that is not the validation leaves Passed as it was.
LEMMA PassedBy ==
    ASSUME NEW p, NEW q, q.next \in Nat, q.next >= 1, q.at = "concern", chain[q.next] # "validate",
           Passes(p, q) \/ (p.next = q.next /\ p.at = "done")
    PROVE  Passed(p) <=> Passed(q)
<1>1. CASE p.next = q.next /\ p.at \in {"done", "head"} BY <1>1 DEF Passed
<1>2. CASE p.next = q.next + 1 /\ p.at = "concern"
  <2>1. ASSUME Passed(p) PROVE Passed(q)
    <3>1. PICK i \in 1..p.next : chain[i] = "validate" /\ i # p.next BY <1>2, <2>1 DEF Passed
    <3>2. i \in 1..q.next /\ i # q.next BY <1>2, <3>1
    <3> QED BY <3>1, <3>2 DEF Passed
  <2>2. ASSUME Passed(q) PROVE Passed(p)
    <3>1. PICK i \in 1..q.next : chain[i] = "validate" BY <2>2 DEF Passed
    <3>2. i \in 1..p.next /\ i # p.next BY <1>2, <3>1
    <3> QED BY <1>2, <3>1, <3>2 DEF Passed
  <2> QED BY <2>1, <2>2
<1> QED BY <1>1, <1>2 DEF Passes

LEMMA PassedNow ==
    ASSUME NEW p, NEW q, q.next \in Nat, q.next >= 1, chain[q.next] = "validate",
           Passes(p, q) \/ (p.next = q.next /\ p.at = "done")
    PROVE  Passed(p)
<1>1. CASE p.next = q.next /\ p.at \in {"done", "head"}
  <2>1. q.next \in 1..p.next BY <1>1
  <2> QED BY <1>1, <2>1 DEF Passed
<1>2. CASE p.next = q.next + 1 /\ p.at = "concern"
  <2>1. q.next \in 1..p.next /\ q.next # p.next BY <1>2
  <2> QED BY <1>2, <2>1 DEF Passed
<1> QED BY <1>1, <1>2 DEF Passes

\* Any other step leaves Passed as it was.
LEMMA PassedStill ==
    ASSUME NEW p, NEW q, p.next = q.next, p.at # "failed", q.at # "failed",
           p.at \in {"concern", "assign", "tag"} <=> q.at \in {"concern", "assign", "tag"}
    PROVE  Passed(p) <=> Passed(q)
BY DEF Passed

\* A request that has given up owes nothing.
LEMMA FailedShaped ==
    ASSUME setup \in Setups, NEW q \in Request, NEW p, Shaped(q), Moved(p, q, "failed")
    PROVE  Shaped(p)
BY Fields DEF Shaped, Moved, SameBuilt, SameWritten, SameAsked, Ended, Unopened, Streaming

\* A concern has passed the response on, or ended it with an answer of its own.
LEMMA ConcernShaped ==
    ASSUME setup \in Setups, NEW q \in Request, NEW p \in Request, Shaped(q), SameWritten(p, q),
           q.at \in {"concern", "tag"},
           \/ Passes(p, q)
           \/ p.next = q.next /\ p.at = "done" /\ p.status \in {304, 416},
           p.window.part => p.status \in {206, 304, 416},
           ~Passed(p) => p.tag = NoTag
    PROVE  Shaped(p)
<1>1. /\ q.next >= 1 /\ q.next <= Len(chain) /\ q.next \in Nat /\ Len(chain) \in Nat
      /\ q.position = q.read /\ q.read = 0 /\ q.sent = <<>> /\ q.opened = 0
  BY Fields DEF Shaped, Unopened
<1>2. p.position = 0 /\ p.read = 0 /\ p.sent = <<>> /\ p.opened = 0 /\ Len(p.sent) = 0
  BY <1>1 DEF SameWritten
<1>3. ~Ended(p) BY DEF Passes, Ended
<1>4. /\ p.at \in {"concern", "head", "done"} /\ p.next <= Len(chain)
      /\ p.at = "concern" => p.next >= 1
      /\ p.at = "head" => p.next = Len(chain)
  BY <1>1 DEF Passes
<1> QED BY <1>2, <1>3, <1>4 DEF Shaped, Streaming

LEMMA JoinedLength ==
    ASSUME NEW x \in Seq(Nat), NEW y \in Seq(Nat)
    PROVE  x \o y \in Seq(Nat) /\ Len(x \o y) = Len(x) + Len(y)
OBVIOUS

LEMMA CopyShaped ==
    ASSUME setup \in Setups, NEW q \in Request, NEW p \in Request, Shaped(q), q.at = "copy",
           NEW n \in Nat, n > 0, q.read + n <= history[q.opened], q.opened \in Versions,
           p.at = "copy", SameAsked(p, q), SameBuilt(p, q),
           p.promised = q.promised, p.opened = q.opened,
           p.read = q.read + n, p.position = q.position + n, p.sent = q.sent \o Written(q, n)
    PROVE  Shaped(p)
<1>1. q.read \in Nat /\ q.sent \in Seq(Nat) /\ q.window.part \in BOOLEAN BY Fields
<1>2. ~p.window.part => Len(p.sent) = p.read
  <2>1. SUFFICES ASSUME ~p.window.part PROVE Len(p.sent) = p.read OBVIOUS
  <2>2. ~q.window.part BY <2>1 DEF SameBuilt
  <2>3. PICK a \in Nat, x \in Seq(Nat) : a = q.read /\ x = q.sent BY <1>1
  <2>4. PICK y : y = Bytes(a, n) OBVIOUS
  <2>5. y \in Seq(Nat) /\ Len(y) = n
    <3>1. n \in Int OBVIOUS
    <3> QED BY <3>1, <2>4, BytesTyped
  <2>6. Written(q, n) = y BY <2>2, <2>3, <2>4 DEF Written
  <2>7. Len(x \o y) = Len(x) + Len(y) BY <2>5, JoinedLength
  <2>8. Len(x) = a BY <2>2, <2>3 DEF Shaped
  <2> QED BY <2>3, <2>5, <2>6, <2>7, <2>8
<1>3. Passed(p) <=> Passed(q) BY PassedStill DEF SameBuilt
<1>4. q.opened # 0 BY TypeFacts DEF Versions
<1>5. ~Ended(p) BY DEF Ended
<1>6. /\ q.next <= Len(chain) /\ q.next = Len(chain) /\ q.position = q.read
      /\ q.window.part => q.status \in {206, 304, 416}
      /\ IF q.chunked THEN q.promised = Chunked ELSE q.window.part => q.promised = RangedLength(q.window)
      /\ ~Passed(q) => q.tag = NoTag
  BY DEF Shaped, Streaming
<1>7. /\ p.next <= Len(chain) /\ p.next = Len(chain) /\ p.position = p.read
      /\ p.window.part => p.status \in {206, 304, 416}
      /\ IF p.chunked THEN p.promised = Chunked ELSE p.window.part => p.promised = RangedLength(p.window)
      /\ ~Passed(p) => p.tag = NoTag
      /\ p.opened # 0 /\ p.read <= history[p.opened]
  BY <1>3, <1>4, <1>6 DEF SameBuilt
<1> QED BY <1>2, <1>5, <1>7 DEF Shaped, Unopened, Streaming

LEMMA HandleShaped ==
    ASSUME Typed, NEW r \in Requests, Shaped(req[r]), Handle(r)
    PROVE  \E p \in Request : Set(r, p) /\ Shaped(p)
<1>1. setup \in Setups BY TypeFacts
<1>2. PICK q \in Request : q = req[r] /\ Shaped(q) BY TypeFacts
<1>3. q.next \in Nat /\ q.window.part \in BOOLEAN /\ q.chunked \in BOOLEAN /\ q.head \in BOOLEAN
  BY <1>1, Fields
<1>4. /\ q.at \in {"concern", "assign", "tag"} => q.next >= 1
      /\ q.window.part => q.status \in {206, 304, 416}
      /\ ~Passed(q) /\ q.at # "failed" => q.tag = NoTag
  BY <1>2 DEF Shaped
<1>5. CASE RangeSupport(r)
  <2>1. PICK p \in Request :
             /\ Set(r, p) /\ q.at = "concern" /\ chain[q.next] = "range"
             /\ \/ Moved(p, q, "failed")
                \/ /\ SameAsked(p, q) /\ SameWritten(p, q)
                   /\ p.chunked = q.chunked /\ p.tag = q.tag
                   /\ \/ /\ p.at = "done" /\ p.status = 416
                         /\ p.next = q.next /\ p.window = q.window
                      \/ /\ Passes(p, q)
                         /\ p.status = q.status /\ p.window = q.window
                      \/ Passes(p, q) /\ p.status = 206
    BY <1>2, <1>5, RangeSupportDoes
  <2>2. CASE Moved(p, q, "failed") BY <1>1, <1>2, <2>1, <2>2, FailedShaped
  <2>3. CASE ~Moved(p, q, "failed")
    <3>1. Passed(p) <=> Passed(q) BY <1>3, <1>4, <2>1, <2>3, PassedBy
    <3>2. ~Passed(p) => p.tag = NoTag BY <1>4, <2>1, <2>3, <3>1
    <3>3. p.window.part => p.status \in {206, 304, 416} BY <1>4, <2>1, <2>3
    <3>4. Passes(p, q) \/ (p.next = q.next /\ p.at = "done" /\ p.status \in {304, 416})
      BY <2>1, <2>3
    <3>5. SameWritten(p, q) /\ q.at \in {"concern", "tag"} BY <2>1, <2>3
    <3>6. Shaped(p) BY <1>1, <1>2, <3>2, <3>3, <3>4, <3>5, ConcernShaped
    <3> QED BY <2>1, <3>6
  <2> QED BY <2>2, <2>3
<1>6. CASE Compress(r)
  <2>1. PICK p \in Request :
             /\ Set(r, p) /\ q.at = "concern" /\ chain[q.next] = "compress"
             /\ Passes(p, q) /\ SameWritten(p, q)
             /\ p.status = q.status /\ p.window = q.window /\ p.tag = q.tag
    BY <1>2, <1>6, CompressDoes
  <2>2. Passed(p) <=> Passed(q) BY <1>3, <1>4, <2>1, PassedBy
  <2>3. ~Passed(p) => p.tag = NoTag BY <1>4, <2>1, <2>2
  <2>4. p.window.part => p.status \in {206, 304, 416} BY <1>4, <2>1
  <2>5. Shaped(p) BY <1>1, <1>2, <2>1, <2>3, <2>4, ConcernShaped
  <2> QED BY <2>1, <2>5
<1>7. CASE Tag(r)
  <2>1. PICK p \in Request :
             /\ Set(r, p) /\ q.at = "tag" /\ SameWritten(p, q) /\ p.window = q.window
             /\ \/ p.at = "done" /\ p.status = 304 /\ p.next = q.next
                \/ Passes(p, q) /\ p.status = q.status
    BY <1>2, <1>7, TagDoes
  <2>2. chain[q.next] = "validate" BY <1>2, <2>1 DEF Shaped
  <2>3. Passed(p) BY <1>3, <1>4, <2>1, <2>2, PassedNow
  <2>4. p.window.part => p.status \in {206, 304, 416} BY <1>4, <2>1
  <2>5. Shaped(p) BY <1>1, <1>2, <2>1, <2>3, <2>4, ConcernShaped
  <2> QED BY <2>1, <2>5
<1>15. CASE ValidateAgain(r)
  <2>1. PICK p \in Request :
             /\ Set(r, p) /\ q.at = "concern" /\ chain[q.next] = "validate"
             /\ SameWritten(p, q) /\ p.window = q.window
             /\ \/ p.at = "done" /\ p.status = 304 /\ p.next = q.next
                \/ Passes(p, q) /\ p.status = q.status
    BY <1>2, <1>15, ValidateAgainDoes
  <2>2. Passed(p) BY <1>3, <1>4, <2>1, PassedNow
  <2>3. p.window.part => p.status \in {206, 304, 416} BY <1>4, <2>1
  <2>4. Shaped(p) BY <1>1, <1>2, <2>1, <2>2, <2>3, ConcernShaped
  <2> QED BY <2>1, <2>4
<1>8. CASE Validate(r)
  <2>1. PICK p \in Request :
             Set(r, p) /\ Moved(p, q, "assign") /\ q.at = "concern" /\ chain[q.next] = "validate"
    BY <1>2, <1>8, ValidateDoes
  <2>2. p.at = "assign" /\ p.next = q.next BY <2>1 DEF Moved, SameBuilt
  <2>3. Passed(p) <=> Passed(q) BY <2>1, <2>2, PassedStill
  <2>4. Shaped(p)
    BY <1>2, <1>4, <2>1, <2>3 DEF Shaped, Moved, SameBuilt, SameWritten, Ended, Unopened, Streaming
  <2> QED BY <2>1, <2>4
<1>9. CASE Assign(r)
  <2>1. PICK p \in Request :
             Set(r, p) /\ q.at = "assign" /\ (Moved(p, q, "failed") \/ Moved(p, q, "tag"))
    BY <1>2, <1>9, AssignDoes
  <2>2. CASE Moved(p, q, "failed") BY <1>1, <1>2, <2>1, <2>2, FailedShaped
  <2>3. CASE Moved(p, q, "tag")
    <3>1. p.at = "tag" /\ p.next = q.next BY <2>3 DEF Moved, SameBuilt
    <3>2. Passed(p) <=> Passed(q) BY <2>1, <3>1, PassedStill
    <3>3. Shaped(p)
      BY <1>2, <1>4, <2>1, <2>3, <3>2 DEF Shaped, Moved, SameBuilt, SameWritten, Ended, Unopened, Streaming
    <3> QED BY <2>1, <3>3
  <2> QED BY <2>1, <2>2, <2>3
<1>10. CASE WriteHead(r)
  <2>1. PICK p \in Request :
             /\ Set(r, p) /\ q.at = "head"
             /\ SameAsked(p, q) /\ SameBuilt(p, q)
             /\ p.opened = q.opened /\ p.read = q.read
             /\ p.position = q.position /\ p.sent = q.sent
             /\ p.promised = IF p.chunked THEN Chunked ELSE Length(p)
             /\ p.at = IF p.head THEN "done" ELSE "body"
    BY <1>2, <1>10, WriteHeadDoes
  <2>2. Passed(p) <=> Passed(q) BY <2>1, PassedStill DEF SameBuilt
  <2>3. ~Ended(p) BY <2>1 DEF Ended
  <2>4. IF p.chunked THEN p.promised = Chunked ELSE p.window.part => p.promised = RangedLength(p.window)
    BY <2>1 DEF Length
  <2>5. /\ q.next = Len(chain) /\ q.position = q.read /\ q.read = 0 /\ q.sent = <<>> /\ q.opened = 0
        /\ ~q.window.part => Len(q.sent) = q.read
    BY <1>2, <2>1 DEF Shaped, Unopened
  <2>6. /\ p.next = Len(chain) /\ p.position = p.read /\ p.read = 0 /\ p.sent = <<>> /\ p.opened = 0
        /\ ~p.window.part => Len(p.sent) = p.read
        /\ p.window.part => p.status \in {206, 304, 416}
        /\ ~Passed(p) /\ p.at # "failed" => p.tag = NoTag
    BY <1>4, <2>1, <2>2, <2>5 DEF SameBuilt
  <2>7. p.at \in {"done", "body"} BY <2>1
  <2>8. Len(chain) \in Nat BY <1>1, SetupFacts
  <2>9. Shaped(p) BY <2>3, <2>4, <2>6, <2>7, <2>8 DEF Shaped
  <2> QED BY <2>1, <2>9
<1>11. CASE WriteBody(r)
  <2>1. PICK p \in Request :
             /\ Set(r, p) /\ q.at = "body"
             /\ Moved(p, q, IF ShouldSendBody(q) THEN "open" ELSE "done")
    BY <1>2, <1>11, WriteBodyDoes
  <2>2. Passed(p) <=> Passed(q) BY <2>1, PassedStill DEF Moved, SameBuilt
  <2>3. p.at = "done" => ~p.chunked BY <1>3, <2>1 DEF Moved, SameBuilt, ShouldSendBody
  <2>4. Shaped(p)
    BY <1>2, <1>4, <2>1, <2>2, <2>3 DEF Shaped, Moved, SameBuilt, SameWritten, Ended, Unopened, Streaming
  <2> QED BY <2>1, <2>4
<1>12. CASE Open(r)
  <2>1. PICK p \in Request :
             /\ Set(r, p) /\ q.at = "open"
             /\ \/ Moved(p, q, "failed")
                \/ /\ disk # 0 /\ p.at = "learn" /\ p.opened = disk
                   /\ SameAsked(p, q) /\ SameBuilt(p, q)
                   /\ p.promised = q.promised /\ p.read = q.read
                   /\ p.position = q.position /\ p.sent = q.sent
    BY <1>2, <1>12, OpenDoes
  <2>2. CASE Moved(p, q, "failed") BY <1>1, <1>2, <2>1, <2>2, FailedShaped
  <2>3. CASE ~Moved(p, q, "failed")
    <3>1. Passed(p) <=> Passed(q) BY <2>1, <2>3, PassedStill DEF SameBuilt
    <3>2. history[p.opened] \in Nat /\ p.opened # 0 BY <1>1, <2>1, <2>3, Fields
    <3>3. Shaped(p)
      BY <1>2, <1>4, <2>1, <2>3, <3>1, <3>2 DEF Shaped, SameBuilt, Ended, Unopened, Streaming
    <3> QED BY <2>1, <3>3
  <2> QED BY <2>2, <2>3
<1>13. CASE Learn(r)
  <2>1. PICK p \in Request :
             /\ Set(r, p) /\ q.at = "learn" /\ Moved(p, q, "copy") /\ q.opened \in Versions
    BY <1>2, <1>13, LearnDoes
  <2>2. Passed(p) <=> Passed(q) BY <2>1, PassedStill DEF Moved, SameBuilt
  <2>3. Shaped(p)
    BY <1>2, <1>4, <2>1, <2>2 DEF Shaped, Moved, SameBuilt, SameWritten, Ended, Unopened, Streaming
  <2> QED BY <2>1, <2>3
<1>14. CASE Copy(r)
  <2>1. PICK p \in Request :
             /\ Set(r, p) /\ q.at = "copy"
             /\ q.opened \in Versions
             /\ \/ history[q.opened] = q.read /\ Moved(p, q, "done")
                \/ \E n \in Nat :
                     /\ n > 0 /\ q.read + n <= history[q.opened]
                     /\ p.at = "copy" /\ SameAsked(p, q) /\ SameBuilt(p, q)
                     /\ p.promised = q.promised /\ p.opened = q.opened
                     /\ p.read = q.read + n /\ p.position = q.position + n
                     /\ p.sent = q.sent \o Written(q, n)
    BY <1>2, <1>14, CopyDoes
  <2>2. CASE history[q.opened] = q.read /\ Moved(p, q, "done")
    <3>1. Passed(p) <=> Passed(q) BY <2>1, <2>2, PassedStill DEF Moved, SameBuilt
    <3>2. q.opened # 0 BY <2>1, TypeFacts
    <3>3. Shaped(p)
      BY <1>2, <1>4, <2>1, <2>2, <3>1, <3>2
      DEF Shaped, Moved, SameBuilt, SameWritten, Ended, Unopened, Streaming
    <3> QED BY <2>1, <3>3
  <2>3. ASSUME NEW n \in Nat,
               /\ n > 0 /\ q.read + n <= history[q.opened]
               /\ p.at = "copy" /\ SameAsked(p, q) /\ SameBuilt(p, q)
               /\ p.promised = q.promised /\ p.opened = q.opened
               /\ p.read = q.read + n /\ p.position = q.position + n
               /\ p.sent = q.sent \o Written(q, n)
        PROVE  Shaped(p)
    BY <1>1, <1>2, <2>1, <2>3, CopyShaped
  <2> QED BY <2>1, <2>2, <2>3
<1> QED BY <1>5, <1>6, <1>7, <1>8, <1>9, <1>10, <1>11, <1>12, <1>13, <1>14, <1>15 DEF Handle

LEMMA ShapedLater ==
    ASSUME NEW q, Shaped(q), setup' = setup
    PROVE  Shaped(q)'
BY SameTypes DEF Shaped, Passed, Ended, RangedLength

LEMMA SetKeepsShapes ==
    ASSUME Typed, AllShaped, setup' = setup, NEW r \in Requests, NEW p, Shaped(p), Set(r, p)
    PROVE  AllShaped'
<1> SUFFICES ASSUME NEW s \in Requests PROVE Shaped(req[s])' BY DEF AllShaped
<1>1. PICK x : x = req'[s] OBVIOUS
<1>2. req' = [req EXCEPT ![r] = p] /\ req \in [Requests -> Request] BY TypeFacts DEF Set
<1>3. x = p \/ x = req[s] BY <1>1, <1>2
<1>4. PICK y : y = req[s] /\ Shaped(y) BY DEF AllShaped
<1>5. Shaped(x) BY <1>3, <1>4
<1>6. Shaped(x)' BY <1>5, ShapedLater
<1> QED BY <1>1, <1>6 DEF Shaped, Passed, Ended, RangedLength

LEMMA IdleShaped ==
    ASSUME setup \in Setups PROVE Shaped(Idle)
BY SetupFacts DEF Shaped, Idle, Passed, Ended, Unopened, Streaming, Whole

LEMMA ShapesKept ==
    ASSUME Typed, AllShaped, [Next]_vars
    PROVE  AllShaped'
<1>1. ASSUME NEW r \in Requests, Start(r) PROVE AllShaped'
  <2>1. PICK p \in Request :
             /\ Set(r, p) /\ Passes(p, Idle) /\ SameWritten(p, Idle)
             /\ p.status = 200 /\ p.window = Whole /\ p.chunked = FALSE /\ p.tag = NoTag
    BY <1>1, StartDoes
  <2>2. p.position = 0 /\ p.read = 0 /\ p.sent = <<>> /\ p.opened = 0 /\ ~p.window.part
    BY <2>1 DEF SameWritten, Idle, Whole
  <2>3. Len(chain) \in Nat BY SetupFacts, TypeFacts
  <2>4. /\ p.at \in {"concern", "head"} /\ p.next <= Len(chain)
        /\ p.at = "concern" => p.next >= 1
        /\ p.at = "head" => p.next = Len(chain)
    BY <2>1, <2>3 DEF Passes, Idle
  <2>5. Shaped(p) BY <2>1, <2>2, <2>4 DEF Shaped, Ended, Unopened, Streaming
  <2>6. setup' = setup BY <1>1 DEF Start
  <2> QED BY <2>1, <2>5, <2>6, SetKeepsShapes
<1>2. ASSUME NEW r \in Requests, Handle(r) PROVE AllShaped'
  <2>1. setup' = setup
    BY <1>2 DEF Handle, RangeSupport, Compress, Validate, Assign, Tag, ValidateAgain, WriteHead, WriteBody, Open,
           Learn, Copy, Keeps
  <2>2. PICK p \in Request : Set(r, p) /\ Shaped(p) BY <1>2, HandleShaped DEF AllShaped
  <2> QED BY <2>1, <2>2, SetKeepsShapes
<1>3. ASSUME NEW r \in Requests, Finish(r) PROVE AllShaped'
  <2>1. Set(r, Idle) /\ setup' = setup BY <1>3 DEF Finish
  <2>2. PICK p : p = Idle /\ Shaped(p) BY TypeFacts, IdleShaped
  <2> QED BY <2>1, <2>2, SetKeepsShapes
<1>4. CASE Replace \/ Remove
  <2>1. Disturb /\ setup' = setup BY <1>4 DEF Replace, Remove
  <2> SUFFICES ASSUME NEW s \in Requests PROVE Shaped(req[s])' BY DEF AllShaped
  <2>2. PICK q \in Request : q = req[s] /\ Shaped(q) BY TypeFacts DEF AllShaped
  <2>3. PICK p \in Request : /\ p = req'[s] /\ p.at = q.at /\ SameBuilt(p, q) /\ SameWritten(p, q)
                             /\ p.head = q.head
    BY <2>1, <2>2, DisturbDoes
  <2>4. Passed(p) <=> Passed(q) BY <2>3 DEF Passed, SameBuilt
  <2>5. Shaped(p) BY <2>2, <2>3, <2>4 DEF Shaped, SameBuilt, SameWritten, Ended
  <2>6. Shaped(p)' BY <2>1, <2>5, ShapedLater
  <2> QED BY <2>3, <2>6 DEF Shaped, Passed, Ended, RangedLength
<1>5. CASE UNCHANGED vars
  <2> SUFFICES ASSUME NEW s \in Requests PROVE Shaped(req[s])' BY DEF AllShaped
  <2>1. PICK q : q = req[s] /\ Shaped(q) BY DEF AllShaped
  <2>2. setup' = setup /\ q = req'[s] BY <1>5, <2>1 DEF vars
  <2>3. Shaped(q)' BY <2>1, <2>2, ShapedLater
  <2> QED BY <2>2, <2>3 DEF Shaped, Passed, Ended, RangedLength
<1> QED BY <1>1, <1>2, <1>3, <1>4, <1>5 DEF Next

LEMMA ShapedAtFirst == ASSUME Init PROVE AllShaped
<1>1. PICK q : q = Idle /\ Shaped(q) BY IdleShaped DEF Init
<1>2. \A r \in Requests : req[r] = q BY <1>1 DEF Init
<1> QED BY <1>1, <1>2 DEF AllShaped

-----------------------------------------------------------------------------
(* Numbers in 64 bits.                                                     *)

LEMMA WrapsSmall ==
    ASSUME NEW x \in Nat, x < Modulus
    PROVE  x % Modulus = x
BY ModulusFacts

LEMMA WrapsBelowZero ==
    -1 % Modulus = Modulus - 1
BY ModulusFacts

\* The window of a part that fits the content: where it starts and ends, taken
\* as signed numbers, and how long it is.
LEMMA PartFacts ==
    ASSUME NEW a \in Int, NEW b \in Int, NEW size \in Nat, 2 * size < Modulus,
           0 <= a, a <= b + 1, b < size
    PROVE  /\ Signed(Part(a, b).start) = a /\ Signed(Part(a, b).end) = b
           /\ RangedLength(Part(a, b)) = b + 1 - a
<1>1. a % Modulus = a /\ Signed(a) = a
  <2>1. a \in Nat /\ a < Modulus /\ ~(2 * a >= Modulus) BY ModulusFacts
  <2> QED BY <2>1, WrapsSmall DEF Signed
<1>2. CASE b >= 0
  <2>1. b \in Nat /\ b < Modulus /\ ~(2 * b >= Modulus) BY <1>2, ModulusFacts
  <2>2. b % Modulus = b /\ Signed(b) = b BY <2>1, WrapsSmall DEF Signed
  <2>3. (b - a + 1) % Modulus = b - a + 1
    <3>1. b - a + 1 \in Nat /\ b - a + 1 < Modulus BY <2>1, ModulusFacts
    <3>2. PICK x \in Nat : x = b - a + 1 BY <3>1
    <3> QED BY <3>1, <3>2, WrapsSmall
  <2> QED BY <1>1, <2>2, <2>3 DEF Part, RangedLength
<1>3. CASE b < 0
  <2>1. b = -1 /\ a = 0 BY <1>3
  <2>2. b % Modulus = Modulus - 1 BY <2>1, WrapsBelowZero
  <2>3. Signed(Modulus - 1) = -1
    <3>1. 2 * (Modulus - 1) >= Modulus BY ModulusFacts
    <3> QED BY <3>1, ModulusFacts DEF Signed
  <2>4. (Modulus - 1 - 0 + 1) % Modulus = 0
    <3>1. Modulus - 1 - 0 + 1 = Modulus BY ModulusFacts
    <3>2. Modulus % Modulus = 0 BY ModulusFacts
    <3> QED BY <3>1, <3>2
  <2> QED BY <1>1, <2>1, <2>2, <2>3, <2>4 DEF Part, RangedLength
<1> QED BY <1>2, <1>3

-----------------------------------------------------------------------------
(* A part of the file that is being sent.                                  *)

\* How many of the positions f..l are among the first n.
Clip(f, l, n) == IF Least(n, l + 1) > f THEN Least(n, l + 1) - f ELSE 0

\* The window is the part that was asked for, its length is right, and what was
\* sent of it is what has been read of it.
PartOf(q, size) ==
    LET f == Signed(q.window.start)  l == Signed(q.window.end) IN
    /\ Fits(q.range, f, l, size)
    /\ RangedLength(q.window) = l + 1 - f
    /\ q.sent = Bytes(f, Clip(f, l, q.read))

LEMMA JoinedAt ==
    ASSUME NEW x \in Seq(Nat), NEW y \in Seq(Nat), NEW i \in 1..Len(x) + Len(y)
    PROVE  (x \o y)[i] = IF i <= Len(x) THEN x[i] ELSE y[i - Len(x)]
OBVIOUS

LEMMA SameSequence ==
    ASSUME NEW x \in Seq(Nat), NEW y \in Seq(Nat), Len(x) = Len(y),
           \A i \in 1..Len(x) : x[i] = y[i]
    PROVE  x = y
OBVIOUS

LEMMA BytesAre ==
    ASSUME NEW a \in Nat, NEW n \in Nat
    PROVE  /\ Bytes(a, n) \in Seq(Nat) /\ Len(Bytes(a, n)) = n
           /\ \A i \in 1..n : Bytes(a, n)[i] = a + i - 1
<1>1. n \in Int OBVIOUS
<1> QED BY <1>1, BytesTyped

\* Concatenation, which the provers need not look into.
Joined(x, y) == x \o y

LEMMA BytesJoin ==
    ASSUME NEW a \in Nat, NEW m \in Nat, NEW n \in Nat,
           NEW b \in Nat, b = a + m, NEW k \in Nat, k = m + n
    PROVE  Joined(Bytes(a, m), Bytes(b, n)) = Bytes(a, k)
<1>1. b = a + m OBVIOUS
<1>2. k = m + n OBVIOUS
<1>3. /\ Bytes(a, m) \in Seq(Nat) /\ Len(Bytes(a, m)) = m
      /\ \A i \in 1..m : Bytes(a, m)[i] = a + i - 1
  BY BytesAre
<1>4. /\ Bytes(b, n) \in Seq(Nat) /\ Len(Bytes(b, n)) = n
      /\ \A i \in 1..n : Bytes(b, n)[i] = b + i - 1
  BY BytesAre
<1>5. /\ Bytes(a, k) \in Seq(Nat) /\ Len(Bytes(a, k)) = k
      /\ \A i \in 1..k : Bytes(a, k)[i] = a + i - 1
  BY BytesAre
<1>6. PICK u \in Seq(Nat), v \in Seq(Nat), t \in Seq(Nat) :
         u = Bytes(a, m) /\ v = Bytes(b, n) /\ t = Bytes(a, k)
  BY <1>3, <1>4, <1>5
<1>7. u \o v \in Seq(Nat) /\ Len(u \o v) = k
  <2>1. Len(u) = m /\ Len(v) = n BY <1>3, <1>4, <1>6
  <2>2. u \o v \in Seq(Nat) /\ Len(u \o v) = Len(u) + Len(v) BY JoinedLength
  <2> QED BY <1>2, <2>1, <2>2
<1>8. \A i \in 1..k : (u \o v)[i] = t[i]
  <2> SUFFICES ASSUME NEW i \in 1..k PROVE (u \o v)[i] = t[i] OBVIOUS
  <2>1. t[i] = a + i - 1 BY <1>5, <1>6
  <2>2. Len(u) = m /\ Len(v) = n BY <1>3, <1>4, <1>6
  <2>3. (u \o v)[i] = IF i <= m THEN u[i] ELSE v[i - m]
    <3>1. i \in 1..Len(u) + Len(v) BY <1>2, <2>2
    <3>2. (u \o v)[i] = IF i <= Len(u) THEN u[i] ELSE v[i - Len(u)] BY <3>1, JoinedAt
    <3> QED BY <2>2, <3>2
  <2>4. CASE i <= m
    <3>1. u[i] = a + i - 1 BY <2>4, <1>3, <1>6
    <3> QED BY <2>1, <2>3, <2>4, <3>1
  <2>5. CASE i > m
    <3>1. i - m \in 1..n BY <2>5, <1>2
    <3>2. v[i - m] = b + (i - m) - 1 BY <3>1, <1>4, <1>6
    <3>3. b + (i - m) - 1 = a + i - 1 BY <1>1
    <3>4. (u \o v)[i] = v[i - m]
      <4>1. ~(i <= m) BY <2>5
      <4> QED BY <2>3, <4>1
    <3> QED BY <2>1, <3>2, <3>3, <3>4
  <2>6. i <= m \/ i > m BY <1>2
  <2> QED BY <2>4, <2>5, <2>6
<1>9. u \o v = t
  <2>1. PICK s \in Seq(Nat) : s = u \o v BY <1>7
  <2>2. Len(s) = k /\ Len(t) = k BY <1>5, <1>6, <1>7, <2>1
  <2>3. s = t BY <1>8, <2>1, <2>2, SameSequence
  <2> QED BY <2>1, <2>3
<1> QED BY <1>6, <1>9 DEF Joined

LEMMA NoBytes == ASSUME NEW a \in Nat PROVE Bytes(a, 0) = <<>>
<1>1. Bytes(a, 0) \in Seq(Nat) /\ Len(Bytes(a, 0)) = 0 BY BytesTyped
<1> QED BY <1>1

\* A request that passes a range that fits has nothing of it yet.
LEMMA PartBegins ==
    ASSUME NEW p, NEW size \in Nat, 2 * size < Modulus, p.read = 0, p.sent = <<>>,
           NEW a \in Int, NEW b \in Int, p.window = Part(a, b), Fits(p.range, a, b, size)
    PROVE  PartOf(p, size)
<1>1. 0 <= a /\ a <= b + 1 /\ b < size BY DEF Fits
<1>2. /\ Signed(p.window.start) = a /\ Signed(p.window.end) = b
      /\ RangedLength(p.window) = b + 1 - a
  BY <1>1, PartFacts
<1>3. Clip(a, b, 0) = 0 BY <1>1 DEF Clip, Least
<1>4. Bytes(a, 0) = <<>> BY <1>1, NoBytes
<1> QED BY <1>2, <1>3, <1>4 DEF PartOf

LEMMA PartStays ==
    ASSUME NEW p, NEW q, NEW size, PartOf(q, size),
           p.window = q.window, p.range = q.range, p.sent = q.sent, p.read = q.read
    PROVE  PartOf(p, size)
BY DEF PartOf

LEMMA ClipSplits ==
    ASSUME NEW f \in Nat, NEW l \in Int, NEW k \in Nat, NEW n \in Nat, n > 0,
           f <= l + 1, k <= l, k + n > f
    PROVE  /\ Least(k + n - 1, l) - Greatest(k, f) + 1 \in Nat
           /\ Clip(f, l, k + n) = Clip(f, l, k) + (Least(k + n - 1, l) - Greatest(k, f) + 1)
           /\ Greatest(k, f) = f + Clip(f, l, k) /\ Greatest(k, f) \in Nat
<1>1. PICK t \in Int : t = Least(k + n - 1, l) /\ Least(k + n, l + 1) = t + 1 BY DEF Least
<1>2. t >= k /\ t + 1 >= f BY <1>1 DEF Least
<1>3. Clip(f, l, k + n) = t + 1 - f BY <1>1, <1>2 DEF Clip
<1>4. Least(k, l + 1) = k BY DEF Least
<1>5. CASE k <= f
  <2>1. Greatest(k, f) = f BY <1>5 DEF Greatest
  <2>2. Clip(f, l, k) = 0 BY <1>4, <1>5 DEF Clip
  <2> QED BY <1>1, <1>2, <1>3, <2>1, <2>2
<1>6. CASE k > f
  <2>1. Greatest(k, f) = k BY <1>6 DEF Greatest
  <2>2. Clip(f, l, k) = k - f BY <1>4, <1>6 DEF Clip
  <2> QED BY <1>1, <1>2, <1>3, <1>6, <2>1, <2>2
<1> QED BY <1>5, <1>6

\* The next n bytes of the file are clipped to the part.
LEMMA PartGoesOn ==
    ASSUME NEW p, NEW q, NEW size \in Nat, PartOf(q, size), q.window.part,
           q.window.start \in Int, q.window.end \in Int,
           p.window = q.window, p.range = q.range,
           NEW n \in Nat, n > 0, q.read \in Nat, q.position = q.read,
           p.read = q.read + n, p.sent = q.sent \o Written(q, n)
    PROVE  PartOf(p, size)
<1>1. PICK f \in Int, l \in Int : f = Signed(q.window.start) /\ l = Signed(q.window.end)
  BY ModulusFacts, SMTT(30) DEF Signed
<1>2. /\ Fits(q.range, f, l, size) /\ RangedLength(q.window) = l + 1 - f
      /\ q.sent = Bytes(f, Clip(f, l, q.read))
  BY <1>1 DEF PartOf
<1>3. f \in Nat /\ f <= l + 1 /\ l < size BY <1>2 DEF Fits
<1>4. PICK k \in Nat : k = q.read OBVIOUS
<1>5. PICK c \in Nat, d \in Nat : c = Clip(f, l, k) /\ d = Clip(f, l, k + n)
  <2>1. Clip(f, l, k) \in Nat BY <1>3 DEF Clip, Least
  <2>2. Clip(f, l, k + n) \in Nat BY <1>3 DEF Clip, Least
  <2> QED BY <2>1, <2>2
<1>6. PICK w : w = Written(q, n) OBVIOUS
<1>7. w = LetThrough(q, n) BY <1>6 DEF Written
<1>8. Joined(Bytes(f, c), w) = Bytes(f, d)
  <2>1. CASE k > l \/ k + n <= f
    <3>1. w = <<>> BY <1>1, <1>4, <1>7, <2>1 DEF LetThrough
    <3>2. c = d BY <1>1, <1>3, <1>4, <1>5, <2>1 DEF Clip, Least
    <3>3. PICK u \in Seq(Nat) : u = Bytes(f, c) BY <1>3, <1>5, BytesAre
    <3>4. u \o <<>> = u OBVIOUS
    <3>5. Joined(u, <<>>) = u BY <3>4 DEF Joined
    <3> QED BY <3>1, <3>2, <3>3, <3>5
  <2>2. CASE ~(k > l \/ k + n <= f)
    <3>1. PICK m \in Int, t \in Int : m = Greatest(k, f) /\ t = Least(k + n - 1, l)
      BY <1>1, <1>3, <1>4 DEF Greatest, Least
    <3>2. /\ Least(k + n - 1, l) - Greatest(k, f) + 1 \in Nat
          /\ Clip(f, l, k + n) = Clip(f, l, k) + (Least(k + n - 1, l) - Greatest(k, f) + 1)
          /\ Greatest(k, f) = f + Clip(f, l, k) /\ Greatest(k, f) \in Nat
      <4>1. k <= l /\ k + n > f BY <1>1, <1>3, <1>4, <2>2
      <4>2. f \in Nat /\ l \in Int /\ k \in Nat /\ f <= l + 1 BY <1>1, <1>3, <1>4
      <4> QED BY <4>1, <4>2, ClipSplits, Zenon
    <3>3. t - m + 1 \in Nat /\ d = c + (t - m + 1) /\ m = f + c /\ m \in Nat
      BY <1>5, <3>1, <3>2
    <3>4. PICK e \in Nat : e = t - m + 1 BY <3>3
    <3>5. w = Bytes(k + (m - k), e) BY <1>1, <1>4, <1>7, <2>2, <3>1, <3>4 DEF LetThrough
    <3>6. k + (m - k) = m BY <1>4, <3>3
    <3>7. d = c + e BY <3>3, <3>4
    <3>8. f \in Nat /\ c \in Nat /\ e \in Nat /\ d \in Nat /\ m \in Nat /\ m = f + c
      BY <1>3, <1>5, <3>3, <3>4
    <3>9. Joined(Bytes(f, c), Bytes(m, e)) = Bytes(f, d) BY <3>7, <3>8, BytesJoin
    <3> QED BY <3>5, <3>6, <3>9
  <2> QED BY <2>1, <2>2
<1>9. p.sent = Joined(q.sent, w) BY <1>6 DEF Joined
<1>10. p.sent = Bytes(f, Clip(f, l, p.read)) BY <1>2, <1>4, <1>5, <1>8, <1>9
<1> QED BY <1>1, <1>2, <1>10 DEF PartOf

-----------------------------------------------------------------------------
(* What is true of a request while the file stays as it is.  The lemmas    *)
(* name what the FileInfo has seen and the length the resource knows, for  *)
(* the states before and after a step.                                     *)

SteadyAt(q, seen, size) ==
    q.calm /\ q.at \notin {"idle", "failed"} =>
        /\ q.known \/ Passed(q) \/ q.at = "tag" => disk # 0 /\ size = history[disk]
        /\ q.at \in {"assign", "tag"} => seen = disk
        /\ Passed(q) => q.tag.modified = disk /\ q.tag.length = history[disk]
        /\ q.opened # 0 => q.opened = disk
        /\ ~q.window.part /\ (q.known \/ Passed(q)) =>
            ((q.at \in Streaming \/ Ended(q)) /\ ~q.chunked => q.promised = history[disk])
        /\ q.window.part /\ q.known => PartOf(q, history[disk])
        /\ Ended(q) /\ q.opened = 0 /\ (q.known \/ (Passed(q) /\ ~q.window.part)) => q.promised = 0

AllSteady == \A r \in Requests : SteadyAt(req[r], info, length)

\* Whether the file has changed is the same for all requests in flight.
Alike == \A r, s \in Requests : InFlight(r) /\ InFlight(s) => req[r].calm = req[s].calm

\* A response that is not written yet, or an answer of a concern's own.
LEMMA SteadyBefore ==
    ASSUME NEW p, NEW q, NEW seen, NEW size, NEW i, NEW n, SteadyAt(q, i, n), q.calm = TRUE,
           q.at \notin {"idle", "failed"}, SameAsked(p, q), SameWritten(p, q),
           p.at \notin Streaming, ~Ended(p),
           p.known \/ Passed(p) \/ p.at = "tag" => disk # 0 /\ size = history[disk],
           p.at \in {"assign", "tag"} => seen = disk,
           Passed(p) => p.tag.modified = disk /\ p.tag.length = history[disk],
           p.window.part /\ p.known => p.window = q.window \/ PartOf(p, history[disk])
    PROVE  SteadyAt(p, seen, size)
<1>1. p.known = q.known /\ p.range = q.range BY DEF SameAsked
<1>2. p.sent = q.sent /\ p.read = q.read /\ p.opened = q.opened BY DEF SameWritten
<1>3. q.window.part /\ q.known => PartOf(q, history[disk]) BY DEF SteadyAt
<1>4. p.window.part /\ p.known => PartOf(p, history[disk])
  <2>1. SUFFICES ASSUME p.window.part, p.known, p.window = q.window PROVE PartOf(p, history[disk])
    OBVIOUS
  <2>2. PICK k : k = history[disk] OBVIOUS
  <2>3. PartOf(q, k) BY <1>1, <1>3, <2>1, <2>2
  <2>4. PartOf(p, k) BY <1>1, <1>2, <2>1, <2>3, PartStays
  <2> QED BY <2>2, <2>4
<1>5. p.opened # 0 => p.opened = disk BY <1>2 DEF SteadyAt
<1> QED BY <1>4, <1>5 DEF SteadyAt

\* A response that is being written.
LEMMA SteadyWhile ==
    ASSUME NEW p, NEW q, NEW seen, NEW size, NEW i, NEW n, SteadyAt(q, i, n), q.calm = TRUE,
           q.at \in Streaming, p.at \in Streaming \cup {"done"},
           SameAsked(p, q), SameBuilt(p, q), p.promised = q.promised,
           q.known \/ Passed(q) => size = history[disk],
           p.opened # 0 => p.opened = disk,
           q.window.part /\ q.known => PartOf(p, history[disk]),
           Ended(p) /\ p.opened = 0 /\ (p.known \/ (Passed(p) /\ ~p.window.part)) => p.promised = 0
    PROVE  SteadyAt(p, seen, size)
<1>1. p.known = q.known /\ p.head = q.head BY DEF SameAsked
<1>2. p.next = q.next /\ p.window = q.window /\ p.chunked = q.chunked /\ p.tag = q.tag BY DEF SameBuilt
<1>3. Passed(p) <=> Passed(q) BY <1>2, PassedStill DEF Streaming
<1>4. /\ q.known \/ Passed(q) => disk # 0
      /\ Passed(q) => q.tag.modified = disk /\ q.tag.length = history[disk]
      /\ ~q.window.part /\ (q.known \/ Passed(q)) /\ ~q.chunked => q.promised = history[disk]
  BY DEF SteadyAt, Streaming
<1>5. p.at \notin {"assign", "tag"} BY DEF Streaming
<1> QED BY <1>1, <1>2, <1>3, <1>4, <1>5 DEF SteadyAt

\* What a step of a request leaves behind for it and for the others.
Leaves(r, q, p) ==
    /\ Set(r, p) /\ p.calm = q.calm /\ p.at # "idle" /\ q.at # "idle"
    /\ SteadyAt(p, info', length')
    /\ q.calm => info' \in {info, disk} /\ (length' = length \/ (disk # 0 /\ length' = history[disk]))

LEMMA FailedSteady ==
    ASSUME NEW p, NEW q, Moved(p, q, "failed"), NEW i, NEW n
    PROVE  SteadyAt(p, i, n) /\ p.calm = q.calm /\ p.at # "idle"
BY DEF SteadyAt, Moved, SameAsked

LEMMA RestlessSteady ==
    ASSUME NEW p, NEW i, NEW n, ~p.calm
    PROVE  SteadyAt(p, i, n)
BY DEF SteadyAt

LEMMA RangeSupportSteady ==
    ASSUME Typed, NEW r \in Requests, NEW q \in Request, q = req[r], Shaped(q),
           SteadyAt(q, info, length), RangeSupport(r)
    PROVE  \E p \in Request : Leaves(r, q, p)
<1>1. PICK p \in Request :
             /\ Set(r, p) /\ info' = info /\ length' = length
             /\ q.at = "concern" /\ chain[q.next] = "range"
             /\ \/ Moved(p, q, "failed")
                \/ /\ SameAsked(p, q) /\ SameWritten(p, q)
                   /\ p.chunked = q.chunked /\ p.tag = q.tag
                   /\ \/ /\ p.at = "done" /\ p.status = 416
                         /\ p.next = q.next /\ p.window = q.window
                      \/ /\ Passes(p, q)
                         /\ p.status = q.status /\ p.window = q.window
                      \/ /\ Passes(p, q) /\ p.status = 206
                         /\ \E a, b \in Int : p.window = Part(a, b) /\ Fits(p.range, a, b, length)
  BY RangeSupportDoes
<1>2. CASE Moved(p, q, "failed") BY <1>1, <1>2, FailedSteady DEF Leaves
<1>3. CASE ~Moved(p, q, "failed")
  <2>1. SameAsked(p, q) /\ SameWritten(p, q) /\ p.tag = q.tag BY <1>1, <1>3
  <2>2. p.calm = q.calm BY <2>1 DEF SameAsked
  <2>3. p.at \in {"concern", "head", "done"} /\ (p.at = "done" => p.status = 416)
    BY <1>1, <1>3 DEF Passes
  <2>4. SteadyAt(p, info', length')
    <3>1. CASE ~q.calm BY <2>2, <3>1, RestlessSteady
    <3>2. CASE q.calm
      <4>1. q.calm = TRUE BY <3>2 DEF Request
      <4>2. p.at \notin Streaming /\ ~Ended(p) /\ p.at \notin {"assign", "tag"}
        BY <2>3 DEF Streaming, Ended
      <4>3. q.next >= 1 /\ q.next \in Nat BY <1>1 DEF Shaped, Request
      <4>4. Passed(p) <=> Passed(q) BY <1>1, <1>3, <4>3, PassedBy
      <4>5. p.known = q.known BY <2>1 DEF SameAsked
      <4>6. /\ q.known \/ Passed(q) => disk # 0 /\ length = history[disk]
            /\ Passed(q) => q.tag.modified = disk /\ q.tag.length = history[disk]
        BY <1>1, <3>2 DEF SteadyAt
      <4>7. p.window.part /\ p.known => p.window = q.window \/ PartOf(p, history[disk])
        <5>1. SUFFICES ASSUME p.known, p.window # q.window PROVE PartOf(p, history[disk]) OBVIOUS
        <5>2. PICK a \in Int, b \in Int : p.window = Part(a, b) /\ Fits(p.range, a, b, length)
          BY <1>1, <1>3, <5>1
        <5>3. PICK n \in Nat : n = length /\ 2 * n < Modulus BY TypeFacts
        <5>4. q.read = 0 /\ q.sent = <<>> BY <1>1 DEF Shaped, Unopened
        <5>5. p.read = 0 /\ p.sent = <<>> BY <2>1, <5>4 DEF SameWritten
        <5>6. PartOf(p, n) BY <5>2, <5>3, <5>5, PartBegins
        <5> QED BY <4>5, <4>6, <5>1, <5>3, <5>6
      <4>8. \E i, n : i = info' /\ n = length' /\ SteadyAt(p, i, n)
        <5>1. PICK i, n : i = info /\ n = length OBVIOUS
        <5>2. SteadyAt(q, i, n) BY <5>1
        <5>3. q.at \notin {"idle", "failed"} BY <1>1
        <5>4. p.known \/ Passed(p) \/ p.at = "tag" => disk # 0 /\ n = history[disk]
          BY <4>2, <4>4, <4>5, <4>6, <5>1
        <5>5. Passed(p) => p.tag.modified = disk /\ p.tag.length = history[disk]
          BY <2>1, <4>4, <4>6
        <5>6. SteadyAt(p, i, n)
          BY <2>1, <4>1, <4>2, <4>7, <5>2, <5>3, <5>4, <5>5, SteadyBefore
        <5> QED BY <1>1, <5>1, <5>6
      <4> QED BY <4>8
    <3> QED BY <3>1, <3>2
  <2> QED BY <1>1, <2>2, <2>3, <2>4 DEF Leaves
<1> QED BY <1>2, <1>3

LEMMA CompressSteady ==
    ASSUME Typed, NEW r \in Requests, NEW q \in Request, q = req[r], Shaped(q),
           SteadyAt(q, info, length), Compress(r)
    PROVE  \E p \in Request : Leaves(r, q, p)
<1>1. PICK p \in Request :
             /\ Set(r, p) /\ info' = info /\ length' = length
             /\ q.at = "concern" /\ chain[q.next] = "compress"
             /\ Passes(p, q) /\ SameAsked(p, q) /\ SameWritten(p, q)
             /\ p.status = q.status /\ p.window = q.window /\ p.tag = q.tag
  BY CompressDoes
<1>2. p.calm = q.calm /\ p.known = q.known BY <1>1 DEF SameAsked
<1>3. p.at \in {"concern", "head"} BY <1>1 DEF Passes
<1>4. SteadyAt(p, info', length')
  <2>1. CASE ~q.calm BY <1>2, <2>1, RestlessSteady
  <2>2. CASE q.calm
    <3>1. q.calm = TRUE BY <2>2 DEF Request
    <3>2. p.at \notin Streaming /\ ~Ended(p) /\ p.at \notin {"assign", "tag"}
      BY <1>3 DEF Streaming, Ended
    <3>3. q.next >= 1 /\ q.next \in Nat BY <1>1 DEF Shaped, Request
    <3>4. Passed(p) <=> Passed(q) BY <1>1, <3>3, PassedBy
    <3>5. /\ q.known \/ Passed(q) => disk # 0 /\ length = history[disk]
          /\ Passed(q) => q.tag.modified = disk /\ q.tag.length = history[disk]
      BY <1>1, <2>2 DEF SteadyAt
    <3>6. PICK i, n : i = info /\ n = length OBVIOUS
    <3>7. p.known \/ Passed(p) \/ p.at = "tag" => disk # 0 /\ n = history[disk]
      BY <1>2, <3>2, <3>4, <3>5, <3>6
    <3>8. Passed(p) => p.tag.modified = disk /\ p.tag.length = history[disk]
      BY <1>1, <3>4, <3>5
    <3>9. SteadyAt(q, i, n) /\ q.at \notin {"idle", "failed"} BY <1>1, <3>6
    <3>10. SteadyAt(p, i, n) BY <1>1, <3>1, <3>2, <3>7, <3>8, <3>9, SteadyBefore
    <3> QED BY <1>1, <3>6, <3>10
  <2> QED BY <2>1, <2>2
<1> QED BY <1>1, <1>2, <1>3, <1>4 DEF Leaves

LEMMA ValidateSteady ==
    ASSUME Typed, NEW r \in Requests, NEW q \in Request, q = req[r], Shaped(q),
           SteadyAt(q, info, length), Validate(r)
    PROVE  \E p \in Request : Leaves(r, q, p)
<1>1. PICK p \in Request :
             /\ Set(r, p) /\ Moved(p, q, "assign")
             /\ q.at = "concern" /\ info' = disk /\ length' = length
  BY ValidateDoes
<1>2. /\ SameAsked(p, q) /\ SameWritten(p, q) /\ p.at = "assign"
      /\ p.next = q.next /\ p.window = q.window /\ p.tag = q.tag
  BY <1>1 DEF Moved, SameBuilt
<1>3. p.calm = q.calm /\ p.known = q.known BY <1>2 DEF SameAsked
<1>4. SteadyAt(p, info', length')
  <2>1. CASE ~q.calm BY <1>3, <2>1, RestlessSteady
  <2>2. CASE q.calm
    <3>1. q.calm = TRUE BY <2>2 DEF Request
    <3>2. p.at \notin Streaming /\ ~Ended(p) BY <1>2 DEF Streaming, Ended
    <3>3. Passed(p) <=> Passed(q) BY <1>1, <1>2, PassedStill
    <3>4. /\ q.known \/ Passed(q) => disk # 0 /\ length = history[disk]
          /\ Passed(q) => q.tag.modified = disk /\ q.tag.length = history[disk]
      BY <1>1, <2>2 DEF SteadyAt
    <3>5. PICK i, k, n : i = info /\ k = disk /\ n = length OBVIOUS
    <3>6. p.known \/ Passed(p) \/ p.at = "tag" => disk # 0 /\ n = history[disk]
      BY <1>2, <1>3, <3>3, <3>4, <3>5
    <3>7. Passed(p) => p.tag.modified = disk /\ p.tag.length = history[disk]
      BY <1>2, <3>3, <3>4
    <3>8. SteadyAt(q, i, n) /\ q.at \notin {"idle", "failed"} /\ k = disk BY <1>1, <3>5
    <3>9. SteadyAt(p, k, n) BY <1>2, <3>1, <3>2, <3>6, <3>7, <3>8, SteadyBefore
    <3> QED BY <1>1, <3>5, <3>9
  <2> QED BY <2>1, <2>2
<1> QED BY <1>1, <1>2, <1>3, <1>4 DEF Leaves

LEMMA AssignSteady ==
    ASSUME Typed, NEW r \in Requests, NEW q \in Request, q = req[r], Shaped(q),
           SteadyAt(q, info, length), Assign(r)
    PROVE  \E p \in Request : Leaves(r, q, p)
<1>1. PICK p \in Request :
             /\ Set(r, p) /\ q.at = "assign" /\ info' = info
             /\ \/ info = 0 /\ Moved(p, q, "failed") /\ length' = length
                \/ info \in Versions /\ Moved(p, q, "tag") /\ length' = history[info]
  BY AssignDoes
<1>2. CASE Moved(p, q, "failed") /\ length' = length BY <1>1, <1>2, FailedSteady DEF Leaves
<1>3. CASE info \in Versions /\ Moved(p, q, "tag") /\ length' = history[info]
  <2>1. /\ SameAsked(p, q) /\ SameWritten(p, q) /\ p.at = "tag"
        /\ p.next = q.next /\ p.window = q.window /\ p.tag = q.tag
    BY <1>3 DEF Moved, SameBuilt
  <2>2. p.calm = q.calm BY <2>1 DEF SameAsked
  <2>3. q.calm => info = disk BY <1>1 DEF SteadyAt
  <2>4. info # 0 BY <1>3, TypeFacts
  <2>5. SteadyAt(p, info', length')
    <3>1. CASE ~q.calm BY <2>2, <3>1, RestlessSteady
    <3>2. CASE q.calm
      <4>1. q.calm = TRUE BY <3>2 DEF Request
      <4>2. p.at \notin Streaming /\ ~Ended(p) BY <2>1 DEF Streaming, Ended
      <4>3. Passed(p) <=> Passed(q) BY <1>1, <2>1, PassedStill
      <4>4. Passed(q) => q.tag.modified = disk /\ q.tag.length = history[disk]
        BY <1>1, <3>2 DEF SteadyAt
      <4>5. PICK i, n, k : i = info /\ n = length /\ k = history[info] OBVIOUS
      <4>6. disk # 0 /\ k = history[disk] /\ i = disk BY <2>3, <2>4, <3>2, <4>5
      <4>7. Passed(p) => p.tag.modified = disk /\ p.tag.length = history[disk]
        BY <2>1, <4>3, <4>4
      <4>8. SteadyAt(q, i, n) /\ q.at \notin {"idle", "failed"} BY <1>1, <4>5
      <4>9. SteadyAt(p, i, k) BY <2>1, <4>1, <4>2, <4>6, <4>7, <4>8, SteadyBefore
      <4> QED BY <1>1, <1>3, <4>5, <4>9
    <3> QED BY <3>1, <3>2
  <2> QED BY <1>1, <1>3, <2>1, <2>2, <2>3, <2>4, <2>5 DEF Leaves
<1> QED BY <1>1, <1>2, <1>3

LEMMA TagSteady ==
    ASSUME Typed, NEW r \in Requests, NEW q \in Request, q = req[r], Shaped(q),
           SteadyAt(q, info, length), Tag(r)
    PROVE  \E p \in Request : Leaves(r, q, p)
<1>1. PICK p \in Request :
             /\ Set(r, p) /\ q.at = "tag" /\ info' = info /\ length' = length
             /\ SameAsked(p, q) /\ SameWritten(p, q)
             /\ p.window = q.window
             /\ p.tag.modified = info /\ p.tag.length = length
             /\ \/ p.at = "done" /\ p.status = 304
                \/ Passes(p, q)
  BY TagDoes
<1>2. p.calm = q.calm BY <1>1 DEF SameAsked
<1>3. p.at \in {"concern", "head", "done"} /\ (p.at = "done" => p.status = 304)
  BY <1>1 DEF Passes
<1>4. SteadyAt(p, info', length')
  <2>1. CASE ~q.calm BY <1>2, <2>1, RestlessSteady
  <2>2. CASE q.calm
    <3>1. q.calm = TRUE BY <2>2 DEF Request
    <3>2. p.at \notin Streaming /\ ~Ended(p) /\ p.at \notin {"assign", "tag"}
      BY <1>3 DEF Streaming, Ended
    <3>3. disk # 0 /\ length = history[disk] /\ info = disk BY <1>1, <2>2 DEF SteadyAt
    <3>4. p.tag.modified = disk /\ p.tag.length = history[disk] BY <1>1, <3>3
    <3>5. PICK i, n : i = info /\ n = length OBVIOUS
    <3>6. disk # 0 /\ n = history[disk] BY <3>3, <3>5
    <3>7. SteadyAt(q, i, n) /\ q.at \notin {"idle", "failed"} BY <1>1, <3>5
    <3>8. SteadyAt(p, i, n) BY <1>1, <3>1, <3>2, <3>4, <3>6, <3>7, SteadyBefore
    <3> QED BY <1>1, <3>5, <3>8
  <2> QED BY <2>1, <2>2
<1> QED BY <1>1, <1>2, <1>3, <1>4 DEF Leaves

LEMMA ValidateAgainSteady ==
    ASSUME Typed, NEW r \in Requests, NEW q \in Request, q = req[r], Shaped(q),
           SteadyAt(q, info, length), ValidateAgain(r)
    PROVE  \E p \in Request : Leaves(r, q, p)
<1>1. PICK p \in Request :
             /\ Set(r, p) /\ q.at = "concern" /\ info' = info /\ length' = length
             /\ q.tag # NoTag
             /\ SameAsked(p, q) /\ SameWritten(p, q)
             /\ p.window = q.window /\ p.tag = q.tag
             /\ \/ p.at = "done" /\ p.status = 304
                \/ Passes(p, q)
  BY ValidateAgainDoes
<1>2. p.calm = q.calm BY <1>1 DEF SameAsked
<1>3. p.at \in {"concern", "head", "done"} /\ (p.at = "done" => p.status = 304)
  BY <1>1 DEF Passes
<1>4. Passed(q) BY <1>1 DEF Shaped
<1>5. SteadyAt(p, info', length')
  <2>1. CASE ~q.calm BY <1>2, <2>1, RestlessSteady
  <2>2. CASE q.calm
    <3>1. q.calm = TRUE BY <2>2 DEF Request
    <3>2. p.at \notin Streaming /\ ~Ended(p) /\ p.at \notin {"assign", "tag"}
      BY <1>3 DEF Streaming, Ended
    <3>3. /\ disk # 0 /\ length = history[disk]
          /\ q.tag.modified = disk /\ q.tag.length = history[disk]
      BY <1>1, <1>4, <2>2 DEF SteadyAt
    <3>4. p.tag.modified = disk /\ p.tag.length = history[disk] BY <1>1, <3>3
    <3>5. PICK i, n : i = info /\ n = length OBVIOUS
    <3>6. disk # 0 /\ n = history[disk] BY <3>3, <3>5
    <3>7. SteadyAt(q, i, n) /\ q.at \notin {"idle", "failed"} BY <1>1, <3>5
    <3>8. SteadyAt(p, i, n) BY <1>1, <3>1, <3>2, <3>4, <3>6, <3>7, SteadyBefore
    <3> QED BY <1>1, <3>5, <3>8
  <2> QED BY <2>1, <2>2
<1> QED BY <1>1, <1>2, <1>3, <1>5 DEF Leaves

LEMMA WriteHeadSteady ==
    ASSUME Typed, NEW r \in Requests, NEW q \in Request, q = req[r], Shaped(q),
           SteadyAt(q, info, length), WriteHead(r)
    PROVE  \E p \in Request : Leaves(r, q, p)
<1>1. PICK p \in Request :
             /\ Set(r, p) /\ q.at = "head" /\ info' = info /\ length' = length
             /\ SameAsked(p, q) /\ SameBuilt(p, q)
             /\ p.opened = q.opened /\ p.read = q.read /\ p.sent = q.sent
             /\ p.promised = IF p.chunked THEN Chunked ELSE Length(p)
             /\ p.at = IF p.head THEN "done" ELSE "body"
  BY WriteHeadDoes
<1>2. p.calm = q.calm /\ p.known = q.known /\ p.range = q.range BY <1>1 DEF SameAsked
<1>3. p.next = q.next /\ p.window = q.window /\ p.tag = q.tag BY <1>1 DEF SameBuilt
<1>4. p.at \in {"done", "body"} BY <1>1
<1>5. SteadyAt(p, info', length')
  <2>1. CASE ~q.calm BY <1>2, <2>1, RestlessSteady
  <2>2. CASE q.calm
    <3>1. Passed(p) <=> Passed(q) BY <1>1, <1>3, <1>4, PassedStill
    <3>2. ~Ended(p) BY <1>1 DEF Ended
    <3>3. /\ q.known \/ Passed(q) => disk # 0 /\ length = history[disk]
          /\ Passed(q) => q.tag.modified = disk /\ q.tag.length = history[disk]
          /\ q.opened # 0 => q.opened = disk
      BY <1>1, <2>2 DEF SteadyAt
    <3>4. ~p.window.part /\ (p.known \/ Passed(p)) /\ ~p.chunked => p.promised = history[disk]
      BY <1>1, <1>2, <3>1, <3>3 DEF Length
    <3>5. p.window.part /\ p.known => PartOf(p, history[disk])
      <4>1. SUFFICES ASSUME p.window.part, p.known PROVE PartOf(p, history[disk]) OBVIOUS
      <4>2. PICK k : k = history[disk] OBVIOUS
      <4>3. PartOf(q, k) BY <1>1, <1>2, <1>3, <2>2, <4>1, <4>2 DEF SteadyAt
      <4>4. PartOf(p, k) BY <1>1, <1>2, <1>3, <4>3, PartStays
      <4> QED BY <4>2, <4>4
    <3> QED BY <1>1, <1>2, <1>3, <1>4, <3>1, <3>2, <3>3, <3>4, <3>5 DEF SteadyAt
  <2> QED BY <2>1, <2>2
<1> QED BY <1>1, <1>2, <1>4, <1>5 DEF Leaves

\* A response without a body has promised none.
LEMMA WriteBodySteady ==
    ASSUME Typed, NEW r \in Requests, NEW q \in Request, q = req[r], Shaped(q),
           SteadyAt(q, info, length), WriteBody(r)
    PROVE  \E p \in Request : Leaves(r, q, p)
<1>1. PICK p \in Request :
             /\ Set(r, p) /\ q.at = "body" /\ info' = info /\ length' = length
             /\ Moved(p, q, IF ShouldSendBody(q) THEN "open" ELSE "done")
  BY WriteBodyDoes
<1>2. /\ SameAsked(p, q) /\ SameBuilt(p, q) /\ SameWritten(p, q)
      /\ p.at = IF ShouldSendBody(q) THEN "open" ELSE "done"
  BY <1>1 DEF Moved
<1>3. p.calm = q.calm /\ p.known = q.known /\ p.range = q.range BY <1>2 DEF SameAsked
<1>4. p.next = q.next /\ p.window = q.window /\ p.chunked = q.chunked BY <1>2 DEF SameBuilt
<1>5. p.promised = q.promised /\ p.opened = q.opened /\ p.sent = q.sent /\ p.read = q.read
  BY <1>2 DEF SameWritten
<1>6. SteadyAt(p, info', length')
  <2>1. CASE ~q.calm BY <1>3, <2>1, RestlessSteady
  <2>2. CASE q.calm
    <3>1. q.calm = TRUE BY <2>2 DEF Request
    <3>2. q.at \in Streaming /\ p.at \in Streaming \cup {"done"} BY <1>1, <1>2 DEF Streaming
    <3>3. /\ q.known \/ Passed(q) => disk # 0 /\ length = history[disk]
          /\ q.opened # 0 => q.opened = disk
          /\ ~q.window.part /\ (q.known \/ Passed(q)) /\ ~q.chunked => q.promised = history[disk]
      BY <1>1, <2>2, <3>2 DEF SteadyAt
    <3>4. q.window.part /\ q.known => PartOf(p, history[disk])
      <4>1. SUFFICES ASSUME q.window.part, q.known PROVE PartOf(p, history[disk]) OBVIOUS
      <4>2. PICK k : k = history[disk] OBVIOUS
      <4>3. PartOf(q, k) BY <1>1, <2>2, <4>1, <4>2 DEF SteadyAt
      <4>4. PartOf(p, k) BY <1>3, <1>4, <1>5, <4>3, PartStays
      <4> QED BY <4>2, <4>4
    <3>5. ASSUME Ended(p), p.known \/ (Passed(p) /\ ~p.window.part) PROVE p.promised = 0
      <4>1. ~q.chunked /\ ~(Length(q) > 0) BY <1>2, <3>5 DEF Ended, ShouldSendBody
      <4>2. Passed(p) <=> Passed(q) BY <1>2, <1>4, <3>2, PassedStill DEF Streaming
      <4>3. q.promised = Length(q)
        <5>1. CASE q.window.part BY <3>2, <4>1, <5>1 DEF Shaped, Length
        <5>2. CASE ~q.window.part BY <1>3, <1>4, <3>3, <3>5, <4>1, <4>2, <5>2 DEF Length
        <5> QED BY <5>1, <5>2
      <4>4. Length(q) \in Nat
        <5>1. q.window.start \in Unsigned /\ q.window.end \in Unsigned /\ length \in Nat
          BY TypeFacts, Fields
        <5>2. q.window.end - q.window.start + 1 \in Int BY <5>1, ModulusFacts DEF Unsigned
        <5>3. RangedLength(q.window) \in Unsigned BY <5>2, Wraps DEF RangedLength
        <5>4. Unsigned \subseteq Nat BY ModulusFacts DEF Unsigned
        <5> QED BY <5>1, <5>3, <5>4 DEF Length
      <4> QED BY <1>5, <4>1, <4>3, <4>4
    <3>6. PICK i, n : i = info /\ n = length OBVIOUS
    <3>7. q.known \/ Passed(q) => n = history[disk] BY <3>3, <3>6
    <3>8. SteadyAt(q, i, n) BY <3>6
    <3>9. p.opened # 0 => p.opened = disk BY <1>5, <3>3
    <3>10. SteadyAt(p, i, n) BY <1>2, <1>5, <3>1, <3>2, <3>4, <3>5, <3>7, <3>8, <3>9, SteadyWhile
    <3> QED BY <1>1, <3>6, <3>10
  <2> QED BY <2>1, <2>2
<1>7. p.at # "idle" BY <1>2
<1> QED BY <1>1, <1>3, <1>6, <1>7 DEF Leaves

LEMMA OpenSteady ==
    ASSUME Typed, NEW r \in Requests, NEW q \in Request, q = req[r], Shaped(q),
           SteadyAt(q, info, length), Open(r)
    PROVE  \E p \in Request : Leaves(r, q, p)
<1>1. PICK p \in Request :
             /\ Set(r, p) /\ q.at = "open" /\ info' = info /\ length' = length
             /\ \/ Moved(p, q, "failed")
                \/ /\ disk # 0 /\ p.at = "learn" /\ p.opened = disk
                   /\ SameAsked(p, q) /\ SameBuilt(p, q)
                   /\ p.promised = q.promised /\ p.read = q.read /\ p.sent = q.sent
  BY OpenDoes
<1>2. CASE Moved(p, q, "failed") BY <1>1, <1>2, FailedSteady DEF Leaves
<1>3. CASE ~Moved(p, q, "failed")
  <2>1. p.calm = q.calm /\ p.range = q.range BY <1>1, <1>3 DEF SameAsked
  <2>2. p.window = q.window BY <1>1, <1>3 DEF SameBuilt
  <2>3. p.at = "learn" /\ p.opened = disk /\ p.read = q.read /\ p.sent = q.sent
        /\ SameAsked(p, q) /\ SameBuilt(p, q) /\ p.promised = q.promised
    BY <1>1, <1>3
  <2>4. SteadyAt(p, info', length')
    <3>1. CASE ~q.calm BY <2>1, <3>1, RestlessSteady
    <3>2. CASE q.calm
      <4>1. q.calm = TRUE BY <3>2 DEF Request
      <4>2. q.at \in Streaming /\ p.at \in Streaming \cup {"done"} BY <1>1, <2>3 DEF Streaming
      <4>3. q.known \/ Passed(q) => length = history[disk] BY <1>1, <3>2 DEF SteadyAt
      <4>4. q.window.part /\ q.known => PartOf(p, history[disk])
        <5>1. SUFFICES ASSUME q.window.part, q.known PROVE PartOf(p, history[disk]) OBVIOUS
        <5>2. PICK k : k = history[disk] OBVIOUS
        <5>3. PartOf(q, k) BY <1>1, <3>2, <5>1, <5>2 DEF SteadyAt
        <5>4. PartOf(p, k) BY <2>1, <2>2, <2>3, <5>3, PartStays
        <5> QED BY <5>2, <5>4
      <4>5. PICK i, n : i = info /\ n = length OBVIOUS
      <4>6. (q.known \/ Passed(q) => n = history[disk]) /\ SteadyAt(q, i, n) BY <4>3, <4>5
      <4>7. ~Ended(p) BY <2>3 DEF Ended
      <4>8. SteadyAt(p, i, n) BY <2>3, <4>1, <4>2, <4>4, <4>6, <4>7, SteadyWhile
      <4> QED BY <1>1, <4>5, <4>8
    <3> QED BY <3>1, <3>2
  <2> QED BY <1>1, <2>1, <2>3, <2>4 DEF Leaves
<1> QED BY <1>2, <1>3

LEMMA LearnSteady ==
    ASSUME Typed, NEW r \in Requests, NEW q \in Request, q = req[r], Shaped(q),
           SteadyAt(q, info, length), Learn(r)
    PROVE  \E p \in Request : Leaves(r, q, p)
<1>1. PICK p \in Request :
             /\ Set(r, p) /\ q.at = "learn" /\ info' = info /\ Moved(p, q, "copy")
             /\ q.opened \in Versions /\ length' = history[q.opened]
  BY LearnDoes
<1>2. SameAsked(p, q) /\ SameBuilt(p, q) /\ SameWritten(p, q) /\ p.at = "copy" BY <1>1 DEF Moved
<1>3. p.calm = q.calm /\ p.range = q.range BY <1>2 DEF SameAsked
<1>4. p.window = q.window BY <1>2 DEF SameBuilt
<1>5. p.promised = q.promised /\ p.opened = q.opened /\ p.sent = q.sent /\ p.read = q.read
  BY <1>2 DEF SameWritten
<1>6. q.opened # 0 BY <1>1, TypeFacts
<1>7. q.calm => q.opened = disk BY <1>1, <1>6 DEF SteadyAt
<1>8. SteadyAt(p, info', length')
  <2>1. CASE ~q.calm BY <1>3, <2>1, RestlessSteady
  <2>2. CASE q.calm
    <3>1. q.calm = TRUE BY <2>2 DEF Request
    <3>2. q.at \in Streaming /\ p.at \in Streaming \cup {"done"} BY <1>1, <1>2 DEF Streaming
    <3>3. q.window.part /\ q.known => PartOf(p, history[disk])
      <4>1. SUFFICES ASSUME q.window.part, q.known PROVE PartOf(p, history[disk]) OBVIOUS
      <4>2. PICK k : k = history[disk] OBVIOUS
      <4>3. PartOf(q, k) BY <1>1, <2>2, <4>1, <4>2 DEF SteadyAt
      <4>4. PartOf(p, k) BY <1>3, <1>4, <1>5, <4>3, PartStays
      <4> QED BY <4>2, <4>4
    <3>4. PICK i, k, n : i = info /\ k = length /\ n = history[q.opened] OBVIOUS
    <3>5. n = history[disk] /\ SteadyAt(q, i, k) BY <1>7, <2>2, <3>4
    <3>6. p.opened # 0 /\ p.opened = disk /\ ~Ended(p) BY <1>2, <1>5, <1>6, <1>7, <2>2 DEF Ended
    <3>7. SteadyAt(p, i, n) BY <1>2, <1>5, <3>1, <3>2, <3>3, <3>5, <3>6, SteadyWhile
    <3> QED BY <1>1, <3>4, <3>7
  <2> QED BY <2>1, <2>2
<1> QED BY <1>1, <1>2, <1>3, <1>6, <1>7, <1>8 DEF Leaves

\* The bytes of a part go on where they ended.
LEMMA CopySteady ==
    ASSUME Typed, NEW r \in Requests, NEW q \in Request, q = req[r], Shaped(q),
           SteadyAt(q, info, length), Copy(r)
    PROVE  \E p \in Request : Leaves(r, q, p)
<1>1. PICK p \in Request :
             /\ Set(r, p) /\ q.at = "copy" /\ info' = info /\ length' = length
             /\ q.opened \in Versions
             /\ \/ Moved(p, q, "done")
                \/ \E n \in Nat :
                     /\ n > 0
                     /\ p.at = "copy" /\ SameAsked(p, q) /\ SameBuilt(p, q)
                     /\ p.promised = q.promised /\ p.opened = q.opened
                     /\ p.read = q.read + n
                     /\ p.sent = q.sent \o Written(q, n)
  BY CopyDoes
<1>2. /\ SameAsked(p, q) /\ SameBuilt(p, q) /\ p.at \in {"copy", "done"}
      /\ p.promised = q.promised /\ p.opened = q.opened
  BY <1>1 DEF Moved, SameWritten
<1>3. p.calm = q.calm /\ p.range = q.range BY <1>2 DEF SameAsked
<1>4. p.window = q.window BY <1>2 DEF SameBuilt
<1>5. SteadyAt(p, info', length')
  <2>1. CASE ~q.calm BY <1>3, <2>1, RestlessSteady
  <2>2. CASE q.calm
    <3>1. q.calm = TRUE BY <2>2 DEF Request
    <3>2. q.at \in Streaming /\ p.at \in Streaming \cup {"done"} BY <1>1, <1>2 DEF Streaming
    <3>3. /\ q.known \/ Passed(q) => disk # 0 /\ length = history[disk]
          /\ q.opened # 0 => q.opened = disk
      BY <1>1, <2>2 DEF SteadyAt
    <3>4. q.opened # 0 BY <1>1, TypeFacts
    <3>5. q.window.part /\ q.known => PartOf(p, history[disk])
      <4>1. SUFFICES ASSUME q.window.part, q.known PROVE PartOf(p, history[disk]) OBVIOUS
      <4>2. PICK k \in Nat : k = history[disk]
        <5>1. disk \in Versions BY <1>1, <3>3, <3>4
        <5>2. history[disk] \in Nat BY <5>1, SetupFacts, TypeFacts
        <5> QED BY <5>2
      <4>3. PartOf(q, k) BY <1>1, <2>2, <4>1, <4>2 DEF SteadyAt
      <4>4. PartOf(p, k)
        <5>1. CASE Moved(p, q, "done")
          <6>1. p.sent = q.sent /\ p.read = q.read BY <5>1 DEF Moved, SameWritten
          <6> QED BY <1>3, <1>4, <4>3, <6>1, PartStays
        <5>2. CASE ~Moved(p, q, "done")
          <6>1. PICK n \in Nat : n > 0 /\ p.read = q.read + n /\ p.sent = q.sent \o Written(q, n)
            BY <1>1, <5>2
          <6>2. q.read \in Nat /\ q.position = q.read BY Fields, TypeFacts DEF Shaped
          <6>3. q.window.start \in Int /\ q.window.end \in Int
            <7>1. q.window.start \in Unsigned /\ q.window.end \in Unsigned BY Fields, TypeFacts
            <7> QED BY <7>1, ModulusFacts DEF Unsigned
          <6> QED BY <1>3, <1>4, <4>1, <4>3, <6>1, <6>2, <6>3, PartGoesOn
        <5> QED BY <5>1, <5>2
      <4> QED BY <4>2, <4>4
    <3>6. PICK i, n : i = info /\ n = length OBVIOUS
    <3>7. (q.known \/ Passed(q) => n = history[disk]) /\ SteadyAt(q, i, n) BY <3>3, <3>6
    <3>8. p.opened # 0 /\ p.opened = disk BY <1>2, <3>3, <3>4
    <3>9. SteadyAt(p, i, n) BY <1>2, <3>1, <3>2, <3>5, <3>7, <3>8, SteadyWhile
    <3> QED BY <1>1, <3>6, <3>9
  <2> QED BY <2>1, <2>2
<1>6. p.at # "idle" BY <1>2
<1> QED BY <1>1, <1>3, <1>5, <1>6 DEF Leaves

LEMMA HandleSteady ==
    ASSUME Typed, NEW r \in Requests, NEW q \in Request, q = req[r], Shaped(q),
           SteadyAt(q, info, length), Handle(r)
    PROVE  \E p \in Request : Leaves(r, q, p)
<1>1. CASE RangeSupport(r) BY <1>1, RangeSupportSteady
<1>2. CASE Compress(r) BY <1>2, CompressSteady
<1>3. CASE Validate(r) BY <1>3, ValidateSteady
<1>4. CASE Assign(r) BY <1>4, AssignSteady
<1>5. CASE Tag(r) BY <1>5, TagSteady
<1>6. CASE WriteHead(r) BY <1>6, WriteHeadSteady
<1>7. CASE WriteBody(r) BY <1>7, WriteBodySteady
<1>8. CASE Open(r) BY <1>8, OpenSteady
<1>9. CASE Learn(r) BY <1>9, LearnSteady
<1>10. CASE Copy(r) BY <1>10, CopySteady
<1>11. CASE ValidateAgain(r) BY <1>11, ValidateAgainSteady
<1> QED BY <1>1, <1>2, <1>3, <1>4, <1>5, <1>6, <1>7, <1>8, <1>9, <1>10, <1>11 DEF Handle

\* A request as it is after a step.
LEMMA SteadyNow ==
    ASSUME NEW x, NEW i, NEW n, SteadyAt(x, i, n), setup' = setup, disk' = disk,
           NEW s, x = req'[s], i = info', n = length'
    PROVE  SteadyAt(req[s], info, length)'
<1>1. history' = history /\ chain' = chain BY SameTypes
<1>2. Passed(x)' <=> Passed(x) BY <1>1 DEF Passed
<1>3. PartOf(x, history[disk])' <=> PartOf(x, history[disk]) BY <1>1 DEF PartOf, RangedLength
<1>4. SteadyAt(x, i, n)' BY <1>1, <1>2, <1>3 DEF SteadyAt, Ended
<1> QED BY <1>4 DEF SteadyAt, Ended, Passed, PartOf, RangedLength

\* The others do not notice, unless the file has changed.
LEMMA OthersSteady ==
    ASSUME NEW q, NEW i, NEW n, NEW j, NEW m, SteadyAt(q, i, n),
           q.calm => j \in {i, disk} /\ (m = n \/ (disk # 0 /\ m = history[disk]))
    PROVE  SteadyAt(q, j, m)
BY DEF SteadyAt

LEMMA SetKeepsSteady ==
    ASSUME Typed, AllSteady, setup' = setup, disk' = disk, NEW r \in Requests, NEW p, Set(r, p),
           SteadyAt(p, info', length'),
           \A s \in Requests : s # r /\ InFlight(s) /\ req[s].calm =>
               info' \in {info, disk} /\ (length' = length \/ (disk # 0 /\ length' = history[disk]))
    PROVE  AllSteady'
<1> SUFFICES ASSUME NEW s \in Requests PROVE SteadyAt(req[s], info, length)' BY DEF AllSteady
<1>1. PICK x, i, n, j, m : x = req'[s] /\ i = info /\ n = length /\ j = info' /\ m = length' OBVIOUS
<1>2. req' = [req EXCEPT ![r] = p] /\ req \in [Requests -> Request] BY TypeFacts DEF Set
<1>3. SteadyAt(x, j, m)
  <2>1. CASE s = r
    <3>1. x = p BY <1>1, <1>2, <2>1
    <3> QED BY <1>1, <3>1
  <2>2. CASE s # r
    <3>1. x = req[s] BY <1>1, <1>2, <2>2
    <3>2. SteadyAt(x, i, n) BY <1>1, <3>1 DEF AllSteady
    <3>3. CASE InFlight(s)
      <4>1. x.calm => j \in {i, disk} /\ (m = n \/ (disk # 0 /\ m = history[disk]))
        BY <1>1, <2>2, <3>1, <3>3
      <4> QED BY <3>2, <4>1, OthersSteady
    <3>4. CASE ~InFlight(s) BY <3>1, <3>4 DEF SteadyAt, InFlight
    <3> QED BY <3>3, <3>4
  <2> QED BY <2>1, <2>2
<1> QED BY <1>1, <1>3, SteadyNow

LEMMA SetKeepsAlike ==
    ASSUME Typed, Alike, NEW r \in Requests, NEW p, Set(r, p),
           p.at # "idle" => \A s \in Requests : s # r /\ InFlight(s) => req[s].calm = p.calm
    PROVE  Alike'
<1>1. req' = [req EXCEPT ![r] = p] /\ req \in [Requests -> Request] BY TypeFacts DEF Set
<1> SUFFICES ASSUME NEW s \in Requests, NEW t \in Requests, InFlight(s)', InFlight(t)'
             PROVE  req'[s].calm = req'[t].calm
  BY DEF Alike
<1>2. req'[s].at # "idle" /\ req'[t].at # "idle" BY DEF InFlight
<1>3. CASE s = r /\ t = r BY <1>3
<1>4. CASE s = r /\ t # r BY <1>1, <1>2, <1>4 DEF InFlight
<1>5. CASE s # r /\ t = r BY <1>1, <1>2, <1>5 DEF InFlight
<1>6. CASE s # r /\ t # r BY <1>1, <1>2, <1>6 DEF Alike, InFlight
<1> QED BY <1>3, <1>4, <1>5, <1>6

LEMMA SteadyKept ==
    ASSUME Typed, AllShaped, AllSteady, Alike, [Next]_vars
    PROVE  AllSteady' /\ Alike'
<1>1. ASSUME NEW r \in Requests, Start(r) PROVE AllSteady' /\ Alike'
  <2>1. PICK p \in Request :
             /\ Set(r, p) /\ req[r].at = "idle" /\ Passes(p, Idle) /\ SameWritten(p, Idle)
             /\ p.status = 200 /\ p.window = Whole
             /\ p.known = (disk # 0 /\ length = history[disk])
             /\ p.calm = (\A s \in Requests : InFlight(s) => req[s].calm)
    BY <1>1, StartDoes
  <2>2. setup' = setup /\ disk' = disk /\ info' = info /\ length' = length
    BY <1>1 DEF Start, file, resource
  <2>3. p.at \in {"concern", "head"} /\ p.next \in {0, 1} /\ (p.next = 1 => p.at = "concern")
    BY SMTT(30), <2>1, SetupFacts, TypeFacts DEF Passes, Idle
  <2>4. ~Passed(p) /\ ~Ended(p) /\ p.at \notin Streaming /\ ~p.window.part
    BY <2>1, <2>3 DEF Passed, Ended, Streaming, Whole
  <2>5. p.opened = 0 BY <2>1 DEF SameWritten, Idle
  <2>6. SteadyAt(p, info, length)
    <3>1. p.known => disk # 0 /\ length = history[disk] BY <2>1
    <3> QED BY <2>3, <2>4, <2>5, <3>1 DEF SteadyAt
  <2>7. PICK i, n : i = info /\ n = length /\ SteadyAt(p, i, n) BY <2>6
  <2>8. SteadyAt(p, info', length') BY <2>2, <2>7
  <2>9. AllSteady' BY <2>1, <2>2, <2>8, SetKeepsSteady
  <2>10. \A s \in Requests : InFlight(s) => req[s].calm = p.calm
    <3>1. SUFFICES ASSUME NEW s \in Requests, InFlight(s) PROVE req[s].calm = p.calm OBVIOUS
    <3>2. \A t \in Requests : InFlight(t) => req[t].calm = req[s].calm BY <3>1 DEF Alike
    <3>3. req[s].calm \in BOOLEAN /\ p.calm \in BOOLEAN BY TypeFacts DEF Request
    <3>4. CASE req[s].calm
      <4>1. \A t \in Requests : InFlight(t) => req[t].calm BY <3>2, <3>4
      <4> QED BY <2>1, <3>3, <3>4, <4>1
    <3>5. CASE ~req[s].calm BY <2>1, <3>1, <3>3, <3>5
    <3> QED BY <3>4, <3>5
  <2>11. Alike' BY <2>1, <2>10, SetKeepsAlike
  <2> QED BY <2>9, <2>11
<1>2. ASSUME NEW r \in Requests, Handle(r) PROVE AllSteady' /\ Alike'
  <2>1. setup' = setup /\ disk' = disk
    BY <1>2 DEF Handle, RangeSupport, Compress, Validate, Assign, Tag, ValidateAgain, WriteHead, WriteBody, Open,
           Learn, Copy, Keeps, file
  <2>2. PICK q \in Request : q = req[r] /\ Shaped(q) /\ SteadyAt(q, info, length)
    BY TypeFacts DEF AllShaped, AllSteady
  <2>3. PICK p \in Request : Leaves(r, q, p) BY <1>2, <2>2, HandleSteady
  <2>4. /\ Set(r, p) /\ p.calm = q.calm /\ q.at # "idle" /\ SteadyAt(p, info', length')
        /\ q.calm => info' \in {info, disk} /\ (length' = length \/ (disk # 0 /\ length' = history[disk]))
    BY <2>3 DEF Leaves
  <2>5. \A s \in Requests : InFlight(s) => req[s].calm = q.calm BY <2>2, <2>4 DEF Alike, InFlight
  <2>6. AllSteady' BY <2>1, <2>4, <2>5, SetKeepsSteady
  <2>7. Alike' BY <2>4, <2>5, SetKeepsAlike
  <2> QED BY <2>6, <2>7
<1>3. ASSUME NEW r \in Requests, Finish(r) PROVE AllSteady' /\ Alike'
  <2>1. Set(r, Idle) /\ setup' = setup /\ disk' = disk /\ info' = info /\ length' = length
    BY <1>3 DEF Finish, file, resource
  <2>2. PICK p \in Request : p = Idle /\ p.at = "idle"
    <3>1. Idle.at = "idle" BY DEF Idle
    <3> QED BY <3>1, IdleTyped, TypeFacts
  <2>3. SteadyAt(p, info', length') BY <2>2 DEF SteadyAt
  <2>4. AllSteady' BY <2>1, <2>2, <2>3, SetKeepsSteady
  <2>5. Alike' BY <2>1, <2>2, SetKeepsAlike
  <2> QED BY <2>4, <2>5
<1>4. CASE Replace \/ Remove
  <2>1. Disturb BY <1>4 DEF Replace, Remove
  <2>2. \A s \in Requests : req'[s].at = "idle" \/ (~req'[s].calm /\ req'[s].calm = FALSE)
    <3> SUFFICES ASSUME NEW s \in Requests
                 PROVE  req'[s].at = "idle" \/ (~req'[s].calm /\ req'[s].calm = FALSE)
      OBVIOUS
    <3>1. PICK p \in Request : p = req'[s] /\ IF p.at = "idle" THEN p.calm = req[s].calm ELSE p.calm = FALSE
      BY <2>1, DisturbDoes
    <3> QED BY <3>1
  <2>3. AllSteady' BY <2>2 DEF AllSteady, SteadyAt
  <2>4. Alike' BY <2>2 DEF Alike, InFlight
  <2> QED BY <2>3, <2>4
<1>5. CASE UNCHANGED vars
  <2>1. setup' = setup /\ disk' = disk /\ info' = info /\ length' = length /\ req' = req
    BY <1>5 DEF vars, file, resource
  <2>2. AllSteady'
    <3> SUFFICES ASSUME NEW s \in Requests PROVE SteadyAt(req[s], info, length)' BY DEF AllSteady
    <3>1. PICK x, i, n : x = req[s] /\ i = info /\ n = length /\ SteadyAt(x, i, n) BY DEF AllSteady
    <3> QED BY <2>1, <3>1, SteadyNow
  <2> QED BY <2>1, <2>2 DEF Alike, InFlight
<1> QED BY <1>1, <1>2, <1>3, <1>4, <1>5 DEF Next

LEMMA SteadyAtFirst == ASSUME Init PROVE AllSteady /\ Alike
<1>1. \A r \in Requests : req[r].at = "idle" BY DEF Init, Idle
<1> QED BY <1>1 DEF AllSteady, SteadyAt, Alike, InFlight

-----------------------------------------------------------------------------
(* The versions that a tag, a body and a stored copy can be of.            *)

\* The body of a copy is not older than its tag; an empty one that was stored
\* while the file stayed the same is of a version that is empty.
Kept(c) ==
    c # NoCopy =>
        /\ c.tag.modified <= edits /\ c.body <= edits
        /\ c.body # 0 => c.tag.modified <= c.body
        /\ c.body = 0 /\ c.calm => c.tag.modified # 0 /\ history[c.tag.modified] = 0

AllKept == \A c \in copies : Kept(c)

DatedAt(q, seen) ==
    q.at # "idle" =>
        /\ q.at \notin {"done", "failed"} => q.status \in {200, 206}
        /\ q.from <= edits /\ Kept(q.cached)
        /\ q.at \in {"assign", "tag"} => seen = 0 \/ q.from <= seen
        /\ q.tag.modified <= edits
        /\ q.tag = NoTag \/ q.at = "done" \/ q.cached.tag # q.tag
        /\ q.opened # 0 => q.tag.modified <= q.opened /\ q.opened <= edits
        /\ q.at = "done" /\ q.status = 304 =>
            q.cached # NoCopy /\ (q.cached.tag.modified = 0 \/ q.from <= q.cached.tag.modified)

AllDated == \A r \in Requests : DatedAt(req[r], info)

\* A step that does not touch tag, stream and status.
LEMMA DatedStill ==
    ASSUME NEW p, NEW q, NEW i, NEW j, DatedAt(q, i), q.at \notin {"idle", "done", "failed"},
           SameAsked(p, q), p.tag = q.tag, p.opened = q.opened, p.at # "idle",
           p.at # "failed" => p.status \in {200, 206, 416},
           p.at \notin {"done", "failed"} => p.status \in {200, 206},
           p.at \in {"assign", "tag"} => j = 0 \/ q.from <= j
    PROVE  DatedAt(p, j)
BY DEF DatedAt, SameAsked

LEMMA HandleDated ==
    ASSUME Typed, NEW r \in Requests, NEW q \in Request, q = req[r], Shaped(q),
           DatedAt(q, info), Handle(r)
    PROVE  \E p \in Request : Set(r, p) /\ DatedAt(p, info') /\ info' \in {info, disk}
<1>1. PICK i : i = info /\ DatedAt(q, i) OBVIOUS
<1>2. q.at \notin {"idle", "done", "failed"} => q.status \in {200, 206} BY DEF DatedAt
<1>3. disk \in {0, edits} /\ disk \in Nat /\ edits \in Nat /\ info \in Nat
  BY TypeFacts DEF Typed
<1>4. CASE RangeSupport(r)
  <2>1. PICK p \in Request :
             /\ Set(r, p) /\ info' = info /\ q.at = "concern"
             /\ \/ Moved(p, q, "failed")
                \/ /\ SameAsked(p, q) /\ SameWritten(p, q) /\ p.tag = q.tag
                   /\ \/ p.at = "done" /\ p.status = 416
                      \/ Passes(p, q) /\ p.status = q.status
                      \/ Passes(p, q) /\ p.status = 206
    BY <1>4, RangeSupportDoes
  <2>2. SameAsked(p, q) /\ p.tag = q.tag /\ p.opened = q.opened
    BY <2>1 DEF Moved, SameBuilt, SameWritten
  <2>3. p.at \in {"concern", "head", "done", "failed"} BY <2>1 DEF Passes, Moved
  <2>4. /\ p.at # "failed" => p.status \in {200, 206, 416}
        /\ p.at \notin {"done", "failed"} => p.status \in {200, 206}
    BY <1>2, <2>1 DEF Moved
  <2>5. DatedAt(p, i) BY <1>1, <2>1, <2>2, <2>3, <2>4, DatedStill
  <2> QED BY <1>1, <2>1, <2>5
<1>5. CASE Compress(r)
  <2>1. PICK p \in Request :
             /\ Set(r, p) /\ info' = info /\ q.at = "concern"
             /\ Passes(p, q) /\ SameAsked(p, q) /\ SameWritten(p, q)
             /\ p.status = q.status /\ p.tag = q.tag
    BY <1>5, CompressDoes
  <2>2. p.opened = q.opened /\ p.at \in {"concern", "head"} BY <2>1 DEF SameWritten, Passes
  <2>3. DatedAt(p, i) BY <1>1, <1>2, <2>1, <2>2, DatedStill
  <2> QED BY <1>1, <2>1, <2>3
<1>6. CASE Validate(r)
  <2>1. PICK p \in Request :
             Set(r, p) /\ Moved(p, q, "assign") /\ q.at = "concern" /\ info' = disk
    BY <1>6, ValidateDoes
  <2>2. /\ SameAsked(p, q) /\ p.tag = q.tag /\ p.opened = q.opened /\ p.at = "assign"
        /\ p.status = q.status
    BY <2>1 DEF Moved, SameBuilt, SameWritten
  <2>3. PICK j : j = disk OBVIOUS
  <2>4. j = 0 \/ q.from <= j BY <1>3, <2>1, <2>3 DEF DatedAt
  <2>5. DatedAt(p, j) BY <1>1, <1>2, <2>1, <2>2, <2>4, DatedStill
  <2> QED BY <2>1, <2>3, <2>5
<1>7. CASE Assign(r)
  <2>1. PICK p \in Request :
             /\ Set(r, p) /\ q.at = "assign" /\ info' = info
             /\ Moved(p, q, "failed") \/ Moved(p, q, "tag")
    BY <1>7, AssignDoes
  <2>2. /\ SameAsked(p, q) /\ p.tag = q.tag /\ p.opened = q.opened
        /\ p.at \in {"failed", "tag"} /\ p.status = q.status
    BY <2>1 DEF Moved, SameBuilt, SameWritten
  <2>3. i = 0 \/ q.from <= i BY <1>1, <2>1 DEF DatedAt
  <2>4. DatedAt(p, i) BY <1>1, <1>2, <2>1, <2>2, <2>3, DatedStill
  <2> QED BY <1>1, <2>1, <2>4
<1>8. CASE Tag(r)
  <2>1. PICK p \in Request :
             /\ Set(r, p) /\ q.at = "tag" /\ info' = info
             /\ SameAsked(p, q) /\ SameWritten(p, q)
             /\ p.tag.modified = info
             /\ \/ /\ p.at = "done" /\ p.status = 304
                   /\ p.cached # NoCopy /\ p.cached.tag = p.tag
                \/ /\ Passes(p, q) /\ p.status = q.status
                   /\ q.tag = p.tag \/ p.cached.tag # p.tag
    BY <1>8, TagDoes
  <2>2. q.opened = 0 BY <2>1 DEF Shaped, Unopened
  <2>3. p.from = q.from /\ p.cached = q.cached /\ p.opened = 0
    BY <2>1, <2>2 DEF SameAsked, SameWritten
  <2>4. q.from <= edits /\ Kept(q.cached) /\ (info = 0 \/ q.from <= info) BY <2>1 DEF DatedAt
  <2>5. p.at \in {"concern", "head", "done"} /\ (p.at # "done" => p.status \in {200, 206})
    BY <1>2, <2>1 DEF Passes
  <2>6. info <= edits BY TypeFacts
  <2>7. p.at = "done" /\ p.status = 304 =>
          p.cached # NoCopy /\ (p.cached.tag.modified = 0 \/ p.from <= p.cached.tag.modified)
    BY <2>1, <2>3, <2>4, <2>5 DEF Passes
  <2>9. p.tag = NoTag \/ p.at = "done" \/ p.cached.tag # p.tag
    BY <1>1, <2>1, <2>3 DEF DatedAt
  <2>8. DatedAt(p, i) BY <2>1, <2>3, <2>4, <2>5, <2>6, <2>7, <2>9 DEF DatedAt
  <2> QED BY <1>1, <2>1, <2>8
<1>14. CASE ValidateAgain(r)
  <2>1. PICK p \in Request :
             /\ Set(r, p) /\ q.at = "concern" /\ info' = info /\ q.tag # NoTag
             /\ SameAsked(p, q) /\ SameWritten(p, q) /\ p.tag = q.tag
             /\ \/ p.cached.tag = p.tag
                \/ Passes(p, q) /\ p.status = q.status
    BY <1>14, ValidateAgainDoes
  <2>2. p.cached = q.cached /\ p.opened = q.opened BY <2>1 DEF SameAsked, SameWritten
  <2>3. q.cached.tag # q.tag BY <1>1, <2>1 DEF DatedAt
  <2>4. Passes(p, q) /\ p.status = q.status BY <2>1, <2>2, <2>3
  <2>5. p.at \in {"concern", "head"} BY <2>4 DEF Passes
  <2>6. DatedAt(p, i) BY <1>1, <1>2, <2>1, <2>2, <2>4, <2>5, DatedStill
  <2> QED BY <1>1, <2>1, <2>6
<1>9. CASE WriteHead(r)
  <2>1. PICK p \in Request :
             /\ Set(r, p) /\ q.at = "head" /\ info' = info
             /\ SameAsked(p, q) /\ SameBuilt(p, q) /\ p.opened = q.opened
             /\ p.at = IF p.head THEN "done" ELSE "body"
    BY <1>9, WriteHeadDoes
  <2>2. p.tag = q.tag /\ p.status = q.status /\ p.at \in {"done", "body"} BY <2>1 DEF SameBuilt
  <2>3. DatedAt(p, i) BY <1>1, <1>2, <2>1, <2>2, DatedStill
  <2> QED BY <1>1, <2>1, <2>3
<1>10. CASE WriteBody(r)
  <2>1. PICK p \in Request :
             /\ Set(r, p) /\ q.at = "body" /\ info' = info
             /\ Moved(p, q, IF ShouldSendBody(q) THEN "open" ELSE "done")
    BY <1>10, WriteBodyDoes
  <2>2. /\ SameAsked(p, q) /\ p.tag = q.tag /\ p.opened = q.opened
        /\ p.at \in {"open", "done"} /\ p.status = q.status
    BY <2>1 DEF Moved, SameBuilt, SameWritten
  <2>3. DatedAt(p, i) BY <1>1, <1>2, <2>1, <2>2, DatedStill
  <2> QED BY <1>1, <2>1, <2>3
<1>11. CASE Open(r)
  <2>1. PICK p \in Request :
             /\ Set(r, p) /\ q.at = "open" /\ info' = info
             /\ \/ Moved(p, q, "failed")
                \/ /\ disk # 0 /\ p.at = "learn" /\ p.opened = disk
                   /\ SameAsked(p, q) /\ SameBuilt(p, q)
    BY <1>11, OpenDoes
  <2>2. CASE Moved(p, q, "failed")
    <3>1. SameAsked(p, q) /\ p.tag = q.tag /\ p.opened = q.opened /\ p.at = "failed"
      BY <2>2 DEF Moved, SameBuilt, SameWritten
    <3>2. DatedAt(p, i) BY <1>1, <2>1, <3>1, DatedStill
    <3> QED BY <1>1, <2>1, <3>2
  <2>3. CASE ~Moved(p, q, "failed")
    <3>1. p.from = q.from /\ p.cached = q.cached /\ p.tag = q.tag /\ p.status = q.status
      BY <2>1, <2>3 DEF SameAsked, SameBuilt
    <3>2. p.at = "learn" /\ p.opened = edits BY <1>3, <2>1, <2>3
    <3>3. DatedAt(p, i) BY <1>2, <1>3, <2>1, <3>1, <3>2 DEF DatedAt
    <3> QED BY <1>1, <2>1, <3>3
  <2> QED BY <2>2, <2>3
<1>12. CASE Learn(r)
  <2>1. PICK p \in Request :
             Set(r, p) /\ q.at = "learn" /\ info' = info /\ Moved(p, q, "copy")
    BY <1>12, LearnDoes
  <2>2. /\ SameAsked(p, q) /\ p.tag = q.tag /\ p.opened = q.opened
        /\ p.at = "copy" /\ p.status = q.status
    BY <2>1 DEF Moved, SameBuilt, SameWritten
  <2>3. DatedAt(p, i) BY <1>1, <1>2, <2>1, <2>2, DatedStill
  <2> QED BY <1>1, <2>1, <2>3
<1>13. CASE Copy(r)
  <2>1. PICK p \in Request :
             /\ Set(r, p) /\ q.at = "copy" /\ info' = info
             /\ \/ Moved(p, q, "done")
                \/ p.at = "copy" /\ SameAsked(p, q) /\ SameBuilt(p, q) /\ p.opened = q.opened
    BY <1>13, CopyDoes
  <2>2. /\ SameAsked(p, q) /\ p.tag = q.tag /\ p.opened = q.opened
        /\ p.at \in {"copy", "done"} /\ p.status = q.status
    BY <2>1 DEF Moved, SameBuilt, SameWritten
  <2>3. DatedAt(p, i) BY <1>1, <1>2, <2>1, <2>2, DatedStill
  <2> QED BY <1>1, <2>1, <2>3
<1> QED BY <1>4, <1>5, <1>6, <1>7, <1>8, <1>9, <1>10, <1>11, <1>12, <1>13, <1>14 DEF Handle

\* A copy that is stored is kept.
LEMMA FinishKeeps ==
    ASSUME Typed, NEW q \in Request, Shaped(q), SteadyAt(q, info, length), DatedAt(q, info),
           q.at = "done", Complete(q), q.tag # NoTag,
           NEW c, c.tag = q.tag, c.body = q.opened, c.calm = q.calm
    PROVE  Kept(c)
<1>1. edits \in Nat /\ q.opened \in Nat BY TypeFacts, Fields
<1>2. q.tag.modified <= edits /\ (q.opened # 0 => q.tag.modified <= q.opened /\ q.opened <= edits)
  BY DEF DatedAt
<1>3. Ended(q) /\ q.status = 200 BY DEF Ended, Complete
<1>4. Passed(q) BY DEF Shaped
<1>5. q.window.part \in BOOLEAN /\ ~q.window.part BY <1>3, Fields, TypeFacts DEF Shaped
<1>6. ASSUME q.opened = 0, q.calm PROVE q.tag.modified # 0 /\ history[q.tag.modified] = 0
  <2>1. ~q.chunked BY <1>3, <1>6 DEF Shaped
  <2>2. disk # 0 /\ q.tag.modified = disk BY <1>4, <1>6 DEF SteadyAt
  <2>3. q.promised = history[disk] BY <1>3, <1>4, <1>5, <1>6, <2>1 DEF SteadyAt
  <2>4. q.promised = 0 BY <1>3, <1>4, <1>5, <1>6 DEF SteadyAt
  <2> QED BY <2>2, <2>3, <2>4
<1> QED BY <1>1, <1>2, <1>6 DEF Kept

LEMMA KeptLater ==
    ASSUME NEW c, c \in Stored, Kept(c), setup' = setup, edits \in Nat, edits' \in {edits, edits + 1}
    PROVE  Kept(c)'
<1>1. c.tag \in Label /\ c.body \in 0..Len(history) BY DEF Stored
<1>2. c.tag.modified \in -1..Len(history) BY <1>1 DEF Label
<1>3. history' = history BY SameTypes
<1>4. c.tag.modified \in Int /\ c.body \in Int BY <1>1, <1>2
<1> QED BY <1>3, <1>4 DEF Kept

LEMMA DatedLater ==
    ASSUME Typed, NEW x \in Request, NEW i, DatedAt(x, i), setup' = setup, edits' \in {edits, edits + 1},
           NEW j, j \in {i, disk}
    PROVE  DatedAt(x, j)'
<1>1. edits \in Nat /\ disk \in {0, edits} BY TypeFacts DEF Typed
<1>2. x.cached \in Stored /\ x.from \in 0..Len(history) /\ x.tag \in Label /\ x.opened \in 0..Len(history)
  BY DEF Request
<1>3. x.tag.modified \in Int /\ x.from \in Int /\ x.opened \in Int BY <1>2 DEF Label
<1>4. Kept(x.cached) => Kept(x.cached)' BY <1>1, <1>2, KeptLater
<1> QED BY <1>1, <1>3, <1>4 DEF DatedAt

LEMMA DatedNow ==
    ASSUME NEW x, NEW j, DatedAt(x, j)', NEW s, x = req'[s], j = info'
    PROVE  DatedAt(req[s], info)'
BY DEF DatedAt, Kept

LEMMA SetKeepsDates ==
    ASSUME Typed, AllDated, setup' = setup, edits' = edits, info' \in {info, disk},
           NEW r \in Requests, NEW p \in Request, Set(r, p), DatedAt(p, info')
    PROVE  AllDated'
<1> SUFFICES ASSUME NEW s \in Requests PROVE DatedAt(req[s], info)' BY DEF AllDated
<1>1. req' = [req EXCEPT ![r] = p] /\ req \in [Requests -> Request] BY TypeFacts DEF Set
<1>2. PICK x \in Request : x = req'[s] /\ (x = p \/ x = req[s]) BY <1>1
<1>3. PICK i, j : i = info /\ j = info' OBVIOUS
<1>4. edits \in Nat BY TypeFacts
<1>5. CASE x = p
  <2>1. DatedAt(x, j) /\ j \in {j, disk} BY <1>3, <1>5
  <2>2. DatedAt(x, j)' BY <2>1, DatedLater
  <2> QED BY <1>2, <1>3, <2>2, DatedNow
<1>6. CASE x = req[s]
  <2>1. DatedAt(x, i) /\ j \in {i, disk} BY <1>3, <1>6 DEF AllDated
  <2>2. DatedAt(x, j)' BY <2>1, DatedLater
  <2> QED BY <1>2, <1>3, <2>2, DatedNow
<1> QED BY <1>2, <1>5, <1>6

LEMMA CopiesKept ==
    ASSUME Typed, AllKept, setup' = setup, edits' \in {edits, edits + 1}, copies' = copies
    PROVE  AllKept'
<1> SUFFICES ASSUME NEW c \in copies PROVE Kept(c)' BY DEF AllKept
<1> QED BY KeptLater, TypeFacts DEF AllKept

LEMMA DatesKept ==
    ASSUME Typed, AllShaped, AllSteady, AllDated, AllKept, [Next]_vars
    PROVE  AllDated' /\ AllKept'
<1>1. ASSUME NEW r \in Requests, Start(r) PROVE AllDated' /\ AllKept'
  <2>1. PICK p \in Request :
             /\ Set(r, p) /\ Passes(p, Idle) /\ SameWritten(p, Idle)
             /\ p.status = 200 /\ p.tag = NoTag
             /\ p.from = edits /\ p.cached \in copies \cup {NoCopy}
    BY <1>1, StartDoes
  <2>2. setup' = setup /\ edits' = edits /\ info' = info /\ copies' = copies
    BY <1>1 DEF Start, file, resource
  <2>3. p.at \in {"concern", "head"} /\ p.opened = 0 /\ p.tag.modified = -1
    BY <2>1 DEF Passes, SameWritten, Idle, NoTag
  <2>4. Kept(p.cached) BY <2>1 DEF AllKept, Kept
  <2>5. edits \in Nat BY TypeFacts
  <2>6. DatedAt(p, info) BY <2>1, <2>3, <2>4, <2>5 DEF DatedAt
  <2>7. PICK i : i = info /\ DatedAt(p, i) BY <2>6
  <2>8. DatedAt(p, info') BY <2>2, <2>7
  <2>9. AllDated' BY <2>1, <2>2, <2>8, SetKeepsDates
  <2> QED BY <2>2, <2>9, CopiesKept
<1>2. ASSUME NEW r \in Requests, Handle(r) PROVE AllDated' /\ AllKept'
  <2>1. setup' = setup /\ edits' = edits /\ copies' = copies
    BY <1>2 DEF Handle, RangeSupport, Compress, Validate, Assign, Tag, ValidateAgain, WriteHead, WriteBody, Open,
           Learn, Copy, Keeps, file
  <2>2. PICK q \in Request : q = req[r] /\ Shaped(q) /\ DatedAt(q, info)
    BY TypeFacts DEF AllShaped, AllDated
  <2>3. PICK p \in Request : Set(r, p) /\ DatedAt(p, info') /\ info' \in {info, disk}
    BY <1>2, <2>2, HandleDated
  <2>4. AllDated' BY <2>1, <2>3, SetKeepsDates
  <2> QED BY <2>1, <2>4, CopiesKept
<1>3. ASSUME NEW r \in Requests, Finish(r) PROVE AllDated' /\ AllKept'
  <2>1. setup' = setup /\ edits' = edits BY <1>3 DEF Finish, file
  <2>2. /\ Set(r, Idle) /\ Idle \in Request /\ info' = info
        /\ \/ copies' = copies
           \/ /\ req[r].at = "done" /\ Complete(req[r]) /\ req[r].tag # NoTag
              /\ \E c \in Stored : /\ c.tag = req[r].tag /\ c.body = req[r].opened
                                   /\ c.calm = req[r].calm /\ copies' = copies \cup {c}
    BY <1>3, FinishDoes
  <2>3. PICK p \in Request : p = Idle /\ p.at = "idle"
    <3>1. Idle.at = "idle" BY DEF Idle
    <3> QED BY <2>2, <3>1
  <2>4. DatedAt(p, info') BY <2>3 DEF DatedAt
  <2>5. AllDated' BY <2>1, <2>2, <2>3, <2>4, SetKeepsDates
  <2>6. AllKept'
    <3>1. CASE copies' = copies BY <2>1, <3>1, CopiesKept
    <3>2. CASE copies' # copies
      <4>1. PICK q \in Request : q = req[r] /\ Shaped(q) /\ SteadyAt(q, info, length) /\ DatedAt(q, info)
        BY TypeFacts DEF AllShaped, AllSteady, AllDated
      <4>2. PICK c \in Stored : /\ c.tag = q.tag /\ c.body = q.opened
                                /\ c.calm = q.calm /\ copies' = copies \cup {c}
        BY <2>2, <3>2, <4>1
      <4>3. q.at = "done" /\ Complete(q) /\ q.tag # NoTag BY <2>2, <3>2, <4>1
      <4>4. Kept(c) BY <4>1, <4>2, <4>3, FinishKeeps
      <4>5. \A d \in copies' : d \in Stored /\ Kept(d) BY <4>2, <4>4, TypeFacts DEF AllKept
      <4>6. edits \in Nat BY TypeFacts
      <4>7. \A d \in copies' : Kept(d)'
        <5> SUFFICES ASSUME NEW d, d \in copies' PROVE Kept(d)' OBVIOUS
        <5>1. d \in Stored /\ Kept(d) BY <4>5
        <5> QED BY <2>1, <4>6, <5>1, KeptLater
      <4> QED BY <4>7 DEF AllKept
    <3> QED BY <3>1, <3>2
  <2> QED BY <2>5, <2>6
<1>4. CASE Replace \/ Remove
  <2>1. Disturb /\ setup' = setup /\ info' = info /\ copies' = copies /\ edits' \in {edits, edits + 1}
    BY <1>4 DEF Replace, Remove, resource
  <2>2. AllDated'
    <3> SUFFICES ASSUME NEW s \in Requests PROVE DatedAt(req[s], info)' BY DEF AllDated
    <3>1. PICK i \in Nat, q \in Request : i = info /\ q = req[s] /\ DatedAt(q, i) BY TypeFacts DEF AllDated
    <3>2. PICK p \in Request :
             /\ p = req'[s] /\ p.at = q.at /\ SameBuilt(p, q) /\ SameWritten(p, q)
             /\ p.cached = q.cached /\ p.from = q.from
      BY <2>1, <3>1, DisturbDoes
    <3>3. DatedAt(p, i) BY <3>1, <3>2 DEF DatedAt, SameBuilt, SameWritten
    <3>4. i \in {i, disk} OBVIOUS
    <3>5. DatedAt(p, i)' BY <2>1, <3>3, <3>4, DatedLater
    <3> QED BY <2>1, <3>1, <3>2, <3>5, DatedNow
  <2> QED BY <2>1, <2>2, CopiesKept
<1>5. CASE UNCHANGED vars
  <2>1. setup' = setup /\ edits' = edits /\ info' = info /\ req' = req /\ copies' = copies
    BY <1>5 DEF vars, file, resource
  <2>2. AllDated'
    <3> SUFFICES ASSUME NEW s \in Requests PROVE DatedAt(req[s], info)' BY DEF AllDated
    <3>1. PICK i \in Nat, q \in Request : i = info /\ q = req[s] /\ DatedAt(q, i) BY TypeFacts DEF AllDated
    <3>2. i \in {i, disk} OBVIOUS
    <3>3. DatedAt(q, i)' BY <2>1, <3>1, <3>2, DatedLater
    <3> QED BY <2>1, <3>1, <3>3, DatedNow
  <2> QED BY <2>1, <2>2, CopiesKept
<1> QED BY <1>1, <1>2, <1>3, <1>4, <1>5 DEF Next

LEMMA DatedAtFirst == ASSUME Init PROVE AllDated /\ AllKept
<1>1. \A r \in Requests : req[r].at = "idle" BY DEF Init, Idle
<1> QED BY <1>1 DEF AllDated, DatedAt, AllKept, Init

-----------------------------------------------------------------------------
(* The properties.                                                         *)

IInv == Typed /\ AllShaped /\ Alike /\ AllSteady /\ AllDated /\ AllKept

LEMMA InvariantHolds == Spec => []IInv
<1>1. Init => IInv
  BY TypedAtFirst, ShapedAtFirst, SteadyAtFirst, DatedAtFirst DEF IInv
<1>2. IInv /\ [Next]_vars => IInv'
  <2> SUFFICES ASSUME IInv, [Next]_vars PROVE IInv' OBVIOUS
  <2>1. Typed /\ AllShaped /\ Alike /\ AllSteady /\ AllDated /\ AllKept BY DEF IInv
  <2> QED BY <2>1, TypesKept, ShapesKept, SteadyKept, DatesKept DEF IInv
<1> QED BY <1>1, <1>2, PTL DEF Spec

\* A response that has been written went through the whole chain.
LEMMA EndedPassed ==
    ASSUME setup \in Setups, NEW q \in Request, Shaped(q), Ended(q), Validates
    PROVE  Passed(q)
<1>1. PICK i \in DOMAIN chain : chain[i] = "validate" BY DEF Validates
<1>2. i \in 1..Len(chain) BY <1>1, SetupFacts
<1>3. q.next = Len(chain) /\ q.at = "done" BY DEF Shaped, Ended
<1> QED BY <1>1, <1>2, <1>3 DEF Passed

\* All of a part has been sent when the file has been read to its end.
LEMMA PartEnds ==
    ASSUME NEW q \in Request, NEW size \in Nat, PartOf(q, size),
           q.read = size \/ (q.sent = <<>> /\ RangedLength(q.window) = 0)
    PROVE  \E f \in Nat : /\ q.sent = Bytes(f, RangedLength(q.window))
                          /\ RangedLength(q.window) \in Nat
                          /\ Wanted(q.range, size) = f..f + RangedLength(q.window) - 1
<1>1. PICK f, l : f = Signed(q.window.start) /\ l = Signed(q.window.end) OBVIOUS
<1>2. q.window.start \in Int /\ q.window.end \in Int
  <2>1. q.window \in Window BY DEF Request
  <2> QED BY <2>1, ModulusFacts DEF Window, Unsigned
<1>3. f \in Int /\ l \in Int BY <1>1, <1>2, ModulusFacts DEF Signed
<1>4. /\ 0 <= f /\ f <= l + 1 /\ l < size /\ Wanted(q.range, size) = f..l
      /\ RangedLength(q.window) = l + 1 - f
      /\ q.sent = Bytes(f, Clip(f, l, q.read))
  BY <1>1 DEF PartOf, Fits
<1>5. PICK c \in Nat : c = l + 1 - f BY <1>3, <1>4
<1>6. q.sent = Bytes(f, c)
  <2>1. CASE q.read = size
    <3>1. Clip(f, l, size) = c BY <1>3, <1>4, <1>5 DEF Clip, Least
    <3> QED BY <1>4, <2>1, <3>1
  <2>2. CASE q.sent = <<>> /\ RangedLength(q.window) = 0
    <3>1. c = 0 /\ f \in Nat BY <1>3, <1>4, <1>5, <2>2
    <3> QED BY <2>2, <3>1, NoBytes
  <2> QED BY <2>1, <2>2
<1>7. f..l = f..f + c - 1 BY <1>3, <1>5
<1> QED BY <1>3, <1>4, <1>5, <1>6, <1>7

\* A partial response of a length that was known, at its end.
LEMMA PartDone ==
    ASSUME Typed, NEW q \in Request, Shaped(q), SteadyAt(q, info, length),
           Ended(q), q.window.part, q.calm, q.known
    PROVE  \E f \in Nat : /\ q.sent = Bytes(f, RangedLength(q.window))
                          /\ RangedLength(q.window) \in Nat
                          /\ Wanted(q.range, history[disk]) = f..f + RangedLength(q.window) - 1
<1>1. q.at = "done" BY DEF Ended
<1>2. disk # 0 /\ PartOf(q, history[disk]) BY <1>1 DEF SteadyAt
<1>3. history[disk] \in Nat
  <2>1. disk \in Versions BY <1>2, TypeFacts
  <2> QED BY <2>1, SetupFacts, TypeFacts
<1>4. q.opened # 0 => q.opened = disk /\ q.read = history[disk] BY <1>1 DEF SteadyAt, Shaped
<1>5. q.opened = 0 => q.sent = <<>> /\ RangedLength(q.window) = 0
  BY <1>1 DEF SteadyAt, Shaped
<1>6. PICK size \in Nat : size = history[disk] BY <1>3
<1>7. PartOf(q, size) BY <1>2, <1>6
<1>8. q.read = size \/ (q.sent = <<>> /\ RangedLength(q.window) = 0) BY <1>4, <1>5, <1>6
<1>9. \E f \in Nat : /\ q.sent = Bytes(f, RangedLength(q.window))
                     /\ RangedLength(q.window) \in Nat
                     /\ Wanted(q.range, size) = f..f + RangedLength(q.window) - 1
  BY <1>7, <1>8, PartEnds
<1> QED BY <1>6, <1>9

LEMMA FramedThen == IInv => Framed
<1> SUFFICES ASSUME IInv, NEW r \in Requests, NEW q, q = req[r],
                    Ended(q), q.calm, ~q.chunked,
                    q.known \/ (Validates /\ ~q.window.part)
             PROVE  Len(q.sent) = q.promised
  BY DEF Framed
<1>1. Typed /\ q \in Request /\ Shaped(q) /\ SteadyAt(q, info, length) /\ setup \in Setups
  BY TypeFacts DEF IInv, AllShaped, AllSteady
<1>2. q.at = "done" BY DEF Ended
<1>3. q.known \/ (Passed(q) /\ ~q.window.part) BY <1>1, EndedPassed
<1>4. CASE q.window.part
  <2>1. PICK f \in Nat : q.sent = Bytes(f, RangedLength(q.window)) /\ RangedLength(q.window) \in Nat
    BY <1>1, <1>3, <1>4, PartDone
  <2>2. Len(q.sent) = RangedLength(q.window) BY <2>1, BytesAre
  <2>3. q.promised = RangedLength(q.window) BY <1>1, <1>4 DEF Shaped
  <2> QED BY <2>2, <2>3
<1>5. CASE ~q.window.part
  <2>1. CASE q.opened = 0
    <3>1. q.sent = <<>> BY <1>1, <2>1 DEF Shaped
    <3>2. q.promised = 0 BY <1>1, <1>2, <1>3, <2>1 DEF SteadyAt
    <3> QED BY <3>1, <3>2
  <2>2. CASE q.opened # 0
    <3>1. Len(q.sent) = q.read /\ q.read = history[q.opened] BY <1>1, <1>5, <2>2 DEF Shaped
    <3>2. q.opened = disk BY <1>1, <1>2, <2>2 DEF SteadyAt
    <3>3. q.promised = history[disk] BY <1>1, <1>2, <1>3, <1>5 DEF SteadyAt
    <3> QED BY <3>1, <3>2, <3>3
  <2> QED BY <2>1, <2>2
<1>6. q.window.part \in BOOLEAN BY <1>1, Fields
<1> QED BY <1>4, <1>5, <1>6

\* A response that the file did not change for has the length its head
\* promised, if the resource knew the length or learns it in time: reads of any
\* size, ranges within 64 bits, and other requests in between do not matter.
THEOREM AlwaysFramed == Spec => []Framed
BY InvariantHolds, FramedThen, PTL

Members(x) == {x[i] : i \in DOMAIN x}

LEMMA InARow ==
    ASSUME NEW f \in Nat, NEW c \in Nat, NEW x, x = Bytes(f, c)
    PROVE  (x # <<>> => x = Bytes(x[1], Len(x))) /\ Members(x) = f..f + c - 1
<1>1. x \in Seq(Nat) /\ Len(x) = c /\ \A i \in 1..c : x[i] = f + i - 1 BY BytesAre
<1>2. DOMAIN x = 1..c BY <1>1
<1>3. x # <<>> => x = Bytes(x[1], Len(x))
  <2>1. SUFFICES ASSUME x # <<>> PROVE x = Bytes(x[1], Len(x)) OBVIOUS
  <2>2. c # 0 BY <1>1, <2>1
  <2>3. x[1] = f BY <1>1, <2>2
  <2> QED BY <1>1, <2>3
<1>4. {x[i] : i \in 1..c} = f..f + c - 1
  <2>1. \A y \in {x[i] : i \in 1..c} : y \in f..f + c - 1 BY <1>1
  <2>2. ASSUME NEW y \in f..f + c - 1 PROVE y \in {x[i] : i \in 1..c}
    <3>1. y - f + 1 \in 1..c OBVIOUS
    <3>2. x[y - f + 1] = y BY <1>1, <3>1
    <3> QED BY <3>1, <3>2
  <2> QED BY <2>1, <2>2
<1> QED BY <1>2, <1>3, <1>4 DEF Members

LEMMA PartThen == IInv => PartIsWanted
<1> SUFFICES ASSUME IInv, NEW r \in Requests, NEW q, q = req[r],
                    Ended(q), q.window.part, q.calm, q.known
             PROVE  /\ q.sent # <<>> => q.sent = Bytes(q.sent[1], Len(q.sent))
                    /\ {q.sent[i] : i \in DOMAIN q.sent} = Wanted(q.range, history[disk])
  BY DEF PartIsWanted
<1>1. Typed /\ q \in Request /\ Shaped(q) /\ SteadyAt(q, info, length)
  BY TypeFacts DEF IInv, AllShaped, AllSteady
<1>2. PICK f \in Nat : /\ q.sent = Bytes(f, RangedLength(q.window))
                       /\ RangedLength(q.window) \in Nat
                       /\ Wanted(q.range, history[disk]) = f..f + RangedLength(q.window) - 1
  BY <1>1, PartDone
<1>3. PICK c \in Nat : c = RangedLength(q.window) BY <1>2
<1>4. q.sent = Bytes(f, c) /\ Wanted(q.range, history[disk]) = f..f + c - 1 BY <1>2, <1>3
<1>5. PICK x : x = q.sent OBVIOUS
<1>6. x = Bytes(f, c) BY <1>4, <1>5
<1>7. (x # <<>> => x = Bytes(x[1], Len(x))) /\ Members(x) = f..f + c - 1
  BY <1>2, <1>3, <1>6, InARow, ZenonT(60)
<1> QED BY <1>4, <1>5, <1>7 DEF Members

\* A partial response has the bytes a Range header asked for, in order: for
\* every header and however the file is read.
THEOREM AlwaysWanted == Spec => []PartIsWanted
BY InvariantHolds, PartThen, PTL

LEMMA TaggedThen == IInv => Tagged
<1> SUFFICES ASSUME IInv, NEW r \in Requests, NEW q, q = req[r],
                    Ended(q), q.calm, q.opened # 0, Validates
             PROVE  q.tag.modified = q.opened /\ q.tag.length = history[q.opened]
  BY DEF Tagged
<1>1. q \in Request /\ Shaped(q) /\ SteadyAt(q, info, length) /\ setup \in Setups
  BY TypeFacts DEF IInv, AllShaped, AllSteady
<1>2. q.at = "done" BY DEF Ended
<1>3. Passed(q) BY <1>1, EndedPassed
<1> QED BY <1>1, <1>2, <1>3 DEF SteadyAt

\* The tag of a response names the version its body is of, if the file stayed
\* the same meanwhile, wherever the validation is in the chain.
THEOREM AlwaysTagged == Spec => []Tagged
BY InvariantHolds, TaggedThen, PTL

LEMMA RightThen == IInv => NotModifiedRight
<1> SUFFICES ASSUME IInv, NEW r \in Requests, NEW q, q = req[r], NEW c, c = q.cached,
                    q.at = "done", q.status = 304,
                    c.tag.modified # 0, c.body = 0 => c.calm
             PROVE  \E v \in q.from..edits : IF c.body = 0 THEN history[v] = 0 ELSE c.body = v
  BY DEF NotModifiedRight
<1>1. q \in Request /\ DatedAt(q, info) /\ edits \in Nat BY TypeFacts DEF IInv, AllDated
<1>2. c # NoCopy /\ q.from <= c.tag.modified /\ Kept(c) BY <1>1 DEF DatedAt
<1>3. c \in Stored /\ q.from \in 0..Len(history) BY <1>1 DEF Request
<1>4. c.tag \in Label /\ c.body \in 0..Len(history) BY <1>3 DEF Stored
<1>5. c.tag.modified \in -1..Len(history) BY <1>4 DEF Label
<1>6. c.tag.modified \in Int /\ c.body \in Int /\ q.from \in Int BY <1>3, <1>4, <1>5
<1>7. c.tag.modified <= edits /\ c.body <= edits /\ (c.body # 0 => c.tag.modified <= c.body)
  BY <1>2 DEF Kept
<1>8. CASE c.body = 0
  <2>1. history[c.tag.modified] = 0 BY <1>2, <1>8 DEF Kept
  <2>2. c.tag.modified \in q.from..edits BY <1>1, <1>2, <1>6, <1>7
  <2> QED BY <1>8, <2>1, <2>2
<1>9. CASE c.body # 0
  <2>1. c.body \in q.from..edits BY <1>1, <1>2, <1>6, <1>7, <1>9
  <2> QED BY <1>9, <2>1
<1> QED BY <1>8, <1>9

\* A client that is told to use its copy has one of a version that was there
\* during its request, however often the file is replaced and removed.
THEOREM AlwaysRight == Spec => []NotModifiedRight
BY InvariantHolds, RightThen, PTL
=============================================================================
