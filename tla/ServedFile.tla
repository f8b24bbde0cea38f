----------------------------- MODULE ServedFile -----------------------------
(***************************************************************************)
(* A file that is served by a handler (ContentProvider.cs) while it may be *)
(* replaced at any time: all requests share one FileResource, with the     *)
(* FileInfo and the length it caches.  The response passes through the     *)
(* concerns for ranges (RangeSupportConcern.cs), compression               *)
(* (CompressionConcern.cs) and the validation of client caches             *)
(* (CacheValidationHandler.cs) before its head and its body are written    *)
(* (ResponseHandler.cs).                                                   *)
(*                                                                         *)
(* The version v of the file has history[v] bytes and its own time of      *)
(* modification; bytes are named by their offset.  Files are replaced (a   *)
(* new file is renamed over the old one), so what is read through an open  *)
(* handle is one version.                                                  *)
(***************************************************************************)
EXTENDS Integers, Sequences

CONSTANTS
    Requests,       \* requests that may be in flight at the same time
    MaxRequests,    \* bound: the requests in all
    Setups,         \* how the file is served and what may happen to it, see Setup
    Modulus         \* of an unsigned number, 2^64

Concerns == {"range", "compress", "validate"}

\* The ends a Range header gives, which may be too large to parse.  None is
\* given if there is no header ("bytes=-" is handled alike); a header that does
\* not match the pattern is Malformed.
Absent == -1
NoRange == [first |-> Absent, last |-> Absent]
Malformed == [first |-> -2, last |-> -2]
Requestable == {Malformed} \cup [first : {Absent} \cup Nat, last : {Absent} \cup Nat]

\* The concerns around the handler, from the inside; the lengths of the
\* versions of the file; the Range headers sent; and how many requests come.
Setup == [chain : Seq(Concerns), history : Seq(Nat), ranges : SUBSET Requestable,
          requests : 0..MaxRequests]

ASSUME ModulusAssumption == Modulus \in Nat /\ \E half \in 2..Modulus : Modulus = 2 * half
ASSUME BoundAssumption == MaxRequests \in Nat
ASSUME SetupAssumption ==
    \A s \in Setups :
        /\ s \in Setup /\ s.history # <<>>
        /\ \A v \in DOMAIN s.history : 2 * s.history[v] < Modulus

VARIABLES
    setup,      \* chosen at the start (constant)
    disk,       \* the version at the path, 0 for none
    edits,      \* the versions there have been
    info,       \* the version the FileInfo has seen, 0 for none
    length,     \* _length
    req,        \* the requests in flight
    started,    \* the requests so far
    copies      \* ghost: the complete responses clients have stored

resource == <<info, length>>
file == <<disk, edits>>
vars == <<setup, file, resource, req, started, copies>>

Unsigned == 0..Modulus - 1

Whole == [start |-> 0, end |-> 0, part |-> FALSE]
NoTag == [modified |-> -1, length |-> 0, window |-> Whole]
NoCopy == [tag |-> NoTag, body |-> 0, calm |-> TRUE]
Chunked == -1

chain == setup.chain
history == setup.history
Versions == 1..Len(history)
Steps == {"idle", "concern", "assign", "tag", "head", "body", "open", "learn",
          "copy", "done", "failed"}
Window == [start : Unsigned, end : Unsigned, part : BOOLEAN]
Label == [modified : -1..Len(history), length : Nat, window : Window]
Stored == [tag : Label, body : 0..Len(history), calm : BOOLEAN]

\* A request on its way: the concern it is at, what it asks for, the response
\* built so far, and the stream that is copied.  The ghosts say which version
\* was the last when it started, whether the resource knew the length of the
\* file then, and whether the file has stayed the same since, also for all
\* requests that were in flight then.
Request == [at : Steps, next : Nat, head : BOOLEAN, range : setup.ranges \cup {NoRange},
            cached : Stored,
            status : {0, 200, 206, 304, 416}, window : Window, chunked : BOOLEAN, tag : Label,
            promised : {Chunked} \cup Unsigned,
            opened : 0..Len(history), read : Nat, position : Nat, sent : Seq(Nat),
            from : 0..Len(history), known : BOOLEAN, calm : BOOLEAN]

TypeOK ==
    /\ setup \in Setups
    /\ disk \in 0..edits /\ edits \in Versions
    /\ info \in 0..edits /\ length \in Nat
    /\ req \in [Requests -> Request]
    /\ started \in 0..MaxRequests
    /\ copies \subseteq Stored

Idle == [at |-> "idle", next |-> 0, head |-> FALSE, range |-> NoRange, cached |-> NoCopy,
         status |-> 0, window |-> Whole, chunked |-> FALSE, tag |-> NoTag, promised |-> 0,
         opened |-> 0, read |-> 0, position |-> 0, sent |-> <<>>,
         from |-> 0, known |-> TRUE, calm |-> TRUE]

Init ==
    /\ setup \in Setups
    /\ disk = 1 /\ edits = 1 /\ info = 1 /\ length = history[1]
    /\ req = [r \in Requests |-> Idle]
    /\ started = 0 /\ copies = {}

InFlight(r) == req[r].at # "idle"

----------------------------------------------------------------------------
(* The handler and the concerns.  Every concern acts on the response of the  *)
(* one inside of it.                                                         *)

Set(r, changed) == req' = [req EXCEPT ![r] = changed]
Keeps == UNCHANGED <<setup, file, started, copies>>

\* The next concern, or the head of the response.
Onwards(q) ==
    IF q.next < Len(chain) THEN [q EXCEPT !.at = "concern", !.next = @ + 1] ELSE [q EXCEPT !.at = "head"]

Fails(r) == Set(r, [req[r] EXCEPT !.at = "failed"]) /\ UNCHANGED resource

Start(r) ==
    /\ req[r].at = "idle" /\ started < setup.requests
    /\ \E range \in setup.ranges, head \in BOOLEAN, cached \in copies \cup {NoCopy} :
         Set(r, Onwards([Idle EXCEPT
             !.status = 200, !.head = head, !.range = range, !.cached = cached,
             !.from = edits, !.known = disk # 0 /\ length = history[disk],
             !.calm = \A s \in Requests : InFlight(s) => req[s].calm]))
    /\ started' = started + 1
    /\ UNCHANGED <<setup, file, resource, copies>>

Concern(r, name) ==
    req[r].at = "concern" /\ chain[req[r].next] = name

Part(start, end) == [start |-> start % Modulus, end |-> end % Modulus, part |-> TRUE]

Satisfied(q, start, end) == [q EXCEPT !.status = 206, !.window = Part(start, end)]

\* A response of its own, with its own content.
NotSatisfiable(q) == [q EXCEPT !.status = 416]

GetRangeFromStart(q, start) ==
    IF start > length THEN NotSatisfiable(q) ELSE Satisfied(q, start, length - 1)

GetRangeFromEnd(q, end) ==
    IF end > length THEN NotSatisfiable(q) ELSE Satisfied(q, length - end, length - 1)

GetRangeUnclipped(q, start, end) ==
    IF start > end THEN NotSatisfiable(q) ELSE Satisfied(q, start, end)
GetFullRange(q, start, end) ==
    IF start > end \/ end >= length THEN NotSatisfiable(q) ELSE Satisfied(q, start, end)

GetRange(q) ==
    CASE q.range = NoRange \/ q.chunked -> q
      [] q.range = Malformed -> NotSatisfiable(q)
      [] OTHER ->
           CASE q.range.last = Absent -> GetRangeFromStart(q, q.range.first)
             [] q.range.first = Absent -> GetRangeFromEnd(q, q.range.last)
             [] OTHER -> GetFullRange(q, q.range.first, q.range.last)

Unparsable(q) ==
    q.range # Malformed /\ \E end \in {q.range.first, q.range.last} : end >= Modulus

RangeSupport(r) ==
    /\ Concern(r, "range")
    /\ IF ~req[r].chunked /\ Unparsable(req[r]) THEN Fails(r)
       ELSE LET q == GetRange(req[r]) IN
            Set(r, IF q.status = 416 THEN [q EXCEPT !.at = "done"] ELSE Onwards(q))
    /\ UNCHANGED resource /\ Keeps

\* For a client that accepts one of the algorithms, and content worth it.
Compress(r) ==
    /\ Concern(r, "compress")
    /\ \E worth \in BOOLEAN : Set(r, Onwards([req[r] EXCEPT !.chunked = worth]))
    /\ UNCHANGED resource /\ Keeps

NoRefresh == info
Refreshed == disk

\* CalculateETag asks the content for its checksum, which looks at the file.
Validate(r) ==
    /\ Concern(r, "validate") /\ req[r].tag = NoTag
    /\ Set(r, [req[r] EXCEPT !.at = "assign"])
    /\ info' = Refreshed
    /\ UNCHANGED length /\ Keeps

\* File.Length throws if there is no file.
Assign(r) ==
    /\ req[r].at = "assign"
    /\ IF info = 0 THEN Fails(r)
       ELSE /\ length' = history[info]
            /\ Set(r, [req[r] EXCEPT !.at = "tag"])
            /\ UNCHANGED info
    /\ Keeps

TagOf(q) == [modified |-> info, length |-> length, window |-> q.window]

MatchesLength(q, tag) == q.cached # NoCopy /\ q.cached.tag.length = tag.length
Matches(q, tag) == q.cached # NoCopy /\ q.cached.tag = tag

\* The tag is compared with the one the client has sent.
Compared(q, tag) ==
    IF Matches(q, tag) THEN [q EXCEPT !.at = "done", !.status = 304, !.tag = tag]
    ELSE Onwards([q EXCEPT !.tag = tag])

Tag(r) ==
    /\ req[r].at = "tag"
    /\ Set(r, Compared(req[r], TagOf(req[r])))
    /\ UNCHANGED resource /\ Keeps

\* A tag that is there already, from a validation further inside, stays.
ValidateAgain(r) ==
    /\ Concern(r, "validate") /\ req[r].tag # NoTag
    /\ Set(r, Compared(req[r], req[r].tag))
    /\ UNCHANGED resource /\ Keeps

----------------------------------------------------------------------------
(* The response is written.                                                *)

LengthUnwrapped(w) == w.end - w.start + 1
RangedLength(w) == (w.end - w.start + 1) % Modulus

Length(q) == IF q.window.part THEN RangedLength(q.window) ELSE length

WriteHead(r) ==
    /\ req[r].at = "head"
    /\ Set(r, [req[r] EXCEPT !.promised = IF req[r].chunked THEN Chunked ELSE Length(req[r]),
                             !.at = IF req[r].head THEN "done" ELSE "body"])
    /\ UNCHANGED resource /\ Keeps

ShouldSendBody(q) == q.chunked \/ Length(q) > 0

WriteBody(r) ==
    /\ req[r].at = "body"
    /\ Set(r, [req[r] EXCEPT !.at = IF ShouldSendBody(req[r]) THEN "open" ELSE "done"])
    /\ UNCHANGED resource /\ Keeps

\* FileResource.WriteAsync: opening throws if there is no file.
Open(r) ==
    /\ req[r].at = "open"
    /\ IF disk = 0 THEN Fails(r)
       ELSE Set(r, [req[r] EXCEPT !.at = "learn", !.opened = disk]) /\ UNCHANGED resource
    /\ Keeps

Learn(r) ==
    /\ req[r].at = "learn"
    /\ length' = history[req[r].opened]
    /\ Set(r, [req[r] EXCEPT !.at = "copy"])
    /\ UNCHANGED info /\ Keeps

Signed(u) == IF 2 * u >= Modulus THEN u - Modulus ELSE u

Least(a, b) == IF a < b THEN a ELSE b
Greatest(a, b) == IF a > b THEN a ELSE b

Bytes(from, count) == [i \in 1..count |-> from + i - 1]

\* What RangedStream.Write lets through of a buffer with the next n bytes.
LetThroughUnshifted(q, n) ==
    LET first == Signed(q.window.start)  last == Signed(q.window.end)
        from == Greatest(q.position, first)  to == Least(q.position + n - 1, last)
    IN  IF q.position > last \/ q.position + n <= first THEN <<>>
        ELSE Bytes(q.read, to - from + 1)
LetThrough(q, n) ==
    LET first == Signed(q.window.start)  last == Signed(q.window.end)
        from == Greatest(q.position, first)  to == Least(q.position + n - 1, last)
    IN  IF q.position > last \/ q.position + n <= first THEN <<>>
        ELSE Bytes(q.read + (from - q.position), to - from + 1)

Written(q, n) == IF q.window.part THEN LetThrough(q, n) ELSE Bytes(q.read, n)

Remaining(q) == history[q.opened] - q.read

Copy(r) ==
    /\ req[r].at = "copy"
    /\ IF Remaining(req[r]) = 0 THEN Set(r, [req[r] EXCEPT !.at = "done"])
       ELSE \E n \in 1..Remaining(req[r]) :
              Set(r, [req[r] EXCEPT !.sent = @ \o Written(req[r], n),
                                    !.read = @ + n, !.position = @ + n])
    /\ UNCHANGED resource /\ Keeps

\* Everything the client was told to expect has arrived.
Complete(q) ==
    q.status = 200 /\ ~q.head /\ q.promised \in {Chunked, Len(q.sent)}

Finish(r) ==
    /\ req[r].at \in {"done", "failed"}
    /\ copies' = IF req[r].at = "done" /\ Complete(req[r]) /\ req[r].tag # NoTag
                 THEN copies \cup {[tag |-> req[r].tag, body |-> req[r].opened,
                                            calm |-> req[r].calm]} ELSE copies
    /\ Set(r, Idle)
    /\ UNCHANGED <<setup, file, resource, started>>

Handle(r) ==
    \/ RangeSupport(r) \/ Compress(r) \/ Validate(r) \/ Assign(r) \/ Tag(r)
    \/ ValidateAgain(r)
    \/ WriteHead(r) \/ WriteBody(r) \/ Open(r) \/ Learn(r) \/ Copy(r)

----------------------------------------------------------------------------
(* The file is replaced or removed by somebody else.                       *)

Disturb == req' = [r \in Requests |-> IF InFlight(r) THEN [req[r] EXCEPT !.calm = FALSE] ELSE req[r]]

Replace ==
    /\ edits < Len(history)
    /\ edits' = edits + 1 /\ disk' = edits + 1
    /\ Disturb
    /\ UNCHANGED <<setup, resource, started, copies>>

\* (Bound: only while it can still come back.)
Remove ==
    /\ disk # 0 /\ edits < Len(history)
    /\ disk' = 0
    /\ Disturb
    /\ UNCHANGED <<setup, edits, resource, started, copies>>

Next ==
    \/ \E r \in Requests : Start(r) \/ Handle(r) \/ Finish(r)
    \/ Replace \/ Remove

Spec == Init /\ [][Next]_vars

----------------------------------------------------------------------------
(* Properties. *)

Validates == \E i \in DOMAIN chain : chain[i] = "validate"

\* A response that has been written to its end without a failure.
Ended(q) == q.at = "done" /\ q.status \in {200, 206} /\ ~q.head

\* "The length needs to match the actual number of bytes being written in
\* WriteAsync or the client connection will fail": a response the file did not
\* change for has the length its head promised.
LengthMatches ==
    \A r \in Requests : Ended(req[r]) /\ req[r].calm /\ ~req[r].chunked
        => Len(req[r].sent) = req[r].promised

\* The length does match if the resource knew the length when the request
\* came, or learns it in time, which is for whole files in a chain with cache
\* validation only: a range is computed from the length known before.
Framed ==
    \A r \in Requests :
        LET q == req[r] IN
        /\ Ended(q) /\ q.calm /\ ~q.chunked
        /\ q.known \/ (Validates /\ ~q.window.part)
        => Len(q.sent) = q.promised

\* The bytes of a content that a Range header asks for.
Wanted(range, size) ==
    {i \in 0..size - 1 :
        CASE range.first = Absent -> i >= size - range.last
          [] range.last = Absent -> i >= range.first
          [] OTHER -> range.first <= i /\ i <= range.last}

\* However the reads of the file cut the stream, a partial response has the
\* bytes that were asked for, in order.  They are the ones of the length that
\* was known when the request came.
PartIsWanted ==
    \A r \in Requests :
        LET q == req[r] IN
        Ended(q) /\ q.window.part /\ q.calm /\ q.known =>
            /\ q.sent # <<>> => q.sent = Bytes(q.sent[1], Len(q.sent))
            /\ {q.sent[i] : i \in DOMAIN q.sent} = Wanted(q.range, history[disk])

\* A client that is told to use its copy has one of a version that was there
\* during its request, even if the file was replaced between the tag and the
\* body of the response the copy is from - unless that response came out empty
\* for a length another request had set meanwhile, or both tags were made just
\* when another request had found the file gone: such a tag has no time.
NotModifiedRight ==
    \A r \in Requests :
        LET copy == req[r].cached IN
        /\ req[r].at = "done" /\ req[r].status = 304
        /\ copy.tag.modified # 0 /\ (copy.body = 0 => copy.calm)
        => \E v \in req[r].from..edits :
                IF copy.body = 0 THEN history[v] = 0 ELSE copy.body = v

\* The tag of a response names the version the body is of.
Tagged ==
    \A r \in Requests :
        LET q == req[r] IN
        Ended(q) /\ q.calm /\ q.opened # 0 /\ Validates =>
            q.tag.modified = q.opened /\ q.tag.length = history[q.opened]
=============================================================================
