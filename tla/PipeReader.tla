----------------------------- MODULE PipeReader -----------------------------
(***************************************************************************)
(* The pipe reader every protocol loop of the server reads its connection  *)
(* through: PipeReader.Create(stream) of System.IO.Pipelines.  It is not   *)
(* part of the repository; it is modelled from what the code under src/    *)
(* relies on (ClientHandler, RequestBody and the framings).                *)
(*                                                                         *)
(* A stream is a line of units numbered from 0, and a position is the      *)
(* number of units in front of it.  A reader holds the units from "pos" to *)
(* "end".  "all" says that its user examined everything it held when it    *)
(* last advanced; units that arrive later do not change that.  "back" says *)
(* that a read of the stream has returned and its caller has not acted on  *)
(* it yet, and "eof" is set by the read that returned nothing.             *)
(***************************************************************************)
EXTENDS Naturals

Reader == [pos : Nat, end : Nat, all : BOOLEAN, back : BOOLEAN, eof : BOOLEAN]

Fresh == [pos |-> 0, end |-> 0, all |-> FALSE, back |-> FALSE, eof |-> FALSE]

(* The units from one to another, which are numbered from 1 *)
Run(from, to) == [i \in 1..(to + 1 - from) |-> from + i - 1]

Available(r) == r.end - r.pos

(* TryRead: something is buffered, and not everything has been examined *)
HasMore(r) == r.pos < r.end /\ (~r.all \/ r.eof)

(* ReadAsync has returned, or returns without asking the stream *)
Readable(r) == r.back \/ HasMore(r) \/ r.eof

(* ReadAsync asks the stream, which delivers the units up to upTo *)
Pull(r, upTo) == [r EXCEPT !.end = upTo, !.back = TRUE]

(* ReadAsync asks the stream, which has ended *)
PullEnd(r) == [r EXCEPT !.eof = TRUE, !.back = TRUE]

(* AdvanceTo(consumed, examined); AdvanceTo(consumed) examines no further *)
AdvanceTo(r, consumed, examined) ==
    [r EXCEPT !.pos = consumed, !.all = (examined = r.end), !.back = FALSE]

Consume(r, consumed) == AdvanceTo(r, consumed, consumed)

ExamineAll(r) == AdvanceTo(r, r.pos, r.end)

(* The caller leaves the read without advancing: with an exception, or with *)
(* a view of what is buffered.  Once everything has been examined, only an  *)
(* advance makes the reader return again what it holds.                     *)
Unadvanced(r) == [r EXCEPT !.back = FALSE]
=============================================================================
