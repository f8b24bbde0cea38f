---------------------------- MODULE MCServedFile ----------------------------
(***************************************************************************)
(* ServedFile on small instances: the documented ways to put the concerns  *)
(* together, and files that shrink, grow and become empty.                 *)
(***************************************************************************)
EXTENDS ServedFile, TLC

\* Content.From(...)
Plain == <<>>

\* Content.From(...).AddRangeSupport(), and as part of a host with Defaults()
Inner == <<"range">>
InnerAndDefaults == <<"range", "compress", "validate">>

\* A host with Defaults(rangeSupport: true)
AllDefaults == <<"compress", "range", "validate">>

\* Content with a validation of its own in a host with Defaults(): the tag of
\* the inner one is kept.
ValidatedTwice == <<"validate", "compress", "validate">>

Documented == {Plain, Inner, InnerAndDefaults, AllDefaults, ValidatedTwice}

From(n) == [first |-> n, last |-> Absent]
LastOf(n) == [first |-> Absent, last |-> n]
Between(a, b) == [first |-> a, last |-> b]

EveryRange == {NoRange, Malformed, From(1), From(2), From(Modulus), LastOf(0), LastOf(2),
               Between(0, 1), Between(2, 1)}

\* Everything a single request may meet
Single == [chain : Documented, history : {<<3, 1, 2>>, <<2, 0, 2>>, <<0, 2>>}, ranges : {EveryRange},
           requests : {1}]

\* Two requests at a time, for a part and for the whole
Two == [chain : Documented, history : {<<3, 1>>, <<1, 2>>}, ranges : {{NoRange, From(1)}}, requests : {2}]

\* Clients that validate what they have
Repeated == [chain : {AllDefaults}, history : {<<1, 0, 2>>}, ranges : {{NoRange}}, requests : {3}]

Interchangeable == Permutations(Requests)

Cases == Single \cup Two \cup Repeated
=============================================================================
