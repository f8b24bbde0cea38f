----------------------------- MODULE BodyReader -----------------------------
(***************************************************************************)
(* What a framing promises the consumer of a request body (IBodyFraming):  *)
(* reads hand the body out from front to back, each unit once, until       *)
(* nothing is left; a skip reports whether the connection can be used      *)
(* again; and only a body that is flawed (cut off, or malformed) makes a   *)
(* call fail.  After a failed call the only promise is that nothing is     *)
(* handed out twice or out of order.                                       *)
(*                                                                         *)
(* The units of the body are the numbers 1..size.                          *)
(***************************************************************************)
EXTENDS Naturals, Sequences

VARIABLES
    size,       \* the units of the body
    flawed,     \* is it cut off or malformed?
    got,        \* the units handed out so far
    call,       \* the call the consumer waits for
    result,     \* how the last call ended
    failed      \* has a call failed?

vars == <<size, flawed, got, call, result, failed>>

Results == {"none", "data", "end", "failed", "skipped", "given up"}

(* The units from one to another, in order *)
Run(from, to) == [i \in 1..(to + 1 - from) |-> from + i - 1]

Last == IF got = <<>> THEN 0 ELSE got[Len(got)]

TypeOK ==
    /\ size \in Nat
    /\ flawed \in BOOLEAN
    /\ got \in Seq(1..size)
    /\ call \in {"no", "some", "all", "skip"}
    /\ result \in Results
    /\ failed \in BOOLEAN

Init ==
    /\ size \in Nat
    /\ flawed \in BOOLEAN
    /\ got = <<>>
    /\ call = "no"
    /\ result = "none"
    /\ failed = FALSE

Spoil ==
    /\ flawed' = TRUE
    /\ UNCHANGED <<size, got, call, result, failed>>

Call(how) ==
    /\ call = "no" /\ result \notin {"skipped", "given up"}
    /\ call' = how
    /\ result' = "none"
    /\ UNCHANGED <<size, flawed, got, failed>>

Return(how, outcome) ==
    /\ call = how /\ call' = "no"
    /\ result' = outcome
    /\ UNCHANGED <<size, flawed>>

(* The next units; behind those a failed call may have lost, if there is one *)
HandOut ==
    /\ Return("some", "data")
    /\ \E from \in Last + 1..size : \E to \in from..size :
        /\ ~failed => from = Last + 1
        /\ got' = got \o Run(from, to)
    /\ UNCHANGED failed

AtEnd ==
    /\ Return("some", "end")
    /\ ~failed => Last = size
    /\ UNCHANGED <<got, failed>>

HandOutRest ==
    /\ Return("all", "end")
    /\ \E from \in Last + 1..size + 1 :
        /\ ~failed => from = Last + 1
        /\ got' = got \o Run(from, size)
    /\ UNCHANGED failed

Fail ==
    /\ flawed
    /\ Return("some", "failed") \/ Return("all", "failed")
    /\ failed' = TRUE
    /\ UNCHANGED got

Skipped ==
    /\ Return("skip", "skipped")
    /\ UNCHANGED <<got, failed>>

GiveUp ==
    /\ flawed
    /\ Return("skip", "given up")
    /\ UNCHANGED <<got, failed>>

Next ==
    \/ Spoil \/ (\E how \in {"some", "all", "skip"} : Call(how))
    \/ HandOut \/ AtEnd \/ HandOutRest \/ Fail \/ Skipped \/ GiveUp

Spec == Init /\ [][Next]_vars
=============================================================================
