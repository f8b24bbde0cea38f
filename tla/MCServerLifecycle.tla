------------------------- MODULE MCServerLifecycle -------------------------
(***************************************************************************)
(* ServerLifecycle on small instances: a host that is called in any order, *)
(* and connections that come and go.                                       *)
(***************************************************************************)
EXTENDS ServerLifecycle

CONSTANTS c1, c2, x1, x2

(* Two servers with two endpoints each, for a single client. *)
Called == [endPoints |-> 2, secure |-> {}, servers |-> 2, clients |-> {c1}, contexts |-> {x1}]

(* One server with TLS whose clients share the contexts of the pool. *)
Pooled == [endPoints |-> 1, secure |-> {1}, servers |-> 1, clients |-> {c1, c2}, contexts |-> {x1, x2}]

Both == {Called, Pooled}
=============================================================================
