------------------------- MODULE MCWebsocketReader -------------------------
(***************************************************************************)
(* WebsocketReader on scripts of up to four frames                         *)
(***************************************************************************)
EXTENDS WebsocketReader

Messages(n) == BoundedSeq({"more", "last", "ping"}, n)

UpToFour ==
    (Messages(4) \ {<<>>}) \cup {s \o <<end>> : s \in Messages(2), end \in {"close", "bad"}}

OneMessage == {<<"more", "ping", "last", "ping">>}
=============================================================================
