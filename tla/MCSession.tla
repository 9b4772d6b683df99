----------------------------- MODULE MCSession -----------------------------
(* A client ID and the ID of its chained child, which a client may also use. *)
EXTENDS Session, TLC

MCChildOf == "a" :> "a:then"
=============================================================================
