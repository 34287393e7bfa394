----------------------------- MODULE MCLiveReplay ---------------------------
(* Instances of LiveReplay for TLC: one request of each kind, named for it. *)
EXTENDS LiveReplay

OwnKind == [r \in Requests |-> r]
=============================================================================
