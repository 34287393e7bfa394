---------------------------- MODULE MCSearchLoop ----------------------------
(* An instance of SearchLoop for TLC: t is a multihop target on a host of  *)
(* its own, s a structured page, d a second URL of that page, and o        *)
(* another page of their host that only cross-provider agreement admits.   *)
EXTENDS SearchLoop

CONSTANTS t, s, d, o

SamePage == [u \in Urls |-> IF u = d THEN s ELSE u]
SharedHost == [u \in Urls |-> IF u \in {d, o} THEN s ELSE u]
=============================================================================
