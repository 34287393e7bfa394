-------------------------- MODULE MCPendingService --------------------------
(* Instances of PendingService for TLC.  A triple of an instance is named  *)
(* by its candidate; a host or a page is named by its only URL, or "site"  *)
(* when it is that of every URL but the refused host's.                    *)
EXTENDS PendingService

OwnSite == [u \in Urls |-> u]
TwoSites == [u \in Urls |-> IF u \in SocialHosts THEN u ELSE "site"]
OwnCand == [t \in Triples |-> t]
=============================================================================
