---------------------------- MODULE MCDiscovery ----------------------------
(* The background worker and one call of DiscoverResources; one rebuild. *)
EXTENDS Discovery
=============================================================================
