----------------------------- MODULE MCZoneKeys -----------------------------
(* The keys of a zone with three callers.  One of the answers has a TTL     *)
(* below MaxAllowedTTL and one above it; the clock outlives both.           *)
EXTENDS ZoneKeys

MCTTLs == {1, 3}
=============================================================================
