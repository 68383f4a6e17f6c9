--------------------------- MODULE MCFastResolver ---------------------------
(* A client and the worker, two servers and a queue of one name.  The      *)
(* client asks for a name that is prefetched, by another type than the     *)
(* worker, and for one that is not.                                        *)
EXTENDS FastResolver

CONSTANTS popular, plain

MCName == {popular, plain}
MCPopular == {popular}
MCType == {"A", "AAAA"}
MCAsked == {<<popular, "AAAA">>, <<plain, "A">>}
=============================================================================
