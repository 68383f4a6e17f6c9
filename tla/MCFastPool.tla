----------------------------- MODULE MCFastPool -----------------------------
(* A call of the fast pool with no, one or three servers.                  *)
EXTENDS FastPool

CONSTANTS s1, s2, s3

MCServer == {s1, s2, s3}
MCServerLists == {<<>>, <<s2>>, <<s1, s2, s3>>}
=============================================================================
