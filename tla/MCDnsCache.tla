----------------------------- MODULE MCDnsCache -----------------------------
(* A small instance of DnsCache for TLC.                                   *)
EXTENDS DnsCache

CONSTANTS q1, q2

\* Four keys compete for one shard.
MCShardOf == [k \in {q1, q2} \X {"positive", "negative"} |-> 1]

\* A message with a record of zero TTL.
MCMessages == {{0, 4}}

=============================================================================
