------------------------ MODULE MCResolverExchange ------------------------
EXTENDS ResolverExchange, TLC

\* Zones 1 and 2 on the same servers.
MCShared == [c \in Cuts |-> IF c = 2 THEN 1 ELSE c]

===========================================================================
