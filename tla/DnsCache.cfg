SPECIFICATION FairSpec
CONSTANTS
  q1 = q1
  q2 = q2
  t1 = t1
  t2 = t2
  None = None
  Proc = {t1, t2}
  Question = {q1, q2}
  NShards = 1
  ShardOf <- MCShardOf
  MaxSize = 2
  Messages <- MCMessages
  DefaultTTL = 6
  ZeroTTL = 1
  CeilingTTL = 5
  FloorTTL = 1
  NegativeTTL = 2
  MaxTime = 2
INVARIANTS IndexesAgree CapacityHeld
PROPERTIES ImplementsLru ExpiredCleaned
