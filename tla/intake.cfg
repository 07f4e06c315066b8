SPECIFICATION FairSpec
CONSTANTS
  Free = Free
  NoKey = NoKey
  Absent = Absent
  Deliveries = {d1, d2, d3}
  Keys = {k1}
  Counters = {y1, y2}
  MaxKeyless = 2
INVARIANT Gapless
INVARIANT Unique
PROPERTY BookKept
PROPERTY EveryDeliveryEnds
