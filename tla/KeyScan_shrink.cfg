SPECIFICATION FairSpec
CONSTANTS
  k1 = k1
  k2 = k2
  a = a
  b = b
  c = c
  Keys = {k1}
  Lists <- Shrinking
  Holds <- ShrinkHolds
  BucketOf <- TwoBuckets
  Buckets = 2
  Filters <- OneFilter
  AllKeys <- Every
  Count = 2
  Waiters = {w1}
PROPERTY ScanEnds
