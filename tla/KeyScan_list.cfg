SPECIFICATION Spec
CONSTANTS
  k1 = k1
  k2 = k2
  a = a
  b = b
  c = c
  Keys = {k1, k2}
  Lists <- TwoMasters
  Holds <- TwoHolds
  BucketOf <- TwoBuckets
  Buckets = 2
  Filters <- SomeFilters
  AllKeys <- Every
  Count = 1
  Waiters = {w1}
INVARIANT TypeOK
INVARIANT CompleteWhenSteady
INVARIANT DeletedStaysGone
INVARIANT RowOnce
