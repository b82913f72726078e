SPECIFICATION Spec
CONSTANTS
  Parts = {"sizes", "sync", "scan", "ssh", "pages"}
  None = None
  Keys = {k1, k2}
  Tags = {t1, t2}
  SizeRows = {r1, r2}
  MaxLife = 1
  MaxGen = 1
  Batch = 1
  Patterns = {p1, p2}
  Pages = 2
  UnderWay = 2
  Indexes = {a, b}
  Fields = {f, g}
  Queries = {q, r}
  Conns = {c1, c2}
  Runs = {j1, j2, j3}
  Windows = {w1, w2}
  First = w1
  MaxEdits = 2
  Writers = {main, job}
  Main = main
  MaxLogs = 2
  MaxId = 3
  MaxEntries = 4
  Limit = 2
  a = a
  b = b
  k1 = k1
  ScanKeys = {k1}
  Masters <- TwoMasters
  Holds <- TwoHolds
  BucketOf <- SecondStep
  Buckets = 2
  Filters <- OneFilter
  AllKeys <- Every
  Count = 2
  Waiters = {x1}
  Dials = {d1, d2}
  Sessions = {x1, x2, x3}
  KeyNames = {n1, n2, n3}
  Never = Never
  Values = {v1, v2}
  Lasting = {v1}
  Ttl = 1
  N = 2
  Odd = {1}
  MaxActs = 4
  MaxJobs = 2
  Kinds = {"list", "array", "zset", "stream", "ts", "vector", "sample"}
  Top = 2
  Limits <- TypedLimits
  PageSize = 2
  Posts = 1
  Events = 1
INVARIANT FreshSize
PROPERTY DetailWins
PROPERTY RowAnswered
PROPERTY ComesToRest
PROPERTY ReadsEnd
PROPERTY DialEnds
CHECK_DEADLOCK FALSE
