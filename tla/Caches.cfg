SPECIFICATION CachesSpec
CONSTANTS
  IKey = {a, b, c, d}  Dst = {s1, s2}  Miss = Miss  Max = 2  MaxAge = 4
  PID = {p1, p2}  Container = {pod}  Host = host
  TTL = 1  MaxCacheSize = 1  MaxTime = 2  None = none
  Proc = {app, proxy}  Proxy = {proxy}
SYMMETRY PidSymmetry
INVARIANTS Bounded RecentKnown AnswersRecent
PROPERTY ImplementsStore
