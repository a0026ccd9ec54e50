SPECIFICATION Spec
CONSTANTS
  Addr = {a1, a2, a3, a4}
  Domain = {w, x}
  NoAddr = NoAddr  NoEntry = NoEntry  NoDomain = NoDomain
  RingLen = 2  MaxQueryCounters = 1
  RecordTTL = {0, 1, 9}  MinTTL = 1  MaxTTL = 2  MaxCount = 2
SYMMETRY AddrSymmetry
INVARIANTS CacheBound FreshAnswers CountersBounded
