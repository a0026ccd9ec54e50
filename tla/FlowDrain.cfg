SPECIFICATION ScenarioSpec
CONSTANTS
  t = t  p = p  m = m  u = u
  k0 = k0  k1 = k1  k2 = k2  q1 = q1
  NoKey = NoKey  NoElem = NoElem  NoHook = NoHook
  CPU = {c1, c2}  Sock = {t, p, m, u}
  Call = {"sent", "again", "accepted", "proxied", "quic1", "quic2", "reply"}
  FKey = {k0, k1, k2}  QKey = {q1}  FElem = {f1}  QElem = {g1}
  Udp = {u}  V6 = {}  Passive = {p}  Sidecar = {m}
  KeyOf <- MCKeyOf  WireKey <- MCWireKey
  CallSock <- MCCallSock  CallKind <- MCCallKind  QuicCall = {"quic1", "quic2"}
  TrackUDP = TRUE  UdpSendmsgAttached = FALSE  Sampling = FALSE  Switchable = FALSE
  ConnCap = 2  DstCap = 1  RingCap = 0
  Batch = FALSE  AtomicDelete = TRUE  DrainErrors = FALSE  CallErrors = TRUE
SYMMETRY CpuSymmetry
VIEW View
INVARIANTS NoDoubleCount Conservation Attribution FinalFlushComplete
