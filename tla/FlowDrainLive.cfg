SPECIFICATION PassingErrors
CONSTANTS
  t = t  k0 = k0  k1 = k1  q1 = q1
  NoKey = NoKey  NoElem = NoElem  NoHook = NoHook
  FKey = {k0, k1}  QKey = {q1}
  KeyOf <- TcpKeyOf  WireKey <- TcpWireKey
  CPU = {c1, c2}  Sock = {t}  Call = {"d1", "d2"}
  FElem = {f1}  QElem = {}
  Udp = {}  V6 = {}  Passive = {}  Sidecar = {}
  CallSock <- TcpCallSock  CallKind <- TcpCallKind  QuicCall = {}
  TrackUDP = FALSE  UdpSendmsgAttached = FALSE  Sampling = TRUE  Switchable = TRUE
  ConnCap = 1  DstCap = 1  RingCap = 1
  Batch = TRUE  AtomicDelete = TRUE  DrainErrors = TRUE  CallErrors = FALSE
INVARIANT TypeOK
PROPERTY EventuallyReported
