SPECIFICATION Spec
CONSTANTS
  t = t  k0 = k0  k1 = k1  q1 = q1
  NoKey = NoKey  NoElem = NoElem  NoHook = NoHook
  FKey = {k0, k1}  QKey = {q1}
  KeyOf <- TcpKeyOf  WireKey <- TcpWireKey
  CPU = {c1}  Sock = {t}  Call = {"d1"}
  FElem = {f1}  QElem = {}
  Udp = {}  V6 = {}  Passive = {}  Sidecar = {}
  CallSock <- TcpCallSock  CallKind <- TcpCallKind  QuicCall = {}
  TrackUDP = FALSE  UdpSendmsgAttached = FALSE  Sampling = FALSE  Switchable = FALSE
  ConnCap = 1  DstCap = 1  RingCap = 1
  Batch = FALSE  AtomicDelete = TRUE  DrainErrors = FALSE  CallErrors = FALSE
INVARIANT IncrementsSurvive
