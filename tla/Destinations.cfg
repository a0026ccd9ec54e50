SPECIFICATION DestinationsSpec
CONSTANTS
  t1 = t1  t2 = t2  t3 = t3  k1 = k1  k2 = k2  q1 = q1  x1 = x1  x2 = x2
  NoKey = NoKey  NoElem = NoElem  NoHook = NoHook  Miss = Miss
  FKey = {k1, k2}  QKey = {q1}
  KeyOf <- JoinKeyOf  WireKey <- JoinWireKey
  CPU = {c1}  Sock = {t1, t2, t3}  Call = {"d1"}
  FElem = {f1}  QElem = {}
  Udp = {}  V6 = {}  Passive = {}  Sidecar = {}
  CallSock <- JoinCallSock  CallKind <- JoinCallKind  QuicCall = {}
  TrackUDP = FALSE  UdpSendmsgAttached = FALSE  Sampling = FALSE  Switchable = FALSE
  ConnCap = 2  DstCap = 2  RingCap = 2
  Batch = FALSE  AtomicDelete = TRUE  DrainErrors = FALSE  CallErrors = FALSE
  Dst = {x1, x2}  Max = 1  Dialed <- JoinDialed
  Pod = {p1, p2}
  Node = {n1, n2}
  IP = {i1}
  Zone = {z1, z2}
  InstanceType = {t1}
  MaxRestarts = 1
  None = none
  Slice = {s1, s2}
  Service = {v1, v2}
  Addr = {a1, a2}
  Port = {80}
  ClusterIP = {v}
  MaxEndpoints = 2
SYMMETRY Symmetry
VIEW View
CONSTRAINT BeforeShutdown
INVARIANTS OpenKnown InstanceTypeFilled ZoneFollowsPod SettledAddressKnown EndpointsExact ClusterIPKnown
