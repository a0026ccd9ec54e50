SPECIFICATION Spec
CONSTANTS
  Width = 3  Src <- SmallSrc  None = none  Zone = {"a", "b", "c"}
  PrivateSpace <- SmallPrivate  Loopback <- SmallLoopback  RegionOf <- SmallRegions
  LocalVpc = "local"  VpcCIDR <- SmallVpcs  Peering <- SmallPeerings
  Subnet <- SmallSubnets  NodeSubnet <- HomeSubnet  NatIP <- SmallNats
  RouteTables <- SmallRoutes  EndpointCIDR <- SmallEndpoints
  PodCIDR <- SmallPods  PodIP <- SmallPodIPs  PodZone = {"b"}  Dst <- SmallDst  MaxChanges = 1  MaxWrites = 1  MaxFailures = 1
INVARIANTS LongestMatch AnswerOfOneMoment LocalNotPeered
CHECK_DEADLOCK FALSE
PROPERTY EventuallyCurrent
