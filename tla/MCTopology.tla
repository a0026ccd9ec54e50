------------------------------ MODULE MCTopology ------------------------------
(***************************************************************************)
(* A three-bit address space: 0-3 private, 7 loopback, the rest public.    *)
(* The local VPC is 0-1 with a subnet per address, a peer has 2-3, and a   *)
(* third VPC the API also shows uses 0-1 again, as unrelated VPCs do.      *)
(***************************************************************************)
EXTENDS Topology

Bits(n) == [i \in 1 .. Width |-> (n \div 2^(Width - i)) % 2]
P(n, b) == [addr |-> Bits(n), bits |-> b]
SmallSrc == Bits(0)
SmallDst == {Bits(1), Bits(2), Bits(5), Bits(7)}
SmallNats == {Bits(1)}
SmallPodIPs == {Bits(2)}
SmallPrivate == {P(0, 1)}
SmallLoopback == {P(7, 3)}
SmallRegions == [z \in Zone |-> IF z = "c" THEN "far" ELSE "near"]
SmallVpcs == [local |-> P(0, 2), peer |-> P(2, 2), third |-> P(0, 2)]
SmallPeerings == {[requester |-> "peer", accepter |-> "local"],
                  [requester |-> "third", accepter |-> "peer"]}
HomeSubnet == [vpc |-> "local", cidr |-> P(0, 3), zone |-> "a"]
SmallSubnets == {HomeSubnet, [vpc |-> "local", cidr |-> P(1, 3), zone |-> "b"],
                 [vpc |-> "third", cidr |-> P(1, 3), zone |-> "c"]}
\* For the disagreement about zones: the third VPC has one subnet over both.
WideSubnets == {HomeSubnet, [vpc |-> "third", cidr |-> P(0, 2), zone |-> "c"]}
Table(v, assoc, m, d) == [vpc |-> v, associated |-> assoc, main |-> m, default |-> d]
SmallRoutes ==
    {<<Table("third", FALSE, TRUE, <<"nat">>), Table("local", FALSE, TRUE, <<"igw">>),
       Table("local", TRUE, FALSE, <<"nat">>)>>,
     <<Table("local", FALSE, TRUE, <<"igw">>), Table("third", FALSE, TRUE, <<"nat">>)>>}
SmallEndpoints == {P(2, 3), P(4, 2)}
SmallPods == {P(2, 2)}
=============================================================================
