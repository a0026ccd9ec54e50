----------------------------- MODULE MCFlowDrain -----------------------------
(***************************************************************************)
(* FlowDrain with one outgoing TCP connection t that carries a send d1 and *)
(* a receive d2; its flow key depends on whether connect4 was recorded.    *)
(***************************************************************************)
EXTENDS FlowDrain

CONSTANTS t, k0, k1, q1

TcpKeyOf == [s \in Sock |-> [i \in ConnKind |-> IF i = "bare" THEN k0 ELSE k1]]
TcpWireKey == [s \in Sock |-> q1]
TcpCallSock == [d \in Call |-> t]
TcpCallKind == [d \in Call |-> IF d = "d2" THEN "rx" ELSE "tx"]
=============================================================================
