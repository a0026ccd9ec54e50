--------------------------- MODULE MCFlowScenarios ---------------------------
(***************************************************************************)
(* FlowDrain with the kinds of traffic the agent sees: the initial state   *)
(* picks the sockets that are used.  t is an outgoing TCP socket, p an     *)
(* accepted one, m one of a sidecar, which also retransmits, u a connected *)
(* UDP socket that sends QUIC.                                             *)
(***************************************************************************)
EXTENDS FlowDrain, TLC

CONSTANTS t, p, m, u, k0, k1, k2, q1

MCKeyOf == [s \in Sock |-> [i \in ConnKind |->
              IF s = t /\ i = "bare" THEN k0 ELSE IF s \in {t, u} THEN k1 ELSE k2]]
MCWireKey == [s \in Sock |-> q1]
MCCallSock == [sent |-> t, again |-> m, accepted |-> p, proxied |-> m,
               quic1 |-> u, quic2 |-> u, reply |-> u]
MCCallKind == [d \in Call |-> CASE d = "again" -> "retrans"
                                [] d = "reply" -> "rx"
                                [] OTHER       -> "tx"]

\* Two connections; a sidecar's connection beside another; QUIC.
Scenarios == {{t, p}, {t, m}, {u}}

ScenarioInit == FDInit /\ {s \in Sock : sk[s] = "fresh"} \in Scenarios

ScenarioSpec == ScenarioInit /\ [][Next]_vars

\* `reported' is handed on and never read: states that differ in it alone are
\* one state.
View == <<dpVars, phase, todo, half, snap, delivered, life, pubOpen,
          overlapped, unseen, kept, due>>

CpuSymmetry == Permutations(CPU)
=============================================================================
