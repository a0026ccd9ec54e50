-------------------------------- MODULE Loader --------------------------------
(***************************************************************************)
(* pkg/ebpf Loader.Start: prune the programs this kernel cannot run, load  *)
(* the collection, dropping optional programs the verifier rejects, attach *)
(* what was loaded, push the configuration, start the event reader.  Which *)
(* programs load and attach is the kernel's choice.  A program records     *)
(* nothing before the configuration enables it.                            *)
(***************************************************************************)
EXTENDS Naturals, FiniteSets

CONSTANT MaxRemovals    \* attempts of loadCollectionWithFallback that may prune

\* What the constants must satisfy; the composing module assumes it.
ConstantsOK == MaxRemovals \in Nat

Required == {"connect4", "sockops"}
Kprobes  == {"sendmsg_kprobe", "cleanup_kprobe"}
Tracing  == {"sendmsg_fentry", "cleanup_fentry", "retransmit", "loss_probe",
             "dns_recvmsg", "udp_sendmsg", "udp_recvmsg_exit"}
optionalPrograms == Kprobes \cup Tracing
                    \cup {"connect6", "sock_release", "quic_egress"}
Program == Required \cup optionalPrograms

NoConfig == [enabled |-> FALSE, udpSocketTX |-> FALSE]

VARIABLES
    kernel,     \* what the feature probes and the flags say (fixed)
    step,       \* where Start is
    progs,      \* programs in the spec, then in the collection
    removals,   \* programs dropped by loadCollectionWithFallback
    links,      \* attached programs
    config,     \* agent_config as the programs see it
    dns,        \* the DNS tracker: "none", "created", "reading"
    cause       \* why Start failed, or "none"

vars == <<kernel, step, progs, removals, links, config, dns, cause>>

Steps == {"probe", "prune", "load", "connect4", "connect6", "sockops", "release",
          "sendmsg", "cleanup", "kprobe_send", "kprobe_clean", "retransmit",
          "loss_probe", "dns", "udp_tx", "udp_rx", "quic", "config", "reader",
          "running", "failed"}

\* Types; in particular at most MaxRemovals programs are dropped by the verifier
\* loop of loadCollectionWithFallback.
TypeOK ==
    /\ kernel \in [fentry : BOOLEAN, tcx : BOOLEAN, trackUDP : BOOLEAN]
    /\ step \in Steps
    /\ progs \subseteq Program
    /\ removals \in 0 .. MaxRemovals
    /\ links \subseteq Program
    /\ config \in [enabled : BOOLEAN, udpSocketTX : BOOLEAN]
    /\ dns \in {"none", "created", "reading"}
    /\ cause \in {"none", "features", "rejected", "required", "kprobe missing",
                  "kprobe attach", "config", "reader"}

Init ==
    /\ kernel \in [fentry : BOOLEAN, tcx : BOOLEAN, trackUDP : BOOLEAN]
    /\ step = "probe"
    /\ progs = Program
    /\ removals = 0
    /\ links = {}
    /\ config = NoConfig
    /\ dns = "none"
    /\ cause = "none"

-----------------------------------------------------------------------------
\* Close: every link and the collection with its maps go away.
Close(why) ==
    /\ step' = "failed"
    /\ cause' = why
    /\ progs' = {} /\ links' = {} /\ config' = NoConfig /\ dns' = "none"
    /\ UNCHANGED <<kernel, removals>>

Goto(next) == step' = next /\ UNCHANGED <<kernel, removals, dns, cause>>

CheckRequired ==
    /\ step = "probe"
    /\ \/ Goto("prune") /\ UNCHANGED <<progs, links, config>>
       \/ Close("features")

\* Mutant: the kprobe byte counters stay in the collection.
PrunedKeepsKprobes ==
    (IF kernel.fentry THEN {} ELSE Tracing)
    \cup (IF kernel.tcx THEN {} ELSE {"quic_egress"})

\* With fentry the kprobe byte counters are pruned, without it the tracing
\* programs are.
Pruned ==
    (IF kernel.fentry THEN Kprobes ELSE Tracing)
    \cup (IF kernel.tcx THEN {} ELSE {"quic_egress"})

pruneOptionalPrograms ==
    /\ step = "prune"
    /\ progs' = progs \ Pruned
    /\ Goto("load") /\ UNCHANGED <<links, config>>

\* One attempt of loadCollectionWithFallback: the verifier accepts all, or
\* rejects p; an optional p is dropped and the load tried again.
LoadAccepted ==
    /\ step = "load"
    /\ Goto("connect4") /\ UNCHANGED <<progs, links, config>>

\* Mutant: after the last attempt the spec is read again and counting restarts.
LoadRejectedRestarts(p) ==
    /\ step = "load" /\ p \in progs
    /\ IF p \in optionalPrograms
       THEN /\ IF removals < MaxRemovals
               THEN progs' = progs \ {p} /\ removals' = removals + 1
               ELSE progs' = Program \ Pruned /\ removals' = 0
            /\ UNCHANGED <<kernel, step, links, config, dns, cause>>
       ELSE Close("required")

LoadRejected(p) ==
    /\ step = "load" /\ p \in progs
    /\ IF p \in optionalPrograms /\ removals < MaxRemovals
       THEN /\ progs' = progs \ {p}
            /\ removals' = removals + 1
            /\ UNCHANGED <<kernel, step, links, config, dns, cause>>
       ELSE Close(IF p \in Required THEN "required" ELSE "rejected")

-----------------------------------------------------------------------------
\* Mutant: a required program that does not attach is only logged.
AttachRequiredLogged(at, p, next) ==
    /\ step = at
    /\ links' \in {links, links \cup {p}}
    /\ Goto(next) /\ UNCHANGED <<progs, config>>

AttachRequired(at, p, next) ==
    /\ step = at
    /\ \/ /\ p \in progs
          /\ links' = links \cup {p}
          /\ Goto(next) /\ UNCHANGED <<progs, config>>
       \/ Close("required")

\* Warn and go on when p is absent or does not attach.
AttachOptional(at, p, next) ==
    /\ step = at
    /\ links' \in {links} \cup (IF p \in progs THEN {links \cup {p}} ELSE {})
    /\ Goto(next) /\ UNCHANGED <<progs, config>>

\* attachByteCountingHooks, fentry half: both must attach, or both kprobes
\* are tried (whatever fentry attached so far stays attached).
AttachSendmsgFentry ==
    /\ kernel.fentry
    /\ AttachOptional("sendmsg", "sendmsg_fentry", "cleanup")

AttachCleanupFentry ==
    /\ step = "cleanup"
    /\ links' \in {links} \cup (IF "cleanup_fentry" \in progs
                                THEN {links \cup {"cleanup_fentry"}} ELSE {})
    /\ Goto(IF {"sendmsg_fentry", "cleanup_fentry"} \subseteq links'
            THEN "retransmit" ELSE "kprobe_send")
    /\ UNCHANGED <<progs, config>>

NoFentry ==
    /\ step = "sendmsg" /\ ~kernel.fentry
    /\ Goto("kprobe_send") /\ UNCHANGED <<progs, links, config>>

attachKprobe(at, p, next) ==
    /\ step = at
    /\ \/ /\ p \in progs
          /\ links' = links \cup {p}
          /\ Goto(next) /\ UNCHANGED <<progs, config>>
       \/ Close(IF p \in progs THEN "kprobe attach" ELSE "kprobe missing")

\* fentry/udp_recvmsg for DNS: attaching it creates the tracker.
AttachDns ==
    /\ step = "dns"
    /\ step' = "udp_tx"
    /\ \/ UNCHANGED <<links, dns>>
       \/ /\ kernel.fentry /\ "dns_recvmsg" \in progs
          /\ links' = links \cup {"dns_recvmsg"}
          /\ dns' = "created"
    /\ UNCHANGED <<kernel, progs, removals, config, cause>>

udpSocketTX == kernel.trackUDP /\ "udp_sendmsg" \in links

\* pushConfig: from here on the attached programs record.
pushConfig ==
    /\ step = "config"
    /\ \/ /\ config' = [enabled |-> TRUE, udpSocketTX |-> udpSocketTX]
          /\ Goto("reader") /\ UNCHANGED <<progs, links>>
       \/ Close("config")

\* Ring buffer reader and DNS tracker; a tracker that cannot start is dropped.
StartReader ==
    /\ step = "reader"
    /\ \/ /\ step' = "running"
          /\ dns' \in IF dns = "created" THEN {"reading", "none"} ELSE {dns}
          /\ UNCHANGED <<kernel, progs, removals, links, config, cause>>
       \/ Close("reader")

AttachStep ==
    \/ AttachRequired("connect4", "connect4", "connect6")
    \/ AttachOptional("connect6", "connect6", "sockops")
    \/ AttachRequired("sockops", "sockops", "release")
    \/ AttachOptional("release", "sock_release", "sendmsg")
    \/ AttachSendmsgFentry \/ AttachCleanupFentry \/ NoFentry
    \/ attachKprobe("kprobe_send", "sendmsg_kprobe", "kprobe_clean")
    \/ attachKprobe("kprobe_clean", "cleanup_kprobe", "retransmit")
    \/ AttachOptional("retransmit", "retransmit", "loss_probe")
    \/ AttachOptional("loss_probe", "loss_probe", "dns")
    \/ AttachDns
    \/ AttachOptional("udp_tx", "udp_sendmsg", "udp_rx")
    \/ AttachOptional("udp_rx", "udp_recvmsg_exit", "quic")
    \/ AttachOptional("quic", "quic_egress", "config")

Start ==
    \/ CheckRequired \/ pruneOptionalPrograms
    \/ LoadAccepted \/ \E p \in Program : LoadRejected(p)
    \/ AttachStep \/ pushConfig \/ StartReader

Done == step \in {"running", "failed"} /\ UNCHANGED vars

Next == Start \/ Done

Spec == Init /\ [][Next]_vars /\ WF_vars(Start)

-----------------------------------------------------------------------------
\* attachByteCountingHooks: no kernel function ever has two recording programs,
\* although a half-attached fentry pair falls through to the kprobes.
OneCounterPerByte ==
    /\ ~({"sendmsg_fentry", "sendmsg_kprobe"} \subseteq links)
    /\ ~({"cleanup_fentry", "cleanup_kprobe"} \subseteq links)

\* An agent that runs measures: connections are observed and both TCP
\* directions counted, whatever was pruned, rejected or failed to attach.
RunningMeasures ==
    step = "running" =>
        /\ Required \subseteq links
        /\ links \cap {"sendmsg_fentry", "sendmsg_kprobe"} # {}
        /\ links \cap {"cleanup_fentry", "cleanup_kprobe"} # {}

\* Start ends, however many programs the verifier rejects.
StartEnds == <>(step \in {"running", "failed"})

-----------------------------------------------------------------------------
(* What the comments of the code say.                                       *)

\* loader.go: "Prefer fentry [...] Fall back to kprobe if fentry is
\* unavailable": the fallback is there when it is needed.
FallbackAvailable == cause # "kprobe missing"

\* loader.go: optional programs "should not prevent the agent from starting
\* if they fail to load".
OptionalNotFatal == cause # "rejected"
=============================================================================
