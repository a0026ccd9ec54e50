-------------------------------- MODULE Sidecar --------------------------------
(***************************************************************************)
(* pkg/enricher SidecarDetector: a verdict per PID, cached for good.  The  *)
(* poller asks IsSidecarProcess for every flow it turns into a cost; the   *)
(* lock is released while /proc/<pid>/comm is read.                        *)
(***************************************************************************)
CONSTANTS
    PID, Proc,
    Proxy,      \* the processes whose comm is in KnownSidecarProxies
    None        \* no process, no verdict, no call in progress

\* What the constants must satisfy; the composing module assumes it.
ConstantsOK == Proxy \subseteq Proc /\ None \notin Proc \cup PID \cup BOOLEAN

VARIABLES
    proc,           \* the process running under each PID, or None
    sidecarPIDs,    \* SidecarDetector.sidecarPIDs; None: no entry
    asking          \* the PID whose verdict the poller misses, or None

vars == <<proc, sidecarPIDs, asking>>

\* Types of the verdict cache and of the poller's call.
TypeOK ==
    /\ proc \in [PID -> Proc \cup {None}]
    /\ sidecarPIDs \in [PID -> BOOLEAN \cup {None}]
    /\ asking \in PID \cup {None}

Init ==
    /\ proc \in [PID -> Proc \cup {None}]
    /\ sidecarPIDs = [p \in PID |-> None]
    /\ asking = None

\* External: a process exits, or starts under a free PID.
ForkExit(p, c) ==
    /\ (proc[p] = None) # (c = None)
    /\ proc' = [proc EXCEPT ![p] = c]
    /\ UNCHANGED <<sidecarPIDs, asking>>

\* IsSidecarProcess, read lock: a known verdict is the answer.
IsSidecarProcess(p) ==
    /\ asking = None /\ sidecarPIDs[p] = None
    /\ asking' = p
    /\ UNCHANGED <<proc, sidecarPIDs>>

\* readProcComm and the store; a process that is gone has an empty name.
StoreVerdict ==
    /\ asking # None
    /\ sidecarPIDs' = [sidecarPIDs EXCEPT ![asking] = proc[asking] \in Proxy]
    /\ asking' = None
    /\ UNCHANGED proc

Next ==
    \/ \E p \in PID, c \in Proc \cup {None} : ForkExit(p, c)
    \/ \E p \in PID : IsSidecarProcess(p)
    \/ StoreVerdict

Spec == Init /\ [][Next]_vars

-----------------------------------------------------------------------------
(* What the comments of the code say.                                       *)

\* sidecar_linux.go: a cached PID entry is removed "when process exits", so the
\* verdict on a PID is about the process that has it.
SidecarCurrent ==
    \A p \in PID : sidecarPIDs[p] = TRUE /\ proc[p] # None => proc[p] \in Proxy
=============================================================================
