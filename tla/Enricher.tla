------------------------------- MODULE Enricher -------------------------------
(***************************************************************************)
(* pkg/enricher: PID to container, cached.  The event reader calls         *)
(* EnrichComm and Evict, the poller calls Lookup.  No lock is held while   *)
(* /proc is read, and the kernel reuses PIDs: between two steps of a call  *)
(* the process may exit and another may run under its number.              *)
(***************************************************************************)
EXTENDS Naturals, FiniteSets

CONSTANTS
    PID, Container,
    Host,           \* a process that runs in no container
    TTL, MaxCacheSize,
    MaxTime,        \* bound: the last instant
    None            \* no process, no container, no call

\* What the constants must satisfy; the composing module assumes it.
ConstantsOK ==
    /\ TTL \in Nat \ {0} /\ MaxCacheSize \in Nat \ {0} /\ MaxTime \in Nat
    /\ None \notin Container \cup PID \cup {Host} /\ Host \notin Container

Thread == {"reader", "poller"}
Time == 0 .. MaxTime

\* A process is told from others only by the container it runs in.
Process == Container \cup {Host, None}
Info == [container : Container \cup {None}, at : Time]
NoInfo == [container |-> None, at |-> MaxTime + 1]

VARIABLES
    now,
    proc,           \* the process running under each PID, or None
    lastSeen,       \* history: when a PID was last in a container, plus one
    cache,          \* Enricher.cache
    call,           \* the call in progress in each thread
    answer          \* what the thread's last Lookup returned

vars == <<now, proc, lastSeen, cache, call, answer>>

Steps == {"idle", "lookup", "comm", "cgroup", "store", "minimal"}
Call == [step : Steps, pid : PID \cup {None}, at : Time, found : Container \cup {None}]
Answer == [pid : PID \cup {None}, container : Container \cup {None}, asked : Time]
IdleCall == [step |-> "idle", pid |-> None, at |-> 0, found |-> None]
NoAnswer == [pid |-> None, container |-> None, asked |-> 0]

\* Types of the cache and of the calls in progress; cachedAt is in the past.
TypeOK ==
    /\ now \in Time
    /\ proc \in [PID -> Process]
    /\ lastSeen \in [PID -> [Container -> 0 .. MaxTime + 1]]
    /\ cache \in [PID -> Info \cup {NoInfo}]
    /\ \A p \in PID : cache[p] # NoInfo => cache[p].at <= now
    /\ call \in [Thread -> Call]
    /\ answer \in [Thread -> Answer]

Init ==
    /\ now = 0
    /\ proc \in [PID -> Process]
    /\ lastSeen = [p \in PID |-> [c \in Container |-> IF proc[p] = c THEN 1 ELSE 0]]
    /\ cache = [p \in PID |-> NoInfo]
    /\ call = [t \in Thread |-> IdleCall]
    /\ answer = [t \in Thread |-> NoAnswer]

-----------------------------------------------------------------------------
(* External: the kernel.                                                     *)

\* Time passes; every running process is seen running at the new instant.
Tick ==
    /\ now < MaxTime
    /\ now' = now + 1
    /\ lastSeen' = [p \in PID |-> [c \in Container |->
                       IF proc[p] = c THEN now + 2 ELSE lastSeen[p][c]]]
    /\ UNCHANGED <<proc, cache, call, answer>>

\* A process exits, or a process starts under a free PID.
ForkExit(p, c) ==
    /\ (proc[p] = None) # (c = None)
    /\ proc' = [proc EXCEPT ![p] = c]
    /\ lastSeen' = IF c \notin Container THEN lastSeen ELSE [lastSeen EXCEPT ![p][c] = now + 1]
    /\ UNCHANGED <<now, cache, call, answer>>

-----------------------------------------------------------------------------
\* The reader (handleConnect, handleEstablish) and the poller (handlePoll)
\* begin to enrich a flow of p.
Begin(t, p) ==
    /\ call[t].step = "idle"
    /\ call' = [call EXCEPT ![t] = [step |-> "lookup", pid |-> p, at |-> 0, found |-> None]]
    /\ answer' = [answer EXCEPT ![t] = NoAnswer]
    /\ UNCHANGED <<now, proc, lastSeen, cache>>

\* Mutant: a cached entry is used however old it is.
FreshForever(p) == cache[p] # NoInfo

Fresh(p) == cache[p] # NoInfo /\ now < cache[p].at + TTL

\* Lookup, fast path; cachedAt is taken before /proc is read.
Lookup(t) ==
    LET p == call[t].pid
    IN  /\ call[t].step = "lookup"
        /\ IF Fresh(p)
           THEN /\ call' = [call EXCEPT ![t] = IdleCall]
                /\ answer' = [answer EXCEPT ![t] =
                     [pid |-> p, container |-> cache[p].container, asked |-> now]]
           ELSE /\ call' = [call EXCEPT ![t].step = "comm", ![t].at = now]
                /\ UNCHANGED answer
        /\ UNCHANGED <<now, proc, lastSeen, cache>>

\* resolve, /proc/<pid>/comm: gone means nil, which EnrichComm replaces.
ReadComm(t) ==
    /\ call[t].step = "comm"
    /\ call' = [call EXCEPT ![t] =
                    IF proc[@.pid] # None THEN [@ EXCEPT !.step = "cgroup"]
                    ELSE IF t = "reader" THEN [@ EXCEPT !.step = "minimal"] ELSE IdleCall]
    /\ UNCHANGED <<now, proc, lastSeen, cache, answer>>

\* resolve, cmdline and /proc/<pid>/cgroup: the container ID, or none.
readCgroup(t) ==
    /\ call[t].step = "cgroup"
    /\ call' = [call EXCEPT ![t] =
                    [@ EXCEPT !.step = "store",
                              !.found = IF proc[call[t].pid] \in Container THEN proc[call[t].pid] ELSE None]]
    /\ UNCHANGED <<now, proc, lastSeen, cache, answer>>

\* The cache after the store of Lookup, with its eviction of expired entries.
Stored(t) ==
    LET p == call[t].pid
        put == [cache EXCEPT ![p] = [container |-> call[t].found, at |-> call[t].at]]
    IN  IF Cardinality({q \in PID : put[q] # NoInfo}) > MaxCacheSize
        THEN [q \in PID |-> IF put[q] # NoInfo /\ now > put[q].at + TTL THEN NoInfo ELSE put[q]]
        ELSE put

Store(t) ==
    /\ call[t].step = "store"
    /\ cache' = Stored(t)
    /\ answer' = [answer EXCEPT ![t] = [pid |-> call[t].pid, container |-> call[t].found,
                                        asked |-> call[t].at]]
    /\ call' = [call EXCEPT ![t] = IdleCall]
    /\ UNCHANGED <<now, proc, lastSeen>>

\* EnrichComm, a process that is gone: a minimal entry from the BPF event.
EnrichCommMinimal ==
    /\ call["reader"].step = "minimal"
    /\ cache' = [cache EXCEPT ![call["reader"].pid] = [container |-> None, at |-> now]]
    /\ answer' = [answer EXCEPT !["reader"] =
                    [pid |-> call["reader"].pid, container |-> None, asked |-> now]]
    /\ call' = [call EXCEPT !["reader"] = IdleCall]
    /\ UNCHANGED <<now, proc, lastSeen>>

\* Evict, from handleClose.
Evict(p) ==
    /\ call["reader"].step = "idle"
    /\ cache' = [cache EXCEPT ![p] = NoInfo]
    /\ UNCHANGED <<now, proc, lastSeen, call, answer>>

Next ==
    \/ Tick
    \/ \E p \in PID, c \in Process : ForkExit(p, c)
    \/ \E t \in Thread : \/ \E p \in PID : Begin(t, p)
                         \/ Lookup(t) \/ ReadComm(t) \/ readCgroup(t) \/ Store(t)
    \/ EnrichCommMinimal
    \/ \E p \in PID : Evict(p)

Spec == Init /\ [][Next]_vars

-----------------------------------------------------------------------------
\* Lookup against PID reuse, a store that comes after an Evict, and two threads
\* that resolve one PID: the container it answers with is one the PID was in
\* less than TTL before it was asked, or later.
AnswersRecent ==
    \A t \in Thread : LET a == answer[t] IN
        a.container # None => lastSeen[a.pid][a.container] + TTL > a.asked + 1

-----------------------------------------------------------------------------
(* What the comments of the code say.                                       *)

\* enricher.go: "MaxCacheSize caps the enricher cache to prevent unbounded
\* growth. When exceeded, expired entries are evicted".  A step that adds an
\* entry and leaves the cache above the cap leaves no expired entry in it.
CacheCapped == [][
    (/\ \E p \in PID : cache[p] = NoInfo /\ cache'[p] # NoInfo
     /\ Cardinality({p \in PID : cache'[p] # NoInfo}) > MaxCacheSize)
    => \A p \in PID : cache'[p] # NoInfo => now <= cache'[p].at + TTL]_vars
=============================================================================
