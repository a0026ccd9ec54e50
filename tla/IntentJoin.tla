------------------------------ MODULE IntentJoin ------------------------------
(***************************************************************************)
(* The agent's two goroutines around the intent cache.  The event reader   *)
(* takes connection events from the ring buffer and records what each      *)
(* connection dialed (handleEstablish) until it closes (handleClose); the  *)
(* poll goroutine joins every flow it collected against the cache          *)
(* (handlePoll).  Module FlowDrain supplies the kernel and the poller,     *)
(* IntentCache the cache.                                                  *)
(***************************************************************************)
EXTENDS FlowDrain

CONSTANTS
    Dst, Miss, Max,
    Dialed      \* pre-DNAT destination each socket asked for

ASSUME IntentJoinAssumption ==
    /\ Dialed \in [Sock -> Dst]
    /\ Miss \notin Dst
    /\ Max \in Nat \ {0}
    /\ IsFiniteSet(FKey)

VARIABLES
    cur, prev,      \* the intent cache
    established,    \* sockets whose pre-DNAT destination was recorded
    since,          \* since[s]: records made after that of s, up to Max + 1
    labelled        \* <<key, call, label>> as joined by handlePoll

C == INSTANCE IntentCache WITH IKey <- FKey

joinVars == <<cur, prev, established, since, labelled>>
jVars == <<vars, joinVars>>

JInit ==
    /\ FDInit /\ C!CacheInit
    /\ established = {} /\ since = [s \in Sock |-> 0]
    /\ labelled = {}

\* EstablishEvent.WasDNATed: the event carries a pre-DNAT IPv4 address, so
\* connect4 ran and its record was found.
WasDNATed(evt) == evt[3] = "intent" /\ evt[2] \notin V6

\* The history of a record: one more for every other socket.
Records(s) ==
    since' = [t \in Sock |-> IF t = s THEN 0
                            ELSE IF since[t] > Max THEN since[t] ELSE since[t] + 1]

\* Mutant: a known connection is not recorded again.
HandleEstablishOnce(evt) ==
    /\ evt[1] = "establish"
    /\ IF WasDNATed(evt)
       THEN /\ IF C!Get(KeyOf[evt[2]][evt[3]]) = Miss
               THEN C!Put(KeyOf[evt[2]][evt[3]], Dialed[evt[2]])
               ELSE UNCHANGED <<cur, prev>>
            /\ established' = established \cup {evt[2]}
            /\ Records(evt[2])
       ELSE UNCHANGED <<cur, prev, established, since>>

HandleEstablish(evt) ==
    /\ evt[1] = "establish"
    /\ IF WasDNATed(evt)
       THEN /\ C!Put(KeyOf[evt[2]][evt[3]], Dialed[evt[2]])
            /\ established' = established \cup {evt[2]}
            /\ Records(evt[2])
       ELSE UNCHANGED <<cur, prev, established, since>>

HandleClose(evt) ==
    /\ evt[1] = "close"
    /\ C!Delete(KeyOf[evt[2]][evt[3]])
    /\ UNCHANGED <<established, since>>

HandleConnect(evt) ==
    /\ evt[1] = "connect"
    /\ UNCHANGED <<cur, prev, established, since>>

\* readEvents: records are handled one at a time, in ring order.
ReadEvents ==
    /\ ReadEvent
    /\ LET evt == Head(ring) IN
       HandleEstablish(evt) \/ HandleClose(evt) \/ HandleConnect(evt)
    /\ UNCHANGED labelled

Joined(k, d) == \E l \in Dst \cup {Miss} : <<k, d, l>> \in labelled

\* handlePoll looks each collected flow up; the event reader runs between
\* two lookups.  A QUIC flow has no pid and matches no cache key.
JoinFlow(k) ==
    /\ phase = "deliver"
    /\ \E d \in Call : <<k, d>> \in snap /\ ~Joined(k, d)
    /\ LET l == IF k \in FKey THEN C!Get(k) ELSE Miss IN
       labelled' = labelled \cup {<<k, d, l>> : d \in {x \in Call : <<k, x>> \in snap}}
    /\ UNCHANGED <<vars, cur, prev, established, since>>

DeliverJoined ==
    /\ \A f \in snap : Joined(f[1], f[2])
    /\ Deliver
    /\ UNCHANGED joinVars

JNext ==
    \/ /\ \/ life # "detached" /\ KernelStep /\ UNCHANGED pollVars
          \/ PollBegin \/ DrainStep \/ PollQuic \/ PollEnd
          \/ ShutdownStep
          \/ Terminated
       /\ UNCHANGED joinVars
    \/ life # "detached" /\ ReadEvents
    \/ \E k \in Key : JoinFlow(k)
    \/ DeliverJoined

JSpec == JInit /\ [][JNext]_jVars

-----------------------------------------------------------------------------
\* While a connection is open, and once its establish event has been handled,
\* the cache answers with what that connection dialed or not at all, although
\* an earlier connection of the same key may have closed before or after it
\* was opened and any event may have been dropped at a full ring buffer.  It
\* has the answer until more than Max later connections have been recorded.
OpenKnown ==
    \A s \in established : sk[s] = "open" =>
        LET known == C!Get(KeyOf[s]["intent"]) IN
        /\ known \in {Dialed[s], Miss}
        /\ since[s] <= Max => known = Dialed[s]

\* intent/cache.go: the agent "joins it against poll snapshots, so the
\* service-dependency graph can attribute traffic to the dialed service".
IntentRecovered ==
    \A f \in labelled :
        LET s == CallSock[f[2]] IN
        s \in established /\ f[1] = KeyOf[s]["intent"] /\ f[2] \notin overlapped
        => f[3] = Dialed[s]
=============================================================================
