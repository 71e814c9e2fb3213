---------------------------- MODULE WillTracker ----------------------------
(***************************************************************************)
(* What becomes of a client's will that was published with QoS 1: the part *)
(* of bridge/server.go that tracks it until NATS acknowledges it           *)
(* (PublishWill, trackAckReceived, ackCheckTick, republish), stops doing   *)
(* so on shutdown, persists what is tracked, and resumes it.               *)
(*                                                                         *)
(* Each time the timer fires it starts a goroutine that republishes all    *)
(* tracked wills, one after the other, and waits up to two seconds for the *)
(* reply to each; the timer is reset first, so these goroutines ("ticks")  *)
(* may overlap, with each other and with a shutdown.  NATS and the clients *)
(* whose connections end are the environment.                              *)
(***************************************************************************)
EXTENDS Naturals, FiniteSets

CONSTANTS
    Wills,          \* wills with QoS 1; a will stands for its packet id too
    RetainedWills,  \* those with the retain flag
    Ticks,          \* goroutines that may run ackCheckTick at the same time
    Storage,        \* is there a storage path?
    QuietShutdown,  \* does a shutdown happen only while no tick runs?
    MaxRestarts,    \* bound: graceful restarts
    MaxCrashes,     \* bound: crashes
    None

ASSUME WillsAssumption == RetainedWills \subseteq Wills /\ None \notin Wills
ASSUME FlagsAssumption == Storage \in BOOLEAN /\ QuietShutdown \in BOOLEAN
ASSUME BoundsAssumption == MaxRestarts \in Nat /\ MaxCrashes \in Nat

VARIABLES
    pubAcks,    \* the wills that await a reply; {} is the nil map
    timer,      \* pubAckTimer: nil, armed, or fired and not yet reset
    ticks,      \* each goroutine's position in ackCheckTick and republish
    phase,      \* the server: up, stopping, down, or dead
    file,       \* the persisted wills
    published,  \* wills of connections that have ended
    answered,   \* ghost: wills for which the bridge got a reply
    stops       \* number of restarts and crashes so far

vars == <<pubAcks, timer, ticks, phase, file, published, answered, stops>>

Idle == [at |-> "idle", todo |-> {}, w |-> None]

Init ==
    /\ pubAcks = {}
    /\ timer = "nil"
    /\ ticks = [t \in Ticks |-> Idle]
    /\ phase = "up"
    /\ file = {}
    /\ published = {}
    /\ answered = {}
    /\ stops = [restarts |-> 0, crashes |-> 0]

(* The process ends, and all it held in memory with it.                    *)
Dies ==
    /\ phase' = "dead"
    /\ pubAcks' = {}
    /\ timer' = "nil"
    /\ ticks' = [t \in Ticks |-> Idle]

-----------------------------------------------------------------------------

(* The timer is created with the map, that is, when nothing is tracked.    *)
TimerAsItWas == timer
TimerWhenTracking == IF pubAcks = {} THEN "armed" ELSE timer

(* PublishWill, then trackAckReceived unless the will is retained.         *)
PublishWill(w) ==
    /\ phase = "up"
    /\ w \notin published
    /\ published' = published \cup {w}
    /\ IF w \in RetainedWills
       THEN UNCHANGED <<pubAcks, timer>>
       ELSE /\ timer' = TimerWhenTracking
            /\ pubAcks' = pubAcks \cup {w}
    /\ UNCHANGED <<ticks, phase, file, answered, stops>>

(* The connection with the client's credentials fails: the will is lost.   *)
PublishWillFails(w) ==
    /\ phase = "up"
    /\ w \notin published
    /\ published' = published \cup {w}
    /\ UNCHANGED <<pubAcks, timer, ticks, phase, file, answered, stops>>

-----------------------------------------------------------------------------

Goes(t, tick) == ticks' = [ticks EXCEPT ![t] = tick]

NextOf(todo) == [at |-> IF todo = {} THEN "idle" ELSE "next", todo |-> todo, w |-> None]

TimerFires(t) ==
    /\ timer = "armed"
    /\ ticks[t].at = "idle"
    /\ timer' = "fired"
    /\ Goes(t, [Idle EXCEPT !.at = "reset"])
    /\ UNCHANGED <<pubAcks, phase, file, published, answered, stops>>

(* ackCheckTick: the timer that may be nil by now is used without a lock.  *)
TimerLeftFired == timer
TimerAfterReset == "armed"
TickReset(t) ==
    /\ ticks[t].at = "reset"
    /\ IF timer = "nil"
       THEN Dies
       ELSE /\ timer' = TimerAfterReset
            /\ Goes(t, [Idle EXCEPT !.at = "snapshot"])
            /\ UNCHANGED <<pubAcks, phase>>
    /\ UNCHANGED <<file, published, answered, stops>>

(* awaitsAckSnapshot *)
TickSnapshot(t) ==
    /\ ticks[t].at = "snapshot"
    /\ Goes(t, NextOf(pubAcks))
    /\ UNCHANGED <<pubAcks, timer, phase, file, published, answered, stops>>

(* republish: a connection, a subscription to the reply, the request ...   *)
Republish(t, w) ==
    /\ ticks[t].at = "next"
    /\ w \in ticks[t].todo
    /\ Goes(t, [at |-> "wait", todo |-> ticks[t].todo \ {w}, w |-> w])
    /\ UNCHANGED <<pubAcks, timer, phase, file, published, answered, stops>>

RepublishFails(t, w) ==
    /\ ticks[t].at = "next"
    /\ w \in ticks[t].todo
    /\ Goes(t, NextOf(ticks[t].todo \ {w}))
    /\ UNCHANGED <<pubAcks, timer, phase, file, published, answered, stops>>

(* ... and NextMsg, which gives the reply or times out.                    *)
AckArrives(t) ==
    /\ ticks[t].at = "wait"
    /\ answered' = answered \cup {ticks[t].w}
    /\ Goes(t, [ticks[t] EXCEPT !.at = "acked"])
    /\ UNCHANGED <<pubAcks, timer, phase, file, published, stops>>

AckTimeout(t) ==
    /\ ticks[t].at = "wait"
    /\ Goes(t, NextOf(ticks[t].todo))
    /\ UNCHANGED <<pubAcks, timer, phase, file, published, answered, stops>>

(* The will is no longer tracked; with the last one map and timer go.      *)
NothingTracked(w) == {}
StillTracked(w) == pubAcks \ {w}
Acked(t) ==
    LET left == StillTracked(ticks[t].w)
        last == pubAcks # {} /\ left = {}
    IN
    /\ ticks[t].at = "acked"
    /\ IF last /\ timer = "nil"
       THEN Dies
       ELSE /\ pubAcks' = left
            /\ timer' = IF last THEN "nil" ELSE timer
            /\ Goes(t, NextOf(ticks[t].todo))
            /\ UNCHANGED phase
    /\ UNCHANGED <<file, published, answered, stops>>

-----------------------------------------------------------------------------

(* drainAndShutdown, once the clients are drained: the timer goes ...      *)
StopTimer ==
    /\ phase = "up"
    /\ stops.restarts < MaxRestarts
    /\ QuietShutdown => \A t \in Ticks : ticks[t].at = "idle"
    /\ phase' = "stopping"
    /\ timer' = "nil"
    /\ stops' = [stops EXCEPT !.restarts = @ + 1]
    /\ UNCHANGED <<pubAcks, ticks, file, published, answered>>

(* ... then the state is persisted.                                        *)
Persist ==
    /\ phase = "stopping"
    /\ phase' = "down"
    /\ file' = IF Storage THEN pubAcks ELSE file
    /\ UNCHANGED <<pubAcks, timer, ticks, published, answered, stops>>

(* What UnmarshalFromJSON makes of the file's wills, if it has any.        *)
Resumed ==
    IF Storage /\ file # {}
    THEN pubAcks' = file /\ timer' = "armed"
    ELSE UNCHANGED <<pubAcks, timer>>

(* Restart goes on in the same process, with load and Serve; after a crash *)
(* a new process does (New).                                               *)
Serve ==
    /\ phase \in {"down", "dead"}
    /\ phase' = "up"
    /\ Resumed
    /\ UNCHANGED <<ticks, file, published, answered, stops>>

Crash ==
    /\ phase # "dead"
    /\ stops.crashes < MaxCrashes
    /\ Dies
    /\ stops' = [stops EXCEPT !.crashes = @ + 1]
    /\ UNCHANGED <<file, published, answered>>

-----------------------------------------------------------------------------

Tick(t) ==
    \/ TickReset(t)
    \/ TickSnapshot(t)
    \/ \E w \in Wills : Republish(t, w) \/ RepublishFails(t, w)
    \/ AckArrives(t)
    \/ AckTimeout(t)
    \/ Acked(t)

Next ==
    \/ \E w \in Wills : PublishWill(w) \/ PublishWillFails(w)
    \/ \E t \in Ticks : TimerFires(t) \/ Tick(t)
    \/ StopTimer
    \/ Persist
    \/ Serve
    \/ Crash

Spec == Init /\ [][Next]_vars

(* Timers fire, goroutines run, a restart completes; a request that is     *)
(* made again and again is published and answered in the end.              *)
FairSpec ==
    /\ Spec
    /\ WF_vars(\E t \in Ticks : TimerFires(t))
    /\ \A t \in Ticks : WF_vars(Tick(t))
    /\ \A w \in Wills :
          /\ SF_vars(\E t \in Ticks : Republish(t, w))
          /\ SF_vars(\E t \in Ticks : ticks[t].w = w /\ AckArrives(t))
    /\ WF_vars(Persist)
    /\ WF_vars(Serve)

-----------------------------------------------------------------------------

(* Where a goroutine may be: one that has ended has worked through its     *)
(* list, and one that waits for a reply, or has it, knows which will it is *)
(* about.                                                                  *)
Positions ==
    {p \in [at : {"idle", "reset", "snapshot", "next", "wait", "acked"},
            todo : SUBSET Wills, w : Wills \cup {None}] :
        /\ p.at = "idle" => p = Idle
        /\ p.at \in {"wait", "acked"} => p.w \in Wills}

(* Every variable has its type; no retained will is ever tracked.          *)
TypeOK ==
    /\ pubAcks \in SUBSET (Wills \ RetainedWills)
    /\ timer \in {"nil", "armed", "fired"}
    /\ ticks \in [Ticks -> Positions]
    /\ phase \in {"up", "stopping", "down", "dead"}
    /\ file \in SUBSET (Wills \ RetainedWills)
    /\ published \in SUBSET Wills
    /\ answered \in SUBSET Wills
    /\ stops \in [restarts : 0..MaxRestarts, crashes : 0..MaxCrashes]

(* While the bridge serves, the timer exists exactly when something is     *)
(* tracked: trackAckReceived relies on it when it starts the timer only    *)
(* together with the map, republish when it stops it with the last will.   *)
TimerRunsWhileTracking == phase = "up" => (pubAcks # {} <=> timer # "nil")

(* A will "needs to be maintained until an ack is received" (server.go:    *)
(* 321-322): it leaves the memory and the file of the bridge only after a  *)
(* reply to it, unless the process is killed before it is in the file.     *)
TrackedUntilAcked ==
    [][\A w \in pubAcks \cup file :
          w \in answered' \/ w \in pubAcks' \cup file' \/ stops'.crashes # stops.crashes]_vars

(* A tracked will is republished until it is acknowledged in the end,      *)
(* unless the process is killed before the will is in the file.            *)
TrackedIsAcked ==
    \A w \in Wills : w \in pubAcks ~> w \in answered \/ w \notin pubAcks \cup file
=============================================================================
