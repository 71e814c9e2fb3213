----------------------------- MODULE IDManager -----------------------------
(***************************************************************************)
(* The packet identifier manager of mqtt/pkg/idmanager.go, one instance of *)
(* which is embedded in the bridge's server and shared by every NATS       *)
(* callback that delivers a message to a subscriber (natsResponse), by     *)
(* PublishWill, and by the PUBACK handler of every client.                 *)
(*                                                                         *)
(* A caller is a goroutine that allocates identifiers, and the session it  *)
(* allocates them for.  The mutex pkgIDLock is explicit, because the value *)
(* NextFreePacketID returns is read after the mutex is released: the steps *)
(* of two calls interleave wherever the code lets them.                    *)
(***************************************************************************)
EXTENDS Naturals, FiniteSets

CONSTANTS
    Callers,     \* goroutines that call NextFreePacketID
    MaxId,       \* the largest value of the counter: 2^16 - 1 in the code
    ForeignIds,  \* ids that a PUBACK may carry though this manager never
                 \* handed them out: they are the packet ids other publishers
                 \* chose, forwarded to subscribers through a ReplyTopic
    MaxCommitted,\* bound: reserved ids and calls in progress, together
    RaceAndStop, \* bound: FALSE writes no file after calls overlapped, and
                 \* lets none overlap once a file was written
    NoOne        \* not a caller: the mutex is free

ASSUME MaxIdAssumption == MaxId \in Nat \ {0}
ASSUME ForeignAssumption == ForeignIds \subseteq 0..MaxId
ASSUME CommittedAssumption == MaxCommitted \in 0..MaxId
ASSUME NoOneAssumption == NoOne \notin Callers

VARIABLES
    nextFreePkgID,  \* the counter, a uint16
    inFlight,       \* the set of ids the manager considers in use
    lock,           \* pkgIDLock: its holder or NoOne
    pc,             \* where each caller is in NextFreePacketID
    held,           \* ghost: the ids each caller got and still uses
    file,           \* what was last persisted, or NoFile
    up,             \* FALSE between a stop or crash and the next start
    clean           \* ghost: so far no two calls overlapped and nothing was
                    \* released that this manager had not handed out

vars == <<nextFreePkgID, inFlight, lock, pc, held, file, up, clean>>

Ids == 0..MaxId

NoFile == [next |-> 1, inFlight |-> {}, held |-> [c \in Callers |-> {}]]

(* A mistake of the increment that the checks are shown to catch.           *)
WrapSaturating(n) == IF n = MaxId THEN n ELSE n + 1

(* The counter is a uint16: incrementing the largest value gives zero.     *)
Wrap(n) == IF n = MaxId THEN 0 ELSE n + 1

(* "counter flipped over and zero is not a valid ID": one more increment.  *)
ZeroAllowed(n) == n
ZeroSkipped(n) == IF n = 0 THEN Wrap(n) ELSE n

(* What MarshalToJSON writes, with the holders persisted in the same file. *)
SnapshotWithoutInFlight ==
    [next |-> nextFreePkgID, inFlight |-> {}, held |-> held]
Snapshot ==
    [next |-> nextFreePkgID, inFlight |-> inFlight, held |-> held]

Active(c) == pc[c] # "idle"

-----------------------------------------------------------------------------

(* NewIDManager *)
Init ==
    /\ nextFreePkgID = 1
    /\ inFlight = {}
    /\ lock = NoOne
    /\ pc = [c \in Callers |-> "idle"]
    /\ held = [c \in Callers |-> {}]
    /\ file = NoFile
    /\ up = TRUE
    /\ clean = TRUE

(* A call waits for the mutex.  A call made while every identifier is in   *)
(* flight would search forever with the mutex held (the code has no limit  *)
(* of its own): MaxCommitted keeps the environment below that.             *)
Call(c) ==
    /\ up
    /\ pc[c] = "idle"
    /\ Cardinality(inFlight) + Cardinality({d \in Callers : Active(d)})
          < MaxCommitted
    /\ RaceAndStop \/ file = NoFile \/ \A d \in Callers : ~Active(d)
    /\ pc' = [pc EXCEPT ![c] = "waiting"]
    /\ clean' = (clean /\ \A d \in Callers : ~Active(d))
    /\ UNCHANGED <<nextFreePkgID, inFlight, lock, held, file, up>>

(* Lock, and the increment that follows it.                                *)
LockAndBump(c) ==
    /\ pc[c] = "waiting"
    /\ lock = NoOne
    /\ lock' = c
    /\ nextFreePkgID' = Wrap(nextFreePkgID)
    /\ pc' = [pc EXCEPT ![c] = "bumped"]
    /\ UNCHANGED <<inFlight, held, file, up, clean>>

(* The test for zero that follows each increment.                          *)
SkipZero(c) ==
    /\ pc[c] = "bumped"
    /\ nextFreePkgID' = ZeroSkipped(nextFreePkgID)
    /\ pc' = [pc EXCEPT ![c] = "probe"]
    /\ UNCHANGED <<inFlight, lock, held, file, up, clean>>

(* The loop's test fails: the candidate is in flight, try the next one.    *)
Taken(c) ==
    /\ pc[c] = "probe"
    /\ nextFreePkgID \in inFlight
    /\ nextFreePkgID' = Wrap(nextFreePkgID)
    /\ pc' = [pc EXCEPT ![c] = "bumped"]
    /\ UNCHANGED <<inFlight, lock, held, file, up, clean>>

(* The candidate is free: reserve it and unlock.                           *)
MarkAndUnlock(c) ==
    /\ pc[c] = "probe"
    /\ nextFreePkgID \notin inFlight
    /\ inFlight' = inFlight \cup {nextFreePkgID}
    /\ lock' = NoOne
    /\ pc' = [pc EXCEPT ![c] = "return"]
    /\ UNCHANGED <<nextFreePkgID, held, file, up, clean>>

(* The return statement reads the counter again, without the mutex.        *)
Return(c) ==
    /\ pc[c] = "return"
    /\ held' = [held EXCEPT ![c] = @ \cup {nextFreePkgID}]
    /\ pc' = [pc EXCEPT ![c] = "idle"]
    /\ UNCHANGED <<nextFreePkgID, inFlight, lock, file, up, clean>>

(* ReleasePacketID: the subscriber's PUBACK for an id it was sent.         *)
ReleasePacketID(c, id) ==
    /\ up
    /\ lock = NoOne
    /\ id \in held[c]
    /\ inFlight' = inFlight \ {id}
    /\ held' = [held EXCEPT ![c] = @ \ {id}]
    /\ UNCHANGED <<nextFreePkgID, lock, pc, file, up, clean>>

(* ReleasePacketID for an id that came from another publisher's id space.  *)
ReleaseForeign(id) ==
    /\ up
    /\ lock = NoOne
    /\ inFlight' = inFlight \ {id}
    /\ clean' = FALSE
    /\ UNCHANGED <<nextFreePkgID, lock, pc, held, file, up>>

(* A session that is removed, and an acknowledged will, give up their ids  *)
(* without a call to ReleasePacketID: the ids stay in flight for good.     *)
Abandon(c, id) ==
    /\ up
    /\ id \in held[c]
    /\ held' = [held EXCEPT ![c] = @ \ {id}]
    /\ UNCHANGED <<nextFreePkgID, inFlight, lock, pc, file, up, clean>>

(* MarshalToJSON, at the end of the graceful shutdown: clients are gone.   *)
Persist ==
    /\ up
    /\ \A c \in Callers : ~Active(c)
    /\ RaceAndStop \/ clean
    /\ file' = Snapshot
    /\ up' = FALSE
    /\ UNCHANGED <<nextFreePkgID, inFlight, lock, pc, held, clean>>

(* The process dies: nothing is written, calls in progress are forgotten.  *)
Crash ==
    /\ up
    /\ up' = FALSE
    /\ lock' = NoOne
    /\ pc' = [c \in Callers |-> "idle"]
    /\ UNCHANGED <<nextFreePkgID, inFlight, held, file, clean>>

(* NewIDManager, then UnmarshalFromJSON when there is a file.  The holders *)
(* (the sessions' awaitsClientAck) come from the same file.                *)
Load ==
    /\ ~up
    /\ nextFreePkgID' = file.next
    /\ inFlight' = file.inFlight
    /\ held' = file.held
    /\ up' = TRUE
    /\ UNCHANGED <<lock, pc, file, clean>>

-----------------------------------------------------------------------------

NextFreePacketID(c) ==
    \/ Call(c)
    \/ LockAndBump(c)
    \/ SkipZero(c)
    \/ Taken(c)
    \/ MarkAndUnlock(c)
    \/ Return(c)

Next ==
    \/ \E c \in Callers : NextFreePacketID(c)
    \/ \E c \in Callers, id \in Ids : ReleasePacketID(c, id) \/ Abandon(c, id)
    \/ \E id \in ForeignIds : ReleaseForeign(id)
    \/ Persist
    \/ Crash
    \/ Load

Spec == Init /\ [][Next]_vars

(* A goroutine that is inside NextFreePacketID goes on, and sync.Mutex lets *)
(* no waiter starve.  Nothing makes a caller call, a client acknowledge or *)
(* the process stop, crash or start.                                       *)
FairSpec ==
    /\ Spec
    /\ \A c \in Callers :
          /\ SF_vars(LockAndBump(c))
          /\ WF_vars(SkipZero(c) \/ Taken(c) \/ MarkAndUnlock(c) \/ Return(c))

-----------------------------------------------------------------------------

Record == [next : Ids, inFlight : SUBSET Ids, held : [Callers -> SUBSET Ids]]

(* The counter stays a uint16 and every variable has its type.             *)
TypeOK ==
    /\ nextFreePkgID \in Ids
    /\ inFlight \in SUBSET Ids
    /\ lock \in Callers \cup {NoOne}
    /\ pc \in [Callers -> {"idle", "waiting", "bumped", "probe", "return"}]
    /\ held \in [Callers -> SUBSET Ids]
    /\ file \in Record
    /\ up \in BOOLEAN
    /\ clean \in BOOLEAN

(* Two holders never use the same packet id, and an id in use is one the   *)
(* manager knows to be in flight, so it will not be handed out again: what *)
(* "ensures their uniqueness" (idmanager.go:12) promises of                *)
(* NextFreePacketID and ReleasePacketID.                                   *)
UniqueIds ==
    /\ \A c, d \in Callers : c # d => held[c] \cap held[d] = {}
    /\ \A c \in Callers : held[c] \subseteq inFlight

(* The usage for which the code keeps that promise: as long as no call of  *)
(* NextFreePacketID started while another was in progress, and no PUBACK   *)
(* released an id from another publisher's id space, ids are unique, also  *)
(* after the counter wrapped, ids were abandoned and the server restarted. *)
UniqueWhenSerial == clean => UniqueIds

(* The wraparound code of NextFreePacketID never reserves id zero, however *)
(* the calls interleave.                                                   *)
ZeroNeverReserved == 0 \notin inFlight

(* pkgIDLock excludes: the counter is searched by one caller at a time.    *)
Searching(c) == pc[c] \in {"bumped", "probe"}
MutualExclusion == \A c \in Callers : Searching(c) <=> lock = c

(* A call of NextFreePacketID returns, or the process dies: the search     *)
(* over the ids in flight ends and the mutex is released, whatever other   *)
(* callers, releases and restarts do meanwhile.                            *)
CallReturns == \A c \in Callers : Active(c) ~> ~Active(c)
=============================================================================
