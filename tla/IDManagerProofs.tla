-------------------------- MODULE IDManagerProofs --------------------------
(***************************************************************************)
(* Proofs about IDManager for every set of callers and every counter       *)
(* width.  Three invariants are shown: the types; that the wraparound code *)
(* keeps zero out of the reservations under every interleaving; and that   *)
(* ids are unique while calls of NextFreePacketID do not overlap and       *)
(* nothing is released that was not allocated.                             *)
(***************************************************************************)
EXTENDS IDManager, TLAPS

(* Incrementing a uint16 gives a uint16, and only the largest gives zero.  *)
LEMMA WrapType == \A n \in Ids : Wrap(n) \in Ids /\ (Wrap(n) = 0 <=> n = MaxId)
  BY MaxIdAssumption DEF Ids, Wrap

(* Every variable keeps its type, whatever the callers do (idmanager.go).  *)
THEOREM TypeCorrect == Spec => []TypeOK
<1>1. Init => TypeOK
  BY MaxIdAssumption DEF Init, TypeOK, Record, NoFile, Ids
<1>2. TypeOK /\ [Next]_vars => TypeOK'
  <2> SUFFICES ASSUME TypeOK, [Next]_vars PROVE TypeOK'
    OBVIOUS
  <2> USE DEF TypeOK
  <2>1. ASSUME NEW c \in Callers, NextFreePacketID(c) PROVE TypeOK'
    <3>1. CASE Call(c)
      BY <3>1 DEF Call
    <3>2. CASE LockAndBump(c)
      BY <3>2, WrapType DEF LockAndBump
    <3>3. CASE SkipZero(c)
      BY <3>3, WrapType DEF SkipZero, ZeroSkipped
    <3>4. CASE Taken(c)
      BY <3>4, WrapType DEF Taken
    <3>5. CASE MarkAndUnlock(c)
      BY <3>5 DEF MarkAndUnlock
    <3>6. CASE Return(c)
      BY <3>6 DEF Return
    <3>7. QED
      BY <2>1, <3>1, <3>2, <3>3, <3>4, <3>5, <3>6 DEF NextFreePacketID
  <2>2. ASSUME NEW c \in Callers, NEW id \in Ids, ReleasePacketID(c, id)
        PROVE TypeOK'
    BY <2>2 DEF ReleasePacketID
  <2>3. ASSUME NEW c \in Callers, NEW id \in Ids, Abandon(c, id) PROVE TypeOK'
    BY <2>3 DEF Abandon
  <2>4. ASSUME NEW id \in ForeignIds, ReleaseForeign(id) PROVE TypeOK'
    BY <2>4 DEF ReleaseForeign
  <2>5. CASE Persist
    BY <2>5 DEF Persist, Snapshot, Record
  <2>6. CASE Crash
    BY <2>6 DEF Crash
  <2>7. CASE Load
    BY <2>7 DEF Load, Record
  <2>8. CASE UNCHANGED vars
    BY <2>8 DEF vars
  <2>9. QED
    BY <2>1, <2>2, <2>3, <2>4, <2>5, <2>6, <2>7, <2>8 DEF Next
<1>3. QED
  BY <1>1, <1>2, PTL DEF Spec

-----------------------------------------------------------------------------

(* What keeps zero out: only the holder of the mutex moves the counter, so *)
(* a candidate that passed the test for zero is still not zero when it is  *)
(* reserved; and the file holds what was reserved.                         *)
ZeroInv ==
    /\ TypeOK
    /\ MutualExclusion
    /\ \A c \in Callers : pc[c] = "probe" => nextFreePkgID # 0
    /\ 0 \notin inFlight
    /\ 0 \notin file.inFlight
    /\ ~up => \A c \in Callers : pc[c] = "idle"

LEMMA ZeroInvInit == Init => ZeroInv
  BY MaxIdAssumption, NoOneAssumption
  DEF Init, ZeroInv, TypeOK, Record, NoFile, Ids, MutualExclusion, Searching

LEMMA ZeroInvStep == TypeOK' /\ ZeroInv /\ [Next]_vars => ZeroInv'
<1> SUFFICES ASSUME TypeOK', ZeroInv, [Next]_vars PROVE ZeroInv'
  OBVIOUS
<1> USE NoOneAssumption DEF ZeroInv, TypeOK, MutualExclusion, Searching
<1>1. ASSUME NEW c \in Callers, Call(c) PROVE ZeroInv'
  BY <1>1 DEF Call
<1>2. ASSUME NEW c \in Callers, LockAndBump(c) PROVE ZeroInv'
  BY <1>2 DEF LockAndBump
<1>3. ASSUME NEW c \in Callers, SkipZero(c) PROVE ZeroInv'
  <2>1. nextFreePkgID' # 0
    BY <1>3, WrapType, MaxIdAssumption DEF SkipZero, ZeroSkipped, Ids
  <2>2. QED
    BY <1>3, <2>1 DEF SkipZero
<1>4. ASSUME NEW c \in Callers, Taken(c) PROVE ZeroInv'
  BY <1>4 DEF Taken
<1>5. ASSUME NEW c \in Callers, MarkAndUnlock(c) PROVE ZeroInv'
  BY <1>5 DEF MarkAndUnlock
<1>6. ASSUME NEW c \in Callers, Return(c) PROVE ZeroInv'
  BY <1>6 DEF Return
<1>7. ASSUME NEW c \in Callers, NEW id \in Ids, ReleasePacketID(c, id)
      PROVE ZeroInv'
  BY <1>7 DEF ReleasePacketID
<1>8. ASSUME NEW c \in Callers, NEW id \in Ids, Abandon(c, id) PROVE ZeroInv'
  BY <1>8 DEF Abandon
<1>9. ASSUME NEW id \in ForeignIds, ReleaseForeign(id) PROVE ZeroInv'
  BY <1>9 DEF ReleaseForeign
<1>10. CASE Persist
  BY <1>10 DEF Persist, Snapshot, Active
<1>11. CASE Crash
  BY <1>11 DEF Crash
<1>12. CASE Load
  BY <1>12 DEF Load
<1>13. CASE UNCHANGED vars
  BY <1>13 DEF vars
<1>14. QED
  BY <1>1, <1>2, <1>3, <1>4, <1>5, <1>6, <1>7, <1>8, <1>9, <1>10, <1>11, <1>12,
     <1>13 DEF Next, NextFreePacketID

(* Zero, which MQTT reserves for "no packet id", is never put in flight:   *)
(* however calls, releases, crashes and restarts interleave.               *)
THEOREM ZeroStaysFree == Spec => []ZeroNeverReserved
<1>1. ZeroInv => ZeroNeverReserved
  BY DEF ZeroInv, ZeroNeverReserved
<1>2. QED
  BY TypeCorrect, ZeroInvInit, ZeroInvStep, <1>1, PTL DEF Spec

-----------------------------------------------------------------------------

(* What keeps ids unique when calls do not overlap: between the unlock and *)
(* the unlocked read in the return statement nobody moves the counter, so  *)
(* the value returned is the one just reserved, and nobody holds it.  The  *)
(* file, from which holders and reservations both come back, agrees.       *)
Consistent(h, reserved) ==
    /\ \A c, d \in Callers : c # d => h[c] \cap h[d] = {}
    /\ \A c \in Callers : h[c] \subseteq reserved

Serial == \A c, d \in Callers : Active(c) /\ Active(d) => c = d

SerialInv ==
    /\ TypeOK
    /\ MutualExclusion
    /\ ~up => \A c \in Callers : pc[c] = "idle"
    /\ clean =>
          /\ Serial
          /\ Consistent(held, inFlight)
          /\ Consistent(file.held, file.inFlight)
          /\ \A c \in Callers : pc[c] = "return" =>
                /\ nextFreePkgID \in inFlight
                /\ \A d \in Callers : nextFreePkgID \notin held[d]

LEMMA SerialInvInit == Init => SerialInv
  BY MaxIdAssumption, NoOneAssumption
  DEF Init, SerialInv, TypeOK, Record, NoFile, Ids, MutualExclusion, Searching,
      Serial, Active, Consistent

LEMMA SerialInvStep == TypeOK' /\ SerialInv /\ [Next]_vars => SerialInv'
<1> SUFFICES ASSUME TypeOK', SerialInv, [Next]_vars PROVE SerialInv'
  OBVIOUS
<1> USE NoOneAssumption
    DEF SerialInv, TypeOK, MutualExclusion, Searching, Serial, Active, Consistent
<1>1. ASSUME NEW c \in Callers, Call(c) PROVE SerialInv'
  <2>1. MutualExclusion' /\ (~up => \A d \in Callers : pc[d] = "idle")'
    BY <1>1 DEF Call
  <2>2. ASSUME clean' PROVE Serial'
    <3>1. \A d \in Callers : pc[d] = "idle"
      BY <1>1, <2>2 DEF Call
    <3>2. \A d \in Callers \ {c} : pc'[d] = "idle"
      BY <1>1, <3>1 DEF Call
    <3>3. QED
      BY <3>2 DEF Serial, Active
  <2>3. ASSUME clean'
        PROVE  /\ Consistent(held, inFlight)' /\ Consistent(file.held, file.inFlight)'
               /\ \A d \in Callers : pc'[d] = "return" =>
                     /\ nextFreePkgID' \in inFlight'
                     /\ \A e \in Callers : nextFreePkgID' \notin held'[e]
    BY <1>1, <2>3 DEF Call
  <2>4. QED
    BY <2>1, <2>2, <2>3
<1>2. ASSUME NEW c \in Callers, LockAndBump(c) PROVE SerialInv'
  BY <1>2 DEF LockAndBump
<1>3. ASSUME NEW c \in Callers, SkipZero(c) PROVE SerialInv'
  BY <1>3 DEF SkipZero
<1>4. ASSUME NEW c \in Callers, Taken(c) PROVE SerialInv'
  BY <1>4 DEF Taken
<1>5. ASSUME NEW c \in Callers, MarkAndUnlock(c) PROVE SerialInv'
  BY <1>5 DEF MarkAndUnlock
<1>6. ASSUME NEW c \in Callers, Return(c) PROVE SerialInv'
  BY <1>6 DEF Return
<1>7. ASSUME NEW c \in Callers, NEW id \in Ids, ReleasePacketID(c, id)
      PROVE SerialInv'
  BY <1>7 DEF ReleasePacketID
<1>8. ASSUME NEW c \in Callers, NEW id \in Ids, Abandon(c, id)
      PROVE SerialInv'
  BY <1>8 DEF Abandon
<1>9. ASSUME NEW id \in ForeignIds, ReleaseForeign(id) PROVE SerialInv'
  BY <1>9 DEF ReleaseForeign
<1>10. CASE Persist
  BY <1>10 DEF Persist, Snapshot
<1>11. CASE Crash
  BY <1>11 DEF Crash
<1>12. CASE Load
  BY <1>12 DEF Load
<1>13. CASE UNCHANGED vars
  BY <1>13 DEF vars
<1>14. QED
  BY <1>1, <1>2, <1>3, <1>4, <1>5, <1>6, <1>7, <1>8, <1>9, <1>10, <1>11, <1>12,
     <1>13 DEF Next, NextFreePacketID

(* NewIDManager and NextFreePacketID keep the promise of idmanager.go:12   *)
(* for any number of callers and any counter width, until calls overlap or *)
(* a PUBACK releases an id that came from another publisher's id space.    *)
THEOREM SerialCallsGetUniqueIds == Spec => []UniqueWhenSerial
<1>1. SerialInv => UniqueWhenSerial
  BY DEF SerialInv, Consistent, UniqueIds, UniqueWhenSerial
<1>2. QED
  BY TypeCorrect, SerialInvInit, SerialInvStep, <1>1, PTL DEF Spec
=============================================================================
