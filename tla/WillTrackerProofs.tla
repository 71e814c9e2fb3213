------------------------- MODULE WillTrackerProofs -------------------------
(***************************************************************************)
(* Proofs about WillTracker for every set of wills and every number of     *)
(* overlapping ticks, restarts and crashes, given a storage path: the      *)
(* types; that a timer exists exactly while something is tracked; and,     *)
(* when no tick runs during a shutdown, that no will is dropped before it  *)
(* is acknowledged.                                                        *)
(***************************************************************************)
EXTENDS WillTracker, TLAPS

(* What the steps make of a goroutine's position is a position.            *)
LEMMA IdleType == Idle \in Positions
  BY DEF Positions, Idle

LEMMA ResetType == [Idle EXCEPT !.at = "reset"] \in Positions
  BY DEF Positions, Idle

LEMMA SnapshotType == [Idle EXCEPT !.at = "snapshot"] \in Positions
  BY DEF Positions, Idle

LEMMA NextOfType ==
  ASSUME NEW todo \in SUBSET Wills
  PROVE  NextOf(todo) \in Positions
  BY DEF NextOf, Positions, Idle

LEMMA WaitType ==
  ASSUME NEW todo \in SUBSET Wills, NEW w \in Wills
  PROVE  [at |-> "wait", todo |-> todo, w |-> w] \in Positions
  BY DEF Positions

LEMMA AckedType ==
  ASSUME NEW p \in Positions, p.at = "wait"
  PROVE  /\ [p EXCEPT !.at = "acked"] \in Positions
         /\ p.w \in Wills
  BY DEF Positions

LEMMA TodoType ==
  ASSUME NEW p \in Positions
  PROVE  p.todo \in SUBSET Wills
  BY DEF Positions

(* PublishWill, the ticks, a shutdown, a restart and a crash (server.go:   *)
(* 201-222, 291-413) keep the types; no retained will is ever tracked.     *)
THEOREM TypeCorrect == Spec => []TypeOK
<1>1. Init => TypeOK
  BY BoundsAssumption, IdleType DEF Init, TypeOK
<1>2. TypeOK /\ [Next]_vars => TypeOK'
  <2> SUFFICES ASSUME TypeOK, [Next]_vars PROVE TypeOK'
    OBVIOUS
  <2> USE BoundsAssumption DEF TypeOK
  <2>1. ASSUME NEW w \in Wills, PublishWill(w) \/ PublishWillFails(w) PROVE TypeOK'
    BY <2>1 DEF PublishWill, PublishWillFails, TimerWhenTracking
  <2>2. ASSUME NEW t \in Ticks, TimerFires(t) PROVE TypeOK'
    BY <2>2, ResetType DEF TimerFires, Goes
  <2>3. ASSUME NEW t \in Ticks, TickReset(t) PROVE TypeOK'
    BY <2>3, IdleType, SnapshotType DEF TickReset, TimerAfterReset, Dies, Goes
  <2>4. ASSUME NEW t \in Ticks, TickSnapshot(t) PROVE TypeOK'
    BY <2>4, NextOfType DEF TickSnapshot, Goes
  <2>5. ASSUME NEW t \in Ticks, NEW w \in Wills, Republish(t, w) PROVE TypeOK'
    BY <2>5, TodoType, WaitType DEF Republish, Goes
  <2>6. ASSUME NEW t \in Ticks, NEW w \in Wills, RepublishFails(t, w) PROVE TypeOK'
    BY <2>6, TodoType, NextOfType DEF RepublishFails, Goes
  <2>7. ASSUME NEW t \in Ticks, AckArrives(t) PROVE TypeOK'
    BY <2>7, AckedType DEF AckArrives, Goes
  <2>8. ASSUME NEW t \in Ticks, AckTimeout(t) PROVE TypeOK'
    BY <2>8, TodoType, NextOfType DEF AckTimeout, Goes
  <2>9. ASSUME NEW t \in Ticks, Acked(t) PROVE TypeOK'
    BY <2>9, IdleType, TodoType, NextOfType DEF Acked, StillTracked, Dies, Goes
  <2>10. CASE StopTimer
    BY <2>10 DEF StopTimer
  <2>11. CASE Persist
    BY <2>11 DEF Persist
  <2>12. CASE Serve
    BY <2>12 DEF Serve, Resumed
  <2>13. CASE Crash
    BY <2>13, IdleType DEF Crash, Dies
  <2>14. CASE UNCHANGED vars
    BY <2>14 DEF vars
  <2>15. QED
    BY <2>1, <2>2, <2>3, <2>4, <2>5, <2>6, <2>7, <2>8, <2>9, <2>10, <2>11, <2>12,
       <2>13, <2>14 DEF Next, Tick
<1>3. QED
  BY <1>1, <1>2, PTL DEF Spec

-----------------------------------------------------------------------------

(* The timer is gone once the server stops; what is tracked after that is  *)
(* in the file (given a storage path), which is what makes the restart     *)
(* find the map and the timer in step again.                               *)
TimerInv ==
    /\ TimerRunsWhileTracking
    /\ phase # "up" => timer = "nil"
    /\ phase = "down" => pubAcks \subseteq file
    /\ phase = "dead" => pubAcks = {}

LEMMA TimerInductive ==
  ASSUME Storage = TRUE, TypeOK, TimerInv, [Next]_vars
  PROVE  TimerInv'
<1> USE DEF TimerInv, TimerRunsWhileTracking
<1>1. ASSUME NEW w \in Wills, PublishWill(w) \/ PublishWillFails(w) PROVE TimerInv'
  BY <1>1 DEF PublishWill, PublishWillFails, TimerWhenTracking
<1>2. ASSUME NEW t \in Ticks, TimerFires(t) PROVE TimerInv'
  BY <1>2 DEF TimerFires
<1>3. ASSUME NEW t \in Ticks, TickReset(t) PROVE TimerInv'
  BY <1>3 DEF TickReset, TimerAfterReset, Dies
<1>4. ASSUME NEW t \in Ticks, TickSnapshot(t) \/ AckArrives(t) \/ AckTimeout(t)
      PROVE  TimerInv'
  BY <1>4 DEF TickSnapshot, AckArrives, AckTimeout
<1>5. ASSUME NEW t \in Ticks, NEW w \in Wills, Republish(t, w) \/ RepublishFails(t, w)
      PROVE  TimerInv'
  BY <1>5 DEF Republish, RepublishFails
<1>6. ASSUME NEW t \in Ticks, Acked(t) PROVE TimerInv'
  BY <1>6 DEF Acked, StillTracked, Dies
<1>7. CASE StopTimer
  BY <1>7 DEF StopTimer
<1>8. CASE Persist
  BY <1>8 DEF Persist
<1>9. CASE Serve
  BY <1>9 DEF Serve, Resumed
<1>10. CASE Crash
  BY <1>10 DEF Crash, Dies
<1>11. CASE UNCHANGED vars
  BY <1>11 DEF vars
<1>12. QED
  BY <1>1, <1>2, <1>3, <1>4, <1>5, <1>6, <1>7, <1>8, <1>9, <1>10, <1>11 DEF Next, Tick

(* With a storage path, map and timer come and go together: PublishWill    *)
(* and Resumed start both, the last acknowledgement ends both.             *)
THEOREM TimerFollowsMap ==
  ASSUME Storage = TRUE
  PROVE  Spec => []TimerRunsWhileTracking
<1>1. Init => TimerInv
  BY DEF Init, TimerInv, TimerRunsWhileTracking
<1>2. TypeOK /\ TimerInv /\ [Next]_vars => TimerInv'
  BY TimerInductive
<1>3. TimerInv => TimerRunsWhileTracking
  BY DEF TimerInv
<1>4. QED
  BY <1>1, <1>2, <1>3, TypeCorrect, PTL DEF Spec

-----------------------------------------------------------------------------

(* When a shutdown waits for the ticks, they run only while the bridge     *)
(* serves, so the timer they use is there; and what a tick is about to     *)
(* drop has been answered.                                                 *)
TickInv ==
    /\ phase # "up" => \A t \in Ticks : ticks[t] = Idle
    /\ \A t \in Ticks : ticks[t].at = "acked" => ticks[t].w \in answered

LEMMA NotAcked ==
  ASSUME NEW todo
  PROVE  /\ Idle.at # "acked"
         /\ [Idle EXCEPT !.at = "reset"].at # "acked"
         /\ [Idle EXCEPT !.at = "snapshot"].at # "acked"
         /\ NextOf(todo).at # "acked"
  BY DEF Idle, NextOf

LEMMA TickInductive ==
  ASSUME QuietShutdown = TRUE, TypeOK, TimerInv, TickInv, [Next]_vars
  PROVE  TickInv'
<1> USE DEF TypeOK, TickInv
<1>0. ASSUME NEW t \in Ticks, ticks[t].at # "idle" PROVE phase = "up"
  BY <1>0 DEF Idle
<1>1. ASSUME NEW w \in Wills, PublishWill(w) \/ PublishWillFails(w) PROVE TickInv'
  BY <1>1 DEF PublishWill, PublishWillFails
<1>2. ASSUME NEW t \in Ticks, TimerFires(t) PROVE TickInv'
  BY <1>2, NotAcked DEF TimerFires, Goes, TimerInv
<1>3. ASSUME NEW t \in Ticks, TickReset(t) PROVE TickInv'
  BY <1>3, <1>0, NotAcked DEF TickReset, Dies, Goes
<1>4. ASSUME NEW t \in Ticks, TickSnapshot(t) PROVE TickInv'
  BY <1>4, <1>0, NotAcked DEF TickSnapshot, Goes
<1>5. ASSUME NEW t \in Ticks, NEW w \in Wills, Republish(t, w) PROVE TickInv'
  BY <1>5, <1>0 DEF Republish, Goes
<1>6. ASSUME NEW t \in Ticks, NEW w \in Wills, RepublishFails(t, w) PROVE TickInv'
  BY <1>6, <1>0, NotAcked DEF RepublishFails, Goes
<1>7. ASSUME NEW t \in Ticks, AckArrives(t) PROVE TickInv'
  <2>1. phase' = "up"
    BY <1>7, <1>0 DEF AckArrives
  <2>2. ticks'[t].w \in answered'
    BY <1>7 DEF AckArrives, Goes, Positions
  <2>3. ASSUME NEW u \in Ticks \ {t} PROVE ticks'[u] = ticks[u] /\ answered \subseteq answered'
    BY <1>7 DEF AckArrives, Goes
  <2>4. QED
    BY <2>1, <2>2, <2>3
<1>8. ASSUME NEW t \in Ticks, AckTimeout(t) PROVE TickInv'
  BY <1>8, <1>0, NotAcked DEF AckTimeout, Goes
<1>9. ASSUME NEW t \in Ticks, Acked(t) PROVE TickInv'
  BY <1>9, <1>0, NotAcked DEF Acked, Dies, Goes
<1>10. CASE StopTimer
  BY <1>10, IdleType DEF StopTimer, Positions
<1>11. CASE Persist
  BY <1>11 DEF Persist
<1>12. CASE Serve
  BY <1>12 DEF Serve
<1>13. CASE Crash
  BY <1>13, NotAcked DEF Crash, Dies
<1>14. CASE UNCHANGED vars
  BY <1>14 DEF vars
<1>15. QED
  BY <1>1, <1>2, <1>3, <1>4, <1>5, <1>6, <1>7, <1>8, <1>9, <1>10, <1>11, <1>12,
     <1>13, <1>14 DEF Next, Tick

(* What the bridge read from the file it still tracks, or it is answered,  *)
(* so the next shutdown writes it again.                                   *)
FileInv == phase \in {"up", "stopping"} => file \subseteq pubAcks \cup answered

LEMMA FileInductive ==
  ASSUME Storage = TRUE, TypeOK, TimerInv, TickInv, FileInv, [Next]_vars
  PROVE  FileInv'
<1> USE DEF TypeOK, FileInv
<1>1. ASSUME NEW w \in Wills, PublishWill(w) \/ PublishWillFails(w) PROVE FileInv'
  BY <1>1 DEF PublishWill, PublishWillFails
<1>2. ASSUME NEW t \in Ticks, TickReset(t) PROVE FileInv'
  BY <1>2 DEF TickReset, Dies
<1>3. ASSUME NEW t \in Ticks, Acked(t) PROVE FileInv'
  BY <1>3 DEF Acked, StillTracked, Dies, TickInv
<1>4. ASSUME NEW t \in Ticks, TimerFires(t) \/ TickSnapshot(t) \/ AckArrives(t) \/ AckTimeout(t)
      PROVE  FileInv'
  BY <1>4 DEF TimerFires, TickSnapshot, AckArrives, AckTimeout
<1>5. ASSUME NEW t \in Ticks, NEW w \in Wills, Republish(t, w) \/ RepublishFails(t, w)
      PROVE  FileInv'
  BY <1>5 DEF Republish, RepublishFails
<1>6. CASE StopTimer
  BY <1>6 DEF StopTimer
<1>7. CASE Persist
  BY <1>7 DEF Persist
<1>8. CASE Serve
  BY <1>8 DEF Serve, Resumed
<1>9. CASE Crash
  BY <1>9 DEF Crash, Dies
<1>10. CASE UNCHANGED vars
  BY <1>10 DEF vars
<1>11. QED
  BY <1>1, <1>2, <1>3, <1>4, <1>5, <1>6, <1>7, <1>8, <1>9, <1>10 DEF Next, Tick

(* What one step may do to a tracked will.                                 *)
Kept ==
    \A w \in pubAcks \cup file :
        w \in answered' \/ w \in pubAcks' \cup file' \/ stops'.crashes # stops.crashes

LEMMA StepKeeps ==
  ASSUME Storage = TRUE, TypeOK, TimerInv, TickInv, FileInv, [Next]_vars
  PROVE  Kept
<1> USE DEF TypeOK, Kept
<1>0. ASSUME NEW t \in Ticks, ticks[t].at # "idle", pubAcks # {} PROVE timer # "nil"
  BY <1>0 DEF Idle, TickInv, TimerInv, TimerRunsWhileTracking
<1>1. ASSUME NEW w \in Wills, PublishWill(w) \/ PublishWillFails(w) PROVE Kept
  BY <1>1 DEF PublishWill, PublishWillFails
<1>2. ASSUME NEW t \in Ticks, TickReset(t) PROVE Kept
  BY <1>2, <1>0 DEF TickReset
<1>3. ASSUME NEW t \in Ticks, Acked(t) PROVE Kept
  <2>1. ticks[t].w \in answered
    BY <1>3 DEF Acked, TickInv
  <2>2. pubAcks = {} \/ pubAcks' = pubAcks \ {ticks[t].w}
    BY <1>3, <1>0 DEF Acked, StillTracked
  <2>3. answered' = answered /\ file' = file
    BY <1>3 DEF Acked
  <2>4. QED
    BY <2>1, <2>2, <2>3
<1>4. ASSUME NEW t \in Ticks, TimerFires(t) \/ TickSnapshot(t) \/ AckArrives(t) \/ AckTimeout(t)
      PROVE  Kept
  BY <1>4 DEF TimerFires, TickSnapshot, AckArrives, AckTimeout
<1>5. ASSUME NEW t \in Ticks, NEW w \in Wills, Republish(t, w) \/ RepublishFails(t, w)
      PROVE  Kept
  BY <1>5 DEF Republish, RepublishFails
<1>6. CASE StopTimer
  BY <1>6 DEF StopTimer
<1>7. CASE Persist
  BY <1>7 DEF Persist, FileInv
<1>8. CASE Serve
  BY <1>8 DEF Serve, TimerInv
<1>9. CASE Crash
  BY <1>9, BoundsAssumption DEF Crash
<1>10. CASE UNCHANGED vars
  BY <1>10 DEF vars
<1>11. QED
  BY <1>1, <1>2, <1>3, <1>4, <1>5, <1>6, <1>7, <1>8, <1>9, <1>10 DEF Next, Tick

(* A will "needs to be maintained until an ack is received" (server.go:    *)
(* 321-322), and is, over any number of restarts, given a storage path and *)
(* a shutdown that no tick overlaps.                                       *)
THEOREM WillsAreKept ==
  ASSUME Storage = TRUE, QuietShutdown = TRUE
  PROVE  Spec => TrackedUntilAcked
<1>1. Init => TimerInv /\ TickInv /\ FileInv
  BY DEF Init, TimerInv, TimerRunsWhileTracking, TickInv, FileInv, Idle
<1>2. TypeOK /\ TimerInv /\ [Next]_vars => TimerInv'
  BY TimerInductive
<1>3. TypeOK /\ TimerInv /\ TickInv /\ [Next]_vars => TickInv'
  BY TickInductive
<1>4. TypeOK /\ TimerInv /\ TickInv /\ FileInv /\ [Next]_vars => FileInv'
  BY FileInductive
<1>5. TypeOK /\ TimerInv /\ TickInv /\ FileInv /\ [Next]_vars => [Kept]_vars
  BY StepKeeps
<1>6. QED
  BY <1>1, <1>2, <1>3, <1>4, <1>5, TypeCorrect, PTL DEF Spec, TrackedUntilAcked, Kept
=============================================================================
