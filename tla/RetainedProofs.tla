--------------------------- MODULE RetainedProofs ---------------------------
(***************************************************************************)
(* Proofs about Retained for all sets of topics, publishers and            *)
(* subscribers, any number of messages, restarts and crashes: every        *)
(* variable has its type, the map of retained messages and their order     *)
(* agree, and a subscriber misses neither a retained message nor its       *)
(* removal, however lookups and publishes interleave.                      *)
(***************************************************************************)
EXTENDS Retained, FiniteSetTheorems, SequenceTheorems, TLAPS

Subscription == [at : {"away", "lookup", "send"}, f : SUBSET Topics,
                 known : BOOLEAN, early : BOOLEAN, todo : Seq(Messages)]

(* A store holds messages under their own topics, none of them empty, and  *)
(* its order agrees with its map.                                          *)
StoreOK(ms, o) ==
    /\ DOMAIN ms \subseteq Topics /\ o \in Seq(Topics) /\ Agrees(ms, o)
    /\ \A t \in DOMAIN ms : ms[t] \in Messages /\ ms[t].t = t /\ ~ms[t].empty

(* The types, with what they need: the stores in memory and in the file.   *)
TypeInv ==
    /\ StoreOK(msgs, order) /\ StoreOK(file.msgs, file.order)
    /\ pub \in [Publishers -> {Ready} \cup [at : {"publish", "retain"}, m : Messages]]
    /\ sub \in [Subscribers -> Subscription]
    /\ inbox \in [Subscribers -> Seq(Messages)]
    /\ received \in [Subscribers -> SUBSET [m : Messages, how : {"retained", "live"}]]
    /\ sent \in 0..MaxMsgs
    /\ failed \subseteq Messages
    /\ stops \in 0..MaxStops

(* What a subscriber was, or is yet to be, sent of the retained messages.  *)
Given(s) == {sub[s].todo[i] : i \in DOMAIN sub[s].todo}
            \cup {r.m : r \in {x \in received[s] : x.how = "retained"}}

(* A subscriber is given what it asked for, after its lookup.              *)
GivenOK(s) ==
    /\ sub[s].early => sub[s].known /\ sub[s].at = "send"
    /\ sub[s].at # "send" => Given(s) = {}
    /\ \A m \in Given(s) : m.t \in sub[s].f /\ m.n <= sent

(* Messages are numbered up to the last one published; only wills are      *)
(* published before they are stored.                                       *)
NumberInv ==
    /\ \A t \in DOMAIN msgs : msgs[t].n <= sent
    /\ \A t \in DOMAIN file.msgs : file.msgs[t].n <= sent
    /\ \A p \in Publishers : pub[p] # Ready => pub[p].m.n <= sent
    /\ \A p \in Publishers : pub[p].at = "retain" => pub[p].m.t \in WillTopics
    /\ \A s \in Subscribers : GivenOK(s)

(* A message that was stored and is not yet, or never, published; one that *)
(* NATS delivers, or has delivered, to a subscriber.                       *)
Pending(m) == m \in failed \/ \E p \in Publishers : pub[p].at = "publish" /\ pub[p].m = m
Reaches(s, m) == \/ \E i \in DOMAIN inbox[s] : inbox[s][i] = m
                 \/ \E r \in received[s] : r.m = m
Coming(s, m) == Pending(m) \/ Reaches(s, m)

(* Whose subscription NATS knew before the lookup was given each retained  *)
(* message or has it coming; and of each it was given that is retained no  *)
(* more, the empty message that dropped it is coming.                      *)
Stored(t) == t \in DOMAIN msgs
NoneMissed(s) == \A t \in sub[s].f \ WillTopics :
    Stored(t) => Coming(s, msgs[t]) \/ msgs[t] \in Given(s)
DropComes(s, m) ==
    \E e \in Messages : e.empty /\ e.t = m.t /\ e.n > m.n /\ Coming(s, e)
DropsHeard(s) == \A m \in Given(s) : m.t \notin WillTopics /\ ~Stored(m.t) => DropComes(s, m)
RaceInv == \A s \in Subscribers : sub[s].early => NoneMissed(s) /\ DropsHeard(s)

-----------------------------------------------------------------------------

(* retained.add appends a topic only if no message is retained for it.     *)
LEMMA AddAgrees ==
  ASSUME order \in Seq(Topics), Agrees(msgs, order), NEW m, m.t \in Topics, Add(m)
  PROVE  order' \in Seq(Topics) /\ Agrees(msgs', order')
<1>1. DOMAIN msgs' = DOMAIN msgs \cup {m.t}
  BY DEF Add
<1>2. CASE m.t \in DOMAIN msgs
  BY <1>1, <1>2 DEF Add, Appended, Agrees
<1>3. CASE m.t \notin DOMAIN msgs
  <2>1. order' = Append(order, m.t)
    BY <1>3 DEF Add, Appended
  <2>2. /\ order' \in Seq(Topics)
        /\ Len(order') = Len(order) + 1
        /\ order'[Len(order) + 1] = m.t
        /\ \A i \in 1..Len(order) : order'[i] = order[i]
    BY <2>1
  <2>3. Agrees(msgs', order')
    BY <1>1, <1>3, <2>2 DEF Agrees
  <2>4. QED
    BY <2>2, <2>3
<1>4. QED
  BY <1>2, <1>3

(* retained.drop closes the gap the dropped topic leaves.                  *)
LEMMA DropAgrees ==
  ASSUME order \in Seq(Topics), Agrees(msgs, order), NEW t, Drop(t)
  PROVE  order' \in Seq(Topics) /\ Agrees(msgs', order')
<1>1. CASE t \notin DOMAIN msgs
  BY <1>1 DEF Drop, store
<1>2. CASE t \in DOMAIN msgs
  <2>1. DOMAIN msgs' = DOMAIN msgs \ {t}
    BY <1>2 DEF Drop
  <2>2. PICK i \in 1..Len(order) : order[i] = t /\ order' = ShiftedOut(i)
    BY <1>2 DEF Drop
  <2>3. /\ order' \in Seq(Topics)
        /\ Len(order') = Len(order) - 1
        /\ \A j \in 1..Len(order') : order'[j] = IF j < i THEN order[j] ELSE order[j + 1]
    <3>1. Len(order) \in Nat /\ Len(order) - 1 \in Nat
      OBVIOUS
    <3>2. \A j \in 1..(Len(order) - 1) :
            (IF j < i THEN order[j] ELSE order[j + 1]) \in Topics
      OBVIOUS
    <3> DEFINE shifted == [j \in 1..(Len(order) - 1) |->
                              IF j < i THEN order[j] ELSE order[j + 1]]
    <3>3. shifted \in Seq(Topics) /\ Len(shifted) = Len(order) - 1
      BY <3>1, <3>2
    <3>4. QED
      BY <2>2, <3>1, <3>3 DEF ShiftedOut
  <2>4. \A j, k \in 1..Len(order') : order'[j] = order'[k] => j = k
    <3> SUFFICES ASSUME NEW j \in 1..Len(order'), NEW k \in 1..Len(order'),
                        order'[j] = order'[k]
                 PROVE  j = k
      OBVIOUS
    <3> DEFINE old(n) == IF n < i THEN n ELSE n + 1
    <3>0. Len(order) \in Nat
      OBVIOUS
    <3>1. ASSUME NEW n \in 1..Len(order')
          PROVE  old(n) \in 1..Len(order) /\ order'[n] = order[old(n)]
      <4>1. CASE n < i
        BY <2>3, <3>0, <4>1
      <4>2. CASE ~(n < i)
        BY <2>3, <3>0, <4>2
      <4>3. QED
        BY <4>1, <4>2
    <3>2. old(j) = old(k)
      <4> HIDE DEF old
      <4>1. QED
        BY <3>1 DEF Agrees
    <3>3. QED
      BY <3>2
  <2>5. {order'[j] : j \in 1..Len(order')} \subseteq DOMAIN msgs \ {t}
    BY <2>2, <2>3 DEF Agrees
  <2>6. ASSUME NEW u \in DOMAIN msgs \ {t} PROVE \E j \in 1..Len(order') : order'[j] = u
    <3>1. PICK k \in 1..Len(order) : order[k] = u
      BY DEF Agrees
    <3>2. CASE k < i
      BY <2>2, <2>3, <3>1, <3>2
    <3>3. CASE k > i
      <4>1. k - 1 \in 1..Len(order') /\ order'[k - 1] = u
        BY <2>2, <2>3, <3>1, <3>3
      <4>2. QED
        BY <4>1
    <3>4. QED
      BY <2>2, <3>1, <3>2, <3>3
  <2>7. DOMAIN msgs' = {order'[j] : j \in 1..Len(order')}
    BY <2>1, <2>5, <2>6
  <2>8. QED
    BY <2>3, <2>4, <2>7 DEF Agrees
<1>3. QED
  BY <1>1, <1>2

(* What HandleRetain does to the store: nothing to other topics.           *)
Retains(m) ==
    /\ \A t : t # m.t => /\ Stored(t)' <=> Stored(t)
                         /\ Stored(t) => msgs'[t] = msgs[t]
    /\ Stored(m.t)' <=> ~m.empty
    /\ ~m.empty => msgs'[m.t] = m

LEMMA HandleRetainStores ==
  ASSUME StoreOK(msgs, order), NEW m \in Messages, HandleRetain(m)
  PROVE  StoreOK(msgs', order') /\ Retains(m)
<1>0. m.t \in Topics /\ m.empty \in BOOLEAN /\ order \in Seq(Topics) /\ Agrees(msgs, order)
  BY DEF Messages, StoreOK
<1>1. CASE ~m.empty
  <2>1. Add(m)
    BY <1>1 DEF HandleRetain
  <2>2. order' \in Seq(Topics) /\ Agrees(msgs', order')
    BY <1>0, <2>1, AddAgrees
  <2>3. msgs' = [t \in DOMAIN msgs \cup {m.t} |-> IF t = m.t THEN m ELSE msgs[t]]
    BY <2>1 DEF Add
  <2>4. QED
    BY <1>0, <1>1, <2>2, <2>3 DEF StoreOK, Retains, Stored
<1>2. CASE m.empty
  <2>1. Drop(m.t)
    BY <1>2 DEF HandleRetain
  <2>2. order' \in Seq(Topics) /\ Agrees(msgs', order')
    BY <1>0, <2>1, DropAgrees
  <2>3. CASE m.t \in DOMAIN msgs
    <3>1. msgs' = [u \in DOMAIN msgs \ {m.t} |-> msgs[u]]
      BY <2>1, <2>3 DEF Drop
    <3>2. QED
      BY <1>0, <1>2, <2>2, <3>1 DEF StoreOK, Retains, Stored
  <2>4. CASE m.t \notin DOMAIN msgs
    <3>1. msgs' = msgs /\ order' = order
      BY <2>1, <2>4 DEF Drop, store
    <3>2. QED
      BY <1>2, <2>4, <3>1 DEF StoreOK, Retains, Stored
  <2>5. QED
    BY <2>3, <2>4
<1>3. QED
  BY <1>1, <1>2

(* matchingMessages finds exactly the retained messages of the topics the  *)
(* filter matches: the visit is increasing, so it misses no position.      *)
LEMMA MatchingFinds ==
  ASSUME StoreOK(msgs, order), NEW s, NEW v \in Visits(s)
  PROVE  /\ Matching(v) \in Seq(Messages)
         /\ {Matching(v)[i] : i \in DOMAIN Matching(v)}
               = {msgs[t] : t \in {u \in DOMAIN msgs : u \in sub[s].f}}
<1> DEFINE H == Hits(s)
           n == Cardinality(H)
<1>1. Len(order) \in Nat /\ H \subseteq 1..Len(order)
  BY DEF Hits, StoreOK
<1>2. IsFiniteSet(H) /\ n \in Nat
  <2>1. IsFiniteSet(1..Len(order))
    BY <1>1, FS_Interval
  <2>2. IsFiniteSet(H)
    BY <1>1, <2>1, FS_Subset
  <2>3. QED
    BY <2>2, FS_CardinalityType
<1>3. v \in [1..n -> H] /\ \A i, j \in 1..n : i < j => v[i] < v[j]
  BY DEF Visits
<1>4. IsFiniteSet(1..n) /\ Cardinality(1..n) = n
  BY <1>2, FS_Interval
<1> HIDE DEF H, n
<1>5. \A i, j \in 1..n : v[i] = v[j] => i = j
  <2> SUFFICES ASSUME NEW i \in 1..n, NEW j \in 1..n, v[i] = v[j], i # j PROVE FALSE
    OBVIOUS
  <2>1. v[i] \in Nat /\ i \in Nat /\ j \in Nat
    <3>1. v[i] \in H
      BY <1>3
    <3>2. v[i] \in 1..Len(order)
      BY <1>1, <3>1
    <3>3. QED
      BY <1>1, <1>2, <3>2
  <2>2. i < j \/ j < i
    BY <2>1
  <2>3. v[i] < v[i]
    BY <1>3, <2>2
  <2>4. QED
    BY <2>1, <2>3
<1>6. v \in Injection(1..n, H)
  BY <1>3, <1>5 DEF Injection, IsInjective
<1>7. v \in Surjection(1..n, H)
  <2>1. Cardinality(1..n) = Cardinality(H)
    BY <1>4 DEF n
  <2>2. QED
    BY <1>2, <1>6, <2>1, FS_Injection
<1>8. \A h \in H : \E i \in 1..n : v[i] = h
  BY <1>7 DEF Surjection
<1>9. \A i \in 1..n : order[v[i]] \in DOMAIN msgs /\ order[v[i]] \in sub[s].f
  BY <1>1, <1>3 DEF H, Hits, StoreOK, Agrees
<1>10. DOMAIN Matching(v) = 1..n /\ \A i \in 1..n : Matching(v)[i] = msgs[order[v[i]]]
  BY <1>3 DEF Matching
<1>11. Matching(v) \in Seq(Messages)
  <2>1. Matching(v) \in [1..n -> Messages]
    BY <1>3, <1>9 DEF Matching, StoreOK
  <2>2. QED
    BY <1>2, <2>1, SeqDef
<1>12. ASSUME NEW t \in DOMAIN msgs, t \in sub[s].f
       PROVE  \E i \in 1..n : Matching(v)[i] = msgs[t]
  <2>1. PICK h \in 1..Len(order) : order[h] = t
    BY DEF StoreOK, Agrees
  <2>2. h \in H
    BY <1>12, <2>1 DEF H, Hits
  <2>3. QED
    BY <1>8, <1>10, <2>1, <2>2
<1>13. QED
  BY <1>9, <1>10, <1>11, <1>12

(* A message a publisher reads.                                            *)
LEMMA NewMessage ==
  ASSUME TypeInv, NEW t \in Topics, NEW empty \in BOOLEAN, sent < MaxMsgs, sent' = sent + 1
  PROVE  [t |-> t, n |-> sent + 1, empty |-> empty] \in Messages /\ sent' \in 0..MaxMsgs
BY BoundsAssumption DEF TypeInv, Messages

LEMMA DeliverTypes ==
  ASSUME TypeInv, NEW m \in Messages, Deliver(m)
  PROVE  inbox' \in [Subscribers -> Seq(Messages)]
<1>1. inbox \in [Subscribers -> Seq(Messages)]
  BY DEF TypeInv
<1>2. \A s \in Subscribers : Append(inbox[s], m) \in Seq(Messages)
  BY <1>1, AppendProperties
<1>3. QED
  BY <1>1, <1>2 DEF Deliver

LEMMA QueueTypes ==
  ASSUME TypeInv, NEW s \in Subscribers, NEW m \in Messages, NEW how \in {"retained", "live"},
         Queue(s, m, how)
  PROVE  received' \in [Subscribers -> SUBSET [m : Messages, how : {"retained", "live"}]]
<1> DEFINE R == [m : Messages, how : {"retained", "live"}]
           r == [m |-> m, how |-> how]
<1>1. r \in R
  OBVIOUS
<1>2. received \in [Subscribers -> SUBSET R]
  BY DEF TypeInv
<1>3. received' = [received EXCEPT ![s] = @ \cup {r}]
  BY DEF Queue
<1> HIDE DEF R, r
<1>4. received' \in [Subscribers -> SUBSET R]
  BY <1>1, <1>2, <1>3
<1>5. QED
  BY <1>4 DEF R

(* What publishers do.                                                     *)
PublisherSteps(p) ==
    \/ \E t \in Topics, empty \in BOOLEAN : ReadPublish(p, t, empty) \/ PublishWill(p, t, empty)
    \/ NatsPublish(p) \/ NatsPublishFails(p) \/ RetainWill(p)

LEMMA PublisherTypes ==
  ASSUME TypeInv, NEW p \in Publishers, PublisherSteps(p)
  PROVE  TypeInv'
<1> DEFINE Busy == [at : {"publish", "retain"}, m : Messages]
<1>0. pub \in [Publishers -> {Ready} \cup Busy] /\ StoreOK(msgs, order)
  BY DEF TypeInv
<1>1. ASSUME NEW t \in Topics, NEW empty \in BOOLEAN, ReadPublish(p, t, empty)
      PROVE  TypeInv'
  <2> DEFINE m == [t |-> t, n |-> sent + 1, empty |-> empty]
  <2>1. /\ sent < MaxMsgs /\ sent' = sent + 1 /\ HandleRetain(m)
        /\ pub' = [pub EXCEPT ![p] = [at |-> "publish", m |-> m]]
        /\ UNCHANGED <<inbox, sub, received, file, failed, stops>>
    BY <1>1 DEF ReadPublish, StoreFirst
  <2>2. m \in Messages /\ sent' \in 0..MaxMsgs
    BY <2>1, NewMessage
  <2> HIDE DEF m
  <2>3. StoreOK(msgs', order')
    BY <1>0, <2>1, <2>2, HandleRetainStores
  <2>4. pub' \in [Publishers -> {Ready} \cup Busy]
    BY <1>0, <2>1, <2>2
  <2>5. QED
    BY <2>1, <2>2, <2>3, <2>4 DEF TypeInv
<1>2. ASSUME NEW t \in Topics, NEW empty \in BOOLEAN, PublishWill(p, t, empty)
      PROVE  TypeInv'
  <2> DEFINE m == [t |-> t, n |-> sent + 1, empty |-> empty]
  <2>1. /\ sent < MaxMsgs /\ sent' = sent + 1 /\ Deliver(m)
        /\ pub' = [pub EXCEPT ![p] = [at |-> "retain", m |-> m]]
        /\ UNCHANGED <<msgs, order, sub, received, file, failed, stops>>
    BY <1>2 DEF PublishWill, PublishFirst, store
  <2>2. m \in Messages /\ sent' \in 0..MaxMsgs
    BY <2>1, NewMessage
  <2> HIDE DEF m
  <2>3. inbox' \in [Subscribers -> Seq(Messages)]
    BY <2>1, <2>2, DeliverTypes
  <2>4. pub' \in [Publishers -> {Ready} \cup Busy]
    BY <1>0, <2>1, <2>2
  <2>5. QED
    BY <2>1, <2>2, <2>3, <2>4 DEF TypeInv
<1>3. CASE NatsPublish(p)
  <2>1. /\ pub[p].m \in Messages /\ Deliver(pub[p].m) /\ pub' = [pub EXCEPT ![p] = Ready]
        /\ UNCHANGED <<msgs, order, sub, received, file, sent, failed, stops>>
    BY <1>0, <1>3 DEF NatsPublish, Ready
  <2>2. inbox' \in [Subscribers -> Seq(Messages)]
    BY <2>1, DeliverTypes
  <2>3. pub' \in [Publishers -> {Ready} \cup Busy]
    BY <1>0, <2>1
  <2>4. QED
    BY <2>1, <2>2, <2>3 DEF TypeInv
<1>4. CASE NatsPublishFails(p)
  <2>1. /\ pub[p].m \in Messages /\ failed' = failed \cup {pub[p].m}
        /\ pub' = [pub EXCEPT ![p] = Ready]
        /\ UNCHANGED <<msgs, order, sub, inbox, received, file, sent, stops>>
    BY <1>0, <1>4 DEF NatsPublishFails, Ready
  <2>2. pub' \in [Publishers -> {Ready} \cup Busy]
    BY <1>0, <2>1
  <2>3. QED
    BY <2>1, <2>2 DEF TypeInv
<1>5. CASE RetainWill(p)
  <2>1. /\ pub[p].m \in Messages /\ HandleRetain(pub[p].m) /\ pub' = [pub EXCEPT ![p] = Ready]
        /\ UNCHANGED <<sub, inbox, received, file, sent, failed, stops>>
    BY <1>0, <1>5 DEF RetainWill, Ready
  <2>2. StoreOK(msgs', order')
    BY <1>0, <2>1, HandleRetainStores
  <2>3. pub' \in [Publishers -> {Ready} \cup Busy]
    BY <1>0, <2>1
  <2>4. QED
    BY <2>1, <2>2, <2>3 DEF TypeInv
<1>6. QED
  BY <1>1, <1>2, <1>3, <1>4, <1>5 DEF PublisherSteps

(* What subscribers do: one of them changes.                               *)
SubscriberSteps(s) ==
    \/ \E f \in SUBSET Topics : Subscribe(s, f)
    \/ SubscriptionArrives(s) \/ FindMatching(s) \/ SendRetained(s)
    \/ NatsResponse(s) \/ Leave(s)

LEMMA AwayTypes == Away \in Subscription
BY EmptySeq DEF Away, Subscription

LEMMA SubscriberTypes ==
  ASSUME TypeInv, NEW s \in Subscribers, SubscriberSteps(s)
  PROVE  TypeInv'
<1>0. /\ sub \in [Subscribers -> Subscription] /\ sub[s] \in Subscription
      /\ inbox \in [Subscribers -> Seq(Messages)] /\ inbox[s] \in Seq(Messages)
      /\ received \in [Subscribers -> SUBSET [m : Messages, how : {"retained", "live"}]]
      /\ Away \in Subscription /\ StoreOK(msgs, order)
  BY AwayTypes DEF TypeInv
<1>1. /\ UNCHANGED <<msgs, order, pub, file, sent, failed, stops>>
  BY DEF SubscriberSteps, Subscribe, SubscriptionArrives, FindMatching, SendRetained,
         NatsResponse, Leave
<1>2. ASSUME NEW f \in SUBSET Topics, Subscribe(s, f)
      PROVE  TypeInv'
  <2>1. sub' = [sub EXCEPT ![s] = [Away EXCEPT !.at = "lookup", !.f = f]]
        /\ UNCHANGED <<inbox, received>>
    BY <1>2 DEF Subscribe
  <2>2. [Away EXCEPT !.at = "lookup", !.f = f] \in Subscription
    BY EmptySeq DEF Away, Subscription
  <2>3. sub' \in [Subscribers -> Subscription]
    BY <1>0, <2>1, <2>2
  <2>4. QED
    BY <1>1, <2>1, <2>3 DEF TypeInv
<1>3. CASE SubscriptionArrives(s)
  <2>1. sub' = [sub EXCEPT ![s].known = TRUE] /\ UNCHANGED <<inbox, received>>
    BY <1>3 DEF SubscriptionArrives
  <2>2. sub' \in [Subscribers -> Subscription]
    BY <1>0, <2>1 DEF Subscription
  <2>3. QED
    BY <1>1, <2>1, <2>2 DEF TypeInv
<1>4. CASE FindMatching(s)
  <2>1. PICK v \in Visits(s) : sub' = [sub EXCEPT ![s].at = "send", ![s].todo = Matching(v),
                                                  ![s].early = sub[s].known]
    BY <1>4 DEF FindMatching
  <2>2. Matching(v) \in Seq(Messages) /\ UNCHANGED <<inbox, received>>
    BY <1>0, <1>4, MatchingFinds DEF FindMatching
  <2>3. sub' \in [Subscribers -> Subscription]
    BY <1>0, <2>1, <2>2 DEF Subscription
  <2>4. QED
    BY <1>1, <2>2, <2>3 DEF TypeInv
<1>5. CASE SendRetained(s)
  <2>1. sub[s].todo \in Seq(Messages) /\ sub[s].todo # <<>> /\ inbox' = inbox
        /\ Queue(s, Head(sub[s].todo), "retained") /\ sub' = [sub EXCEPT ![s].todo = Tail(@)]
    BY <1>0, <1>5 DEF SendRetained, Subscription
  <2>2. Head(sub[s].todo) \in Messages /\ Tail(sub[s].todo) \in Seq(Messages)
    BY <2>1, HeadTailProperties
  <2>3. received' \in [Subscribers -> SUBSET [m : Messages, how : {"retained", "live"}]]
    BY <2>1, <2>2, QueueTypes
  <2>4. sub' \in [Subscribers -> Subscription]
    BY <1>0, <2>1, <2>2 DEF Subscription
  <2>5. QED
    BY <1>1, <2>1, <2>3, <2>4 DEF TypeInv
<1>6. CASE NatsResponse(s)
  <2>1. inbox[s] # <<>> /\ inbox' = [inbox EXCEPT ![s] = Tail(@)] /\ sub' = sub
        /\ Queue(s, Head(inbox[s]), "live")
    BY <1>6 DEF NatsResponse
  <2>2. Head(inbox[s]) \in Messages /\ Tail(inbox[s]) \in Seq(Messages)
    BY <1>0, <2>1, HeadTailProperties
  <2>3. received' \in [Subscribers -> SUBSET [m : Messages, how : {"retained", "live"}]]
    BY <2>1, <2>2, QueueTypes
  <2>4. inbox' \in [Subscribers -> Seq(Messages)]
    BY <1>0, <2>1, <2>2
  <2>5. QED
    BY <1>1, <2>1, <2>3, <2>4 DEF TypeInv
<1>7. CASE Leave(s)
  <2>1. /\ sub' = [sub EXCEPT ![s] = Away] /\ inbox' = [inbox EXCEPT ![s] = <<>>]
        /\ received' = [received EXCEPT ![s] = {}]
    BY <1>7 DEF Leave
  <2>2. /\ sub' \in [Subscribers -> Subscription] /\ inbox' \in [Subscribers -> Seq(Messages)]
        /\ received' \in [Subscribers -> SUBSET [m : Messages, how : {"retained", "live"}]]
    BY <1>0, <2>1, EmptySeq
  <2>3. QED
    BY <1>1, <2>2 DEF TypeInv
<1>8. QED
  BY <1>2, <1>3, <1>4, <1>5, <1>6, <1>7 DEF SubscriberSteps

LEMMA StopTypes ==
  ASSUME TypeInv, Restart \/ Crash
  PROVE  TypeInv'
<1>1. /\ sub' \in [Subscribers -> Subscription] /\ inbox' \in [Subscribers -> Seq(Messages)]
      /\ received' \in [Subscribers -> SUBSET [m : Messages, how : {"retained", "live"}]]
  <2>1. AllGone
    BY DEF Restart, Crash
  <2>2. <<>> \in Seq(Messages)
    BY EmptySeq
  <2>3. QED
    BY <2>1, <2>2, AwayTypes DEF AllGone
<1>2. /\ stops' \in 0..MaxStops /\ UNCHANGED <<sent, failed>>
  BY BoundsAssumption DEF TypeInv, Restart, Crash
<1>3. /\ StoreOK(msgs', order') /\ StoreOK(file'.msgs, file'.order)
  BY DEF TypeInv, Restart, Crash
<1>4. pub' \in [Publishers -> {Ready} \cup [at : {"publish", "retain"}, m : Messages]]
  BY DEF TypeInv, Restart, Crash
<1>5. QED
  BY <1>1, <1>2, <1>3, <1>4 DEF TypeInv

LEMMA WhoSteps ==
  ASSUME [Next]_vars
  PROVE  \/ \E p \in Publishers : PublisherSteps(p)
         \/ \E s \in Subscribers : SubscriberSteps(s)
         \/ Restart \/ Crash \/ UNCHANGED vars
BY Zenon DEF Next, PublisherSteps, SubscriberSteps

LEMMA TypeStep == TypeInv /\ [Next]_vars => TypeInv'
<1> SUFFICES ASSUME TypeInv, [Next]_vars PROVE TypeInv'
  OBVIOUS
<1>1. ASSUME NEW p \in Publishers, PublisherSteps(p) PROVE TypeInv'
  BY <1>1, PublisherTypes
<1>2. CASE UNCHANGED vars
  BY <1>2 DEF vars, TypeInv
<1>3. QED
  BY <1>1, <1>2, WhoSteps, SubscriberTypes, StopTypes

LEMMA InitTypes == Init => TypeInv
<1> SUFFICES ASSUME Init PROVE TypeInv
  OBVIOUS
<1>1. StoreOK(msgs, order) /\ StoreOK(file.msgs, file.order)
  BY EmptySeq DEF Init, NoMsgs, StoreOK, Agrees
<1>2. QED
  BY <1>1, AwayTypes, EmptySeq, BoundsAssumption DEF Init, TypeInv

LEMMA Typed == Spec => []TypeInv
BY InitTypes, TypeStep, PTL DEF Spec

(* Every variable of Retained keeps its type; what is retained for a topic *)
(* is a message on it that is not empty (HandleRetain), over restarts and  *)
(* crashes, too.                                                           *)
THEOREM TypeCorrect == Spec => []TypeOK
<1>1. TypeInv => TypeOK
  BY DEF TypeInv, TypeOK, StoreOK, Subscription
<1>2. QED
  BY <1>1, Typed, PTL

(* add, drop, a restart and a crash (retained.go:38-102) keep the map of   *)
(* retained messages and the order of their topics in agreement, so no     *)
(* lookup by a topic of the order fails.                                   *)
THEOREM OrderAgreesWithMap == Spec => []StoreAgrees
<1>1. TypeInv => StoreAgrees
  BY DEF TypeInv, StoreOK, StoreAgrees
<1>2. QED
  BY <1>1, Typed, PTL

-----------------------------------------------------------------------------

LEMMA NumbersTypes ==
  ASSUME TypeInv
  PROVE  /\ sent \in Nat
         /\ \A m \in Messages : m.n \in Nat /\ m.t \in Topics /\ m.empty \in BOOLEAN
         /\ \A s \in Subscribers : Given(s) \subseteq Messages
<1>1. sent \in Nat /\ \A m \in Messages : m.n \in Nat /\ m.t \in Topics /\ m.empty \in BOOLEAN
  BY BoundsAssumption DEF TypeInv, Messages
<1>2. ASSUME NEW s \in Subscribers
      PROVE  Given(s) \subseteq Messages
  <2>1. /\ sub[s].todo \in Seq(Messages)
        /\ received[s] \in SUBSET [m : Messages, how : {"retained", "live"}]
    BY DEF TypeInv, Subscription
  <2>2. \A i \in DOMAIN sub[s].todo : sub[s].todo[i] \in Messages
    BY <2>1
  <2>3. \A r \in received[s] : r.m \in Messages
    BY <2>1
  <2>4. QED
    BY <2>2, <2>3 DEF Given
<1>3. QED
  BY <1>1, <1>2

LEMMA SameGiven ==
  ASSUME NEW s, sub'[s].todo = sub[s].todo, received'[s] = received[s]
  PROVE  Given(s)' = Given(s)
BY DEF Given

(* The rest of a queue.                                                    *)
LEMMA TailOf ==
  ASSUME NEW q \in Seq(Messages), q # <<>>
  PROVE  /\ DOMAIN q = 1..Len(q) /\ DOMAIN Tail(q) = 1..(Len(q) - 1) /\ Len(q) \in Nat
         /\ Head(q) = q[1] /\ \A j \in DOMAIN Tail(q) : Tail(q)[j] = q[j + 1]
  OBVIOUS

(* A retained message that is sent was, and stays, given.                  *)
LEMMA SendGives ==
  ASSUME TypeInv, NEW s \in Subscribers, SendRetained(s)
  PROVE  Given(s)' = Given(s)
<1> DEFINE q == sub[s].todo
           x == [m |-> Head(q), how |-> "retained"]
<1>1. /\ q \in Seq(Messages) /\ q # <<>> /\ sub'[s].todo = Tail(q)
      /\ received'[s] = received[s] \cup {x}
  BY DEF TypeInv, Subscription, SendRetained, Queue
<1>2. /\ DOMAIN q = 1..Len(q) /\ DOMAIN Tail(q) = 1..(Len(q) - 1) /\ Len(q) \in Nat
      /\ 1 \in DOMAIN q /\ Head(q) = q[1]
      /\ \A i \in DOMAIN Tail(q) : i + 1 \in DOMAIN q /\ Tail(q)[i] = q[i + 1]
  BY <1>1
<1>3. {q[i] : i \in DOMAIN q} = {Tail(q)[i] : i \in DOMAIN Tail(q)} \cup {Head(q)}
  <2>1. ASSUME NEW i \in DOMAIN q
        PROVE  q[i] = Head(q) \/ \E j \in DOMAIN Tail(q) : Tail(q)[j] = q[i]
    <3>1. CASE i = 1
      BY <1>2, <3>1
    <3>2. CASE i # 1
      <4>1. i - 1 \in DOMAIN Tail(q) /\ (i - 1) + 1 = i
        BY <1>2, <3>2
      <4>2. QED
        BY <1>2, <4>1
    <3>3. QED
      BY <3>1, <3>2
  <2>2. Head(q) \in {q[i] : i \in DOMAIN q}
    BY <1>2
  <2>3. {Tail(q)[i] : i \in DOMAIN Tail(q)} \subseteq {q[i] : i \in DOMAIN q}
    BY <1>2
  <2>4. {q[i] : i \in DOMAIN q} \subseteq {Tail(q)[i] : i \in DOMAIN Tail(q)} \cup {Head(q)}
    BY <2>1
  <2>5. QED
    BY <2>2, <2>3, <2>4
<1>4. {r.m : r \in {y \in received'[s] : y.how = "retained"}}
        = {r.m : r \in {y \in received[s] : y.how = "retained"}} \cup {Head(q)}
  <2>1. x.how = "retained" /\ x.m = Head(q)
    OBVIOUS
  <2> HIDE DEF x
  <2>2. {y \in received'[s] : y.how = "retained"}
          = {y \in received[s] : y.how = "retained"} \cup {x}
    BY <1>1, <2>1
  <2>3. QED
    BY <2>1, <2>2
<1> HIDE DEF x
<1>5. QED
  BY <1>1, <1>3, <1>4 DEF Given

LEMMA LiveGivesNothing ==
  ASSUME TypeInv, NEW s \in Subscribers, NatsResponse(s)
  PROVE  Given(s)' = Given(s)
<1>1. /\ sub'[s] = sub[s]
      /\ received'[s] = received[s] \cup {[m |-> Head(inbox[s]), how |-> "live"]}
  BY DEF TypeInv, NatsResponse, Queue
<1>2. {y \in received'[s] : y.how = "retained"} = {y \in received[s] : y.how = "retained"}
  BY <1>1
<1>3. QED
  BY <1>1, <1>2 DEF Given

(* A subscriber is given what its lookup found.                            *)
LEMMA LookupGives ==
  ASSUME TypeInv, NEW s \in Subscribers, GivenOK(s), FindMatching(s)
  PROVE  /\ Given(s)' = {msgs[t] : t \in {u \in DOMAIN msgs : u \in sub[s].f}}
         /\ sub'[s].f = sub[s].f /\ sub'[s].at = "send" /\ sub'[s].known = sub[s].known
         /\ sub'[s].early = sub[s].known
<1>1. PICK v \in Visits(s) : sub' = [sub EXCEPT ![s].at = "send", ![s].todo = Matching(v),
                                                ![s].early = sub[s].known]
  BY DEF FindMatching
<1>2. {Matching(v)[i] : i \in DOMAIN Matching(v)}
        = {msgs[t] : t \in {u \in DOMAIN msgs : u \in sub[s].f}}
  BY MatchingFinds DEF TypeInv
<1>3. /\ sub'[s].todo = Matching(v) /\ received' = received /\ Given(s) = {}
      /\ sub'[s].f = sub[s].f /\ sub'[s].at = "send" /\ sub'[s].known = sub[s].known
      /\ sub'[s].early = sub[s].known
  BY <1>1 DEF TypeInv, Subscription, FindMatching, GivenOK
<1>4. {r.m : r \in {y \in received'[s] : y.how = "retained"}} = {}
  BY <1>3 DEF Given
<1>5. QED
  BY <1>2, <1>3, <1>4 DEF Given

(* What a step of a subscriber does to the others: nothing.                *)
LEMMA OthersStay ==
  ASSUME TypeInv, NEW s \in Subscribers, SubscriberSteps(s), NEW r \in Subscribers \ {s}
  PROVE  /\ sub'[r] = sub[r] /\ inbox'[r] = inbox[r] /\ received'[r] = received[r]
         /\ Given(r)' = Given(r)
<1>1. sub'[r] = sub[r] /\ inbox'[r] = inbox[r] /\ received'[r] = received[r]
  BY DEF TypeInv, SubscriberSteps, Subscribe, SubscriptionArrives, FindMatching, SendRetained,
         NatsResponse, Leave, Queue
<1>2. QED
  BY <1>1, SameGiven

-----------------------------------------------------------------------------

LEMMA PublisherNumbers ==
  ASSUME TypeInv, NumberInv, NEW p \in Publishers, PublisherSteps(p)
  PROVE  NumberInv'
<1>0. /\ sent \in Nat /\ \A m \in Messages : m.n \in Nat /\ m.t \in Topics /\ m.empty \in BOOLEAN
      /\ \A s \in Subscribers : Given(s) \subseteq Messages
      /\ pub \in [Publishers -> {Ready} \cup [at : {"publish", "retain"}, m : Messages]]
      /\ StoreOK(msgs, order)
  BY NumbersTypes DEF TypeInv
<1>1. /\ UNCHANGED <<sub, received, file>> /\ sent' \in {sent, sent + 1}
  BY DEF PublisherSteps, ReadPublish, PublishWill, NatsPublish, NatsPublishFails, RetainWill
<1>2. sent' \in Nat /\ sent <= sent'
  BY <1>0, <1>1
<1>3. ASSUME NEW s \in Subscribers PROVE GivenOK(s)'
  <2>1. Given(s)' = Given(s) /\ GivenOK(s)
    BY <1>1, SameGiven DEF NumberInv
  <2>2. \A m \in Given(s) : m.n <= sent'
    BY <1>0, <1>2, <2>1 DEF GivenOK
  <2>3. QED
    BY <1>1, <2>1, <2>2 DEF GivenOK
<1>4. \A t \in DOMAIN file'.msgs : file'.msgs[t].n <= sent'
  <2>1. \A t \in DOMAIN file.msgs : file.msgs[t] \in Messages /\ file.msgs[t].n <= sent
    BY DEF TypeInv, StoreOK, NumberInv
  <2>2. QED
    BY <1>0, <1>1, <1>2, <2>1
<1>5. \A t \in DOMAIN msgs : msgs[t] \in Messages /\ msgs[t].n <= sent'
  BY <1>0, <1>2 DEF NumberInv, StoreOK
<1>6. ASSUME NEW m \in Messages, m.n <= sent', HandleRetain(m)
      PROVE  \A t \in DOMAIN msgs' : msgs'[t].n <= sent'
  <2>1. Retains(m)
    BY <1>0, <1>6, HandleRetainStores
  <2>2. QED
    BY <1>5, <1>6, <2>1 DEF Retains, Stored
<1>7. (\A t \in DOMAIN msgs' : msgs'[t].n <= sent') /\
      \A q \in Publishers : /\ pub'[q] # Ready => pub'[q].m.n <= sent'
                            /\ pub'[q].at = "retain" => pub'[q].m.t \in WillTopics
  <2>1. ASSUME NEW t \in Topics, NEW empty \in BOOLEAN, ReadPublish(p, t, empty)
        PROVE  <1>7!:
    <3> DEFINE m == [t |-> t, n |-> sent + 1, empty |-> empty]
    <3>1. /\ sent < MaxMsgs /\ sent' = sent + 1 /\ HandleRetain(m)
          /\ pub' = [pub EXCEPT ![p] = [at |-> "publish", m |-> m]]
      BY <2>1 DEF ReadPublish, StoreFirst
    <3>2. m \in Messages /\ m.n <= sent'
      BY <1>0, <3>1, NewMessage
    <3> HIDE DEF m
    <3>3. \A u \in DOMAIN msgs' : msgs'[u].n <= sent'
      BY <1>6, <3>1, <3>2
    <3>4. ASSUME NEW q \in Publishers
          PROVE  /\ pub'[q] # Ready => pub'[q].m.n <= sent'
                 /\ pub'[q].at = "retain" => pub'[q].m.t \in WillTopics
      <4>1. CASE q = p
        BY <1>0, <3>1, <3>2, <4>1
      <4>2. CASE q # p
        BY <1>0, <1>2, <3>1, <4>2 DEF NumberInv
      <4>3. QED
        BY <4>1, <4>2
    <3>5. QED
      BY <3>3, <3>4
  <2>2. ASSUME NEW t \in Topics, NEW empty \in BOOLEAN, PublishWill(p, t, empty)
        PROVE  <1>7!:
    <3> DEFINE m == [t |-> t, n |-> sent + 1, empty |-> empty]
    <3>1. /\ sent < MaxMsgs /\ sent' = sent + 1 /\ msgs' = msgs /\ m.t \in WillTopics
          /\ pub' = [pub EXCEPT ![p] = [at |-> "retain", m |-> m]]
      BY <2>2 DEF PublishWill, PublishFirst, store
    <3>2. m \in Messages /\ m.n <= sent'
      BY <1>0, <3>1, NewMessage
    <3> HIDE DEF m
    <3>3. ASSUME NEW q \in Publishers
          PROVE  /\ pub'[q] # Ready => pub'[q].m.n <= sent'
                 /\ pub'[q].at = "retain" => pub'[q].m.t \in WillTopics
      <4>1. CASE q = p
        BY <1>0, <3>1, <3>2, <4>1
      <4>2. CASE q # p
        BY <1>0, <1>2, <3>1, <4>2 DEF NumberInv
      <4>3. QED
        BY <4>1, <4>2
    <3>4. QED
      BY <1>5, <3>1, <3>3
  <2>3. CASE NatsPublish(p) \/ NatsPublishFails(p) \/ RetainWill(p)
    <3>1. pub' = [pub EXCEPT ![p] = Ready] /\ sent' = sent
      BY <2>3 DEF NatsPublish, NatsPublishFails, RetainWill
    <3>2. \A q \in Publishers : /\ pub'[q] # Ready => pub'[q].m.n <= sent'
                                /\ pub'[q].at = "retain" => pub'[q].m.t \in WillTopics
      BY <1>0, <3>1 DEF NumberInv, Ready
    <3>3. msgs' = msgs \/ (HandleRetain(pub[p].m) /\ pub[p] # Ready)
      BY <2>3 DEF NatsPublish, NatsPublishFails, RetainWill, Ready
    <3>4. pub[p] # Ready => pub[p].m \in Messages /\ pub[p].m.n <= sent'
      BY <1>0, <3>1 DEF NumberInv
    <3>5. \A u \in DOMAIN msgs' : msgs'[u].n <= sent'
      BY <1>5, <1>6, <3>3, <3>4
    <3>6. QED
      BY <3>2, <3>5
  <2>4. QED
    BY <2>1, <2>2, <2>3 DEF PublisherSteps
<1>8. QED
  BY <1>3, <1>4, <1>7 DEF NumberInv

LEMMA SubscriberNumbers ==
  ASSUME TypeInv, NumberInv, NEW s \in Subscribers, SubscriberSteps(s)
  PROVE  NumberInv'
<1>1. UNCHANGED <<msgs, pub, file, sent>>
  BY DEF SubscriberSteps, Subscribe, SubscriptionArrives, FindMatching, SendRetained,
         NatsResponse, Leave
<1>2. ASSUME NEW r \in Subscribers \ {s} PROVE GivenOK(r)'
  <2>1. sub'[r] = sub[r] /\ Given(r)' = Given(r) /\ GivenOK(r)
    BY OthersStay DEF NumberInv
  <2>2. QED
    BY <1>1, <2>1 DEF GivenOK
<1>3. GivenOK(s)'
  <2>0. sub \in [Subscribers -> Subscription] /\ sub[s] \in Subscription /\ GivenOK(s)
    BY DEF TypeInv, NumberInv
  <2>1. ASSUME NEW f \in SUBSET Topics, Subscribe(s, f) PROVE GivenOK(s)'
    <3>1. /\ sub[s] = Away /\ sub'[s] = [Away EXCEPT !.at = "lookup", !.f = f]
          /\ received' = received
      BY <2>0, <2>1 DEF Subscribe
    <3>2. /\ sub[s].at = "away" /\ sub'[s].at = "lookup" /\ sub'[s].early = FALSE
          /\ sub'[s].todo = sub[s].todo
      BY <3>1 DEF Away
    <3>3. Given(s)' = Given(s)
      BY <3>1, <3>2, SameGiven
    <3>4. QED
      BY <2>0, <3>2, <3>3 DEF GivenOK
  <2>2. CASE SubscriptionArrives(s)
    <3>1. /\ sub'[s].at = sub[s].at /\ sub'[s].early = sub[s].early /\ sub'[s].known = TRUE
          /\ sub'[s].todo = sub[s].todo /\ sub'[s].f = sub[s].f /\ received' = received
      BY <2>0, <2>2 DEF SubscriptionArrives, Subscription
    <3>2. Given(s)' = Given(s)
      BY <3>1, SameGiven
    <3>3. QED
      BY <1>1, <2>0, <3>1, <3>2 DEF GivenOK
  <2>3. CASE FindMatching(s)
    <3>1. /\ Given(s)' = {msgs[t] : t \in {u \in DOMAIN msgs : u \in sub[s].f}}
          /\ sub'[s].f = sub[s].f /\ sub'[s].at = "send" /\ sub'[s].known = sub[s].known
          /\ sub'[s].early = sub[s].known
      BY <2>0, <2>3, LookupGives
    <3>2. \A t \in DOMAIN msgs : msgs[t].t = t /\ msgs[t].n <= sent'
      BY <1>1 DEF TypeInv, StoreOK, NumberInv
    <3>3. QED
      BY <3>1, <3>2 DEF GivenOK
  <2>4. CASE SendRetained(s) \/ NatsResponse(s)
    <3>1. /\ sub'[s].at = sub[s].at /\ sub'[s].early = sub[s].early
          /\ sub'[s].known = sub[s].known /\ sub'[s].f = sub[s].f
      BY <2>0, <2>4 DEF SendRetained, NatsResponse, Subscription
    <3>2. Given(s)' = Given(s)
      BY <2>4, SendGives, LiveGivesNothing
    <3>3. QED
      BY <1>1, <2>0, <3>1, <3>2 DEF GivenOK
  <2>5. CASE Leave(s)
    <3>1. sub'[s] = Away /\ received'[s] = {}
      BY <2>0, <2>5 DEF TypeInv, Leave
    <3>2. Given(s)' = {}
      BY <3>1 DEF Given, Away
    <3>3. QED
      BY <3>1, <3>2 DEF GivenOK, Away
  <2>6. QED
    BY <2>1, <2>2, <2>3, <2>4, <2>5 DEF SubscriberSteps
<1>4. QED
  BY <1>1, <1>2, <1>3 DEF NumberInv

LEMMA GoneGivesNothing ==
  ASSUME AllGone, NEW s \in Subscribers
  PROVE  GivenOK(s)' /\ sub'[s].early = FALSE
<1>1. sub'[s] = Away /\ received'[s] = {}
  BY DEF AllGone
<1>2. Given(s)' = {}
  BY <1>1 DEF Given, Away
<1>3. QED
  BY <1>1, <1>2 DEF GivenOK, Away

LEMMA NumberStep == TypeInv /\ NumberInv /\ [Next]_vars => NumberInv'
<1> SUFFICES ASSUME TypeInv, NumberInv, [Next]_vars PROVE NumberInv'
  OBVIOUS
<1>1. CASE Restart
  <2>1. AllGone /\ UNCHANGED <<msgs, pub, sent>> /\ file'.msgs = msgs
    BY <1>1 DEF Restart
  <2>2. QED
    BY <2>1, GoneGivesNothing DEF NumberInv
<1>2. CASE Crash
  <2>1. /\ AllGone /\ UNCHANGED <<file, sent>> /\ msgs' = file.msgs
        /\ pub' = [p \in Publishers |-> Ready]
    BY <1>2 DEF Crash
  <2>2. QED
    BY <2>1, GoneGivesNothing DEF NumberInv, Ready
<1>3. CASE UNCHANGED vars
  <2>1. UNCHANGED <<msgs, file, pub, sub, received, sent>>
    BY <1>3 DEF vars
  <2>2. ASSUME NEW s \in Subscribers PROVE GivenOK(s)'
    <3>1. Given(s)' = Given(s) /\ GivenOK(s)
      BY <2>1, SameGiven DEF NumberInv
    <3>2. QED
      BY <2>1, <3>1 DEF GivenOK
  <2>3. QED
    BY <2>1, <2>2 DEF NumberInv
<1>4. QED
  BY <1>1, <1>2, <1>3, WhoSteps, PublisherNumbers, SubscriberNumbers

-----------------------------------------------------------------------------

(* What NATS delivers to a subscription it knows.                          *)
LEMMA DeliverReaches ==
  ASSUME TypeInv, NEW s \in Subscribers, NEW x \in Messages, Deliver(x), received' = received
  PROVE  /\ \A m : Reaches(s, m) => Reaches(s, m)'
         /\ sub[s].known /\ x.t \in sub[s].f => Reaches(s, x)'
<1> DEFINE q == inbox[s]
<1>1. q \in Seq(Messages)
  BY DEF TypeInv
<1>2. inbox'[s] = IF sub[s].known /\ x.t \in sub[s].f THEN Append(q, x) ELSE q
  BY DEF Deliver
<1> HIDE DEF q
<1>3. /\ \A i \in DOMAIN q : i \in DOMAIN Append(q, x) /\ Append(q, x)[i] = q[i]
      /\ Len(q) + 1 \in DOMAIN Append(q, x) /\ Append(q, x)[Len(q) + 1] = x
  BY <1>1
<1>4. \A i \in DOMAIN q : i \in DOMAIN inbox'[s] /\ inbox'[s][i] = q[i]
  BY <1>2, <1>3
<1>5. ASSUME NEW m, Reaches(s, m) PROVE Reaches(s, m)'
  BY <1>4, <1>5 DEF Reaches, q
<1>6. ASSUME sub[s].known, x.t \in sub[s].f PROVE Reaches(s, x)'
  <2>1. inbox'[s] = Append(q, x)
    BY <1>2, <1>6
  <2>2. QED
    BY <1>3, <2>1 DEF Reaches
<1>7. QED
  BY <1>5, <1>6

(* A publisher at rest or done with a will has nothing pending.            *)
LEMMA StillPending ==
  ASSUME TypeInv, NEW p \in Publishers, pub[p].at # "publish", failed' = failed,
         \A q \in Publishers \ {p} : pub'[q] = pub[q], NEW m, Pending(m)
  PROVE  Pending(m)'
BY DEF Pending

(* What is coming to a subscriber whose subscription NATS knows comes.     *)
LEMMA PublisherComing ==
  ASSUME TypeInv, NEW p \in Publishers, PublisherSteps(p), NEW s \in Subscribers,
         sub[s].known, NEW m \in Messages, m.t \in sub[s].f, Coming(s, m)
  PROVE  Coming(s, m)'
<1>0. pub \in [Publishers -> {Ready} \cup [at : {"publish", "retain"}, m : Messages]]
  BY DEF TypeInv
<1>1. ASSUME NEW t \in Topics, NEW empty \in BOOLEAN,
             ReadPublish(p, t, empty) \/ PublishWill(p, t, empty)
      PROVE  Coming(s, m)'
  <2> DEFINE x == [t |-> t, n |-> sent + 1, empty |-> empty]
  <2>1. /\ pub[p] = Ready /\ failed' = failed /\ received' = received
        /\ \A q \in Publishers \ {p} : pub'[q] = pub[q]
        /\ inbox' = inbox \/ Deliver(x)
        /\ sent < MaxMsgs /\ sent' = sent + 1
    BY <1>0, <1>1 DEF ReadPublish, PublishWill, StoreFirst, PublishFirst
  <2>2. pub[p].at # "publish"
    BY <2>1 DEF Ready
  <2>3. Pending(m) => Pending(m)'
    BY <2>1, <2>2, StillPending
  <2>4. Reaches(s, m) => Reaches(s, m)'
    <3>1. CASE inbox' = inbox
      BY <2>1, <3>1 DEF Reaches
    <3>2. CASE Deliver(x) /\ sent < MaxMsgs /\ sent' = sent + 1
      <4>1. x \in Messages
        BY <3>2, NewMessage
      <4> HIDE DEF x
      <4>2. QED
        BY <2>1, <3>2, <4>1, DeliverReaches
    <3>3. QED
      BY <2>1, <3>1, <3>2
  <2>5. QED
    BY <2>3, <2>4 DEF Coming
<1>2. CASE NatsPublish(p)
  <2>1. /\ pub[p].m \in Messages /\ Deliver(pub[p].m) /\ received' = received
        /\ failed' = failed /\ \A q \in Publishers \ {p} : pub'[q] = pub[q]
    BY <1>0, <1>2 DEF NatsPublish, Ready
  <2>2. Reaches(s, m) => Reaches(s, m)'
    BY <2>1, DeliverReaches
  <2>3. pub[p].m = m => Reaches(s, m)'
    BY <2>1, DeliverReaches
  <2>4. Pending(m) => Pending(m)' \/ pub[p].m = m
    BY <2>1 DEF Pending
  <2>5. QED
    BY <2>2, <2>3, <2>4 DEF Coming
<1>3. CASE NatsPublishFails(p)
  <2>1. /\ failed' = failed \cup {pub[p].m} /\ inbox' = inbox /\ received' = received
        /\ \A q \in Publishers \ {p} : pub'[q] = pub[q]
    BY <1>0, <1>3 DEF NatsPublishFails
  <2>2. Pending(m) => Pending(m)'
    BY <2>1 DEF Pending
  <2>3. Reaches(s, m) => Reaches(s, m)'
    BY <2>1 DEF Reaches
  <2>4. QED
    BY <2>2, <2>3 DEF Coming
<1>4. CASE RetainWill(p)
  <2>1. /\ failed' = failed /\ inbox' = inbox /\ received' = received
        /\ pub[p].at # "publish" /\ \A q \in Publishers \ {p} : pub'[q] = pub[q]
    BY <1>0, <1>4 DEF RetainWill
  <2>2. Pending(m) => Pending(m)'
    BY <2>1, StillPending
  <2>3. Reaches(s, m) => Reaches(s, m)'
    BY <2>1 DEF Reaches
  <2>4. QED
    BY <2>2, <2>3 DEF Coming
<1>5. QED
  BY <1>1, <1>2, <1>3, <1>4 DEF PublisherSteps

(* What a publisher has stored, or dropped, on a topic without wills, it   *)
(* has yet to publish.                                                     *)
Announced == \A t \in Topics \ WillTopics :
    /\ Stored(t)' => \/ Stored(t) /\ msgs'[t] = msgs[t]
                     \/ \E x \in Messages : x = msgs'[t] /\ Pending(x)'
    /\ ~Stored(t)' => \/ ~Stored(t)
                      \/ \E e \in Messages : e.empty /\ e.t = t /\ e.n = sent + 1 /\ Pending(e)'

LEMMA PublisherAnnounces ==
  ASSUME TypeInv, NumberInv, NEW p \in Publishers, PublisherSteps(p)
  PROVE  Announced
<1>0. /\ pub \in [Publishers -> {Ready} \cup [at : {"publish", "retain"}, m : Messages]]
      /\ StoreOK(msgs, order) /\ \A m \in Messages : m.empty \in BOOLEAN
  BY NumbersTypes DEF TypeInv
<1>1. CASE msgs' = msgs
  BY <1>1 DEF Announced, Stored
<1>2. ASSUME NEW t \in Topics, NEW empty \in BOOLEAN, ReadPublish(p, t, empty)
      PROVE  Announced
  <2>1. PICK m : /\ m = [t |-> t, n |-> sent + 1, empty |-> empty]
                 /\ sent < MaxMsgs /\ sent' = sent + 1 /\ HandleRetain(m)
                 /\ pub' = [pub EXCEPT ![p] = [at |-> "publish", m |-> m]]
    BY <1>2 DEF ReadPublish, StoreFirst
  <2>2. m \in Messages /\ m.n = sent + 1
    BY <2>1, NewMessage
  <2>3. Retains(m)
    BY <1>0, <2>1, <2>2, HandleRetainStores
  <2>4. Pending(m)'
    BY <1>0, <2>1 DEF Pending
  <2>5. ASSUME NEW u \in Topics \ WillTopics
        PROVE  /\ Stored(u)' => \/ Stored(u) /\ msgs'[u] = msgs[u]
                                \/ \E x \in Messages : x = msgs'[u] /\ Pending(x)'
               /\ ~Stored(u)' => \/ ~Stored(u)
                                 \/ \E e \in Messages :
                                       e.empty /\ e.t = u /\ e.n = sent + 1 /\ Pending(e)'
    <3>1. CASE u # m.t
      BY <2>3, <3>1 DEF Retains
    <3>2. CASE u = m.t /\ m.empty
      <4>1. ~Stored(u)'
        BY <2>3, <3>2 DEF Retains
      <4>2. \E e \in Messages : e.empty /\ e.t = u /\ e.n = sent + 1 /\ Pending(e)'
        BY <2>2, <2>4, <3>2
      <4>3. QED
        BY <4>1, <4>2
    <3>3. CASE u = m.t /\ ~m.empty
      <4>1. Stored(u)' /\ msgs'[u] = m
        BY <2>3, <3>3 DEF Retains
      <4>2. QED
        BY <2>2, <2>4, <4>1
    <3>4. QED
      BY <1>0, <2>2, <3>1, <3>2, <3>3
  <2>6. QED
    BY <2>5 DEF Announced
<1>3. CASE RetainWill(p)
  <2>1. PICK m : m = pub[p].m /\ m \in Messages /\ m.t \in WillTopics /\ HandleRetain(m)
    BY <1>0, <1>3 DEF RetainWill, Ready, NumberInv
  <2>2. Retains(m)
    BY <1>0, <2>1, HandleRetainStores
  <2>3. \A t \in Topics \ WillTopics : t # m.t
    BY <2>1
  <2>4. QED
    BY <2>2, <2>3 DEF Retains, Announced
<1>4. QED
  BY <1>1, <1>2, <1>3 DEF PublisherSteps, PublishWill, PublishFirst, store, NatsPublish,
     NatsPublishFails

LEMMA PublisherRaces ==
  ASSUME TypeInv, NumberInv, RaceInv, NEW p \in Publishers, PublisherSteps(p)
  PROVE  RaceInv'
<1>1. UNCHANGED <<sub, received>>
  BY DEF PublisherSteps, ReadPublish, PublishWill, NatsPublish, NatsPublishFails, RetainWill
<1>2. ASSUME NEW s \in Subscribers, sub'[s].early
      PROVE  NoneMissed(s)' /\ DropsHeard(s)'
  <2>1. /\ Given(s)' = Given(s) /\ sub'[s].f = sub[s].f /\ sub[s].known
        /\ NoneMissed(s) /\ DropsHeard(s) /\ sub[s].f \subseteq Topics
        /\ \A m \in Given(s) : m \in Messages /\ m.t \in sub[s].f /\ m.n <= sent
    BY <1>1, <1>2, SameGiven, NumbersTypes
       DEF RaceInv, NumberInv, GivenOK, TypeInv, Subscription
  <2>2. ASSUME NEW t \in sub[s].f \ WillTopics, Stored(t)'
        PROVE  \E x : x = msgs'[t] /\ (Coming(s, x)' \/ x \in Given(s))
    <3>1. CASE Stored(t) /\ msgs'[t] = msgs[t]
      <4>1. PICK x : x = msgs[t]
        OBVIOUS
      <4>2. x \in Messages /\ x.t = t
        BY <3>1, <4>1 DEF TypeInv, StoreOK, Stored
      <4>3. Coming(s, x) \/ x \in Given(s)
        BY <2>1, <3>1, <4>1 DEF NoneMissed
      <4>4. Coming(s, x) => Coming(s, x)'
        BY <2>1, <4>2, PublisherComing
      <4>5. QED
        BY <3>1, <4>1, <4>3, <4>4
    <3>2. CASE \E x \in Messages : x = msgs'[t] /\ Pending(x)'
      BY <3>2 DEF Coming
    <3>3. QED
      BY <2>1, <2>2, <3>1, <3>2, PublisherAnnounces DEF Announced
  <2>3. ASSUME NEW m \in Given(s), m.t \notin WillTopics, ~Stored(m.t)'
        PROVE  DropComes(s, m)'
    <3>1. m \in Messages /\ m.t \in sub[s].f /\ m.n <= sent /\ m.t \in Topics
      BY <2>1
    <3>2. CASE ~Stored(m.t)
      <4>1. PICK e \in Messages : e.empty /\ e.t = m.t /\ e.n > m.n /\ Coming(s, e)
        BY <2>1, <2>3, <3>2 DEF DropsHeard, DropComes
      <4>2. Coming(s, e)'
        BY <2>1, <3>1, <4>1, PublisherComing
      <4>3. QED
        BY <4>1, <4>2 DEF DropComes
    <3>3. CASE Stored(m.t)
      <4>1. PICK e \in Messages : e.empty /\ e.t = m.t /\ e.n = sent + 1 /\ Pending(e)'
        BY <2>3, <3>1, <3>3, PublisherAnnounces DEF Announced
      <4>2. Coming(s, e)'
        BY <4>1 DEF Coming
      <4>3. e.n > m.n
        BY <3>1, <4>1, NumbersTypes
      <4>4. QED
        BY <4>1, <4>2, <4>3 DEF DropComes
    <3>4. QED
      BY <3>2, <3>3
  <2>4. NoneMissed(s)'
    <3>1. ASSUME NEW t \in sub[s].f \ WillTopics, Stored(t)'
          PROVE  Coming(s, msgs[t])' \/ msgs'[t] \in Given(s)
      <4>1. PICK x : x = msgs'[t] /\ (Coming(s, x)' \/ x \in Given(s))
        BY <2>2, <3>1
      <4>2. QED
        BY <4>1 DEF Coming, Pending, Reaches
    <3>2. QED
      BY <2>1, <3>1 DEF NoneMissed
  <2>5. DropsHeard(s)'
    BY <2>1, <2>3 DEF DropsHeard
  <2>6. QED
    BY <2>4, <2>5
<1>3. QED
  BY <1>2 DEF RaceInv

(* A subscriber that sees the same messages coming and has the same given. *)
LEMMA SameRace ==
  ASSUME NEW s \in Subscribers, NoneMissed(s), DropsHeard(s), UNCHANGED <<msgs, pub, failed>>,
         sub'[s].f = sub[s].f, Given(s)' = Given(s), \A m : Reaches(s, m) => Reaches(s, m)'
  PROVE  NoneMissed(s)' /\ DropsHeard(s)'
<1>1. \A m : Coming(s, m) => Coming(s, m)'
  BY DEF Coming, Pending
<1>2. NoneMissed(s)'
  BY <1>1 DEF NoneMissed, Stored
<1>3. \A m : DropComes(s, m) => DropComes(s, m)'
  BY <1>1 DEF DropComes
<1>4. DropsHeard(s)'
  BY <1>3 DEF DropsHeard, Stored
<1>5. QED
  BY <1>2, <1>4

LEMMA SubscriberRaces ==
  ASSUME TypeInv, NumberInv, RaceInv, NEW s \in Subscribers, SubscriberSteps(s)
  PROVE  RaceInv'
<1>0. /\ UNCHANGED <<msgs, pub, failed>> /\ GivenOK(s) /\ StoreOK(msgs, order)
      /\ sub \in [Subscribers -> Subscription] /\ sub[s] \in Subscription
      /\ inbox[s] \in Seq(Messages) /\ inbox \in [Subscribers -> Seq(Messages)]
      /\ received \in [Subscribers -> SUBSET [m : Messages, how : {"retained", "live"}]]
  BY DEF SubscriberSteps, Subscribe, SubscriptionArrives, FindMatching, SendRetained,
         NatsResponse, Leave, TypeInv, NumberInv
<1>1. ASSUME NEW r \in Subscribers \ {s}, sub'[r].early PROVE NoneMissed(r)' /\ DropsHeard(r)'
  <2>1. /\ sub'[r] = sub[r] /\ inbox'[r] = inbox[r] /\ received'[r] = received[r]
        /\ Given(r)' = Given(r)
    BY OthersStay
  <2>2. \A m : Reaches(r, m) => Reaches(r, m)'
    BY <2>1 DEF Reaches
  <2>3. NoneMissed(r) /\ DropsHeard(r)
    BY <1>1, <2>1 DEF RaceInv
  <2>4. QED
    BY <1>0, <2>1, <2>2, <2>3, SameRace
<1>2. ASSUME sub'[s].early PROVE NoneMissed(s)' /\ DropsHeard(s)'
  <2>1. ASSUME NEW f \in SUBSET Topics, Subscribe(s, f) PROVE FALSE
    BY <1>0, <1>2, <2>1 DEF Subscribe, Away
  <2>2. CASE Leave(s)
    BY <1>0, <1>2, <2>2 DEF Leave, Away
  <2>3. CASE SubscriptionArrives(s) \/ SendRetained(s) \/ NatsResponse(s)
    <3>1. sub'[s].f = sub[s].f /\ sub'[s].early = sub[s].early
      BY <1>0, <2>3 DEF SubscriptionArrives, SendRetained, NatsResponse, Subscription
    <3>2. Given(s)' = Given(s)
      <4>1. CASE SubscriptionArrives(s)
        <5>1. sub'[s].todo = sub[s].todo /\ received' = received
          BY <1>0, <4>1 DEF SubscriptionArrives, Subscription
        <5>2. QED
          BY <5>1, SameGiven
      <4>2. QED
        BY <2>3, <4>1, SendGives, LiveGivesNothing
    <3>3. ASSUME NEW m, Reaches(s, m) PROVE Reaches(s, m)'
      <4>1. CASE SubscriptionArrives(s)
        BY <3>3, <4>1 DEF SubscriptionArrives, Reaches
      <4>2. CASE SendRetained(s)
        <5>1. inbox' = inbox /\ received[s] \subseteq received'[s]
          BY <1>0, <4>2 DEF SendRetained, Queue
        <5>2. QED
          BY <3>3, <5>1 DEF Reaches
      <4>3. CASE NatsResponse(s)
        <5> DEFINE q == inbox[s]
        <5>0. q # <<>>
          BY <4>3 DEF NatsResponse
        <5>1. /\ inbox'[s] = Tail(q)
              /\ received'[s] = received[s] \cup {[m |-> Head(q), how |-> "live"]}
          BY <1>0, <4>3 DEF NatsResponse, Queue
        <5>2. q \in Seq(Messages)
          BY <1>0
        <5> HIDE DEF q
        <5>3. ASSUME NEW i \in DOMAIN q
              PROVE  q[i] = Head(q) \/ (i - 1 \in DOMAIN Tail(q) /\ Tail(q)[i - 1] = q[i])
          <6>1. /\ DOMAIN q = 1..Len(q) /\ DOMAIN Tail(q) = 1..(Len(q) - 1) /\ Len(q) \in Nat
                /\ Head(q) = q[1] /\ \A j \in DOMAIN Tail(q) : Tail(q)[j] = q[j + 1]
            BY <5>0, <5>2, TailOf
          <6>2. CASE i = 1
            BY <6>1, <6>2
          <6>3. CASE i # 1
            <7>1. i - 1 \in DOMAIN Tail(q) /\ (i - 1) + 1 = i
              BY <6>1, <6>3
            <7>2. QED
              BY <6>1, <7>1
          <6>4. QED
            BY <6>2, <6>3
        <5>4. \E r \in received'[s] : r.m = Head(q)
          <6> DEFINE x == [m |-> Head(q), how |-> "live"]
          <6>1. x.m = Head(q) /\ x \in received'[s]
            BY <5>1
          <6> HIDE DEF x
          <6>2. QED
            BY <6>1
        <5>5. QED
          BY <3>3, <5>1, <5>3, <5>4 DEF Reaches, q
      <4>4. QED
        BY <2>3, <4>1, <4>2, <4>3
    <3>4. NoneMissed(s) /\ DropsHeard(s)
      BY <1>2, <3>1 DEF RaceInv
    <3>5. QED
      BY <1>0, <3>1, <3>2, <3>3, <3>4, SameRace
  <2>4. CASE FindMatching(s)
    <3>1. /\ Given(s)' = {msgs[t] : t \in {u \in DOMAIN msgs : u \in sub[s].f}}
          /\ sub'[s].f = sub[s].f
      BY <1>0, <2>4, LookupGives
    <3>2. \A t \in DOMAIN msgs : msgs[t].t = t
      BY <1>0 DEF StoreOK
    <3>3. NoneMissed(s)'
      BY <1>0, <3>1 DEF NoneMissed, Stored
    <3>4. DropsHeard(s)'
      BY <1>0, <3>1, <3>2 DEF DropsHeard, Stored
    <3>5. QED
      BY <3>3, <3>4
  <2>5. QED
    BY <2>1, <2>2, <2>3, <2>4 DEF SubscriberSteps
<1>3. QED
  BY <1>1, <1>2 DEF RaceInv

LEMMA RaceStep == TypeInv /\ NumberInv /\ RaceInv /\ [Next]_vars => RaceInv'
<1> SUFFICES ASSUME TypeInv, NumberInv, RaceInv, [Next]_vars PROVE RaceInv'
  OBVIOUS
<1>1. CASE Restart \/ Crash
  <2>1. AllGone
    BY <1>1 DEF Restart, Crash
  <2>2. QED
    BY <2>1, GoneGivesNothing DEF RaceInv
<1>2. CASE UNCHANGED vars
  <2>1. UNCHANGED <<msgs, pub, failed, sub, inbox, received>>
    BY <1>2 DEF vars
  <2>2. ASSUME NEW s \in Subscribers, sub'[s].early PROVE NoneMissed(s)' /\ DropsHeard(s)'
    <3>1. Given(s)' = Given(s) /\ \A m : Reaches(s, m) => Reaches(s, m)'
      BY <2>1, SameGiven DEF Reaches
    <3>2. QED
      BY <2>1, <2>2, <3>1, SameRace DEF RaceInv
  <2>3. QED
    BY <2>2 DEF RaceInv
<1>3. QED
  BY <1>1, <1>2, WhoSteps, PublisherRaces, SubscriberRaces

LEMMA Raced == Spec => [](TypeInv /\ NumberInv /\ RaceInv)
<1>1. Init => NumberInv /\ RaceInv
  <2> SUFFICES ASSUME Init PROVE NumberInv /\ RaceInv
    OBVIOUS
  <2>1. ASSUME NEW s \in Subscribers PROVE GivenOK(s) /\ sub[s].early = FALSE
    <3>1. sub[s] = Away /\ received[s] = {}
      BY DEF Init
    <3>2. Given(s) = {}
      BY <3>1 DEF Given, Away
    <3>3. QED
      BY <3>1, <3>2 DEF GivenOK, Away
  <2>2. QED
    BY <2>1 DEF Init, NumberInv, RaceInv, NoMsgs, Ready
<1>2. QED
  BY <1>1, InitTypes, TypeStep, NumberStep, RaceStep, PTL DEF Spec

(* A subscriber whose subscription NATS knew before the lookup, and who has *)
(* been sent everything, has every retained message its filter matches,    *)
(* also one that is stored and published while the SUBSCRIBE is handled,   *)
(* except on topics of wills (HandleRetain before natsPublish in readLoop, *)
(* natsSubscribe before PublishMatching).                                  *)
THEOREM NoRetainedIsMissed == Spec => []NothingMissed
<1>1. TypeInv /\ RaceInv => NothingMissed
  <2> SUFFICES ASSUME TypeInv, RaceInv, NEW s \in Subscribers, NEW t \in DOMAIN msgs,
                      Done(s), Settled(t), t \in sub[s].f
               PROVE  \E r \in received[s] : r.m = msgs[t]
    BY DEF NothingMissed
  <2>1. /\ sub[s].todo = <<>> /\ inbox[s] = <<>> /\ NoneMissed(s)
    BY DEF Done, RaceInv
  <2>2. PICK x : x = msgs[t] /\ x.t = t
    BY DEF TypeInv, StoreOK
  <2>3. Coming(s, x) \/ x \in Given(s)
    BY <2>1, <2>2 DEF NoneMissed, Settled, Stored
  <2>4. ~Pending(x)
    BY <2>2 DEF Pending, Settled
  <2>5. DOMAIN <<>> = {}
    OBVIOUS
  <2>6. CASE x \in Given(s)
    BY <2>1, <2>2, <2>5, <2>6 DEF Given
  <2>7. CASE Reaches(s, x)
    BY <2>1, <2>2, <2>5, <2>7 DEF Reaches
  <2>8. QED
    BY <2>3, <2>4, <2>6, <2>7 DEF Coming
<1>2. QED
  BY <1>1, Raced, PTL

(* Such a subscriber that was sent a message which is retained no more has *)
(* got the later, empty message that dropped it (HandleRetain).            *)
THEOREM DropsAreHeard == Spec => []DropIsHeard
<1>1. TypeInv /\ RaceInv => DropIsHeard
  <2> SUFFICES ASSUME TypeInv, RaceInv, NEW s \in Subscribers, Done(s), NEW r \in received[s],
                      r.how = "retained", r.m.t \notin DOMAIN msgs, Settled(r.m.t)
               PROVE  \E e \in received[s] : e.m.empty /\ e.m.t = r.m.t /\ e.m.n > r.m.n
    BY DEF DropIsHeard
  <2>1. inbox[s] = <<>> /\ DropsHeard(s) /\ r.m \in Given(s)
    BY DEF Done, RaceInv, Given
  <2>2. PICK e : e.empty /\ e.t = r.m.t /\ e.n > r.m.n /\ Coming(s, e)
    BY <2>1 DEF DropsHeard, DropComes, Settled, Stored
  <2>3. ~Pending(e)
    BY <2>2 DEF Pending, Settled
  <2>4. DOMAIN <<>> = {}
    OBVIOUS
  <2>5. QED
    BY <2>1, <2>2, <2>3, <2>4 DEF Coming, Reaches
<1>2. QED
  BY <1>1, Raced, PTL
=============================================================================
