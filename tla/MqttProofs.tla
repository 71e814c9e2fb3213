----------------------------- MODULE MqttProofs -----------------------------
(***************************************************************************)
(* Proofs about the names and the packets of package mqtt, and about       *)
(* Subscriptions, whose handler works on them.  First Subscriptions, for   *)
(* all sets of filters and packets with any number of topics: types, what  *)
(* the acknowledgements say, and that nothing NATS delivers to is          *)
(* forgotten.  Then the conversions and the matching of TopicMatch, for    *)
(* topics and filters of any length, and the packets of Codec.             *)
(***************************************************************************)
EXTENDS Subscriptions, MCMqtt, FiniteSetTheorems, SequenceTheorems,
        WellFoundedInduction, TLAPS

(* A set of positions, or of subscriptions, has a last one.                *)
Less == {pair \in Nat \X Nat : pair[1] < pair[2]}

LEMMA HasLast ==
  ASSUME NEW n \in Nat, NEW S, S \subseteq 1..n, S # {}
  PROVE  \E x \in S : \A y \in S : x >= y
<1> DEFINE T == {n - s : s \in S}
<1>1. T \subseteq Nat
  BY DEF T
<1>2. T # {}
  BY DEF T
<1>3. IsWellFoundedOn(Less, Nat)
  BY NatLessThanWellFounded DEF OpToRel, Less
<1>4. PICK x \in T : \A y \in T : <<y, x>> \notin Less
  BY <1>1, <1>2, <1>3, WFMin
<1>5. \A y \in T : ~(y < x)
  BY <1>1, <1>4 DEF Less
<1>6. PICK s \in S : x = n - s
  BY DEF T
<1>7. \A y \in S : s >= y
  <2>1. TAKE y \in S
  <2>2. n - y \in T
    BY DEF T
  <2>3. ~(n - y < n - s)
    BY <1>5, <1>6, <2>2
  <2>4. s \in 1..n /\ y \in 1..n
    OBVIOUS
  <2>5. QED
    BY <2>3, <2>4
<1>8. QED
  BY <1>7

(* The topics of a packet are a sequence.                                  *)
LEMMA TopicsAreSequences ==
  ASSUME NEW topics \in Topics
  PROVE  /\ topics \in Seq([name : Filters, qos : QoSLevels])
         /\ Named(topics) \subseteq Filters
<1>1. PICK n \in 1..MaxTopics : topics \in [1..n -> [name : Filters, qos : QoSLevels]]
  BY DEF Topics
<1>2. topics \in Seq([name : Filters, qos : QoSLevels])
  <2>1. n \in Nat
    BY BoundsAssumption
  <2>2. \A S : topics \in [1..n -> S] => topics \in Seq(S)
    BY <2>1, SeqDef, Zenon
  <2>3. QED
    BY <1>1, <2>2
<1>3. QED
  BY <1>1, <1>2 DEF Named

-----------------------------------------------------------------------------
(* The inductive invariant.                                                *)

(* The place of the handler says what its locals hold.                     *)
HandlerOK ==
    /\ handler.at \in {"read", "subscribe", "unsuback"} => handler.cancel = {}
    /\ handler.at # "subscribe" => handler.nss = {} /\ handler.codes = <<>>
    /\ Len(handler.codes) <= Len(handler.topics)
    /\ handler.at = "read" => handler.topics = <<>>
    /\ \A ns \in handler.cancel \cup handler.nss : made[ns].name \in Named(handler.topics)
    /\ handler.nss \subseteq live

(* An entry is a live subscription for its filter; the filters the handler *)
(* works on have none.                                                     *)
EntriesAreLive ==
    \A f \in Filters : natsSubs[f] # 0 =>
        /\ natsSubs[f] \in live /\ made[natsSubs[f]].name = f
        /\ f \notin Named(handler.topics)

(* Each filter that a SUBSCRIBE names once has what its code says: not yet *)
(* anything, nothing, or one subscription with the QoS granted.            *)
Fulfilled(i) ==
    LET f == handler.topics[i].name
    IN  IF i <= Len(handler.codes) /\ handler.codes[i] # Failed
        THEN \E ns \in handler.nss : MadeFor(f) = {ns} /\ made[ns].qos = handler.codes[i]
        ELSE MadeFor(f) = {}

CodesAreTrue ==
    handler.at \in {"resubscribe", "subscribe"} =>
        /\ TwiceIn(handler.topics) \subseteq twice
        /\ \A i \in DOMAIN handler.topics :
              handler.topics[i].name \notin twice => Fulfilled(i)

(* What was granted stands, for a filter the handler does not work on.     *)
GrantsStand ==
    \A f \in Filters \ (twice \cup Named(handler.topics)) :
        IF granted[f] \in {0, 1}
        THEN natsSubs[f] # 0 /\ made[natsSubs[f]].qos = granted[f]
        ELSE natsSubs[f] = 0

SubsInv == /\ TypeOK /\ HandlerOK /\ EntriesAreLive /\ LiveIsKnown
           /\ CodesAreTrue /\ GrantsStand

LEMMA InitInv == Init => SubsInv
<1> SUFFICES ASSUME Init PROVE SubsInv
  OBVIOUS
<1> USE DEF Init, Idle
<1>1. TypeOK
  BY BoundsAssumption DEF TypeOK, Subs, None
<1>2. Named(<<>>) = {}
  BY DEF Named
<1>3. QED
  BY <1>1, <1>2 DEF SubsInv, HandlerOK, EntriesAreLive, LiveIsKnown, CodesAreTrue,
                   GrantsStand, None

(* Subscriptions are numbered from one, and each has a filter and a QoS.   *)
LEMMA SubsAreNumbered ==
  ASSUME TypeOK
  PROVE  /\ Len(made) \in Nat /\ Subs = 1..Len(made)
         /\ \A ns \in Subs : ns # 0 /\ made[ns].name \in Filters /\ made[ns].qos \in 0..1
<1>1. made \in Seq([name : Filters, qos : 0..1])
  BY DEF TypeOK
<1>2. Len(made) \in Nat /\ DOMAIN made = 1..Len(made)
  BY <1>1
<1>3. \A ns \in 1..Len(made) : made[ns] \in [name : Filters, qos : 0..1]
  BY <1>1, ElementOfSeq
<1>4. QED
  BY <1>2, <1>3 DEF Subs

(* The first critical section.                                             *)
LEMMA ReadKeeps ==
  ASSUME SubsInv, NEW topics \in Topics, Subscribe(topics) \/ Unsubscribe(topics)
  PROVE  SubsInv'
<1>1. PICK at \in {"resubscribe", "unsubscribe"} :
        /\ Read(topics, at)
        /\ twice' = IF at = "resubscribe" THEN twice \cup TwiceIn(topics) ELSE twice
  BY DEF Subscribe, Unsubscribe
<1>2. /\ topics \in Seq([name : Filters, qos : QoSLevels])
      /\ Named(topics) \subseteq Filters
  BY TopicsAreSequences
<1>3. TwiceIn(topics) \subseteq Named(topics)
  BY DEF TwiceIn, Named
<1>4. /\ handler' = [at |-> at, topics |-> topics, cancel |-> Collected(topics),
                     nss |-> {}, codes |-> <<>>]
      /\ handler.at = "read"
      /\ natsSubs' = WithoutEntries(topics)
      /\ UNCHANGED <<made, live, granted>>
      /\ packets < MaxPackets /\ packets' = packets + 1
  BY <1>1 DEF Read, Idle
<1>5. handler.topics = <<>> /\ handler.cancel = {} /\ handler.nss = {} /\ Named(<<>>) = {}
  BY <1>4 DEF SubsInv, HandlerOK, Named
<1>6. \A f \in Filters : natsSubs'[f] = IF f \in Named(topics) THEN 0 ELSE natsSubs[f]
  BY <1>4 DEF WithoutEntries
<1>7. \A ns \in Collected(topics) :
        ns \in live /\ made[ns].name \in Named(topics) /\ natsSubs[made[ns].name] = ns
  BY <1>2 DEF Collected, SubsInv, EntriesAreLive
<1>8. TypeOK'
  <2>1. natsSubs' \in [Filters -> {0} \cup Subs]
    BY <1>4 DEF WithoutEntries, SubsInv, TypeOK
  <2>2. Collected(topics) \subseteq Subs
    BY <1>2 DEF Collected, SubsInv, TypeOK
  <2>3. packets' \in 0..MaxPackets
    BY <1>4, BoundsAssumption DEF SubsInv, TypeOK
  <2>4. Subs' = Subs
    BY <1>4 DEF Subs
  <2>5. twice' \subseteq Filters
    BY <1>1, <1>2, <1>3 DEF SubsInv, TypeOK
  <2>6. handler' \in [at : {"read", "resubscribe", "subscribe", "unsubscribe", "unsuback"},
                      topics : Seq([name : Filters, qos : QoSLevels]),
                      cancel : SUBSET Subs, nss : SUBSET Subs, codes : Seq({0, 1, Failed})]
    BY <1>1, <1>2, <1>4, <2>2
  <2>7. QED
    BY <1>4, <2>1, <2>3, <2>4, <2>5, <2>6 DEF SubsInv, TypeOK
<1>9. HandlerOK'
  BY <1>1, <1>2, <1>4, <1>7 DEF HandlerOK
<1>10. EntriesAreLive'
  BY <1>4, <1>6 DEF EntriesAreLive, SubsInv
<1>11. LiveIsKnown'
  <2>1. \A ns \in live : made[ns].name \in Filters /\ ns # 0
    BY SubsAreNumbered DEF SubsInv, TypeOK
  <2>2. \A ns \in live : natsSubs[made[ns].name] = ns /\ made[ns].name \in Named(topics)
                         => ns \in Collected(topics)
    BY <2>1 DEF Collected
  <2>3. twice \subseteq twice'
    BY <1>1
  <2>4. QED
    BY <1>4, <1>5, <1>6, <2>1, <2>2, <2>3 DEF LiveIsKnown, SubsInv
<1>12. CodesAreTrue'
  <2>1. \A i \in DOMAIN topics : Fulfilled(i)'
    BY <1>4 DEF Fulfilled, MadeFor
  <2>2. handler'.at = "resubscribe" => TwiceIn(topics) \subseteq twice'
    BY <1>1, <1>4
  <2>3. QED
    BY <1>1, <1>4, <2>1, <2>2 DEF CodesAreTrue
<1>13. GrantsStand'
  BY <1>1, <1>3, <1>4, <1>5, <1>6 DEF GrantsStand, SubsInv
<1>14. QED
  BY <1>8, <1>9, <1>10, <1>11, <1>12, <1>13 DEF SubsInv

(* Cancelling takes what was collected from live, which no entry names.    *)
LEMMA CancelKeeps ==
  ASSUME SubsInv, CancelNatsSubscriptions
  PROVE  SubsInv'
<1>1. /\ handler.at \in {"resubscribe", "unsubscribe"}
      /\ handler.nss = {} /\ handler.codes = <<>>
      /\ UNCHANGED <<natsSubs, made, granted, twice, packets>>
  BY DEF CancelNatsSubscriptions, SubsInv, HandlerOK
<1>2. CASE \E ns \in handler.cancel :
              /\ live' = live \ {ns}
              /\ handler' = [handler EXCEPT !.cancel = @ \ {ns}]
  <2>1. PICK ns \in handler.cancel :
              /\ live' = live \ {ns}
              /\ handler' = [handler EXCEPT !.cancel = @ \ {ns}]
    BY <1>2
  <2>2. /\ handler'.at = handler.at /\ handler'.topics = handler.topics
        /\ handler'.cancel = handler.cancel \ {ns}
        /\ handler'.nss = {} /\ handler'.codes = <<>>
    BY <1>1, <2>1 DEF SubsInv, TypeOK
  <2>3. TypeOK'
    BY <1>1, <2>1 DEF SubsInv, TypeOK, Subs
  <2>4. HandlerOK'
    BY <1>1, <2>2 DEF SubsInv, HandlerOK
  <2>5. made[ns].name \in Named(handler.topics)
    BY <2>1 DEF SubsInv, HandlerOK
  <2>6. EntriesAreLive'
    BY <1>1, <2>1, <2>2, <2>5 DEF SubsInv, EntriesAreLive
  <2>7. LiveIsKnown'
    BY <1>1, <2>1, <2>2 DEF SubsInv, LiveIsKnown
  <2>8. \A i \in DOMAIN handler.topics : Fulfilled(i)'
    BY <1>1, <2>2 DEF Fulfilled, MadeFor, SubsInv, TypeOK
  <2>9. CodesAreTrue'
    BY <1>1, <2>2, <2>8 DEF SubsInv, CodesAreTrue
  <2>10. GrantsStand'
    BY <1>1, <2>2 DEF SubsInv, GrantsStand
  <2>11. QED
    BY <2>3, <2>4, <2>6, <2>7, <2>9, <2>10 DEF SubsInv
<1>3. CASE /\ handler.cancel = {}
           /\ handler' = [handler EXCEPT
                !.at = IF @ = "resubscribe" THEN "subscribe" ELSE "unsuback"]
           /\ UNCHANGED live
  <2>1. /\ handler'.at = IF handler.at = "resubscribe" THEN "subscribe" ELSE "unsuback"
        /\ handler'.topics = handler.topics /\ handler'.cancel = {}
        /\ handler'.nss = {} /\ handler'.codes = <<>>
    BY <1>1, <1>3 DEF SubsInv, TypeOK
  <2>2. TypeOK'
    BY <1>1, <1>3 DEF SubsInv, TypeOK, Subs
  <2>3. HandlerOK'
    BY <1>1, <2>1 DEF SubsInv, HandlerOK
  <2>4. EntriesAreLive' /\ GrantsStand'
    BY <1>1, <1>3, <2>1 DEF SubsInv, EntriesAreLive, GrantsStand
  <2>5. LiveIsKnown'
    BY <1>1, <1>3, <2>1 DEF SubsInv, LiveIsKnown
  <2>6. \A i \in DOMAIN handler.topics : Fulfilled(i)'
    BY <1>1, <2>1 DEF Fulfilled, MadeFor, SubsInv, TypeOK
  <2>7. CodesAreTrue'
    BY <1>1, <2>1, <2>6 DEF SubsInv, CodesAreTrue
  <2>8. QED
    BY <2>2, <2>3, <2>4, <2>5, <2>7 DEF SubsInv
<1>4. QED
  BY <1>2, <1>3 DEF CancelNatsSubscriptions

(* The topic at hand is named by the packet.                               *)
LEMMA TopicAtHand ==
  ASSUME SubsInv, More
  PROVE  LET i == Len(handler.codes) + 1
         IN  /\ Len(handler.codes) \in Nat /\ i \in DOMAIN handler.topics
             /\ handler.topics[i] = Topic /\ Topic \in [name : Filters, qos : QoSLevels]
             /\ Topic.name \in Named(handler.topics)
<1> DEFINE i == Len(handler.codes) + 1
<1>1. /\ handler.topics \in Seq([name : Filters, qos : QoSLevels])
      /\ handler.codes \in Seq({0, 1, Failed})
  BY DEF SubsInv, TypeOK
<1>2. i \in 1..Len(handler.topics) /\ DOMAIN handler.topics = 1..Len(handler.topics)
  BY <1>1 DEF More
<1>3. handler.topics[i] \in [name : Filters, qos : QoSLevels]
  BY <1>1, <1>2, ElementOfSeq
<1>4. QED
  BY <1>1, <1>2, <1>3 DEF Topic, Named

(* Two positions with the same filter make it one that is named twice.     *)
LEMMA NamedOnce ==
  ASSUME SubsInv, handler.at = "subscribe",
         NEW i \in DOMAIN handler.topics, NEW j \in DOMAIN handler.topics,
         handler.topics[i].name = handler.topics[j].name,
         handler.topics[i].name \notin twice
  PROVE  i = j
BY DEF SubsInv, CodesAreTrue, TwiceIn

(* A subscription is made for the topic at hand.                           *)
LEMMA NatsSubscribeKeeps ==
  ASSUME SubsInv, NatsSubscribe
  PROVE  SubsInv'
<1> DEFINE n == Len(made) + 1
           i == Len(handler.codes) + 1
           qos == Capped(Topic.qos)
<1>1. /\ Len(handler.codes) \in Nat /\ i \in DOMAIN handler.topics
      /\ handler.topics[i] = Topic /\ Topic \in [name : Filters, qos : QoSLevels]
      /\ Topic.name \in Named(handler.topics)
  BY TopicAtHand DEF NatsSubscribe
<1>2. qos \in {0, 1}
  BY <1>1 DEF Capped, QoSLevels
<1>3. /\ made \in Seq([name : Filters, qos : 0..1]) /\ handler.codes \in Seq({0, 1, Failed})
      /\ Len(made) \in Nat /\ Subs = 1..Len(made)
  BY SubsAreNumbered DEF SubsInv, TypeOK
<1>4. made' = Append(made, [name |-> Topic.name, qos |-> qos])
  BY DEF NatsSubscribe
<1>5. /\ made' \in Seq([name : Filters, qos : 0..1]) /\ Len(made') = n /\ Subs' = 1..n
      /\ made'[n].name = Topic.name /\ made'[n].qos = qos
      /\ \A ns \in Subs : made'[ns] = made[ns]
  <2>1. [name |-> Topic.name, qos |-> qos] \in [name : Filters, qos : 0..1]
    BY <1>1, <1>2
  <2>2. QED
    BY <1>3, <1>4, <2>1, AppendProperties DEF Subs
<1>6. /\ handler.at = "subscribe" /\ handler'.at = "subscribe"
      /\ handler'.topics = handler.topics
      /\ handler.cancel = {} /\ handler'.cancel = {}
      /\ handler'.nss = handler.nss \cup {n}
      /\ handler'.codes = Append(handler.codes, qos)
      /\ live' = live \cup {n} /\ n \notin Subs
      /\ UNCHANGED <<natsSubs, granted, twice, packets>>
  BY <1>3, <1>5 DEF NatsSubscribe, More, SubsInv, TypeOK, HandlerOK
<1>7. /\ handler'.codes \in Seq({0, 1, Failed}) /\ Len(handler'.codes) = i
      /\ handler'.codes[i] = qos
      /\ \A j \in 1..Len(handler.codes) : handler'.codes[j] = handler.codes[j]
  BY <1>2, <1>3, <1>6, AppendProperties
<1>8. live \subseteq Subs /\ handler.nss \subseteq Subs /\ Subs \subseteq Subs'
  BY <1>3, <1>5 DEF SubsInv, TypeOK
<1>9. TypeOK'
  <2>1. handler' = [handler EXCEPT !.nss = @ \cup {n}, !.codes = Append(@, qos)]
    BY <1>5 DEF NatsSubscribe
  <2>2. handler' \in [at : {"read", "resubscribe", "subscribe", "unsubscribe", "unsuback"},
                      topics : Seq([name : Filters, qos : QoSLevels]),
                      cancel : SUBSET Subs', nss : SUBSET Subs', codes : Seq({0, 1, Failed})]
    <3>1. handler.nss \cup {n} \subseteq Subs'
      BY <1>3, <1>5, <1>8
    <3>2. handler.cancel \subseteq Subs'
      BY <1>6
    <3>3. Append(handler.codes, qos) \in Seq({0, 1, Failed})
      BY <1>6, <1>7
    <3>4. QED
      BY <2>1, <3>1, <3>2, <3>3 DEF SubsInv, TypeOK
  <2>3. QED
    BY <1>3, <1>5, <1>6, <1>8, <2>2 DEF SubsInv, TypeOK
<1>10. HandlerOK'
  <2>1. \A ns \in handler'.nss : made'[ns].name \in Named(handler.topics)
    BY <1>1, <1>5, <1>6, <1>8 DEF SubsInv, HandlerOK
  <2>2. Len(handler'.codes) <= Len(handler'.topics)
    BY <1>1, <1>6, <1>7 DEF SubsInv, TypeOK
  <2>3. QED
    BY <1>6, <2>1, <2>2 DEF SubsInv, HandlerOK
<1>11. EntriesAreLive'
  BY <1>5, <1>6, <1>8 DEF SubsInv, EntriesAreLive
<1>12. LiveIsKnown'
  BY <1>5, <1>6, <1>8 DEF SubsInv, LiveIsKnown
<1>13. GrantsStand'
  <2>1. \A f \in Filters : natsSubs[f] # 0 => made'[natsSubs[f]] = made[natsSubs[f]]
    BY <1>5, <1>8 DEF SubsInv, EntriesAreLive
  <2>2. QED
    BY <1>6, <2>1 DEF SubsInv, GrantsStand
<1>14. ASSUME NEW j \in DOMAIN handler.topics, handler.topics[j].name \notin twice
       PROVE  Fulfilled(j)'
  <2> DEFINE f == handler.topics[j].name
  <2>1. Fulfilled(j)
    BY <1>6, <1>14 DEF SubsInv, CodesAreTrue
  <2>2. MadeFor(f)' = IF f = Topic.name THEN MadeFor(f) \cup {n} ELSE MadeFor(f)
    <3>1. \A ns \in handler.nss : made'[ns].name = made[ns].name
      BY <1>5, <1>8
    <3>2. handler'.nss = handler.nss \cup {n} /\ made'[n].name = Topic.name
      BY <1>5, <1>6
    <3>3. MadeFor(f)' = {ns \in handler'.nss : made'[ns].name = f}
      BY <1>6 DEF MadeFor
    <3>4. QED
      BY <3>1, <3>2, <3>3 DEF MadeFor
  <2>3. CASE j = i
    <3>1. MadeFor(f) = {}
      BY <2>1, <2>3, <1>1 DEF Fulfilled
    <3>2. MadeFor(f)' = {n} /\ n \in handler'.nss /\ made'[n].qos = handler'.codes[j]
      BY <3>1, <2>2, <2>3, <1>1, <1>5, <1>6, <1>7
    <3>3. j <= Len(handler'.codes) /\ handler'.codes[j] # Failed
      BY <1>1, <1>2, <1>7, <2>3 DEF Failed
    <3>4. QED
      BY <3>2, <3>3, <1>6 DEF Fulfilled
  <2>4. CASE j # i
    <3>1. f # Topic.name
      BY <1>1, <1>6, <1>14, <2>4, NamedOnce
    <3>2. MadeFor(f)' = MadeFor(f)
      BY <3>1, <2>2
    <3>3. j \in Nat
      BY DEF SubsInv, TypeOK
    <3>4. CASE j <= Len(handler.codes) /\ handler.codes[j] # Failed
      <4>1. PICK ns \in handler.nss :
                MadeFor(f) = {ns} /\ made[ns].qos = handler.codes[j]
        BY <2>1, <3>4 DEF Fulfilled
      <4>2. j \in 1..Len(handler.codes)
        BY <1>1, <3>4 DEF SubsInv, TypeOK
      <4>3. ns \in handler'.nss /\ made'[ns].qos = handler'.codes[j]
        BY <4>1, <4>2, <1>5, <1>6, <1>7, <1>8
      <4>4. j <= Len(handler'.codes) /\ handler'.codes[j] # Failed
        BY <1>1, <1>7, <3>4, <4>2
      <4>5. QED
        BY <3>2, <4>1, <4>3, <4>4, <1>6 DEF Fulfilled
    <3>5. CASE ~(j <= Len(handler.codes) /\ handler.codes[j] # Failed)
      <4>1. MadeFor(f) = {}
        BY <2>1, <3>5 DEF Fulfilled
      <4>2. ~(j <= Len(handler'.codes) /\ handler'.codes[j] # Failed)
        <5>1. j \in 1..Len(handler.topics)
          BY DEF SubsInv, TypeOK
        <5>2. QED
          BY <5>1, <1>1, <1>7, <2>4, <3>5
      <4>3. QED
        BY <3>2, <4>1, <4>2, <1>6 DEF Fulfilled
    <3>6. QED
      BY <3>4, <3>5
  <2>5. QED
    BY <2>3, <2>4
<1>15. CodesAreTrue'
  BY <1>6, <1>14 DEF SubsInv, CodesAreTrue
<1>16. QED
  BY <1>9, <1>10, <1>11, <1>12, <1>13, <1>15 DEF SubsInv

(* A subscription that NATS refuses leaves only its code.                  *)
LEMMA NatsSubscribeFailsKeeps ==
  ASSUME SubsInv, NatsSubscribeFails
  PROVE  SubsInv'
<1> DEFINE i == Len(handler.codes) + 1
<1>1. /\ Len(handler.codes) \in Nat /\ i \in DOMAIN handler.topics
      /\ DOMAIN handler.topics = 1..Len(handler.topics) /\ Len(handler.topics) \in Nat
  BY TopicAtHand DEF NatsSubscribeFails, SubsInv, TypeOK
<1>2. /\ handler.at = "subscribe" /\ handler'.at = "subscribe"
      /\ handler'.topics = handler.topics
      /\ handler'.cancel = handler.cancel /\ handler'.nss = handler.nss
      /\ handler'.codes = Append(handler.codes, Failed)
      /\ UNCHANGED <<natsSubs, made, live, granted, twice, packets>>
  BY DEF NatsSubscribeFails, More, SubsInv, TypeOK
<1>3. /\ handler'.codes \in Seq({0, 1, Failed}) /\ Len(handler'.codes) = i
      /\ handler'.codes[i] = Failed
      /\ \A j \in 1..Len(handler.codes) : handler'.codes[j] = handler.codes[j]
  BY <1>2, AppendProperties DEF SubsInv, TypeOK
<1>4. TypeOK'
  <2>1. handler' = [handler EXCEPT !.codes = Append(@, Failed)]
    BY DEF NatsSubscribeFails
  <2>2. QED
    BY <1>2, <1>3, <2>1 DEF SubsInv, TypeOK, Subs
<1>5. HandlerOK'
  BY <1>1, <1>2, <1>3 DEF SubsInv, HandlerOK
<1>6. EntriesAreLive' /\ GrantsStand'
  BY <1>2 DEF SubsInv, EntriesAreLive, GrantsStand
<1>7. LiveIsKnown'
  BY <1>2 DEF SubsInv, LiveIsKnown
<1>8. ASSUME NEW j \in DOMAIN handler.topics, handler.topics[j].name \notin twice
      PROVE  Fulfilled(j)'
  <2>1. Fulfilled(j) /\ j \in 1..Len(handler.topics)
    BY <1>1, <1>2, <1>8 DEF SubsInv, CodesAreTrue
  <2>2. MadeFor(handler.topics[j].name)' = MadeFor(handler.topics[j].name)
    BY <1>2 DEF MadeFor
  <2>3. CASE j \in 1..Len(handler.codes)
    <3>1. handler'.codes[j] = handler.codes[j] /\ j <= Len(handler.codes)
          /\ j <= Len(handler'.codes)
      BY <1>1, <1>3, <2>3
    <3>2. QED
      BY <1>2, <2>1, <2>2, <3>1 DEF Fulfilled
  <2>4. CASE j \notin 1..Len(handler.codes)
    <3>1. ~(j <= Len(handler.codes))
      BY <1>1, <2>1, <2>4
    <3>2. ~(j <= Len(handler'.codes) /\ handler'.codes[j] # Failed)
      BY <1>1, <1>3, <2>1, <3>1
    <3>3. QED
      BY <1>2, <2>1, <2>2, <3>1, <3>2 DEF Fulfilled
  <2>5. QED
    BY <2>3, <2>4
<1>9. CodesAreTrue'
  BY <1>2, <1>8 DEF SubsInv, CodesAreTrue
<1>10. QED
  BY <1>4, <1>5, <1>6, <1>7, <1>9 DEF SubsInv

(* SUBACK: what was made becomes the entries, and the codes are granted.   *)
LEMMA SubAckKeeps ==
  ASSUME SubsInv, SubAck
  PROVE  SubsInv'
<1>1. /\ handler.at = "subscribe" /\ Len(handler.codes) = Len(handler.topics)
      /\ handler.cancel = {}
      /\ handler' = [at |-> "read", topics |-> <<>>, cancel |-> {}, nss |-> {}, codes |-> <<>>]
      /\ UNCHANGED <<made, live, twice, packets>>
  BY DEF SubAck, Idle, SubsInv, HandlerOK
<1>2. /\ Len(handler.topics) \in Nat
      /\ DOMAIN handler.topics = 1..Len(handler.topics)
      /\ handler.codes \in Seq({0, 1, Failed})
  BY DEF SubsInv, TypeOK
<1>3. /\ Len(made) \in Nat /\ Subs = 1..Len(made)
      /\ handler.nss \subseteq live /\ live \subseteq Subs
  BY SubsAreNumbered DEF SubsInv, TypeOK, HandlerOK
<1>4. ASSUME NEW f \in Filters, MadeFor(f) # {}
      PROVE  LastFor(f) \in MadeFor(f) /\ natsSubs'[f] = LastFor(f)
  <2>1. MadeFor(f) \subseteq 1..Len(made)
    BY <1>3 DEF MadeFor
  <2>2. \E ns \in MadeFor(f) : \A other \in MadeFor(f) : ns >= other
    BY <1>3, <1>4, <2>1, HasLast
  <2>3. LastFor(f) \in MadeFor(f)
    BY <2>2 DEF LastFor
  <2>4. QED
    BY <1>4, <2>3 DEF SubAck
<1>5. \A f \in Filters : MadeFor(f) = {} => natsSubs'[f] = natsSubs[f]
  BY DEF SubAck
<1>6. \A f \in Filters : MadeFor(f) # {} => f \in Named(handler.topics)
  BY DEF MadeFor, SubsInv, HandlerOK
<1>7. Named(<<>>) = {}
  BY DEF Named
<1>8. ASSUME NEW f \in Named(handler.topics)
      PROVE  \E i \in DOMAIN handler.topics :
                /\ handler.topics[i].name = f /\ CodeFor(f) = handler.codes[i]
                /\ handler.codes[i] \in {0, 1, Failed}
  <2> DEFINE named == {i \in DOMAIN handler.topics : handler.topics[i].name = f}
  <2>1. named # {} /\ named \subseteq 1..Len(handler.topics)
    BY <1>2, <1>8 DEF Named
  <2>2. \E i \in named : \A j \in named : i >= j
    <3> HIDE DEF named
    <3>1. QED
      BY <1>2, <2>1, HasLast
  <2>3. PICK i \in named : CodeFor(f) = handler.codes[i]
    BY <2>2 DEF CodeFor
  <2>4. handler.codes[i] \in {0, 1, Failed}
    BY <1>1, <1>2, <2>1, ElementOfSeq
  <2>5. QED
    BY <2>3, <2>4
<1>9. TypeOK'
  <2>1. \A f \in Filters : natsSubs'[f] \in {0} \cup Subs
    BY <1>3, <1>4, <1>5 DEF MadeFor, SubsInv, TypeOK
  <2>2. natsSubs' \in [Filters -> {0} \cup Subs]
    BY <2>1 DEF SubAck
  <2>3. \A f \in Filters : granted'[f] \in {0, 1, Failed, None}
    BY <1>8 DEF SubAck, SubsInv, TypeOK
  <2>4. granted' \in [Filters -> {0, 1, Failed, None}]
    BY <2>3 DEF SubAck
  <2>5. QED
    BY <1>1, <2>2, <2>4 DEF SubsInv, TypeOK, Subs
<1>10. HandlerOK' /\ CodesAreTrue'
  BY <1>1 DEF HandlerOK, CodesAreTrue
<1>11. EntriesAreLive'
  BY <1>1, <1>3, <1>4, <1>5, <1>7 DEF SubsInv, EntriesAreLive, MadeFor
<1>12. ASSUME NEW f \in Named(handler.topics) \ twice, f \in Filters
       PROVE  /\ MadeFor(f) # {} => MadeFor(f) = {natsSubs'[f]}
              /\ CodeFor(f) # Failed => /\ MadeFor(f) # {}
                                        /\ made[natsSubs'[f]].qos = CodeFor(f)
              /\ CodeFor(f) = Failed => MadeFor(f) = {}
              /\ CodeFor(f) \in {0, 1, Failed}
  <2>1. PICK i \in DOMAIN handler.topics :
            /\ handler.topics[i].name = f /\ CodeFor(f) = handler.codes[i]
            /\ handler.codes[i] \in {0, 1, Failed}
    BY <1>8
  <2>2. Fulfilled(i) /\ i <= Len(handler.codes)
    BY <1>1, <1>2, <1>12, <2>1 DEF SubsInv, CodesAreTrue
  <2>3. CASE CodeFor(f) = Failed
    BY <2>1, <2>2, <2>3 DEF Fulfilled
  <2>4. CASE CodeFor(f) # Failed
    <3>1. PICK ns \in handler.nss : MadeFor(f) = {ns} /\ made[ns].qos = CodeFor(f)
      BY <2>1, <2>2, <2>4 DEF Fulfilled
    <3>2. natsSubs'[f] = ns
      BY <1>4, <1>12, <3>1
    <3>3. QED
      BY <2>1, <2>4, <3>1, <3>2
  <2>5. QED
    BY <2>3, <2>4
<1>13. LiveIsKnown'
  <2>1. SUFFICES ASSUME NEW ns \in live, made[ns].name \notin twice
                 PROVE  natsSubs'[made[ns].name] = ns
    BY <1>1 DEF LiveIsKnown
  <2>2. made[ns].name \in Filters
    BY <1>3, SubsAreNumbered DEF SubsInv
  <2>3. CASE natsSubs[made[ns].name] = ns
    <3>1. made[ns].name \notin Named(handler.topics)
      <4>1. ns # 0
        BY <1>3
      <4>2. QED
        BY <2>2, <2>3, <4>1 DEF SubsInv, EntriesAreLive
    <3>2. QED
      BY <1>5, <1>6, <2>2, <2>3, <3>1
  <2>4. CASE ns \in handler.nss
    <3>1. ns \in MadeFor(made[ns].name)
      BY <2>4 DEF MadeFor
    <3>2. QED
      BY <1>6, <1>12, <2>1, <2>2, <3>1
  <2>5. QED
    BY <1>1, <2>1, <2>3, <2>4 DEF SubsInv, LiveIsKnown
<1>14. GrantsStand'
  <2>1. SUFFICES ASSUME NEW f \in Filters \ twice
                 PROVE  IF granted'[f] \in {0, 1}
                        THEN natsSubs'[f] # 0 /\ made[natsSubs'[f]].qos = granted'[f]
                        ELSE natsSubs'[f] = 0
    BY <1>1 DEF GrantsStand
  <2>2. CASE f \in Named(handler.topics)
    <3>1. granted'[f] = CodeFor(f)
      BY <2>2 DEF SubAck
    <3>2. CASE CodeFor(f) = Failed
      <4>1. natsSubs'[f] = natsSubs[f] /\ natsSubs[f] = 0
        BY <1>5, <1>12, <2>2, <3>2 DEF SubsInv, EntriesAreLive
      <4>2. QED
        BY <3>1, <3>2, <4>1 DEF Failed
    <3>3. CASE CodeFor(f) # Failed
      <4>1. natsSubs'[f] \in Subs
        BY <1>3, <1>12, <2>2, <3>3 DEF MadeFor
      <4>2. QED
        BY <1>3, <1>12, <2>2, <3>1, <3>3, <4>1
    <3>4. QED
      BY <3>2, <3>3
  <2>3. CASE f \notin Named(handler.topics)
    <3>1. granted'[f] = granted[f] /\ natsSubs'[f] = natsSubs[f]
      BY <1>5, <1>6, <2>3 DEF SubAck
    <3>2. QED
      BY <2>3, <3>1 DEF SubsInv, GrantsStand
  <2>4. QED
    BY <2>2, <2>3
<1>15. QED
  BY <1>9, <1>10, <1>11, <1>13, <1>14 DEF SubsInv

(* UNSUBACK: the client is told that the filters of its packet are gone.   *)
LEMMA UnsubAckKeeps ==
  ASSUME SubsInv, UnsubAck
  PROVE  SubsInv'
<1>1. /\ handler.cancel = {} /\ handler.nss = {}
      /\ handler' = [at |-> "read", topics |-> <<>>, cancel |-> {}, nss |-> {}, codes |-> <<>>]
      /\ UNCHANGED <<natsSubs, made, live, twice, packets>>
      /\ Named(<<>>) = {}
  BY DEF UnsubAck, Idle, SubsInv, HandlerOK, Named
<1>2. \A f \in Filters :
        granted'[f] = IF f \in Named(handler.topics) THEN None ELSE granted[f]
  BY DEF UnsubAck
<1>3. TypeOK'
  <2>1. granted' \in [Filters -> {0, 1, Failed, None}]
    BY DEF UnsubAck, SubsInv, TypeOK
  <2>2. QED
    BY <1>1, <2>1 DEF SubsInv, TypeOK, Subs
<1>4. HandlerOK' /\ CodesAreTrue' /\ EntriesAreLive' /\ LiveIsKnown'
  BY <1>1 DEF HandlerOK, CodesAreTrue, SubsInv, EntriesAreLive, LiveIsKnown
<1>5. GrantsStand'
  BY <1>1, <1>2 DEF SubsInv, GrantsStand, EntriesAreLive, None
<1>6. QED
  BY <1>3, <1>4, <1>5 DEF SubsInv

LEMMA StepKeeps == SubsInv /\ [Next]_vars => SubsInv'
<1> SUFFICES ASSUME SubsInv, [Next]_vars PROVE SubsInv'
  OBVIOUS
<1>1. CASE \E topics \in Topics : Subscribe(topics) \/ Unsubscribe(topics)
  BY <1>1, ReadKeeps
<1>2. CASE CancelNatsSubscriptions
  BY <1>2, CancelKeeps
<1>3. CASE NatsSubscribes
  BY <1>3, NatsSubscribeKeeps, NatsSubscribeFailsKeeps, SubAckKeeps DEF NatsSubscribes
<1>4. CASE UnsubAck
  BY <1>4, UnsubAckKeeps
<1>5. CASE UNCHANGED vars
  <2>1. TypeOK' /\ HandlerOK' /\ EntriesAreLive' /\ LiveIsKnown' /\ GrantsStand'
    BY <1>5 DEF vars, SubsInv, TypeOK, Subs, HandlerOK, EntriesAreLive, LiveIsKnown,
                GrantsStand
  <2>2. \A i : Fulfilled(i)' = Fulfilled(i)
    BY <1>5 DEF vars, Fulfilled, MadeFor
  <2>3. CodesAreTrue'
    BY <1>5, <2>2 DEF vars, SubsInv, CodesAreTrue
  <2>4. QED
    BY <2>1, <2>3 DEF SubsInv
<1>6. QED
  BY <1>1, <1>2, <1>3, <1>4, <1>5 DEF Next

THEOREM Invariance == Spec => []SubsInv
BY InitInv, StepKeeps, PTL DEF Spec

-----------------------------------------------------------------------------
(* Every variable keeps its type, for packets with any number of topics.   *)
THEOREM TypeCorrect == Spec => []TypeOK
<1>1. SubsInv => TypeOK
  BY DEF SubsInv
<1>2. QED
  BY Invariance, <1>1, PTL

(* What NATS delivers to can be cancelled: natsSubs has it, or the handler *)
(* is working on it, unless a SUBSCRIBE has named its filter twice.        *)
THEOREM NothingLiveIsForgotten == Spec => []LiveIsKnown
<1>1. SubsInv => LiveIsKnown
  BY DEF SubsInv
<1>2. QED
  BY Invariance, <1>1, PTL

(* Between packets, SUBACK and UNSUBACK have told the truth about what is  *)
(* delivered, and with which QoS.                                          *)
THEOREM AcknowledgementsAreTrue == Spec => []AcksAreTrue
<1>1. SubsInv => AcksAreTrue
  <2>1. SUFFICES ASSUME SubsInv, handler.at = "read", NEW f \in Filters \ twice
                 PROVE  IF granted[f] \in {0, 1}
                        THEN \E ns \in live : LiveFor(f) = {ns} /\ made[ns].qos = granted[f]
                        ELSE LiveFor(f) = {}
    BY DEF AcksAreTrue
  <2>2. handler.cancel \cup handler.nss = {} /\ Named(handler.topics) = {}
    BY <2>1 DEF SubsInv, HandlerOK, Named
  <2>3. \A ns \in LiveFor(f) : ns = natsSubs[f] /\ ns # 0
    BY <2>1, <2>2, SubsAreNumbered DEF SubsInv, LiveIsKnown, LiveFor, TypeOK
  <2>4. natsSubs[f] # 0 => natsSubs[f] \in LiveFor(f)
    BY <2>1 DEF SubsInv, EntriesAreLive, LiveFor
  <2>5. IF granted[f] \in {0, 1}
        THEN natsSubs[f] # 0 /\ made[natsSubs[f]].qos = granted[f]
        ELSE natsSubs[f] = 0
    BY <2>1, <2>2 DEF SubsInv, GrantsStand
  <2>6. CASE granted[f] \in {0, 1}
    <3>1. LiveFor(f) = {natsSubs[f]} /\ natsSubs[f] \in live
      BY <2>3, <2>4, <2>5, <2>6 DEF LiveFor
    <3>2. QED
      BY <2>5, <2>6, <3>1
  <2>7. CASE granted[f] \notin {0, 1}
    BY <2>3, <2>5, <2>7
  <2>8. QED
    BY <2>6, <2>7
<1>2. QED
  BY Invariance, <1>1, PTL

(* A packet leaves the subscriptions of all other filters as they are.     *)
THEOREM OthersStay == Spec => OthersUndisturbed
<1> DEFINE Stays == \A f \in Filters \ Named(handler.topics) : LiveFor(f)' = LiveFor(f)
<1>1. ASSUME SubsInv, Next
      PROVE  Stays
  <2>1. CASE \E topics \in Topics : Subscribe(topics) \/ Unsubscribe(topics)
    BY <2>1 DEF Subscribe, Unsubscribe, Read, LiveFor
  <2>2. CASE CancelNatsSubscriptions
    <3>1. \A ns \in handler.cancel : made[ns].name \in Named(handler.topics)
      BY <1>1 DEF SubsInv, HandlerOK
    <3>2. QED
      BY <2>2, <3>1 DEF CancelNatsSubscriptions, LiveFor
  <2>3. CASE NatsSubscribe
    <3>1. Topic.name \in Named(handler.topics) /\ Topic \in [name : Filters, qos : QoSLevels]
      BY <1>1, <2>3, TopicAtHand DEF NatsSubscribe
    <3>2. /\ made \in Seq([name : Filters, qos : 0..1]) /\ live \subseteq 1..Len(made)
          /\ Len(made) \in Nat
      BY <1>1, SubsAreNumbered DEF SubsInv, TypeOK
    <3>3. /\ made' = Append(made, [name |-> Topic.name, qos |-> Capped(Topic.qos)])
          /\ live' = live \cup {Len(made')}
      BY <2>3 DEF NatsSubscribe
    <3>4. [name |-> Topic.name, qos |-> Capped(Topic.qos)] \in [name : Filters, qos : 0..1]
      BY <3>1 DEF Capped, QoSLevels
    <3>5. /\ Len(made') = Len(made) + 1 /\ made'[Len(made) + 1].name = Topic.name
          /\ \A ns \in 1..Len(made) : made'[ns] = made[ns]
      BY <3>2, <3>3, <3>4, AppendProperties
    <3>6. QED
      BY <3>1, <3>2, <3>3, <3>5 DEF LiveFor
  <2>4. CASE NatsSubscribeFails \/ SubAck \/ UnsubAck
    BY <2>4 DEF NatsSubscribeFails, SubAck, UnsubAck, LiveFor
  <2>5. QED
    BY <1>1, <2>1, <2>2, <2>3, <2>4 DEF Next, NatsSubscribes
<1>2. SubsInv /\ [Next]_vars => [Stays]_vars
  BY <1>1
<1>3. QED
  BY Invariance, <1>2, PTL DEF Spec, OthersUndisturbed

-----------------------------------------------------------------------------
(* The names of filters and topics, as the run of MCMqtt makes them.       *)

(* A character that is converted twice is itself.                          *)
LEMMA SwapTwice ==
  ASSUME NEW c
  PROVE  /\ SwapSeparator(SwapSeparator(c)) = c
         /\ SwapWildcard(SwapWildcard(c)) = c
  BY DEF SwapSeparator, SwapWildcard

(* The conversions are their own inverses.                                 *)
LEMMA ConvertTwice ==
  ASSUME NEW S, NEW s \in Seq(S)
  PROVE  /\ FromNATS(ToNATS(s)) = s
         /\ FromNATSSubscription(ToNATSSubscription(s)) = s
<1>1. s = [i \in DOMAIN s |-> s[i]]
  OBVIOUS
<1>2. FromNATS(ToNATS(s))
        = [i \in DOMAIN s |-> SwapSeparator(SwapSeparator(s[i]))]
  BY DEF FromNATS, ToNATS
<1>3. FromNATSSubscription(ToNATSSubscription(s))
        = [i \in DOMAIN s |-> SwapWildcard(SwapWildcard(s[i]))]
  BY DEF FromNATSSubscription, ToNATSSubscription
<1>4. QED
  BY <1>1, <1>2, <1>3, SwapTwice

(* Topics and filters are strings over their alphabets.                    *)
StringsOK == topic \in Seq(TopicChars) /\ filter \in Seq(FilterChars)

(* Different topics have different NATS subjects, and different filters    *)
(* different NATS subscriptions, so natsSubs, which is keyed by the        *)
(* converted filter (nats.go:73-76), never mixes up two filters.           *)
THEOREM ConversionsAreInjective ==
  ASSUME NEW S, NEW s \in Seq(S), NEW t \in Seq(S)
  PROVE  /\ ToNATS(s) = ToNATS(t) => s = t
         /\ ToNATSSubscription(s) = ToNATSSubscription(t) => s = t
  BY ConvertTwice

LEMMA StringsStayStrings == InputsSpec => []StringsOK
<1>1. InputsInit => StringsOK
  BY DEF InputsInit, StringsOK
<1>2. StringsOK /\ [InputsNext]_inputs => StringsOK'
  <2> SUFFICES ASSUME StringsOK, [InputsNext]_inputs PROVE StringsOK'
    OBVIOUS
  <2> USE DEF StringsOK
  <2>1. ASSUME NEW c \in TopicChars, LongerTopic(c) PROVE StringsOK'
    BY <2>1 DEF LongerTopic
  <2>2. ASSUME NEW c \in FilterChars, LongerFilter(c) PROVE StringsOK'
    BY <2>2 DEF LongerFilter
  <2>3. CASE Send
    BY <2>3 DEF Send
  <2>4. CASE UNCHANGED inputs
    BY <2>4 DEF inputs
  <2>5. QED
    BY <2>1, <2>2, <2>3, <2>4 DEF InputsNext
<1>3. QED
  BY <1>1, <1>2, PTL DEF InputsSpec

(* ToNATS and FromNATS, ToNATSSubscription and FromNATSSubscription        *)
(* (topic.go:47-105) are inverses of each other, for strings of any length *)
(* over any alphabet.                                                      *)
THEOREM ConversionsRoundTrip == InputsSpec => []RoundTrips
<1>1. StringsOK => RoundTrips
  BY ConvertTwice DEF StringsOK, RoundTrips
<1>2. QED
  BY <1>1, StringsStayStrings, PTL

-----------------------------------------------------------------------------
(* The matching of live messages, for topics and filters of any length.    *)

Below(cuts, n) == {m \in cuts : m < n}

(* Cuts are counted from the first to the last.                            *)
LEMMA CutsAreCounted ==
  ASSUME NEW max \in Nat, NEW cuts, cuts \subseteq 0..max
  PROVE  /\ IsFiniteSet(cuts) /\ Cardinality(cuts) \in Nat
         /\ \A i \in 1..Cardinality(cuts) :
               Nth(cuts, i) \in cuts /\ Cardinality(Below(cuts, Nth(cuts, i))) = i - 1
         /\ \A n \in cuts : /\ Cardinality(Below(cuts, n)) \in 0..(Cardinality(cuts) - 1)
                            /\ n = Nth(cuts, Cardinality(Below(cuts, n)) + 1)
         /\ \A m, n \in cuts :
               m < n <=> Cardinality(Below(cuts, m)) < Cardinality(Below(cuts, n))
<1> DEFINE card == Cardinality(cuts)
           count == [n \in cuts |-> Cardinality(Below(cuts, n))]
<1>1. IsFiniteSet(cuts) /\ card \in Nat
  <2>1. IsFiniteSet(0..max)
    BY FS_Interval
  <2>2. QED
    BY <2>1, FS_Subset, FS_CardinalityType
<1>2. ASSUME NEW n \in cuts PROVE count[n] \in 0..(card - 1)
  <2>1. Below(cuts, n) \subseteq cuts \ {n}
    BY DEF Below
  <2>2. IsFiniteSet(cuts \ {n}) /\ Cardinality(cuts \ {n}) = card - 1
    BY <1>1, FS_RemoveElement
  <2>3. IsFiniteSet(Below(cuts, n)) /\ Cardinality(Below(cuts, n)) <= card - 1
    BY <2>1, <2>2, FS_Subset
  <2>4. QED
    BY <1>1, <2>3, FS_CardinalityType
<1>3. ASSUME NEW m \in cuts, NEW n \in cuts, m < n PROVE count[m] < count[n]
  <2>1. Below(cuts, m) \cup {m} \subseteq Below(cuts, n)
    <3>1. \A k \in cuts : k \in 0..max
      OBVIOUS
    <3>2. \A k \in cuts : k < m => k < n
      BY <1>3, <3>1
    <3>3. QED
      BY <1>3, <3>2 DEF Below
  <2>2. m \notin Below(cuts, m)
    BY DEF Below
  <2>3. \A k \in cuts : IsFiniteSet(Below(cuts, k))
    BY <1>1, FS_Subset DEF Below
  <2>4. Cardinality(Below(cuts, m) \cup {m}) = count[m] + 1
    BY <2>2, <2>3, FS_AddElement
  <2>5. Cardinality(Below(cuts, m) \cup {m}) <= count[n]
    BY <2>1, <2>3, FS_Subset
  <2>6. QED
    BY <1>2, <2>4, <2>5
<1>4. ASSUME NEW m \in cuts, NEW n \in cuts PROVE m < n <=> count[m] < count[n]
  <2>1. CASE m < n
    BY <1>3, <2>1
  <2>2. CASE n < m
    BY <1>2, <1>3, <2>2
  <2>3. CASE m = n
    BY <1>2, <2>3
  <2>4. QED
    BY <2>1, <2>2, <2>3
<1>5. count \in Injection(cuts, 0..(card - 1))
  <2>1. count \in [cuts -> 0..(card - 1)]
    BY <1>2
  <2>2. \A m, n \in cuts : count[m] = count[n] => m = n
    BY <1>2, <1>4
  <2>3. QED
    BY <2>1, <2>2 DEF Injection, IsInjective
<1>6. IsFiniteSet(0..(card - 1)) /\ Cardinality(0..(card - 1)) = card
  BY SMTT(30), <1>1, FS_Interval
<1>7. count \in Surjection(cuts, 0..(card - 1))
  BY <1>5, <1>6, FS_Injection
<1>8. ASSUME NEW i \in 1..card PROVE Nth(cuts, i) \in cuts /\ count[Nth(cuts, i)] = i - 1
  <2>1. i - 1 \in 0..(card - 1)
    BY <1>1
  <2>2. \E n \in cuts : count[n] = i - 1
    BY <1>7, <2>1 DEF Surjection
  <2>3. \E n \in cuts : Cardinality({m \in cuts : m < n}) = i - 1
    BY <2>2 DEF Below
  <2>4. QED
    BY <2>3 DEF Nth, Below
<1>9. ASSUME NEW n \in cuts PROVE n = Nth(cuts, count[n] + 1)
  <2>1. PICK i : i = count[n] + 1
    OBVIOUS
  <2>2. i \in 1..card /\ i - 1 = count[n]
    BY <1>1, <1>2, <2>1
  <2>3. Nth(cuts, i) \in cuts /\ count[Nth(cuts, i)] = i - 1
    BY <1>8, <2>2
  <2>4. QED
    BY <1>5, <2>1, <2>2, <2>3 DEF Injection, IsInjective
<1>10. QED
  BY <1>1, <1>2, <1>4, <1>8, <1>9

(* Between two neighbouring cuts there is none.                            *)
LEMMA CutsInOrder ==
  ASSUME NEW max \in Nat, NEW cuts, cuts \subseteq 0..max,
         NEW i \in 1..(Cardinality(cuts) - 1)
  PROVE  /\ Nth(cuts, i) \in cuts /\ Nth(cuts, i + 1) \in cuts
         /\ Nth(cuts, i) < Nth(cuts, i + 1)
         /\ \A n \in cuts : n <= Nth(cuts, i) \/ n >= Nth(cuts, i + 1)
<1> DEFINE count(n) == Cardinality(Below(cuts, n))
<1>1. Cardinality(cuts) \in Nat
  BY CutsAreCounted
<1>2. PICK j : j = i + 1
  OBVIOUS
<1>3. i \in 1..Cardinality(cuts) /\ j \in 1..Cardinality(cuts)
  BY <1>1, <1>2
<1>4. PICK a, b : a = Nth(cuts, i) /\ b = Nth(cuts, j)
  OBVIOUS
<1>5. a \in cuts /\ b \in cuts /\ count(a) = i - 1 /\ count(b) = j - 1
  BY <1>3, <1>4, CutsAreCounted
<1>6. \A m, n \in cuts : m < n <=> count(m) < count(n)
  BY CutsAreCounted
<1>7. \A n \in cuts : count(n) \in Nat /\ n \in Nat
  <2>1. \A n \in cuts : count(n) \in 0..(Cardinality(cuts) - 1)
    BY CutsAreCounted
  <2>2. QED
    BY <1>1, <2>1
<1> HIDE DEF count
<1>8. a < b
  BY <1>2, <1>3, <1>5, <1>6
<1>9. ASSUME NEW n \in cuts PROVE n <= a \/ n >= b
  BY <1>2, <1>3, <1>5, <1>6, <1>7
<1>10. QED
  BY <1>2, <1>4, <1>5, <1>8, <1>9

(* There is a token after each cut but the last.                           *)
LEMMA TokensAreCounted ==
  ASSUME NEW S, NEW s \in Seq(S), NEW sep
  PROVE  /\ Cuts(s, sep) \subseteq 0..(Len(s) + 1) /\ Len(s) \in Nat
         /\ Cardinality(Cuts(s, sep)) \in Nat /\ Cardinality(Cuts(s, sep)) >= 2
         /\ DOMAIN Split(s, sep) = 1..(Cardinality(Cuts(s, sep)) - 1)
         /\ Len(Split(s, sep)) = Cardinality(Cuts(s, sep)) - 1
<1> DEFINE cuts == Cuts(s, sep)
           card == Cardinality(cuts)
<1>1. cuts \subseteq 0..(Len(s) + 1) /\ Len(s) + 1 \in Nat /\ Len(s) \in Nat
  BY DEF Cuts
<1>2. {0, Len(s) + 1} \subseteq cuts
  BY DEF Cuts
<1>3. IsFiniteSet(cuts) /\ card \in Nat
  BY <1>1, CutsAreCounted
<1>4. card >= 2
  <2>1. IsFiniteSet({0}) /\ Cardinality({0}) = 1
    BY FS_Singleton
  <2>2. Len(s) + 1 \notin {0}
    BY <1>1
  <2>3. Cardinality({0} \cup {Len(s) + 1}) = 1 + 1
    BY <2>1, <2>2, FS_AddElement
  <2>4. {0} \cup {Len(s) + 1} \in SUBSET cuts
    BY <1>2
  <2>5. Cardinality({0} \cup {Len(s) + 1}) <= card
    BY <1>3, <2>4, FS_Subset
  <2>6. QED
    BY <1>3, <2>3, <2>5
<1>5. Split(s, sep) = [i \in 1..(card - 1) |->
                         SubSeq(s, Nth(cuts, i) + 1, Nth(cuts, i + 1) - 1)]
  BY DEF Split
<1>6. QED
  BY <1>1, <1>3, <1>4, <1>5

(* The i-th token of s stands between the cuts a and b.                    *)
TokenAt(s, sep, i, a, b) ==
  /\ i \in DOMAIN Split(s, sep)
  /\ a = Nth(Cuts(s, sep), i) /\ b = Nth(Cuts(s, sep), i + 1)

(* The characters of s between the cuts a and b.                           *)
Between(s, a, b) == [k \in 1..(b - a - 1) |-> s[a + k]]

(* A token is what stands between two neighbouring cuts.                   *)
LEMMA TokenBetween ==
  ASSUME NEW S, NEW s \in Seq(S), NEW sep, NEW i, NEW a, NEW b,
         TokenAt(s, sep, i, a, b)
  PROVE  /\ a \in 0..Len(s) /\ b \in 1..(Len(s) + 1) /\ a < b
         /\ \A n \in Cuts(s, sep) : n <= a \/ n >= b
         /\ Split(s, sep)[i] = Between(s, a, b)
         /\ Split(s, sep)[i] \in Seq(S)
<1> DEFINE cuts == Cuts(s, sep)
<1>0. /\ i \in DOMAIN Split(s, sep) /\ a = Nth(cuts, i) /\ b = Nth(cuts, i + 1)
  BY DEF TokenAt
<1>1. /\ cuts \subseteq 0..(Len(s) + 1) /\ Len(s) + 1 \in Nat /\ Len(s) \in Nat
      /\ i \in 1..(Cardinality(cuts) - 1)
  BY <1>0, TokensAreCounted
<1>2. a \in cuts /\ b \in cuts /\ a < b /\ \A n \in cuts : n <= a \/ n >= b
  BY <1>0, <1>1, CutsInOrder
<1>3. a \in 0..Len(s) /\ b \in 1..(Len(s) + 1)
  BY <1>1, <1>2
<1>4. Split(s, sep)[i] = SubSeq(s, a + 1, b - 1)
  BY <1>0, <1>1 DEF Split
<1>5. SubSeq(s, a + 1, b - 1) = Between(s, a, b)
  BY <1>2, <1>3 DEF Between
<1>6. SubSeq(s, a + 1, b - 1) \in Seq(S)
  BY <1>2, <1>3
<1>7. QED
  BY <1>2, <1>3, <1>4, <1>5, <1>6

(* Every token stands between two cuts.                                    *)
LEMMA TokenHasCuts ==
  ASSUME NEW s, NEW sep, NEW i \in DOMAIN Split(s, sep)
  PROVE  \E a, b : TokenAt(s, sep, i, a, b)
<1>1. PICK a, b : a = Nth(Cuts(s, sep), i) /\ b = Nth(Cuts(s, sep), i + 1)
  OBVIOUS
<1>2. TokenAt(s, sep, i, a, b)
  BY <1>1 DEF TokenAt
<1>3. QED
  BY <1>2

(* The conversions keep the cuts and convert the tokens.                   *)
LEMMA ConvertedTokens ==
  ASSUME NEW S, NEW s \in Seq(S)
  PROVE  /\ DOMAIN Split(ToNATSSubscription(s), ".") = DOMAIN Split(s, "/")
         /\ DOMAIN Split(ToNATS(s), ".") = DOMAIN Split(s, "/")
         /\ Len(Split(ToNATSSubscription(s), ".")) = Len(Split(s, "/"))
         /\ Len(Split(ToNATS(s), ".")) = Len(Split(s, "/"))
         /\ \A i \in DOMAIN Split(s, "/") :
               /\ Split(ToNATSSubscription(s), ".")[i]
                    = ToNATSSubscription(Split(s, "/")[i])
               /\ Split(ToNATS(s), ".")[i] = ToNATS(Split(s, "/")[i])
<1> DEFINE cuts == Cuts(s, "/")
           card == Cardinality(cuts)
           w == ToNATSSubscription(s)
           t == ToNATS(s)
<1>1. /\ w = [i \in 1..Len(s) |-> SwapWildcard(s[i])]
      /\ t = [i \in 1..Len(s) |-> SwapSeparator(s[i])]
  BY DEF ToNATSSubscription, ToNATS
<1>2. PICK R : w \in Seq(R) /\ t \in Seq(R)
  <2>1. PICK R : R = {SwapWildcard(s[i]) : i \in 1..Len(s)}
                       \cup {SwapSeparator(s[i]) : i \in 1..Len(s)}
    OBVIOUS
  <2>2. Len(s) \in Nat
    OBVIOUS
  <2>3. (\A i \in 1..Len(s) : w[i] \in R) /\ (\A i \in 1..Len(s) : t[i] \in R)
    BY <1>1, <2>1
  <2>4. w \in Seq(R)
    BY <1>1, <2>2, <2>3
  <2>5. t \in Seq(R)
    BY <1>1, <2>2, <2>3
  <2>6. QED
    BY <2>4, <2>5
<1>3. Len(w) = Len(s) /\ Len(t) = Len(s)
  BY <1>1
<1>4. \A c : (SwapWildcard(c) = "." <=> c = "/") /\ (SwapSeparator(c) = "." <=> c = "/")
  BY DEF SwapWildcard, SwapSeparator
<1>5. Cuts(w, ".") = cuts /\ Cuts(t, ".") = cuts
  BY <1>1, <1>3, <1>4 DEF Cuts
<1>6. /\ DOMAIN Split(s, "/") = 1..(card - 1) /\ Len(Split(s, "/")) = card - 1
      /\ DOMAIN Split(w, ".") = 1..(card - 1) /\ Len(Split(w, ".")) = card - 1
      /\ DOMAIN Split(t, ".") = 1..(card - 1) /\ Len(Split(t, ".")) = card - 1
  BY <1>2, <1>5, TokensAreCounted
<1>7. ASSUME NEW i \in 1..(card - 1)
      PROVE  /\ Split(w, ".")[i] = ToNATSSubscription(Split(s, "/")[i])
             /\ Split(t, ".")[i] = ToNATS(Split(s, "/")[i])
  <2>1. PICK a, b : TokenAt(s, "/", i, a, b)
    BY <1>6, TokenHasCuts
  <2>2. PICK token : token = Split(s, "/")[i]
    OBVIOUS
  <2>3. /\ a \in 0..Len(s) /\ b \in 1..(Len(s) + 1) /\ a < b
        /\ token = [k \in 1..(b - a - 1) |-> s[a + k]]
    <3>1. /\ a \in 0..Len(s) /\ b \in 1..(Len(s) + 1) /\ a < b
          /\ token = Between(s, a, b)
      BY <2>1, <2>2, TokenBetween
    <3>2. QED
      BY <3>1 DEF Between
  <2>4. Split(w, ".")[i] = [k \in 1..(b - a - 1) |-> w[a + k]]
    <3>1. TokenAt(w, ".", i, a, b)
      BY <1>5, <1>6, <2>1 DEF TokenAt
    <3>2. Split(w, ".")[i] = Between(w, a, b)
      BY <1>2, <3>1, TokenBetween
    <3>3. QED
      BY <3>2 DEF Between
  <2>5. Split(t, ".")[i] = [k \in 1..(b - a - 1) |-> t[a + k]]
    <3>1. TokenAt(t, ".", i, a, b)
      BY <1>5, <1>6, <2>1 DEF TokenAt
    <3>2. Split(t, ".")[i] = Between(t, a, b)
      BY <1>2, <3>1, TokenBetween
    <3>3. QED
      BY <3>2 DEF Between
  <2>6. \A k \in 1..(b - a - 1) : a + k \in 1..Len(s)
    BY <2>3
  <2>7. \A k \in 1..(b - a - 1) : /\ w[a + k] = SwapWildcard(token[k])
                                  /\ t[a + k] = SwapSeparator(token[k])
    BY <1>1, <2>3, <2>6
  <2>8. DOMAIN token = 1..(b - a - 1)
    BY <2>3
  <2>9. Split(w, ".")[i] = [k \in DOMAIN token |-> SwapWildcard(token[k])]
    BY <2>4, <2>7, <2>8
  <2>10. Split(t, ".")[i] = [k \in DOMAIN token |-> SwapSeparator(token[k])]
    BY <2>5, <2>7, <2>8
  <2>11. QED
    BY <2>2, <2>9, <2>10 DEF ToNATSSubscription, ToNATS
<1>8. QED
  BY <1>6, <1>7

(* A wildcard is a level of its own, and "#" is the last.                  *)
LEMMA WildcardLevels ==
  ASSUME NEW S, NEW s \in Seq(S), ValidFilter(s),
         NEW i \in DOMAIN Split(s, "/"), NEW k \in DOMAIN Split(s, "/")[i],
         Split(s, "/")[i][k] \in {"+", "#"}
  PROVE  /\ Split(s, "/")[i] = <<Split(s, "/")[i][k]>>
         /\ Split(s, "/")[i][k] = "#" => i = Len(Split(s, "/"))
<1> DEFINE cuts == Cuts(s, "/")
           card == Cardinality(cuts)
<1>1. /\ card \in Nat /\ Len(s) \in Nat /\ i \in 1..(card - 1)
      /\ Len(Split(s, "/")) = card - 1
  BY TokensAreCounted
<1>2. PICK a, b : /\ a = Nth(cuts, i) /\ b = Nth(cuts, i + 1)
                  /\ TokenAt(s, "/", i, a, b)
  BY TokenHasCuts DEF TokenAt
<1>3. /\ a \in 0..Len(s) /\ b \in 1..(Len(s) + 1) /\ a < b
      /\ \A n \in cuts : n <= a \/ n >= b
      /\ Split(s, "/")[i] = [n \in 1..(b - a - 1) |-> s[a + n]]
  <2>1. /\ a \in 0..Len(s) /\ b \in 1..(Len(s) + 1) /\ a < b
        /\ \A n \in cuts : n <= a \/ n >= b
        /\ Split(s, "/")[i] = Between(s, a, b)
    BY <1>2, TokenBetween
  <2>2. QED
    BY <2>1 DEF Between
<1>4. PICK x : x = a + k
  OBVIOUS
<1>5. k \in 1..(b - a - 1) /\ x \in 1..Len(s) /\ Split(s, "/")[i][k] = s[x]
  BY <1>3, <1>4
<1>6. /\ x = 1 \/ s[x - 1] = "/"
      /\ x = Len(s) \/ s[x + 1] = "/"
      /\ s[x] = "#" => x = Len(s)
  BY <1>5 DEF ValidFilter, WholeLevel
<1>7. x - 1 \in cuts
  <2>1. CASE x = 1
    BY <2>1 DEF Cuts
  <2>2. CASE x # 1
    <3>1. x - 1 \in DOMAIN s
      BY <1>5, <2>2
    <3>2. QED
      BY <1>6, <2>2, <3>1 DEF Cuts
  <2>3. QED
    BY <2>1, <2>2
<1>8. x + 1 \in cuts
  <2>1. CASE x = Len(s)
    BY <2>1 DEF Cuts
  <2>2. CASE x # Len(s)
    <3>1. x + 1 \in DOMAIN s
      BY <1>5, <2>2
    <3>2. QED
      BY <1>6, <2>2, <3>1 DEF Cuts
  <2>3. QED
    BY <2>1, <2>2
<1>9. k = 1 /\ b = x + 1
  <2>1. x - 1 <= a
    BY <1>3, <1>4, <1>5, <1>7
  <2>2. x + 1 <= a \/ x + 1 >= b
    BY <1>3, <1>8
  <2>3. QED
    BY SMTT(30), <1>3, <1>4, <1>5, <2>1, <2>2
<1>10. Split(s, "/")[i] = <<s[x]>>
  BY <1>3, <1>4, <1>9
<1>11. s[x] = "#" => i = card - 1
  <2>1. SUFFICES ASSUME s[x] = "#", i # card - 1 PROVE FALSE
    OBVIOUS
  <2>2. PICK j : j = i + 1
    OBVIOUS
  <2>3. j \in 1..(card - 1)
    BY <1>1, <2>1, <2>2
  <2>4. j \in DOMAIN Split(s, "/")
    BY <2>3, TokensAreCounted
  <2>5. Nth(cuts, j) \in 0..Len(s)
    <3>1. PICK c, d : c = Nth(cuts, j) /\ TokenAt(s, "/", j, c, d)
      BY <2>4, TokenHasCuts DEF TokenAt
    <3>2. QED
      BY <3>1, TokenBetween
  <2>6. QED
    BY <1>1, <1>2, <1>6, <1>9, <2>1, <2>2, <2>5
<1>12. QED
  BY <1>1, <1>5, <1>10, <1>11

(* A level without wildcards matches the same level ...                    *)
LEMMA ConvertedLevel ==
  ASSUME NEW S, NEW x \in Seq(S), NEW R, NEW y \in Seq(R),
         \A k \in DOMAIN x : x[k] \notin {"+", "#", "*", ">"}
  PROVE  ToNATSSubscription(x) = ToNATS(y) <=> x = y
<1>1. ToNATSSubscription(x) = ToNATS(x)
  <2>1. \A k \in DOMAIN x : SwapWildcard(x[k]) = SwapSeparator(x[k])
    BY DEF SwapWildcard
  <2>2. QED
    BY <2>1 DEF ToNATSSubscription, ToNATS
<1>2. FromNATS(ToNATS(x)) = x /\ FromNATS(ToNATS(y)) = y
  BY ConvertTwice
<1>3. QED
  BY <1>1, <1>2

(* ... and a wildcard is converted to the wildcard of NATS.                *)
LEMMA ConvertedWildcard ==
  ASSUME NEW S, NEW x \in Seq(S)
  PROVE  /\ ToNATSSubscription(x) = <<"*">> <=> x = <<"+">>
         /\ ToNATSSubscription(x) = <<">">> <=> x = <<"#">>
<1>1. FromNATSSubscription(ToNATSSubscription(x)) = x
  BY ConvertTwice
<1>2. SwapWildcard("+") = "*" /\ SwapWildcard("#") = ">"
      /\ SwapWildcard("*") = "+" /\ SwapWildcard(">") = "#"
  BY DEF SwapWildcard
<1>3. ASSUME NEW c PROVE ToNATSSubscription(<<c>>) = <<SwapWildcard(c)>>
  BY DEF ToNATSSubscription
<1>4. QED
  BY <1>1, <1>2, <1>3 DEF FromNATSSubscription

(* NATS and MQTT agree on every level before "#".                          *)
LEMMA LevelsAgree ==
  ASSUME NEW F, NEW f \in Seq(F), "*" \notin F, ">" \notin F, ValidFilter(f),
         NEW T, NEW t \in Seq(T),
         NEW i \in DOMAIN Split(f, "/"), i \in DOMAIN Split(t, "/"),
         i # Len(Split(f, "/")) \/ Split(f, "/")[i] # <<"#">>
  PROVE  (\/ Split(ToNATSSubscription(f), ".")[i] = <<"*">>
          \/ Split(ToNATSSubscription(f), ".")[i] = Split(ToNATS(t), ".")[i])
           <=> (Split(f, "/")[i] = <<"+">> \/ Split(f, "/")[i] = Split(t, "/")[i])
<1>1. PICK x, y : x = Split(f, "/")[i] /\ y = Split(t, "/")[i]
  OBVIOUS
<1>2. x \in Seq(F) /\ y \in Seq(T)
  BY <1>1, TokenHasCuts, TokenBetween
<1>3. PICK X, Y : X = Split(ToNATSSubscription(f), ".")[i] /\ Y = Split(ToNATS(t), ".")[i]
  OBVIOUS
<1>4. X = ToNATSSubscription(x)
  BY <1>1, <1>3, ConvertedTokens
<1>5. Y = ToNATS(y)
  BY <1>1, <1>3, ConvertedTokens
<1>6. X = <<"*">> <=> x = <<"+">>
  BY <1>2, <1>4, ConvertedWildcard
<1>7. ASSUME x # <<"+">> PROVE \A k \in DOMAIN x : x[k] \notin {"+", "#", "*", ">"}
  <2>1. TAKE k \in DOMAIN x
  <2>2. x[k] \in F
    BY <1>2
  <2>3. x[k] # "+"
    <3>1. x[k] = "+" => x = <<"+">>
      BY <1>1, WildcardLevels
    <3>2. QED
      BY <1>7, <3>1
  <2>4. x[k] # "#"
    <3>1. x[k] = "#" => x = <<"#">> /\ i = Len(Split(f, "/"))
      BY <1>1, WildcardLevels
    <3>2. QED
      BY <1>1, <3>1
  <2>5. QED
    BY <2>2, <2>3, <2>4
<1>8. x # <<"+">> => (X = Y <=> x = y)
  <2>1. SUFFICES ASSUME x # <<"+">> PROVE X = Y <=> x = y
    OBVIOUS
  <2>2. \A k \in DOMAIN x : x[k] \notin {"+", "#", "*", ">"}
    BY <1>7, <2>1
  <2>3. QED
    BY <1>2, <1>4, <1>5, <2>2, ConvertedLevel
<1>9. QED
  BY <1>1, <1>3, <1>6, <1>8

(* What NATS matches is what MQTT matches, without the parent of "#".      *)
LEMMA NatsMatchesAsMqtt ==
  ASSUME NEW F, NEW f \in Seq(F), "*" \notin F, ">" \notin F, ValidFilter(f),
         NEW T, NEW t \in Seq(T)
  PROVE  LiveMatch(f, t)
           <=> MqttMatch(f, t) /\ ~(Len(Split(t, "/")) < Len(Split(f, "/")))
<1>1. PICK p, q : p = Split(f, "/") /\ q = Split(t, "/")
  OBVIOUS
<1>2. PICK P, Q : P = Split(ToNATSSubscription(f), ".") /\ Q = Split(ToNATS(t), ".")
  OBVIOUS
<1>3. PICK n, m : n = Len(p) /\ m = Len(q)
  OBVIOUS
<1>4. /\ n \in Nat /\ n >= 1 /\ m \in Nat /\ m >= 1
      /\ DOMAIN p = 1..n /\ DOMAIN q = 1..m
  <2>1. DOMAIN p = 1..n /\ n \in Nat /\ n >= 1
    BY <1>1, <1>3, TokensAreCounted
  <2>2. DOMAIN q = 1..m /\ m \in Nat /\ m >= 1
    BY <1>1, <1>3, TokensAreCounted
  <2>3. QED
    BY <2>1, <2>2
<1>5. Len(P) = n /\ Len(Q) = m
  <2>1. Len(P) = n
    BY <1>1, <1>2, <1>3, ConvertedTokens
  <2>2. Len(Q) = m
    BY <1>1, <1>2, <1>3, ConvertedTokens
  <2>3. QED
    BY <2>1, <2>2
<1>6. P[n] = <<">">> <=> p[n] = <<"#">>
  <2>1. p[n] \in Seq(F)
    BY <1>1, <1>4, TokenHasCuts, TokenBetween
  <2>2. P[n] = ToNATSSubscription(p[n])
    BY <1>1, <1>2, <1>4, ConvertedTokens
  <2>3. QED
    BY <2>1, <2>2, ConvertedWildcard
<1>7. ASSUME NEW i \in 1..n, i <= m, i # n \/ p[n] # <<"#">>
      PROVE  (P[i] = <<"*">> \/ P[i] = Q[i]) <=> (p[i] = <<"+">> \/ p[i] = q[i])
  <2>1. i \in DOMAIN p /\ i \in DOMAIN q /\ (i # Len(p) \/ p[i] # <<"#">>)
    BY <1>3, <1>4, <1>7
  <2>2. QED
    BY <1>1, <1>2, <2>1, LevelsAgree
<1>8. LiveMatch(f, t)
        <=> IF P[n] = <<">">>
            THEN m >= n /\ \A i \in 1..(n - 1) : P[i] = <<"*">> \/ P[i] = Q[i]
            ELSE m = n /\ \A i \in 1..n : P[i] = <<"*">> \/ P[i] = Q[i]
  BY SMTT(30), <1>2, <1>4, <1>5 DEF LiveMatch, NatsMatch, TokensMatch
<1>9. MqttMatch(f, t)
        <=> IF p[n] = <<"#">>
            THEN m >= n - 1 /\ \A i \in 1..(n - 1) : p[i] = <<"+">> \/ p[i] = q[i]
            ELSE m = n /\ \A i \in 1..n : p[i] = <<"+">> \/ p[i] = q[i]
  BY <1>1, <1>3, <1>4 DEF MqttMatch, TokensMatch
<1>10. CASE p[n] = <<"#">>
  <2>1. m >= n => ((\A i \in 1..(n - 1) : P[i] = <<"*">> \/ P[i] = Q[i])
                     <=> (\A i \in 1..(n - 1) : p[i] = <<"+">> \/ p[i] = q[i]))
    BY SMTT(30), <1>4, <1>7
  <2>2. QED
    BY SMTT(30), <1>1, <1>3, <1>4, <1>6, <1>8, <1>9, <1>10, <2>1
<1>11. CASE p[n] # <<"#">>
  <2>1. m = n => ((\A i \in 1..n : P[i] = <<"*">> \/ P[i] = Q[i])
                    <=> (\A i \in 1..n : p[i] = <<"+">> \/ p[i] = q[i]))
    BY <1>4, <1>7, <1>11
  <2>2. QED
    BY SMTT(30), <1>1, <1>3, <1>4, <1>6, <1>8, <1>9, <1>11, <2>1
<1>12. QED
  BY <1>10, <1>11

(* A subscriber gets exactly the live messages that MQTT says its filter   *)
(* matches, except those of the parent of "#", for topics and filters of   *)
(* any length: topic.go:47-88 converts the two by different functions, and *)
(* NATS matches what they make.  The filters have no characters that are   *)
(* wildcards of NATS, which topic.go:79-86 converts in filters only.       *)
THEOREM LiveMessagesAreMqtt ==
  ASSUME "*" \notin FilterChars, ">" \notin FilterChars
  PROVE  InputsSpec => []LiveIsMqtt
<1>1. StringsOK => LiveIsMqtt
  <2>1. SUFFICES ASSUME StringsOK, MayMatch
                 PROVE  LiveMatch(filter, topic)
                          = (MqttMatch(filter, topic) /\ ~ParentLevel)
    BY DEF LiveIsMqtt
  <2>2. /\ filter \in Seq(FilterChars) /\ topic \in Seq(TopicChars)
        /\ ValidFilter(filter)
    BY <2>1 DEF StringsOK, MayMatch
  <2>3. LiveMatch(filter, topic) <=> MqttMatch(filter, topic) /\ ~ParentLevel
    BY <2>2, NatsMatchesAsMqtt DEF ParentLevel
  <2>4. LiveMatch(filter, topic) \in BOOLEAN /\ MqttMatch(filter, topic) \in BOOLEAN
    BY DEF LiveMatch, MqttMatch, NatsMatch, TokensMatch
  <2>5. QED
    BY <2>3, <2>4
<1>2. QED
  BY <1>1, StringsStayStrings, PTL

-----------------------------------------------------------------------------
(* The matching of retained messages.                                      *)

(* Induction on numbers: a set of them that has 0 and the successor of     *)
(* each of its members has all.                                            *)
LEMMA UpTo ==
  ASSUME NEW max \in Nat, NEW P, 0 \in P,
         \A n \in 0..(max - 1) : n \in P => n + 1 \in P
  PROVE  \A n \in 0..max : n \in P
<1> DEFINE T == (0..max) \ P
<1>1. SUFFICES ASSUME T # {} PROVE FALSE
  OBVIOUS
<1>2. IsWellFoundedOn(Less, Nat)
  BY NatLessThanWellFounded DEF OpToRel, Less
<1>3. T \subseteq Nat
  OBVIOUS
<1>4. PICK n \in T : \A m \in T : <<m, n>> \notin Less
  BY <1>1, <1>2, <1>3, WFMin
<1>5. n \in 1..max
  OBVIOUS
<1>6. PICK k : k = n - 1
  OBVIOUS
<1>7. k \in 0..(max - 1) /\ k \in 0..max /\ k \in Nat /\ n \in Nat /\ k < n /\ k + 1 = n
  BY <1>5, <1>6
<1>8. <<k, n>> \in Less
  BY <1>7 DEF Less
<1>9. k \in P
  BY <1>4, <1>7, <1>8
<1>10. n \in P
  BY <1>7, <1>9
<1>11. QED
  BY <1>4, <1>10

(* A function may be defined by recursion on numbers.                      *)
Follows(f, max, first, Step) ==
    f[0] = first /\ \A n \in 1..max : f[n] = Step[n, f[n - 1]]

LEMMA Recursion ==
  ASSUME NEW max \in Nat, NEW R, NEW first \in R, NEW Step, Step \in [(1..max) \X R -> R]
  PROVE  \E f \in [0..max -> R] : Follows(f, max, first, Step)
<1> DEFINE Good(m, f) == f[0] = first /\ \A n \in 1..m : f[n] = Step[n, f[n - 1]]
           P == {m \in 0..max : \E f \in [0..m -> R] : Good(m, f)}
<1>1. 0 \in P
  <2>1. PICK g : g = [n \in 0..0 |-> first]
    OBVIOUS
  <2>2. g \in [0..0 -> R] /\ Good(0, g)
    BY <2>1
  <2>3. 0 \in 0..max
    OBVIOUS
  <2> HIDE DEF Good
  <2>4. QED
    BY <2>2, <2>3
<1>2. ASSUME NEW m \in 0..(max - 1), m \in P PROVE m + 1 \in P
  <2>1. PICK f \in [0..m -> R] : Good(m, f)
    BY <1>2
  <2>2. PICK k : k = m + 1
    OBVIOUS
  <2>3. /\ k \in 1..max /\ k - 1 = m /\ f[m] \in R /\ m \in 0..m /\ 0 \in 0..m
        /\ \A n \in 0..k : n # k => n \in 0..m
        /\ \A n \in 0..m : n \in 0..k /\ n # k
    BY <2>2
  <2>4. PICK v \in R : v = Step[k, f[m]]
    <3>1. <<k, f[m]>> \in (1..max) \X R
      BY <2>3
    <3>2. QED
      BY <3>1
  <2>5. PICK g : g = [n \in 0..k |-> IF n = k THEN v ELSE f[n]]
    OBVIOUS
  <2>6. g[k] = v /\ \A n \in 0..m : g[n] = f[n]
    <3>1. k \in 0..k
      BY <2>3
    <3>2. QED
      BY <2>3, <2>5, <3>1
  <2>7. g \in [0..k -> R]
    <3>1. \A n \in 0..k : (IF n = k THEN v ELSE f[n]) \in R
      BY <2>3
    <3>2. QED
      BY <2>5, <3>1
  <2>8. Good(k, g)
    <3>1. g[0] = first
      BY <2>1, <2>3, <2>6
    <3>2. ASSUME NEW n \in 1..k PROVE g[n] = Step[n, g[n - 1]]
      <4>1. CASE n = k
        <5>1. g[n - 1] = f[m] /\ g[n] = v
          BY <2>3, <2>6, <4>1
        <5>2. QED
          BY <2>4, <4>1, <5>1
      <4>2. CASE n # k
        <5>1. n \in 1..m /\ n \in 0..m /\ n - 1 \in 0..m
          BY <2>2, <4>2
        <5>2. g[n] = f[n] /\ g[n - 1] = f[n - 1]
          BY <2>6, <5>1
        <5>3. QED
          BY <2>1, <5>1, <5>2
      <4>3. QED
        BY <4>1, <4>2
    <3>3. QED
      BY <3>1, <3>2
  <2>9. k \in 0..max
    BY <2>3
  <2> HIDE DEF Good
  <2>10. QED
    BY <2>2, <2>7, <2>8, <2>9
<1>3. max \in P
  <2> HIDE DEF P
  <2>1. \A m \in 0..max : m \in P
    BY <1>1, <1>2, UpTo
  <2>2. QED
    BY <2>1
<1>4. QED
  BY <1>3 DEF Follows

(* What Reached is, step by step.                                          *)
LEMMA ReachedStepByStep ==
  ASSUME NEW R, NEW r \in Seq(R), NEW S, NEW text \in Seq(S)
  PROVE  /\ Reached(r, text)[0] = 1..(Len(text) + 1)
         /\ \A n \in 1..Len(r) :
               Reached(r, text)[n]
                 = {k \in 1..(Len(text) + 1) :
                      \E j \in Reached(r, text)[n - 1] : Matches(r[n], text, j, k)}
<1> DEFINE places == 1..(Len(text) + 1)
           Next1(n, from) == {k \in places : \E j \in from : Matches(r[n], text, j, k)}
           Eq(f) == f = [n \in 0..Len(r) |-> IF n = 0 THEN places ELSE Next1(n, f[n - 1])]
<1>1. PICK max : max = Len(r)
  OBVIOUS
<1>2. max \in Nat
  BY <1>1
<1>3. \E f : Eq(f)
  <2>1. PICK Step : Step = [x \in (1..max) \X SUBSET places |-> Next1(x[1], x[2])]
    OBVIOUS
  <2>2. Step \in [(1..max) \X SUBSET places -> SUBSET places]
    BY <2>1
  <2>3. ASSUME NEW n \in 1..max, NEW from \in SUBSET places
        PROVE  Step[n, from] = Next1(n, from)
    <3>1. PICK x : x = <<n, from>>
      OBVIOUS
    <3>2. x \in (1..max) \X SUBSET places /\ x[1] = n /\ x[2] = from
      BY <3>1
    <3>3. Step[x] = Next1(n, from)
      BY <2>1, <3>2
    <3>4. QED
      BY <3>1, <3>3
  <2> HIDE DEF Next1
  <2>4. PICK f \in [0..max -> SUBSET places] :
           f[0] = places /\ \A n \in 1..max : f[n] = Step[n, f[n - 1]]
    <3> HIDE DEF places
    <3>1. places \in SUBSET places
      OBVIOUS
    <3>2. PICK sub : sub = SUBSET places
      OBVIOUS
    <3>3. Step \in [(1..max) \X sub -> sub] /\ places \in sub
      BY <2>2, <3>1, <3>2
    <3>4. \E f \in [0..max -> sub] :
             f[0] = places /\ \A n \in 1..max : f[n] = Step[n, f[n - 1]]
      <4>1. \E f \in [0..max -> sub] : Follows(f, max, places, Step)
        BY <1>2, <3>3, Recursion
      <4>2. QED
        BY <4>1 DEF Follows
    <3>5. QED
      BY <3>2, <3>4
  <2>5. ASSUME NEW n \in 0..max
        PROVE  f[n] = IF n = 0 THEN places ELSE Next1(n, f[n - 1])
    <3>1. CASE n = 0
      BY <2>4, <3>1
    <3>2. CASE n # 0
      <4>1. n \in 1..max /\ n - 1 \in 0..max
        BY <1>2, <3>2
      <4>2. f[n - 1] \in SUBSET places
        BY <4>1
      <4>3. QED
        BY <2>3, <2>4, <3>2, <4>1, <4>2
    <3>3. QED
      BY <3>1, <3>2
  <2>6. Eq(f)
    <3> HIDE DEF places
    <3>1. f = [n \in 0..max |-> IF n = 0 THEN places ELSE Next1(n, f[n - 1])]
      BY <2>5
    <3>2. QED
      BY <1>1, <3>1
  <2>7. QED
    BY <2>6
<1>4. Reached(r, text) = CHOOSE f : Eq(f)
  BY DEF Reached
<1>5. PICK f : f = Reached(r, text)
  OBVIOUS
<1>6. Eq(f)
  <2> HIDE DEF Eq
  <2>1. QED
    BY <1>3, <1>4, <1>5
<1>7. f[0] = places
  BY <1>1, <1>2, <1>6
<1>8. ASSUME NEW n \in 1..Len(r) PROVE f[n] = Next1(n, f[n - 1])
  <2>1. n \in 0..Len(r) /\ n # 0
    BY <1>1, <1>2
  <2> HIDE DEF Next1, places
  <2>2. QED
    BY <1>6, <2>1
<1>9. QED
  BY <1>5, <1>7, <1>8

(* Where the first cut is, and the last one.                               *)
LEMMA TokenEnds ==
  ASSUME NEW S, NEW s \in Seq(S), NEW sep
  PROVE  /\ Nth(Cuts(s, sep), 1) = 0
         /\ Nth(Cuts(s, sep), Len(Split(s, sep)) + 1) = Len(s) + 1
<1> DEFINE cuts == Cuts(s, sep)
           card == Cardinality(cuts)
           max == Len(s) + 1
           count(n) == Cardinality(Below(cuts, n))
<1>1. /\ cuts \subseteq 0..max /\ Len(s) \in Nat /\ max \in Nat
      /\ card \in Nat /\ card >= 2
      /\ DOMAIN Split(s, sep) = 1..(card - 1) /\ Len(Split(s, sep)) = card - 1
  BY TokensAreCounted
<1>2. 0 \in cuts /\ max \in cuts
  BY DEF Cuts
<1>3. \A n \in cuts : count(n) \in 0..(card - 1) /\ n = Nth(cuts, count(n) + 1)
  <2> HIDE DEF cuts, max
  <2>1. QED
    BY <1>1, CutsAreCounted
<1>4. Nth(cuts, 1) = 0
  <2>1. Below(cuts, 0) = {}
    BY <1>1 DEF Below
  <2>2. count(0) = 0
    BY <2>1, FS_EmptySet
  <2>3. QED
    BY <1>2, <1>3, <2>2
<1>5. Nth(cuts, card) = max
  <2>1. PICK c : c = count(max)
    OBVIOUS
  <2>2. c \in 0..(card - 1) /\ Nth(cuts, c + 1) = max
    BY <1>2, <1>3, <2>1
  <2>3. ASSUME c < card - 1 PROVE FALSE
    <3>1. PICK i : i = c + 1
      OBVIOUS
    <3>2. i \in 1..(card - 1)
      BY <1>1, <2>2, <2>3, <3>1
    <3>3. Nth(cuts, i + 1) \in cuts /\ Nth(cuts, i) < Nth(cuts, i + 1)
      <4> HIDE DEF cuts, max
      <4>1. QED
        BY <1>1, <3>2, CutsInOrder
    <3>4. QED
      BY <1>1, <2>2, <3>1, <3>3
  <2>4. c = card - 1
    BY <1>1, <2>2, <2>3
  <2>5. QED
    BY <1>1, <2>2, <2>4
<1>6. QED
  BY <1>1, <1>4, <1>5

(* The token has the characters of s between a and b.                      *)
Spans(token, s, a, b) == \A k \in 1..(b - a - 1) : token[k] = s[a + k]

(* Where a token begins and where it ends are cuts, and its length is how  *)
(* far they are apart.                                                     *)
LEMMA TokenLength ==
  ASSUME NEW S, NEW s \in Seq(S), NEW sep, NEW i, NEW a, NEW b,
         TokenAt(s, sep, i, a, b), NEW token, token = Split(s, sep)[i]
  PROVE  /\ a \in Cuts(s, sep) /\ b \in Cuts(s, sep)
         /\ a \in Nat /\ a <= Len(s) /\ b \in Nat /\ a < b
         /\ Spans(token, s, a, b)
         /\ b = a + Len(token) + 1
<1>1. /\ a \in 0..Len(s) /\ b \in 1..(Len(s) + 1) /\ a < b
      /\ token = [k \in 1..(b - a - 1) |-> s[a + k]]
  <2>1. /\ a \in 0..Len(s) /\ b \in 1..(Len(s) + 1) /\ a < b
        /\ token = Between(s, a, b)
    BY TokenBetween
  <2>2. QED
    BY <2>1 DEF Between
<1>2. PICK cuts, max : cuts = Cuts(s, sep) /\ max = Len(s) + 1
  OBVIOUS
<1>3. /\ cuts \subseteq 0..max /\ max \in Nat /\ Len(s) \in Nat
      /\ i \in 1..(Cardinality(cuts) - 1)
      /\ a = Nth(cuts, i) /\ b = Nth(cuts, i + 1)
  BY <1>2, TokensAreCounted DEF TokenAt
<1>4. a \in cuts /\ b \in cuts
  BY <1>3, CutsInOrder
<1>5. b - a - 1 \in Nat /\ Len(token) = b - a - 1
  BY SMTT(30), <1>1, <1>3
<1>6. a \in Nat /\ a <= Len(s) /\ b \in Nat /\ a < b /\ b = a + Len(token) + 1
  BY SMTT(30), <1>1, <1>3, <1>5
<1>7. Spans(token, s, a, b)
  BY <1>1 DEF Spans
<1>8. QED
  BY <1>2, <1>4, <1>6, <1>7

(* Strings whose first m tokens agree agree up to the cut after these.     *)
LEMMA AgreeingTokens ==
  ASSUME NEW F, NEW f \in Seq(F), NEW T, NEW t \in Seq(T), NEW m \in Nat,
         m <= Len(Split(f, "/")), m <= Len(Split(t, "/")),
         \A i \in 1..m : Split(f, "/")[i] = Split(t, "/")[i]
  PROVE  /\ Nth(Cuts(f, "/"), m + 1) = Nth(Cuts(t, "/"), m + 1)
         /\ \A x \in 1..(Nth(Cuts(f, "/"), m + 1) - 1) : f[x] = t[x]
<1> DEFINE P == {i \in 0..m : /\ Nth(Cuts(f, "/"), i + 1) = Nth(Cuts(t, "/"), i + 1)
                              /\ \A x \in 1..(Nth(Cuts(f, "/"), i + 1) - 1) : f[x] = t[x]}
<1>1. PICK p, q : p = Split(f, "/") /\ q = Split(t, "/")
  OBVIOUS
<1>2. PICK C, D : C = Cuts(f, "/") /\ D = Cuts(t, "/")
  OBVIOUS
<1>3. Nth(C, 1) = 0 /\ Nth(D, 1) = 0
  <2>1. Nth(C, 1) = 0
    BY <1>2, TokenEnds
  <2>2. Nth(D, 1) = 0
    BY <1>2, TokenEnds
  <2>3. QED
    BY <2>1, <2>2
<1>4. 0 \in P
  BY <1>2, <1>3
<1>5. ASSUME NEW n \in 0..(m - 1), n \in P PROVE n + 1 \in P
  <2>1. PICK i : i = n + 1
    OBVIOUS
  <2>2. i \in 1..m /\ i \in 1..Len(p) /\ i \in 1..Len(q) /\ i \in DOMAIN p /\ i \in DOMAIN q
    <3>1. DOMAIN p = 1..Len(p) /\ Len(p) \in Nat
      BY <1>1, TokensAreCounted
    <3>2. DOMAIN q = 1..Len(q) /\ Len(q) \in Nat
      BY <1>1, TokensAreCounted
    <3>3. QED
      BY <1>1, <2>1, <3>1, <3>2
  <2>3. PICK a, b, c : a = Nth(C, i) /\ b = Nth(C, i + 1) /\ c = Nth(D, i + 1)
    OBVIOUS
  <2>4. Nth(D, i) = a /\ \A x \in 1..(a - 1) : f[x] = t[x]
    BY <1>2, <1>5, <2>1, <2>3
  <2>5. p[i] = q[i]
    BY <1>1, <2>2
  <2>6. PICK x, y : x = p[i] /\ y = q[i]
    OBVIOUS
  <2>7. /\ a \in C /\ a \in Nat /\ a <= Len(f) /\ a < b /\ b \in Nat
        /\ \A k \in 1..(b - a - 1) : x[k] = f[a + k]
        /\ b = a + Len(x) + 1
    <3>1. x = Split(f, "/")[i] /\ TokenAt(f, "/", i, a, b)
      BY <1>1, <1>2, <2>2, <2>3, <2>6 DEF TokenAt
    <3>2. a \in Cuts(f, "/") /\ a \in Nat /\ a <= Len(f) /\ a < b /\ b \in Nat
      BY <3>1, TokenLength
    <3>3. \A k \in 1..(b - a - 1) : x[k] = f[a + k]
      <4>1. Spans(x, f, a, b)
        BY <3>1, TokenLength
      <4>2. QED
        BY <4>1 DEF Spans
    <3>4. b = a + Len(x) + 1
      BY <3>1, TokenLength
    <3>5. QED
      BY <1>2, <3>2, <3>3, <3>4
  <2>8. /\ a \in D /\ a <= Len(t)
        /\ \A k \in 1..(c - a - 1) : y[k] = t[a + k]
        /\ c = a + Len(y) + 1
    <3>1. y = Split(t, "/")[i] /\ TokenAt(t, "/", i, a, c)
      BY <1>1, <1>2, <2>2, <2>3, <2>4, <2>6 DEF TokenAt
    <3>2. a \in Cuts(t, "/") /\ a \in Nat /\ a <= Len(t) /\ a < c /\ c \in Nat
      BY <3>1, TokenLength
    <3>3. \A k \in 1..(c - a - 1) : y[k] = t[a + k]
      <4>1. Spans(y, t, a, c)
        BY <3>1, TokenLength
      <4>2. QED
        BY <4>1 DEF Spans
    <3>4. c = a + Len(y) + 1
      BY <3>1, TokenLength
    <3>5. QED
      BY <1>2, <3>2, <3>3, <3>4
  <2>9. b = c
    BY <2>5, <2>6, <2>7, <2>8
  <2>10. a # 0 => f[a] = "/" /\ t[a] = "/"
    BY <1>2, <2>7, <2>8 DEF Cuts
  <2>11. ASSUME NEW z \in 1..(b - 1) PROVE f[z] = t[z]
    <3>1. CASE z < a
      BY <2>4, <2>7, <3>1
    <3>2. CASE z = a
      BY <2>10, <3>2
    <3>3. CASE z > a
      <4>1. PICK k : k = z - a
        OBVIOUS
      <4>2. k \in 1..(b - a - 1) /\ a + k = z
        BY <2>7, <3>3, <4>1
      <4>3. x[k] = f[z] /\ y[k] = t[z]
        BY <2>7, <2>8, <2>9, <4>2
      <4>4. QED
        BY <2>5, <2>6, <4>3
    <3>4. QED
      BY <2>7, <3>1, <3>2, <3>3
  <2>12. i \in 0..m
    BY <2>2
  <2>13. QED
    BY <1>2, <2>1, <2>3, <2>9, <2>11, <2>12
<1>6. m \in P
  <2> HIDE DEF P
  <2>1. m \in 0..m
    OBVIOUS
  <2>2. QED
    BY <1>4, <1>5, <2>1, UpTo
<1>7. QED
  BY <1>6

(* A regular expression is matched by a text that has the characters of    *)
(* the filter up to a, when at most a final "#" follows there.             *)
LEMMA PrefixIsReached ==
  ASSUME NEW F, NEW f \in Seq(F), NEW T, NEW t \in Seq(T), ValidFilter(f),
         \A x \in 1..Len(f) : f[x] # "+",
         NEW a \in Nat, a <= Len(t),
         a = Len(f) \/ (a + 1 = Len(f) /\ f[Len(f)] = "#"),
         \A x \in 1..a : f[x] = t[x]
  PROVE  RetainedMatch(f, t)
<1> DEFINE r == SubscriptionToRegexp(f)
           reached == Reached(r, t)
           n == Len(f)
           place(i) == IF i <= a THEN i + 1 ELSE a + 1
           P == {i \in 0..n : place(i) \in reached[i]}
<1>1. n \in Nat /\ Len(t) \in Nat
  OBVIOUS
<1>2. PICK R : r \in Seq(R) /\ Len(r) = n
  <2>1. PICK R : R = {r[i] : i \in 1..n}
    OBVIOUS
  <2>2. r \in [1..n -> R]
    BY <1>1, <2>1 DEF SubscriptionToRegexp
  <2>3. PICK g : g = r
    OBVIOUS
  <2>4. g \in [1..n -> R]
    BY <2>2, <2>3
  <2>5. g \in Seq(R) /\ Len(g) = n
    BY <1>1, <2>4
  <2>6. QED
    BY <2>3, <2>5
<1>3. ASSUME NEW i \in 1..n, i <= a
      PROVE  r[i] = Char(f[i]) \/ r[i] = [is |-> "matchRest"]
  BY <1>3 DEF SubscriptionToRegexp
<1>4. ASSUME NEW i \in 1..n, i > a PROVE r[i] = [is |-> "matchRest"]
  <2>1. i = n /\ f[i] = "#"
    BY <1>1, <1>4
  <2>2. WholeLevel(f, i)
    BY <2>1 DEF ValidFilter
  <2>3. QED
    BY <2>1, <2>2 DEF SubscriptionToRegexp
<1>5. /\ reached[0] = 1..(Len(t) + 1)
      /\ \A i \in 1..n :
            reached[i] = {k \in 1..(Len(t) + 1) :
                            \E j \in reached[i - 1] : Matches(r[i], t, j, k)}
  <2> HIDE DEF r
  <2>1. QED
    BY <1>2, ReachedStepByStep
<1> HIDE DEF reached, r
<1>6. 0 \in P
  BY <1>1, <1>5
<1>7. ASSUME NEW m \in 0..(n - 1), m \in P PROVE m + 1 \in P
  <2>1. PICK i : i = m + 1
    OBVIOUS
  <2>2. i \in 1..n /\ i - 1 = m /\ i \in 0..n /\ i \in Nat
    BY <1>1, <2>1
  <2>3. PICK j, k : j = place(m) /\ k = place(i)
    OBVIOUS
  <2>4. j \in reached[i - 1] /\ k \in 1..(Len(t) + 1)
    BY <1>1, <1>7, <2>2, <2>3
  <2>5. Matches(r[i], t, j, k)
    <3>1. j \in Nat /\ k \in Nat /\ j <= k
      BY <1>1, <2>1, <2>2, <2>3
    <3>2. CASE r[i] = [is |-> "matchRest"]
      BY <3>1, <3>2 DEF Matches
    <3>3. CASE i <= a /\ r[i] = Char(f[i])
      <4>1. j = i /\ k = i + 1 /\ f[i] = t[i]
        BY <2>1, <2>2, <2>3, <3>3
      <4>2. QED
        BY <3>3, <4>1 DEF Matches, Char
    <3>4. QED
      BY <1>3, <1>4, <2>2, <3>2, <3>3
  <2>6. k \in reached[i]
    BY <1>5, <2>2, <2>4, <2>5
  <2>7. QED
    BY <2>1, <2>2, <2>3, <2>6
<1>8. n \in P
  <2> HIDE DEF P
  <2>1. n \in 0..n
    BY <1>1
  <2> HIDE DEF n
  <2>2. QED
    BY <1>1, <1>6, <1>7, <2>1, UpTo
<1>9. reached[Len(r)] # {}
  BY <1>2, <1>8
<1>10. QED
  BY <1>9 DEF RetainedMatch, MatchString, reached, r

(* Where a live message arrives that no "+" matches, the retained message  *)
(* on its topic does, too.                                                 *)
LEMMA LiveMatchesAreRetained ==
  ASSUME NEW F, NEW f \in Seq(F), "*" \notin F, ">" \notin F, ValidFilter(f),
         \A x \in 1..Len(f) : f[x] # "+",
         NEW T, NEW t \in Seq(T), LiveMatch(f, t)
  PROVE  RetainedMatch(f, t)
<1>1. PICK p, q : p = Split(f, "/") /\ q = Split(t, "/")
  OBVIOUS
<1>2. PICK n, m : n = Len(p) /\ m = Len(q)
  OBVIOUS
<1>3. /\ n \in Nat /\ n >= 1 /\ DOMAIN p = 1..n /\ Len(f) \in Nat
  BY <1>1, <1>2, TokensAreCounted
<1>4. /\ m \in Nat /\ m >= 1 /\ DOMAIN q = 1..m /\ Len(t) \in Nat
  BY <1>1, <1>2, TokensAreCounted
<1>5. MqttMatch(f, t) /\ m >= n
  <2>1. MqttMatch(f, t) /\ ~(Len(Split(t, "/")) < Len(Split(f, "/")))
    BY NatsMatchesAsMqtt
  <2>2. QED
    BY <1>1, <1>2, <1>3, <1>4, <2>1
<1>6. IF p[n] = <<"#">>
      THEN \A i \in 1..(n - 1) : p[i] = <<"+">> \/ p[i] = q[i]
      ELSE m = n /\ \A i \in 1..n : p[i] = <<"+">> \/ p[i] = q[i]
  BY <1>1, <1>2, <1>5 DEF MqttMatch, TokensMatch
<1>7. ASSUME NEW i \in 1..n PROVE p[i] # <<"+">>
  <2>1. SUFFICES ASSUME p[i] = <<"+">> PROVE FALSE
    OBVIOUS
  <2>2. PICK a, b, token : /\ a = Nth(Cuts(f, "/"), i) /\ b = Nth(Cuts(f, "/"), i + 1)
                           /\ token = Split(f, "/")[i]
    OBVIOUS
  <2>3. TokenAt(f, "/", i, a, b)
    BY <1>1, <1>3, <2>2 DEF TokenAt
  <2>4. \A k \in 1..(b - a - 1) : token[k] = f[a + k]
    <3>1. Spans(token, f, a, b)
      BY <2>2, <2>3, TokenLength
    <3>2. QED
      BY <3>1 DEF Spans
  <2>5. b = a + Len(token) + 1 /\ a \in Nat /\ b \in Nat
    BY <2>2, <2>3, TokenLength
  <2>6. b \in 1..(Len(f) + 1)
    BY <2>2, <2>3, TokenBetween
  <2>7. token = <<"+">> /\ Len(token) = 1
    <3>1. token = <<"+">>
      BY <1>1, <2>1, <2>2
    <3>2. QED
      BY <3>1
  <2>8. a + 1 \in 1..Len(f) /\ 1 \in 1..(b - a - 1)
    BY <1>3, <2>5, <2>6, <2>7
  <2>9. f[a + 1] = "+"
    BY <2>4, <2>7, <2>8
  <2>10. QED
    BY <2>8, <2>9
<1>8. CASE p[n] # <<"#">>
  <2>1. m = n /\ \A i \in 1..n : p[i] = q[i]
    BY <1>6, <1>7, <1>8
  <2>2. PICK c : c = Nth(Cuts(f, "/"), n + 1)
    OBVIOUS
  <2>3. /\ n <= Len(Split(f, "/")) /\ n <= Len(Split(t, "/"))
        /\ \A i \in 1..n : Split(f, "/")[i] = Split(t, "/")[i]
    BY <1>1, <1>2, <1>3, <2>1
  <2>4. c = Nth(Cuts(t, "/"), n + 1)
    BY <1>3, <2>2, <2>3, AgreeingTokens
  <2>5. \A x \in 1..(c - 1) : f[x] = t[x]
    BY <1>3, <2>2, <2>3, AgreeingTokens
  <2>6. c = Len(f) + 1
    BY <1>1, <1>2, <2>2, TokenEnds
  <2>7. c = Len(t) + 1
    BY <1>1, <1>2, <2>1, <2>4, TokenEnds
  <2>8. PICK a : a = Len(f)
    OBVIOUS
  <2>9. a \in Nat /\ a <= Len(t) /\ \A x \in 1..a : f[x] = t[x]
    BY <1>3, <1>4, <2>5, <2>6, <2>7, <2>8
  <2>10. QED
    BY <2>8, <2>9, PrefixIsReached
<1>9. CASE p[n] = <<"#">>
  <2>1. PICK k : k = n - 1
    OBVIOUS
  <2>2. k \in Nat /\ k + 1 = n
    BY <1>3, <2>1
  <2>3. \A i \in 1..k : p[i] = q[i]
    BY <1>3, <1>6, <1>7, <1>9, <2>1
  <2>4. PICK a, b, token : /\ a = Nth(Cuts(f, "/"), n) /\ b = Nth(Cuts(f, "/"), n + 1)
                           /\ token = Split(f, "/")[n]
    OBVIOUS
  <2>5. /\ k <= Len(Split(f, "/")) /\ k <= Len(Split(t, "/"))
        /\ \A i \in 1..k : Split(f, "/")[i] = Split(t, "/")[i]
    BY <1>1, <1>2, <1>3, <1>4, <1>5, <2>1, <2>3
  <2>6. a = Nth(Cuts(t, "/"), n)
    BY <2>2, <2>4, <2>5, AgreeingTokens
  <2>7. \A x \in 1..(a - 1) : f[x] = t[x]
    BY SMTT(30), <2>2, <2>4, <2>5, AgreeingTokens
  <2>8. TokenAt(f, "/", n, a, b) /\ n \in DOMAIN Split(t, "/")
    BY <1>1, <1>3, <1>4, <1>5, <2>4 DEF TokenAt
  <2>9. a \in Nat /\ a <= Len(f) /\ a \in Cuts(f, "/")
    BY <2>4, <2>8, TokenLength
  <2>10. b = a + Len(token) + 1
    BY <2>4, <2>8, TokenLength
  <2>11. \A x \in 1..(b - a - 1) : token[x] = f[a + x]
    <3>1. Spans(token, f, a, b)
      BY <2>4, <2>8, TokenLength
    <3>2. QED
      BY <3>1 DEF Spans
  <2>12. a <= Len(t) /\ a \in Cuts(t, "/")
    <3>1. PICK c, other : TokenAt(t, "/", n, a, c) /\ other = Split(t, "/")[n]
      BY <2>6, <2>8 DEF TokenAt
    <3>2. QED
      BY <3>1, TokenLength
  <2>13. b = Len(f) + 1
    BY <1>1, <1>2, <2>4, TokenEnds
  <2>14. token = <<"#">> /\ Len(token) = 1
    <3>1. token = <<"#">>
      BY <1>1, <1>9, <2>4
    <3>2. QED
      BY <3>1
  <2>15. a + 1 = Len(f) /\ f[Len(f)] = "#"
    <3>1. a + 1 = Len(f) /\ 1 \in 1..(b - a - 1)
      BY <1>3, <2>9, <2>10, <2>13, <2>14
    <3>2. token[1] = f[a + 1]
      BY <2>11, <3>1
    <3>3. QED
      BY <2>14, <3>1, <3>2
  <2>16. ASSUME NEW x \in 1..a PROVE f[x] = t[x]
    <3>1. CASE x < a
      BY <2>7, <2>9, <3>1
    <3>2. CASE x = a
      <4>1. f[a] = "/" /\ t[a] = "/"
        BY <1>3, <1>4, <2>9, <2>12, <3>2 DEF Cuts
      <4>2. QED
        BY <3>2, <4>1
    <3>3. QED
      BY <2>9, <3>1, <3>2
  <2>17. QED
    BY <2>9, <2>12, <2>15, <2>16, PrefixIsReached
<1>10. QED
  BY <1>8, <1>9

(* A subscriber whose filter has no "+" is sent at least the retained      *)
(* messages on the topics whose live messages it gets, and a NATS client   *)
(* that asks for them with the same filter is, too, for topics and filters *)
(* of any length (topic.go:22-41, retained.go:104-150).  With "+" they are *)
(* not: matchSegment matches nothing but separators.                       *)
THEOREM RetainedMessagesFollowLive ==
  ASSUME "*" \notin FilterChars, ">" \notin FilterChars
  PROVE  InputsSpec => []LiveIsRetained
<1>1. StringsOK => LiveIsRetained
  <2>1. SUFFICES ASSUME StringsOK, MayMatch, "+" \notin ToSet(filter),
                        LiveMatch(filter, topic)
                 PROVE  /\ RetainedMatch(filter, topic)
                        /\ RequestMatch(ToNATSSubscription(filter), topic)
    BY DEF LiveIsRetained
  <2>2. /\ filter \in Seq(FilterChars) /\ topic \in Seq(TopicChars)
        /\ ValidFilter(filter)
    BY <2>1 DEF StringsOK, MayMatch
  <2>3. \A x \in 1..Len(filter) : filter[x] # "+"
    BY <2>1, <2>2 DEF ToSet
  <2>4. RetainedMatch(filter, topic)
    BY <2>1, <2>2, <2>3, LiveMatchesAreRetained
  <2>5. FromNATSSubscription(ToNATSSubscription(filter)) = filter
    BY <2>2, ConvertTwice
  <2>6. QED
    BY <2>4, <2>5 DEF RequestMatch
<1>2. QED
  BY <1>1, StringsStayStrings, PTL

-----------------------------------------------------------------------------
(* What is persisted.                                                      *)

(* A PUBLISH whose strings are ASCII; its payload is any bytes.            *)
ASCII == 0..127
PublishPacket ==
    [tp : {"PUBLISH"}, id : Nat, name : Seq(ASCII), payload : Bytes,
     replyTo : Seq(ASCII), flags : Nat]

LEMMA OneMember ==
  ASSUME NEW json, NEW keys, NEW default, NEW m \in json, m.key \in keys,
         \A x \in json : x.key \in keys => x = m
  PROVE  MemberOf(json, keys, default) = m.value
<1>1. {x \in json : x.key \in keys} = {m}
  OBVIOUS
<1>2. (CHOOSE x \in {m} : TRUE) = m
  OBVIOUS
<1>3. QED
  BY <1>1, <1>2 DEF MemberOf

LEMMA NoMember ==
  ASSUME NEW json, NEW keys, NEW default, \A x \in json : x.key \notin keys
  PROVE  MemberOf(json, keys, default) = default
<1>1. {x \in json : x.key \in keys} = {}
  OBVIOUS
<1>2. QED
  BY <1>1 DEF MemberOf

(* JSON keeps every PUBLISH whose strings are ASCII, whatever its payload. *)
LEMMA JSONKeeps ==
  ASSUME NEW p \in PublishPacket
  PROVE  UnmarshalFromJSON(MarshalToJSON(p)) = p
<1> DEFINE json == MarshalToJSON(p)
           flags == [key |-> "flags", value |-> <<p.flags>>]
           id == [key |-> "id", value |-> <<p.id>>]
           name == [key |-> "name", value |-> JSONString(p.name)]
           text == [key |-> "payload", value |-> JSONString(p.payload)]
           enc == [key |-> "payloadEnc", value |-> p.payload]
           reply == [key |-> "replyTo", value |-> JSONString(p.replyTo)]
           payloads == IF p.payload = <<>> THEN {}
                       ELSE IF IsPrintableASCII(p.payload) THEN {text} ELSE {enc}
           replies == IF p.replyTo = <<>> THEN {} ELSE {reply}
<1>1. /\ p.id \in Nat /\ p.flags \in Nat /\ p.name \in Seq(ASCII)
      /\ p.payload \in Bytes /\ p.replyTo \in Seq(ASCII)
      /\ p = [tp |-> "PUBLISH", id |-> p.id, name |-> p.name, payload |-> p.payload,
              replyTo |-> p.replyTo, flags |-> p.flags]
  BY DEF PublishPacket
<1>2. ASSUME NEW s, s \in Seq(ASCII) \/ (s \in Bytes /\ IsPrintableASCII(s))
      PROVE  JSONString(s) = s
  <2>1. PICK R : s \in Seq(R)
    BY <1>2 DEF Bytes
  <2>2. \A i \in DOMAIN s : s[i] < 128
    <3>1. CASE s \in Seq(ASCII)
      <4>1. \A i \in DOMAIN s : s[i] \in ASCII
        BY <3>1
      <4>2. QED
        BY <4>1 DEF ASCII
    <3>2. CASE IsPrintableASCII(s)
      BY <3>2 DEF IsPrintableASCII
    <3>3. QED
      BY <1>2, <3>1, <3>2
  <2>3. s = [i \in DOMAIN s |-> s[i]]
    BY <2>1
  <2>4. QED
    BY <2>2, <2>3 DEF JSONString
<1>3. json = {flags, id, name} \cup payloads \cup replies
  BY DEF MarshalToJSON
<1>4. /\ flags.key = "flags" /\ id.key = "id" /\ name.key = "name"
      /\ \A m \in payloads : m.key \in {"payload", "payloadEnc"}
      /\ \A m \in replies : m.key = "replyTo"
  OBVIOUS
<1> HIDE DEF json
<1>5. MemberOf(json, {"flags"}, <<0>>) = <<p.flags>>
  <2>1. flags.value = <<p.flags>>
    OBVIOUS
  <2> HIDE DEF flags, id, name, payloads, replies
  <2>2. MemberOf(json, {"flags"}, <<0>>) = flags.value
    BY <1>3, <1>4, OneMember
  <2>3. QED
    BY <2>1, <2>2
<1>6. MemberOf(json, {"id"}, <<0>>) = <<p.id>>
  <2>1. id.value = <<p.id>>
    OBVIOUS
  <2> HIDE DEF flags, id, name, payloads, replies
  <2>2. MemberOf(json, {"id"}, <<0>>) = id.value
    BY <1>3, <1>4, OneMember
  <2>3. QED
    BY <2>1, <2>2
<1>7. MemberOf(json, {"name"}, <<>>) = p.name
  <2>1. name.value = p.name
    BY <1>1, <1>2
  <2> HIDE DEF flags, id, name, payloads, replies
  <2>2. MemberOf(json, {"name"}, <<>>) = name.value
    BY <1>3, <1>4, OneMember
  <2>3. QED
    BY <2>1, <2>2
<1>8. MemberOf(json, {"replyTo"}, <<>>) = p.replyTo
  <2>1. reply.value = p.replyTo
    BY <1>1, <1>2
  <2>2. CASE p.replyTo = <<>>
    <3>1. replies = {}
      BY <2>2
    <3> HIDE DEF flags, id, name, payloads, replies
    <3>2. \A x \in json : x.key \notin {"replyTo"}
      BY <1>3, <1>4, <3>1
    <3>3. QED
      BY <2>2, <3>2, NoMember
  <2>3. CASE p.replyTo # <<>>
    <3>1. replies = {reply}
      BY <2>3
    <3> HIDE DEF flags, id, name, payloads, replies, reply
    <3>2. MemberOf(json, {"replyTo"}, <<>>) = reply.value
      BY <1>3, <1>4, <3>1, OneMember
    <3>3. QED
      BY <2>1, <3>2
  <2>4. QED
    BY <2>2, <2>3
<1>9. MemberOf(json, {"payload", "payloadEnc"}, <<>>) = p.payload
  <2>1. CASE p.payload = <<>>
    <3>1. payloads = {}
      BY <2>1
    <3> HIDE DEF flags, id, name, payloads, replies
    <3>2. \A x \in json : x.key \notin {"payload", "payloadEnc"}
      BY <1>3, <1>4, <3>1
    <3>3. QED
      BY <2>1, <3>2, NoMember
  <2>2. CASE p.payload # <<>>
    <3>1. PICK m : /\ payloads = {m} /\ m.value = p.payload
                   /\ m.key \in {"payload", "payloadEnc"}
      <4>1. CASE IsPrintableASCII(p.payload)
        <5>1. payloads = {text} /\ text.value = JSONString(p.payload) /\ text.key = "payload"
          BY <2>2, <4>1
        <5>2. JSONString(p.payload) = p.payload
          BY <1>1, <1>2, <4>1
        <5>3. QED
          BY <5>1, <5>2
      <4>2. CASE ~IsPrintableASCII(p.payload)
        <5>1. payloads = {enc} /\ enc.value = p.payload /\ enc.key = "payloadEnc"
          BY <2>2, <4>2
        <5>2. QED
          BY <5>1
      <4>3. QED
        BY <4>1, <4>2
    <3> HIDE DEF flags, id, name, payloads, replies
    <3>2. PICK keys : keys = {"payload", "payloadEnc"}
      OBVIOUS
    <3>3. m \in json /\ m.key \in keys /\ \A x \in json : x.key \in keys => x = m
      BY <1>3, <1>4, <3>1, <3>2
    <3>4. MemberOf(json, keys, <<>>) = m.value
      BY <3>3, OneMember
    <3>5. QED
      BY <3>1, <3>2, <3>4
  <2>3. QED
    BY <2>1, <2>2
<1>10. UnmarshalFromJSON(json)
         = [tp |-> "PUBLISH", flags |-> p.flags, id |-> p.id, name |-> p.name,
            replyTo |-> p.replyTo, payload |-> p.payload]
  BY <1>5, <1>6, <1>7, <1>8, <1>9 DEF UnmarshalFromJSON
<1>11. QED
  BY <1>1, <1>10 DEF json

(* What was sent: every PUBLISH has strings that are ASCII.                *)
SentOK == \A i \in DOMAIN sent : sent[i].tp = "PUBLISH" => sent[i] \in PublishPacket

LEMMA PacketsAreTyped ==
  ASSUME StringsOK, NEW p \in Packets, p.tp = "PUBLISH"
  PROVE  p \in PublishPacket
<1>1. Name \in Seq(ASCII)
  <2>1. topic \in Seq(TopicChars)
    BY DEF StringsOK
  <2>2. Len(topic) \in Nat /\ \A i \in 1..Len(topic) : Code(topic[i]) \in ASCII
    <3>1. \A c \in TopicChars : Code(c) \in ASCII
      BY CodeAssumption DEF ASCII
    <3>2. QED
      BY <2>1, <3>1
  <2>3. Name = [i \in 1..Len(topic) |-> Code(topic[i])]
    BY <2>1 DEF Name
  <2>4. QED
    BY <2>2, <2>3
<1>2. Payloads \subseteq Bytes
  BY DEF Payloads, Bytes, Byte
<1>3. Publishes \subseteq PublishPacket
  <2>1. SUFFICES ASSUME NEW payload \in Payloads, NEW qos \in 0..2, NEW retain \in BOOLEAN
                 PROVE  NewPublish(IF qos = 0 THEN 0 ELSE 256, Name, payload, qos,
                                   qos = 1, retain) \in PublishPacket
    BY DEF Publishes
  <2>2. PICK id, flags : /\ id = IF qos = 0 THEN 0 ELSE 256
                         /\ flags = qos * 2 + Flag(qos = 1, PublishDup) + Flag(retain, Retain)
    OBVIOUS
  <2>3. id \in Nat /\ flags \in Nat
    BY <2>2 DEF Flag, PublishDup, Retain
  <2>4. <<>> \in Seq(ASCII)
    OBVIOUS
  <2>5. QED
    BY <1>1, <1>2, <2>2, <2>3, <2>4 DEF NewPublish, PublishPacket
<1>4. \A c \in Connects : c.tp = "CONNECT" /\ DeleteWill(c).tp = "CONNECT"
  <2>1. TAKE c \in Connects
  <2>2. PICK clean \in BOOLEAN, user \in {<<>>, <<117>>}, password \in {<<>>, <<112, 255>>},
             wills \in {{}} \cup {{w} : w \in Wills} :
          c = NewConnect(<<99>>, clean, 256, wills, [user |-> user, password |-> password])
    BY DEF Connects
  <2>3. PICK creds, will, flags :
          /\ creds = [user |-> user, password |-> password] /\ will = c.will
          /\ flags = c.flags
    OBVIOUS
  <2>4. c = [tp |-> "CONNECT", clientID |-> <<99>>, keepAlive |-> 256, clientLevel |-> 4,
             creds |-> creds, will |-> will, flags |-> flags]
    BY <2>2, <2>3 DEF NewConnect
  <2>5. QED
    BY <2>4 DEF DeleteWill
<1>5. p \notin Connects /\ p \notin {DeleteWill(c) : c \in Connects}
  BY <1>4
<1>6. p \notin Subscribes /\ p \notin Acks
  BY DEF Subscribes, Acks, IdOnly, Empty
<1>7. CASE p \in Publishes
  BY <1>3, <1>7
<1>8. CASE p \in {[q EXCEPT !.replyTo = <<95>>] : q \in {q \in Publishes : QoSLevel(q.flags) = 1}}
  <2>1. PICK q \in Publishes : p = [q EXCEPT !.replyTo = <<95>>]
    BY <1>8
  <2>2. q \in PublishPacket
    BY <1>3, <2>1
  <2>3. <<95>> \in Seq(ASCII)
    BY DEF ASCII
  <2>4. QED
    BY <2>1, <2>2, <2>3 DEF PublishPacket
<1>9. QED
  BY <1>5, <1>6, <1>7, <1>8 DEF Packets

(* What is persisted comes back as it was, however much is sent and of     *)
(* whatever length the names are: publish.go:126-236 writes a payload that *)
(* is no text as base64 and leaves out what is empty.  The names are ASCII;*)
(* bytes that are no characters are replaced in JSON.                      *)
THEOREM PersistedPublishesAreKept == InputsSpec => []PersistedIsKept
<1>1. InputsInit => SentOK
  BY DEF InputsInit, SentOK
<1>2. StringsOK /\ SentOK /\ [InputsNext]_inputs => SentOK'
  <2>1. SUFFICES ASSUME StringsOK, SentOK, [InputsNext]_inputs PROVE SentOK'
    OBVIOUS
  <2>2. CASE UNCHANGED sent
    BY <2>1, <2>2 DEF SentOK
  <2>3. CASE Send
    <3>1. PICK p \in Packets : sent' = Append(sent, p)
      BY <2>3 DEF Send
    <3>2. p.tp = "PUBLISH" => p \in PublishPacket
      BY <2>1, PacketsAreTyped
    <3>3. QED
      BY <2>1, <3>1, <3>2 DEF SentOK
  <2>4. QED
    BY <2>1, <2>2, <2>3 DEF InputsNext, inputs, LongerTopic, LongerFilter
<1>3. SentOK => PersistedIsKept
  BY JSONKeeps DEF SentOK, PersistedIsKept
<1>4. QED
  BY <1>1, <1>2, <1>3, StringsStayStrings, PTL DEF InputsSpec

-----------------------------------------------------------------------------
(* Recursive functions: the equations that define them have solutions.     *)

(* A step may be taken any number of times.                                *)
Iterates(f, first, step) == f[0] = first /\ \A n \in Nat : f[n + 1] = step[f[n]]

LEMMA Iteration ==
  ASSUME NEW R, NEW first \in R, NEW step, step \in [R -> R]
  PROVE  \E f \in [Nat -> R] : Iterates(f, first, step)
<1> DEFINE Good(m, f) == /\ f \in [0..m -> R] /\ f[0] = first
                         /\ \A n \in 0..(m - 1) : f[n + 1] = step[f[n]]
           F == [n \in Nat |-> (CHOOSE f : Good(n, f))[n]]
<1>1. ASSUME NEW m \in Nat PROVE \E f : Good(m, f)
  <2>1. PICK Step : Step = [x \in (1..m) \X R |-> step[x[2]]]
    OBVIOUS
  <2>2. Step \in [(1..m) \X R -> R]
    BY <2>1
  <2>3. ASSUME NEW n \in 1..m, NEW v \in R PROVE Step[n, v] = step[v]
    <3>1. PICK x : x = <<n, v>>
      OBVIOUS
    <3>2. x \in (1..m) \X R /\ x[2] = v
      BY <3>1
    <3>3. QED
      BY <2>1, <3>1, <3>2
  <2>4. PICK f \in [0..m -> R] : Follows(f, m, first, Step)
    BY <2>2, Recursion
  <2>5. ASSUME NEW n \in 0..(m - 1) PROVE f[n + 1] = step[f[n]]
    <3>1. PICK k : k = n + 1
      OBVIOUS
    <3>2. k \in 1..m /\ k - 1 = n /\ n \in 0..m
      BY <3>1
    <3>3. f[k] = Step[k, f[n]]
      BY <2>4, <3>2 DEF Follows
    <3>4. f[n] \in R
      BY <3>2
    <3>5. QED
      BY <2>3, <3>1, <3>2, <3>3, <3>4
  <2>6. f[0] = first
    BY <2>4 DEF Follows
  <2>7. QED
    BY <2>5, <2>6
<1>2. ASSUME NEW m \in Nat, NEW f, NEW g, Good(m, f), Good(m + 1, g) PROVE f[m] = g[m]
  <2> DEFINE P == {n \in 0..m : f[n] = g[n]}
  <2>1. 0 \in P
    BY <1>2
  <2>2. ASSUME NEW n \in 0..(m - 1), n \in P PROVE n + 1 \in P
    <3>1. f[n + 1] = step[f[n]] /\ g[n + 1] = step[g[n]]
      BY <1>2
    <3>2. n + 1 \in 0..m
      OBVIOUS
    <3>3. QED
      BY <2>2, <3>1, <3>2
  <2> HIDE DEF P, Good
  <2>3. m \in P
    <3>1. m \in 0..m
      OBVIOUS
    <3>2. QED
      BY <2>1, <2>2, <3>1, UpTo
  <2>4. QED
    BY <2>3 DEF P
<1>3. ASSUME NEW n \in Nat PROVE Good(n, CHOOSE f : Good(n, f))
  <2> HIDE DEF Good
  <2>1. QED
    BY <1>1
<1>4. F \in [Nat -> R]
  <2>1. ASSUME NEW n \in Nat PROVE (CHOOSE f : Good(n, f))[n] \in R
    <3>1. PICK f : f = CHOOSE g : Good(n, g)
      OBVIOUS
    <3>2. f \in [0..n -> R]
      BY <1>3, <3>1
    <3>3. QED
      BY <3>1, <3>2
  <2> HIDE DEF Good
  <2>2. QED
    BY <2>1
<1>5. F[0] = first
  <2>1. PICK f : f = CHOOSE g : Good(0, g)
    OBVIOUS
  <2>2. f[0] = first
    BY <1>3, <2>1
  <2> HIDE DEF Good
  <2>3. QED
    BY <2>1, <2>2
<1>6. ASSUME NEW n \in Nat PROVE F[n + 1] = step[F[n]]
  <2>1. PICK k : k = n + 1
    OBVIOUS
  <2>2. k \in Nat /\ n \in 0..(k - 1)
    BY <2>1
  <2>3. PICK f, g : f = (CHOOSE h : Good(n, h)) /\ g = (CHOOSE h : Good(k, h))
    OBVIOUS
  <2>4. Good(n, f) /\ Good(k, g)
    <3> HIDE DEF Good
    <3>1. QED
      BY <1>3, <2>2, <2>3
  <2>5. f[n] = g[n]
    <3> HIDE DEF Good
    <3>1. QED
      BY <1>2, <2>1, <2>4
  <2>6. g[k] = step[g[n]]
    BY <2>1, <2>2, <2>4
  <2> HIDE DEF Good
  <2>7. F[n] = f[n] /\ F[k] = g[k]
    BY <2>2, <2>3
  <2>8. QED
    BY <2>1, <2>5, <2>6, <2>7
<1>7. QED
  <2> HIDE DEF F
  <2>1. QED
    BY <1>4, <1>5, <1>6 DEF Iterates

(* A table that is computed, at each place, from places of smaller size is *)
(* there.                                                                  *)
FromSmaller(D, R, size, first, step) ==
    /\ size \in [D -> Nat] /\ first \in [D -> R] /\ step \in [[D -> R] -> [D -> R]]
    /\ \A g, h \in [D -> R] : \A x \in D :
          (\A y \in D : size[y] < size[x] => g[y] = h[y]) => step[g][x] = step[h][x]

LEMMA Tables ==
  ASSUME NEW D, NEW R, NEW size, NEW first, NEW step, FromSmaller(D, R, size, first, step)
  PROVE  \E f \in [D -> R] : f = step[f]
<1> SUFFICES ASSUME size \in [D -> Nat], first \in [D -> R], step \in [[D -> R] -> [D -> R]]
             PROVE  \E f \in [D -> R] : f = step[f]
  BY DEF FromSmaller
<1>1. PICK All : All = [D -> R]
  OBVIOUS
<1>2. first \in All /\ step \in [All -> All] /\ size \in [D -> Nat]
  BY <1>1
<1>3. PICK T \in [Nat -> All] : T[0] = first /\ \A n \in Nat : T[n + 1] = step[T[n]]
  <2>1. PICK T \in [Nat -> All] : Iterates(T, first, step)
    BY <1>2, Iteration
  <2>2. QED
    BY <2>1 DEF Iterates
<1>4. PICK F : F = [x \in D |-> T[size[x] + 1][x]]
  OBVIOUS
<1>5. ASSUME NEW n \in Nat PROVE T[n] \in [D -> R]
  BY <1>1, <1>3
<1>6. F \in [D -> R]
  <2>1. ASSUME NEW x \in D PROVE T[size[x] + 1][x] \in R
    <3>1. PICK n \in Nat : n = size[x] + 1
      OBVIOUS
    <3>2. QED
      BY <1>5, <3>1
  <2>2. QED
    BY <1>4, <2>1
<1>7. ASSUME NEW max \in Nat
      PROVE  \A m \in 0..max : \A x \in D : size[x] < m => T[m][x] = T[m + 1][x]
  <2> DEFINE P == {m \in 0..max : \A x \in D : size[x] < m => T[m][x] = T[m + 1][x]}
  <2>1. 0 \in P
    OBVIOUS
  <2>2. ASSUME NEW m \in 0..(max - 1), m \in P PROVE m + 1 \in P
    <3>1. PICK k : k = m + 1
      OBVIOUS
    <3>2. m \in Nat /\ k \in Nat /\ k \in 0..max
      BY <3>1
    <3>3. ASSUME NEW x \in D, size[x] < k PROVE T[k][x] = T[k + 1][x]
      <4>1. T[k] = step[T[m]] /\ T[k + 1] = step[T[k]]
        BY <1>3, <3>1, <3>2
      <4>2. T[m] \in [D -> R] /\ T[k] \in [D -> R]
        BY <1>5, <3>2
      <4>3. ASSUME NEW y \in D, size[y] < size[x] PROVE T[m][y] = T[k][y]
        <5>1. size[y] < m
          BY <3>1, <3>2, <3>3, <4>3
        <5>2. QED
          BY <2>2, <3>1, <5>1
      <4>4. PICK g, h : g = T[m] /\ h = T[k]
        OBVIOUS
      <4>5. g \in [D -> R] /\ h \in [D -> R] /\ \A y \in D : size[y] < size[x] => g[y] = h[y]
        BY <4>2, <4>3, <4>4
      <4>6. step[g][x] = step[h][x]
        BY <4>5 DEF FromSmaller
      <4>7. QED
        BY <4>1, <4>4, <4>6
    <3>4. QED
      BY <3>1, <3>2, <3>3
  <2> HIDE DEF P
  <2>3. \A m \in 0..max : m \in P
    BY <2>1, <2>2, UpTo
  <2>4. QED
    BY <2>3 DEF P
<1>8. ASSUME NEW n \in Nat, NEW x \in D, size[x] < n PROVE T[n][x] = F[x]
  <2> DEFINE P == {m \in 0..n : size[x] < m => T[m][x] = F[x]}
  <2>1. 0 \in P
    OBVIOUS
  <2>2. ASSUME NEW m \in 0..(n - 1), m \in P PROVE m + 1 \in P
    <3>1. PICK k : k = m + 1
      OBVIOUS
    <3>2. m \in Nat /\ k \in 0..n
      BY <3>1
    <3>3. CASE size[x] = m
      BY <1>4, <3>1, <3>2, <3>3
    <3>4. CASE size[x] < m
      <4>1. T[m][x] = T[m + 1][x]
        <5>1. m \in 0..m
          BY <3>2
        <5>2. QED
          BY <1>7, <3>2, <3>4, <5>1
      <4>2. QED
        BY <2>2, <3>1, <3>2, <3>4, <4>1
    <3>5. CASE size[x] > m
      BY <3>1, <3>2, <3>5
    <3>6. size[x] = m \/ size[x] < m \/ size[x] > m
      <4>1. PICK z \in Nat : z = size[x]
        OBVIOUS
      <4>2. z = m \/ z < m \/ z > m
        BY <3>2
      <4>3. QED
        BY <4>1, <4>2, Zenon
    <3>7. QED
      BY <3>3, <3>4, <3>5, <3>6
  <2> HIDE DEF P
  <2>3. n \in P
    <3>1. n \in 0..n
      OBVIOUS
    <3>2. QED
      BY <2>1, <2>2, <3>1, UpTo
  <2>4. QED
    BY <1>8, <2>3 DEF P
<1>9. ASSUME NEW x \in D PROVE F[x] = step[F][x]
  <2>1. PICK n \in Nat : n = size[x]
    OBVIOUS
  <2>2. F[x] = step[T[n]][x]
    <3>1. F[x] = T[n + 1][x]
      BY <1>4, <2>1
    <3>2. QED
      BY <1>3, <3>1
  <2>3. PICK g : g = T[n]
    OBVIOUS
  <2>4. g \in [D -> R] /\ \A y \in D : size[y] < size[x] => g[y] = F[y]
    BY <1>5, <1>8, <2>1, <2>3
  <2>5. step[g][x] = step[F][x]
    BY <1>6, <2>4 DEF FromSmaller
  <2>6. QED
    BY <2>2, <2>3, <2>5
<1>10. F = step[F]
  <2>1. PICK G : G = step[F]
    OBVIOUS
  <2>2. G \in [D -> R] /\ \A x \in D : F[x] = G[x]
    BY <1>6, <1>9, <2>1
  <2>3. F = G
    BY <1>6, <2>2
  <2>4. QED
    BY <2>1, <2>3
<1>11. QED
  BY <1>6, <1>10

-----------------------------------------------------------------------------
(* Writing and reading packets.                                            *)

(* What LastAdded is, step by step.                                        *)
LEMMA AddedStepByStep ==
  ASSUME NEW n \in Nat, NEW ns \in [1..n -> Nat]
  PROVE  /\ LastAdded(ns) \in [0..n -> Nat] /\ LastAdded(ns)[0] = 0
         /\ \A i \in 1..n : LastAdded(ns)[i] = ns[n - i + 1] + LastAdded(ns)[i - 1]
<1> DEFINE Eq(f) == f = [i \in 0..n |-> IF i = 0 THEN 0 ELSE ns[n - i + 1] + f[i - 1]]
<1>1. PICK Step : Step = [x \in (1..n) \X Nat |-> ns[n - x[1] + 1] + x[2]]
  OBVIOUS
<1>2. ASSUME NEW i \in 1..n, NEW v \in Nat
      PROVE  Step[i, v] = ns[n - i + 1] + v /\ ns[n - i + 1] \in Nat
  <2>1. PICK x : x = <<i, v>>
    OBVIOUS
  <2>2. x \in (1..n) \X Nat /\ x[1] = i /\ x[2] = v
    BY <2>1
  <2>3. n - i + 1 \in 1..n
    OBVIOUS
  <2>4. Step[x] = ns[n - i + 1] + v
    BY <1>1, <2>2
  <2>5. QED
    BY <2>1, <2>3, <2>4
<1>3. Step \in [(1..n) \X Nat -> Nat]
  <2>1. ASSUME NEW x \in (1..n) \X Nat PROVE ns[n - x[1] + 1] + x[2] \in Nat
    <3>1. n - x[1] + 1 \in 1..n
      OBVIOUS
    <3>2. QED
      BY <3>1
  <2>2. QED
    BY <1>1, <2>1
<1>4. PICK f \in [0..n -> Nat] : Follows(f, n, 0, Step)
  BY <1>3, Recursion
<1>5. ASSUME NEW i \in 1..n PROVE f[i] = ns[n - i + 1] + f[i - 1]
  <2>1. PICK v \in Nat : v = f[i - 1]
    OBVIOUS
  <2>2. f[i] = Step[i, v]
    BY <1>4, <2>1 DEF Follows
  <2>3. QED
    BY <1>2, <2>1, <2>2
<1>6. f[0] = 0
  BY <1>4 DEF Follows
<1>7. Eq(f)
  <2>1. ASSUME NEW i \in 0..n PROVE f[i] = IF i = 0 THEN 0 ELSE ns[n - i + 1] + f[i - 1]
    BY <1>5, <1>6
  <2>2. QED
    BY <2>1
<1>8. LastAdded(ns) = CHOOSE g : Eq(g)
  <2>1. Len(ns) = n
    OBVIOUS
  <2>2. QED
    BY <2>1 DEF LastAdded
<1>9. PICK g : g = LastAdded(ns)
  OBVIOUS
<1>10. Eq(g)
  <2> HIDE DEF Eq
  <2>1. QED
    BY <1>7, <1>8, <1>9
<1>11. g[0] = 0 /\ \A i \in 1..n : g[i] = ns[n - i + 1] + g[i - 1]
  BY SMTT(30), <1>10
<1>12. DOMAIN g = 0..n
  BY <1>10
<1>13. \A i \in 0..n : g[i] \in Nat
  <2> DEFINE P == {i \in 0..n : g[i] \in Nat}
  <2>1. 0 \in P
    BY <1>11
  <2>2. ASSUME NEW i \in 0..(n - 1), i \in P PROVE i + 1 \in P
    <3>1. PICK k : k = i + 1
      OBVIOUS
    <3>2. k \in 1..n /\ k - 1 = i /\ n - k + 1 \in 1..n
      BY <3>1
    <3>3. ns[n - k + 1] \in Nat
      BY <3>2
    <3>4. g[k] = ns[n - k + 1] + g[i]
      BY <1>11, <3>2
    <3>5. QED
      BY SMTT(30), <2>2, <3>1, <3>2, <3>3, <3>4
  <2> HIDE DEF P
  <2>3. \A i \in 0..n : i \in P
    BY <2>1, <2>2, UpTo
  <2>4. QED
    BY <2>3 DEF P
<1>14. g \in [0..n -> Nat]
  BY <1>10, <1>12, <1>13
<1>15. QED
  BY <1>9, <1>11, <1>14

(* What LastJoined is, step by step.                                       *)
LEMMA JoinedStepByStep ==
  ASSUME NEW n \in Nat, NEW parts \in [1..n -> Bytes]
  PROVE  /\ LastJoined(parts) \in [0..n -> Bytes] /\ LastJoined(parts)[0] = <<>>
         /\ \A i \in 1..n : LastJoined(parts)[i] = parts[n - i + 1] \o LastJoined(parts)[i - 1]
<1> DEFINE Eq(f) == f = [i \in 0..n |-> IF i = 0 THEN <<>> ELSE parts[n - i + 1] \o f[i - 1]]
<1>1. PICK Step : Step = [x \in (1..n) \X Bytes |-> parts[n - x[1] + 1] \o x[2]]
  OBVIOUS
<1>2. ASSUME NEW i \in 1..n, NEW v \in Bytes
      PROVE  Step[i, v] = parts[n - i + 1] \o v /\ parts[n - i + 1] \in Bytes
  <2>1. PICK x : x = <<i, v>>
    OBVIOUS
  <2>2. x \in (1..n) \X Bytes /\ x[1] = i /\ x[2] = v
    BY <2>1
  <2>3. n - i + 1 \in 1..n
    OBVIOUS
  <2>4. Step[x] = parts[n - i + 1] \o v
    BY <1>1, <2>2
  <2>5. QED
    BY <2>1, <2>3, <2>4
<1>3. Step \in [(1..n) \X Bytes -> Bytes]
  <2>1. ASSUME NEW x \in (1..n) \X Bytes PROVE parts[n - x[1] + 1] \o x[2] \in Bytes
    <3>1. n - x[1] + 1 \in 1..n
      OBVIOUS
    <3>2. parts[n - x[1] + 1] \in Bytes /\ x[2] \in Bytes
      BY <3>1
    <3>3. QED
      BY <3>2, ConcatProperties DEF Bytes
  <2>2. QED
    BY <1>1, <2>1
<1>4. <<>> \in Bytes
  BY DEF Bytes
<1>5. PICK f \in [0..n -> Bytes] : Follows(f, n, <<>>, Step)
  BY <1>3, <1>4, Recursion
<1>6. ASSUME NEW i \in 1..n PROVE f[i] = parts[n - i + 1] \o f[i - 1]
  <2>1. PICK v \in Bytes : v = f[i - 1]
    OBVIOUS
  <2>2. f[i] = Step[i, v]
    BY <1>5, <2>1 DEF Follows
  <2>3. QED
    BY <1>2, <2>1, <2>2
<1>7. f[0] = <<>>
  BY <1>5 DEF Follows
<1>8. Eq(f)
  <2>1. ASSUME NEW i \in 0..n
        PROVE  f[i] = IF i = 0 THEN <<>> ELSE parts[n - i + 1] \o f[i - 1]
    <3>1. CASE i = 0
      BY <1>7, <3>1
    <3>2. CASE i # 0
      <4>1. i \in 1..n
        BY <3>2
      <4>2. QED
        BY <1>6, <3>2, <4>1
    <3>3. QED
      BY <3>1, <3>2
  <2>2. QED
    BY <2>1
<1>9. LastJoined(parts) = CHOOSE g : Eq(g)
  <2>1. Len(parts) = n
    OBVIOUS
  <2>2. QED
    BY <2>1 DEF LastJoined
<1>10. PICK g : g = LastJoined(parts)
  OBVIOUS
<1>11. Eq(g)
  <2> HIDE DEF Eq
  <2>1. QED
    BY <1>8, <1>9, <1>10
<1>12. g[0] = <<>> /\ \A i \in 1..n : g[i] = parts[n - i + 1] \o g[i - 1]
  BY <1>11
<1>13. \A i \in 0..n : g[i] \in Bytes
  <2> DEFINE P == {i \in 0..n : g[i] \in Bytes}
  <2>1. 0 \in P
    BY <1>4, <1>12
  <2>2. ASSUME NEW i \in 0..(n - 1), i \in P PROVE i + 1 \in P
    <3>1. PICK k : k = i + 1
      OBVIOUS
    <3>2. k \in 1..n /\ k - 1 = i /\ n - k + 1 \in 1..n
      BY <3>1
    <3>3. parts[n - k + 1] \in Bytes
      BY <3>2
    <3>4. g[k] = parts[n - k + 1] \o g[i]
      BY <1>12, <3>2
    <3>5. g[k] \in Bytes
      BY <2>2, <3>3, <3>4, ConcatProperties DEF Bytes
    <3>6. QED
      BY <3>1, <3>2, <3>5
  <2> HIDE DEF P
  <2>3. \A i \in 0..n : i \in P
    BY <2>1, <2>2, UpTo
  <2>4. QED
    BY <2>3 DEF P
<1>14. g \in [0..n -> Bytes]
  BY <1>11, <1>13
<1>15. QED
  BY <1>10, <1>12, <1>14

(* The bytes of a length.                                                  *)
LEMMA VarIntEquation ==
  /\ WriteVarInt \in [Nat -> Bytes]
  /\ \A n \in Nat :
        /\ n < 128 => WriteVarInt[n] = <<n>>
        /\ n >= 128 => WriteVarInt[n] = <<128 + (n % 128)>> \o WriteVarInt[n \div 128]
<1> DEFINE Body1(n, g) == IF n < 128 THEN <<n>> ELSE <<128 + (n % 128)>> \o g[n \div 128]
           Eq(f) == f = [n \in Nat |-> IF n < 128 THEN <<n>>
                                       ELSE <<128 + (n % 128)>> \o f[n \div 128]]
<1>1. PICK All : All = [Nat -> Bytes]
  OBVIOUS
<1>2. PICK step : step = [g \in All |-> [n \in Nat |-> Body1(n, g)]]
  OBVIOUS
<1>3. ASSUME NEW n \in Nat
      PROVE  /\ n < 128 => <<n>> \in Bytes
             /\ n >= 128 => /\ <<128 + (n % 128)>> \in Bytes /\ n \div 128 \in Nat
                            /\ n \div 128 < n
  BY DEF Bytes, Byte
<1>4. ASSUME NEW g \in All, NEW n \in Nat PROVE Body1(n, g) \in Bytes
  <2>1. CASE n < 128
    BY <1>3, <2>1
  <2>2. CASE n >= 128
    <3>1. PICK m \in Nat : m = n \div 128
      BY <1>3, <2>2
    <3>2. g[m] \in Bytes
      BY <1>1
    <3>3. PICK b \in Bytes : b = <<128 + (n % 128)>>
      BY <1>3, <2>2
    <3>4. b \o g[m] \in Bytes
      BY <3>2, <3>3, ConcatProperties DEF Bytes
    <3>5. QED
      BY <2>2, <3>1, <3>3, <3>4
  <2>3. QED
    BY <2>1, <2>2
<1>5. ASSUME NEW g \in All PROVE step[g] \in All /\ \A n \in Nat : step[g][n] = Body1(n, g)
  <2> HIDE DEF Body1
  <2>1. step[g] = [n \in Nat |-> Body1(n, g)]
    BY <1>2
  <2>2. QED
    BY <1>1, <1>4, <2>1
<1>6. step \in [All -> All]
  <2> HIDE DEF Body1
  <2>1. \A g \in All : [n \in Nat |-> Body1(n, g)] \in All
    BY <1>1, <1>4
  <2>2. QED
    BY <1>2, <2>1
<1>7. PICK size : size = [n \in Nat |-> n]
  OBVIOUS
<1>8. size \in [Nat -> Nat] /\ \A n \in Nat : size[n] = n
  BY <1>7
<1>9. PICK first : first = [n \in Nat |-> <<>>]
  OBVIOUS
<1>10. first \in All
  BY <1>1, <1>9 DEF Bytes
<1>11. ASSUME NEW g \in All, NEW h \in All, NEW n \in Nat,
              \A m \in Nat : size[m] < size[n] => g[m] = h[m]
       PROVE  step[g][n] = step[h][n]
  <2>1. n >= 128 => g[n \div 128] = h[n \div 128]
    <3>1. PICK m : m = n \div 128
      OBVIOUS
    <3>2. n >= 128 => m \in Nat /\ m < n
      BY <1>3, <3>1
    <3>3. QED
      BY <1>8, <1>11, <3>1, <3>2
  <2>2. Body1(n, g) = Body1(n, h)
    BY <2>1
  <2> HIDE DEF Body1
  <2>3. QED
    BY <1>5, <2>2
<1>12. \E f \in [Nat -> Bytes] : f = step[f]
  <2>1. /\ size \in [Nat -> Nat] /\ first \in [Nat -> Bytes]
        /\ step \in [[Nat -> Bytes] -> [Nat -> Bytes]]
    BY <1>1, <1>6, <1>8, <1>10
  <2>2. FromSmaller(Nat, Bytes, size, first, step)
    BY <1>1, <1>11, <2>1 DEF FromSmaller
  <2>3. QED
    BY <2>2, Tables
<1>13. PICK f \in [Nat -> Bytes] : f = step[f]
  BY <1>12
<1>14. \A n \in Nat : f[n] = Body1(n, f)
  <2> HIDE DEF Body1
  <2>1. QED
    BY <1>1, <1>5, <1>13
<1>15. Eq(f)
  BY <1>13, <1>14
<1>16. WriteVarInt = CHOOSE g : Eq(g)
  BY DEF WriteVarInt
<1>17. PICK w : w = WriteVarInt
  OBVIOUS
<1>18. Eq(w)
  <2> HIDE DEF Eq
  <2>1. QED
    BY <1>15, <1>16, <1>17
<1>19. ASSUME NEW n \in Nat
       PROVE  /\ n < 128 => w[n] = <<n>>
              /\ n >= 128 => w[n] = <<128 + (n % 128)>> \o w[n \div 128]
  <2>1. w[n] = Body1(n, w)
    BY <1>18
  <2>2. QED
    BY <2>1
<1>20. DOMAIN w = Nat /\ w = [n \in Nat |-> w[n]]
  BY <1>18
<1>21. ASSUME NEW n \in Nat PROVE w[n] \in Bytes
  <2> DEFINE P == {m \in 0..n : \A k \in 0..m : w[k] \in Bytes}
  <2>1. 0 \in P
    <3>1. PICK zero \in Nat : zero = 0
      OBVIOUS
    <3>2. zero < 128
      BY <3>1
    <3>3. w[zero] = <<zero>>
      BY <1>19, <3>2
    <3>4. <<zero>> \in Bytes
      BY <1>3, <3>2
    <3>5. QED
      BY <3>1, <3>3, <3>4
  <2>2. ASSUME NEW m \in 0..(n - 1), m \in P PROVE m + 1 \in P
    <3>1. PICK k : k = m + 1
      OBVIOUS
    <3>2. k \in Nat /\ k \in 0..n
      BY <3>1
    <3>3. w[k] \in Bytes
      <4>1. CASE k < 128
        <5>1. w[k] = <<k>> /\ <<k>> \in Bytes
          BY <1>3, <1>19, <3>2, <4>1
        <5>2. QED
          BY <5>1
      <4>2. CASE k >= 128
        <5>1. PICK j : j = k \div 128
          OBVIOUS
        <5>2. j \in Nat /\ j < k /\ j \in 0..m
          BY <1>3, <3>1, <3>2, <4>2, <5>1
        <5>3. w[j] \in Bytes
          BY <2>2, <5>2
        <5>4. PICK b \in Bytes : b = <<128 + (k % 128)>>
          BY <1>3, <3>2, <4>2
        <5>5. w[k] = b \o w[j]
          BY <1>19, <3>2, <4>2, <5>1, <5>4
        <5>6. QED
          BY <5>3, <5>5, ConcatProperties DEF Bytes
      <4>3. QED
        BY <3>2, <4>1, <4>2
    <3>4. QED
      BY <2>2, <3>1, <3>2, <3>3
  <2>3. n \in P
    <3> HIDE DEF P
    <3>1. n \in 0..n
      OBVIOUS
    <3>2. QED
      BY <2>1, <2>2, <3>1, UpTo
  <2>4. QED
    BY <2>3
<1>22. w \in [Nat -> Bytes]
  BY <1>20, <1>21
<1>23. QED
  BY <1>17, <1>19, <1>22

(* Strings of bytes, one after the other.                                  *)
LEMMA BytesJoin ==
  ASSUME NEW a \in Bytes, NEW b \in Bytes
  PROVE  /\ a \o b \in Bytes /\ Len(a \o b) = Len(a) + Len(b)
         /\ Len(a) \in Nat /\ Len(b) \in Nat
BY ConcatProperties, LenProperties DEF Bytes

LEMMA JoinNothing ==
  ASSUME NEW a \in Bytes
  PROVE  <<>> \in Bytes /\ Len(<<>>) = 0 /\ a \o <<>> = a /\ <<>> \o a = a
BY ConcatEmptySeq, EmptySeq DEF Bytes

LEMMA JoinThree ==
  ASSUME NEW a \in Bytes, NEW b \in Bytes, NEW c \in Bytes
  PROVE  (a \o b) \o c = a \o (b \o c)
BY ConcatAssociative DEF Bytes

LEMMA JoinedFirst ==
  ASSUME NEW a \in Bytes, NEW b \in Bytes, NEW i \in 1..Len(a)
  PROVE  (a \o b)[i] = a[i] /\ a[i] \in Byte
<1>1. Len(a) \in Nat /\ Len(b) \in Nat
  BY LenProperties DEF Bytes
<1>2. i \in 1..(Len(a) + Len(b)) /\ i <= Len(a)
  BY <1>1
<1>3. QED
  BY <1>2, ConcatProperties, ElementOfSeq DEF Bytes

LEMMA JoinedSecond ==
  ASSUME NEW a \in Bytes, NEW b \in Bytes, NEW i \in 1..Len(b), NEW j, j = Len(a) + i
  PROVE  (a \o b)[j] = b[i] /\ b[i] \in Byte
<1>1. Len(a) \in Nat /\ Len(b) \in Nat
  BY LenProperties DEF Bytes
<1>2. j \in 1..(Len(a) + Len(b)) /\ ~(j <= Len(a)) /\ j - Len(a) = i
  BY <1>1
<1>3. (a \o b)[j] = b[i]
  BY <1>2, ConcatProperties DEF Bytes
<1>4. QED
  BY <1>3, ElementOfSeq DEF Bytes

(* The byte at each place of a string.                                     *)
LEMMA ByteAt ==
  ASSUME NEW a \in Bytes
  PROVE  Len(a) \in Nat /\ \A i \in 1..Len(a) : a[i] \in Byte
BY LenProperties DEF Bytes

(* Strings that agree at every place are the same.                         *)
LEMMA SameBytes ==
  ASSUME NEW a \in Bytes, NEW b \in Bytes, Len(a) = Len(b), \A i \in 1..Len(a) : a[i] = b[i]
  PROVE  a = b
BY SeqEqual DEF Bytes

LEMMA BytesTaken ==
  ASSUME NEW a \in Bytes, NEW b \in Bytes
  PROVE  /\ SubSeq(a \o b, 1, Len(a)) = a
         /\ SubSeq(a \o b, Len(a) + 1, Len(a \o b)) = b
<1>1. PICK m, n : m = Len(a) /\ n = Len(b)
  OBVIOUS
<1>2. m \in Nat /\ n \in Nat
  BY <1>1, LenProperties DEF Bytes
<1>3. PICK s : s = a \o b
  OBVIOUS
<1>4. s \in Bytes /\ Len(s) = m + n
  BY <1>1, <1>3, BytesJoin
<1>5. \A i \in 1..m : s[i] = a[i] /\ s[i] \in Byte
  <2>1. \A i \in 1..m : (a \o b)[i] = a[i] /\ a[i] \in Byte
    BY <1>1, JoinedFirst
  <2>2. QED
    BY <1>3, <2>1
<1>6. \A i \in 1..n : s[m + i] = b[i] /\ s[m + i] \in Byte
  <2>1. \A i \in 1..n : (a \o b)[m + i] = b[i] /\ b[i] \in Byte
    BY <1>1, JoinedSecond
  <2>2. QED
    BY <1>3, <2>1
<1>7. SubSeq(s, 1, m) = a
  <2>1. PICK t : t = SubSeq(s, 1, m)
    OBVIOUS
  <2>2. t \in Bytes /\ Len(t) = m /\ \A i \in 1..m : t[i] = s[1 + i - 1]
    BY <1>2, <1>5, <2>1, SubSeqProperties DEF Bytes
  <2>3. \A i \in 1..m : t[i] = a[i]
    BY <1>2, <1>5, <2>2
  <2>4. QED
    BY <1>1, <2>1, <2>2, <2>3, SeqEqual DEF Bytes
<1>8. SubSeq(s, m + 1, m + n) = b
  <2>1. PICK k, l : k = m + 1 /\ l = m + n
    OBVIOUS
  <2>2. k \in Int /\ l \in Int /\ l - k + 1 = n
    BY <1>2, <2>1
  <2>3. \A i \in k..l : s[i] \in Byte
    <3>1. TAKE i \in k..l
    <3>2. PICK j : j = i - m
      OBVIOUS
    <3>3. j \in 1..n /\ m + j = i
      BY <1>2, <2>1, <3>2
    <3>4. QED
      BY <1>6, <3>3
  <2>4. PICK t : t = SubSeq(s, k, l)
    OBVIOUS
  <2>5. t \in Bytes
    BY <2>2, <2>3, <2>4, SubSeqProperties DEF Bytes
  <2>6. Len(t) = IF k <= l THEN l - k + 1 ELSE 0
    BY <2>2, <2>3, <2>4, SubSeqProperties DEF Bytes
  <2>7. \A i \in 1..(l - k + 1) : t[i] = s[k + i - 1]
    BY <2>2, <2>3, <2>4, SubSeqProperties DEF Bytes
  <2>8. Len(t) = n
    BY <1>2, <2>1, <2>2, <2>6
  <2>9. ASSUME NEW i \in 1..n PROVE t[i] = b[i]
    <3>1. k + i - 1 = m + i
      BY <1>2, <2>1
    <3>2. QED
      BY <1>6, <2>2, <2>7, <3>1
  <2>10. QED
    BY <1>1, <2>1, <2>4, <2>5, <2>8, <2>9, SeqEqual DEF Bytes
<1>9. QED
  BY <1>1, <1>3, <1>4, <1>7, <1>8

(* One byte in front of a string.                                          *)
Prefixed(w, c, v) ==
    /\ w \in Bytes /\ Len(w) = Len(v) + 1 /\ w[1] = c
    /\ \A i \in 1..Len(v) : w[i + 1] = v[i]

LEMMA ByteFirst ==
  ASSUME NEW c \in Byte, NEW v \in Bytes
  PROVE  Prefixed(<<c>> \o v, c, v)
<1>0. PICK w : w = <<c>> \o v
  OBVIOUS
<1>1. PICK b : b = <<c>>
  OBVIOUS
<1>2. b \in Bytes /\ Len(b) = 1 /\ b[1] = c
  BY <1>1 DEF Bytes
<1>3. w = b \o v
  BY <1>0, <1>1
<1>4. Len(v) \in Nat
  BY ByteAt
<1>5. w \in Bytes /\ Len(w) = Len(v) + 1
  <2>1. b \o v \in Bytes /\ Len(b \o v) = Len(b) + Len(v)
    BY <1>2, BytesJoin
  <2>2. w \in Bytes /\ Len(w) = Len(b) + Len(v)
    BY <1>3, <2>1, Zenon
  <2>3. Len(b) + Len(v) = Len(v) + 1
    BY <1>2, <1>4
  <2>4. QED
    BY <2>2, <2>3, Zenon
<1>6. PICK one : one = 1 /\ one = Len(b)
  BY <1>2
<1>7. one \in 1..Len(b)
  BY <1>2, <1>6
<1>8. w[one] = b[one]
  BY <1>2, <1>3, <1>7, JoinedFirst
<1>9. ASSUME NEW i \in 1..Len(v) PROVE w[i + 1] = v[i]
  <2>1. PICK j : j = Len(b) + i
    OBVIOUS
  <2>2. w[j] = v[i]
    BY <1>2, <1>3, <2>1, JoinedSecond
  <2>3. j = i + 1
    BY <1>2, <2>1
  <2>4. QED
    BY <2>2, <2>3
<1>10. Prefixed(w, c, v)
  BY <1>2, <1>5, <1>6, <1>8, <1>9 DEF Prefixed
<1>11. QED
  BY <1>0, <1>10

LEMMA VarIntShort ==
  ASSUME NEW n \in Nat, n < 128
  PROVE  WriteVarInt[n] = <<n>>
BY VarIntEquation

(* Bytes of which only the last has no eighth bit.                         *)
Digits(w, k) == w \in Bytes /\ Len(w) = k /\ w[k] < 128 /\ \A i \in 1..(k - 1) : w[i] >= 128

LEMMA OneDigitMore ==
  ASSUME NEW k \in 1..3, NEW v, Digits(v, k), NEW n \in Nat, n >= 128, WriteVarInt[n \div 128] = v
  PROVE  /\ Digits(WriteVarInt[n], k + 1) /\ WriteVarInt[n][1] % 128 = n % 128
         /\ \A i \in 1..k : WriteVarInt[n][i + 1] = v[i]
<1>1. PICK c : c = 128 + (n % 128)
  OBVIOUS
<1>2. n % 128 \in 0..127
  OBVIOUS
<1>3. c \in Byte
  BY <1>1, <1>2 DEF Byte
<1>4. PICK w : w = <<c>> \o v
  OBVIOUS
<1>5. w = WriteVarInt[n]
  BY <1>1, <1>4, VarIntEquation
<1>6. v \in Bytes /\ Len(v) = k
  BY DEF Digits
<1>7. Prefixed(w, c, v)
  BY <1>3, <1>4, <1>6, ByteFirst
<1>8. w \in Bytes /\ Len(w) = k + 1 /\ w[1] = 128 + (n % 128)
  BY <1>1, <1>6, <1>7 DEF Prefixed
<1>10. \A i \in 1..k : w[i + 1] = v[i]
  BY <1>6, <1>7 DEF Prefixed
<1>11. Digits(w, k + 1)
  <2>1. v[k] < 128 /\ \A i \in 1..(k - 1) : v[i] >= 128
    BY DEF Digits
  <2>2. w[k + 1] < 128
    BY <1>10, <2>1
  <2>3. ASSUME NEW i \in 1..k PROVE w[i] >= 128
    <3>1. CASE i = 1
      BY <1>2, <1>8, <3>1
    <3>2. CASE i # 1
      <4>1. PICK j : j = i - 1
        OBVIOUS
      <4>2. j \in 1..(k - 1) /\ j \in 1..k /\ j + 1 = i
        BY <3>2, <4>1
      <4>3. w[j + 1] = v[j] /\ v[j] >= 128
        BY <1>10, <2>1, <4>2
      <4>4. QED
        BY <4>2, <4>3
    <3>3. QED
      BY <3>1, <3>2
  <2>4. PICK l : l = k + 1
    OBVIOUS
  <2>5. l - 1 = k
    BY <2>4
  <2>6. QED
    BY <1>8, <2>2, <2>3, <2>4, <2>5 DEF Digits
<1>12. w[1] % 128 = n % 128
  BY <1>2, <1>8
<1>13. QED
  BY <1>5, <1>10, <1>11, <1>12

(* The lengths that fit in one to four bytes, and what the bytes are.      *)
IsLength(w, n) ==
    \/ Digits(w, 1) /\ n = w[1] % 128
    \/ Digits(w, 2) /\ n = (w[1] % 128) + (w[2] % 128) * 128
    \/ Digits(w, 3) /\ n = (w[1] % 128) + (w[2] % 128) * 128 + (w[3] % 128) * 16384
    \/ Digits(w, 4) /\ n = (w[1] % 128) + (w[2] % 128) * 128 + (w[3] % 128) * 16384
                            + (w[4] % 128) * 2097152

LEMMA LengthsAreWritten ==
  ASSUME NEW n \in Nat, n < 268435456
  PROVE  IsLength(WriteVarInt[n], n)
<1>1. ASSUME NEW m \in Nat, m < 128
      PROVE  Digits(WriteVarInt[m], 1) /\ m = WriteVarInt[m][1] % 128
  <2>1. PICK w : w = WriteVarInt[m]
    OBVIOUS
  <2>2. w = <<m>>
    BY <1>1, <2>1, VarIntShort
  <2>6. w \in Bytes
    BY <2>1, VarIntEquation
  <2>3. Len(w) = 1 /\ w[1] = m
    BY <2>2
  <2>4. m % 128 = m
    BY <1>1
  <2>5. QED
    BY <1>1, <2>1, <2>3, <2>4, <2>6 DEF Digits
<1>2. ASSUME NEW m \in Nat, m >= 128, m < 16384
      PROVE  /\ Digits(WriteVarInt[m], 2)
             /\ m = (WriteVarInt[m][1] % 128) + (WriteVarInt[m][2] % 128) * 128
  <2>1. PICK q : q = m \div 128
    OBVIOUS
  <2>2. q \in Nat /\ q < 128 /\ m = (m % 128) + q * 128
    BY <1>2, <2>1
  <2>3. PICK v : v = WriteVarInt[q]
    OBVIOUS
  <2>4. Digits(v, 1) /\ q = v[1] % 128
    BY <1>1, <2>2, <2>3
  <2>5. PICK w : w = WriteVarInt[m]
    OBVIOUS
  <2>6. PICK k : k = 1
    OBVIOUS
  <2>7. /\ Digits(w, k + 1) /\ w[1] % 128 = m % 128
        /\ \A i \in 1..k : w[i + 1] = v[i]
    <3>1. k \in 1..3 /\ Digits(v, k) /\ WriteVarInt[m \div 128] = v
      BY <2>1, <2>3, <2>4, <2>6
    <3>2. QED
      BY <1>2, <2>5, <3>1, OneDigitMore
  <2>8. w[2] = v[1] /\ k + 1 = 2
    BY <2>6, <2>7
  <2>9. QED
    BY <2>2, <2>4, <2>5, <2>7, <2>8
<1>3. ASSUME NEW m \in Nat, m >= 16384, m < 2097152
      PROVE  /\ Digits(WriteVarInt[m], 3)
             /\ m = (WriteVarInt[m][1] % 128) + (WriteVarInt[m][2] % 128) * 128
                      + (WriteVarInt[m][3] % 128) * 16384
  <2>1. PICK q : q = m \div 128
    OBVIOUS
  <2>2. q \in Nat /\ q >= 128 /\ q < 16384 /\ m = (m % 128) + q * 128 /\ m >= 128
    BY <1>3, <2>1
  <2>3. PICK v : v = WriteVarInt[q]
    OBVIOUS
  <2>4. Digits(v, 2) /\ q = (v[1] % 128) + (v[2] % 128) * 128
    BY <1>2, <2>2, <2>3
  <2>5. PICK w : w = WriteVarInt[m]
    OBVIOUS
  <2>6. PICK k : k = 2
    OBVIOUS
  <2>7. /\ Digits(w, k + 1) /\ w[1] % 128 = m % 128
        /\ \A i \in 1..k : w[i + 1] = v[i]
    <3>1. k \in 1..3 /\ Digits(v, k) /\ WriteVarInt[m \div 128] = v
      BY <2>1, <2>3, <2>4, <2>6
    <3>2. QED
      BY <2>2, <2>5, <3>1, OneDigitMore
  <2>8. w[2] = v[1] /\ w[3] = v[2] /\ k + 1 = 3
    BY <2>6, <2>7
  <2>9. v[1] \in Nat /\ v[2] \in Nat
    <3>1. v \in Bytes /\ Len(v) = 2
      BY <2>4 DEF Digits
    <3>2. \A i \in 1..2 : v[i] \in Byte
      BY <3>1, ByteAt
    <3>3. QED
      BY <3>2 DEF Byte
  <2>10. v[1] % 128 \in Nat /\ v[2] % 128 \in Nat /\ m % 128 \in Nat
    BY <2>9
  <2>11. QED
    BY <2>2, <2>4, <2>5, <2>7, <2>8, <2>10
<1>4. ASSUME NEW m \in Nat, m >= 2097152, m < 268435456
      PROVE  /\ Digits(WriteVarInt[m], 4)
             /\ m = (WriteVarInt[m][1] % 128) + (WriteVarInt[m][2] % 128) * 128
                      + (WriteVarInt[m][3] % 128) * 16384
                      + (WriteVarInt[m][4] % 128) * 2097152
  <2>1. PICK q : q = m \div 128
    OBVIOUS
  <2>2. q \in Nat /\ q >= 16384 /\ q < 2097152 /\ m = (m % 128) + q * 128 /\ m >= 128
    BY <1>4, <2>1
  <2>3. PICK v : v = WriteVarInt[q]
    OBVIOUS
  <2>4. Digits(v, 3) /\ q = (v[1] % 128) + (v[2] % 128) * 128 + (v[3] % 128) * 16384
    BY <1>3, <2>2, <2>3
  <2>5. PICK w : w = WriteVarInt[m]
    OBVIOUS
  <2>6. PICK k : k = 3
    OBVIOUS
  <2>7. /\ Digits(w, k + 1) /\ w[1] % 128 = m % 128
        /\ \A i \in 1..k : w[i + 1] = v[i]
    <3>1. k \in 1..3 /\ Digits(v, k) /\ WriteVarInt[m \div 128] = v
      BY <2>1, <2>3, <2>4, <2>6
    <3>2. QED
      BY <2>2, <2>5, <3>1, OneDigitMore
  <2>8. w[2] = v[1] /\ w[3] = v[2] /\ w[4] = v[3] /\ k + 1 = 4
    BY <2>6, <2>7
  <2>9. v[1] \in Nat /\ v[2] \in Nat /\ v[3] \in Nat
    <3>1. v \in Bytes /\ Len(v) = 3
      BY <2>4 DEF Digits
    <3>2. \A i \in 1..3 : v[i] \in Byte
      BY SMTT(30), <3>1, ByteAt
    <3>3. QED
      BY SMTT(30), <3>2 DEF Byte
  <2>10. v[1] % 128 \in Nat /\ v[2] % 128 \in Nat /\ v[3] % 128 \in Nat /\ m % 128 \in Nat
    BY <2>9
  <2>11. QED
    BY <2>2, <2>4, <2>5, <2>7, <2>8, <2>10
<1>5. QED
  BY <1>1, <1>2, <1>3, <1>4 DEF IsLength

(* Sums of at most four numbers.                                           *)
LEMMA SmallTotals ==
  ASSUME NEW k \in 1..4, NEW ns \in [1..k -> Nat]
  PROVE  /\ k = 1 => Total(ns) = ns[1]
         /\ k = 2 => Total(ns) = ns[1] + ns[2]
         /\ k = 3 => Total(ns) = ns[1] + ns[2] + ns[3]
         /\ k = 4 => Total(ns) = ns[1] + ns[2] + ns[3] + ns[4]
<1>1. PICK added : added = LastAdded(ns)
  OBVIOUS
<1>2. Total(ns) = added[k]
  <2>1. Len(ns) = k
    OBVIOUS
  <2>2. QED
    BY <1>1, <2>1 DEF Total
<1>3. k \in Nat
  OBVIOUS
<1>4. added[0] = 0
  BY <1>1, <1>3, AddedStepByStep
<1>5. \A i \in 1..k : added[i] = ns[k - i + 1] + added[i - 1]
  BY <1>1, <1>3, AddedStepByStep
<1>6. \A i \in 1..k : ns[i] \in Nat
  OBVIOUS
<1>7. CASE k = 1
  BY <1>2, <1>4, <1>5, <1>6, <1>7
<1>8. CASE k = 2
  <2>1. added[1] = ns[2] + added[0] /\ added[2] = ns[1] + added[1]
    BY <1>5, <1>8
  <2>2. QED
    BY <1>2, <1>4, <1>6, <1>8, <2>1
<1>9. CASE k = 3
  <2>1. added[1] = ns[3] + added[0] /\ added[2] = ns[2] + added[1] /\ added[3] = ns[1] + added[2]
    BY <1>5, <1>9
  <2>2. QED
    BY <1>2, <1>4, <1>6, <1>9, <2>1
<1>10. CASE k = 4
  <2>1. /\ added[1] = ns[4] + added[0] /\ added[2] = ns[3] + added[1]
        /\ added[3] = ns[2] + added[2] /\ added[4] = ns[1] + added[3]
    BY <1>5, <1>10
  <2>2. QED
    BY <1>2, <1>4, <1>6, <1>10, <2>1
<1>11. QED
  BY <1>7, <1>8, <1>9, <1>10

(* Reading a length.                                                       *)
Weighed(w, k) == [i \in 1..k |-> (w[i] % 128) * Weights[i]]

LEMMA DigitsAreRead ==
  ASSUME NEW k \in 1..4, NEW w, Digits(w, k), NEW b \in Bytes
  PROVE  ReadVarInt(w \o b) = [ok |-> TRUE, rest |-> b, v |-> Total(Weighed(w, k))]
<1>1. PICK bs : bs = w \o b
  OBVIOUS
<1>2. w \in Bytes /\ Len(w) = k
  BY DEF Digits
<1>3. bs \in Bytes /\ Len(bs) = k + Len(b) /\ Len(b) \in Nat
  BY <1>1, <1>2, BytesJoin
<1>4. DOMAIN bs = 1..Len(bs)
  BY <1>3 DEF Bytes
<1>5. \A i \in 1..k : bs[i] = w[i]
  BY <1>1, <1>2, JoinedFirst
<1>6. PICK ends : ends = {i \in DOMAIN bs : i <= Len(Weights) /\ bs[i] < 128}
  OBVIOUS
<1>7. Len(Weights) = 4
  BY DEF Weights
<1>8. k \in ends
  <2>1. k \in DOMAIN bs /\ k <= 4
    BY <1>3, <1>4
  <2>2. bs[k] < 128
    BY <1>5 DEF Digits
  <2>3. QED
    BY <1>6, <1>7, <2>1, <2>2
<1>9. ASSUME NEW j \in ends PROVE k <= j /\ j \in Nat
  <2>1. j \in 1..Len(bs) /\ bs[j] < 128
    BY <1>4, <1>6
  <2>2. SUFFICES ASSUME j < k PROVE FALSE
    BY <1>3, <2>1
  <2>3. j \in 1..k /\ j \in 1..(k - 1)
    BY <1>3, <2>1, <2>2
  <2>4. w[j] >= 128 /\ bs[j] = w[j]
    BY <1>5, <2>3 DEF Digits
  <2>5. w[j] \in Nat
    <3>1. w[j] \in Byte
      BY <1>2, <2>3, ByteAt
    <3>2. QED
      BY <3>1 DEF Byte
  <2>6. QED
    BY <2>1, <2>4, <2>5
<1>10. PICK n : n = CHOOSE i \in ends : \A j \in ends : i <= j
  OBVIOUS
<1>11. n = k
  <2>1. n \in ends /\ \A j \in ends : n <= j
    BY <1>8, <1>9, <1>10
  <2>2. n <= k /\ k <= n /\ n \in Nat
    BY <1>8, <1>9, <2>1
  <2>3. QED
    BY <2>2
<1>12. SubSeq(bs, k + 1, Len(bs)) = b
  BY <1>1, <1>2, BytesTaken
<1>13. Weighed(bs, k) = Weighed(w, k)
  BY <1>5 DEF Weighed
<1>15. ReadVarInt(bs)
         = [ok |-> TRUE, rest |-> SubSeq(bs, n + 1, Len(bs)),
            v |-> Total(Weighed(bs, n))]
  BY <1>6, <1>8, <1>10 DEF ReadVarInt, Weighed
<1>16. QED
  BY <1>1, <1>11, <1>12, <1>13, <1>15

(* What is read when the digits, each with its weight, are ns.             *)
AddsUp(w, b, k, ns) ==
    /\ ReadVarInt(w \o b) = [ok |-> TRUE, rest |-> b, v |-> Total(ns)]
    /\ \A i \in 1..k : ns[i] = (w[i] % 128) * Weights[i]

(* Every length below 2^28 is read as it was written, whatever follows it. *)
LEMMA LengthsAreRead ==
  ASSUME NEW n \in Nat, n < 268435456, NEW b \in Bytes
  PROVE  ReadVarInt(WriteVarInt[n] \o b) = [ok |-> TRUE, rest |-> b, v |-> n]
<1>1. PICK w : w = WriteVarInt[n]
  OBVIOUS
<1>2. IsLength(w, n)
  BY <1>1, LengthsAreWritten
<1>3. ASSUME NEW k \in 1..4, Digits(w, k)
      PROVE  \E ns \in [1..k -> Nat] : AddsUp(w, b, k, ns)
  <2>1. PICK ns : ns = Weighed(w, k)
    OBVIOUS
  <2>2. ReadVarInt(w \o b) = [ok |-> TRUE, rest |-> b, v |-> Total(ns)]
    BY <1>3, <2>1, DigitsAreRead
  <2>3. ASSUME NEW i \in 1..k PROVE (w[i] % 128) * Weights[i] \in Nat
    <3>1. w[i] \in Nat
      <4>1. w \in Bytes /\ Len(w) = k
        BY <1>3 DEF Digits
      <4>2. w[i] \in Byte
        BY <4>1, ByteAt
      <4>3. QED
        BY <4>2 DEF Byte
    <3>2. Weights[i] \in Nat
      BY DEF Weights
    <3>3. PICK x, y : x = w[i] % 128 /\ y = Weights[i]
      OBVIOUS
    <3>4. x \in Nat /\ y \in Nat
      BY <3>1, <3>2, <3>3
    <3>5. x * y \in Nat
      BY <3>4
    <3>6. QED
      BY <3>3, <3>5
  <2>4. ns \in [1..k -> Nat]
    BY <2>1, <2>3 DEF Weighed
  <2>5. \A i \in 1..k : ns[i] = (w[i] % 128) * Weights[i]
    BY <2>1 DEF Weighed
  <2>6. AddsUp(w, b, k, ns)
    BY <2>2, <2>5 DEF AddsUp
  <2>7. QED
    BY <2>4, <2>6
<1>4. Weights[1] = 1 /\ Weights[2] = 128 /\ Weights[3] = 16384 /\ Weights[4] = 2097152
  BY DEF Weights
<1>5. ASSUME NEW k \in 1..4, Digits(w, k), NEW i \in 1..k PROVE w[i] % 128 \in Nat
  <2>1. w \in Bytes /\ Len(w) = k
    BY <1>5 DEF Digits
  <2>2. w[i] \in Byte
    BY <2>1, ByteAt
  <2>3. QED
    BY SMTT(30), <2>2 DEF Byte
<1>6. CASE Digits(w, 1) /\ n = w[1] % 128
  <2>1. PICK k : k = 1
    OBVIOUS
  <2>0. PICK ns \in [1..k -> Nat] : AddsUp(w, b, k, ns)
    BY <1>3, <1>6, <2>1
  <2>2. /\ ReadVarInt(w \o b) = [ok |-> TRUE, rest |-> b, v |-> Total(ns)]
        /\ \A i \in 1..k : ns[i] = (w[i] % 128) * Weights[i]
    BY <2>0 DEF AddsUp
  <2>3. Total(ns) = ns[1]
    BY <2>1, SmallTotals
  <2>4. ns[1] = w[1] % 128
    BY <1>4, <1>5, <1>6, <2>1, <2>2
  <2>5. QED
    BY <1>1, <1>6, <2>2, <2>3, <2>4
<1>7. CASE Digits(w, 2) /\ n = (w[1] % 128) + (w[2] % 128) * 128
  <2>1. PICK k : k = 2
    OBVIOUS
  <2>0. PICK ns \in [1..k -> Nat] : AddsUp(w, b, k, ns)
    BY <1>3, <1>7, <2>1
  <2>2. /\ ReadVarInt(w \o b) = [ok |-> TRUE, rest |-> b, v |-> Total(ns)]
        /\ \A i \in 1..k : ns[i] = (w[i] % 128) * Weights[i]
    BY <2>0 DEF AddsUp
  <2>3. Total(ns) = ns[1] + ns[2]
    BY <2>1, SmallTotals
  <2>4. w[1] % 128 \in Nat /\ w[2] % 128 \in Nat
    BY <1>5, <1>7, <2>1
  <2>5. ns[1] = w[1] % 128 /\ ns[2] = (w[2] % 128) * 128
    BY <1>4, <2>1, <2>2, <2>4
  <2>6. Total(ns) = n
    BY <1>7, <2>3, <2>5
  <2>7. QED
    BY <1>1, <2>2, <2>6
<1>8. CASE Digits(w, 3) /\ n = (w[1] % 128) + (w[2] % 128) * 128 + (w[3] % 128) * 16384
  <2>1. PICK k : k = 3
    OBVIOUS
  <2>0. PICK ns \in [1..k -> Nat] : AddsUp(w, b, k, ns)
    BY <1>3, <1>8, <2>1
  <2>2. /\ ReadVarInt(w \o b) = [ok |-> TRUE, rest |-> b, v |-> Total(ns)]
        /\ \A i \in 1..k : ns[i] = (w[i] % 128) * Weights[i]
    BY <2>0 DEF AddsUp
  <2>3. Total(ns) = ns[1] + ns[2] + ns[3]
    BY <2>1, SmallTotals
  <2>4. w[1] % 128 \in Nat /\ w[2] % 128 \in Nat /\ w[3] % 128 \in Nat
    BY <1>5, <1>8, <2>1
  <2>5. ns[1] = w[1] % 128 /\ ns[2] = (w[2] % 128) * 128 /\ ns[3] = (w[3] % 128) * 16384
    BY <1>4, <2>1, <2>2, <2>4
  <2>6. Total(ns) = n
    BY <1>8, <2>3, <2>5
  <2>7. QED
    BY <1>1, <2>2, <2>6
<1>9. CASE /\ Digits(w, 4)
           /\ n = (w[1] % 128) + (w[2] % 128) * 128 + (w[3] % 128) * 16384
                    + (w[4] % 128) * 2097152
  <2>1. PICK k : k = 4
    OBVIOUS
  <2>0. PICK ns \in [1..k -> Nat] : AddsUp(w, b, k, ns)
    BY <1>3, <1>9, <2>1
  <2>2. /\ ReadVarInt(w \o b) = [ok |-> TRUE, rest |-> b, v |-> Total(ns)]
        /\ \A i \in 1..k : ns[i] = (w[i] % 128) * Weights[i]
    BY <2>0 DEF AddsUp
  <2>3. Total(ns) = ns[1] + ns[2] + ns[3] + ns[4]
    BY <2>1, SmallTotals
  <2>4. w[1] % 128 \in Nat /\ w[2] % 128 \in Nat /\ w[3] % 128 \in Nat /\ w[4] % 128 \in Nat
    BY <1>5, <1>9, <2>1
  <2>5. /\ ns[1] = w[1] % 128 /\ ns[2] = (w[2] % 128) * 128
        /\ ns[3] = (w[3] % 128) * 16384 /\ ns[4] = (w[4] % 128) * 2097152
    BY <1>4, <2>1, <2>2, <2>4
  <2>6. Total(ns) = n
    BY <1>9, <2>3, <2>5
  <2>7. QED
    BY <1>1, <2>2, <2>6
<1>10. QED
  BY <1>2, <1>6, <1>7, <1>8, <1>9 DEF IsLength

(* A length that breaks off is not read.                                   *)
LEMMA ByteIsNat ==
  ASSUME NEW b \in Byte
  PROVE  b \in Nat /\ b < 256
BY DEF Byte

LEMMA NoDigits ==
  ASSUME NEW w \in Bytes, \A i \in 1..Len(w) : w[i] >= 128
  PROVE  ReadVarInt(w) = [ok |-> FALSE]
<1>1. DOMAIN w = 1..Len(w)
  BY DEF Bytes
<1>2. \A i \in DOMAIN w : w[i] \in Nat
  <2>1. \A i \in 1..Len(w) : w[i] \in Byte
    BY ByteAt
  <2>2. QED
    BY <1>1, <2>1, ByteIsNat
<1>3. {i \in DOMAIN w : i <= Len(Weights) /\ w[i] < 128} = {}
  BY <1>1, <1>2
<1>4. QED
  BY <1>3 DEF ReadVarInt

(* Fields.                                                                 *)
Kinds == {"byte", "u16", "string", "rest"}
Values == Nat \cup Bytes
Readings == [ok : BOOLEAN, vals : Seq(Values), rest : Bytes]

LEMMA U16IsNat ==
  ASSUME NEW bs \in Bytes, Len(bs) >= 2
  PROVE  U16(bs) \in Nat
<1>1. Len(bs) \in Nat
  BY ByteAt
<1>2. 1 \in 1..Len(bs) /\ 2 \in 1..Len(bs)
  BY <1>1
<1>3. bs[1] \in Byte /\ bs[2] \in Byte
  BY <1>2, ByteAt
<1>4. bs[1] \in Nat /\ bs[2] \in Nat
  BY <1>3, ByteIsNat
<1>5. QED
  BY <1>4 DEF U16

LEMMA SizeIsNat ==
  ASSUME NEW kind \in Kinds, NEW bs \in Bytes
  PROVE  Size(kind, bs) \in Nat
<1>1. Len(bs) \in Nat
  BY ByteAt
<1>2. Len(bs) < 2 \/ U16(bs) \in Nat
  BY <1>1, U16IsNat
<1>3. QED
  BY <1>1, <1>2 DEF Size, Kinds

(* A part of a string.                                                     *)
LEMMA PartOf ==
  ASSUME NEW bs \in Bytes, NEW m \in Nat, m >= 1, NEW n \in Nat, n <= Len(bs)
  PROVE  SubSeq(bs, m, n) \in Bytes
<1>1. Len(bs) \in Nat
  BY ByteAt
<1>2. \A i \in m..n : bs[i] \in Byte
  <2>1. TAKE i \in m..n
  <2>2. i \in 1..Len(bs)
    BY <1>1
  <2>3. QED
    BY <2>2, ByteAt
<1>3. m \in Int /\ n \in Int
  OBVIOUS
<1>4. QED
  BY <1>2, <1>3, SubSeqProperties DEF Bytes

LEMMA ValueIsTyped ==
  ASSUME NEW kind \in Kinds, NEW bs \in Bytes, Size(kind, bs) <= Len(bs)
  PROVE  Value(kind, bs) \in Values
<1>1. Len(bs) \in Nat
  BY ByteAt
<1>2. CASE kind = "byte"
  <2>1. 1 \in 1..Len(bs)
    BY <1>1, <1>2 DEF Size
  <2>2. bs[1] \in Byte
    BY <2>1, ByteAt
  <2>3. bs[1] \in Nat
    BY <2>2, ByteIsNat
  <2>4. QED
    BY <1>2, <2>3 DEF Value, Values
<1>3. CASE kind = "u16"
  <2>1. Len(bs) >= 2
    BY <1>1, <1>3 DEF Size
  <2>2. U16(bs) \in Nat
    BY <2>1, U16IsNat
  <2>3. QED
    BY <1>3, <2>2 DEF Value, Values
<1>4. CASE kind = "string"
  <2>1. Len(bs) >= 2
    BY <1>1, <1>4 DEF Size
  <2>2. U16(bs) \in Nat
    BY <2>1, U16IsNat
  <2>3. 2 + U16(bs) <= Len(bs)
    BY <1>1, <1>4, <2>1 DEF Size
  <2>4. PICK k \in Nat : k = 2 + U16(bs)
    BY <2>2
  <2>5. PICK three \in Nat : three = 3
    OBVIOUS
  <2>6. SubSeq(bs, three, k) \in Bytes
    BY <2>3, <2>4, <2>5, PartOf
  <2>7. QED
    BY <1>4, <2>4, <2>5, <2>6 DEF Value, Values
<1>5. CASE kind = "rest"
  BY <1>5 DEF Value, Values
<1>6. QED
  BY <1>2, <1>3, <1>4, <1>5 DEF Kinds

LEMMA ReadFieldIsTyped ==
  ASSUME NEW kind \in Kinds, NEW r \in Readings
  PROVE  ReadField(r, kind) \in Readings
<1>1. PICK ok, vals, rest : ok = r.ok /\ vals = r.vals /\ rest = r.rest
  OBVIOUS
<1>2. ok \in BOOLEAN /\ vals \in Seq(Values) /\ rest \in Bytes
  BY <1>1 DEF Readings
<1>3. CASE r.ok /\ Size(kind, rest) <= Len(rest)
  <2>1. PICK v \in Values : v = Value(kind, rest)
    BY <1>2, <1>3, ValueIsTyped
  <2>2. Append(vals, v) \in Seq(Values)
    BY <1>2, AppendProperties
  <2>3. PICK n \in Nat : n = Size(kind, rest)
    BY <1>2, SizeIsNat
  <2>4. Len(rest) \in Nat
    BY <1>2, ByteAt
  <2>5. PICK m, l : m = n + 1 /\ l = Len(rest)
    OBVIOUS
  <2>6. m \in Nat /\ m >= 1 /\ l \in Nat /\ l <= Len(rest)
    BY <2>4, <2>5
  <2>7. SubSeq(rest, m, l) \in Bytes
    BY <1>2, <2>6, PartOf
  <2>8. ReadField(r, kind) = [ok |-> TRUE, vals |-> Append(vals, v), rest |-> SubSeq(rest, m, l)]
    BY <1>1, <1>3, <2>1, <2>3, <2>5 DEF ReadField
  <2>9. QED
    BY <2>2, <2>7, <2>8 DEF Readings
<1>4. CASE ~(r.ok /\ Size(kind, rest) <= Len(rest))
  <2>1. ReadField(r, kind) = [r EXCEPT !.ok = FALSE]
    BY <1>1, <1>4 DEF ReadField
  <2>2. QED
    BY <2>1 DEF Readings
<1>5. QED
  BY <1>3, <1>4

(* What FieldsRead is, step by step.                                       *)
ReadInTurn(f, n, kinds, bs) ==
    /\ f \in [0..n -> Readings] /\ f[0] = [ok |-> TRUE, vals |-> <<>>, rest |-> bs]
    /\ \A i \in 1..n : f[i] = ReadField(f[i - 1], kinds[i])

LEMMA FieldsStepByStep ==
  ASSUME NEW n \in Nat, NEW kinds \in [1..n -> Kinds], NEW bs \in Bytes
  PROVE  ReadInTurn(FieldsRead(kinds, bs), n, kinds, bs)
<1> DEFINE Eq(f) == f = [i \in 0..n |-> IF i = 0 THEN [ok |-> TRUE, vals |-> <<>>, rest |-> bs]
                                        ELSE ReadField(f[i - 1], kinds[i])]
<1>1. PICK Step : Step = [x \in (1..n) \X Readings |-> ReadField(x[2], kinds[x[1]])]
  OBVIOUS
<1>2. ASSUME NEW i \in 1..n, NEW r \in Readings
      PROVE  Step[i, r] = ReadField(r, kinds[i]) /\ ReadField(r, kinds[i]) \in Readings
  <2>1. PICK x : x = <<i, r>>
    OBVIOUS
  <2>2. x \in (1..n) \X Readings /\ x[1] = i /\ x[2] = r
    BY <2>1
  <2>3. Step[x] = ReadField(r, kinds[i])
    BY <1>1, <2>2
  <2>4. QED
    BY <2>1, <2>3, ReadFieldIsTyped
<1>3. Step \in [(1..n) \X Readings -> Readings]
  <2>1. ASSUME NEW x \in (1..n) \X Readings PROVE ReadField(x[2], kinds[x[1]]) \in Readings
    <3>1. x[1] \in 1..n /\ x[2] \in Readings
      OBVIOUS
    <3>2. QED
      BY <3>1, ReadFieldIsTyped
  <2>2. QED
    BY <1>1, <2>1
<1>4. PICK start : start = [ok |-> TRUE, vals |-> <<>>, rest |-> bs]
  OBVIOUS
<1>5. start \in Readings
  BY <1>4 DEF Readings
<1>6. PICK f \in [0..n -> Readings] : Follows(f, n, start, Step)
  BY <1>3, <1>5, Recursion
<1>7. ASSUME NEW i \in 1..n PROVE f[i] = ReadField(f[i - 1], kinds[i])
  <2>1. PICK r \in Readings : r = f[i - 1]
    OBVIOUS
  <2>2. f[i] = Step[i, r]
    BY <1>6, <2>1 DEF Follows
  <2>3. QED
    BY <1>2, <2>1, <2>2
<1>8. f[0] = start
  BY <1>6 DEF Follows
<1>9. Eq(f)
  <2>1. ASSUME NEW i \in 0..n
        PROVE  f[i] = IF i = 0 THEN start ELSE ReadField(f[i - 1], kinds[i])
    <3>1. CASE i = 0
      BY <1>8, <3>1
    <3>2. CASE i # 0
      <4>1. i \in 1..n
        BY <3>2
      <4>2. QED
        BY <1>7, <3>2, <4>1
    <3>3. QED
      BY <3>1, <3>2
  <2>2. QED
    BY <1>4, <2>1
<1>10. FieldsRead(kinds, bs) = CHOOSE g : Eq(g)
  <2>1. Len(kinds) = n
    OBVIOUS
  <2>2. QED
    BY <2>1 DEF FieldsRead
<1>11. PICK g : g = FieldsRead(kinds, bs)
  OBVIOUS
<1>12. Eq(g)
  <2> HIDE DEF Eq
  <2>1. QED
    BY <1>9, <1>10, <1>11
<1>13. g[0] = start /\ \A i \in 1..n : g[i] = ReadField(g[i - 1], kinds[i])
  <2>1. 0 \in 0..n
    OBVIOUS
  <2>2. g[0] = [ok |-> TRUE, vals |-> <<>>, rest |-> bs]
    BY <1>12, <2>1
  <2>3. ASSUME NEW i \in 1..n PROVE g[i] = ReadField(g[i - 1], kinds[i])
    <3>1. i \in 0..n /\ i # 0
      OBVIOUS
    <3>2. QED
      BY <1>12, <3>1
  <2>4. QED
    BY <1>4, <2>2, <2>3
<1>14. \A i \in 0..n : g[i] \in Readings
  <2> DEFINE P == {i \in 0..n : g[i] \in Readings}
  <2>1. 0 \in P
    BY <1>5, <1>13
  <2>2. ASSUME NEW i \in 0..(n - 1), i \in P PROVE i + 1 \in P
    <3>1. PICK k : k = i + 1
      OBVIOUS
    <3>2. k \in 1..n /\ k - 1 = i /\ kinds[k] \in Kinds
      BY <3>1
    <3>3. g[k] = ReadField(g[i], kinds[k])
      BY <1>13, <3>2
    <3>4. g[k] \in Readings
      BY <2>2, <3>2, <3>3, ReadFieldIsTyped
    <3>5. QED
      BY <3>1, <3>2, <3>4
  <2> HIDE DEF P
  <2>3. \A i \in 0..n : i \in P
    BY <2>1, <2>2, UpTo
  <2>4. QED
    BY <2>3 DEF P
<1>15. g \in [0..n -> Readings]
  <2>1. DOMAIN g = 0..n /\ g = [i \in 0..n |-> g[i]]
    BY <1>12
  <2>2. QED
    BY <1>14, <2>1
<1>16. ReadInTurn(g, n, kinds, bs)
  BY <1>4, <1>13, <1>15 DEF ReadInTurn
<1>17. QED
  BY <1>11, <1>16

(* Fields read after others.                                               *)
Prepend(vals, r) == [ok |-> r.ok, vals |-> vals \o r.vals, rest |-> r.rest]

LEMMA PrependedRead ==
  ASSUME NEW vals \in Seq(Values), NEW r \in Readings, NEW kind \in Kinds
  PROVE  ReadField(Prepend(vals, r), kind) = Prepend(vals, ReadField(r, kind))
<1>1. PICK ok, read, rest : ok = r.ok /\ read = r.vals /\ rest = r.rest
  OBVIOUS
<1>2. ok \in BOOLEAN /\ read \in Seq(Values) /\ rest \in Bytes
  BY <1>1 DEF Readings
<1>3. PICK s : s = Prepend(vals, r)
  OBVIOUS
<1>4. s = [ok |-> ok, vals |-> vals \o read, rest |-> rest]
  BY <1>1, <1>3 DEF Prepend
<1>5. s.ok = ok /\ s.vals = vals \o read /\ s.rest = rest
  BY <1>4
<1>6. CASE ok /\ Size(kind, rest) <= Len(rest)
  <2>1. PICK v \in Values : v = Value(kind, rest)
    BY <1>2, <1>6, ValueIsTyped
  <2>2. PICK left : left = SubSeq(rest, Size(kind, rest) + 1, Len(rest))
    OBVIOUS
  <2>3. ReadField(r, kind) = [ok |-> TRUE, vals |-> Append(read, v), rest |-> left]
    BY <1>1, <1>6, <2>1, <2>2 DEF ReadField
  <2>4. ReadField(s, kind) = [ok |-> TRUE, vals |-> Append(vals \o read, v), rest |-> left]
    BY <1>5, <1>6, <2>1, <2>2 DEF ReadField
  <2>5. Append(vals \o read, v) = vals \o Append(read, v)
    <3>1. PICK l : l = <<v>>
      OBVIOUS
    <3>2. l \in Seq(Values)
      BY <3>1
    <3>3. vals \o read \in Seq(Values)
      BY <1>2, ConcatProperties
    <3>4. Append(vals \o read, v) = (vals \o read) \o l
      BY <3>1, <3>3, AppendIsConcat
    <3>5. Append(read, v) = read \o l
      BY <1>2, <3>1, AppendIsConcat
    <3>6. (vals \o read) \o l = vals \o (read \o l)
      BY <1>2, <3>2, ConcatAssociative
    <3>7. QED
      BY <3>4, <3>5, <3>6
  <2>6. PICK t : t = ReadField(r, kind)
    OBVIOUS
  <2>7. t.ok = TRUE /\ t.vals = Append(read, v) /\ t.rest = left
    BY <2>3, <2>6
  <2>8. Prepend(vals, t) = [ok |-> TRUE, vals |-> vals \o Append(read, v), rest |-> left]
    BY <2>7 DEF Prepend
  <2>9. QED
    BY <1>3, <2>4, <2>5, <2>6, <2>8
<1>7. CASE ~(ok /\ Size(kind, rest) <= Len(rest))
  <2>1. PICK t : t = ReadField(r, kind)
    OBVIOUS
  <2>2. t = [r EXCEPT !.ok = FALSE]
    BY <1>1, <1>7, <2>1 DEF ReadField
  <2>3. t.ok = FALSE /\ t.vals = read /\ t.rest = rest
    BY <1>1, <2>2 DEF Readings
  <2>4. Prepend(vals, t) = [ok |-> FALSE, vals |-> vals \o read, rest |-> rest]
    BY <2>3 DEF Prepend
  <2>5. ReadField(s, kind) = [s EXCEPT !.ok = FALSE]
    BY <1>5, <1>7 DEF ReadField
  <2>6. [s EXCEPT !.ok = FALSE] = [ok |-> FALSE, vals |-> vals \o read, rest |-> rest]
    <3>1. PICK both : both = vals \o read
      OBVIOUS
    <3>2. s = [ok |-> ok, vals |-> both, rest |-> rest]
      BY <1>4, <3>1
    <3>3. [s EXCEPT !.ok = FALSE] = [ok |-> FALSE, vals |-> both, rest |-> rest]
      <4>1. s \in [ok : BOOLEAN, vals : {both}, rest : {rest}]
        BY <1>2, <3>2
      <4>2. PICK u : u = [s EXCEPT !.ok = FALSE]
        OBVIOUS
      <4>3. u \in [ok : BOOLEAN, vals : {both}, rest : {rest}] /\ u.ok = FALSE
        BY <4>1, <4>2
      <4>4. u = [ok |-> FALSE, vals |-> both, rest |-> rest]
        BY <4>3
      <4>5. QED
        BY <4>2, <4>4
    <3>4. QED
      BY <3>1, <3>3
  <2>7. QED
    BY <1>3, <2>1, <2>4, <2>5, <2>6
<1>8. QED
  BY <1>6, <1>7

LEMMA ReadFieldsTyped ==
  ASSUME NEW kinds \in Seq(Kinds), NEW bs \in Bytes
  PROVE  ReadFields(kinds, bs) \in Readings
<1>1. PICK n \in Nat : n = Len(kinds)
  BY LenProperties
<1>2. kinds \in [1..n -> Kinds]
  BY <1>1, LenProperties
<1>3. FieldsRead(kinds, bs) \in [0..n -> Readings]
  <2>1. ReadInTurn(FieldsRead(kinds, bs), n, kinds, bs)
    BY <1>2, FieldsStepByStep
  <2>2. QED
    BY <2>1 DEF ReadInTurn
<1>4. QED
  BY <1>1, <1>3 DEF ReadFields

LEMMA ReadsOn ==
  ASSUME NEW k1 \in Seq(Kinds), NEW k2 \in Seq(Kinds), NEW bs \in Bytes,
         NEW r, r = ReadFields(k1, bs)
  PROVE  /\ k1 \o k2 \in Seq(Kinds)
         /\ r.ok => ReadFields(k1 \o k2, bs) = Prepend(r.vals, ReadFields(k2, r.rest))
<1>1. PICK n1 \in Nat, n2 \in Nat : n1 = Len(k1) /\ n2 = Len(k2)
  BY LenProperties
<1>2. PICK kinds : kinds = k1 \o k2
  OBVIOUS
<1>3. PICK n \in Nat : n = n1 + n2
  OBVIOUS
<1>4. kinds \in Seq(Kinds) /\ Len(kinds) = n
  BY <1>1, <1>2, <1>3, ConcatProperties
<1>5. ASSUME NEW i \in 1..n1 PROVE kinds[i] = k1[i] /\ i \in 1..n
  <2>1. i \in 1..(Len(k1) + Len(k2)) /\ i <= Len(k1) /\ i \in 1..n
    BY <1>1, <1>3
  <2>2. QED
    BY <1>2, <2>1, ConcatProperties
<1>6. ASSUME NEW i \in 1..n2, NEW j, j = n1 + i PROVE kinds[j] = k2[i] /\ j \in 1..n
  <2>1. j \in 1..(Len(k1) + Len(k2)) /\ ~(j <= Len(k1)) /\ j - Len(k1) = i /\ j \in 1..n
    BY <1>1, <1>3, <1>6
  <2>2. kinds[j] = IF j <= Len(k1) THEN k1[j] ELSE k2[j - Len(k1)]
    BY <1>2, <2>1, ConcatProperties
  <2>3. QED
    BY <2>1, <2>2
<1>7. k1 \in [1..n1 -> Kinds] /\ k2 \in [1..n2 -> Kinds] /\ kinds \in [1..n -> Kinds]
  BY <1>1, <1>4, LenProperties
<1>8. PICK F, F1 : F = FieldsRead(kinds, bs) /\ F1 = FieldsRead(k1, bs)
  OBVIOUS
<1>9. /\ F[0] = [ok |-> TRUE, vals |-> <<>>, rest |-> bs]
      /\ \A i \in 1..n : F[i] = ReadField(F[i - 1], kinds[i])
  <2>1. ReadInTurn(F, n, kinds, bs)
    BY <1>7, <1>8, FieldsStepByStep
  <2>2. QED
    BY <2>1 DEF ReadInTurn
<1>10. /\ F1[0] = [ok |-> TRUE, vals |-> <<>>, rest |-> bs]
       /\ \A i \in 1..n1 : F1[i] = ReadField(F1[i - 1], k1[i])
  <2>1. ReadInTurn(F1, n1, k1, bs)
    BY <1>7, <1>8, FieldsStepByStep
  <2>2. QED
    BY <2>1 DEF ReadInTurn
<1>11. r = F1[n1] /\ ReadFields(kinds, bs) = F[n] /\ r \in Readings
  BY <1>1, <1>4, <1>8, ReadFieldsTyped DEF ReadFields
<1>12. F[n1] = r
  <2> DEFINE P == {i \in 0..n1 : F[i] = F1[i]}
  <2>1. 0 \in P
    BY <1>9, <1>10
  <2>2. ASSUME NEW i \in 0..(n1 - 1), i \in P PROVE i + 1 \in P
    <3>1. PICK k : k = i + 1
      OBVIOUS
    <3>2. k \in 1..n1 /\ k - 1 = i
      BY <3>1
    <3>3. k \in 1..n /\ kinds[k] = k1[k]
      BY <1>5, <3>2
    <3>4. F[k] = ReadField(F[i], kinds[k]) /\ F1[k] = ReadField(F1[i], k1[k])
      BY <1>9, <1>10, <3>2, <3>3
    <3>5. F[k] = F1[k]
      BY <2>2, <3>3, <3>4
    <3>6. QED
      BY <3>1, <3>2, <3>5
  <2> HIDE DEF P
  <2>3. \A i \in 0..n1 : i \in P
    BY <2>1, <2>2, UpTo
  <2>4. n1 \in P
    BY <2>3
  <2>5. QED
    BY <1>11, <2>4 DEF P
<1>13. ASSUME r.ok PROVE ReadFields(kinds, bs) = Prepend(r.vals, ReadFields(k2, r.rest))
  <2>1. PICK vals, rest : vals = r.vals /\ rest = r.rest
    OBVIOUS
  <2>2. vals \in Seq(Values) /\ rest \in Bytes
    BY <1>11, <2>1 DEF Readings
  <2>3. PICK F2 : F2 = FieldsRead(k2, rest)
    OBVIOUS
  <2>12. ReadInTurn(F2, n2, k2, rest)
    BY <1>7, <2>2, <2>3, FieldsStepByStep
  <2>4. F2[0] = [ok |-> TRUE, vals |-> <<>>, rest |-> rest]
    BY <2>12 DEF ReadInTurn
  <2>5. \A i \in 1..n2 : F2[i] = ReadField(F2[i - 1], k2[i])
    BY <2>12 DEF ReadInTurn
  <2>6. F2 \in [0..n2 -> Readings]
    BY <2>12 DEF ReadInTurn
  <2> DEFINE P == {i \in 0..n2 : F[n1 + i] = Prepend(vals, F2[i])}
  <2>7. 0 \in P
    <3>1. r = [ok |-> TRUE, vals |-> vals, rest |-> rest]
      BY <1>11, <1>13, <2>1 DEF Readings
    <3>2. PICK s : s = F2[0]
      OBVIOUS
    <3>3. s.ok = TRUE /\ s.vals = <<>> /\ s.rest = rest
      BY <2>4, <3>2
    <3>4. vals \o <<>> = vals
      BY <2>2, ConcatEmptySeq
    <3>5. Prepend(vals, s) = [ok |-> TRUE, vals |-> vals, rest |-> rest]
      BY <3>3, <3>4 DEF Prepend
    <3>6. PICK m : m = n1 + 0
      OBVIOUS
    <3>7. m = n1
      BY <3>6
    <3>8. QED
      BY <1>12, <3>1, <3>2, <3>5, <3>6, <3>7
  <2>8. ASSUME NEW i \in 0..(n2 - 1), i \in P PROVE i + 1 \in P
    <3>1. PICK k : k = i + 1
      OBVIOUS
    <3>2. k \in 1..n2 /\ k - 1 = i /\ i \in 0..n2
      BY <3>1
    <3>3. PICK j : j = n1 + k
      OBVIOUS
    <3>4. kinds[j] = k2[k] /\ j \in 1..n
      BY <1>6, <3>2, <3>3
    <3>5. j - 1 = n1 + i
      BY <3>1, <3>3
    <3>6. F[j] = ReadField(F[n1 + i], k2[k])
      BY <1>9, <3>4, <3>5
    <3>7. F2[k] = ReadField(F2[i], k2[k])
      BY <2>5, <3>2
    <3>8. F2[i] \in Readings /\ k2[k] \in Kinds
      BY <1>7, <2>6, <3>2
    <3>9. F[n1 + i] = Prepend(vals, F2[i])
      BY <2>8
    <3>10. F[j] = Prepend(vals, F2[k])
      BY <2>2, <3>6, <3>7, <3>8, <3>9, PrependedRead
    <3>11. QED
      BY <3>1, <3>2, <3>3, <3>10
  <2>9. n2 \in P
    <3> HIDE DEF P
    <3>1. \A i \in 0..n2 : i \in P
      BY <2>7, <2>8, UpTo
    <3>2. QED
      BY <3>1
  <2>10. ReadFields(k2, rest) = F2[n2]
    BY <1>1, <2>3 DEF ReadFields
  <2>11. QED
    BY <1>3, <1>11, <2>1, <2>9, <2>10
<1>14. QED
  BY <1>2, <1>4, <1>13

(* Fields that are read from bs as vals, whatever follows, and those that  *)
(* are when nothing follows.                                               *)
Reads(kinds, vals, bs) ==
    /\ kinds \in Seq(Kinds) /\ vals \in Seq(Values) /\ bs \in Bytes
    /\ \A more \in Bytes :
          ReadFields(kinds, bs \o more) = [ok |-> TRUE, vals |-> vals, rest |-> more]
ReadsAll(kinds, vals, bs) ==
    /\ kinds \in Seq(Kinds) /\ vals \in Seq(Values) /\ bs \in Bytes
    /\ ReadFields(kinds, bs) = [ok |-> TRUE, vals |-> vals, rest |-> <<>>]

LEMMA ReadsEnd ==
  ASSUME NEW kinds, NEW vals, NEW bs, Reads(kinds, vals, bs)
  PROVE  ReadsAll(kinds, vals, bs)
<1>1. kinds \in Seq(Kinds) /\ vals \in Seq(Values) /\ bs \in Bytes
  BY DEF Reads
<1>2. PICK none \in Bytes : none = <<>>
  BY <1>1, JoinNothing
<1>3. ReadFields(kinds, bs \o none) = [ok |-> TRUE, vals |-> vals, rest |-> none]
  BY DEF Reads
<1>4. bs \o none = bs
  BY <1>1, <1>2, JoinNothing
<1>5. QED
  BY <1>1, <1>2, <1>3, <1>4 DEF ReadsAll

LEMMA ReadsNothing ==
  Reads(<<>>, <<>>, <<>>)
<1>1. PICK none : none = <<>>
  OBVIOUS
<1>2. none \in Seq(Kinds) /\ none \in Seq(Values) /\ none \in Bytes /\ Len(none) = 0
  BY <1>1 DEF Bytes
<1>3. ASSUME NEW more \in Bytes
      PROVE  ReadFields(none, none \o more) = [ok |-> TRUE, vals |-> none, rest |-> more]
  <2>1. none \o more = more
    BY <1>1, JoinNothing
  <2>2. PICK zero \in Nat : zero = 0
    OBVIOUS
  <2>3. none \in [1..zero -> Kinds]
    BY <1>2, <2>2, LenProperties
  <2>4. ReadInTurn(FieldsRead(none, more), zero, none, more)
    BY <2>3, FieldsStepByStep
  <2>5. FieldsRead(none, more)[0] = [ok |-> TRUE, vals |-> <<>>, rest |-> more]
    BY <2>4 DEF ReadInTurn
  <2>6. QED
    BY <1>1, <1>2, <2>1, <2>5 DEF ReadFields
<1>4. Reads(none, none, none)
  BY <1>2, <1>3 DEF Reads
<1>5. QED
  BY <1>1, <1>4

LEMMA ReadsLast ==
  ASSUME NEW k1, NEW v1, NEW b1, Reads(k1, v1, b1),
         NEW k2, NEW v2, NEW b2, ReadsAll(k2, v2, b2)
  PROVE  ReadsAll(k1 \o k2, v1 \o v2, b1 \o b2)
<1>1. /\ k1 \in Seq(Kinds) /\ v1 \in Seq(Values) /\ b1 \in Bytes
      /\ k2 \in Seq(Kinds) /\ v2 \in Seq(Values) /\ b2 \in Bytes
  BY DEF Reads, ReadsAll
<1>2. b1 \o b2 \in Bytes
  BY <1>1, BytesJoin
<1>3. v1 \o v2 \in Seq(Values)
  BY <1>1, ConcatProperties
<1>4. PICK r : r = ReadFields(k1, b1 \o b2)
  OBVIOUS
<1>5. r = [ok |-> TRUE, vals |-> v1, rest |-> b2]
  BY <1>1, <1>4 DEF Reads
<1>6. r.ok = TRUE /\ r.vals = v1 /\ r.rest = b2
  BY <1>5
<1>7. ReadFields(k1 \o k2, b1 \o b2) = Prepend(r.vals, ReadFields(k2, r.rest))
  BY <1>1, <1>2, <1>4, <1>6, ReadsOn
<1>8. k1 \o k2 \in Seq(Kinds)
  BY <1>1, ConcatProperties
<1>9. PICK s : s = ReadFields(k2, b2)
  OBVIOUS
<1>10. s = [ok |-> TRUE, vals |-> v2, rest |-> <<>>]
  BY <1>9 DEF ReadsAll
<1>11. s.ok = TRUE /\ s.vals = v2 /\ s.rest = <<>>
  BY <1>10
<1>12. Prepend(v1, s) = [ok |-> TRUE, vals |-> v1 \o v2, rest |-> <<>>]
  BY <1>11 DEF Prepend
<1>13. ReadFields(k1 \o k2, b1 \o b2) = [ok |-> TRUE, vals |-> v1 \o v2, rest |-> <<>>]
  BY <1>6, <1>7, <1>9, <1>12
<1>14. QED
  BY <1>2, <1>3, <1>8, <1>13 DEF ReadsAll

LEMMA ReadsJoin ==
  ASSUME NEW k1, NEW v1, NEW b1, Reads(k1, v1, b1),
         NEW k2, NEW v2, NEW b2, Reads(k2, v2, b2)
  PROVE  Reads(k1 \o k2, v1 \o v2, b1 \o b2)
<1>1. /\ k1 \in Seq(Kinds) /\ v1 \in Seq(Values) /\ b1 \in Bytes
      /\ k2 \in Seq(Kinds) /\ v2 \in Seq(Values) /\ b2 \in Bytes
  BY DEF Reads
<1>2. b1 \o b2 \in Bytes
  BY <1>1, BytesJoin
<1>3. v1 \o v2 \in Seq(Values)
  BY <1>1, ConcatProperties
<1>4. k1 \o k2 \in Seq(Kinds)
  BY <1>1, ConcatProperties
<1>5. ASSUME NEW more \in Bytes
      PROVE  ReadFields(k1 \o k2, (b1 \o b2) \o more)
               = [ok |-> TRUE, vals |-> v1 \o v2, rest |-> more]
  <2>1. PICK b : b = b2 \o more
    OBVIOUS
  <2>2. b \in Bytes
    BY <1>1, <2>1, BytesJoin
  <2>3. (b1 \o b2) \o more = b1 \o b
    BY <1>1, <2>1, JoinThree
  <2>4. b1 \o b \in Bytes
    BY <1>1, <2>2, BytesJoin
  <2>5. PICK r : r = ReadFields(k1, b1 \o b)
    OBVIOUS
  <2>6. r = [ok |-> TRUE, vals |-> v1, rest |-> b]
    BY <2>2, <2>5 DEF Reads
  <2>7. r.ok = TRUE /\ r.vals = v1 /\ r.rest = b
    BY <2>6
  <2>8. ReadFields(k1 \o k2, b1 \o b) = Prepend(r.vals, ReadFields(k2, r.rest))
    BY <1>1, <2>4, <2>5, <2>7, ReadsOn
  <2>9. PICK s : s = ReadFields(k2, b)
    OBVIOUS
  <2>10. s = [ok |-> TRUE, vals |-> v2, rest |-> more]
    BY <2>1, <2>9 DEF Reads
  <2>11. s.ok = TRUE /\ s.vals = v2 /\ s.rest = more
    BY <2>10
  <2>12. Prepend(v1, s) = [ok |-> TRUE, vals |-> v1 \o v2, rest |-> more]
    BY <2>11 DEF Prepend
  <2>13. QED
    BY <2>3, <2>7, <2>8, <2>9, <2>12
<1>6. QED
  BY <1>2, <1>3, <1>4, <1>5 DEF Reads

(* One field.                                                              *)
LEMMA OneField ==
  ASSUME NEW kind \in Kinds, NEW bs \in Bytes, Size(kind, bs) <= Len(bs)
  PROVE  /\ ReadFields(<<kind>>, bs)
              = [ok |-> TRUE, vals |-> <<Value(kind, bs)>>,
                 rest |-> SubSeq(bs, Size(kind, bs) + 1, Len(bs))]
         /\ <<kind>> \in Seq(Kinds) /\ <<Value(kind, bs)>> \in Seq(Values)
<1>1. PICK kinds : kinds = <<kind>>
  OBVIOUS
<1>2. PICK one \in Nat : one = 1
  OBVIOUS
<1>3. kinds \in Seq(Kinds) /\ Len(kinds) = 1 /\ kinds[1] = kind
  BY <1>1
<1>4. kinds \in [1..one -> Kinds]
  BY <1>2, <1>3, LenProperties
<1>5. PICK F : F = FieldsRead(kinds, bs)
  OBVIOUS
<1>6. ReadInTurn(F, one, kinds, bs)
  BY <1>4, <1>5, FieldsStepByStep
<1>7. F[0] = [ok |-> TRUE, vals |-> <<>>, rest |-> bs]
  BY <1>6 DEF ReadInTurn
<1>8. F[1] = ReadField(F[0], kind)
  <2>1. \A i \in 1..one : F[i] = ReadField(F[i - 1], kinds[i])
    BY <1>6 DEF ReadInTurn
  <2>2. one \in 1..one /\ one - 1 = 0
    BY <1>2
  <2>3. F[one] = ReadField(F[one - 1], kinds[one])
    BY <2>1, <2>2
  <2>4. QED
    BY <1>2, <1>3, <2>2, <2>3
<1>9. PICK r : r = F[0]
  OBVIOUS
<1>10. r.ok = TRUE /\ r.vals = <<>> /\ r.rest = bs
  BY <1>7, <1>9
<1>11. PICK v : v = Value(kind, bs)
  OBVIOUS
<1>12. PICK left : left = SubSeq(bs, Size(kind, bs) + 1, Len(bs))
  OBVIOUS
<1>13. ReadField(r, kind) = [ok |-> TRUE, vals |-> Append(r.vals, v), rest |-> left]
  BY <1>10, <1>11, <1>12 DEF ReadField
<1>14. Append(r.vals, v) = <<v>>
  BY <1>10
<1>15. ReadFields(kinds, bs) = F[1]
  BY <1>3, <1>5 DEF ReadFields
<1>16. v \in Values
  BY <1>11, ValueIsTyped
<1>17. <<v>> \in Seq(Values)
  BY <1>16
<1>18. QED
  BY <1>1, <1>3, <1>8, <1>9, <1>11, <1>12, <1>13, <1>14, <1>15, <1>17

(* What is written is read: a field whose bytes are bs, as v.              *)
LEMMA FieldReads ==
  ASSUME NEW kind \in Kinds \ {"rest"}, NEW v, NEW bs \in Bytes,
         \A more \in Bytes : /\ Size(kind, bs \o more) = Len(bs)
                             /\ Value(kind, bs \o more) = v
  PROVE  Reads(<<kind>>, <<v>>, bs)
<1>1. ASSUME NEW more \in Bytes
      PROVE  /\ ReadFields(<<kind>>, bs \o more) = [ok |-> TRUE, vals |-> <<v>>, rest |-> more]
             /\ <<kind>> \in Seq(Kinds) /\ <<v>> \in Seq(Values)
  <2>1. PICK b \in Bytes : b = bs \o more
    BY BytesJoin
  <2>2. Size(kind, b) = Len(bs) /\ Value(kind, b) = v
    BY <2>1
  <2>3. Len(bs) \in Nat /\ Len(more) \in Nat /\ Len(b) = Len(bs) + Len(more)
    BY <2>1, BytesJoin
  <2>4. Size(kind, b) <= Len(b)
    BY <2>2, <2>3
  <2>5. SubSeq(b, Len(bs) + 1, Len(b)) = more
    BY <2>1, BytesTaken
  <2>6. ReadFields(<<kind>>, b)
          = [ok |-> TRUE, vals |-> <<Value(kind, b)>>,
             rest |-> SubSeq(b, Size(kind, b) + 1, Len(b))]
    BY <2>4, OneField
  <2>7. <<kind>> \in Seq(Kinds) /\ <<Value(kind, b)>> \in Seq(Values)
    BY <2>4, OneField
  <2>8. QED
    BY <2>1, <2>2, <2>5, <2>6, <2>7
<1>2. <<>> \in Bytes
  BY DEF Bytes
<1>3. <<kind>> \in Seq(Kinds) /\ <<v>> \in Seq(Values)
  BY <1>1, <1>2
<1>4. PICK ks, vs : ks = <<kind>> /\ vs = <<v>>
  OBVIOUS
<1>5. Reads(ks, vs, bs)
  BY <1>1, <1>3, <1>4 DEF Reads
<1>6. QED
  BY <1>4, <1>5

LEMMA ByteReads ==
  ASSUME NEW b \in Byte
  PROVE  Reads(<<"byte">>, <<b>>, <<b>>)
<1>1. PICK bs : bs = <<b>>
  OBVIOUS
<1>2. bs \in Bytes /\ Len(bs) = 1
  BY <1>1 DEF Bytes
<1>3. ASSUME NEW more \in Bytes
      PROVE  Size("byte", bs \o more) = Len(bs) /\ Value("byte", bs \o more) = b
  <2>1. Prefixed(bs \o more, b, more)
    BY <1>1, ByteFirst
  <2>2. (bs \o more)[1] = b
    BY <2>1 DEF Prefixed
  <2>3. QED
    BY <1>2, <2>2 DEF Size, Value
<1>4. Reads(<<"byte">>, <<b>>, bs)
  BY <1>2, <1>3, FieldReads DEF Kinds
<1>5. QED
  BY <1>1, <1>4

Num16 == {n \in Nat : n < 65536}
Text == {s \in Bytes : Len(s) < 65536}

LEMMA U16Written ==
  ASSUME NEW n \in Num16, NEW more \in Bytes
  PROVE  /\ WriteU16(n) \in Bytes /\ Len(WriteU16(n)) = 2
         /\ WriteU16(n) \o more \in Bytes /\ Len(WriteU16(n) \o more) = 2 + Len(more)
         /\ U16(WriteU16(n) \o more) = n
<1>1. n \in Nat /\ n < 65536
  BY DEF Num16
<1>2. PICK h, l : h = (n \div 256) % 256 /\ l = n % 256
  OBVIOUS
<1>3. h \in Nat /\ h < 256 /\ l \in Nat /\ l < 256
  BY <1>1, <1>2
<1>4. n = h * 256 + l
  <2>1. n \div 256 \in Nat /\ n \div 256 < 256 /\ n = (n \div 256) * 256 + (n % 256)
    BY <1>1
  <2>2. (n \div 256) % 256 = n \div 256
    BY <2>1
  <2>3. QED
    BY <1>2, <2>1, <2>2
<1>5. h \in Byte /\ l \in Byte
  BY <1>3 DEF Byte
<1>6. PICK bs : bs = <<h, l>>
  OBVIOUS
<1>7. bs = WriteU16(n)
  BY <1>2, <1>6 DEF WriteU16
<1>8. bs \in Bytes /\ Len(bs) = 2 /\ bs[1] = h /\ bs[2] = l
  BY <1>5, <1>6 DEF Bytes
<1>9. PICK b : b = bs \o more
  OBVIOUS
<1>10. b \in Bytes /\ Len(b) = 2 + Len(more)
  <2>1. b \in Bytes /\ Len(b) = Len(bs) + Len(more)
    BY <1>8, <1>9, BytesJoin
  <2>2. QED
    BY <1>8, <2>1
<1>11. b[1] = h /\ b[2] = l
  <2>1. \A i \in 1..Len(bs) : b[i] = bs[i]
    BY <1>8, <1>9, JoinedFirst
  <2>2. 1 \in 1..Len(bs) /\ 2 \in 1..Len(bs)
    BY <1>8
  <2>3. QED
    BY <1>8, <2>1, <2>2
<1>12. U16(b) = n
  BY <1>4, <1>11 DEF U16
<1>13. QED
  BY <1>7, <1>8, <1>9, <1>10, <1>12

LEMMA U16Reads ==
  ASSUME NEW n \in Num16
  PROVE  Reads(<<"u16">>, <<n>>, WriteU16(n))
<1>1. PICK bs : bs = WriteU16(n)
  OBVIOUS
<1>2. PICK none \in Bytes : none = <<>>
  <2>1. <<>> \in Bytes
    BY DEF Bytes
  <2>2. QED
    BY <2>1
<1>3. bs \in Bytes /\ Len(bs) = 2
  BY <1>1, <1>2, U16Written
<1>4. ASSUME NEW more \in Bytes
      PROVE  Size("u16", bs \o more) = Len(bs) /\ Value("u16", bs \o more) = n
  <2>1. U16(bs \o more) = n
    BY <1>1, U16Written
  <2>2. QED
    BY <1>3, <2>1 DEF Size, Value
<1>5. Reads(<<"u16">>, <<n>>, bs)
  BY <1>3, <1>4, FieldReads DEF Kinds
<1>6. QED
  BY <1>1, <1>5

LEMMA StringWritten ==
  ASSUME NEW s \in Text
  PROVE  WriteString(s) \in Bytes /\ Len(WriteString(s)) = 2 + Len(s)
<1>1. s \in Bytes /\ Len(s) \in Num16
  <2>1. s \in Bytes /\ Len(s) < 65536
    BY DEF Text
  <2>2. Len(s) \in Nat
    BY <2>1, ByteAt
  <2>3. QED
    BY <2>1, <2>2 DEF Num16
<1>2. QED
  BY <1>1, U16Written DEF WriteString

LEMMA StringReads ==
  ASSUME NEW s \in Text
  PROVE  Reads(<<"string">>, <<s>>, WriteString(s))
<1>1. s \in Bytes /\ Len(s) \in Nat /\ Len(s) < 65536
  BY ByteAt DEF Text
<1>2. PICK n \in Num16 : n = Len(s)
  BY <1>1 DEF Num16
<1>3. PICK bs : bs = WriteString(s)
  OBVIOUS
<1>4. bs \in Bytes /\ Len(bs) = 2 + n
  BY <1>2, <1>3, StringWritten
<1>5. PICK u : u = WriteU16(n)
  OBVIOUS
<1>6. u \in Bytes /\ Len(u) = 2
  BY <1>1, <1>5, U16Written
<1>7. bs = u \o s
  BY <1>2, <1>3, <1>5 DEF WriteString
<1>8. ASSUME NEW more \in Bytes
      PROVE  Size("string", bs \o more) = Len(bs) /\ Value("string", bs \o more) = s
  <2>1. PICK b : b = bs \o more
    OBVIOUS
  <2>2. PICK t : t = s \o more
    OBVIOUS
  <2>3. t \in Bytes /\ Len(t) = n + Len(more) /\ Len(more) \in Nat
    BY <1>1, <1>2, <2>2, BytesJoin
  <2>4. b = u \o t
    BY SMTT(30), <1>1, <1>6, <1>7, <2>1, <2>2, JoinThree
  <2>5. U16(b) = n /\ Len(b) = 2 + Len(t)
    BY <1>5, <2>3, <2>4, U16Written
  <2>6. Len(b) >= 2
    BY <1>1, <1>2, <2>3, <2>5
  <2>7. Size("string", b) = 2 + n
    BY <2>5, <2>6 DEF Size
  <2>8. SubSeq(b, 3, 2 + n) = s
    <3>1. b \in Bytes
      BY <1>4, <2>1, BytesJoin
    <3>2. PICK m, k : m = 3 /\ k = 2 + n
      OBVIOUS
    <3>3. m \in Int /\ k \in Int /\ m \in Nat /\ k \in Nat
      BY <1>1, <1>2, <3>2
    <3>4. k <= Len(b)
      BY <1>1, <1>2, <2>3, <2>5, <3>2
    <3>5. PICK p : p = SubSeq(b, m, k)
      OBVIOUS
    <3>6. \A i \in m..k : b[i] \in Byte
      <4>1. TAKE i \in m..k
      <4>2. i \in 1..Len(b)
        BY <1>1, <1>2, <2>3, <2>5, <3>2, <3>4
      <4>3. QED
        BY <3>1, <4>2, ByteAt
    <3>7. p \in Bytes
      BY <3>3, <3>5, <3>6, SubSeqProperties DEF Bytes
    <3>8. Len(p) = IF m <= k THEN k - m + 1 ELSE 0
      BY <3>3, <3>5, <3>6, SubSeqProperties DEF Bytes
    <3>9. \A i \in 1..(k - m + 1) : p[i] = b[m + i - 1]
      BY <3>3, <3>5, <3>6, SubSeqProperties DEF Bytes
    <3>10. Len(p) = n
      BY <1>1, <1>2, <3>2, <3>8
    <3>11. ASSUME NEW i \in 1..n PROVE p[i] = s[i]
      <4>1. i \in 1..(k - m + 1) /\ m + i - 1 = 2 + i
        BY <1>1, <1>2, <3>2
      <4>2. PICK j : j = Len(u) + i
        OBVIOUS
      <4>3. j = 2 + i
        BY <1>6, <4>2
      <4>4. i \in 1..Len(t)
        BY <1>1, <1>2, <2>3
      <4>5. b[j] = t[i]
        BY ZenonT(60), <1>6, <2>3, <2>4, <4>2, <4>4, JoinedSecond
      <4>6. i \in 1..Len(s)
        BY <1>2
      <4>7. t[i] = s[i]
        BY <1>1, <2>2, <4>6, JoinedFirst
      <4>8. QED
        BY <3>9, <4>1, <4>3, <4>5, <4>7
    <3>12. p = s
      BY <1>1, <1>2, <3>7, <3>10, <3>11, SameBytes
    <3>13. QED
      BY <3>2, <3>5, <3>12
  <2>9. Value("string", b) = s
    BY <2>5, <2>8 DEF Value
  <2>10. QED
    BY <1>4, <2>1, <2>7, <2>9
<1>9. Reads(<<"string">>, <<s>>, bs)
  BY <1>4, <1>8, FieldReads DEF Kinds
<1>10. QED
  BY <1>3, <1>9

LEMMA RestReads ==
  ASSUME NEW s \in Bytes
  PROVE  ReadsAll(<<"rest">>, <<s>>, s)
<1>1. Len(s) \in Nat
  BY ByteAt
<1>2. PICK rest : rest = "rest"
  OBVIOUS
<1>3. rest \in Kinds /\ Size(rest, s) = Len(s) /\ Value(rest, s) = s
  BY <1>2 DEF Kinds, Size, Value
<1>4. Size(rest, s) <= Len(s)
  BY <1>1, <1>3
<1>5. ReadFields(<<rest>>, s)
        = [ok |-> TRUE, vals |-> <<Value(rest, s)>>,
           rest |-> SubSeq(s, Size(rest, s) + 1, Len(s))]
  BY <1>3, <1>4, OneField
<1>6. <<rest>> \in Seq(Kinds) /\ <<Value(rest, s)>> \in Seq(Values)
  BY <1>3, <1>4, OneField
<1>7. SubSeq(s, Len(s) + 1, Len(s)) = <<>>
  BY <1>1, SubSeqEmpty
<1>8. PICK ks, vs : ks = <<rest>> /\ vs = <<s>>
  OBVIOUS
<1>9. ReadsAll(ks, vs, s)
  BY <1>3, <1>5, <1>6, <1>7, <1>8 DEF ReadsAll
<1>10. QED
  BY <1>2, <1>8, <1>9

(* Packets: what Write writes of each type, Parse makes the packet of.     *)
IsParsed(p) ==
    /\ Body(p) \in Bytes /\ Len(Body(p)) = PkLen(p)
    /\ Parse(p.tp, HeaderFlags(p), Body(p)) = OnTheWire(p)

EmptyPacket == [tp : Empty]
IdPacket == [tp : IdOnly, id : Num16]
ConnAckPacket == [tp : {"CONNACK"}, flags : Byte, returnCode : Byte]
SubAckPacket == [tp : {"SUBACK"}, id : Num16, topicReturns : Bytes]

LEMMA EmptyIsParsed ==
  ASSUME NEW p \in EmptyPacket
  PROVE  IsParsed(p)
<1>1. p.tp \in Empty /\ p = [tp |-> p.tp]
  BY DEF EmptyPacket
<1>2. Body(p) = <<>> /\ PkLen(p) = 0
  BY <1>1 DEF Body, PkLen, Empty, IdOnly
<1>3. <<>> \in Bytes /\ Len(<<>>) = 0
  BY DEF Bytes
<1>4. PICK f, bs, tp : f = HeaderFlags(p) /\ bs = Body(p) /\ tp = p.tp
  OBVIOUS
<1>5. Parse(tp, f, bs) = [tp |-> tp]
  BY <1>1, <1>4 DEF Parse, Empty, IdOnly
<1>6. OnTheWire(p) = p
  BY <1>1 DEF OnTheWire, Empty
<1>7. QED
  BY <1>1, <1>2, <1>3, <1>4, <1>5, <1>6 DEF IsParsed

LEMMA U16Alone ==
  ASSUME NEW n \in Num16
  PROVE  WriteU16(n) \in Bytes /\ Len(WriteU16(n)) = 2 /\ U16(WriteU16(n)) = n
<1>1. PICK none \in Bytes : none = <<>>
  <2>1. <<>> \in Bytes
    BY DEF Bytes
  <2>2. QED
    BY <2>1
<1>2. PICK bs : bs = WriteU16(n)
  OBVIOUS
<1>3. bs \in Bytes /\ Len(bs) = 2
  BY <1>1, <1>2, U16Written
<1>4. U16(bs \o none) = n
  BY <1>1, <1>2, U16Written
<1>5. bs \o none = bs
  BY <1>1, <1>3, JoinNothing
<1>6. QED
  BY <1>2, <1>3, <1>4, <1>5

LEMMA IdIsParsed ==
  ASSUME NEW p \in IdPacket
  PROVE  IsParsed(p)
<1>1. PICK tp, id : tp = p.tp /\ id = p.id
  OBVIOUS
<1>2. tp \in IdOnly /\ id \in Num16 /\ p = [tp |-> tp, id |-> id]
  BY <1>1 DEF IdPacket
<1>3. PICK bs : bs = WriteU16(id)
  OBVIOUS
<1>4. bs \in Bytes /\ Len(bs) = 2 /\ U16(bs) = id
  BY <1>2, <1>3, U16Alone
<1>5. Body(p) = bs
  BY <1>1, <1>2, <1>3 DEF Body, Empty, IdOnly
<1>6. PkLen(p) = 2
  BY <1>1, <1>2 DEF PkLen, Empty, IdOnly
<1>7. PICK f : f = HeaderFlags(p)
  OBVIOUS
<1>8. Parse(tp, f, bs) = ParseId(tp, bs)
  BY <1>2 DEF Parse, Empty, IdOnly
<1>9. ParseId(tp, bs) = [tp |-> tp, id |-> id]
  BY <1>4 DEF ParseId
<1>10. OnTheWire(p) = p
  BY <1>1, <1>2 DEF OnTheWire, IdOnly
<1>11. QED
  BY <1>1, <1>2, <1>4, <1>5, <1>6, <1>7, <1>8, <1>9, <1>10 DEF IsParsed

LEMMA ConnAckIsParsed ==
  ASSUME NEW p \in ConnAckPacket
  PROVE  IsParsed(p)
<1>1. PICK flags, code : flags = p.flags /\ code = p.returnCode
  OBVIOUS
<1>2. /\ flags \in Byte /\ code \in Byte /\ p.tp = "CONNACK"
      /\ p = [tp |-> "CONNACK", flags |-> flags, returnCode |-> code]
  BY <1>1 DEF ConnAckPacket
<1>3. PICK bs : bs = <<flags, code>>
  OBVIOUS
<1>4. bs \in Bytes /\ Len(bs) = 2 /\ bs[1] = flags /\ bs[2] = code
  BY <1>2, <1>3 DEF Bytes
<1>5. Body(p) = bs
  BY <1>1, <1>2, <1>3 DEF Body, Empty, IdOnly
<1>6. PkLen(p) = 2
  BY <1>2 DEF PkLen, Empty, IdOnly
<1>7. PICK f : f = HeaderFlags(p)
  OBVIOUS
<1>8. Parse("CONNACK", f, bs) = ParseConnAck(bs)
  BY DEF Parse, Empty, IdOnly
<1>9. ParseConnAck(bs) = p
  BY <1>2, <1>4 DEF ParseConnAck
<1>10. OnTheWire(p) = p
  BY <1>2 DEF OnTheWire
<1>11. QED
  BY <1>2, <1>4, <1>5, <1>6, <1>7, <1>8, <1>9, <1>10 DEF IsParsed

LEMMA SubAckIsParsed ==
  ASSUME NEW p \in SubAckPacket
  PROVE  IsParsed(p)
<1>1. PICK id, codes : id = p.id /\ codes = p.topicReturns
  OBVIOUS
<1>2. /\ id \in Num16 /\ codes \in Bytes /\ p.tp = "SUBACK"
      /\ p = [tp |-> "SUBACK", id |-> id, topicReturns |-> codes]
  BY <1>1 DEF SubAckPacket
<1>3. PICK u, bs : u = WriteU16(id) /\ bs = u \o codes
  OBVIOUS
<1>4. u \in Bytes /\ Len(u) = 2
  BY <1>2, <1>3, U16Alone
<1>5. Len(codes) \in Nat
  BY <1>2, ByteAt
<1>6. bs \in Bytes /\ Len(bs) = 2 + Len(codes) /\ U16(bs) = id
  BY <1>2, <1>3, U16Written
<1>7. SubSeq(bs, 3, Len(bs)) = codes
  <2>1. SubSeq(bs, Len(u) + 1, Len(bs)) = codes
    BY <1>2, <1>3, <1>4, BytesTaken
  <2>2. Len(u) + 1 = 3
    BY <1>4
  <2>3. QED
    BY <2>1, <2>2
<1>8. Body(p) = bs
  BY <1>1, <1>2, <1>3 DEF Body, Empty, IdOnly
<1>9. PkLen(p) = 2 + Len(codes)
  BY <1>1, <1>2 DEF PkLen, Empty, IdOnly
<1>10. PICK f : f = HeaderFlags(p)
  OBVIOUS
<1>11. Parse("SUBACK", f, bs) = ParseSubAck(bs)
  BY DEF Parse, Empty, IdOnly
<1>12. ParseSubAck(bs) = p
  <2>1. ~(Len(bs) < 2)
    BY <1>5, <1>6
  <2>2. ParseSubAck(bs) = [tp |-> "SUBACK", id |-> U16(bs), topicReturns |-> SubSeq(bs, 3, Len(bs))]
    BY <2>1 DEF ParseSubAck
  <2>3. QED
    BY <1>2, <1>6, <1>7, <2>2
<1>13. OnTheWire(p) = p
  BY <1>2 DEF OnTheWire
<1>14. QED
  BY <1>2, <1>6, <1>8, <1>9, <1>10, <1>11, <1>12, <1>13 DEF IsParsed

(* One more at the end.                                                    *)
LEMMA OneMore ==
  ASSUME NEW a, NEW b, NEW c
  PROVE  <<a>> \o <<b>> = <<a, b>> /\ <<a, b>> \o <<c>> = <<a, b, c>> /\ <<a>> \o <<>> = <<a>>
<1>1. PICK S : S = {a, b, c}
  OBVIOUS
<1>2. PICK x, y : x = <<a>> /\ y = <<a, b>>
  OBVIOUS
<1>3. a \in S /\ b \in S /\ c \in S
  BY <1>1
<1>4. x \in Seq(S) /\ y \in Seq(S)
  BY <1>2, <1>3
<1>5. Append(x, b) = x \o <<b>> /\ Append(y, c) = y \o <<c>>
  BY <1>3, <1>4, AppendIsConcat
<1>6. Append(x, b) = <<a, b>>
  <2>1. PICK z : z = Append(x, b)
    OBVIOUS
  <2>2. Len(x) = 1 /\ x[1] = a
    BY <1>2
  <2>3. z \in Seq(S) /\ Len(z) = 2 /\ z[1] = a /\ z[2] = b
    <3>1. z \in Seq(S)
      BY <1>3, <1>4, <2>1, AppendProperties
    <3>2. Len(z) = Len(x) + 1
      BY <1>3, <1>4, <2>1, AppendProperties
    <3>3. \A i \in 1..Len(x) : z[i] = x[i]
      BY <1>3, <1>4, <2>1, AppendProperties
    <3>4. z[Len(x) + 1] = b
      BY <1>3, <1>4, <2>1, AppendProperties
    <3>5. QED
      BY <2>2, <3>1, <3>2, <3>3, <3>4
  <2>4. Len(y) = 2 /\ y[1] = a /\ y[2] = b
    BY <1>2
  <2>5. \A i \in 1..Len(z) : z[i] = y[i]
    BY <2>3, <2>4
  <2>6. z = y
    BY <1>4, <2>3, <2>4, <2>5, SeqEqual
  <2>7. QED
    BY <1>2, <2>1, <2>6
<1>9. Append(y, c) = <<a, b, c>>
  <2>1. PICK z, t : z = Append(y, c) /\ t = <<a, b, c>>
    OBVIOUS
  <2>2. Len(y) = 2 /\ y[1] = a /\ y[2] = b
    BY <1>2
  <2>3. z \in Seq(S) /\ Len(z) = 3 /\ z[1] = a /\ z[2] = b /\ z[3] = c
    <3>1. z \in Seq(S)
      BY <1>3, <1>4, <2>1, AppendProperties
    <3>2. Len(z) = Len(y) + 1
      BY <1>3, <1>4, <2>1, AppendProperties
    <3>3. \A i \in 1..Len(y) : z[i] = y[i]
      BY <1>3, <1>4, <2>1, AppendProperties
    <3>4. z[Len(y) + 1] = c
      BY <1>3, <1>4, <2>1, AppendProperties
    <3>5. QED
      BY <2>2, <3>1, <3>2, <3>3, <3>4
  <2>4. t \in Seq(S) /\ Len(t) = 3 /\ t[1] = a /\ t[2] = b /\ t[3] = c
    BY <1>3, <2>1
  <2>5. \A i \in 1..Len(z) : z[i] = t[i]
    BY <2>3, <2>4
  <2>6. z = t
    BY <2>3, <2>4, <2>5, SeqEqual
  <2>7. QED
    BY <2>1, <2>6
<1>7. x \o <<>> = x
  BY <1>4, ConcatEmptySeq
<1>8. QED
  BY <1>2, <1>5, <1>6, <1>7, <1>9

(* PUBLISH.                                                                *)
PublishWritten ==
    {p \in [tp : {"PUBLISH"}, id : Num16, name : Text, payload : Bytes, replyTo : Bytes,
            flags : {n \in Nat : n < 16}] : QoSLevel(p.flags) = 0 => p.id = 0}

LEMMA PublishIsParsed ==
  ASSUME NEW p \in PublishWritten
  PROVE  IsParsed(p)
<1>1. PICK id, name, payload, flags :
         id = p.id /\ name = p.name /\ payload = p.payload /\ flags = p.flags
  OBVIOUS
<1>2. /\ id \in Num16 /\ name \in Text /\ payload \in Bytes /\ flags \in Nat
      /\ p.tp = "PUBLISH"
  BY <1>1 DEF PublishWritten
<1>3. PICK n, i : n = WriteString(name) /\ i = When(QoSLevel(flags) > 0, WriteU16(id))
  OBVIOUS
<1>4. PICK ki : ki = When(QoSLevel(flags) > 0, <<"u16">>)
  OBVIOUS
<1>5. PICK vi : vi = When(QoSLevel(flags) > 0, <<id>>)
  OBVIOUS
<1>6. Reads(ki, vi, i) /\ Len(i) = Flag(QoSLevel(flags) > 0, 2)
  <2>1. CASE QoSLevel(flags) > 0
    <3>1. ki = <<"u16">> /\ vi = <<id>> /\ i = WriteU16(id)
      BY <1>3, <1>4, <1>5, <2>1 DEF When
    <3>2. Reads(ki, vi, i)
      BY <1>2, <3>1, U16Reads
    <3>3. Len(i) = 2
      BY <1>2, <3>1, U16Alone
    <3>4. QED
      BY <2>1, <3>2, <3>3 DEF Flag
  <2>2. CASE ~(QoSLevel(flags) > 0)
    <3>1. ki = <<>> /\ vi = <<>> /\ i = <<>>
      BY <1>3, <1>4, <1>5, <2>2 DEF When
    <3>2. Len(i) = 0
      BY <3>1
    <3>3. QED
      BY <2>2, <3>1, <3>2, ReadsNothing DEF Flag
  <2>3. QED
    BY <2>1, <2>2
<1>7. Reads(<<"string">>, <<name>>, n)
  BY <1>2, <1>3, StringReads
<1>8. Reads(<<"string">> \o ki, <<name>> \o vi, n \o i)
  BY <1>6, <1>7, ReadsJoin
<1>9. ReadsAll(<<"rest">>, <<payload>>, payload)
  BY <1>2, RestReads
<1>10. PICK ks, vs, bs : /\ ks = (<<"string">> \o ki) \o <<"rest">>
                         /\ vs = (<<name>> \o vi) \o <<payload>> /\ bs = (n \o i) \o payload
  OBVIOUS
<1>11. ReadsAll(ks, vs, bs)
  BY <1>8, <1>9, <1>10, ReadsLast
<1>12. bs \in Bytes /\ ReadFields(ks, bs) = [ok |-> TRUE, vals |-> vs, rest |-> <<>>]
  BY <1>11 DEF ReadsAll
<1>13. Body(p) = bs
  BY <1>1, <1>2, <1>3, <1>10 DEF Body, Empty, IdOnly
<1>14. Len(bs) = PkLen(p)
  <2>1. i \in Bytes
    BY <1>6 DEF Reads
  <2>2. n \in Bytes /\ Len(n) = 2 + Len(name)
    BY <1>2, <1>3, StringWritten
  <2>3. PICK j \in Bytes : j = n \o i /\ Len(j) = Len(n) + Len(i)
    BY <2>1, <2>2, BytesJoin
  <2>4. Len(bs) = Len(j) + Len(payload)
    BY <1>2, <1>10, <2>3, BytesJoin
  <2>5. Len(i) \in Nat /\ Len(payload) \in Nat
    BY <1>2, <2>1, ByteAt
  <2>6. Len(name) \in Nat
    BY <1>2, ByteAt DEF Text
  <2>7. PkLen(p) = 2 + Len(name) + Len(payload) + Flag(QoSLevel(flags) > 0, 2)
    BY <1>1, <1>2 DEF PkLen, PublishLen, Empty, IdOnly
  <2>8. PkLen(p) = 2 + Len(name) + Len(payload) + Len(i)
    BY <1>6, <2>7
  <2>9. QED
    BY <2>2, <2>3, <2>4, <2>5, <2>6, <2>8
<1>15. HeaderFlags(p) = flags
  BY <1>1, <1>2 DEF HeaderFlags
<1>16. ParsePublish(flags, bs)
         = [tp |-> "PUBLISH", flags |-> flags, name |-> vs[1], replyTo |-> <<>>,
            id |-> IF ki = <<>> THEN 0 ELSE vs[2], payload |-> Last(vs)]
  <2>1. PICK r : r = ReadFields(ks, bs)
    OBVIOUS
  <2>2. r.ok = TRUE /\ r.vals = vs
    BY <1>12, <2>1
  <2>3. QED
    BY <1>4, <1>10, <2>1, <2>2 DEF ParsePublish
<1>17. vs[1] = name /\ Last(vs) = payload /\ (IF ki = <<>> THEN 0 ELSE vs[2]) = id
  <2>1. CASE QoSLevel(flags) > 0
    <3>1. ki = <<"u16">> /\ vi = <<id>>
      BY <1>4, <1>5, <2>1 DEF When
    <3>2. vs = <<name, id, payload>>
      BY <1>10, <3>1, OneMore
    <3>3. ki # <<>>
      BY <3>1
    <3>4. Last(vs) = payload
      BY <3>2 DEF Last
    <3>5. QED
      BY <3>2, <3>3, <3>4
  <2>2. CASE ~(QoSLevel(flags) > 0)
    <3>1. ki = <<>> /\ vi = <<>>
      BY <1>4, <1>5, <2>2 DEF When
    <3>2. vs = <<name, payload>>
      BY <1>10, <3>1, OneMore
    <3>3. Last(vs) = payload
      BY <3>2 DEF Last
    <3>4. QoSLevel(flags) \in Nat
      BY <1>2 DEF QoSLevel
    <3>5. id = 0
      BY <1>1, <2>2, <3>4 DEF PublishWritten
    <3>6. QED
      BY <3>1, <3>2, <3>3, <3>5
  <2>3. QED
    BY <2>1, <2>2
<1>18. OnTheWire(p) = [tp |-> "PUBLISH", flags |-> flags, name |-> name, replyTo |-> <<>>,
                       id |-> id, payload |-> payload]
  <2>1. OnTheWire(p) = [p EXCEPT !.replyTo = <<>>]
    BY <1>2 DEF OnTheWire
  <2>2. PICK q : q = [p EXCEPT !.replyTo = <<>>]
    OBVIOUS
  <2>3. /\ q \in [tp : {"PUBLISH"}, id : {id}, name : {name}, payload : {payload},
                  replyTo : {<<>>}, flags : {flags}]
    BY <1>1, <2>2 DEF PublishWritten
  <2>4. q = [tp |-> "PUBLISH", flags |-> flags, name |-> name, replyTo |-> <<>>,
             id |-> id, payload |-> payload]
    BY <2>3
  <2>5. QED
    BY <2>1, <2>2, <2>4
<1>19. Parse("PUBLISH", flags, bs) = ParsePublish(flags, bs)
  BY DEF Parse, Empty, IdOnly
<1>20. QED
  BY <1>2, <1>12, <1>13, <1>14, <1>15, <1>16, <1>17, <1>18, <1>19 DEF IsParsed

(* SUBSCRIBE and UNSUBSCRIBE.                                              *)
LEMMA JoinedLength ==
  ASSUME NEW n \in Nat, NEW parts \in [1..n -> Bytes], NEW lens \in [1..n -> Nat],
         \A i \in 1..n : lens[i] = Len(parts[i])
  PROVE  Joined(parts) \in Bytes /\ Len(Joined(parts)) = Total(lens)
<1>1. PICK joined, added : joined = LastJoined(parts) /\ added = LastAdded(lens)
  OBVIOUS
<1>2. joined \in [0..n -> Bytes]
  BY <1>1, JoinedStepByStep
<1>3. joined[0] = <<>>
  BY <1>1, JoinedStepByStep
<1>4. \A i \in 1..n : joined[i] = parts[n - i + 1] \o joined[i - 1]
  BY <1>1, JoinedStepByStep
<1>5. added[0] = 0
  BY <1>1, AddedStepByStep
<1>6. \A i \in 1..n : added[i] = lens[n - i + 1] + added[i - 1]
  BY <1>1, AddedStepByStep
<1> DEFINE P == {i \in 0..n : Len(joined[i]) = added[i]}
<1>7. 0 \in P
  BY <1>3, <1>5
<1>8. ASSUME NEW i \in 0..(n - 1), i \in P PROVE i + 1 \in P
  <2>1. PICK k : k = i + 1
    OBVIOUS
  <2>2. k \in 1..n /\ k - 1 = i /\ n - k + 1 \in 1..n /\ i \in 0..n
    BY <2>1
  <2>3. PICK a, b : a = parts[n - k + 1] /\ b = joined[i]
    OBVIOUS
  <2>4. a \in Bytes /\ b \in Bytes
    BY <1>2, <2>2, <2>3
  <2>5. joined[k] = a \o b
    BY <1>4, <2>2, <2>3
  <2>6. Len(joined[k]) = Len(a) + Len(b)
    BY <2>4, <2>5, BytesJoin
  <2>7. lens[n - k + 1] = Len(a)
    BY <2>2, <2>3
  <2>8. added[k] = lens[n - k + 1] + added[i]
    BY <1>6, <2>2
  <2>9. Len(b) = added[i]
    BY <1>8, <2>3
  <2>10. QED
    BY <2>1, <2>2, <2>6, <2>7, <2>8, <2>9
<1>9. Len(joined[n]) = added[n]
  <2> HIDE DEF P
  <2>1. \A i \in 0..n : i \in P
    BY <1>7, <1>8, UpTo
  <2>2. n \in P
    BY <2>1
  <2>3. QED
    BY <2>2 DEF P
<1>10. Len(parts) = n /\ Len(lens) = n
  OBVIOUS
<1>11. Joined(parts) = joined[n] /\ Total(lens) = added[n]
  BY <1>1, <1>10 DEF Joined, Total
<1>12. joined[n] \in Bytes
  BY <1>2
<1>13. QED
  BY <1>9, <1>11, <1>12

(* The fields of a topic, over and over.                                   *)
TopicKinds == {<<"string">>, <<"string", "byte">>}

LEMMA RepeatedIs ==
  ASSUME NEW K \in TopicKinds, NEW k \in Nat
  PROVE  /\ K \in Seq(Kinds) /\ Len(K) \in {1, 2} /\ K[1] = "string"
         /\ Repeated(K, k) \in Seq(Kinds) /\ Len(Repeated(K, k)) = k * Len(K)
         /\ \A i \in 1..(k * Len(K)) : Repeated(K, k)[i] = K[((i - 1) % Len(K)) + 1]
<1>1. K \in Seq(Kinds) /\ Len(K) \in {1, 2} /\ K[1] = "string"
  <2>1. "string" \in Kinds /\ "byte" \in Kinds
    BY DEF Kinds
  <2>2. CASE K = <<"string">>
    BY <2>1, <2>2
  <2>3. CASE K = <<"string", "byte">>
    BY <2>1, <2>3
  <2>4. QED
    BY <2>2, <2>3 DEF TopicKinds
<1>2. PICK m : m = Len(K)
  OBVIOUS
<1>3. PICK l : l = k * m
  OBVIOUS
<1>4. l \in Nat
  <2>1. CASE m = 1
    BY <1>3, <2>1
  <2>2. CASE m = 2
    BY <1>3, <2>2
  <2>3. QED
    BY <1>1, <1>2, <2>1, <2>2
<1>5. ASSUME NEW i \in 1..l PROVE K[((i - 1) % m) + 1] \in Kinds
  <2>1. ((i - 1) % m) + 1 \in 1..m
    <3>1. CASE m = 1
      BY <1>4, <3>1
    <3>2. CASE m = 2
      BY <1>4, <3>2
    <3>3. QED
      BY <1>1, <1>2, <3>1, <3>2
  <2>2. PICK j \in 1..m : j = ((i - 1) % m) + 1
    BY <2>1
  <2>3. K[j] \in Kinds
    BY <1>1, <1>2, ElementOfSeq
  <2>4. QED
    BY <2>2, <2>3
<1>6. PICK f : f = [i \in 1..l |-> K[((i - 1) % m) + 1]]
  OBVIOUS
<1>7. f \in [1..l -> Kinds]
  BY <1>5, <1>6
<1>8. f \in Seq(Kinds) /\ Len(f) = l
  BY <1>4, <1>7
<1>9. f = Repeated(K, k)
  BY <1>2, <1>3, <1>6 DEF Repeated
<1>10. \A i \in 1..l : f[i] = K[((i - 1) % m) + 1]
  BY <1>6
<1>11. QED
  BY <1>1, <1>2, <1>3, <1>8, <1>9, <1>10

LEMMA RepeatedMore ==
  ASSUME NEW K \in TopicKinds, NEW k \in Nat, NEW l \in Nat
  PROVE  Repeated(K, k + l) = Repeated(K, k) \o Repeated(K, l)
<1>1. PICK m : m = Len(K)
  OBVIOUS
<1>2. K \in Seq(Kinds) /\ m \in {1, 2}
  BY <1>1, RepeatedIs
<1>3. PICK a, b, c : a = Repeated(K, k) /\ b = Repeated(K, l) /\ c = Repeated(K, k + l)
  OBVIOUS
<1>4. PICK km, lm, n : km = k * m /\ lm = l * m /\ n = (k + l) * m
  OBVIOUS
<1>5. k + l \in Nat
  OBVIOUS
<1>6. a \in Seq(Kinds) /\ Len(a) = km
  BY <1>1, <1>3, <1>4, RepeatedIs
<1>7. b \in Seq(Kinds) /\ Len(b) = lm
  BY <1>1, <1>3, <1>4, RepeatedIs
<1>8. c \in Seq(Kinds) /\ Len(c) = n
  BY <1>1, <1>3, <1>4, <1>5, RepeatedIs
<1>9. \A i \in 1..km : a[i] = K[((i - 1) % m) + 1]
  BY <1>1, <1>3, <1>4, RepeatedIs
<1>10. \A i \in 1..lm : b[i] = K[((i - 1) % m) + 1]
  BY <1>1, <1>3, <1>4, RepeatedIs
<1>11. \A i \in 1..n : c[i] = K[((i - 1) % m) + 1]
  BY <1>1, <1>3, <1>4, <1>5, RepeatedIs
<1>12. km \in Nat /\ lm \in Nat /\ n = km + lm /\ n \in Nat
  <2>1. CASE m = 1
    BY <1>4, <2>1
  <2>2. CASE m = 2
    BY <1>4, <2>2
  <2>3. QED
    BY <1>2, <2>1, <2>2
<1>13. PICK d : d = a \o b
  OBVIOUS
<1>14. d \in Seq(Kinds) /\ Len(d) = n
  BY <1>6, <1>7, <1>12, <1>13, ConcatProperties
<1>15. ASSUME NEW i \in 1..n PROVE c[i] = d[i]
  <2>1. i \in 1..(Len(a) + Len(b))
    BY <1>6, <1>7, <1>12
  <2>2. d[i] = IF i <= Len(a) THEN a[i] ELSE b[i - Len(a)]
    BY <1>6, <1>7, <1>13, <2>1, ConcatProperties
  <2>3. CASE i <= km
    <3>1. i \in 1..km
      BY <1>12, <2>3
    <3>2. d[i] = a[i]
      BY <1>6, <2>2, <2>3
    <3>3. QED
      BY <1>9, <1>11, <3>1, <3>2
  <2>4. CASE ~(i <= km)
    <3>1. PICK j : j = i - km
      OBVIOUS
    <3>2. j \in 1..lm
      BY <1>12, <2>4, <3>1
    <3>3. d[i] = b[j]
      BY <1>6, <2>2, <2>4, <3>1
    <3>4. (j - 1) % m = (i - 1) % m
      <4>1. CASE m = 1
        BY <1>12, <3>1, <3>2, <4>1
      <4>2. CASE m = 2
        BY <1>4, <1>12, <3>1, <3>2, <4>2
      <4>3. QED
        BY <1>2, <4>1, <4>2
    <3>5. QED
      BY <1>10, <1>11, <3>2, <3>3, <3>4
  <2>5. QED
    BY <2>3, <2>4
<1>16. c = d
  BY <1>8, <1>14, <1>15, SeqEqual
<1>17. QED
  BY <1>3, <1>13, <1>16

(* The values that parts give one after the other, m of each.              *)
InOrder(vals, m, i, gives, first) ==
    /\ vals \in Seq(Values) /\ Len(vals) = i * m
    /\ \A x \in 1..i : \A j \in 1..m : vals[(x - 1) * m + j] = gives[first + x][j]

EachReads(K, n, gives, parts) ==
    /\ parts \in [1..n -> Bytes]
    /\ \A i \in 1..n : /\ Reads(K, gives[i], parts[i]) /\ Len(gives[i]) = Len(K)
                       /\ Len(parts[i]) >= 1

LEMMA ValuesJoined ==
  ASSUME NEW a \in Seq(Values), NEW b \in Seq(Values), NEW m \in Nat, m = Len(a)
  PROVE  /\ a \o b \in Seq(Values) /\ Len(a \o b) = m + Len(b)
         /\ \A i \in 1..m : (a \o b)[i] = a[i]
         /\ \A i \in 1..(m + Len(b)) : i > m => (a \o b)[i] = b[i - m]
<1>1. Len(b) \in Nat
  BY LenProperties
<1>2. PICK s : s = a \o b
  OBVIOUS
<1>3. s \in Seq(Values) /\ Len(s) = m + Len(b)
  BY <1>2, ConcatProperties
<1>4. ASSUME NEW i \in 1..(m + Len(b)) PROVE s[i] = IF i <= m THEN a[i] ELSE b[i - m]
  BY <1>2, ConcatProperties
<1>5. \A i \in 1..m : s[i] = a[i]
  BY <1>1, <1>4
<1>6. ASSUME NEW i \in 1..(m + Len(b)), i > m PROVE s[i] = b[i - m]
  BY <1>1, <1>4, <1>6
<1>7. QED
  BY <1>2, <1>3, <1>5, <1>6

LEMMA RepeatedReads ==
  ASSUME NEW K \in TopicKinds, NEW n \in Nat, NEW parts, NEW gives,
         EachReads(K, n, gives, parts)
  PROVE  /\ Joined(parts) \in Bytes /\ Len(Joined(parts)) >= n
         /\ \E vals : /\ Reads(Repeated(K, n), vals, Joined(parts))
                      /\ InOrder(vals, Len(K), n, gives, 0)
<1>1. PICK m : m = Len(K)
  OBVIOUS
<1>2. K \in Seq(Kinds) /\ m \in {1, 2}
  BY <1>1, RepeatedIs
<1>4. parts \in [1..n -> Bytes]
  BY DEF EachReads
<1>3. \A i \in 1..n : parts[i] \in Bytes
  BY <1>4
<1>5. PICK joined : joined = LastJoined(parts)
  OBVIOUS
<1>6. joined \in [0..n -> Bytes]
  BY <1>4, <1>5, JoinedStepByStep
<1>7. joined[0] = <<>>
  BY <1>4, <1>5, JoinedStepByStep
<1>8. \A i \in 1..n : joined[i] = parts[n - i + 1] \o joined[i - 1]
  BY <1>4, <1>5, JoinedStepByStep
<1> DEFINE Good(i) == /\ Len(joined[i]) >= i
                      /\ \E vals : /\ Reads(Repeated(K, i), vals, joined[i])
                                   /\ InOrder(vals, m, i, gives, n - i)
           P == {i \in 0..n : Good(i)}
<1>9. 0 \in P
  <2>1. Repeated(K, 0) = <<>>
    <3>0. PICK zero \in Nat : zero = 0
      OBVIOUS
    <3>1. PICK f : f = Repeated(K, zero) /\ zero = 0
      BY <3>0
    <3>2. f \in Seq(Kinds) /\ Len(f) = zero * Len(K)
      BY <3>1, RepeatedIs
    <3>3. zero * Len(K) = 0
      BY <1>1, <1>2, <3>1
    <3>4. QED
      BY <3>1, <3>2, <3>3, EmptySeq
  <2>2. PICK vals : vals = <<>>
    OBVIOUS
  <2>3. Reads(Repeated(K, 0), vals, joined[0])
    BY <1>7, <2>1, <2>2, ReadsNothing
  <2>4. InOrder(vals, m, 0, gives, n - 0)
    <3>1. vals \in Seq(Values) /\ Len(vals) = 0
      BY <2>2
    <3>2. 0 * m = 0
      BY <1>2
    <3>3. QED
      BY <3>1, <3>2 DEF InOrder
  <2>5. Len(joined[0]) >= 0
    BY <1>7
  <2>6. 0 \in 0..n
    OBVIOUS
  <2>7. QED
    BY <2>3, <2>4, <2>5, <2>6
<1>10. ASSUME NEW i \in 0..(n - 1), i \in P PROVE i + 1 \in P
  <2>1. PICK k : k = i + 1
    OBVIOUS
  <2>2. k \in 1..n /\ k - 1 = i /\ n - k + 1 \in 1..n /\ i \in 0..n /\ i \in Nat
    BY <2>1
  <2>3. PICK vals : Reads(Repeated(K, i), vals, joined[i]) /\ InOrder(vals, m, i, gives, n - i)
    BY <1>10
  <2>4. PICK l : l = n - k + 1
    OBVIOUS
  <2>5. Reads(K, gives[l], parts[l]) /\ Len(gives[l]) = m /\ Len(parts[l]) >= 1
    BY <1>1, <2>2, <2>4 DEF EachReads
  <2>6. PICK g, both : g = gives[l] /\ both = g \o vals
    OBVIOUS
  <2>7. Reads(K \o Repeated(K, i), both, parts[l] \o joined[i])
    BY <2>3, <2>5, <2>6, ReadsJoin
  <2>8. K \o Repeated(K, i) = Repeated(K, k)
    <3>1. PICK one \in Nat : one = 1
      OBVIOUS
    <3>2. Repeated(K, one + i) = Repeated(K, one) \o Repeated(K, i)
      BY <2>2, RepeatedMore
    <3>3. Repeated(K, one) = K
      <4>1. PICK f : f = Repeated(K, one)
        OBVIOUS
      <4>2. f \in Seq(Kinds) /\ Len(f) = one * Len(K)
        BY <4>1, RepeatedIs
      <4>3. \A x \in 1..(one * Len(K)) : f[x] = K[((x - 1) % Len(K)) + 1]
        BY <4>1, RepeatedIs
      <4>4. one * m = m
        BY <1>2, <3>1
      <4>5. Len(f) = Len(K)
        BY <1>1, <4>2, <4>4
      <4>6. ASSUME NEW x \in 1..m PROVE f[x] = K[x]
        <5>1. f[x] = K[((x - 1) % m) + 1]
          BY <1>1, <4>3, <4>4
        <5>2. ((x - 1) % m) + 1 = x
          <6>1. CASE m = 1
            BY <6>1
          <6>2. CASE m = 2
            BY <6>2
          <6>3. QED
            BY <1>2, <6>1, <6>2
        <5>3. QED
          BY <5>1, <5>2
      <4>7. f = K
        BY <1>1, <1>2, <4>2, <4>5, <4>6, SeqEqual
      <4>8. QED
        BY <4>1, <4>7
    <3>4. one + i = k
      BY <2>1, <2>2, <3>1
    <3>5. QED
      BY <3>2, <3>3, <3>4
  <2>9. joined[k] = parts[l] \o joined[i]
    BY <1>8, <2>2, <2>4
  <2>10. Reads(Repeated(K, k), both, joined[k])
    BY <2>7, <2>8, <2>9
  <2>11. InOrder(both, m, k, gives, n - k)
    <3>1. g \in Seq(Values) /\ Len(g) = m
      BY <2>5, <2>6 DEF Reads
    <3>2. vals \in Seq(Values) /\ Len(vals) = i * m
      BY <2>3 DEF InOrder
    <3>3. i * m + m = k * m /\ i * m \in Nat
      <4>1. CASE m = 1
        BY <2>1, <2>2, <4>1
      <4>2. CASE m = 2
        BY <2>1, <2>2, <4>2
      <4>3. QED
        BY <1>2, <4>1, <4>2
    <3>0. m \in Nat /\ m = Len(g)
      BY <1>2, <3>1
    <3>4. both \in Seq(Values)
      BY <2>6, <3>0, <3>1, <3>2, ValuesJoined
    <3>5. Len(both) = m + Len(vals)
      BY <2>6, <3>0, <3>1, <3>2, ValuesJoined
    <3>6. Len(both) = k * m
      BY <1>2, <3>1, <3>2, <3>3, <3>5
    <3>7. ASSUME NEW x \in 1..k, NEW j \in 1..m
          PROVE  both[(x - 1) * m + j] = gives[(n - k) + x][j]
      <4>1. PICK y : y = (x - 1) * m + j
        OBVIOUS
      <4>2. y \in 1..(k * m)
        <5>1. CASE m = 1
          BY <2>2, <4>1, <5>1
        <5>2. CASE m = 2
          BY <2>2, <4>1, <5>2
        <5>3. QED
          BY <1>2, <5>1, <5>2
      <4>3. y \in 1..(m + Len(vals))
        BY <1>2, <3>1, <3>2, <3>3, <4>2
      <4>5. CASE x = 1
        <5>1. y = j
          <6>1. (x - 1) * m = 0
            BY <1>2, <4>5
          <6>2. QED
            BY <4>1, <6>1
        <5>2. both[y] = g[j]
          BY <2>6, <3>0, <3>1, <3>2, <5>1, ValuesJoined
        <5>3. (n - k) + x = l
          BY <2>2, <2>4, <4>5
        <5>4. QED
          BY <2>6, <4>1, <5>2, <5>3
      <4>6. CASE x # 1
        <5>1. PICK z : z = x - 1
          OBVIOUS
        <5>2. z \in 1..i
          BY <2>1, <2>2, <4>6, <5>1
        <5>3. y > m /\ y - m = (z - 1) * m + j
          <6>1. CASE m = 1
            BY <4>1, <4>6, <5>1, <5>2, <6>1
          <6>2. CASE m = 2
            BY <4>1, <4>6, <5>1, <5>2, <6>2
          <6>3. QED
            BY <1>2, <6>1, <6>2
        <5>4. vals[(z - 1) * m + j] = gives[(n - i) + z][j]
          BY <2>3, <5>2 DEF InOrder
        <5>5. (n - i) + z = (n - k) + x
          BY <2>1, <2>2, <5>1
        <5>7. both[y] = vals[y - m]
          BY SMTT(30), <2>6, <3>0, <3>1, <3>2, <4>3, <5>3, ValuesJoined
        <5>8. QED
          BY <4>1, <5>3, <5>4, <5>5, <5>7
      <4>7. QED
        BY <4>5, <4>6
    <3>8. QED
      BY <3>4, <3>6, <3>7 DEF InOrder
  <2>12. Len(joined[k]) >= k
    <3>1. parts[l] \in Bytes /\ joined[i] \in Bytes
      BY <1>3, <1>6, <2>2, <2>4
    <3>2. /\ Len(parts[l] \o joined[i]) = Len(parts[l]) + Len(joined[i])
          /\ Len(parts[l]) \in Nat /\ Len(joined[i]) \in Nat
      BY <3>1, BytesJoin
    <3>3. Len(joined[i]) >= i
      BY <1>10
    <3>4. PICK a, b : a = Len(parts[l]) /\ b = Len(joined[i])
      OBVIOUS
    <3>5. a \in Nat /\ b \in Nat /\ a >= 1 /\ b >= i /\ Len(joined[k]) = a + b
      BY <2>5, <2>9, <3>2, <3>3, <3>4
    <3>6. a + b >= k
      BY <2>1, <2>2, <3>5
    <3>7. QED
      BY <3>5, <3>6
  <2>13. k \in 0..n
    BY <2>2
  <2>14. Good(k)
    BY <2>10, <2>11, <2>12
  <2> HIDE DEF Good
  <2>15. QED
    BY <2>1, <2>13, <2>14
<1>11. n \in P
  <2> HIDE DEF P
  <2>1. \A i \in 0..n : i \in P
    BY <1>9, <1>10, UpTo
  <2>2. QED
    BY <2>1
<1>12. joined[n] = Joined(parts)
  <2>1. Len(parts) = n
    BY <1>4
  <2>2. QED
    BY <1>5, <2>1 DEF Joined
<1>13. Joined(parts) \in Bytes
  BY <1>6, <1>12
<1>14. n - n = 0
  OBVIOUS
<1>15. QED
  BY <1>1, <1>11, <1>12, <1>13, <1>14

(* Nothing is left for another topic.                                      *)
LEMMA Exhausted ==
  ASSUME NEW ks \in Seq(Kinds), NEW K \in TopicKinds, NEW l \in Nat, l >= 1, NEW bs \in Bytes,
         NEW r, r = ReadFields(ks, bs), r.ok, r.rest = <<>>
  PROVE  ReadFields(ks \o Repeated(K, l), bs).ok = FALSE
<1>1. PICK k2 : k2 = Repeated(K, l)
  OBVIOUS
<1>2. PICK n : n = Len(k2)
  OBVIOUS
<1>3. k2 \in Seq(Kinds) /\ n \in Nat /\ n >= 1 /\ k2[1] = "string"
  <2>1. k2 \in Seq(Kinds) /\ n = l * Len(K)
    BY <1>1, <1>2, RepeatedIs
  <2>2. Len(K) \in {1, 2} /\ K[1] = "string"
    BY RepeatedIs
  <2>3. n \in Nat /\ n >= 1
    <3>1. CASE Len(K) = 1
      BY <2>1, <3>1
    <3>2. CASE Len(K) = 2
      BY <2>1, <3>2
    <3>3. QED
      BY <2>2, <3>1, <3>2
  <2>4. PICK one \in 1..(l * Len(K)) : one = 1
    BY <2>1, <2>3
  <2>5. k2[one] = K[((one - 1) % Len(K)) + 1]
    BY <1>1, <2>4, RepeatedIs
  <2>6. (one - 1) % Len(K) = 0
    <3>1. CASE Len(K) = 1
      BY <2>4, <3>1
    <3>2. CASE Len(K) = 2
      BY <2>4, <3>2
    <3>3. QED
      BY <2>2, <3>1, <3>2
  <2>7. QED
    BY <2>1, <2>2, <2>3, <2>4, <2>5, <2>6
<1>4. PICK none \in Bytes : none = <<>>
  <2>1. <<>> \in Bytes
    BY DEF Bytes
  <2>2. QED
    BY <2>1
<1>5. PICK F : F = FieldsRead(k2, none)
  OBVIOUS
<1>6. ReadInTurn(F, n, k2, none)
  <2>1. k2 \in [1..n -> Kinds]
    BY <1>2, <1>3, LenProperties
  <2>2. QED
    BY <1>3, <1>5, <2>1, FieldsStepByStep
<1>7. F[0] = [ok |-> TRUE, vals |-> <<>>, rest |-> none]
  BY <1>6 DEF ReadInTurn
<1>8. \A i \in 1..n : F[i] = ReadField(F[i - 1], k2[i])
  BY <1>6 DEF ReadInTurn
<1>9. F \in [0..n -> Readings]
  BY <1>6 DEF ReadInTurn
<1>10. ASSUME NEW s \in Readings, NEW kind \in Kinds, ~s.ok \/ (s.rest = <<>> /\ kind = "string")
       PROVE  ReadField(s, kind).ok = FALSE
  <2>1. ~(s.ok /\ Size(kind, s.rest) <= Len(s.rest))
    <3>1. CASE ~s.ok
      BY <3>1
    <3>2. CASE s.rest = <<>> /\ kind = "string"
      <4>1. Len(s.rest) = 0
        BY <3>2
      <4>2. Size(kind, s.rest) = 2
        BY <3>2, <4>1 DEF Size
      <4>3. QED
        BY <4>1, <4>2
    <3>3. QED
      BY <1>10, <3>1, <3>2
  <2>2. PICK t : t = ReadField(s, kind)
    OBVIOUS
  <2>3. t = [s EXCEPT !.ok = FALSE]
    BY <2>1, <2>2 DEF ReadField
  <2>4. t.ok = FALSE
    BY <2>3 DEF Readings
  <2>5. QED
    BY <2>2, <2>4
<1> DEFINE P == {i \in 0..(n - 1) : F[i + 1].ok = FALSE}
<1>11. 0 \in P
  <2>1. PICK one \in 1..n : one = 1
    BY <1>3
  <2>2. F[one] = ReadField(F[one - 1], k2[one])
    BY <1>8
  <2>3. PICK s : s = F[0]
    OBVIOUS
  <2>4. s \in Readings /\ s.rest = <<>>
    <3>1. 0 \in 0..n
      BY <1>3
    <3>2. s \in Readings
      BY <1>9, <2>3, <3>1
    <3>3. s.rest = none
      BY <1>7, <2>3
    <3>4. QED
      BY <1>4, <3>2, <3>3
  <2>5. k2[one] = "string" /\ one - 1 = 0
    BY <1>3, <2>1
  <2>6. "string" \in Kinds
    BY DEF Kinds
  <2>7. ReadField(s, "string").ok = FALSE
    BY <1>10, <2>4, <2>6
  <2>8. F[one].ok = FALSE
    BY <2>2, <2>3, <2>5, <2>7
  <2>9. 0 \in 0..(n - 1) /\ 0 + 1 = one
    BY <1>3, <2>1
  <2>10. QED
    BY <2>8, <2>9
<1>12. ASSUME NEW i \in 0..((n - 1) - 1), i \in P PROVE i + 1 \in P
  <2>1. PICK k : k = i + 1
    OBVIOUS
  <2>2. k \in 0..n /\ k \in 0..(n - 1) /\ k + 1 \in 1..n /\ (k + 1) - 1 = k
    BY <1>3, <2>1
  <2>3. F[k].ok = FALSE
    BY <1>12, <2>1
  <2>4. PICK s, kind : s = F[k] /\ kind = k2[k + 1]
    OBVIOUS
  <2>5. s \in Readings /\ kind \in Kinds
    <3>1. k2[k + 1] \in Kinds
      BY <1>2, <1>3, <2>2, ElementOfSeq
    <3>2. QED
      BY <1>9, <2>2, <2>4, <3>1
  <2>6. F[k + 1] = ReadField(s, kind)
    BY <1>8, <2>2, <2>4
  <2>7. F[k + 1].ok = FALSE
    BY ZenonT(60), <1>10, <2>3, <2>4, <2>5, <2>6
  <2>8. QED
    BY <2>1, <2>2, <2>7
<1>13. F[n].ok = FALSE
  <2>1. PICK m \in Nat : m = n - 1
    BY <1>3
  <2>2. \A i \in 0..m : i \in P
    <3> HIDE DEF P
    <3>1. 0 \in P /\ \A i \in 0..(m - 1) : i \in P => i + 1 \in P
      BY <1>11, <1>12, <2>1
    <3>2. QED
      BY <3>1, UpTo
  <2>3. m \in P
    BY <2>1, <2>2
  <2>4. m + 1 = n
    BY <1>3, <2>1
  <2>5. QED
    BY <2>3, <2>4
<1>14. ReadFields(k2, none) = F[n]
  BY <1>2, <1>5 DEF ReadFields
<1>15. ReadFields(ks \o k2, bs) = Prepend(r.vals, ReadFields(k2, r.rest))
  BY <1>3, ReadsOn
<1>16. PICK s : s = F[n]
  OBVIOUS
<1>17. Prepend(r.vals, s).ok = FALSE
  BY <1>13, <1>16 DEF Prepend
<1>18. QED
  BY <1>1, <1>4, <1>14, <1>15, <1>16, <1>17

(* Kinds one after the other.                                              *)
LEMMA KindsJoinThree ==
  ASSUME NEW a \in Seq(Kinds), NEW b \in Seq(Kinds), NEW c \in Seq(Kinds)
  PROVE  a \o (b \o c) = (a \o b) \o c
BY SMTT(30), ConcatAssociative

(* A packet id and topics are read in one way only.                        *)
LEMMA OneReading ==
  ASSUME NEW K \in TopicKinds, NEW n \in Nat, NEW bs \in Bytes, n <= Len(bs), NEW vs,
         ReadsAll(<<"u16">> \o Repeated(K, n), vs, bs)
  PROVE  ReadTopics(K, bs) = {[ok |-> TRUE, vals |-> vs, rest |-> <<>>]}
<1>1. PICK u : u = <<"u16">>
  OBVIOUS
<1>2. u \in Seq(Kinds)
  <2>1. "u16" \in Kinds
    BY DEF Kinds
  <2>2. QED
    BY <1>1, <2>1
<1>3. PICK H : H = [k \in Nat |-> u \o Repeated(K, k)]
  OBVIOUS
<1>4. ASSUME NEW k \in Nat
      PROVE  H[k] = u \o Repeated(K, k) /\ H[k] \in Seq(Kinds)
  <2>1. H[k] = u \o Repeated(K, k)
    BY <1>3
  <2>2. Repeated(K, k) \in Seq(Kinds)
    BY RepeatedIs
  <2>3. QED
    BY <1>2, <2>1, <2>2, ConcatProperties
<1>5. ASSUME NEW k \in Nat, NEW l \in Nat
      PROVE  H[k + l] = H[k] \o Repeated(K, l)
  <2>1. PICK a, b : a = Repeated(K, k) /\ b = Repeated(K, l)
    OBVIOUS
  <2>2. a \in Seq(Kinds) /\ b \in Seq(Kinds)
    BY <2>1, RepeatedIs
  <2>3. Repeated(K, k + l) = a \o b
    BY <2>1, RepeatedMore
  <2>4. k + l \in Nat
    OBVIOUS
  <2>5. H[k + l] = u \o (a \o b)
    BY <1>4, <2>3, <2>4
  <2>6. u \o (a \o b) = (u \o a) \o b
    BY <1>2, <2>2, KindsJoinThree
  <2>7. H[k] = u \o a
    BY <1>4, <2>1
  <2>8. QED
    BY <2>1, <2>5, <2>6, <2>7
<1>6. PICK full : full = [ok |-> TRUE, vals |-> vs, rest |-> <<>>]
  OBVIOUS
<1>7. ReadFields(H[n], bs) = full
  BY <1>1, <1>4, <1>6 DEF ReadsAll
<1>8. full.ok = TRUE /\ full.rest = <<>>
  BY <1>6
<1>9. ASSUME NEW k \in Nat, NEW r, r = ReadFields(H[k], bs), r.ok, r.rest = <<>>
      PROVE  k = n
  <2>1. CASE k > n
    <3>1. PICK l \in Nat : l = k - n /\ l >= 1 /\ n + l = k
      BY <2>1
    <3>2. ReadFields(H[n] \o Repeated(K, l), bs).ok = FALSE
      BY ZenonT(60), <1>4, <1>7, <1>8, <3>1, Exhausted
    <3>3. H[k] = H[n] \o Repeated(K, l)
      BY <1>5, <3>1
    <3>4. r.ok = FALSE
      BY <1>9, <3>2, <3>3
    <3>5. QED
      BY <1>9, <3>4
  <2>2. CASE k < n
    <3>1. PICK l \in Nat : l = n - k /\ l >= 1 /\ k + l = n
      BY <2>2
    <3>2. ReadFields(H[k] \o Repeated(K, l), bs).ok = FALSE
      BY ZenonT(60), <1>4, <1>9, <3>1, Exhausted
    <3>3. H[n] = H[k] \o Repeated(K, l)
      BY <1>5, <3>1
    <3>4. full.ok = FALSE
      BY <1>7, <3>2, <3>3
    <3>5. QED
      BY <1>8, <3>4
  <2>3. QED
    BY <2>1, <2>2
<1>10. PICK readings : readings = {ReadFields(u \o Repeated(K, k), bs) : k \in 0..Len(bs)}
  OBVIOUS
<1>11. Len(bs) \in Nat
  BY ByteAt
<1>12. full \in readings
  <2>1. n \in 0..Len(bs)
    BY <1>11
  <2>2. full = ReadFields(u \o Repeated(K, n), bs)
    BY <1>4, <1>7
  <2>3. QED
    BY <1>10, <2>1, <2>2
<1>13. ASSUME NEW r \in readings, r.ok, r.rest = <<>> PROVE r = full
  <2>1. PICK k \in 0..Len(bs) : r = ReadFields(u \o Repeated(K, k), bs)
    BY <1>10
  <2>2. k \in Nat
    BY <1>11
  <2>3. r = ReadFields(H[k], bs)
    BY <1>4, <2>1, <2>2
  <2>4. k = n
    BY <1>9, <1>13, <2>2, <2>3
  <2>5. QED
    BY <1>7, <2>3, <2>4
<1>14. {r \in readings : r.ok /\ r.rest = <<>>} = {full}
  BY <1>8, <1>12, <1>13
<1>15. QED
  BY <1>1, <1>6, <1>10, <1>14 DEF ReadTopics

(* What is read of a packet id and topics: the values.                     *)
TopicsRead(v, id, m, n, gives) ==
    /\ v \in Seq(Values) /\ Len(v) = n * m + 1 /\ v[1] = id
    /\ \A i \in 1..n : \A j \in 1..m : v[(i - 1) * m + j + 1] = gives[i][j]

ReadOnce(K, bs, id, n, gives) ==
    \E v : /\ TopicsRead(v, id, Len(K), n, gives)
           /\ ReadTopics(K, bs) = {[ok |-> TRUE, vals |-> v, rest |-> <<>>]}

LEMMA TopicsAreRead ==
  ASSUME NEW K \in TopicKinds, NEW n \in Nat, NEW parts, NEW gives,
         EachReads(K, n, gives, parts),
         NEW id \in Num16, NEW bs, bs = WriteU16(id) \o Joined(parts)
  PROVE  /\ bs \in Bytes /\ Len(bs) = 2 + Len(Joined(parts))
         /\ ReadOnce(K, bs, id, n, gives)
<1>1. PICK j : j = Joined(parts)
  OBVIOUS
<1>2. j \in Bytes /\ Len(j) >= n
  BY <1>1, RepeatedReads
<1>3. PICK vals : Reads(Repeated(K, n), vals, j) /\ InOrder(vals, Len(K), n, gives, 0)
  BY <1>1, RepeatedReads
<1>4. PICK u, ids : u = WriteU16(id) /\ ids = <<id>>
  OBVIOUS
<1>5. bs \in Bytes /\ Len(bs) = 2 + Len(j)
  BY <1>1, <1>2, U16Written
<1>6. Reads(<<"u16">>, ids, u)
  BY <1>4, U16Reads
<1>7. PICK v : v = ids \o vals
  OBVIOUS
<1>8. bs = u \o j
  BY <1>1, <1>4
<1>9. Reads(<<"u16">> \o Repeated(K, n), v, bs)
  <2>1. Reads(<<"u16">> \o Repeated(K, n), ids \o vals, u \o j)
    BY <1>3, <1>6, ReadsJoin
  <2>2. QED
    BY <1>7, <1>8, <2>1, Zenon
<1>10. ReadsAll(<<"u16">> \o Repeated(K, n), v, bs)
  BY <1>9, ReadsEnd
<1>11. n <= Len(bs)
  BY <1>2, <1>5, ByteAt
<1>12. ReadTopics(K, bs) = {[ok |-> TRUE, vals |-> v, rest |-> <<>>]}
  BY <1>5, <1>10, <1>11, OneReading
<1>13. PICK m : m = Len(K)
  OBVIOUS
<1>14. m \in {1, 2}
  BY <1>13, RepeatedIs
<1>15. /\ vals \in Seq(Values) /\ Len(vals) = n * m
       /\ \A x \in 1..n : \A k \in 1..m : vals[(x - 1) * m + k] = gives[0 + x][k]
  BY <1>3, <1>13 DEF InOrder
<1>16. PICK one \in Nat : one = 1
  OBVIOUS
<1>17. ids \in Seq(Values) /\ Len(ids) = one /\ ids[1] = id
  BY <1>4, <1>16 DEF Num16, Values
<1>18. v \in Seq(Values) /\ Len(v) = one + Len(vals)
  BY <1>7, <1>15, <1>16, <1>17, ValuesJoined
<1>19. \A i \in 1..one : v[i] = ids[i]
  BY <1>7, <1>15, <1>16, <1>17, ValuesJoined
<1>20. \A i \in 1..(one + Len(vals)) : i > one => v[i] = vals[i - one]
  BY <1>7, <1>15, <1>16, <1>17, ValuesJoined
<1>21. n * m \in Nat
  BY <1>14
<1>22. v[1] = id
  BY <1>16, <1>17, <1>19
<1>23. ASSUME NEW i \in 1..n, NEW k \in 1..m
       PROVE  v[(i - 1) * m + k + 1] = gives[i][k]
  <2>1. PICK x : x = (i - 1) * m + k
    OBVIOUS
  <2>2. x \in 1..(n * m)
    <3>1. CASE m = 1
      BY <2>1, <3>1
    <3>2. CASE m = 2
      BY <2>1, <3>2
    <3>3. QED
      BY <1>14, <3>1, <3>2
  <2>3. vals[x] = gives[i][k]
    BY <1>15, <2>1
  <2>4. x + 1 \in 1..(one + Len(vals)) /\ x + 1 > one /\ (x + 1) - one = x
    BY <1>15, <1>16, <1>21, <2>2
  <2>5. v[x + 1] = vals[x]
    BY <1>20, <2>4
  <2>6. QED
    BY <2>1, <2>3, <2>5
<1>24. TopicsRead(v, id, m, n, gives)
  BY <1>15, <1>16, <1>18, <1>21, <1>22, <1>23 DEF TopicsRead
<1>25. ReadOnce(K, bs, id, n, gives)
  BY <1>12, <1>13, <1>24 DEF ReadOnce
<1>26. QED
  BY <1>1, <1>5, <1>25

SubscribeWritten ==
    [tp : {"SUBSCRIBE"}, id : Num16, topics : Seq([name : Text, qos : {0, 1, 2}])]

LEMMA SubscribeIsParsed ==
  ASSUME NEW p \in SubscribeWritten
  PROVE  IsParsed(p)
<1>1. PICK id, topics, n : id = p.id /\ topics = p.topics /\ n = Len(topics)
  OBVIOUS
<1>2. /\ id \in Num16 /\ topics \in Seq([name : Text, qos : {0, 1, 2}]) /\ p.tp = "SUBSCRIBE"
      /\ p = [tp |-> "SUBSCRIBE", id |-> id, topics |-> topics]
  BY <1>1 DEF SubscribeWritten
<1>3. n \in Nat /\ DOMAIN topics = 1..n
  BY <1>1, <1>2, LenProperties
<1>4. ASSUME NEW i \in 1..n
      PROVE  /\ topics[i].name \in Text /\ topics[i].qos \in {0, 1, 2}
             /\ topics[i] = [name |-> topics[i].name, qos |-> topics[i].qos]
  <2>1. topics[i] \in [name : Text, qos : {0, 1, 2}]
    BY <1>1, <1>2, ElementOfSeq
  <2>2. QED
    BY <2>1
<1>5. PICK K : K = <<"string", "byte">>
  OBVIOUS
<1>6. K \in TopicKinds /\ Len(K) = 2
  BY <1>5 DEF TopicKinds
<1>7. PICK parts : parts = [i \in 1..n |-> WriteString(topics[i].name) \o <<topics[i].qos>>]
  OBVIOUS
<1>8. PICK gives : gives = [i \in 1..n |-> <<topics[i].name, topics[i].qos>>]
  OBVIOUS
<1>9. PICK lens : lens = [i \in 1..n |-> 3 + Len(topics[i].name)]
  OBVIOUS
<1>10. ASSUME NEW i \in 1..n
       PROVE  /\ Reads(K, gives[i], parts[i]) /\ Len(gives[i]) = 2 /\ parts[i] \in Bytes
              /\ lens[i] \in Nat /\ lens[i] = Len(parts[i]) /\ Len(parts[i]) >= 1
  <2>1. PICK s, q : s = topics[i].name /\ q = topics[i].qos
    OBVIOUS
  <2>2. s \in Text /\ q \in Byte
    <3>1. s \in Text /\ q \in {0, 1, 2}
      BY <1>4, <2>1
    <3>2. QED
      BY <3>1 DEF Byte
  <2>3. PICK w, b : w = WriteString(s) /\ b = <<q>>
    OBVIOUS
  <2>4. Reads(<<"string">>, <<s>>, w) /\ Reads(<<"byte">>, <<q>>, b)
    BY <2>2, <2>3, StringReads, ByteReads
  <2>5. Reads(<<"string">> \o <<"byte">>, <<s>> \o <<q>>, w \o b)
    BY <2>4, ReadsJoin
  <2>6. <<"string">> \o <<"byte">> = K
    BY <1>5, OneMore
  <2>7. <<s>> \o <<q>> = gives[i]
    <3>1. gives[i] = <<s, q>>
      BY <1>8, <2>1
    <3>2. QED
      BY <3>1, OneMore
  <2>8. parts[i] = w \o b
    BY <1>7, <2>1, <2>3
  <2>9. Reads(K, gives[i], parts[i])
    BY <2>5, <2>6, <2>7, <2>8, Zenon
  <2>10. w \in Bytes /\ Len(w) = 2 + Len(s) /\ b \in Bytes /\ Len(b) = 1
    BY <2>2, <2>3, StringWritten DEF Bytes
  <2>11. parts[i] \in Bytes /\ Len(parts[i]) = Len(w) + Len(b)
    BY <2>8, <2>10, BytesJoin
  <2>12. Len(s) \in Nat
    BY <2>2, ByteAt DEF Text
  <2>13. lens[i] = 3 + Len(s)
    BY <1>9, <2>1
  <2>14. Len(gives[i]) = 2
    BY <1>8
  <2>15. QED
    BY <2>9, <2>10, <2>11, <2>12, <2>13, <2>14
<1>11. parts \in [1..n -> Bytes] /\ lens \in [1..n -> Nat]
  BY <1>7, <1>9, <1>10
<1>12. EachReads(K, n, gives, parts)
  BY <1>6, <1>10, <1>11 DEF EachReads
<1>13. PICK bs : bs = WriteU16(id) \o Joined(parts)
  OBVIOUS
<1>14. bs \in Bytes /\ Len(bs) = 2 + Len(Joined(parts))
  BY <1>2, <1>3, <1>6, <1>12, <1>13, TopicsAreRead
<1>15. PICK v : /\ TopicsRead(v, id, Len(K), n, gives)
                /\ ReadTopics(K, bs) = {[ok |-> TRUE, vals |-> v, rest |-> <<>>]}
  <2>1. ReadOnce(K, bs, id, n, gives)
    BY <1>2, <1>3, <1>6, <1>12, <1>13, TopicsAreRead
  <2>2. QED
    BY <2>1 DEF ReadOnce
<1>16. Len(Joined(parts)) = Total(lens)
  <2>1. \A i \in 1..n : lens[i] = Len(parts[i])
    BY <1>10
  <2>2. QED
    BY <1>3, <1>11, <2>1, JoinedLength
<1>17. Body(p) = bs
  <2>1. Body(p) = WriteU16(p.id) \o Joined([i \in DOMAIN p.topics |->
                                  WriteString(p.topics[i].name) \o <<p.topics[i].qos>>])
    BY <1>2 DEF Body, Empty, IdOnly
  <2>2. QED
    BY <1>1, <1>3, <1>7, <1>13, <2>1, Zenon
<1>18. PkLen(p) = 2 + Total(lens)
  <2>1. PkLen(p) = 2 + Total([i \in DOMAIN p.topics |-> 3 + Len(p.topics[i].name)])
    BY <1>2 DEF PkLen, Empty, IdOnly
  <2>2. QED
    BY <1>1, <1>3, <1>9, <2>1, Zenon
<1>19. HeaderFlags(p) = 2
  BY <1>2 DEF HeaderFlags
<1>20. /\ v \in Seq(Values) /\ Len(v) = n * 2 + 1 /\ v[1] = id
       /\ \A i \in 1..n : \A j \in 1..2 : v[(i - 1) * 2 + j + 1] = gives[i][j]
  BY <1>6, <1>15 DEF TopicsRead
<1>21. PICK ts : ts = [i \in 1..(Len(v) \div 2) |-> [name |-> v[2 * i], qos |-> v[2 * i + 1]]]
  OBVIOUS
<1>22. ts = topics
  <2>1. Len(v) \div 2 = n
    BY <1>3, <1>20
  <2>2. ASSUME NEW i \in 1..n
        PROVE  v[2 * i] = topics[i].name /\ v[2 * i + 1] = topics[i].qos
    <3>1. PICK one, two : one = 1 /\ two = 2
      OBVIOUS
    <3>2. v[(i - 1) * 2 + one + 1] = gives[i][one] /\ v[(i - 1) * 2 + two + 1] = gives[i][two]
      BY <1>20, <3>1
    <3>3. (i - 1) * 2 + one + 1 = 2 * i /\ (i - 1) * 2 + two + 1 = 2 * i + 1
      BY <1>3, <3>1
    <3>4. gives[i][one] = topics[i].name /\ gives[i][two] = topics[i].qos
      BY <1>8, <3>1
    <3>5. QED
      BY <3>2, <3>3, <3>4
  <2>3. ts = [i \in 1..n |-> topics[i]]
    BY <1>4, <1>21, <2>1, <2>2
  <2>4. topics = [i \in 1..n |-> topics[i]]
    BY <1>2, <1>3
  <2>5. QED
    BY <2>3, <2>4
<1>23. PICK r : r = [ok |-> TRUE, vals |-> v, rest |-> <<>>]
  OBVIOUS
<1>24. ReadTopics(<<"string", "byte">>, bs) = {r}
  BY <1>5, <1>15, <1>23
<1>25. (CHOOSE x \in {r} : TRUE).vals = v
  BY <1>23
<1>26. ~ \E i \in DOMAIN topics : topics[i].qos > 2
  BY <1>3, <1>4
<1>27. ParseSubscribe(2, bs) = p
  <2>1. ParseSubscribe(2, bs) = [tp |-> "SUBSCRIBE", id |-> v[1], topics |-> ts]
    BY ZenonT(60), <1>21, <1>22, <1>24, <1>25, <1>26 DEF ParseSubscribe
  <2>2. QED
    BY <1>2, <1>20, <1>22, <2>1
<1>28. Parse("SUBSCRIBE", 2, bs) = ParseSubscribe(2, bs)
  BY DEF Parse, Empty, IdOnly
<1>29. OnTheWire(p) = p
  BY <1>2 DEF OnTheWire
<1>30. QED
  BY <1>2, <1>14, <1>16, <1>17, <1>18, <1>19, <1>27, <1>28, <1>29 DEF IsParsed

UnsubscribeWritten == [tp : {"UNSUBSCRIBE"}, id : Num16, topics : Seq(Text)]

LEMMA UnsubscribeIsParsed ==
  ASSUME NEW p \in UnsubscribeWritten
  PROVE  IsParsed(p)
<1>1. PICK id, topics, n : id = p.id /\ topics = p.topics /\ n = Len(topics)
  OBVIOUS
<1>2. /\ id \in Num16 /\ topics \in Seq(Text) /\ p.tp = "UNSUBSCRIBE"
      /\ p = [tp |-> "UNSUBSCRIBE", id |-> id, topics |-> topics]
  BY <1>1 DEF UnsubscribeWritten
<1>3. n \in Nat /\ DOMAIN topics = 1..n
  BY <1>1, <1>2, LenProperties
<1>4. ASSUME NEW i \in 1..n PROVE topics[i] \in Text
  BY <1>1, <1>2, ElementOfSeq
<1>5. PICK K : K = <<"string">>
  OBVIOUS
<1>6. K \in TopicKinds /\ Len(K) = 1
  BY <1>5 DEF TopicKinds
<1>7. PICK parts : parts = [i \in 1..n |-> WriteString(topics[i])]
  OBVIOUS
<1>8. PICK gives : gives = [i \in 1..n |-> <<topics[i]>>]
  OBVIOUS
<1>9. PICK lens : lens = [i \in 1..n |-> 2 + Len(topics[i])]
  OBVIOUS
<1>10. ASSUME NEW i \in 1..n
       PROVE  /\ Reads(K, gives[i], parts[i]) /\ Len(gives[i]) = 1 /\ parts[i] \in Bytes
              /\ lens[i] \in Nat /\ lens[i] = Len(parts[i]) /\ Len(parts[i]) >= 1
  <2>1. PICK s : s = topics[i]
    OBVIOUS
  <2>2. s \in Text
    BY <1>4, <2>1
  <2>3. PICK w : w = WriteString(s)
    OBVIOUS
  <2>4. Reads(<<"string">>, <<s>>, w)
    BY <2>2, <2>3, StringReads
  <2>5. gives[i] = <<s>> /\ parts[i] = w
    BY <1>7, <1>8, <2>1, <2>3
  <2>6. Reads(K, gives[i], parts[i])
    BY <1>5, <2>4, <2>5, Zenon
  <2>7. w \in Bytes /\ Len(w) = 2 + Len(s)
    BY <2>2, <2>3, StringWritten
  <2>8. Len(s) \in Nat
    BY <2>2, ByteAt DEF Text
  <2>9. lens[i] = 2 + Len(s)
    BY <1>9, <2>1
  <2>10. Len(gives[i]) = 1
    BY <1>8
  <2>11. QED
    BY <2>5, <2>6, <2>7, <2>8, <2>9, <2>10
<1>11. parts \in [1..n -> Bytes] /\ lens \in [1..n -> Nat]
  BY <1>7, <1>9, <1>10
<1>12. EachReads(K, n, gives, parts)
  BY <1>6, <1>10, <1>11 DEF EachReads
<1>13. PICK bs : bs = WriteU16(id) \o Joined(parts)
  OBVIOUS
<1>14. bs \in Bytes /\ Len(bs) = 2 + Len(Joined(parts))
  BY <1>2, <1>3, <1>6, <1>12, <1>13, TopicsAreRead
<1>15. PICK v : /\ TopicsRead(v, id, Len(K), n, gives)
                /\ ReadTopics(K, bs) = {[ok |-> TRUE, vals |-> v, rest |-> <<>>]}
  <2>1. ReadOnce(K, bs, id, n, gives)
    BY <1>2, <1>3, <1>6, <1>12, <1>13, TopicsAreRead
  <2>2. QED
    BY <2>1 DEF ReadOnce
<1>16. Len(Joined(parts)) = Total(lens)
  <2>1. \A i \in 1..n : lens[i] = Len(parts[i])
    BY <1>10
  <2>2. QED
    BY <1>3, <1>11, <2>1, JoinedLength
<1>17. Body(p) = bs
  <2>1. Body(p) = WriteU16(p.id) \o Joined([i \in DOMAIN p.topics |-> WriteString(p.topics[i])])
    BY <1>2 DEF Body, Empty, IdOnly
  <2>2. QED
    BY <1>1, <1>3, <1>7, <1>13, <2>1, Zenon
<1>18. PkLen(p) = 2 + Total(lens)
  <2>1. PkLen(p) = 2 + Total([i \in DOMAIN p.topics |-> 2 + Len(p.topics[i])])
    BY <1>2 DEF PkLen, Empty, IdOnly
  <2>2. QED
    BY <1>1, <1>3, <1>9, <2>1, Zenon
<1>19. HeaderFlags(p) = 2
  BY <1>2 DEF HeaderFlags
<1>20. /\ v \in Seq(Values) /\ Len(v) = n * 1 + 1 /\ v[1] = id
       /\ \A i \in 1..n : \A j \in 1..1 : v[(i - 1) * 1 + j + 1] = gives[i][j]
  BY SMTT(30), <1>6, <1>15 DEF TopicsRead
<1>21. Tail(v) = topics
  <2>1. v # <<>>
    BY <1>3, <1>20
  <2>2. PICK t : t = Tail(v)
    OBVIOUS
  <2>3. t \in Seq(Values) /\ Len(t) = Len(v) - 1
    BY <1>20, <2>1, <2>2, HeadTailProperties
  <2>4. \A i \in 1..Len(t) : t[i] = v[i + 1]
    BY <1>20, <2>1, <2>2, HeadTailProperties
  <2>5. Len(t) = n
    BY <1>3, <1>20, <2>3
  <2>6. ASSUME NEW i \in 1..n PROVE t[i] = topics[i]
    <3>1. PICK one : one = 1
      OBVIOUS
    <3>2. v[(i - 1) * 1 + one + 1] = gives[i][one]
      BY <1>20, <3>1
    <3>3. (i - 1) * 1 + one + 1 = i + 1
      BY <1>3, <3>1
    <3>4. gives[i][one] = topics[i]
      BY <1>8, <3>1
    <3>5. QED
      BY <2>4, <2>5, <3>2, <3>3, <3>4
  <2>7. topics \in Seq(Values)
    <3>1. \A i \in 1..Len(topics) : topics[i] \in Values
      BY <1>1, <1>4 DEF Text, Values
    <3>2. QED
      BY <1>1, <1>2, <1>3, <3>1
  <2>8. QED
    BY <1>1, <2>2, <2>3, <2>5, <2>6, <2>7, SeqEqual
<1>22. PICK r : r = [ok |-> TRUE, vals |-> v, rest |-> <<>>]
  OBVIOUS
<1>23. ReadTopics(<<"string">>, bs) = {r}
  BY <1>5, <1>15, <1>22
<1>24. (CHOOSE x \in {r} : TRUE).vals = v
  BY <1>22
<1>25. ParseUnsubscribe(2, bs) = p
  <2>1. ParseUnsubscribe(2, bs) = [tp |-> "UNSUBSCRIBE", id |-> v[1], topics |-> Tail(v)]
    BY <1>23, <1>24 DEF ParseUnsubscribe
  <2>2. QED
    BY <1>2, <1>20, <1>21, <2>1
<1>26. Parse("UNSUBSCRIBE", 2, bs) = ParseUnsubscribe(2, bs)
  BY DEF Parse, Empty, IdOnly
<1>27. OnTheWire(p) = p
  BY <1>2 DEF OnTheWire
<1>28. QED
  BY <1>2, <1>14, <1>16, <1>17, <1>18, <1>19, <1>25, <1>26, <1>27 DEF IsParsed

(* CONNECT.                                                                *)
LEMMA FourthAdded ==
  ASSUME NEW a, NEW b, NEW c, NEW d
  PROVE  <<a, b, c>> \o <<d>> = <<a, b, c, d>>
<1>1. PICK S : S = {a, b, c, d}
  OBVIOUS
<1>2. PICK x, y, z : x = <<a, b, c>> /\ y = <<a, b, c, d>> /\ z = Append(x, d)
  OBVIOUS
<1>3. a \in S /\ b \in S /\ c \in S /\ d \in S
  BY <1>1
<1>4. x \in Seq(S) /\ Len(x) = 3 /\ x[1] = a /\ x[2] = b /\ x[3] = c
  BY <1>2, <1>3
<1>5. z = x \o <<d>>
  BY <1>2, <1>3, <1>4, AppendIsConcat
<1>6. z \in Seq(S) /\ Len(z) = 4 /\ z[4] = d
  BY <1>2, <1>3, <1>4, AppendProperties
<1>7. \A i \in 1..3 : z[i] = x[i]
  BY <1>2, <1>3, <1>4, AppendProperties
<1>8. y \in Seq(S) /\ Len(y) = 4 /\ y[1] = a /\ y[2] = b /\ y[3] = c /\ y[4] = d
  BY <1>2, <1>3
<1>9. \A i \in 1..Len(z) : z[i] = y[i]
  BY <1>4, <1>6, <1>7, <1>8
<1>10. z = y
  BY <1>6, <1>8, <1>9, SeqEqual
<1>11. QED
  BY <1>2, <1>5, <1>10

LEMMA FifthAdded ==
  ASSUME NEW a, NEW b, NEW c, NEW d, NEW e
  PROVE  <<a, b, c, d>> \o <<e>> = <<a, b, c, d, e>>
<1>1. PICK S : S = {a, b, c, d, e}
  OBVIOUS
<1>2. PICK x, y, z : x = <<a, b, c, d>> /\ y = <<a, b, c, d, e>> /\ z = Append(x, e)
  OBVIOUS
<1>3. a \in S /\ b \in S /\ c \in S /\ d \in S /\ e \in S
  BY <1>1
<1>4. x \in Seq(S) /\ Len(x) = 4 /\ x[1] = a /\ x[2] = b /\ x[3] = c /\ x[4] = d
  BY <1>2, <1>3
<1>5. z = x \o <<e>>
  BY <1>2, <1>3, <1>4, AppendIsConcat
<1>6. z \in Seq(S) /\ Len(z) = 5 /\ z[5] = e
  BY <1>2, <1>3, <1>4, AppendProperties
<1>7. \A i \in 1..4 : z[i] = x[i]
  BY <1>2, <1>3, <1>4, AppendProperties
<1>8. y \in Seq(S) /\ Len(y) = 5 /\ y[1] = a /\ y[2] = b /\ y[3] = c /\ y[4] = d /\ y[5] = e
  BY <1>2, <1>3
<1>9. \A i \in 1..Len(z) : z[i] = y[i]
  BY <1>4, <1>6, <1>7, <1>8
<1>10. z = y
  BY <1>6, <1>8, <1>9, SeqEqual
<1>11. QED
  BY <1>2, <1>5, <1>10

LEMMA WhenReads ==
  ASSUME NEW k, NEW v, NEW b, Reads(k, v, b), NEW condition \in BOOLEAN
  PROVE  /\ Reads(When(condition, k), When(condition, v), When(condition, b))
         /\ Len(When(condition, b)) = Flag(condition, Len(b))
         /\ Len(When(condition, v)) = Flag(condition, Len(v))
<1>1. CASE condition
  BY <1>1 DEF When, Flag
<1>2. CASE ~condition
  <2>1. When(condition, k) = <<>> /\ When(condition, v) = <<>> /\ When(condition, b) = <<>>
    BY <1>2 DEF When
  <2>2. Len(<<>>) = 0
    OBVIOUS
  <2>3. QED
    BY <1>2, <2>1, <2>2, ReadsNothing DEF Flag
<1>3. QED
  BY <1>1, <1>2

(* The protocol name to the client id.                                     *)
HeadWritten(flags, keepAlive, clientID) ==
    WriteString(<<77, 81, 84, 84>>) \o <<4, flags>> \o WriteU16(keepAlive) \o WriteString(clientID)

LEMMA HeadReads ==
  ASSUME NEW flags \in Byte, NEW keepAlive \in Num16, NEW clientID \in Text
  PROVE  /\ Reads(<<"string", "byte", "byte", "u16", "string">>,
                  <<(<<77, 81, 84, 84>>), 4, flags, keepAlive, clientID>>,
                  HeadWritten(flags, keepAlive, clientID))
         /\ Len(HeadWritten(flags, keepAlive, clientID)) = 12 + Len(clientID)
<1>1. PICK name, four : name = <<77, 81, 84, 84>> /\ four = 4
  OBVIOUS
<1>2. name \in Text /\ four \in Byte /\ Len(name) = 4
  <2>1. 77 \in Byte /\ 81 \in Byte /\ 84 \in Byte /\ 4 \in Byte
    BY DEF Byte
  <2>2. name \in Seq(Byte) /\ Len(name) = 4
    BY <1>1, <2>1
  <2>3. QED
    BY <1>1, <2>1, <2>2 DEF Text, Bytes
<1>3. PICK a, b, c, d, e : /\ a = WriteString(name) /\ b = <<four>> /\ c = <<flags>>
                           /\ d = WriteU16(keepAlive) /\ e = WriteString(clientID)
  OBVIOUS
<1>4. Reads(<<"string">>, <<name>>, a)
  BY <1>2, <1>3, StringReads
<1>5. Reads(<<"byte">>, <<four>>, b)
  BY <1>2, <1>3, ByteReads
<1>6. Reads(<<"byte">>, <<flags>>, c)
  BY <1>3, ByteReads
<1>7. Reads(<<"u16">>, <<keepAlive>>, d)
  BY <1>3, U16Reads
<1>8. Reads(<<"string">>, <<clientID>>, e)
  BY <1>3, StringReads
<1>9. Reads(<<"string", "byte">>, <<name, four>>, a \o b)
  <2>1. Reads(<<"string">> \o <<"byte">>, <<name>> \o <<four>>, a \o b)
    BY <1>4, <1>5, ReadsJoin
  <2>2. <<"string">> \o <<"byte">> = <<"string", "byte">>
    BY OneMore
  <2>3. <<name>> \o <<four>> = <<name, four>>
    BY OneMore
  <2>4. QED
    BY <2>1, <2>2, <2>3, Zenon
<1>10. Reads(<<"string", "byte", "byte">>, <<name, four, flags>>, (a \o b) \o c)
  <2>1. Reads(<<"string", "byte">> \o <<"byte">>, <<name, four>> \o <<flags>>, (a \o b) \o c)
    BY <1>6, <1>9, ReadsJoin
  <2>2. <<"string", "byte">> \o <<"byte">> = <<"string", "byte", "byte">>
    BY OneMore
  <2>3. <<name, four>> \o <<flags>> = <<name, four, flags>>
    BY OneMore
  <2>4. QED
    BY <2>1, <2>2, <2>3, Zenon
<1>11. Reads(<<"string", "byte", "byte", "u16">>, <<name, four, flags, keepAlive>>,
             ((a \o b) \o c) \o d)
  <2>1. Reads(<<"string", "byte", "byte">> \o <<"u16">>, <<name, four, flags>> \o <<keepAlive>>,
              ((a \o b) \o c) \o d)
    BY <1>7, <1>10, ReadsJoin
  <2>2. <<"string", "byte", "byte">> \o <<"u16">> = <<"string", "byte", "byte", "u16">>
    BY FourthAdded
  <2>3. <<name, four, flags>> \o <<keepAlive>> = <<name, four, flags, keepAlive>>
    BY FourthAdded
  <2>4. QED
    BY <2>1, <2>2, <2>3, Zenon
<1>12. Reads(<<"string", "byte", "byte", "u16", "string">>,
             <<name, four, flags, keepAlive, clientID>>, (((a \o b) \o c) \o d) \o e)
  <2>1. Reads(<<"string", "byte", "byte", "u16">> \o <<"string">>,
              <<name, four, flags, keepAlive>> \o <<clientID>>, (((a \o b) \o c) \o d) \o e)
    BY <1>8, <1>11, ReadsJoin
  <2>2. <<"string", "byte", "byte", "u16">> \o <<"string">>
          = <<"string", "byte", "byte", "u16", "string">>
    BY FifthAdded
  <2>3. <<name, four, flags, keepAlive>> \o <<clientID>>
          = <<name, four, flags, keepAlive, clientID>>
    BY FifthAdded
  <2>4. QED
    BY <2>1, <2>2, <2>3, Zenon
<1>13. /\ a \in Bytes /\ Len(a) = 2 + Len(name) /\ b \in Bytes /\ Len(b) = 1
       /\ c \in Bytes /\ Len(c) = 1
  <2>1. b \in Bytes /\ Len(b) = 1 /\ c \in Bytes /\ Len(c) = 1
    BY <1>2, <1>3 DEF Bytes
  <2>2. a \in Bytes /\ Len(a) = 2 + Len(name)
    BY <1>2, <1>3, StringWritten
  <2>3. QED
    BY <2>1, <2>2
<1>14. d \in Bytes /\ Len(d) = 2 /\ e \in Bytes /\ Len(e) = 2 + Len(clientID)
  BY <1>3, StringWritten, U16Alone
<1>15. (a \o b) \o c = a \o <<four, flags>>
  <2>1. (a \o b) \o c = a \o (b \o c)
    BY <1>13, JoinThree
  <2>2. b \o c = <<four, flags>>
    BY <1>3, OneMore
  <2>3. QED
    BY <2>1, <2>2
<1>16. HeadWritten(flags, keepAlive, clientID) = (((a \o b) \o c) \o d) \o e
  <2>1. HeadWritten(flags, keepAlive, clientID) = ((a \o <<four, flags>>) \o d) \o e
    BY <1>1, <1>3 DEF HeadWritten
  <2>2. QED
    BY <1>15, <2>1, Zenon
<1>17. Len((((a \o b) \o c) \o d) \o e) = 12 + Len(clientID)
  <2>1. PICK f \in Bytes : f = a \o b /\ Len(f) = Len(a) + Len(b)
    BY <1>13, BytesJoin
  <2>2. PICK g \in Bytes : g = f \o c /\ Len(g) = Len(f) + Len(c)
    BY <1>13, BytesJoin
  <2>3. PICK h \in Bytes : h = g \o d /\ Len(h) = Len(g) + Len(d)
    BY <1>14, BytesJoin
  <2>4. Len(h \o e) = Len(h) + Len(e)
    BY <1>14, BytesJoin
  <2>5. Len(clientID) \in Nat
    BY ByteAt DEF Text
  <2>6. Len(h) + Len(e) = 12 + Len(clientID)
    BY <1>2, <1>13, <1>14, <2>1, <2>2, <2>3, <2>5
  <2>7. QED
    BY <2>1, <2>2, <2>3, <2>4, <2>6
<1>18. QED
  BY <1>1, <1>12, <1>16, <1>17

(* What the flags announce.                                                *)
AnnouncedWritten(flags, will, creds) ==
    When(HasWill(flags), WriteString(will.topic) \o WriteString(will.message))
      \o When(HasUserName(flags), WriteString(creds.user))
      \o When(HasPassword(flags), WriteString(creds.password))

WillWritten == [topic : Text, message : Text, qos : Nat, retain : BOOLEAN]
CredsWritten == [user : Text, password : Text]
AnnouncedLen(flags, will, creds) ==
    Flag(HasWill(flags), 4 + Len(will.topic) + Len(will.message))
      + Flag(HasUserName(flags), 2 + Len(creds.user))
      + Flag(HasPassword(flags), 2 + Len(creds.password))

AnnouncedValues(v, flags, will, creds) ==
    /\ HasWill(flags) => v[1] = will.topic /\ v[2] = will.message
    /\ HasUserName(flags) => v[Flag(HasWill(flags), 2) + 1] = creds.user
    /\ HasPassword(flags)
          => v[(Flag(HasWill(flags), 2) + 1) + Flag(HasUserName(flags), 1)] = creds.password
AnnouncedReads(v, flags, will, creds) ==
    ReadsAll(Announced(flags), v, AnnouncedWritten(flags, will, creds))

LEMMA AnnouncedAreRead ==
  ASSUME NEW flags \in Byte, NEW will \in WillWritten, NEW creds \in CredsWritten
  PROVE  /\ Len(AnnouncedWritten(flags, will, creds)) = AnnouncedLen(flags, will, creds)
         /\ \E v : /\ AnnouncedReads(v, flags, will, creds)
                   /\ AnnouncedValues(v, flags, will, creds)
<1>1. PICK w, u, p \in BOOLEAN :
         w = HasWill(flags) /\ u = HasUserName(flags) /\ p = HasPassword(flags)
  BY DEF HasWill, HasUserName, HasPassword, Bit
<1>2. PICK t, m, n, s : /\ t = will.topic /\ m = will.message
                        /\ n = creds.user /\ s = creds.password
  OBVIOUS
<1>3. t \in Text /\ m \in Text /\ n \in Text /\ s \in Text
  BY <1>2 DEF WillWritten, CredsWritten
<1>4. Len(t) \in Nat /\ Len(m) \in Nat /\ Len(n) \in Nat /\ Len(s) \in Nat
  BY <1>3, ByteAt DEF Text
<1>5. PICK b1, b2, b3, b4 : /\ b1 = WriteString(t) /\ b2 = WriteString(m)
                            /\ b3 = WriteString(n) /\ b4 = WriteString(s)
  OBVIOUS
<1>6. /\ b1 \in Bytes /\ Len(b1) = 2 + Len(t) /\ b2 \in Bytes /\ Len(b2) = 2 + Len(m)
      /\ b3 \in Bytes /\ Len(b3) = 2 + Len(n) /\ b4 \in Bytes /\ Len(b4) = 2 + Len(s)
  BY <1>3, <1>5, StringWritten
<1>7. PICK k1, k2 : k1 = <<"string">> /\ k2 = <<"string", "string">>
  OBVIOUS
<1>8. PICK v1, v2, v3 : v1 = <<t, m>> /\ v2 = <<n>> /\ v3 = <<s>>
  OBVIOUS
<1>9. Reads(k2, v1, b1 \o b2)
  <2>1. Reads(<<"string">>, <<t>>, b1) /\ Reads(<<"string">>, <<m>>, b2)
    BY <1>3, <1>5, StringReads
  <2>2. Reads(<<"string">> \o <<"string">>, <<t>> \o <<m>>, b1 \o b2)
    BY <2>1, ReadsJoin
  <2>3. <<"string">> \o <<"string">> = k2
    BY <1>7, OneMore
  <2>4. <<t>> \o <<m>> = v1
    BY <1>8, OneMore
  <2>5. QED
    BY <2>2, <2>3, <2>4, Zenon
<1>10. Reads(k1, v2, b3) /\ Reads(k1, v3, b4)
  BY <1>3, <1>5, <1>7, <1>8, StringReads
<1>11. PICK kw, vw, bw :
          kw = When(w, k2) /\ vw = When(w, v1) /\ bw = When(w, b1 \o b2)
  OBVIOUS
<1>12. PICK ku, vu, bu : ku = When(u, k1) /\ vu = When(u, v2) /\ bu = When(u, b3)
  OBVIOUS
<1>13. PICK kp, vp, bp : kp = When(p, k1) /\ vp = When(p, v3) /\ bp = When(p, b4)
  OBVIOUS
<1>14. /\ Reads(kw, vw, bw) /\ Len(bw) = Flag(w, Len(b1 \o b2)) /\ Len(vw) = Flag(w, Len(v1))
  BY <1>9, <1>11, WhenReads
<1>15. /\ Reads(ku, vu, bu) /\ Len(bu) = Flag(u, Len(b3)) /\ Len(vu) = Flag(u, Len(v2))
  BY <1>10, <1>12, WhenReads
<1>16. /\ Reads(kp, vp, bp) /\ Len(bp) = Flag(p, Len(b4)) /\ Len(vp) = Flag(p, Len(v3))
  BY <1>10, <1>13, WhenReads
<1>17. PICK v : v = (vw \o vu) \o vp
  OBVIOUS
<1>18. Reads((kw \o ku) \o kp, v, (bw \o bu) \o bp)
  <2>1. Reads(kw \o ku, vw \o vu, bw \o bu)
    BY <1>14, <1>15, ReadsJoin
  <2>2. Reads((kw \o ku) \o kp, (vw \o vu) \o vp, (bw \o bu) \o bp)
    BY <1>16, <2>1, ReadsJoin
  <2>3. QED
    BY <1>17, <2>2, Zenon
<1>19. (kw \o ku) \o kp = Announced(flags)
  BY <1>1, <1>7, <1>11, <1>12, <1>13, Zenon DEF Announced
<1>20. (bw \o bu) \o bp = AnnouncedWritten(flags, will, creds)
  BY <1>1, <1>2, <1>5, <1>11, <1>12, <1>13, Zenon DEF AnnouncedWritten
<1>21. AnnouncedReads(v, flags, will, creds)
  <2>1. ReadsAll((kw \o ku) \o kp, v, (bw \o bu) \o bp)
    BY <1>18, ReadsEnd
  <2>2. QED
    BY <1>19, <1>20, <2>1, Zenon DEF AnnouncedReads
<1>22. Len(AnnouncedWritten(flags, will, creds)) = AnnouncedLen(flags, will, creds)
  <2>1. bw \in Bytes /\ bu \in Bytes /\ bp \in Bytes
    BY <1>14, <1>15, <1>16 DEF Reads
  <2>2. PICK f \in Bytes : f = bw \o bu /\ Len(f) = Len(bw) + Len(bu)
    BY <2>1, BytesJoin
  <2>3. Len(f \o bp) = Len(f) + Len(bp)
    BY <2>1, BytesJoin
  <2>4. Len(b1 \o b2) = 4 + Len(t) + Len(m)
    <3>1. Len(b1 \o b2) = Len(b1) + Len(b2)
      BY <1>6, BytesJoin
    <3>2. QED
      BY <1>4, <1>6, <3>1
  <2>5. AnnouncedLen(flags, will, creds)
          = Flag(w, 4 + Len(t) + Len(m)) + Flag(u, 2 + Len(n)) + Flag(p, 2 + Len(s))
    BY <1>1, <1>2, Zenon DEF AnnouncedLen
  <2>6. /\ Len(bw) = Flag(w, 4 + Len(t) + Len(m)) /\ Len(bu) = Flag(u, 2 + Len(n))
        /\ Len(bp) = Flag(p, 2 + Len(s))
    BY <1>6, <1>14, <1>15, <1>16, <2>4, Zenon
  <2>7. QED
    BY <1>20, <2>2, <2>3, <2>5, <2>6, Zenon
<1>23. AnnouncedValues(v, flags, will, creds)
  <2>1. vw \in Seq(Values) /\ vu \in Seq(Values) /\ vp \in Seq(Values)
    BY <1>14, <1>15, <1>16 DEF Reads
  <2>2. Len(v1) = 2 /\ Len(v2) = 1 /\ Len(v3) = 1
    BY <1>8
  <2>3. PICK lw, lu, lp : lw = Len(vw) /\ lu = Len(vu) /\ lp = Len(vp)
    OBVIOUS
  <2>4. lw = Flag(w, 2) /\ lu = Flag(u, 1) /\ lp = Flag(p, 1)
    BY <1>14, <1>15, <1>16, <2>2, <2>3, Zenon
  <2>5. lw \in Nat /\ lu \in Nat /\ lp \in Nat
    BY <2>4 DEF Flag
  <2>6. PICK f : f = vw \o vu
    OBVIOUS
  <2>7. PICK lf : lf = lw + lu
    OBVIOUS
  <2>8. f \in Seq(Values) /\ Len(f) = lf
    BY <2>1, <2>3, <2>5, <2>6, <2>7, ValuesJoined
  <2>9. \A i \in 1..lw : f[i] = vw[i]
    BY <2>1, <2>3, <2>5, <2>6, ValuesJoined
  <2>10. \A i \in 1..(lw + lu) : i > lw => f[i] = vu[i - lw]
    BY <2>1, <2>3, <2>5, <2>6, ValuesJoined
  <2>11. \A i \in 1..lf : v[i] = f[i]
    BY <1>17, <2>1, <2>5, <2>6, <2>7, <2>8, ValuesJoined
  <2>12. \A i \in 1..(lf + lp) : i > lf => v[i] = vp[i - lf]
    BY <1>17, <2>1, <2>3, <2>5, <2>6, <2>7, <2>8, ValuesJoined
  <2>13. w => v[1] = t /\ v[2] = m
    <3>1. ASSUME w PROVE v[1] = t /\ v[2] = m
      <4>1. lw = 2 /\ vw = v1
        BY <1>11, <2>4, <3>1 DEF Flag, When
      <4>2. v[1] = vw[1] /\ v[2] = vw[2]
        BY <2>5, <2>7, <2>9, <2>11, <4>1
      <4>3. QED
        BY <1>8, <4>1, <4>2
    <3>2. QED
      BY <3>1
  <2>14. u => v[lw + 1] = n
    <3>1. ASSUME u PROVE v[lw + 1] = n
      <4>1. lu = 1 /\ vu = v2
        BY <1>12, <2>4, <3>1 DEF Flag, When
      <4>2. PICK i : i = lw + 1
        OBVIOUS
      <4>3. i \in 1..lf /\ i \in 1..(lw + lu) /\ i > lw /\ i - lw = 1
        BY <2>5, <2>7, <4>1, <4>2
      <4>4. v[i] = vu[1]
        BY <2>10, <2>11, <4>3
      <4>5. QED
        BY <1>8, <4>1, <4>2, <4>4
    <3>2. QED
      BY <3>1
  <2>15. p => v[(lw + 1) + lu] = s
    <3>1. ASSUME p PROVE v[(lw + 1) + lu] = s
      <4>1. lp = 1 /\ vp = v3
        BY <1>13, <2>4, <3>1 DEF Flag, When
      <4>2. PICK i : i = (lw + 1) + lu
        OBVIOUS
      <4>3. i \in 1..(lf + lp) /\ i > lf /\ i - lf = 1
        BY <2>5, <2>7, <4>1, <4>2
      <4>4. v[i] = vp[1]
        BY <2>12, <4>3
      <4>5. QED
        BY <1>8, <4>1, <4>2, <4>4
    <3>2. QED
      BY <3>1
  <2>16. QED
    BY <1>1, <1>2, <2>4, <2>13, <2>14, <2>15, Zenon DEF AnnouncedValues
<1>24. QED
  BY <1>21, <1>22, <1>23

(* The will and the credentials are those that the flags announce.         *)
FlagsFit(c) ==
    /\ c.will = IF HasWill(c.flags)
                THEN [topic |-> c.will.topic, message |-> c.will.message,
                      qos |-> (c.flags \div 8) % 4, retain |-> Bit(c.flags, 32)]
                ELSE NoWill
    /\ c.creds = [user |-> When(HasUserName(c.flags), c.creds.user),
                  password |-> When(HasPassword(c.flags), c.creds.password)]
ConnectWritten ==
    {c \in [tp : {"CONNECT"}, clientID : Text, keepAlive : Num16, clientLevel : {4},
            creds : CredsWritten, will : WillWritten, flags : Byte] : FlagsFit(c)}

LEMMA ConnectIsParsed ==
  ASSUME NEW c \in ConnectWritten
  PROVE  IsParsed(c)
<1>1. PICK flags, keepAlive, clientID, will, creds :
         /\ flags = c.flags /\ keepAlive = c.keepAlive /\ clientID = c.clientID
         /\ will = c.will /\ creds = c.creds
  OBVIOUS
<1>2. /\ flags \in Byte /\ keepAlive \in Num16 /\ clientID \in Text
      /\ will \in WillWritten /\ creds \in CredsWritten /\ c.tp = "CONNECT" /\ c.clientLevel = 4
  BY <1>1 DEF ConnectWritten
<1>3. c = [tp |-> "CONNECT", clientLevel |-> 4, flags |-> flags, keepAlive |-> keepAlive,
           clientID |-> clientID, will |-> will, creds |-> creds]
  BY <1>1 DEF ConnectWritten
<1>4. FlagsFit(c)
  BY DEF ConnectWritten
<1>5. PICK h, a, bs : /\ h = HeadWritten(flags, keepAlive, clientID)
                      /\ a = AnnouncedWritten(flags, will, creds) /\ bs = h \o a
  OBVIOUS
<1>6. PICK hk, hv : /\ hk = <<"string", "byte", "byte", "u16", "string">>
                    /\ hv = <<(<<77, 81, 84, 84>>), 4, flags, keepAlive, clientID>>
  OBVIOUS
<1>7. Reads(hk, hv, h) /\ Len(h) = 12 + Len(clientID)
  BY <1>2, <1>5, <1>6, HeadReads
<1>8. Len(a) = AnnouncedLen(flags, will, creds)
  BY <1>2, <1>5, AnnouncedAreRead
<1>9. PICK v : AnnouncedReads(v, flags, will, creds) /\ AnnouncedValues(v, flags, will, creds)
  BY <1>2, AnnouncedAreRead
<1>10. /\ a \in Bytes
       /\ ReadFields(Announced(flags), a) = [ok |-> TRUE, vals |-> v, rest |-> <<>>]
  BY <1>5, <1>9 DEF AnnouncedReads, ReadsAll
<1>11. h \in Bytes /\ ReadFields(hk, bs) = [ok |-> TRUE, vals |-> hv, rest |-> a]
  BY <1>5, <1>7, <1>10 DEF Reads
<1>12. bs \in Bytes /\ Len(bs) = Len(h) + Len(a)
  BY <1>5, <1>10, <1>11, BytesJoin
<1>13. Body(c) = bs
  <2>1. PICK w, x, y : /\ w = When(HasWill(flags), WriteString(will.topic) \o WriteString(will.message))
                       /\ x = When(HasUserName(flags), WriteString(creds.user))
                       /\ y = When(HasPassword(flags), WriteString(creds.password))
    OBVIOUS
  <2>2. w \in Bytes /\ x \in Bytes /\ y \in Bytes
    <3>1. /\ will.topic \in Text /\ will.message \in Text
          /\ creds.user \in Text /\ creds.password \in Text
      BY <1>2 DEF WillWritten, CredsWritten
    <3>2. /\ WriteString(will.topic) \in Bytes /\ WriteString(will.message) \in Bytes
          /\ WriteString(creds.user) \in Bytes /\ WriteString(creds.password) \in Bytes
      BY <3>1, StringWritten
    <3>3. WriteString(will.topic) \o WriteString(will.message) \in Bytes
      BY <3>2, BytesJoin
    <3>4. <<>> \in Bytes
      BY DEF Bytes
    <3>5. QED
      BY <2>1, <3>2, <3>3, <3>4 DEF When
  <2>3. Body(c) = ConnectBody(c)
    BY <1>2 DEF Body, Empty, IdOnly
  <2>4. ConnectBody(c) = ((h \o w) \o x) \o y
    BY ZenonT(60), <1>1, <1>2, <1>5, <2>1 DEF ConnectBody, HeadWritten
  <2>5. a = (w \o x) \o y
    BY <1>5, <2>1, Zenon DEF AnnouncedWritten
  <2>6. PICK wx \in Bytes : wx = w \o x
    BY <2>2, BytesJoin
  <2>7. (h \o w) \o x = h \o wx
    BY ZenonT(60), <1>11, <2>2, <2>6, JoinThree
  <2>8. (h \o wx) \o y = h \o (wx \o y)
    BY SMTT(30), <1>11, <2>2, JoinThree
  <2>9. QED
    BY <1>5, <2>3, <2>4, <2>5, <2>6, <2>7, <2>8, Zenon
<1>14. PkLen(c) = Len(bs)
  <2>1. PkLen(c) = ConnectLen(c)
    BY <1>2 DEF PkLen, Empty, IdOnly
  <2>2. ConnectLen(c) = 6 + 1 + 1 + 2 + 2 + Len(clientID)
          + Flag(HasWill(flags), 4 + Len(will.topic) + Len(will.message))
          + Flag(HasUserName(flags), 2 + Len(creds.user))
          + Flag(HasPassword(flags), 2 + Len(creds.password))
    BY <1>1, Zenon DEF ConnectLen
  <2>3. PICK w, x, y : /\ w = Flag(HasWill(flags), 4 + Len(will.topic) + Len(will.message))
                       /\ x = Flag(HasUserName(flags), 2 + Len(creds.user))
                       /\ y = Flag(HasPassword(flags), 2 + Len(creds.password))
    OBVIOUS
  <2>4. w \in Nat /\ x \in Nat /\ y \in Nat
    <3>1. /\ will.topic \in Bytes /\ will.message \in Bytes
          /\ creds.user \in Bytes /\ creds.password \in Bytes
      BY <1>2 DEF WillWritten, CredsWritten, Text
    <3>2. PICK lt, lm, lu, lp \in Nat : /\ lt = Len(will.topic) /\ lm = Len(will.message)
                                         /\ lu = Len(creds.user) /\ lp = Len(creds.password)
      BY <3>1, ByteAt
    <3>3. (w = 4 + lt + lm \/ w = 0) /\ (x = 2 + lu \/ x = 0) /\ (y = 2 + lp \/ y = 0)
      BY <2>3, <3>2, Zenon DEF Flag
    <3>4. QED
      BY <3>3
  <2>5. Len(a) = w + x + y
    BY <1>8, <2>3, Zenon DEF AnnouncedLen
  <2>6. ConnectLen(c) = 6 + 1 + 1 + 2 + 2 + Len(clientID) + w + x + y
    BY <2>2, <2>3, Zenon
  <2>7. Len(clientID) \in Nat
    BY <1>2, ByteAt DEF Text
  <2>8. QED
    BY <1>7, <1>12, <2>1, <2>4, <2>5, <2>6, <2>7
<1>15. PICK head, r : head = ReadFields(hk, bs) /\ r = ReadFields(Announced(flags), a)
  OBVIOUS
<1>16. head.ok = TRUE /\ head.vals = hv /\ head.rest = a /\ r.ok = TRUE /\ r.vals = v
  BY <1>10, <1>11, <1>15
<1>17. /\ hv[1] = <<77, 81, 84, 84>> /\ hv[2] = 4 /\ hv[3] = flags /\ hv[4] = keepAlive
       /\ hv[5] = clientID
  BY <1>6
<1>18. ParseConnect(bs)
         = [tp |-> "CONNECT", clientLevel |-> 4, flags |-> flags,
            keepAlive |-> keepAlive, clientID |-> clientID,
            will |-> IF HasWill(flags)
                     THEN [topic |-> v[1], message |-> v[2],
                           qos |-> (flags \div 8) % 4, retain |-> Bit(flags, 32)]
                     ELSE NoWill,
            creds |-> [user |-> When(HasUserName(flags), v[Flag(HasWill(flags), 2) + 1]),
                       password |-> When(HasPassword(flags),
                          v[(Flag(HasWill(flags), 2) + 1) + Flag(HasUserName(flags), 1)])]]
  BY <1>6, <1>15, <1>16, <1>17 DEF ParseConnect
<1>19. (IF HasWill(flags)
        THEN [topic |-> v[1], message |-> v[2],
              qos |-> (flags \div 8) % 4, retain |-> Bit(flags, 32)]
        ELSE NoWill) = will
  BY <1>1, <1>4, <1>9 DEF FlagsFit, AnnouncedValues
<1>20. [user |-> When(HasUserName(flags), v[Flag(HasWill(flags), 2) + 1]),
        password |-> When(HasPassword(flags),
           v[(Flag(HasWill(flags), 2) + 1) + Flag(HasUserName(flags), 1)])] = creds
  BY <1>1, <1>4, <1>9, Zenon DEF FlagsFit, AnnouncedValues, When
<1>21. ParseConnect(bs) = c
  BY <1>3, <1>18, <1>19, <1>20, Zenon
<1>22. PICK f : f = HeaderFlags(c)
  OBVIOUS
<1>23. Parse("CONNECT", f, bs) = ParseConnect(bs)
  BY DEF Parse, Empty, IdOnly
<1>24. OnTheWire(c) = c
  BY <1>2 DEF OnTheWire
<1>25. QED
  BY <1>2, <1>12, <1>13, <1>14, <1>21, <1>22, <1>23, <1>24, Zenon DEF IsParsed

(* The packets that are written.                                           *)
Written ==
    {p \in EmptyPacket \cup IdPacket \cup ConnAckPacket \cup SubAckPacket \cup PublishWritten
             \cup ConnectWritten \cup SubscribeWritten \cup UnsubscribeWritten :
        PkLen(p) < 268435456}

Framed(p) ==
    /\ IsParsed(p) /\ p.tp \in Types /\ (p.tp \in Empty => PkLen(p) = 0)
    /\ HeaderFlags(p) \in Nat /\ HeaderFlags(p) < 16
    /\ PkLen(p) \in Nat /\ PkLen(p) < 268435456

LEMMA WrittenIsFramed ==
  ASSUME NEW p \in Written
  PROVE  Framed(p)
<1>1. /\ PkLen(p) < 268435456
      /\ p \in EmptyPacket \cup IdPacket \cup ConnAckPacket \cup SubAckPacket
                 \cup PublishWritten \cup ConnectWritten \cup SubscribeWritten
                 \cup UnsubscribeWritten
  BY DEF Written
<1>2. IsParsed(p)
  BY <1>1, EmptyIsParsed, IdIsParsed, ConnAckIsParsed, SubAckIsParsed, PublishIsParsed,
     ConnectIsParsed, SubscribeIsParsed, UnsubscribeIsParsed
<1>3. \/ p.tp \in Empty \/ p.tp \in IdOnly \cup {"CONNACK", "SUBACK", "CONNECT"}
      \/ p.tp \in {"SUBSCRIBE", "UNSUBSCRIBE"}
      \/ p.tp = "PUBLISH" /\ p.flags \in Nat /\ p.flags < 16
  BY <1>1 DEF EmptyPacket, IdPacket, ConnAckPacket, SubAckPacket, PublishWritten, ConnectWritten,
              SubscribeWritten, UnsubscribeWritten
<1>4. p.tp \in Types
  BY <1>3 DEF Types, TypeCode, Empty, IdOnly
<1>5. HeaderFlags(p) \in Nat /\ HeaderFlags(p) < 16
  BY <1>3 DEF HeaderFlags, Empty, IdOnly
<1>6. PkLen(p) \in Nat
  <2>1. Body(p) \in Bytes /\ Len(Body(p)) = PkLen(p)
    BY <1>2 DEF IsParsed
  <2>2. QED
    BY <2>1, ByteAt
<1>7. p.tp \in Empty => PkLen(p) = 0
  <2>1. ASSUME p.tp \in Empty PROVE PkLen(p) = 0
    <3>1. p.tp \notin IdOnly \cup {"CONNACK"}
      BY <2>1 DEF Empty, IdOnly
    <3>2. p.tp \notin {"PUBLISH", "CONNECT", "SUBSCRIBE", "UNSUBSCRIBE", "SUBACK"}
      BY <2>1 DEF Empty
    <3>3. QED
      BY <2>1, <3>1, <3>2 DEF PkLen
  <2>2. QED
    BY <2>1
<1>8. QED
  BY <1>1, <1>2, <1>4, <1>5, <1>6, <1>7 DEF Framed

(* The first byte.                                                         *)
LEMMA TypesDiffer ==
  /\ \A tp \in Types : TypeCode[tp] \in Nat /\ TypeCode[tp] < 15
  /\ \A s, t \in Types : TypeCode[s] = TypeCode[t] => s = t
<1>1. Types = {"CONNECT", "CONNACK", "PUBLISH", "PUBACK", "PUBREC", "PUBREL", "PUBCOMP",
               "SUBSCRIBE", "SUBACK", "UNSUBSCRIBE", "UNSUBACK", "PINGREQ", "PINGRESP",
               "DISCONNECT"}
  BY DEF Types, TypeCode
<1>2. PICK code : code = TypeCode
  OBVIOUS
<1>3. /\ code["CONNECT"] = 1 /\ code["CONNACK"] = 2 /\ code["PUBLISH"] = 3
      /\ code["PUBACK"] = 4 /\ code["PUBREC"] = 5 /\ code["PUBREL"] = 6
      /\ code["PUBCOMP"] = 7 /\ code["SUBSCRIBE"] = 8 /\ code["SUBACK"] = 9
      /\ code["UNSUBSCRIBE"] = 10 /\ code["UNSUBACK"] = 11 /\ code["PINGREQ"] = 12
      /\ code["PINGRESP"] = 13 /\ code["DISCONNECT"] = 14
  BY <1>2 DEF TypeCode
<1>4. \A tp \in Types : code[tp] \in Nat /\ code[tp] < 15
  BY <1>1, <1>3
<1>5. \A s, t \in Types : code[s] = code[t] => s = t
  BY <1>1, <1>3
<1>6. QED
  BY <1>2, <1>4, <1>5

LEMMA TypeIsRead ==
  ASSUME NEW tp \in Types, NEW f \in Nat, f < 16, NEW b, b = TypeCode[tp] * 16 + f
  PROVE  b \in Byte /\ Known(b) /\ TypeOf(b) = tp /\ b % 16 = f
<1>1. PICK code : code = TypeCode[tp]
  OBVIOUS
<1>2. code \in Nat /\ code < 15
  BY <1>1, TypesDiffer
<1>3. b = (code * 16) + f
  BY <1>1
<1>4. b \in Nat /\ b < 256 /\ b \div 16 = code /\ b % 16 = f
  BY <1>2, <1>3
<1>5. b \in Byte
  BY <1>4 DEF Byte
<1>6. Known(b)
  BY <1>1, <1>4 DEF Known
<1>7. TypeOf(b) = tp
  BY <1>1, <1>4, TypesDiffer DEF TypeOf
<1>8. QED
  BY <1>4, <1>5, <1>6, <1>7

(* The packet of this type and flags, after its length, which says so many *)
(* bytes, was read.                                                        *)
Unpacked(reader, tp, f, length, taken) ==
    IF ~Accepts(reader, tp) \/ ~length.ok \/ taken > Len(length.rest)
    THEN [p |-> Error]
    ELSE [p |-> Parse(tp, f, SubSeq(length.rest, 1, taken)),
          rest |-> SubSeq(length.rest, taken + 1, Len(length.rest))]
Taken(tp, length) == IF tp \in Empty THEN 0 ELSE length.v

LEMMA PacketIsRead ==
  ASSUME NEW tp \in Types, NEW f \in Nat, f < 16, NEW reader, NEW w \in Bytes,
         NEW b, b = TypeCode[tp] * 16 + f,
         NEW length, length = ReadVarInt(w),
         NEW taken, taken = Taken(tp, length)
  PROVE  ReadPacket(reader, <<b>> \o w) = Unpacked(reader, tp, f, length, taken)
<1>2. b \in Byte /\ Known(b) /\ TypeOf(b) = tp /\ b % 16 = f
  BY TypeIsRead
<1>3. PICK bs : bs = <<b>> \o w
  OBVIOUS
<1>4. Prefixed(bs, b, w)
  BY <1>2, <1>3, ByteFirst
<1>5. /\ bs \in Bytes /\ Len(bs) = Len(w) + 1 /\ bs[1] = b
      /\ \A i \in 1..Len(w) : bs[i + 1] = w[i]
  BY <1>4 DEF Prefixed
<1>6. Len(w) \in Nat
  BY ByteAt
<1>7. bs # <<>>
  BY <1>5, <1>6
<1>8. Tail(bs) = w
  <2>1. PICK t : t = Tail(bs)
    OBVIOUS
  <2>2. t \in Bytes /\ Len(t) = Len(bs) - 1
    BY <1>5, <1>7, <2>1, HeadTailProperties DEF Bytes
  <2>3. \A i \in 1..Len(t) : t[i] = bs[i + 1]
    BY <1>5, <1>7, <2>1, HeadTailProperties DEF Bytes
  <2>4. Len(t) = Len(w)
    BY <1>5, <1>6, <2>2
  <2>5. \A i \in 1..Len(t) : t[i] = w[i]
    BY <1>5, <2>3, <2>4
  <2>6. QED
    BY <2>1, <2>2, <2>4, <2>5, SameBytes
<1>9. QED
  BY ZenonT(60), <1>2, <1>3, <1>5, <1>7, <1>8 DEF ReadPacket, Unpacked, Taken

(* A packet is read as it was written, by whom it is for, whatever follows *)
(* it: the length that Write computes is that of what it writes, for every *)
(* content and every length below 2^28.                                    *)
THEOREM WrittenPacketsAreRead ==
  ASSUME NEW p \in Written, NEW reader \in Readers, NEW more \in Bytes
  PROVE  ReadPacket(reader, Write(p) \o more)
           = IF Accepts(reader, p.tp) THEN [p |-> OnTheWire(p), rest |-> more]
             ELSE [p |-> Error]
<1>1. PICK tp, f, n, body : tp = p.tp /\ f = HeaderFlags(p) /\ n = PkLen(p) /\ body = Body(p)
  OBVIOUS
<1>2. /\ tp \in Types /\ (tp \in Empty => n = 0) /\ f \in Nat /\ f < 16
      /\ n \in Nat /\ n < 268435456
  BY <1>1, WrittenIsFramed DEF Framed
<1>3. body \in Bytes /\ Len(body) = n /\ Parse(tp, f, body) = OnTheWire(p)
  BY <1>1, WrittenIsFramed DEF Framed, IsParsed
<1>4. PICK l : l = WriteVarInt[n]
  OBVIOUS
<1>5. l \in Bytes
  BY <1>2, <1>4, VarIntEquation
<1>6. PICK b : b = TypeCode[tp] * 16 + f
  OBVIOUS
<1>7. PICK h : h = <<b>>
  OBVIOUS
<1>8. h \in Bytes
  <2>1. b \in Byte
    BY <1>2, <1>6, TypeIsRead
  <2>2. QED
    BY <1>7, <2>1 DEF Bytes
<1>9. Write(p) = (h \o l) \o body
  BY <1>1, <1>4, <1>6, <1>7 DEF Write
<1>10. PICK rest \in Bytes : rest = body \o more /\ Len(rest) = n + Len(more)
  BY <1>3, BytesJoin
<1>11. PICK w \in Bytes : w = l \o rest
  BY <1>5, BytesJoin
<1>12. Write(p) \o more = h \o w
  <2>1. PICK hl \in Bytes : hl = h \o l
    BY <1>5, <1>8, BytesJoin
  <2>2. (hl \o body) \o more = hl \o rest
    BY ZenonT(60), <1>3, <1>10, JoinThree
  <2>3. (h \o l) \o rest = h \o w
    BY ZenonT(60), <1>5, <1>8, <1>11, JoinThree
  <2>4. QED
    BY <1>9, <2>1, <2>2, <2>3, Zenon
<1>13. PICK length : length = ReadVarInt(w)
  OBVIOUS
<1>14. length = [ok |-> TRUE, rest |-> rest, v |-> n]
  BY <1>2, <1>4, <1>11, <1>13, LengthsAreRead
<1>15. length.ok = TRUE /\ length.rest = rest /\ length.v = n
  BY <1>14
<1>16. SubSeq(rest, 1, n) = body /\ SubSeq(rest, n + 1, Len(rest)) = more
  BY <1>3, <1>10, BytesTaken
<1>17. n = Taken(tp, length)
  BY <1>2, <1>15 DEF Taken
<1>18. ~(n > Len(rest))
  <2>1. Len(more) \in Nat
    BY ByteAt
  <2>2. QED
    BY <1>2, <1>10, <2>1
<1>19. ReadPacket(reader, h \o w) = Unpacked(reader, tp, f, length, n)
  BY <1>2, <1>6, <1>7, <1>13, <1>17, PacketIsRead
<1>20. ReadPacket(reader, h \o w)
         = IF Accepts(reader, tp) THEN [p |-> OnTheWire(p), rest |-> more] ELSE [p |-> Error]
  BY <1>3, <1>15, <1>16, <1>18, <1>19 DEF Unpacked
<1>21. QED
  BY <1>1, <1>12, <1>20, Zenon

(* The first bytes of a string, and of one string after another.           *)
LEMMA FirstBytes ==
  ASSUME NEW a \in Bytes, NEW k \in 0..Len(a)
  PROVE  /\ SubSeq(a, 1, k) \in Bytes /\ Len(SubSeq(a, 1, k)) = k
         /\ \A i \in 1..k : SubSeq(a, 1, k)[i] = a[i]
<1>1. Len(a) \in Nat
  BY ByteAt
<1>2. PICK one \in Nat : one = 1
  OBVIOUS
<1>3. one \in Int /\ k \in Int
  BY <1>1, <1>2
<1>4. \A i \in one..k : a[i] \in Byte
  <2>1. one..k \subseteq 1..Len(a)
    BY <1>1, <1>2
  <2>2. QED
    BY <2>1, ByteAt
<1>5. PICK t : t = SubSeq(a, one, k)
  OBVIOUS
<1>6. t \in Bytes
  BY <1>3, <1>4, <1>5, SubSeqProperties DEF Bytes
<1>7. Len(t) = IF one <= k THEN k - one + 1 ELSE 0
  BY <1>3, <1>4, <1>5, SubSeqProperties DEF Bytes
<1>8. \A i \in 1..(k - one + 1) : t[i] = a[one + i - 1]
  BY <1>3, <1>4, <1>5, SubSeqProperties DEF Bytes
<1>9. Len(t) = k
  BY <1>1, <1>2, <1>7
<1>10. ASSUME NEW i \in 1..k PROVE t[i] = a[i]
  <2>1. i \in 1..(k - one + 1) /\ one + i - 1 = i
    BY <1>1, <1>2
  <2>2. QED
    BY <1>8, <2>1
<1>11. QED
  BY <1>2, <1>5, <1>6, <1>9, <1>10

LEMMA FirstOfTwo ==
  ASSUME NEW a \in Bytes, NEW b \in Bytes, NEW k \in 0..Len(a \o b)
  PROVE  SubSeq(a \o b, 1, k) = IF k <= Len(a) THEN SubSeq(a, 1, k)
                                ELSE a \o SubSeq(b, 1, k - Len(a))
<1>1. PICK m, n : m = Len(a) /\ n = Len(b)
  OBVIOUS
<1>2. m \in Nat /\ n \in Nat
  BY <1>1, ByteAt
<1>3. PICK s \in Bytes : s = a \o b /\ Len(s) = m + n
  BY <1>1, BytesJoin
<1>4. PICK t : t = SubSeq(s, 1, k)
  OBVIOUS
<1>5. k \in 0..Len(s)
  BY <1>3
<1>6. t \in Bytes /\ Len(t) = k /\ \A i \in 1..k : t[i] = s[i]
  BY <1>4, <1>5, FirstBytes
<1>7. \A i \in 1..m : s[i] = a[i]
  BY <1>1, <1>3, JoinedFirst
<1>8. CASE k <= m
  <2>1. PICK u : u = SubSeq(a, 1, k)
    OBVIOUS
  <2>2. k \in 0..Len(a)
    BY <1>1, <1>2, <1>5, <1>8
  <2>3. u \in Bytes /\ Len(u) = k /\ \A i \in 1..k : u[i] = a[i]
    BY <2>1, <2>2, FirstBytes
  <2>4. \A i \in 1..Len(t) : t[i] = u[i]
    BY <1>2, <1>5, <1>6, <1>7, <1>8, <2>3
  <2>5. t = u
    BY <1>6, <2>3, <2>4, SameBytes
  <2>6. QED
    BY <1>1, <1>3, <1>4, <1>8, <2>1, <2>5
<1>9. CASE ~(k <= m)
  <2>1. PICK j : j = k - m
    OBVIOUS
  <2>2. j \in 0..Len(b) /\ m + j = k /\ j \in Nat
    BY <1>1, <1>2, <1>3, <1>5, <1>9, <2>1
  <2>3. PICK c : c = SubSeq(b, 1, j)
    OBVIOUS
  <2>4. c \in Bytes /\ Len(c) = j /\ \A i \in 1..j : c[i] = b[i]
    BY <2>2, <2>3, FirstBytes
  <2>5. PICK u \in Bytes : u = a \o c /\ Len(u) = m + j
    BY <1>1, <2>4, BytesJoin
  <2>6. ASSUME NEW i \in 1..Len(t) PROVE t[i] = u[i]
    <3>1. i \in 1..k /\ t[i] = s[i]
      BY <1>6
    <3>2. CASE i <= m
      <4>1. i \in 1..Len(a)
        BY <1>1, <1>2, <3>1, <3>2
      <4>2. u[i] = a[i]
        BY <2>4, <2>5, <4>1, JoinedFirst
      <4>3. s[i] = a[i]
        BY <1>1, <1>7, <4>1
      <4>4. QED
        BY <3>1, <4>2, <4>3
    <3>3. CASE ~(i <= m)
      <4>1. PICK x : x = i - m
        OBVIOUS
      <4>2. x \in 1..j /\ x \in 1..Len(b) /\ x \in 1..Len(c) /\ m + x = i
        BY <1>1, <1>2, <1>9, <2>1, <2>2, <2>4, <3>1, <3>3, <4>1
      <4>3. u[i] = c[x]
        BY SMTT(30), <1>1, <2>4, <2>5, <4>2, JoinedSecond
      <4>4. s[i] = b[x]
        BY <1>1, <1>3, <4>2, JoinedSecond
      <4>5. QED
        BY <2>4, <3>1, <4>2, <4>3, <4>4
    <3>4. QED
      BY <3>2, <3>3
  <2>7. Len(t) = Len(u)
    BY <1>6, <2>2, <2>5
  <2>8. t = u
    BY <1>6, <2>6, <2>7, SameBytes
  <2>9. QED
    BY <1>1, <1>3, <1>4, <1>9, <2>1, <2>3, <2>5, <2>8
<1>10. QED
  BY <1>8, <1>9

(* However a packet breaks off, nothing is read.                           *)
THEOREM BrokenPacketsAreNotRead ==
  ASSUME NEW p \in Written, NEW reader \in Readers, NEW k \in 0..(Len(Write(p)) - 1)
  PROVE  /\ Write(p) \in Bytes
         /\ ReadPacket(reader, SubSeq(Write(p), 1, k)) = [p |-> Error]
<1>1. PICK tp, f, n, body : tp = p.tp /\ f = HeaderFlags(p) /\ n = PkLen(p) /\ body = Body(p)
  OBVIOUS
<1>2. /\ tp \in Types /\ (tp \in Empty => n = 0) /\ f \in Nat /\ f < 16
      /\ n \in Nat /\ n < 268435456
  BY <1>1, WrittenIsFramed DEF Framed
<1>3. body \in Bytes /\ Len(body) = n
  BY <1>1, WrittenIsFramed DEF Framed, IsParsed
<1>4. PICK l, j : l = WriteVarInt[n] /\ j = Len(l)
  OBVIOUS
<1>5. l \in Bytes /\ j \in Nat
  BY <1>2, <1>4, VarIntEquation, ByteAt
<1>6. PICK b : b = TypeCode[tp] * 16 + f
  OBVIOUS
<1>7. PICK h : h = <<b>>
  OBVIOUS
<1>8. h \in Bytes /\ Len(h) = 1
  <2>1. b \in Byte
    BY <1>2, <1>6, TypeIsRead
  <2>2. QED
    BY <1>7, <2>1 DEF Bytes
<1>9. Write(p) = (h \o l) \o body
  BY <1>1, <1>4, <1>6, <1>7 DEF Write
<1>10. PICK w \in Bytes : w = l \o body /\ Len(w) = j + n
  BY <1>3, <1>4, <1>5, BytesJoin
<1>11. Write(p) = h \o w
  BY <1>3, <1>5, <1>8, <1>9, <1>10, JoinThree
<1>12. PICK bs \in Bytes : bs = h \o w /\ Len(bs) = 1 + j + n
  <2>1. h \o w \in Bytes /\ Len(h \o w) = Len(h) + Len(w)
    BY <1>8, BytesJoin
  <2>2. Len(h) + Len(w) = 1 + j + n
    BY <1>2, <1>5, <1>8, <1>10
  <2>3. QED
    BY <2>1, <2>2
<1>13. k \in 0..(j + n)
  BY <1>2, <1>5, <1>11, <1>12
<1>14. CASE k = 0
  <2>1. PICK none : none = SubSeq(bs, 1, k)
    OBVIOUS
  <2>2. none \in Bytes /\ Len(none) = 0
    <3>1. k \in 0..Len(bs)
      BY <1>2, <1>5, <1>12, <1>13
    <3>2. QED
      BY <1>14, <2>1, <3>1, FirstBytes
  <2>3. none = <<>>
    BY <2>2, EmptySeq DEF Bytes
  <2>4. ReadPacket(reader, <<>>) = [p |-> Error]
    BY DEF ReadPacket
  <2>5. QED
    BY <1>11, <1>12, <2>1, <2>3, <2>4
<1>15. CASE k # 0
  <2>1. PICK i : i = k - 1
    OBVIOUS
  <2>2. i \in 0..(j + n) /\ i < j + n /\ i \in Nat
    BY <1>2, <1>5, <1>13, <1>15, <2>1
  <2>3. PICK v : v = SubSeq(w, 1, i)
    OBVIOUS
  <2>4. v \in Bytes /\ Len(v) = i /\ \A x \in 1..i : v[x] = w[x]
    BY <1>10, <2>2, <2>3, FirstBytes
  <2>5. SubSeq(bs, 1, k) = h \o v
    <3>1. k \in 0..Len(h \o w)
      BY <1>2, <1>5, <1>12, <1>13
    <3>2. SubSeq(h \o w, 1, k) = IF k <= Len(h) THEN SubSeq(h, 1, k)
                                 ELSE h \o SubSeq(w, 1, k - Len(h))
      BY <1>8, <3>1, FirstOfTwo
    <3>3. CASE k = 1
      <4>1. SubSeq(h \o w, 1, k) = SubSeq(h, 1, 1)
        <5>1. k <= Len(h)
          BY <1>8, <3>3
        <5>2. QED
          BY <3>2, <3>3, <5>1, Zenon
      <4>2. SubSeq(h, 1, 1) = h
        <5>1. PICK one : one = 1
          OBVIOUS
        <5>2. one \in 0..Len(h)
          BY <1>8, <5>1
        <5>3. PICK g : g = SubSeq(h, 1, one)
          OBVIOUS
        <5>4. g \in Bytes /\ Len(g) = one /\ \A x \in 1..one : g[x] = h[x]
          BY <1>8, <5>2, <5>3, FirstBytes
        <5>5. g = h
          BY <1>8, <5>1, <5>4, SameBytes
        <5>6. QED
          BY <5>1, <5>3, <5>5
      <4>3. v = <<>>
        BY <2>1, <2>4, <3>3, EmptySeq DEF Bytes
      <4>4. h \o <<>> = h
        BY <1>8, JoinNothing
      <4>5. QED
        BY <1>12, <4>1, <4>2, <4>3, <4>4
    <3>4. CASE k # 1
      <4>1. ~(k <= Len(h)) /\ k - Len(h) = i
        BY <1>8, <1>13, <1>15, <2>1, <3>4
      <4>2. QED
        BY <1>12, <2>3, <3>2, <4>1
    <3>5. QED
      BY <3>3, <3>4
  <2>6. PICK length : length = ReadVarInt(v)
    OBVIOUS
  <2>7. PICK taken : taken = Taken(tp, length)
    OBVIOUS
  <2>8. ReadPacket(reader, h \o v) = Unpacked(reader, tp, f, length, taken)
    BY <1>2, <1>6, <1>7, <2>4, <2>6, <2>7, PacketIsRead
  <2>9. Unpacked(reader, tp, f, length, taken) = [p |-> Error]
    <3>1. i \in 0..Len(l \o body)
      BY <1>10, <2>2
    <3>2. v = IF i <= j THEN SubSeq(l, 1, i) ELSE l \o SubSeq(body, 1, i - j)
      <4>1. SubSeq(l \o body, 1, i) = IF i <= Len(l) THEN SubSeq(l, 1, i)
                                      ELSE l \o SubSeq(body, 1, i - Len(l))
        BY <1>3, <1>5, <3>1, FirstOfTwo
      <4>2. QED
        BY <1>4, <1>10, <2>3, <4>1, Zenon
    <3>3. CASE i < j
      <4>1. \A x \in 1..i : w[x] = l[x]
        <5>1. \A x \in 1..j : w[x] = l[x]
          BY <1>3, <1>4, <1>5, <1>10, JoinedFirst
        <5>2. QED
          BY <1>5, <2>2, <3>3, <5>1
      <4>2. \A x \in 1..(j - 1) : l[x] >= 128
        <5>1. IsLength(l, n)
          BY <1>2, <1>4, LengthsAreWritten
        <5>2. \E d \in Nat : Digits(l, d)
          BY <5>1 DEF IsLength
        <5>3. QED
          BY <1>4, <5>2 DEF Digits
      <4>3. \A x \in 1..Len(v) : v[x] >= 128
        BY <1>5, <2>2, <2>4, <3>3, <4>1, <4>2
      <4>4. length = [ok |-> FALSE]
        BY <2>4, <2>6, <4>3, NoDigits
      <4>5. ~length.ok
        BY <4>4
      <4>6. QED
        BY <4>5 DEF Unpacked
    <3>4. CASE ~(i < j)
      <4>1. PICK m \in Nat : m = i - j /\ m < n
        BY <1>2, <1>5, <2>2, <3>4
      <4>2. PICK c : c = SubSeq(body, 1, m)
        OBVIOUS
      <4>3. m \in 0..Len(body)
        BY <1>2, <1>3, <4>1
      <4>4. c \in Bytes /\ Len(c) = m
        BY <1>3, <4>2, <4>3, FirstBytes
      <4>5. v = l \o c
        <5>1. CASE i = j
          <6>1. v = SubSeq(l, 1, j)
            BY <1>5, <3>2, <5>1
          <6>2. j \in 0..Len(l)
            BY <1>4, <1>5
          <6>3. PICK g : g = SubSeq(l, 1, j)
            OBVIOUS
          <6>4. g \in Bytes /\ Len(g) = j /\ \A x \in 1..j : g[x] = l[x]
            BY <1>5, <6>2, <6>3, FirstBytes
          <6>5. g = l
            BY <1>4, <1>5, <6>4, SameBytes
          <6>6. m = 0
            BY <1>5, <4>1, <5>1
          <6>7. c = <<>>
            BY <4>4, <6>6, EmptySeq DEF Bytes
          <6>8. l \o <<>> = l
            BY <1>5, JoinNothing
          <6>9. QED
            BY <6>1, <6>3, <6>5, <6>7, <6>8
        <5>2. CASE i # j
          <6>1. ~(i <= j)
            BY <1>5, <2>2, <3>4, <5>2
          <6>2. QED
            BY <3>2, <4>1, <4>2, <6>1
        <5>3. QED
          BY <5>1, <5>2
      <4>6. length = [ok |-> TRUE, rest |-> c, v |-> n]
        BY <1>2, <1>4, <2>6, <4>4, <4>5, LengthsAreRead
      <4>7. taken = n
        BY <1>2, <2>7, <4>6 DEF Taken
      <4>8. taken > Len(length.rest)
        BY <1>2, <4>1, <4>4, <4>6, <4>7
      <4>9. QED
        BY <4>8 DEF Unpacked
    <3>5. QED
      BY <3>3, <3>4
  <2>10. QED
    BY <1>11, <1>12, <2>5, <2>8, <2>9
<1>16. Write(p) \in Bytes
  BY <1>11, <1>12
<1>17. QED
  BY <1>14, <1>15, <1>16

-----------------------------------------------------------------------------
(* The read loop: at each place, what it handles is what it reads there    *)
(* and, unless that ends it, what it handles from there on.                *)
Got(x) == ReadPacket(x[1], x[2])
Fails(x) == Got(x).p.tp = "error"
Onward(x) == <<After(x[1]), Got(x).rest>>
LoopBody(x, g) ==
    IF Fails(x) THEN <<>> ELSE <<Got(x).p>> \o When(~Ends(x[1], Got(x).p), g[Onward(x)])

(* What follows a length is shorter than the length with it.               *)
LengthRead(length, bs) ==
    length.ok => /\ length.rest \in Bytes /\ Len(length.rest) <= Len(bs) /\ length.v \in Nat

LEMMA LengthIsTyped ==
  ASSUME NEW bs \in Bytes
  PROVE  LengthRead(ReadVarInt(bs), bs)
<1>1. PICK ends : ends = {i \in DOMAIN bs : i <= Len(Weights) /\ bs[i] < 128}
  OBVIOUS
<1>2. PICK n : n = CHOOSE i \in ends : \A j \in ends : i <= j
  OBVIOUS
<1>3. PICK length : length = ReadVarInt(bs)
  OBVIOUS
<1>4. CASE ends = {}
  <2>1. length = [ok |-> FALSE]
    BY <1>1, <1>3, <1>4 DEF ReadVarInt
  <2>2. ~length.ok
    BY <2>1
  <2>3. QED
    BY <1>3, <2>2 DEF LengthRead
<1>5. CASE ends # {}
  <2>1. Len(bs) \in Nat /\ DOMAIN bs = 1..Len(bs)
    BY ByteAt DEF Bytes
  <2>2. \E i \in ends : \A j \in ends : i <= j
    <3>1. ends \subseteq Nat
      BY <1>1, <2>1
    <3>2. IsWellFoundedOn(Less, Nat)
      BY NatLessThanWellFounded DEF OpToRel, Less
    <3>3. PICK i \in ends : \A j \in ends : <<j, i>> \notin Less
      BY <1>5, <3>1, <3>2, WFMin
    <3>4. ASSUME NEW j \in ends PROVE i <= j
      <4>1. i \in Nat /\ j \in Nat
        BY <3>1
      <4>2. ~(j < i)
        BY <3>3, <4>1 DEF Less
      <4>3. QED
        BY <4>1, <4>2
    <3>5. QED
      BY <3>4
  <2>3. n \in ends
    BY <1>2, <2>2
  <2>4. n \in 1..Len(bs) /\ n <= 4
    <3>1. Len(Weights) = 4
      BY DEF Weights
    <3>2. QED
      BY <1>1, <2>1, <2>3, <3>1
  <2>5. PICK ns : ns = Weighed(bs, n)
    OBVIOUS
  <2>6. length = [ok |-> TRUE, rest |-> SubSeq(bs, n + 1, Len(bs)), v |-> Total(ns)]
    BY <1>1, <1>2, <1>3, <1>5, <2>5 DEF ReadVarInt, Weighed
  <2>7. Total(ns) \in Nat
    <3>1. n \in 1..4
      BY <2>1, <2>4
    <3>2. ASSUME NEW i \in 1..n PROVE (bs[i] % 128) * Weights[i] \in Nat
      <4>1. bs[i] \in Byte
        <5>1. i \in 1..Len(bs)
          BY <2>1, <2>4
        <5>2. QED
          BY <5>1, ByteAt
      <4>2. PICK d, m : d = bs[i] % 128 /\ m = Weights[i]
        OBVIOUS
      <4>3. d \in Nat
        BY <4>1, <4>2, ByteIsNat
      <4>4. m \in Nat
        <5>1. i \in {1, 2, 3, 4}
          BY <3>1
        <5>2. QED
          BY <4>2, <5>1 DEF Weights
      <4>5. d * m \in Nat
        BY <4>3, <4>4
      <4>6. QED
        BY <4>2, <4>5
    <3>3. ns \in [1..n -> Nat]
      BY <2>5, <3>2 DEF Weighed
    <3>4. PICK k \in Nat : k = n
      BY <3>1
    <3>5. LastAdded(ns) \in [0..k -> Nat] /\ Len(ns) = k
      BY <3>3, <3>4, AddedStepByStep
    <3>6. QED
      BY <3>5 DEF Total
  <2>8. PICK rest : rest = SubSeq(bs, n + 1, Len(bs))
    OBVIOUS
  <2>9. rest \in Bytes /\ Len(rest) <= Len(bs)
    <3>1. PICK m, l : m = n + 1 /\ l = Len(bs)
      OBVIOUS
    <3>2. m \in Int /\ l \in Int /\ m \in Nat /\ m >= 1 /\ l \in Nat /\ l <= Len(bs)
      BY <2>1, <2>4, <3>1
    <3>3. \A i \in m..l : bs[i] \in Byte
      <4>1. m..l \subseteq 1..Len(bs)
        BY <2>1, <2>4, <3>1
      <4>2. QED
        BY <4>1, ByteAt
    <3>4. rest \in Bytes /\ Len(rest) = IF m <= l THEN l - m + 1 ELSE 0
      BY <2>8, <3>1, <3>2, <3>3, SubSeqProperties DEF Bytes
    <3>5. n \in Nat /\ n >= 1
      BY <2>1, <2>4
    <3>6. PICK k : k = Len(rest)
      OBVIOUS
    <3>7. k = IF m <= l THEN l - m + 1 ELSE 0
      BY <3>4, <3>6
    <3>8. k <= l
      BY <3>1, <3>2, <3>5, <3>7
    <3>9. QED
      BY <3>1, <3>4, <3>6, <3>8
  <2>10. length.rest = rest /\ length.v = Total(ns)
    BY <2>6, <2>8
  <2>11. LengthRead(length, bs)
    BY <2>7, <2>9, <2>10 DEF LengthRead
  <2>12. QED
    BY <1>3, <2>11
<1>6. QED
  BY <1>4, <1>5

Places == Readers \X Bytes

LEMMA LoopGoesOn ==
  ASSUME NEW x \in Places, ~Fails(x)
  PROVE  Onward(x) \in Places /\ Len(Onward(x)[2]) < Len(x[2])
<1>1. PICK reader, bs : reader = x[1] /\ bs = x[2]
  OBVIOUS
<1>2. reader \in Readers /\ bs \in Bytes
  BY <1>1 DEF Places
<1>3. After(reader) \in Readers
  BY <1>2 DEF After, Readers
<1>4. PICK tp, length, taken :
         tp = TypeOf(bs[1]) /\ length = ReadVarInt(Tail(bs)) /\ taken = Taken(tp, length)
  OBVIOUS
<1>5. PICK r : r = Got(x)
  OBVIOUS
<1>6. r.p.tp # "error"
  BY <1>5 DEF Fails
<1>7. /\ bs # <<>> /\ length.ok /\ ~(taken > Len(length.rest))
      /\ r.rest = SubSeq(length.rest, taken + 1, Len(length.rest))
  <2>1. r = IF bs = <<>> \/ ~Known(bs[1]) \/ ~Accepts(reader, tp) \/ ~length.ok
               \/ taken > Len(length.rest)
            THEN [p |-> Error]
            ELSE [p |-> Parse(tp, bs[1] % 16, SubSeq(length.rest, 1, taken)),
                  rest |-> SubSeq(length.rest, taken + 1, Len(length.rest))]
    BY <1>1, <1>4, <1>5 DEF Got, ReadPacket, Taken
  <2>2. ~(bs = <<>> \/ ~Known(bs[1]) \/ ~Accepts(reader, tp) \/ ~length.ok
            \/ taken > Len(length.rest))
    <3>1. ASSUME r = [p |-> Error] PROVE FALSE
      <4>1. r.p.tp = "error"
        BY <3>1 DEF Error
      <4>2. QED
        BY <1>6, <4>1
    <3>2. QED
      BY <2>1, <3>1
  <2>3. QED
    BY <2>1, <2>2
<1>8. PICK t : t = Tail(bs)
  OBVIOUS
<1>9. t \in Bytes /\ Len(t) = Len(bs) - 1 /\ Len(bs) \in Nat
  BY <1>2, <1>7, <1>8, HeadTailProperties, LenProperties DEF Bytes
<1>10. length.rest \in Bytes /\ Len(length.rest) <= Len(t) /\ length.v \in Nat
  BY <1>4, <1>7, <1>8, <1>9, LengthIsTyped DEF LengthRead
<1>11. taken \in Nat
  BY <1>4, <1>10 DEF Taken
<1>12. PICK lr : lr = length.rest
  OBVIOUS
<1>13. r.rest \in Bytes /\ Len(r.rest) <= Len(lr)
  <2>1. Len(lr) \in Nat
    BY <1>10, <1>12, ByteAt
  <2>2. PICK m, l : m = taken + 1 /\ l = Len(lr)
    OBVIOUS
  <2>3. m \in Int /\ l \in Int
    BY <1>11, <2>1, <2>2
  <2>4. \A i \in m..l : lr[i] \in Byte
    <3>1. m..l \subseteq 1..Len(lr)
      BY <1>11, <2>1, <2>2
    <3>2. QED
      BY <1>10, <1>12, <3>1, ByteAt
  <2>5. PICK rest : rest = SubSeq(lr, m, l)
    OBVIOUS
  <2>6. rest \in Bytes /\ Len(rest) = IF m <= l THEN l - m + 1 ELSE 0
    BY <2>3, <2>4, <2>5, SubSeqProperties DEF Bytes
  <2>7. r.rest = rest
    BY <1>7, <1>12, <2>2, <2>5
  <2>8. Len(rest) <= Len(lr)
    BY <1>11, <2>1, <2>2, <2>6
  <2>9. QED
    BY <2>6, <2>7, <2>8
<1>14. Len(r.rest) < Len(bs)
  <2>1. Len(r.rest) \in Nat /\ Len(lr) \in Nat
    BY <1>10, <1>12, <1>13, ByteAt
  <2>2. QED
    BY <1>9, <1>10, <1>12, <1>13, <2>1
<1>15. Onward(x) = <<After(reader), r.rest>>
  BY <1>1, <1>5 DEF Onward
<1>16. QED
  BY <1>1, <1>3, <1>13, <1>14, <1>15 DEF Places

(* The packets read at some place.                                         *)
Found == {Got(x).p : x \in Places}

LEMMA LoopBodyIsTyped ==
  ASSUME NEW x \in Places, NEW g \in [Places -> Seq(Found)]
  PROVE  LoopBody(x, g) \in Seq(Found)
<1>1. CASE Fails(x)
  BY <1>1 DEF LoopBody
<1>2. CASE ~Fails(x)
  <2>1. PICK p, y : p = Got(x).p /\ y = Onward(x)
    OBVIOUS
  <2>2. p \in Found /\ y \in Places
    BY <1>2, <2>1, LoopGoesOn DEF Found
  <2>3. PICK s, t : s = <<p>> /\ t = When(~Ends(x[1], p), g[y])
    OBVIOUS
  <2>4. s \in Seq(Found)
    BY <2>2, <2>3
  <2>5. t \in Seq(Found)
    <3>1. g[y] \in Seq(Found) /\ <<>> \in Seq(Found)
      BY <2>2
    <3>2. t = g[y] \/ t = <<>>
      BY <2>3, Zenon DEF When
    <3>3. QED
      BY <3>1, <3>2
  <2>6. s \o t \in Seq(Found)
    BY <2>4, <2>5, ConcatProperties
  <2>7. LoopBody(x, g) = s \o t
    BY <1>2, <2>1, <2>3, Zenon DEF LoopBody
  <2>8. QED
    BY <2>6, <2>7
<1>3. QED
  BY <1>1, <1>2

LEMMA ReadLoopEquation ==
  ASSUME NEW x \in Places
  PROVE  ReadLoop[x] = LoopBody(x, ReadLoop)
<1> DEFINE Eq(f) == f = [y \in Places |-> LoopBody(y, f)]
<1>1. PICK All : All = [Places -> Seq(Found)]
  OBVIOUS
<1>2. PICK step : step = [g \in All |-> [y \in Places |-> LoopBody(y, g)]]
  OBVIOUS
<1>3. ASSUME NEW g \in All
      PROVE  /\ step[g] \in All /\ step[g] = [y \in Places |-> LoopBody(y, g)]
             /\ \A y \in Places : step[g][y] = LoopBody(y, g)
  <2>1. step[g] = [y \in Places |-> LoopBody(y, g)]
    BY <1>2
  <2>2. \A y \in Places : LoopBody(y, g) \in Seq(Found)
    BY <1>1, LoopBodyIsTyped
  <2>3. QED
    BY <1>1, <2>1, <2>2
<1>4. step \in [All -> All]
  <2>1. \A g \in All : [y \in Places |-> LoopBody(y, g)] \in All
    BY <1>3
  <2>2. QED
    BY <1>2, <2>1
<1>5. PICK size : size = [y \in Places |-> Len(y[2])]
  OBVIOUS
<1>6. size \in [Places -> Nat] /\ \A y \in Places : size[y] = Len(y[2])
  <2>1. \A y \in Places : y[2] \in Bytes
    BY DEF Places
  <2>2. \A y \in Places : Len(y[2]) \in Nat
    BY <2>1, ByteAt
  <2>3. QED
    BY <1>5, <2>2
<1>7. PICK first : first = [y \in Places |-> <<>>]
  OBVIOUS
<1>8. first \in All
  BY <1>1, <1>7
<1>9. ASSUME NEW g \in All, NEW h \in All, NEW y \in Places,
             \A z \in Places : size[z] < size[y] => g[z] = h[z]
      PROVE  step[g][y] = step[h][y]
  <2>1. LoopBody(y, g) = LoopBody(y, h)
    <3>1. CASE Fails(y)
      BY <3>1 DEF LoopBody
    <3>2. CASE ~Fails(y)
      <4>1. PICK z : z = Onward(y)
        OBVIOUS
      <4>2. z \in Places /\ Len(z[2]) < Len(y[2])
        BY <3>2, <4>1, LoopGoesOn
      <4>3. g[z] = h[z]
        BY <1>6, <1>9, <4>2
      <4>4. QED
        BY <4>1, <4>3, Zenon DEF LoopBody
    <3>3. QED
      BY <3>1, <3>2
  <2>2. step[g] = [z \in Places |-> LoopBody(z, g)]
    BY <1>3
  <2>3. step[h] = [z \in Places |-> LoopBody(z, h)]
    BY <1>3
  <2>4. step[g][y] = LoopBody(y, g) /\ step[h][y] = LoopBody(y, h)
    BY <2>2, <2>3
  <2>5. QED
    BY <2>1, <2>4
<1>10. \E f \in All : f = step[f]
  <2>1. /\ size \in [Places -> Nat] /\ first \in [Places -> Seq(Found)]
        /\ step \in [[Places -> Seq(Found)] -> [Places -> Seq(Found)]]
    BY <1>1, <1>4, <1>6, <1>8
  <2>2. FromSmaller(Places, Seq(Found), size, first, step)
    BY <1>1, <1>9, <2>1 DEF FromSmaller
  <2>3. QED
    BY <1>1, <2>2, Tables
<1>11. PICK f \in All : f = step[f]
  BY <1>10
<1>12. Eq(f)
  BY <1>3, <1>11
<1>13. ReadLoop = CHOOSE g : Eq(g)
  <2>1. ReadLoop
          = CHOOSE g : g = [at \in Readers \X Bytes |->
                              LET r == ReadPacket(at[1], at[2])
                              IN  IF r.p.tp = "error" THEN <<>>
                                  ELSE <<r.p>> \o When(~Ends(at[1], r.p),
                                                       g[<<After(at[1]), r.rest>>])]
    BY DEF ReadLoop
  <2>2. QED
    BY <2>1 DEF Places, LoopBody, Fails, Got, Onward
<1>14. Eq(ReadLoop)
  <2> HIDE DEF Eq
  <2>1. QED
    BY <1>12, <1>13
<1>15. PICK w : w = ReadLoop
  OBVIOUS
<1>16. w = [y \in Places |-> LoopBody(y, w)]
  BY <1>14, <1>15
<1>17. w[x] = LoopBody(x, w)
  BY <1>16
<1>18. QED
  BY <1>15, <1>17

LEMMA WriteIsTyped ==
  ASSUME NEW p \in Written
  PROVE  Write(p) \in Bytes
<1>1. PICK tp, f, n, body : tp = p.tp /\ f = HeaderFlags(p) /\ n = PkLen(p) /\ body = Body(p)
  OBVIOUS
<1>2. tp \in Types /\ f \in Nat /\ f < 16 /\ n \in Nat /\ body \in Bytes
  BY <1>1, WrittenIsFramed DEF Framed, IsParsed
<1>3. PICK l \in Bytes : l = WriteVarInt[n]
  BY <1>2, VarIntEquation
<1>4. PICK b : b = TypeCode[tp] * 16 + f
  OBVIOUS
<1>5. PICK h : h = <<b>>
  OBVIOUS
<1>6. h \in Bytes
  <2>1. b \in Byte
    BY <1>2, <1>4, TypeIsRead
  <2>2. QED
    BY <1>5, <2>1 DEF Bytes
<1>7. PICK hl \in Bytes : hl = h \o l
  BY <1>3, <1>6, BytesJoin
<1>8. hl \o body \in Bytes
  BY <1>2, <1>7, BytesJoin
<1>9. Write(p) = hl \o body
  BY <1>1, <1>3, <1>4, <1>5, <1>7 DEF Write
<1>10. QED
  BY <1>8, <1>9

(* The states in which k packets are read one after the other, all of them *)
(* accepted, of which at most the last ends the loop.                      *)
Course(rd, ps, k) ==
    /\ rd \in [1..(k + 1) -> Readers] /\ ps \in [1..k -> Written]
    /\ \A j \in 1..k : rd[j + 1] = After(rd[j]) /\ Accepts(rd[j], ps[j].tp)
    /\ \A j \in 1..(k - 1) : ~Ends(rd[j], ps[j])

(* After them, t is not read.                                              *)
Ended(rd, ps, k) == k >= 1 /\ Ends(rd[k], ps[k])
Stopped(rd, ps, k, t) ==
    Ended(rd, ps, k) \/ ReadPacket(rd[k + 1], t) = [p |-> Error]

(* What is read of the last i of k packets.                                *)
LastRead(ps, k, i) == [x \in 1..i |-> OnTheWire(ps[k - i + x])]

LEMMA WireKeepsType ==
  ASSUME NEW p \in Written
  PROVE  /\ OnTheWire(p).tp = p.tp /\ p.tp \in Types /\ p.tp # "error"
         /\ \A reader : Ends(reader, OnTheWire(p)) = Ends(reader, p)
<1>1. p.tp \in Types
  BY WrittenIsFramed DEF Framed
<1>2. p.tp # "error"
  BY <1>1 DEF Types, TypeCode
<1>3. OnTheWire(p).tp = p.tp
  <2>1. CASE p.tp # "PUBLISH"
    BY <2>1 DEF OnTheWire
  <2>2. CASE p.tp = "PUBLISH"
    <3>1. p \in PublishWritten
      BY <2>2 DEF Written, EmptyPacket, IdPacket, ConnAckPacket, SubAckPacket, ConnectWritten,
                  SubscribeWritten, UnsubscribeWritten, Empty, IdOnly
    <3>2. PICK q : q = [p EXCEPT !.replyTo = <<>>]
      OBVIOUS
    <3>3. q.tp = p.tp
      BY <3>1, <3>2 DEF PublishWritten
    <3>4. QED
      BY <2>2, <3>2, <3>3 DEF OnTheWire
  <2>3. QED
    BY <2>1, <2>2
<1>4. \A reader : Ends(reader, OnTheWire(p)) = Ends(reader, p)
  BY <1>3 DEF Ends
<1>5. QED
  BY <1>1, <1>2, <1>3, <1>4

LEMMA OneReadFirst ==
  ASSUME NEW k \in Nat, NEW ps \in [1..k -> Written], NEW i \in 0..(k - 1), NEW j, j = k - i
  PROVE  LastRead(ps, k, i + 1) = <<OnTheWire(ps[j])>> \o LastRead(ps, k, i)
<1>1. PICK S : S = {OnTheWire(ps[y]) : y \in 1..k}
  OBVIOUS
<1>2. i \in Nat /\ j \in 1..k /\ i + 1 \in Nat
  OBVIOUS
<1>3. PICK n \in Nat : n = i + 1
  BY <1>2
<1>4. PICK a, b : a = LastRead(ps, k, i) /\ b = LastRead(ps, k, n)
  OBVIOUS
<1>5. a = [x \in 1..i |-> OnTheWire(ps[k - i + x])]
  BY <1>4 DEF LastRead
<1>6. b = [x \in 1..n |-> OnTheWire(ps[k - n + x])]
  BY <1>4 DEF LastRead
<1>7. \A x \in 1..i : k - i + x \in 1..k
  OBVIOUS
<1>8. \A x \in 1..n : k - n + x \in 1..k
  BY <1>3
<1>9. a \in Seq(S) /\ Len(a) = i
  BY <1>1, <1>2, <1>5, <1>7
<1>10. b \in Seq(S) /\ Len(b) = n
  BY <1>1, <1>2, <1>6, <1>8
<1>11. PICK p, h : p = OnTheWire(ps[j]) /\ h = <<p>>
  OBVIOUS
<1>12. h \in Seq(S) /\ Len(h) = 1 /\ h[1] = p
  BY <1>1, <1>2, <1>11
<1>13. PICK c : c = h \o a
  OBVIOUS
<1>14. c \in Seq(S) /\ Len(c) = n
  <2>1. c \in Seq(S) /\ Len(c) = Len(h) + Len(a)
    BY <1>9, <1>12, <1>13, ConcatProperties
  <2>2. QED
    BY <1>3, <1>9, <1>12, <2>1
<1>15. \A x \in 1..(Len(h) + Len(a)) :
          c[x] = IF x <= Len(h) THEN h[x] ELSE a[x - Len(h)]
  BY <1>9, <1>12, <1>13, ConcatProperties
<1>16. ASSUME NEW x \in 1..n PROVE c[x] = b[x]
  <2>1. x \in 1..(Len(h) + Len(a))
    BY <1>3, <1>9, <1>12
  <2>2. CASE x = 1
    <3>1. c[x] = p
      BY <1>12, <1>15, <2>1, <2>2
    <3>2. k - n + x = j
      BY <1>2, <1>3, <2>2
    <3>3. QED
      BY <1>6, <1>11, <3>1, <3>2
  <2>3. CASE x # 1
    <3>1. PICK y : y = x - 1
      OBVIOUS
    <3>2. y \in 1..i /\ ~(x <= Len(h)) /\ x - Len(h) = y /\ k - i + y = k - n + x
      BY <1>2, <1>3, <1>12, <2>3, <3>1
    <3>3. c[x] = a[y]
      BY <1>15, <2>1, <3>2
    <3>4. a[y] = OnTheWire(ps[k - i + y])
      BY <1>5, <3>2
    <3>5. b[x] = OnTheWire(ps[k - n + x])
      BY <1>6
    <3>6. QED
      BY <3>2, <3>3, <3>4, <3>5
  <2>4. QED
    BY <2>2, <2>3
<1>17. c = b
  BY <1>10, <1>14, <1>16, SeqEqual
<1>18. QED
  BY <1>3, <1>4, <1>11, <1>13, <1>17

LEMMA HandledInTurn ==
  ASSUME NEW k \in Nat, NEW ps, NEW rd, Course(rd, ps, k),
         NEW t \in Bytes, Stopped(rd, ps, k, t),
         NEW parts, parts = [i \in 1..k |-> Write(ps[i])]
  PROVE  /\ Joined(parts) \in Bytes
         /\ Handled(rd[1], Joined(parts) \o t) = LastRead(ps, k, k)
<1>1. /\ rd \in [1..(k + 1) -> Readers] /\ ps \in [1..k -> Written]
      /\ \A j \in 1..k : rd[j + 1] = After(rd[j]) /\ Accepts(rd[j], ps[j].tp)
      /\ \A j \in 1..(k - 1) : ~Ends(rd[j], ps[j])
  BY DEF Course
<1>2. \A i \in 1..k : parts[i] \in Bytes
  <2>1. TAKE i \in 1..k
  <2>2. PICK p \in Written : p = ps[i]
    BY <1>1
  <2>3. Write(p) \in Bytes
    BY <2>2, WriteIsTyped
  <2>4. QED
    BY <2>2, <2>3
<1>3. parts \in [1..k -> Bytes] /\ Len(parts) = k
  BY <1>2
<1>4. PICK joined : joined = LastJoined(parts)
  OBVIOUS
<1>5. joined \in [0..k -> Bytes]
  BY <1>3, <1>4, JoinedStepByStep
<1>6. joined[0] = <<>>
  BY <1>3, <1>4, JoinedStepByStep
<1>7. \A i \in 1..k : joined[i] = parts[k - i + 1] \o joined[i - 1]
  BY <1>3, <1>4, JoinedStepByStep
<1> DEFINE Clear(i) == ReadLoop[<<rd[k - i + 1], joined[i] \o t>>] = LastRead(ps, k, i)
           P == {i \in 0..k : (i = 0 /\ Ended(rd, ps, k)) \/ Clear(i)}
<1>8. 0 \in P
  <2>1. CASE Ended(rd, ps, k)
    BY <2>1
  <2>2. CASE ~Ended(rd, ps, k)
    <3>1. PICK x : x = <<rd[k + 1], t>>
      OBVIOUS
    <3>2. x \in Places /\ x[1] = rd[k + 1] /\ x[2] = t
      BY <1>1, <3>1 DEF Places
    <3>3. ReadPacket(rd[k + 1], t) = [p |-> Error]
      BY <2>2 DEF Stopped
    <3>4. Fails(x)
      BY <3>2, <3>3 DEF Fails, Got, Error
    <3>5. ReadLoop[x] = <<>>
      BY <3>2, <3>4, ReadLoopEquation DEF LoopBody
    <3>6. PICK none : none = joined[0]
      OBVIOUS
    <3>7. none \o t = t
      BY <1>6, <3>6, JoinNothing
    <3>8. LastRead(ps, k, 0) = <<>>
      BY DEF LastRead
    <3>9. k - 0 + 1 = k + 1
      OBVIOUS
    <3>10. Clear(0)
      BY <3>1, <3>5, <3>6, <3>7, <3>8, <3>9
    <3>11. QED
      BY <3>10
  <2>3. QED
    BY <2>1, <2>2
<1>9. ASSUME NEW i \in 0..(k - 1), i \in P PROVE i + 1 \in P
  <2>1. PICK j, n : j = k - i /\ n = i + 1
    OBVIOUS
  <2>2. /\ j \in 1..k /\ n \in 1..k /\ n \in 0..k /\ i \in 0..k
        /\ k - n + 1 = j /\ n - 1 = i /\ k - i + 1 = j + 1
    BY <2>1
  <2>3. PICK p, reader : p = ps[j] /\ reader = rd[j]
    OBVIOUS
  <2>4. p \in Written /\ reader \in Readers /\ Accepts(reader, p.tp) /\ rd[j + 1] = After(reader)
    <3>1. j \in 1..(k + 1)
      BY <2>2
    <3>2. QED
      BY <1>1, <2>2, <2>3, <3>1
  <2>5. PICK rest \in Bytes : rest = joined[i] \o t
    BY <1>5, <2>2, BytesJoin
  <2>6. PICK w : w = Write(p)
    OBVIOUS
  <2>7. w \in Bytes /\ w = parts[j]
    BY <1>2, <2>2, <2>3, <2>6
  <2>8. joined[n] \o t = w \o rest
    <3>1. PICK b : b = joined[i]
      OBVIOUS
    <3>2. b \in Bytes /\ joined[n] = w \o b
      BY <1>5, <1>7, <2>2, <2>7, <3>1
    <3>3. (w \o b) \o t = w \o (b \o t)
      BY ZenonT(60), <2>7, <3>2, JoinThree
    <3>4. QED
      BY <2>5, <3>1, <3>2, <3>3
  <2>9. PICK bs \in Bytes : bs = w \o rest
    BY <2>7, BytesJoin
  <2>10. PICK x : x = <<reader, bs>>
    OBVIOUS
  <2>11. x \in Places /\ x[1] = reader /\ x[2] = bs
    BY <2>4, <2>10 DEF Places
  <2>12. PICK q : q = OnTheWire(p)
    OBVIOUS
  <2>13. Got(x) = [p |-> q, rest |-> rest]
    <3>1. ReadPacket(reader, Write(p) \o rest)
            = IF Accepts(reader, p.tp) THEN [p |-> OnTheWire(p), rest |-> rest]
              ELSE [p |-> Error]
      BY <2>4, WrittenPacketsAreRead
    <3>2. ReadPacket(reader, bs) = [p |-> q, rest |-> rest]
      BY <2>4, <2>6, <2>9, <2>12, <3>1, Zenon
    <3>3. QED
      BY <2>11, <3>2 DEF Got
  <2>14. q.tp = p.tp /\ p.tp # "error"
    BY <2>4, <2>12, WireKeepsType
  <2>15. Ends(reader, q) = Ends(reader, p)
    BY <2>14 DEF Ends
  <2>16. ~Fails(x)
    BY <2>13, <2>14 DEF Fails
  <2>17. PICK y : y = <<rd[k - i + 1], rest>>
    OBVIOUS
  <2>18. Onward(x) = y
    BY <2>2, <2>4, <2>11, <2>13, <2>17 DEF Onward
  <2>19. ReadLoop[x] = <<q>> \o When(~Ends(reader, p), ReadLoop[y])
    <3>1. ReadLoop[x] = LoopBody(x, ReadLoop)
      BY <2>11, ReadLoopEquation
    <3>2. Got(x).p = q
      BY <2>13
    <3>3. LoopBody(x, ReadLoop) = <<Got(x).p>> \o When(~Ends(x[1], Got(x).p), ReadLoop[Onward(x)])
      BY <2>16, Zenon DEF LoopBody
    <3>4. LoopBody(x, ReadLoop) = <<q>> \o When(~Ends(reader, q), ReadLoop[y])
      BY <2>11, <2>18, <3>2, <3>3, Zenon
    <3>5. CASE Ends(reader, p)
      BY <2>15, <3>1, <3>4, <3>5, Zenon DEF When
    <3>6. CASE ~Ends(reader, p)
      BY <2>15, <3>1, <3>4, <3>6, Zenon DEF When
    <3>7. QED
      BY <3>5, <3>6
  <2>20. LastRead(ps, k, n) = <<q>> \o LastRead(ps, k, i)
    BY <1>1, <2>1, <2>3, <2>12, OneReadFirst
  <2>21. When(~Ends(reader, p), ReadLoop[y]) = LastRead(ps, k, i)
    <3>1. CASE Ends(reader, p)
      <4>1. ~(j \in 1..(k - 1))
        BY <1>1, <2>3, <3>1
      <4>2. i = 0
        BY <2>1, <2>2, <4>1
      <4>3. LastRead(ps, k, i) = <<>>
        BY <4>2 DEF LastRead
      <4>4. QED
        BY <3>1, <4>3 DEF When
    <3>2. CASE ~Ends(reader, p)
      <4>1. ~(i = 0 /\ Ended(rd, ps, k))
        BY <2>1, <2>3, <3>2 DEF Ended
      <4>2. Clear(i)
        BY <1>9, <4>1
      <4>3. ReadLoop[y] = LastRead(ps, k, i)
        BY <2>5, <2>17, <4>2
      <4>4. QED
        BY <3>2, <4>3 DEF When
    <3>3. QED
      BY <3>1, <3>2
  <2>22. ReadLoop[x] = LastRead(ps, k, n)
    BY <2>19, <2>20, <2>21, Zenon
  <2>23. Clear(n)
    <3>1. x = <<rd[k - n + 1], joined[n] \o t>>
      BY <2>2, <2>3, <2>8, <2>9, <2>10
    <3>2. QED
      BY <2>22, <3>1
  <2>24. QED
    BY <2>1, <2>2, <2>23
<1>10. k \in P
  <2> HIDE DEF P
  <2>1. \A i \in 0..k : i \in P
    BY <1>8, <1>9, UpTo
  <2>2. QED
    BY <2>1
<1>11. Joined(parts) = joined[k]
  BY <1>3, <1>4 DEF Joined
<1>12. Joined(parts) \in Bytes
  BY <1>5, <1>11
<1>13. CASE Clear(k)
  <2>1. k - k + 1 = 1
    OBVIOUS
  <2>2. ReadLoop[<<rd[1], joined[k] \o t>>] = LastRead(ps, k, k)
    BY <1>13, <2>1
  <2>3. QED
    BY <1>11, <1>12, <2>2 DEF Handled
<1>14. CASE k = 0 /\ Ended(rd, ps, k)
  BY <1>14 DEF Ended
<1>15. QED
  BY <1>10, <1>13, <1>14

(* The first parts, and then the others.                                   *)
LEMMA JoinedInTwo ==
  ASSUME NEW n \in Nat, NEW parts \in [1..n -> Bytes], NEW a \in 0..n,
         NEW firsts, firsts = [i \in 1..a |-> parts[i]]
  PROVE  Joined(parts) = Joined(firsts) \o LastJoined(parts)[n - a]
<1>1. a \in Nat /\ firsts \in [1..a -> Bytes] /\ Len(firsts) = a /\ Len(parts) = n
  OBVIOUS
<1>2. PICK joined, first : joined = LastJoined(parts) /\ first = LastJoined(firsts)
  OBVIOUS
<1>3. joined \in [0..n -> Bytes]
  BY <1>2, JoinedStepByStep
<1>4. \A i \in 1..n : joined[i] = parts[n - i + 1] \o joined[i - 1]
  BY <1>2, JoinedStepByStep
<1>5. first \in [0..a -> Bytes]
  BY <1>1, <1>2, JoinedStepByStep
<1>6. first[0] = <<>>
  BY <1>1, <1>2, JoinedStepByStep
<1>7. \A i \in 1..a : first[i] = firsts[a - i + 1] \o first[i - 1]
  BY ZenonT(60), <1>1, <1>2, JoinedStepByStep
<1>8. PICK rest : rest = joined[n - a]
  OBVIOUS
<1>9. rest \in Bytes
  <2>1. n - a \in 0..n
    OBVIOUS
  <2>2. QED
    BY <1>3, <1>8, <2>1
<1> DEFINE P == {i \in 0..a : joined[(n - a) + i] = first[i] \o rest}
<1>10. 0 \in P
  <2>1. PICK none : none = first[0]
    OBVIOUS
  <2>2. none \o rest = rest
    BY <1>6, <1>9, <2>1, JoinNothing
  <2>3. PICK zero : zero = 0
    OBVIOUS
  <2>4. (n - a) + zero = n - a /\ zero \in 0..a
    BY <2>3
  <2>5. joined[(n - a) + zero] = first[zero] \o rest
    BY <1>8, <2>1, <2>2, <2>3, <2>4
  <2>6. zero \in P
    BY <2>4, <2>5
  <2>7. QED
    BY <2>3, <2>6
<1>11. ASSUME NEW i \in 0..(a - 1), i \in P PROVE i + 1 \in P
  <2>1. PICK k, l, j : k = i + 1 /\ l = (n - a) + i /\ j = a - i
    OBVIOUS
  <2>2. /\ k \in 1..a /\ k - 1 = i /\ l + 1 \in 1..n /\ (l + 1) - 1 = l /\ i \in 0..a
        /\ j \in 1..a /\ a - k + 1 = j /\ n - (l + 1) + 1 = j /\ (n - a) + k = l + 1
    BY <2>1
  <2>3. PICK part, f : part = parts[j] /\ f = first[i]
    OBVIOUS
  <2>4. part \in Bytes /\ f \in Bytes /\ firsts[j] = part
    BY <1>5, <2>2, <2>3
  <2>5. joined[l] = f \o rest
    BY <1>11, <2>1, <2>3
  <2>6. joined[l + 1] = part \o (f \o rest)
    BY <1>4, <2>2, <2>3, <2>5
  <2>7. first[k] = part \o f
    BY <1>7, <2>2, <2>3, <2>4
  <2>8. (part \o f) \o rest = part \o (f \o rest)
    BY SMTT(30), <1>9, <2>4, JoinThree
  <2>9. joined[(n - a) + k] = first[k] \o rest
    BY <2>2, <2>6, <2>7, <2>8
  <2>10. QED
    BY <2>1, <2>2, <2>9
<1>12. joined[n] = first[a] \o rest
  <2>1. a \in P
    <3> HIDE DEF P
    <3>1. \A i \in 0..a : i \in P
      BY <1>1, <1>10, <1>11, UpTo
    <3>2. QED
      BY <1>1, <3>1
  <2>2. (n - a) + a = n
    OBVIOUS
  <2>3. QED
    BY <2>1, <2>2
<1>13. QED
  BY <1>1, <1>2, <1>8, <1>12 DEF Joined

(* A stream of packets from the one after the a-th on.                     *)
StreamFrom(ps, a) == LastJoined([i \in DOMAIN ps |-> Write(ps[i])])[Len(ps) - a]

LEMMA StreamInTwo ==
  ASSUME NEW ps \in Seq(Written), NEW a \in 0..Len(ps)
  PROVE  /\ Stream(ps) = Stream(SubSeq(ps, 1, a)) \o StreamFrom(ps, a)
         /\ Stream(ps) \in Bytes /\ StreamFrom(ps, a) \in Bytes
         /\ a = Len(ps) => StreamFrom(ps, a) = <<>>
         /\ a < Len(ps)
               => StreamFrom(ps, a) = Write(ps[a + 1]) \o StreamFrom(ps, a + 1)
<1>1. PICK n : n = Len(ps)
  OBVIOUS
<1>2. n \in Nat /\ DOMAIN ps = 1..n /\ a \in Nat /\ a <= n
  BY <1>1, LenProperties
<1>3. PICK parts : parts = [i \in 1..n |-> Write(ps[i])]
  OBVIOUS
<1>4. \A i \in 1..n : ps[i] \in Written
  BY <1>1, ElementOfSeq
<1>5. parts \in [1..n -> Bytes] /\ Len(parts) = n
  <2>1. ASSUME NEW i \in 1..n PROVE Write(ps[i]) \in Bytes
    <3>1. PICK p \in Written : p = ps[i]
      BY <1>4
    <3>2. Write(p) \in Bytes
      BY <3>1, WriteIsTyped
    <3>3. QED
      BY <3>1, <3>2
  <2>2. QED
    BY <1>2, <1>3, <2>1
<1>6. PICK joined : joined = LastJoined(parts)
  OBVIOUS
<1>7. joined \in [0..n -> Bytes]
  BY <1>2, <1>5, <1>6, JoinedStepByStep
<1>8. joined[0] = <<>>
  BY <1>2, <1>5, <1>6, JoinedStepByStep
<1>9. \A i \in 1..n : joined[i] = parts[n - i + 1] \o joined[i - 1]
  BY <1>2, <1>5, <1>6, JoinedStepByStep
<1>10. Stream(ps) = Joined(parts) /\ Joined(parts) = joined[n]
  BY <1>2, <1>3, <1>5, <1>6 DEF Stream, Joined
<1>11. \A b : StreamFrom(ps, b) = joined[n - b]
  BY <1>1, <1>2, <1>3, <1>6 DEF StreamFrom
<1>12. PICK s : s = SubSeq(ps, 1, a)
  OBVIOUS
<1>13. Len(s) = a /\ DOMAIN s = 1..a /\ \A i \in 1..a : s[i] = ps[i]
  <2>1. PICK one : one = 1
    OBVIOUS
  <2>2. one \in Int /\ a \in Int
    BY <1>2, <2>1
  <2>3. \A i \in one..a : ps[i] \in Written
    <3>1. one..a \subseteq 1..n
      BY <1>2, <2>1
    <3>2. QED
      BY <1>4, <3>1
  <2>4. PICK u : u = SubSeq(ps, one, a)
    OBVIOUS
  <2>5. u \in Seq(Written) /\ Len(u) = IF one <= a THEN a - one + 1 ELSE 0
    BY <2>2, <2>3, <2>4, SubSeqProperties
  <2>6. \A i \in 1..(a - one + 1) : u[i] = ps[one + i - 1]
    BY <2>2, <2>3, <2>4, SubSeqProperties
  <2>7. Len(u) = a
    BY <1>2, <2>1, <2>5
  <2>8. DOMAIN u = 1..a
    BY <2>5, <2>7, LenProperties
  <2>9. ASSUME NEW i \in 1..a PROVE u[i] = ps[i]
    <3>1. i \in 1..(a - one + 1) /\ one + i - 1 = i
      BY <1>2, <2>1
    <3>2. QED
      BY <2>6, <3>1
  <2>10. QED
    BY <1>12, <2>1, <2>4, <2>7, <2>8, <2>9
<1>14. PICK firsts : firsts = [i \in 1..a |-> parts[i]]
  OBVIOUS
<1>15. Stream(s) = Joined(firsts)
  <2>1. \A i \in 1..a : Write(s[i]) = parts[i]
    <3>1. TAKE i \in 1..a
    <3>2. i \in 1..n /\ s[i] = ps[i]
      BY <1>2, <1>13
    <3>3. parts[i] = Write(ps[i])
      BY <1>3, <3>2
    <3>4. QED
      BY <3>2, <3>3
  <2>2. [i \in DOMAIN s |-> Write(s[i])] = firsts
    BY <1>13, <1>14, <2>1
  <2>3. QED
    BY <2>2 DEF Stream
<1>16. Joined(parts) = Joined(firsts) \o joined[n - a]
  <2>1. a \in 0..n
    BY <1>2
  <2>2. QED
    BY <1>2, <1>5, <1>6, <1>14, <2>1, JoinedInTwo
<1>17. Stream(ps) = Stream(s) \o StreamFrom(ps, a)
  BY <1>10, <1>11, <1>15, <1>16
<1>18. Stream(ps) \in Bytes /\ StreamFrom(ps, a) \in Bytes
  <2>1. n \in 0..n /\ n - a \in 0..n
    BY <1>2
  <2>2. joined[n] \in Bytes /\ joined[n - a] \in Bytes
    BY <1>7, <2>1
  <2>3. QED
    BY <1>10, <1>11, <2>2
<1>19. ASSUME a = n PROVE StreamFrom(ps, a) = <<>>
  <2>1. n - a = 0
    BY <1>2, <1>19
  <2>2. QED
    BY <1>8, <1>11, <2>1
<1>20. ASSUME a < n
       PROVE  StreamFrom(ps, a) = Write(ps[a + 1]) \o StreamFrom(ps, a + 1)
  <2>1. PICK i, j : i = n - a /\ j = a + 1
    OBVIOUS
  <2>2. i \in 1..n /\ n - i + 1 = j /\ i - 1 = n - j /\ j \in 1..n
    BY <1>2, <1>20, <2>1
  <2>3. joined[i] = parts[j] \o joined[n - j]
    BY <1>9, <2>2
  <2>4. parts[j] = Write(ps[j])
    BY <1>3, <2>2
  <2>5. QED
    BY <1>11, <2>1, <2>3, <2>4
<1>21. QED
  BY <1>1, <1>12, <1>17, <1>18, <1>19, <1>20

LEMMA StreamIsHandled ==
  ASSUME NEW ps \in Seq(Written), NEW k, k = Len(ps),
         NEW rd, Course(rd, ps, k), NEW t \in Bytes, Stopped(rd, ps, k, t)
  PROVE  Handled(rd[1], Stream(ps) \o t) = Carried(ps)
<1>1. k \in Nat /\ DOMAIN ps = 1..k
  BY LenProperties
<1>2. PICK parts : parts = [i \in 1..k |-> Write(ps[i])]
  OBVIOUS
<1>3. Stream(ps) = Joined(parts)
  BY <1>1, <1>2 DEF Stream
<1>4. Handled(rd[1], Joined(parts) \o t) = LastRead(ps, k, k)
  BY <1>1, <1>2, HandledInTurn
<1>5. LastRead(ps, k, k) = Carried(ps)
  <2>1. \A x \in 1..k : k - k + x = x
    BY <1>1
  <2>2. [x \in 1..k |-> OnTheWire(ps[k - k + x])] = [x \in 1..k |-> OnTheWire(ps[x])]
    BY <2>1
  <2>3. QED
    BY <1>1, <2>2 DEF LastRead, Carried
<1>6. QED
  BY <1>3, <1>4, <1>5

(* The peer reads all packets.                                             *)
LEMMA PeerReads ==
  ASSUME NEW ps \in Seq(Written), NEW t \in Bytes, ReadPacket("peer", t) = [p |-> Error]
  PROVE  Handled("peer", Stream(ps) \o t) = Carried(ps)
<1>1. PICK k : k = Len(ps)
  OBVIOUS
<1>2. k \in Nat /\ ps \in [1..k -> Written]
  BY <1>1, LenProperties
<1>3. PICK rd : rd = [i \in 1..(k + 1) |-> "peer"]
  OBVIOUS
<1>4. \A i \in 1..(k + 1) : rd[i] = "peer"
  BY <1>3
<1>5. Course(rd, ps, k)
  <2>1. rd \in [1..(k + 1) -> Readers]
    BY <1>3 DEF Readers
  <2>2. ASSUME NEW j \in 1..k PROVE rd[j] = "peer" /\ rd[j + 1] = "peer"
    <3>1. j \in 1..(k + 1) /\ j + 1 \in 1..(k + 1)
      BY <1>2
    <3>2. QED
      BY <1>4, <3>1
  <2>3. \A j \in 1..k : rd[j + 1] = After(rd[j])
    BY <2>2 DEF After
  <2>4. \A j \in 1..k : Accepts(rd[j], ps[j].tp)
    BY <2>2 DEF Accepts
  <2>5. \A j \in 1..(k - 1) : ~Ends(rd[j], ps[j])
    <3>1. TAKE j \in 1..(k - 1)
    <3>2. j \in 1..k
      BY <1>2
    <3>3. QED
      BY <2>2, <3>2 DEF Ends
  <2>6. QED
    BY <1>2, <2>1, <2>3, <2>4, <2>5 DEF Course
<1>6. PICK one, l \in 1..(k + 1) : one = 1 /\ l = k + 1
  BY <1>2
<1>7. rd[one] = "peer" /\ rd[l] = "peer"
  BY <1>4
<1>8. Stopped(rd, ps, k, t)
  BY <1>6, <1>7 DEF Stopped
<1>9. Handled(rd[1], Stream(ps) \o t) = Carried(ps)
  BY <1>1, <1>5, <1>8, StreamIsHandled
<1>10. QED
  BY <1>6, <1>7, <1>9

(* What MQTT allows from a client, at place i of the packets.              *)
Legal(ps, i) ==
    /\ FromClient(ps[i]) /\ (ps[i].tp = "CONNECT" <=> i = 1)
    /\ \A j \in 1..(i - 1) : ps[j].tp # "DISCONNECT"
LegalUpTo(ps, k) == \A i \in 1..k : Legal(ps, i)

(* The bridge reads what is allowed.                                       *)
StateAfter(k) == IF k = 0 THEN "infant" ELSE "connected"

LEMMA BridgeReads ==
  ASSUME NEW ps \in Seq(Written), NEW k, k = Len(ps), LegalUpTo(ps, k),
         NEW t \in Bytes,
         \/ k >= 1 /\ ps[k].tp = "DISCONNECT"
         \/ ReadPacket(StateAfter(k), t) = [p |-> Error]
  PROVE  Handled("infant", Stream(ps) \o t) = Carried(ps)
<1>1. k \in Nat /\ ps \in [1..k -> Written]
  BY LenProperties
<1>2. PICK rd : rd = [i \in 1..(k + 1) |-> StateAfter(i - 1)]
  OBVIOUS
<1>3. ASSUME NEW i \in 1..(k + 1) PROVE rd[i] = IF i = 1 THEN "infant" ELSE "connected"
  BY <1>1, <1>2 DEF StateAfter
<1>4. ASSUME NEW i \in 1..k
      PROVE  /\ FromClient(ps[i]) /\ (ps[i].tp = "CONNECT" <=> i = 1)
             /\ \A j \in 1..(i - 1) : ps[j].tp # "DISCONNECT"
  BY DEF LegalUpTo, Legal
<1>5. Course(rd, ps, k)
  <2>1. rd \in [1..(k + 1) -> Readers]
    BY <1>2 DEF Readers, StateAfter
  <2>2. ASSUME NEW j \in 1..k PROVE rd[j + 1] = After(rd[j])
    <3>1. j \in 1..(k + 1) /\ j + 1 \in 1..(k + 1) /\ j + 1 # 1
      BY <1>1
    <3>2. rd[j + 1] = "connected"
      BY <1>3, <3>1
    <3>3. rd[j] = "infant" \/ rd[j] = "connected"
      BY <1>3, <3>1
    <3>4. QED
      BY <3>2, <3>3 DEF After
  <2>3. ASSUME NEW j \in 1..k PROVE Accepts(rd[j], ps[j].tp)
    <3>1. j \in 1..(k + 1)
      BY <1>1
    <3>2. rd[j] = IF j = 1 THEN "infant" ELSE "connected"
      BY <1>3, <3>1
    <3>3. FromClient(ps[j]) /\ (ps[j].tp = "CONNECT" <=> j = 1)
      BY <1>4
    <3>4. QED
      BY <3>2, <3>3 DEF Accepts, FromClient
  <2>4. ASSUME NEW j \in 1..(k - 1) PROVE ~Ends(rd[j], ps[j])
    <3>1. j \in 1..(k - 1) /\ k \in 1..k
      BY <1>1
    <3>2. ps[j].tp # "DISCONNECT"
      BY <1>4, <3>1
    <3>3. QED
      BY <3>2 DEF Ends
  <2>5. QED
    BY <1>1, <2>1, <2>2, <2>3, <2>4 DEF Course
<1>6. PICK one, l \in 1..(k + 1) : one = 1 /\ l = k + 1
  BY <1>1
<1>7. rd[one] = "infant" /\ rd[l] = StateAfter(k)
  BY <1>1, <1>3, <1>6 DEF StateAfter
<1>8. Stopped(rd, ps, k, t)
  <2>1. CASE ReadPacket(StateAfter(k), t) = [p |-> Error]
    BY <1>6, <1>7, <2>1 DEF Stopped
  <2>2. CASE k >= 1 /\ ps[k].tp = "DISCONNECT"
    <3>1. k \in 1..k /\ k \in 1..(k + 1)
      BY <1>1, <2>2
    <3>2. k # 1
      BY <1>4, <2>2, <3>1
    <3>3. rd[k] = "connected"
      BY <1>3, <3>1, <3>2
    <3>4. Ended(rd, ps, k)
      BY <2>2, <3>3 DEF Ended, Ends
    <3>5. QED
      BY <3>4 DEF Stopped
  <2>3. QED
    BY <2>1, <2>2
<1>9. Handled(rd[1], Stream(ps) \o t) = Carried(ps)
  BY <1>5, <1>8, StreamIsHandled
<1>10. QED
  BY <1>6, <1>7, <1>9

(* The first packets that are not allowed come after those that are.       *)
LEMMA AllowedIs ==
  ASSUME sent \in Seq(Written)
  PROVE  \E a \in 0..Len(sent) : /\ Allowed = SubSeq(sent, 1, a) /\ LegalUpTo(sent, a)
                                 /\ a = Len(sent) \/ ~Legal(sent, a + 1)
<1>1. PICK n : n = Len(sent)
  OBVIOUS
<1>2. n \in Nat
  BY <1>1, LenProperties
<1> DEFINE Fits(k) == /\ \A i \in 1..k : Legal(sent, i)
                      /\ k = Len(sent) \/ ~Legal(sent, k + 1)
<1>3. \E k \in 0..n : Fits(k)
  <2>1. PICK Bad : Bad = {i \in 1..n : ~Legal(sent, i)}
    OBVIOUS
  <2>2. CASE Bad = {}
    <3>1. \A i \in 1..n : Legal(sent, i)
      BY <2>1, <2>2
    <3>2. n \in 0..n
      BY <1>2
    <3>3. Fits(n)
      BY <1>1, <3>1
    <3>4. QED
      BY <3>2, <3>3
  <2>3. CASE Bad # {}
    <3>1. Bad \subseteq Nat
      BY <1>2, <2>1
    <3>2. IsWellFoundedOn(Less, Nat)
      BY NatLessThanWellFounded DEF OpToRel, Less
    <3>3. PICK i \in Bad : \A j \in Bad : <<j, i>> \notin Less
      BY <2>3, <3>1, <3>2, WFMin
    <3>4. i \in 1..n /\ ~Legal(sent, i)
      BY <2>1
    <3>5. PICK k : k = i - 1
      OBVIOUS
    <3>6. k \in 0..n /\ k + 1 = i
      BY <1>2, <3>4, <3>5
    <3>7. ASSUME NEW j \in 1..k PROVE Legal(sent, j)
      <4>1. j \in 1..n /\ j \in Nat /\ i \in Nat /\ j < i
        BY <1>2, <3>4, <3>5
      <4>2. <<j, i>> \in Less
        BY <4>1 DEF Less
      <4>3. QED
        BY <2>1, <3>3, <4>1, <4>2
    <3>8. Fits(k)
      BY <3>4, <3>6, <3>7
    <3>9. QED
      BY <3>6, <3>8
  <2>4. QED
    BY <2>2, <2>3
<1>4. PICK a : a = CHOOSE k \in 0..Len(sent) : Fits(k)
  OBVIOUS
<1>5. a \in 0..Len(sent) /\ Fits(a)
  <2> HIDE DEF Fits
  <2>1. QED
    BY <1>1, <1>3, <1>4
<1>6. Allowed = SubSeq(sent, 1, a)
  BY <1>4 DEF Allowed, Legal
<1>7. QED
  BY <1>5, <1>6 DEF LegalUpTo

LEMMA FirstPackets ==
  ASSUME NEW ps \in Seq(Written), NEW a \in 0..Len(ps)
  PROVE  /\ SubSeq(ps, 1, a) \in Seq(Written) /\ Len(SubSeq(ps, 1, a)) = a
         /\ \A i \in 1..a : SubSeq(ps, 1, a)[i] = ps[i]
<1>1. PICK n, one : n = Len(ps) /\ one = 1
  OBVIOUS
<1>2. n \in Nat /\ a \in Nat /\ a <= n /\ one \in Int /\ a \in Int
  BY <1>1, LenProperties
<1>3. \A i \in one..a : ps[i] \in Written
  <2>1. one..a \subseteq 1..n
    BY <1>1, <1>2
  <2>2. QED
    BY <1>1, <2>1, ElementOfSeq
<1>4. PICK u : u = SubSeq(ps, one, a)
  OBVIOUS
<1>5. u \in Seq(Written) /\ Len(u) = IF one <= a THEN a - one + 1 ELSE 0
  BY <1>2, <1>3, <1>4, SubSeqProperties
<1>6. \A i \in 1..(a - one + 1) : u[i] = ps[one + i - 1]
  BY <1>2, <1>3, <1>4, SubSeqProperties
<1>7. Len(u) = a
  BY <1>1, <1>2, <1>5
<1>8. ASSUME NEW i \in 1..a PROVE u[i] = ps[i]
  <2>1. i \in 1..(a - one + 1) /\ one + i - 1 = i
    BY <1>1, <1>2
  <2>2. QED
    BY <1>6, <2>1
<1>9. QED
  BY <1>1, <1>4, <1>5, <1>7, <1>8

LEMMA NothingIsRead ==
  ASSUME NEW reader
  PROVE  ReadPacket(reader, <<>>) = [p |-> Error]
BY DEF ReadPacket

(* What was sent last has arrived in part, or whole.                       *)
Arrived(x, p) ==
    /\ x \in Bytes
    /\ x = Write(p) \/ \A reader \in Readers : ReadPacket(reader, x) = [p |-> Error]

(* When not everything that was sent is allowed, the bridge stops there.   *)
LEMMA BridgeStops ==
  ASSUME sent \in Seq(Written), NEW n, n = Len(sent), n >= 1,
         NEW a \in 0..(n - 1), LegalUpTo(sent, a), ~Legal(sent, a + 1),
         NEW x, Arrived(x, sent[n])
  PROVE  Handled("infant", Stream(SubSeq(sent, 1, n - 1)) \o x) = Carried(SubSeq(sent, 1, a))
<1>1. n \in Nat
  BY LenProperties
<1>2. PICK b : b = n - 1
  OBVIOUS
<1>3. b \in Nat /\ b \in 0..n /\ a \in 0..n /\ a \in 0..b /\ a + 1 \in 1..n /\ a \in Nat /\ b + 1 = n
  BY <1>1, <1>2
<1>4. PICK f, w : f = SubSeq(sent, 1, b) /\ w = SubSeq(sent, 1, a)
  OBVIOUS
<1>5. f \in Seq(Written) /\ Len(f) = b /\ \A i \in 1..b : f[i] = sent[i]
  BY <1>3, <1>4, FirstPackets
<1>6. w \in Seq(Written) /\ Len(w) = a /\ \A i \in 1..a : w[i] = sent[i]
  BY <1>3, <1>4, FirstPackets
<1>7. SubSeq(f, 1, a) = w
  <2>1. PICK v : v = SubSeq(f, 1, a)
    OBVIOUS
  <2>2. v \in Seq(Written) /\ Len(v) = a /\ \A i \in 1..a : v[i] = f[i]
    BY <1>3, <1>5, <2>1, FirstPackets
  <2>3. \A i \in 1..Len(v) : v[i] = w[i]
    BY <1>3, <1>5, <1>6, <2>2
  <2>4. QED
    BY <1>6, <2>1, <2>2, <2>3, SeqEqual
<1>8. PICK s, t, r : s = Stream(w) /\ t = r \o x /\ r = StreamFrom(f, a)
  OBVIOUS
<1>9. a \in 0..Len(f)
  BY <1>3, <1>5
<1>10. x \in Bytes
  BY DEF Arrived
<1>11. Stream(f) = s \o r /\ r \in Bytes
  BY <1>5, <1>7, <1>8, <1>9, StreamInTwo
<1>12. s \in Bytes
  <2>1. a \in 0..Len(w)
    BY <1>3, <1>6
  <2>2. QED
    BY <1>6, <1>8, <2>1, StreamInTwo
<1>13. t \in Bytes
  BY <1>8, <1>10, <1>11, BytesJoin
<1>14. Stream(f) \o x = s \o t
  <2>1. (s \o r) \o x = s \o (r \o x)
    BY <1>10, <1>11, <1>12, JoinThree
  <2>2. QED
    BY <1>8, <1>11, <2>1, Zenon
<1>15. LegalUpTo(w, a)
  <2>1. ASSUME NEW i \in 1..a PROVE Legal(w, i)
    <3>1. w[i] = sent[i] /\ \A j \in 1..(i - 1) : w[j] = sent[j]
      BY SMTT(30), <1>3, <1>6
    <3>2. Legal(sent, i)
      BY DEF LegalUpTo
    <3>3. QED
      BY <3>1, <3>2 DEF Legal
  <2>2. QED
    BY <2>1 DEF LegalUpTo
<1>16. CASE a >= 1 /\ w[a].tp = "DISCONNECT"
  BY <1>2, <1>4, <1>6, <1>8, <1>13, <1>14, <1>15, <1>16, BridgeReads
<1>17. CASE ~(a >= 1 /\ w[a].tp = "DISCONNECT")
  <2>1. PICK p, c : c = a + 1 /\ p = sent[c]
    OBVIOUS
  <2>2. p \in Written
    BY <1>3, <2>1, ElementOfSeq
  <2>3. ~Accepts(StateAfter(a), p.tp)
    <3>1. \A j \in 1..a : sent[j].tp # "DISCONNECT"
      <4>1. ASSUME NEW j \in 1..a PROVE sent[j].tp # "DISCONNECT"
        <5>1. CASE j = a
          BY <1>3, <1>6, <1>17, <5>1
        <5>2. CASE j # a
          <6>1. j \in 1..(a - 1) /\ a \in 1..a
            BY <1>3, <5>2
          <6>2. Legal(sent, a)
            BY <6>1 DEF LegalUpTo
          <6>3. QED
            BY <6>1, <6>2 DEF Legal
        <5>3. QED
          BY <5>1, <5>2
      <4>2. QED
        BY <4>1
    <3>2. (a + 1) - 1 = a
      BY <1>3
    <3>3. ~(FromClient(p) /\ (p.tp = "CONNECT" <=> c = 1))
      <4>1. ~(FromClient(sent[a + 1]) /\ (sent[a + 1].tp = "CONNECT" <=> a + 1 = 1))
        BY <3>1, <3>2 DEF Legal
      <4>2. QED
        BY <2>1, <4>1
    <3>4. CASE a = 0
      <4>1. StateAfter(a) = "infant" /\ c = 1
        BY <2>1, <3>4 DEF StateAfter
      <4>2. p.tp # "CONNECT"
        BY <3>3, <4>1 DEF FromClient
      <4>3. QED
        BY <4>1, <4>2 DEF Accepts
    <3>5. CASE a # 0
      <4>1. StateAfter(a) = "connected" /\ c # 1
        BY <1>3, <2>1, <3>5 DEF StateAfter
      <4>2. p.tp \in {"CONNECT", "CONNACK", "SUBACK", "UNSUBACK", "PINGRESP"}
        BY <3>3, <4>1 DEF FromClient
      <4>3. QED
        BY <4>1, <4>2 DEF Accepts
    <3>6. QED
      BY <3>4, <3>5
  <2>4. PICK reader : reader = StateAfter(a)
    OBVIOUS
  <2>5. reader \in Readers
    BY <2>4 DEF StateAfter, Readers
  <2>6. ASSUME NEW more \in Bytes PROVE ReadPacket(reader, Write(p) \o more) = [p |-> Error]
    BY <2>2, <2>3, <2>4, <2>5, WrittenPacketsAreRead
  <2>7. ReadPacket(reader, t) = [p |-> Error]
    <3>1. CASE a < b
      <4>1. a < Len(f)
        BY <1>5, <3>1
      <4>2. PICK r2 : r2 = StreamFrom(f, c)
        OBVIOUS
      <4>3. r = Write(f[a + 1]) \o StreamFrom(f, a + 1)
        BY <1>5, <1>8, <1>9, <4>1, StreamInTwo
      <4>4. f[c] = p
        <5>1. c \in 1..b
          BY <1>3, <2>1, <3>1
        <5>2. QED
          BY <1>5, <2>1, <5>1
      <4>5. r = Write(p) \o r2
        BY <2>1, <4>2, <4>3, <4>4
      <4>6. r2 \in Bytes
        <5>1. c \in 0..Len(f)
          BY <1>3, <1>5, <2>1, <3>1
        <5>2. QED
          BY <1>5, <4>2, <5>1, StreamInTwo
      <4>7. Write(p) \in Bytes
        BY <2>2, WriteIsTyped
      <4>8. PICK more \in Bytes : more = r2 \o x
        BY <1>10, <4>6, BytesJoin
      <4>9. t = Write(p) \o more
        <5>1. PICK wp \in Bytes : wp = Write(p)
          BY <4>7
        <5>2. (wp \o r2) \o x = wp \o (r2 \o x)
          BY SMTT(30), <1>10, <4>6, <5>1, JoinThree
        <5>3. QED
          BY <1>8, <4>5, <4>8, <5>1, <5>2, Zenon
      <4>10. QED
        BY <2>6, <4>9
    <3>2. CASE ~(a < b)
      <4>1. a = b /\ c = n
        BY <1>3, <2>1, <3>2
      <4>2. r = <<>>
        BY <1>5, <1>8, <1>9, <4>1, StreamInTwo
      <4>3. t = x
        BY <1>8, <1>10, <4>2, JoinNothing
      <4>4. CASE x = Write(p)
        <5>1. PICK none \in Bytes : none = <<>>
          BY <1>10, JoinNothing
        <5>2. x \o none = x
          BY <1>10, <5>1, JoinNothing
        <5>3. QED
          BY <2>6, <4>3, <4>4, <5>1, <5>2
      <4>5. CASE x # Write(p)
        <5>1. \A any \in Readers : ReadPacket(any, x) = [p |-> Error]
          BY <2>1, <4>1, <4>5 DEF Arrived
        <5>2. QED
          BY <2>5, <4>3, <5>1
      <4>6. QED
        BY <4>4, <4>5
    <3>3. QED
      BY <3>1, <3>2
  <2>8. QED
    BY <1>2, <1>4, <1>6, <1>8, <1>13, <1>14, <1>15, <2>4, <2>7, BridgeReads
<1>18. QED
  BY <1>16, <1>17

(* However much of what was sent arrives, exactly the whole packets are    *)
(* handled.                                                                *)
InStep(front, p) ==
    /\ \A x : Arrived(x, p) /\ x # Write(p)
          => /\ Handled("peer", Stream(front) \o x) = Carried(front)
             /\ Handled("infant", Stream(front) \o x)
                  = Carried(IF Allowed = sent THEN front ELSE Allowed)
    /\ Handled("peer", Stream(front) \o Write(p)) = Carried(sent)
    /\ Handled("infant", Stream(front) \o Write(p)) = Carried(Allowed)

LEMMA WhatArrivesIsHandled ==
  ASSUME sent \in Seq(Written), NEW n, n = Len(sent), n >= 1,
         NEW front, front = SubSeq(sent, 1, n - 1)
  PROVE  InStep(front, sent[n])
<1>1. n \in Nat
  BY LenProperties
<1>2. PICK b : b = n - 1
  OBVIOUS
<1>3. b \in Nat /\ b \in 0..n /\ n \in 1..n /\ b < n /\ b + 1 = n /\ b \in 0..Len(sent)
  BY <1>1, <1>2
<1>4. /\ front \in Seq(Written) /\ Len(front) = b
      /\ \A i \in 1..b : front[i] = sent[i]
  BY <1>2, <1>3, FirstPackets
<1>5. PICK p \in Written : p = sent[n]
  BY <1>3, ElementOfSeq
<1>6. PICK last \in Bytes : last = Write(p)
  BY WriteIsTyped
<1>7. PICK s : s = Stream(front)
  OBVIOUS
<1>8. Stream(sent) = s \o last
  <2>1. PICK r : r = StreamFrom(sent, b)
    OBVIOUS
  <2>2. front = SubSeq(sent, 1, b)
    BY <1>2
  <2>3. Stream(sent) = Stream(SubSeq(sent, 1, b)) \o StreamFrom(sent, b)
    BY <1>3, StreamInTwo
  <2>4. StreamFrom(sent, b) = Write(sent[b + 1]) \o StreamFrom(sent, b + 1)
    BY <1>3, StreamInTwo
  <2>5. StreamFrom(sent, n) = <<>>
    <3>1. n \in 0..Len(sent)
      BY <1>1
    <3>2. QED
      BY <3>1, StreamInTwo
  <2>6. last \o <<>> = last
    BY JoinNothing
  <2>7. StreamFrom(sent, b) = last
    BY <1>3, <1>5, <1>6, <2>4, <2>5, <2>6
  <2>8. QED
    BY <1>7, <2>2, <2>3, <2>7
<1>9. Stream(sent) \in Bytes
  BY <1>3, StreamInTwo
<1>10. PICK none \in Bytes : none = <<>>
  BY <1>9, JoinNothing
<1>11. Stream(sent) \o none = s \o last
  BY <1>8, <1>9, <1>10, JoinNothing
<1>12. ASSUME NEW reader PROVE ReadPacket(reader, none) = [p |-> Error]
  BY <1>10, NothingIsRead
<1>13. Handled("peer", s \o last) = Carried(sent)
  <2>1. ReadPacket("peer", none) = [p |-> Error]
    BY <1>12
  <2>2. Handled("peer", Stream(sent) \o none) = Carried(sent)
    BY <2>1, PeerReads
  <2>3. QED
    BY <1>11, <2>2
<1>14. ASSUME NEW x, Arrived(x, p), x # last
       PROVE  /\ x \in Bytes
              /\ \A reader \in Readers : ReadPacket(reader, x) = [p |-> Error]
  BY <1>6, <1>14 DEF Arrived
<1>15. ASSUME NEW x, Arrived(x, p), x # last
       PROVE  Handled("peer", s \o x) = Carried(front)
  <2>1. x \in Bytes /\ ReadPacket("peer", x) = [p |-> Error]
    BY <1>14, <1>15 DEF Readers
  <2>2. QED
    BY <1>4, <1>7, <2>1, PeerReads
<1>16. PICK a \in 0..Len(sent) : /\ Allowed = SubSeq(sent, 1, a) /\ LegalUpTo(sent, a)
                                 /\ a = Len(sent) \/ ~Legal(sent, a + 1)
  BY AllowedIs
<1>17. a \in 0..n
  BY <1>16
<1>18. /\ Allowed \in Seq(Written) /\ Len(Allowed) = a
       /\ \A i \in 1..a : Allowed[i] = sent[i]
  BY <1>16, FirstPackets
<1>19. /\ \A x : Arrived(x, p) /\ x # last
              => Handled("infant", s \o x) = Carried(IF Allowed = sent THEN front ELSE Allowed)
       /\ Handled("infant", s \o last) = Carried(Allowed)
  <2>1. CASE a = n
    <3>1. Allowed = sent
      <4>1. \A i \in 1..Len(Allowed) : Allowed[i] = sent[i]
        BY <1>18
      <4>2. QED
        BY <1>18, <2>1, <4>1, SeqEqual
    <3>2. LegalUpTo(sent, n)
      BY <1>16, <2>1
    <3>3. Handled("infant", s \o last) = Carried(sent)
      <4>1. ReadPacket(StateAfter(n), none) = [p |-> Error]
        BY <1>12
      <4>2. Handled("infant", Stream(sent) \o none) = Carried(sent)
        BY <3>2, <4>1, BridgeReads
      <4>3. QED
        BY <1>11, <4>2
    <3>4. LegalUpTo(front, b)
      <4>1. ASSUME NEW i \in 1..b PROVE Legal(front, i)
        <5>1. front[i] = sent[i] /\ \A j \in 1..(i - 1) : front[j] = sent[j]
          BY <1>3, <1>4
        <5>2. i \in 1..n
          BY <1>3
        <5>3. Legal(sent, i)
          BY <3>2, <5>2 DEF LegalUpTo
        <5>4. QED
          BY <5>1, <5>3 DEF Legal
      <4>2. QED
        BY <4>1 DEF LegalUpTo
    <3>5. ASSUME NEW x, Arrived(x, p), x # last
          PROVE  Handled("infant", s \o x) = Carried(front)
      <4>1. x \in Bytes
        BY <1>14, <3>5
      <4>2. PICK reader : reader = StateAfter(b)
        OBVIOUS
      <4>3. reader \in Readers
        BY <4>2 DEF StateAfter, Readers
      <4>4. ReadPacket(reader, x) = [p |-> Error]
        BY <1>14, <3>5, <4>3
      <4>5. QED
        BY <1>4, <1>7, <3>4, <4>1, <4>2, <4>4, BridgeReads
    <3>6. QED
      BY <3>1, <3>3, <3>5
  <2>2. CASE a # n
    <3>1. a \in 0..(n - 1) /\ ~Legal(sent, a + 1)
      BY <1>1, <1>16, <1>17, <2>2
    <3>2. Allowed # sent
      BY <1>18, <2>2
    <3>3. ASSUME NEW x, Arrived(x, p) PROVE Handled("infant", s \o x) = Carried(Allowed)
      BY <1>5, <1>7, <1>16, <3>1, <3>3, BridgeStops
    <3>4. Arrived(last, p)
      BY <1>6 DEF Arrived
    <3>5. Handled("infant", s \o last) = Carried(Allowed)
      BY <3>3, <3>4
    <3>6. QED
      BY <3>2, <3>3, <3>5
  <2>3. QED
    BY <2>1, <2>2
<1>20. InStep(front, p)
  BY <1>6, <1>7, <1>13, <1>15, <1>19 DEF InStep
<1>21. QED
  BY <1>5, <1>20

LEMMA WrittenAreHandled ==
  ASSUME sent \in Seq(Written)
  PROVE  WholePacketsAreRead
<1>1. SUFFICES ASSUME sent # <<>> PROVE WholePacketsAreRead
  BY DEF WholePacketsAreRead
<1>2. PICK n : n = Len(sent)
  OBVIOUS
<1>3. n \in Nat /\ n >= 1 /\ n \in 1..n
  BY <1>1, <1>2, EmptySeq, LenProperties
<1>4. PICK front : front = SubSeq(sent, 1, n - 1)
  OBVIOUS
<1>5. Front(sent) = front /\ Last(sent) = sent[n]
  BY <1>2, <1>4 DEF Front, Last
<1>6. PICK p \in Written : p = sent[n]
  BY <1>2, <1>3, ElementOfSeq
<1>7. PICK last : last = Write(p)
  OBVIOUS
<1>8. /\ \A x : Arrived(x, p) /\ x # last
             => /\ Handled("peer", Stream(front) \o x) = Carried(front)
                /\ Handled("infant", Stream(front) \o x)
                     = Carried(IF Allowed = sent THEN front ELSE Allowed)
      /\ Handled("peer", Stream(front) \o last) = Carried(sent)
      /\ Handled("infant", Stream(front) \o last) = Carried(Allowed)
  <2>1. InStep(front, p)
    BY <1>2, <1>3, <1>4, <1>6, WhatArrivesIsHandled
  <2>2. QED
    BY <1>7, <2>1 DEF InStep
<1>9. ASSUME NEW m \in 0..(Len(last) - 1)
      PROVE  Arrived(SubSeq(last, 1, m), p) /\ SubSeq(last, 1, m) # last
  <2>1. last \in Bytes
    BY <1>7, WriteIsTyped
  <2>2. \A reader \in Readers : ReadPacket(reader, SubSeq(last, 1, m)) = [p |-> Error]
    BY <1>6, <1>7, <1>9, BrokenPacketsAreNotRead
  <2>3. PICK x : x = SubSeq(last, 1, m)
    OBVIOUS
  <2>4. Len(last) \in Nat /\ m \in 0..Len(last) /\ m # Len(last)
    BY <2>1, LenProperties DEF Bytes
  <2>5. x \in Bytes /\ Len(x) = m
    BY <2>1, <2>3, <2>4, FirstBytes
  <2>6. QED
    BY <2>2, <2>3, <2>4, <2>5 DEF Arrived
<1>10. ASSUME NEW m \in 0..(Len(last) - 1)
       PROVE  /\ Handled("infant", Stream(front) \o SubSeq(last, 1, m))
                   = Carried(IF Allowed = sent THEN front ELSE Allowed)
              /\ Handled("peer", Stream(front) \o SubSeq(last, 1, m)) = Carried(front)
  BY <1>8, <1>9
<1>11. QED
  BY <1>5, <1>6, <1>7, <1>8, <1>10 DEF WholePacketsAreRead

-----------------------------------------------------------------------------
(* What the model sends is among what can be written: when the characters  *)
(* have bytes and the names have at most 65535 of them.                    *)

ShortNumbers(ns, n) ==
    /\ n \in Nat /\ n <= 3 /\ ns \in [1..n -> Nat]
    /\ \A i \in 1..n : ns[i] <= 65538

LEMMA AtMostThree ==
  ASSUME NEW n, NEW ns, ShortNumbers(ns, n)
  PROVE  Total(ns) \in Nat /\ Total(ns) <= 196614
<1>1. n \in Nat /\ n <= 3 /\ ns \in [1..n -> Nat] /\ \A i \in 1..n : ns[i] <= 65538
  BY DEF ShortNumbers
<1>2. CASE n = 0
  <2>1. PICK zero : zero = n
    OBVIOUS
  <2>2. LastAdded(ns)[0] = 0
    BY <1>1, AddedStepByStep
  <2>3. Len(ns) = 0
    BY <1>1, <1>2
  <2>4. Total(ns) = 0
    BY <2>2, <2>3 DEF Total
  <2>5. QED
    BY <2>4
<1>3. CASE n # 0
  <2>1. PICK k \in 1..4 : k = n
    BY <1>1, <1>3
  <2>2. k \in 1..3 /\ ns \in [1..k -> Nat] /\ \A i \in 1..k : ns[i] \in Nat /\ ns[i] <= 65538
    BY <1>1, <1>3, <2>1
  <2>3. k = 1 => Total(ns) = ns[1]
    BY <2>2, SmallTotals
  <2>4. k = 2 => Total(ns) = ns[1] + ns[2]
    BY <2>2, SmallTotals
  <2>5. k = 3 => Total(ns) = ns[1] + ns[2] + ns[3]
    BY <2>2, SmallTotals
  <2>6. QED
    BY <2>2, <2>3, <2>4, <2>5
<1>4. QED
  BY <1>2, <1>3

LEMMA OneByteText ==
  ASSUME NEW b \in Byte
  PROVE  <<b>> \in Text /\ Len(<<b>>) = 1 /\ <<>> \in Text /\ Len(<<>>) = 0
<1>1. <<b>> \in Bytes /\ Len(<<b>>) = 1 /\ <<>> \in Bytes /\ Len(<<>>) = 0
  BY DEF Bytes
<1>2. QED
  BY <1>1 DEF Text

LEMMA TwoByteText ==
  ASSUME NEW b \in Byte, NEW c \in Byte
  PROVE  <<b, c>> \in Text /\ Len(<<b, c>>) = 2
<1>1. <<b, c>> \in Bytes /\ Len(<<b, c>>) = 2
  BY DEF Bytes
<1>2. QED
  BY <1>1 DEF Text

(* The names of the packets.                                               *)
NameOK == Name \in Text

LEMMA NamesAreText ==
  ASSUME StringsOK, Len(topic) <= MaxName
  PROVE  NameOK
<1>1. topic \in Seq(TopicChars)
  BY DEF StringsOK
<1>2. PICK n : n = Len(topic)
  OBVIOUS
<1>3. n \in Nat /\ n < 65536 /\ \A i \in 1..n : Code(topic[i]) \in Byte
  <2>1. \A c \in TopicChars : Code(c) \in Byte
    BY CodeAssumption DEF Byte
  <2>2. MaxName \in Nat /\ MaxName < 65536
    BY MaxNameAssumption
  <2>3. QED
    BY <1>1, <1>2, <2>1, <2>2
<1>4. Name = [i \in 1..n |-> Code(topic[i])]
  BY <1>1, <1>2 DEF Name
<1>5. Name \in Bytes /\ Len(Name) = n
  BY <1>3, <1>4 DEF Bytes
<1>6. QED
  BY <1>3, <1>5 DEF NameOK, Text

LEMMA SubscribesAreWritten ==
  ASSUME NameOK, NEW p \in Subscribes
  PROVE  p \in Written
<1>1. PICK l : l = Len(Name)
  OBVIOUS
<1>2. l \in Nat /\ l <= 65535
  <2>1. Name \in Bytes /\ l < 65536
    BY <1>1 DEF NameOK, Text
  <2>2. QED
    BY <1>1, <2>1, LenProperties DEF Bytes
<1>3. CASE p.tp = "SUBSCRIBE"
  <2>1. PICK n \in 0..3 :
          p = [tp |-> "SUBSCRIBE", id |-> 255,
               topics |-> [i \in 1..n |-> [name |-> Name, qos |-> i - 1]]]
    BY <1>3 DEF Subscribes
  <2>2. PICK R : R = [name : Text, qos : {0, 1, 2}]
    OBVIOUS
  <2>3. \A i \in 1..n : i - 1 \in {0, 1, 2}
    OBVIOUS
  <2>4. \A i \in 1..n : [name |-> Name, qos |-> i - 1] \in R
    BY <2>2, <2>3 DEF NameOK
  <2>5. p.topics \in [1..n -> R] /\ n \in Nat
    BY <2>1, <2>4
  <2>6. p.topics \in Seq(R) /\ DOMAIN p.topics = 1..n
    BY <2>5
  <2>7. 255 \in Num16
    BY DEF Num16
  <2>8. p \in SubscribeWritten
    BY <2>1, <2>2, <2>6, <2>7 DEF SubscribeWritten
  <2>9. PICK ns : ns = [i \in 1..n |-> 3 + l]
    OBVIOUS
  <2>10. ShortNumbers(ns, n)
    BY <1>2, <2>9 DEF ShortNumbers
  <2>11. \A i \in 1..n : 3 + Len(p.topics[i].name) = 3 + l
    BY <1>1, <2>1
  <2>12. [i \in DOMAIN p.topics |-> 3 + Len(p.topics[i].name)] = ns
    BY <2>6, <2>9, <2>11
  <2>13. PkLen(p) = 2 + Total(ns)
    <3>1. PkLen(p) = 2 + Total([i \in DOMAIN p.topics |-> 3 + Len(p.topics[i].name)])
      BY <1>3 DEF PkLen, Empty, IdOnly
    <3>2. QED
      BY <2>12, <3>1
  <2>14. Total(ns) \in Nat /\ Total(ns) <= 196614
    BY <2>10, AtMostThree
  <2>15. PkLen(p) < 268435456
    BY <2>13, <2>14
  <2>16. QED
    BY <2>8, <2>15 DEF Written
<1>4. CASE p.tp # "SUBSCRIBE"
  <2>1. PICK n \in 0..3 :
          p = [tp |-> "UNSUBSCRIBE", id |-> 256, topics |-> [i \in 1..n |-> Name]]
    BY <1>4 DEF Subscribes
  <2>2. p.topics \in [1..n -> Text] /\ n \in Nat
    BY <2>1 DEF NameOK
  <2>3. p.topics \in Seq(Text) /\ DOMAIN p.topics = 1..n
    BY <2>2
  <2>4. 256 \in Num16
    BY DEF Num16
  <2>5. p \in UnsubscribeWritten
    BY <2>1, <2>3, <2>4 DEF UnsubscribeWritten
  <2>6. PICK ns : ns = [i \in 1..n |-> 2 + l]
    OBVIOUS
  <2>7. ShortNumbers(ns, n)
    BY <1>2, <2>6 DEF ShortNumbers
  <2>8. \A i \in 1..n : 2 + Len(p.topics[i]) = 2 + l
    BY <1>1, <2>1
  <2>9. [i \in DOMAIN p.topics |-> 2 + Len(p.topics[i])] = ns
    BY <2>3, <2>6, <2>8
  <2>10. PkLen(p) = 2 + Total(ns)
    <3>1. PkLen(p) = 2 + Total([i \in DOMAIN p.topics |-> 2 + Len(p.topics[i])])
      BY <2>1 DEF PkLen, Empty, IdOnly
    <3>2. QED
      BY <2>9, <3>1
  <2>11. Total(ns) \in Nat /\ Total(ns) <= 196614
    BY <2>7, AtMostThree
  <2>12. PkLen(p) < 268435456
    BY <2>10, <2>11
  <2>13. QED
    BY <2>5, <2>12 DEF Written
<1>5. QED
  BY <1>3, <1>4

LEMMA AcksAreWritten ==
  ASSUME NEW p \in Acks
  PROVE  p \in Written
<1>1. 1 \in Num16 /\ 65535 \in Num16 /\ 256 \in Num16 /\ \A b \in 0..5 : b \in Byte
  BY DEF Num16, Byte
<1>2. 128 \in Byte /\ 0 \in Byte /\ 1 \in Byte
  BY DEF Byte
<1>3. CASE p \in [tp : IdOnly, id : {1, 65535}]
  <2>1. p \in IdPacket
    BY <1>1, <1>3 DEF IdPacket
  <2>2. PkLen(p) = 2
    BY <1>3 DEF PkLen, Empty, IdOnly
  <2>3. QED
    BY <2>1, <2>2 DEF Written
<1>4. CASE p \in [tp : Empty]
  <2>1. PkLen(p) = 0
    BY <1>4 DEF PkLen, Empty, IdOnly
  <2>2. QED
    BY <1>4, <2>1 DEF Written, EmptyPacket
<1>5. CASE p \in [tp : {"CONNACK"}, flags : 0..1, returnCode : {0, 5}]
  <2>1. p \in ConnAckPacket
    BY <1>1, <1>5 DEF ConnAckPacket
  <2>2. PkLen(p) = 2
    BY <1>5 DEF PkLen, Empty
  <2>3. QED
    BY <2>1, <2>2 DEF Written
<1>6. CASE p \in [tp : {"SUBACK"}, id : {256}, topicReturns : {<<>>, <<128>>, <<0, 1, 128>>}]
  <2>1. <<>> \in Bytes /\ Len(<<>>) = 0
    BY DEF Bytes
  <2>2. <<128>> \in Bytes /\ Len(<<128>>) = 1
    BY <1>2 DEF Bytes
  <2>3. <<0, 1, 128>> \in Bytes /\ Len(<<0, 1, 128>>) = 3
    BY <1>2 DEF Bytes
  <2>4. p.topicReturns \in Bytes /\ Len(p.topicReturns) \in {0, 1, 3}
    BY <1>6, <2>1, <2>2, <2>3
  <2>5. p \in SubAckPacket
    BY <1>1, <1>6, <2>4 DEF SubAckPacket
  <2>6. PkLen(p) = 2 + Len(p.topicReturns)
    BY <1>6 DEF PkLen, Empty, IdOnly
  <2>7. PkLen(p) < 268435456
    <3>1. PICK l : l = Len(p.topicReturns)
      OBVIOUS
    <3>2. l = 0 \/ l = 1 \/ l = 3
      BY <2>4, <3>1
    <3>3. PkLen(p) = 2 + l
      BY <2>6, <3>1
    <3>4. QED
      BY <3>2, <3>3
  <2>8. QED
    BY <2>5, <2>7 DEF Written
<1>7. QED
  BY <1>3, <1>4, <1>5, <1>6 DEF Acks

LEMMA PublishesAreWritten ==
  ASSUME NameOK, NEW q \in Publishes
  PROVE  q \in Written /\ [q EXCEPT !.replyTo = <<95>>] \in Written
<1>1. PICK payload \in Payloads, qos \in 0..2, retain \in BOOLEAN :
        q = NewPublish(IF qos = 0 THEN 0 ELSE 256, Name, payload, qos, qos = 1, retain)
  BY DEF Publishes
<1>2. PICK id, flags : /\ id = IF qos = 0 THEN 0 ELSE 256
                       /\ flags = qos * 2 + Flag(qos = 1, PublishDup) + Flag(retain, Retain)
  OBVIOUS
<1>3. q = [tp |-> "PUBLISH", id |-> id, name |-> Name, payload |-> payload,
           replyTo |-> <<>>, flags |-> flags]
  BY <1>1, <1>2 DEF NewPublish
<1>4. payload \in Bytes /\ Len(payload) \in Nat /\ Len(payload) <= 124
  <2>1. <<>> \in Bytes /\ Len(<<>>) = 0
    BY DEF Bytes
  <2>2. <<31>> \in Bytes /\ Len(<<31>>) = 1
    BY OneByteText DEF Byte, Text
  <2>3. <<32, 127>> \in Bytes /\ Len(<<32, 127>>) = 2
    <3>1. PICK b \in Byte, c \in Byte : b = 32 /\ c = 127
      BY DEF Byte
    <3>2. <<b, c>> \in Bytes /\ Len(<<b, c>>) = 2
      BY TwoByteText DEF Text
    <3>3. QED
      BY <3>1, <3>2
  <2>4. <<255, 128>> \in Bytes /\ Len(<<255, 128>>) = 2
    <3>1. PICK b \in Byte, c \in Byte : b = 255 /\ c = 128
      BY DEF Byte
    <3>2. <<b, c>> \in Bytes /\ Len(<<b, c>>) = 2
      BY TwoByteText DEF Text
    <3>3. QED
      BY <3>1, <3>2
  <2>5. [i \in 1..124 |-> 97] \in Bytes /\ Len([i \in 1..124 |-> 97]) = 124
    <3>1. PICK n \in Nat : n = 124
      OBVIOUS
    <3>2. PICK s : s = [i \in 1..n |-> 97]
      OBVIOUS
    <3>3. 97 \in Byte
      BY DEF Byte
    <3>4. s \in Bytes /\ Len(s) = n
      BY <3>2, <3>3 DEF Bytes
    <3>5. QED
      BY <3>1, <3>2, <3>4
  <2>6. PICK a, b, c, d, e :
          /\ a = <<>> /\ b = <<32, 127>> /\ c = <<31>> /\ d = <<255, 128>>
          /\ e = [i \in 1..124 |-> 97]
    OBVIOUS
  <2>7. payload \in {a, b, c, d, e}
    BY <2>6, Zenon DEF Payloads
  <2>8. \A x \in {a, b, c, d, e} : x \in Bytes
    BY <2>1, <2>2, <2>3, <2>4, <2>5, <2>6, Zenon
  <2>9. payload \in Bytes
    BY <2>7, <2>8
  <2>10. Len(a) = 0 /\ Len(b) = 2 /\ Len(c) = 1 /\ Len(d) = 2 /\ Len(e) = 124
    BY <2>1, <2>2, <2>3, <2>4, <2>5, <2>6, Zenon
  <2>11. Len(payload) = 0 \/ Len(payload) = 1 \/ Len(payload) = 2 \/ Len(payload) = 124
    BY <2>7, <2>10, Zenon
  <2>12. PICK l : l = Len(payload)
    OBVIOUS
  <2>13. l \in Nat /\ l <= 124
    <3>1. l = 0 \/ l = 1 \/ l = 2 \/ l = 124
      BY <2>11, <2>12, Zenon
    <3>2. QED
      BY <3>1
  <2>14. QED
    BY <2>9, <2>12, <2>13
<1>5. id \in Num16
  BY <1>2 DEF Num16
<1>6. flags \in Nat /\ flags < 16 /\ QoSLevel(flags) = qos
  <2>1. PICK r \in {0, 1} : r = Flag(retain, Retain)
    BY DEF Flag, Retain
  <2>2. CASE qos = 0
    <3>1. flags = r
      BY <1>2, <2>1, <2>2 DEF Flag, PublishDup
    <3>2. QED
      BY <2>1, <2>2, <3>1 DEF QoSLevel
  <2>3. CASE qos = 1
    <3>1. flags = 10 + r
      BY <1>2, <2>1, <2>3 DEF Flag, PublishDup
    <3>2. QED
      BY <2>1, <2>3, <3>1 DEF QoSLevel
  <2>4. CASE qos = 2
    <3>1. flags = 4 + r
      BY <1>2, <2>1, <2>4 DEF Flag, PublishDup
    <3>2. QED
      BY <2>1, <2>4, <3>1 DEF QoSLevel
  <2>5. QED
    BY <2>2, <2>3, <2>4
<1>7. Name \in Text
  BY DEF NameOK
<1>8. PICK l : l = Len(Name)
  OBVIOUS
<1>9. l \in Nat /\ l < 65536
  <2>1. Name \in Bytes /\ l < 65536
    BY <1>7, <1>8 DEF Text
  <2>2. QED
    BY <1>8, <2>1, LenProperties DEF Bytes
<1>10. ASSUME NEW reply \in Bytes, NEW p,
              p = [tp |-> "PUBLISH", id |-> id, name |-> Name, payload |-> payload,
                   replyTo |-> reply, flags |-> flags]
       PROVE  p \in Written
  <2>1. QoSLevel(p.flags) = 0 => p.id = 0
    BY <1>2, <1>6, <1>10
  <2>2. flags \in {n \in Nat : n < 16}
    BY <1>6
  <2>3. p \in PublishWritten
    BY <1>4, <1>5, <1>7, <1>10, <2>1, <2>2 DEF PublishWritten
  <2>4. PkLen(p) = PublishLen(p)
    BY <1>10 DEF PkLen, Empty, IdOnly
  <2>5. PICK k, m : k = Len(payload) /\ m = Flag(QoSLevel(p.flags) > 0, 2)
    OBVIOUS
  <2>6. k \in Nat /\ k <= 124 /\ m \in {0, 2}
    BY <1>4, <2>5 DEF Flag
  <2>7. PublishLen(p) = 2 + l + k + m
    BY <1>8, <1>10, <2>5 DEF PublishLen
  <2>8. PkLen(p) < 268435456
    BY <1>9, <2>4, <2>6, <2>7
  <2>9. QED
    BY <2>3, <2>8 DEF Written
<1>11. <<>> \in Bytes /\ <<95>> \in Bytes
  BY OneByteText DEF Byte, Text
<1>12. [q EXCEPT !.replyTo = <<95>>]
         = [tp |-> "PUBLISH", id |-> id, name |-> Name, payload |-> payload,
            replyTo |-> <<95>>, flags |-> flags]
  BY <1>3
<1>13. q \in Written
  BY <1>3, <1>10, <1>11
<1>14. [q EXCEPT !.replyTo = <<95>>] \in Written
  BY <1>10, <1>11, <1>12
<1>15. QED
  BY <1>13, <1>14

(* The flags of a CONNECT: will is what they say of a will.                *)
FlagsSay(f, pass, user, will) ==
    /\ f \in Nat /\ f < 256
    /\ HasWill(f) <=> will # 0
    /\ HasPassword(f) <=> pass # 0
    /\ HasUserName(f) <=> user # 0
    /\ will = 4 => (f \div 8) % 4 = 0 /\ ~Bit(f, 32)
    /\ will = 44 => (f \div 8) % 4 = 1 /\ Bit(f, 32)
    /\ will = 20 => (f \div 8) % 4 = 2 /\ ~Bit(f, 32)

FlagsAreOf(f, clean, pass, user, will) ==
    /\ clean \in {0, 2} /\ pass \in {0, 64} /\ user \in {0, 128}
    /\ will \in {0, 4, 20, 44} /\ f = clean + pass + user + will

LEMMA ConnectFlags ==
  ASSUME NEW f, NEW clean, NEW pass, NEW user, NEW will, FlagsAreOf(f, clean, pass, user, will)
  PROVE  FlagsSay(f, pass, user, will)
<1> USE DEF FlagsAreOf
<1>1. /\ clean \in Nat /\ (clean = 0 \/ clean = 2) /\ pass \in Nat /\ (pass = 0 \/ pass = 64)
      /\ user \in Nat /\ (user = 0 \/ user = 128)
  OBVIOUS
<1>2. will \in Nat /\ (will = 0 \/ will = 4 \/ will = 20 \/ will = 44)
  OBVIOUS
<1>3. f \in Nat /\ f < 256
  BY <1>1, <1>2
<1>4. HasWill(f) <=> will # 0
  BY <1>1, <1>2 DEF HasWill, Bit
<1>5. HasPassword(f) <=> pass # 0
  BY <1>1, <1>2 DEF HasPassword, Bit
<1>6. HasUserName(f) <=> user # 0
  BY <1>1, <1>2 DEF HasUserName, Bit
<1>7. will = 4 => (f \div 8) % 4 = 0 /\ ~Bit(f, 32)
  BY <1>1 DEF Bit
<1>8. will = 44 => (f \div 8) % 4 = 1 /\ Bit(f, 32)
  BY <1>1 DEF Bit
<1>9. will = 20 => (f \div 8) % 4 = 2 /\ ~Bit(f, 32)
  BY <1>1 DEF Bit
<1>10. QED
  BY <1>3, <1>4, <1>5, <1>6, <1>7, <1>8, <1>9 DEF FlagsSay

(* The CONNECTs with a will and its part of the flags, and without.        *)
WillWays == {<<NoWill, 0>>} \cup {<<w, WillFlags(w)>> : w \in Wills}
ConnectWith(clean, user, password, way) ==
    [tp |-> "CONNECT", clientID |-> <<99>>, keepAlive |-> 256, clientLevel |-> 4,
     creds |-> [user |-> user, password |-> password], will |-> way[1],
     flags |-> clean + Flag(password # <<>>, 64) + Flag(user # <<>>, 128) + way[2]]

WillFits(w, m) ==
    /\ w \in WillWritten /\ m \in {0, 4, 20, 44}
    /\ m = 0 => w = NoWill
    /\ m = 4 => w.qos = 0 /\ w.retain = FALSE
    /\ m = 20 => w.qos = 2 /\ w.retain = FALSE
    /\ m = 44 => w.qos = 1 /\ w.retain = TRUE

LEMMA WillWaysFit ==
  ASSUME NameOK, NEW way \in WillWays
  PROVE  WillFits(way[1], way[2])
<1>1. PICK w, m : w = way[1] /\ m = way[2]
  OBVIOUS
<1>2. PICK note : note = <<104, 0>>
  OBVIOUS
<1>3. note \in Text
  <2>1. PICK b \in Byte, c \in Byte : b = 104 /\ c = 0
    BY DEF Byte
  <2>2. <<b, c>> \in Text
    BY TwoByteText
  <2>3. QED
    BY <1>2, <2>1, <2>2
<1>4. PICK none \in Text : none = <<>>
  BY OneByteText DEF Byte
<1>5. WillFits(w, m)
  <2>1. CASE way = <<NoWill, 0>>
    <3>1. w = NoWill /\ m = 0
      BY <1>1, <2>1
    <3>2. NoWill \in WillWritten
      BY <1>4 DEF NoWill, WillWritten
    <3>3. QED
      BY <3>1, <3>2 DEF WillFits
  <2>2. CASE way # <<NoWill, 0>>
    <3>1. PICK will \in Wills : way = <<will, WillFlags(will)>>
      BY <2>2 DEF WillWays
    <3>2. w = will /\ m = WillFlags(w)
      BY <1>1, <3>1
    <3>3. PICK qos \in 0..2 : w = [topic |-> Name, message |-> note, qos |-> qos, retain |-> qos = 1]
      BY <1>2, <3>2 DEF Wills
    <3>4. w \in WillWritten
      BY <1>3, <3>3 DEF WillWritten, NameOK
    <3> PICK keep \in BOOLEAN :
          w = [topic |-> Name, message |-> note, qos |-> qos, retain |-> keep] /\ keep = (qos = 1)
      BY <3>3
    <3>5. CASE qos = 0
      <4>1. keep = FALSE
        <5>1. qos # 1
          BY <3>5
        <5>2. QED
          BY <5>1, Zenon
      <4>2. w.qos = 0 /\ w.retain = FALSE
        BY <3>5, <4>1
      <4>3. m = 4
        BY <3>2, <4>2 DEF WillFlags, Flag
      <4>4. QED
        BY <3>4, <4>2, <4>3 DEF WillFits
    <3>6. CASE qos = 1
      <4>1. keep = TRUE
        BY <3>6
      <4>2. w.qos = 1 /\ w.retain = TRUE
        BY <3>6, <4>1
      <4>3. m = 44
        BY <3>2, <4>2 DEF WillFlags, Flag
      <4>4. QED
        BY <3>4, <4>2, <4>3 DEF WillFits
    <3>7. CASE qos = 2
      <4>1. keep = FALSE
        <5>1. qos # 1
          BY <3>7
        <5>2. QED
          BY <5>1, Zenon
      <4>2. w.qos = 2 /\ w.retain = FALSE
        BY <3>7, <4>1
      <4>3. m = 20
        BY <3>2, <4>2 DEF WillFlags, Flag
      <4>4. QED
        BY <3>4, <4>2, <4>3 DEF WillFits
    <3>8. qos = 0 \/ qos = 1 \/ qos = 2
      OBVIOUS
    <3>9. QED
      BY <3>5, <3>6, <3>7, <3>8
  <2>3. QED
    BY <2>1, <2>2
<1>6. QED
  BY <1>1, <1>5

LEMMA FlagAtMost ==
  ASSUME NEW given, NEW n \in Nat
  PROVE  Flag(given, n) \in Nat /\ Flag(given, n) <= n
BY DEF Flag

LEMMA ConnectsAreWritten ==
  ASSUME NameOK, NEW clean \in {0, 2}, NEW user \in {<<>>, << 117 >>},
         NEW password \in {<<>>, <<112, 255>>}, NEW way \in WillWays
  PROVE  ConnectWith(clean, user, password, way) \in Written
<1>1. PICK c : c = ConnectWith(clean, user, password, way)
  OBVIOUS
<1>2. PICK w, m, x, y, f : /\ w = way[1] /\ m = way[2]
                           /\ x = Flag(password # <<>>, 64) /\ y = Flag(user # <<>>, 128)
                           /\ f = clean + x + y + m
  OBVIOUS
<1>3. c = [tp |-> "CONNECT", clientID |-> <<99>>, keepAlive |-> 256, clientLevel |-> 4,
           creds |-> [user |-> user, password |-> password], will |-> w, flags |-> f]
  BY <1>1, <1>2 DEF ConnectWith
<1>4. WillFits(w, m)
  BY <1>2, WillWaysFit
<1>5. w \in WillWritten /\ m \in {0, 4, 20, 44}
  BY <1>4 DEF WillFits
<1>6. /\ m = 0 => w = NoWill
      /\ m = 4 => w.qos = 0 /\ w.retain = FALSE
      /\ m = 20 => w.qos = 2 /\ w.retain = FALSE
      /\ m = 44 => w.qos = 1 /\ w.retain = TRUE
  BY <1>4 DEF WillFits
<1>7. x \in {0, 64} /\ (x # 0 <=> password # <<>>) /\ y \in {0, 128} /\ (y # 0 <=> user # <<>>)
  BY <1>2 DEF Flag
<1>8. FlagsSay(f, x, y, m)
  <2>1. f = clean + x + y + m
    BY <1>2
  <2>2. x \in {0, 64} /\ y \in {0, 128} /\ m \in {0, 4, 20, 44}
    BY <1>5, <1>7
  <2>3. FlagsAreOf(f, clean, x, y, m)
    BY <2>1, <2>2 DEF FlagsAreOf
  <2>4. QED
    BY <2>3, ConnectFlags
<1>9. /\ f \in Nat /\ f < 256 /\ (HasWill(f) <=> m # 0)
      /\ (HasPassword(f) <=> x # 0) /\ (HasUserName(f) <=> y # 0)
  BY <1>8 DEF FlagsSay
<1>10. /\ m = 4 => (f \div 8) % 4 = 0 /\ ~Bit(f, 32)
       /\ m = 44 => (f \div 8) % 4 = 1 /\ Bit(f, 32)
       /\ m = 20 => (f \div 8) % 4 = 2 /\ ~Bit(f, 32)
  BY <1>8 DEF FlagsSay
<1>11. c.will = IF HasWill(c.flags)
                THEN [topic |-> c.will.topic, message |-> c.will.message,
                      qos |-> (c.flags \div 8) % 4, retain |-> Bit(c.flags, 32)]
                ELSE NoWill
  <2>1. c.flags = f /\ c.will = w
    BY <1>3
  <2>2. CASE m = 0
    BY <1>6, <1>9, <2>1, <2>2
  <2>3. CASE m # 0
    <3>1. w = [topic |-> w.topic, message |-> w.message, qos |-> w.qos, retain |-> w.retain]
      BY <1>5 DEF WillWritten
    <3>2. w.qos = (f \div 8) % 4 /\ w.retain = Bit(f, 32)
      <4>1. Bit(f, 32) \in BOOLEAN
        BY DEF Bit
      <4>2. QED
        <5>1. CASE m = 4
          BY <1>6, <1>10, <4>1, <5>1, Zenon
        <5>2. CASE m = 20
          BY <1>6, <1>10, <4>1, <5>2, Zenon
        <5>3. CASE m = 44
          BY <1>6, <1>10, <4>1, <5>3, Zenon
        <5>4. QED
          BY <1>5, <2>3, <5>1, <5>2, <5>3
    <3>3. QED
      BY <1>9, <2>1, <2>3, <3>1, <3>2
  <2>4. QED
    BY <2>2, <2>3
<1>12. c.creds = [user |-> When(HasUserName(c.flags), c.creds.user),
                  password |-> When(HasPassword(c.flags), c.creds.password)]
  <2>1. c.flags = f /\ c.creds = [user |-> user, password |-> password]
    BY <1>3
  <2>2. c.creds.user = user /\ c.creds.password = password
    BY <2>1
  <2>3. When(HasUserName(f), user) = user /\ When(HasPassword(f), password) = password
    BY <1>7, <1>9 DEF When
  <2>4. QED
    BY <2>1, <2>2, <2>3
<1>13. FlagsFit(c)
  BY <1>11, <1>12 DEF FlagsFit
<1>14. user \in Text /\ Len(user) \in {0, 1} /\ <<99>> \in Text /\ Len(<<99>>) = 1
  <2>1. PICK b \in Byte, d \in Byte : b = 117 /\ d = 99
    BY DEF Byte
  <2>2. <<b>> \in Text /\ Len(<<b>>) = 1 /\ <<d>> \in Text /\ Len(<<d>>) = 1
    BY OneByteText
  <2>3. <<>> \in Text /\ Len(<<>>) = 0
    BY OneByteText
  <2>4. QED
    BY <2>1, <2>2, <2>3
<1>15. password \in Text /\ Len(password) \in {0, 2}
  <2>1. PICK b \in Byte, d \in Byte : b = 112 /\ d = 255
    BY DEF Byte
  <2>2. <<b, d>> \in Text /\ Len(<<b, d>>) = 2
    BY TwoByteText
  <2>3. <<>> \in Text /\ Len(<<>>) = 0
    BY OneByteText
  <2>4. QED
    BY <2>1, <2>2, <2>3
<1>16. f \in Byte /\ 256 \in Num16
  BY <1>9 DEF Byte, Num16
<1>17. c \in ConnectWritten
  <2>1. [user |-> user, password |-> password] \in CredsWritten
    BY <1>14, <1>15 DEF CredsWritten
  <2>2. QED
    BY <1>3, <1>5, <1>13, <1>14, <1>16, <2>1 DEF ConnectWritten
<1>18. PkLen(c) < 268435456
  <2>1. PkLen(c) = ConnectLen(c)
    BY <1>3 DEF PkLen, Empty, IdOnly
  <2>2. PICK i, j, k : /\ i = Flag(HasWill(f), 4 + Len(w.topic) + Len(w.message))
                       /\ j = Flag(HasUserName(f), 2 + Len(user))
                       /\ k = Flag(HasPassword(f), 2 + Len(password))
    OBVIOUS
  <2>3. c.clientID = <<99>> /\ c.flags = f /\ c.will = w /\ c.creds.user = user /\ c.creds.password = password
    BY <1>3
  <2>4. ConnectLen(c) = 6 + 1 + 1 + 2 + 2 + 1 + i + j + k
    BY <1>14, <2>2, <2>3 DEF ConnectLen
  <2>5. i \in Nat /\ i <= 131074
    <3>1. PICK s \in Text, v \in Text : s = w.topic /\ v = w.message
      BY <1>5 DEF WillWritten
    <3>2. Len(s) \in Nat /\ Len(s) < 65536 /\ Len(v) \in Nat /\ Len(v) < 65536
      BY LenProperties DEF Text, Bytes
    <3>3. PICK n \in Nat : n = 4 + Len(s) + Len(v)
      BY <3>2
    <3>4. i = Flag(HasWill(f), n)
      BY <2>2, <3>1, <3>3
    <3>5. QED
      BY <3>2, <3>3, <3>4, FlagAtMost
  <2>6. j \in Nat /\ j <= 3
    <3>1. PICK l : l = Len(user)
      OBVIOUS
    <3>2. l = 0 \/ l = 1
      BY <1>14, <3>1
    <3>3. PICK n \in Nat : n = 2 + l /\ n <= 3
      BY <3>2
    <3>4. j = Flag(HasUserName(f), n)
      BY <2>2, <3>1, <3>3
    <3>5. QED
      BY <3>3, <3>4, FlagAtMost
  <2>7. k \in Nat /\ k <= 4
    <3>1. PICK l : l = Len(password)
      OBVIOUS
    <3>2. l = 0 \/ l = 2
      BY <1>15, <3>1
    <3>3. PICK n \in Nat : n = 2 + l /\ n <= 4
      BY <3>2
    <3>4. k = Flag(HasPassword(f), n)
      BY <2>2, <3>1, <3>3
    <3>5. QED
      BY <3>3, <3>4, FlagAtMost
  <2>8. QED
    BY <2>1, <2>4, <2>5, <2>6, <2>7
<1>19. QED
  BY <1>1, <1>17, <1>18 DEF Written

LEMMA NewConnectsAreWritten ==
  ASSUME NameOK, NEW c \in Connects
  PROVE  c \in Written /\ DeleteWill(c) \in Written
<1>1. PICK keep \in BOOLEAN, user \in {<<>>, <<117>>}, password \in {<<>>, <<112, 255>>},
           wills \in {{}} \cup {{w} : w \in Wills} :
        c = NewConnect(<<99>>, keep, 256, wills, [user |-> user, password |-> password])
  BY DEF Connects
<1>2. PICK clean \in {0, 2} : clean = Flag(keep, 2)
  BY DEF Flag
<1>3. PICK way \in WillWays : c = ConnectWith(clean, user, password, way)
  <2>1. PICK creds : creds = [user |-> user, password |-> password]
    OBVIOUS
  <2>2. creds.user = user /\ creds.password = password
    BY <2>1
  <2>3. CASE wills = {}
    <3>1. PICK way \in WillWays : way = <<NoWill, 0>>
      BY DEF WillWays
    <3>2. way[1] = NoWill /\ way[2] = 0
      BY <3>1
    <3>3. c = ConnectWith(clean, user, password, way)
      BY <1>1, <1>2, <2>1, <2>2, <2>3, <3>2 DEF NewConnect, ConnectWith
    <3>4. QED
      BY <3>3
  <2>4. CASE wills # {}
    <3>1. PICK w \in Wills : wills = {w}
      BY <2>4
    <3>2. (CHOOSE x \in wills : TRUE) = w
      BY <3>1
    <3>3. PICK way \in WillWays : way = <<w, WillFlags(w)>>
      BY ZenonT(60) DEF WillWays
    <3>4. way[1] = w /\ way[2] = WillFlags(w)
      BY <3>3
    <3>5. c = ConnectWith(clean, user, password, way)
      BY <1>1, <1>2, <2>1, <2>2, <2>4, <3>2, <3>4 DEF NewConnect, ConnectWith
    <3>6. QED
      BY <3>5
  <2>5. QED
    BY <2>3, <2>4
<1>4. c \in Written
  BY <1>3, ConnectsAreWritten
<1>5. DeleteWill(c) \in Written
  <2>1. CASE ~HasWill(c.flags)
    BY <1>4, <2>1 DEF DeleteWill
  <2>2. CASE HasWill(c.flags)
    <3>1. PICK m, x, y, f : /\ m = way[2] /\ x = Flag(password # <<>>, 64)
                            /\ y = Flag(user # <<>>, 128) /\ f = c.flags
      OBVIOUS
    <3>2. f = clean + x + y + m /\ c.will = way[1]
      BY <1>3, <3>1 DEF ConnectWith
    <3>3. x \in {0, 64} /\ y \in {0, 128}
      BY <3>1 DEF Flag
    <3>4. m \in {0, 4, 20, 44}
      <4>1. WillFits(way[1], way[2])
        BY WillWaysFit
      <4>2. QED
        BY <3>1, <4>1 DEF WillFits
    <3>5. FlagsAreOf(f, clean, x, y, m)
      BY <3>2, <3>3, <3>4 DEF FlagsAreOf
    <3>6. FlagsSay(f, x, y, m)
      BY <3>5, ConnectFlags
    <3>7. m # 0
      BY <2>2, <3>1, <3>6 DEF FlagsSay
    <3>8. way # <<NoWill, 0>>
      BY <3>1, <3>7
    <3>9. PICK w \in Wills : way = <<w, WillFlags(w)>>
      BY <3>8 DEF WillWays
    <3>10. WillFlags(c.will) = m
      BY <3>1, <3>2, <3>9
    <3>11. PICK none \in WillWays : none = <<NoWill, 0>>
      BY DEF WillWays
    <3>12. none[1] = NoWill /\ none[2] = 0
      BY <3>11
    <3>13. f - m = clean + x + y + none[2]
      BY <3>2, <3>3, <3>4, <3>12
    <3>14. DeleteWill(c) = [c EXCEPT !.will = NoWill, !.flags = f - m]
      BY <2>2, <3>1, <3>10 DEF DeleteWill
    <3>15. [c EXCEPT !.will = NoWill, !.flags = f - m]
             = [tp |-> "CONNECT", clientID |-> <<99>>, keepAlive |-> 256, clientLevel |-> 4,
                creds |-> [user |-> user, password |-> password], will |-> NoWill,
                flags |-> f - m]
      <4>1. PICK cr, g : cr = [user |-> user, password |-> password] /\ g = f - m
        OBVIOUS
      <4>2. c = [tp |-> "CONNECT", clientID |-> <<99>>, keepAlive |-> 256, clientLevel |-> 4,
                 creds |-> cr, will |-> way[1], flags |-> f]
        BY <1>3, <3>1, <4>1 DEF ConnectWith
      <4>3. [c EXCEPT !.will = NoWill, !.flags = g]
              = [tp |-> "CONNECT", clientID |-> <<99>>, keepAlive |-> 256, clientLevel |-> 4,
                 creds |-> cr, will |-> NoWill, flags |-> g]
        <5>1. PICK d : d = [c EXCEPT !.will = NoWill]
          OBVIOUS
        <5>2. d = [tp |-> "CONNECT", clientID |-> <<99>>, keepAlive |-> 256,
                   clientLevel |-> 4, creds |-> cr, will |-> NoWill, flags |-> f]
          BY <4>2, <5>1
        <5>3. [d EXCEPT !.flags = g]
                = [tp |-> "CONNECT", clientID |-> <<99>>, keepAlive |-> 256,
                   clientLevel |-> 4, creds |-> cr, will |-> NoWill, flags |-> g]
          BY <5>2
        <5>4. QED
          BY <5>1, <5>3
      <4>4. QED
        BY <4>1, <4>3
    <3>16. DeleteWill(c) = ConnectWith(clean, user, password, none)
      BY ZenonT(60), <3>1, <3>12, <3>13, <3>14, <3>15 DEF ConnectWith
    <3>17. QED
      BY <3>16, ConnectsAreWritten
  <2>3. QED
    BY <2>1, <2>2
<1>6. QED
  BY <1>4, <1>5

LEMMA PacketsAreWritten ==
  ASSUME NameOK, NEW p \in Packets
  PROVE  p \in Written
<1>1. CASE p \in Connects
  BY <1>1, NewConnectsAreWritten
<1>2. CASE p \in {DeleteWill(c) : c \in Connects}
  BY <1>2, NewConnectsAreWritten
<1>3. CASE p \in Subscribes
  BY <1>3, SubscribesAreWritten
<1>4. CASE p \in Acks
  BY <1>4, AcksAreWritten
<1>5. CASE p \in Publishes
  BY <1>5, PublishesAreWritten
<1>6. CASE p \in {[q EXCEPT !.replyTo = <<95>>] : q \in {q \in Publishes : QoSLevel(q.flags) = 1}}
  <2>1. PICK q \in Publishes : p = [q EXCEPT !.replyTo = <<95>>]
    BY <1>6
  <2>2. QED
    BY <2>1, PublishesAreWritten
<1>7. QED
  BY <1>1, <1>2, <1>3, <1>4, <1>5, <1>6 DEF Packets

(* The read loop of client.go:207-311 and the Write methods of mqtt/pkg    *)
(* stay in step, however many packets are sent, whatever their names, and  *)
(* wherever the connection breaks: exactly the whole packets that MQTT     *)
(* allows are handled.  A name has at most the 65535 bytes that the two    *)
(* bytes of its length can say.                                            *)
SentIsWritten == sent \in Seq(Written)

THEOREM OnlyWholePacketsAreRead == InputsSpec => []WholePacketsAreRead
<1>1. InputsInit => SentIsWritten
  BY DEF InputsInit, SentIsWritten
<1>2. StringsOK /\ SentIsWritten /\ [InputsNext]_inputs => SentIsWritten'
  <2>1. SUFFICES ASSUME StringsOK, SentIsWritten, [InputsNext]_inputs PROVE SentIsWritten'
    OBVIOUS
  <2>2. CASE UNCHANGED sent
    BY <2>1, <2>2 DEF SentIsWritten
  <2>3. CASE Send
    <3>1. PICK p \in Packets : sent' = Append(sent, p)
      BY <2>3 DEF Send
    <3>2. NameOK
      <4>1. Len(topic) <= MaxName
        BY <2>3 DEF Send
      <4>2. QED
        BY <2>1, <4>1, NamesAreText
    <3>3. p \in Written
      BY <3>2, PacketsAreWritten
    <3>4. QED
      BY <2>1, <3>1, <3>3, AppendProperties DEF SentIsWritten
  <2>4. QED
    BY <2>1, <2>2, <2>3 DEF InputsNext, inputs, LongerTopic, LongerFilter
<1>3. SentIsWritten => WholePacketsAreRead
  BY WrittenAreHandled DEF SentIsWritten
<1>4. QED
  BY <1>1, <1>2, <1>3, StringsStayStrings, PTL DEF InputsSpec
=============================================================================
