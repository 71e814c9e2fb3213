---------------------------- MODULE Subscriptions ----------------------------
(***************************************************************************)
(* The subscriptions of one client: natsSubscribe and natsUnsubscribe in   *)
(* bridge/nats.go.  The map natsSubs says which NATS subscription stands   *)
(* for which filter.  A SUBSCRIBE removes the entries of its filters,      *)
(* cancels their subscriptions, makes new ones and enters those; an        *)
(* UNSUBSCRIBE removes and cancels.  NATS knows what is live, the client   *)
(* knows what the acknowledgements say.                                    *)
(*                                                                         *)
(* A filter is already converted to a NATS subject: the conversion is      *)
(* injective (MqttProofs).                                                 *)
(***************************************************************************)
EXTENDS Naturals, Sequences, FiniteSets

CONSTANTS
    Filters,     \* the filters the client uses
    MaxTopics,   \* bound: filters in one packet
    MaxPackets,  \* bound: packets the client sends
    MaxMade      \* bound: subscriptions made

ASSUME BoundsAssumption ==
    MaxTopics \in Nat \ {0} /\ MaxPackets \in Nat /\ MaxMade \in Nat

VARIABLES
    natsSubs,  \* per filter the subscription that stands for it, 0 for none
    made,      \* the subscriptions made so far, with filter and QoS
    live,      \* those NATS delivers to
    handler,   \* place of the read loop, its packet, and the locals of the
               \* handler: subscriptions to cancel, made, and the return codes
    granted,   \* what the last acknowledgement told the client per filter
    twice,     \* ghost: filters that one SUBSCRIBE named twice
    packets

vars == <<natsSubs, made, live, handler, granted, twice, packets>>

Failed == 128    \* the return code 0x80
None == 255      \* unsubscribed, or never subscribed
QoSLevels == 0..2

(* The topics of a packet; an UNSUBSCRIBE has no QoS.                      *)
Topics == UNION {[1..n -> [name : Filters, qos : QoSLevels]] : n \in 1..MaxTopics}
Named(topics) == {topics[i].name : i \in DOMAIN topics}
TwiceIn(topics) ==
    {topics[i].name : i \in {j \in DOMAIN topics :
                        \E k \in DOMAIN topics : k # j /\ topics[k].name = topics[j].name}}

Idle == [at |-> "read", topics |-> <<>>, cancel |-> {}, nss |-> {}, codes |-> <<>>]

(* NewClient, after CONNECT.                                               *)
Init ==
    /\ natsSubs = [f \in Filters |-> 0]
    /\ made = <<>> /\ live = {}
    /\ handler = Idle
    /\ granted = [f \in Filters |-> None]
    /\ twice = {} /\ packets = 0

-----------------------------------------------------------------------------
(* The first critical section of both handlers: the entries of the packet's *)
(* filters are removed and their subscriptions collected.                  *)
CollectsNothing(topics) == {}
CollectsAll(topics) == {natsSubs[f] : f \in Filters} \ {0}
Collected(topics) == {natsSubs[f] : f \in Named(topics)} \ {0}
WithoutEntries(topics) ==
    [f \in Filters |-> IF f \in Named(topics) THEN 0 ELSE natsSubs[f]]

Read(topics, at) ==
    /\ handler.at = "read" /\ packets < MaxPackets
    /\ packets' = packets + 1
    /\ handler' = [Idle EXCEPT !.at = at, !.topics = topics,
                               !.cancel = Collected(topics)]
    /\ natsSubs' = WithoutEntries(topics)
    /\ UNCHANGED <<made, live, granted>>

Subscribe(topics) ==
    /\ Read(topics, "resubscribe")
    /\ twice' = twice \cup TwiceIn(topics)

Unsubscribe(topics) ==
    /\ \A i \in DOMAIN topics : topics[i].qos = 0
    /\ Read(topics, "unsubscribe")
    /\ UNCHANGED twice

(* cancelNatsSubscriptions                                                 *)
CancelNatsSubscriptions ==
    /\ handler.at \in {"resubscribe", "unsubscribe"}
    /\ \/ \E ns \in handler.cancel :
            /\ live' = live \ {ns}
            /\ handler' = [handler EXCEPT !.cancel = @ \ {ns}]
       \/ /\ handler.cancel = {}
          /\ handler' = [handler EXCEPT
                !.at = IF @ = "resubscribe" THEN "subscribe" ELSE "unsuback"]
          /\ UNCHANGED live
    /\ UNCHANGED <<natsSubs, made, granted, twice, packets>>

(* The loop over the filters: each is subscribed to, with QoS 1 at most, ... *)
Topic == handler.topics[Len(handler.codes) + 1]
Capped(qos) == IF qos > 1 THEN 1 ELSE qos

More == handler.at = "subscribe" /\ Len(handler.codes) < Len(handler.topics)

NatsSubscribe ==
    /\ More /\ Len(made) < MaxMade
    /\ made' = Append(made, [name |-> Topic.name, qos |-> Capped(Topic.qos)])
    /\ live' = live \cup {Len(made')}
    /\ handler' = [handler EXCEPT !.nss = @ \cup {Len(made')},
                                  !.codes = Append(@, Capped(Topic.qos))]
    /\ UNCHANGED <<natsSubs, granted, twice, packets>>

(* ... or the return code says that it was not.                            *)
NatsSubscribeFails ==
    /\ More
    /\ handler' = [handler EXCEPT !.codes = Append(@, Failed)]
    /\ UNCHANGED <<natsSubs, made, live, granted, twice, packets>>

(* The second critical section enters what was made, the last for a filter *)
(* that is named twice, and the acknowledgement is queued.                 *)
MadeFor(f) == {ns \in handler.nss : made[ns].name = f}
LastFor(f) == CHOOSE ns \in MadeFor(f) : \A other \in MadeFor(f) : ns >= other
FirstCode(f) == handler.codes[1]
CodeFor(f) ==
    LET named == {i \in DOMAIN handler.topics : handler.topics[i].name = f}
    IN  handler.codes[CHOOSE i \in named : \A j \in named : i >= j]

SubAck ==
    /\ handler.at = "subscribe" /\ Len(handler.codes) = Len(handler.topics)
    /\ natsSubs' = [f \in Filters |->
                      IF MadeFor(f) = {} THEN natsSubs[f] ELSE LastFor(f)]
    /\ granted' = [f \in Filters |->
                     IF f \in Named(handler.topics) THEN CodeFor(f) ELSE granted[f]]
    /\ handler' = Idle
    /\ UNCHANGED <<made, live, twice, packets>>

UnsubAck ==
    /\ handler.at = "unsuback"
    /\ granted' = [f \in Filters |->
                     IF f \in Named(handler.topics) THEN None ELSE granted[f]]
    /\ handler' = Idle
    /\ UNCHANGED <<natsSubs, made, live, twice, packets>>

NatsSubscribes == NatsSubscribe \/ NatsSubscribeFails \/ SubAck

Next ==
    \/ \E topics \in Topics : Subscribe(topics) \/ Unsubscribe(topics)
    \/ CancelNatsSubscriptions \/ NatsSubscribes \/ UnsubAck

Spec == Init /\ [][Next]_vars

-----------------------------------------------------------------------------
Subs == DOMAIN made
TypeOK ==
    /\ made \in Seq([name : Filters, qos : 0..1])
    /\ live \subseteq Subs
    /\ natsSubs \in [Filters -> {0} \cup Subs]
    /\ granted \in [Filters -> {0, 1, Failed, None}]
    /\ handler \in [at : {"read", "resubscribe", "subscribe", "unsubscribe", "unsuback"},
                    topics : Seq([name : Filters, qos : QoSLevels]),
                    cancel : SUBSET Subs, nss : SUBSET Subs, codes : Seq({0, 1, Failed})]
    /\ twice \subseteq Filters /\ packets \in 0..MaxPackets

LiveFor(f) == {ns \in live : made[ns].name = f}

(* Between packets the acknowledgements tell the truth: a filter for which *)
(* the client was granted a QoS has one live subscription, with that QoS,  *)
(* so that a message comes once; one that was refused, or unsubscribed     *)
(* from, has none.  Except for filters a SUBSCRIBE has named twice.        *)
AcksAreTrue ==
    handler.at = "read" => \A f \in Filters \ twice :
        IF granted[f] \in {0, 1}
        THEN \E ns \in live : LiveFor(f) = {ns} /\ made[ns].qos = granted[f]
        ELSE LiveFor(f) = {}

(* What NATS delivers to can be cancelled: its subscription is in natsSubs *)
(* or is being worked on by the handler.                                   *)
LiveIsKnown ==
    \A ns \in live : made[ns].name \in twice
        \/ natsSubs[made[ns].name] = ns
        \/ ns \in handler.cancel \cup handler.nss

(* A packet does not touch the subscriptions of filters it does not name.  *)
OthersUndisturbed ==
    [][\A f \in Filters \ Named(handler.topics) : LiveFor(f)' = LiveFor(f)]_vars
=============================================================================
