------------------------------- MODULE MCMqtt -------------------------------
(***************************************************************************)
(* The inputs on which the functions of package mqtt are checked: all      *)
(* topics and filters over an alphabet up to a length, one character after *)
(* the other, for TopicMatch; and packets about the shortest topics,       *)
(* written one after the other, for Codec.                                 *)
(***************************************************************************)
EXTENDS TopicMatch, Codec

CONSTANTS
    TopicChars,   \* the characters of topics
    FilterChars,  \* the characters of filters
    MaxTopic,     \* bound: length of a topic
    MaxFilter,    \* bound: length of a filter
    MaxName,      \* bound: length of a topic that packets name
    MaxSent       \* bound: packets on a connection

VARIABLES topic, filter, sent

inputs == <<topic, filter, sent>>

InputsInit == topic = <<>> /\ filter = <<>> /\ sent = <<>>

LongerTopic(c) ==
    /\ Len(topic) < MaxTopic /\ sent = <<>>
    /\ topic' = Append(topic, c)
    /\ UNCHANGED <<filter, sent>>

LongerFilter(c) ==
    /\ Len(filter) < MaxFilter /\ sent = <<>>
    /\ filter' = Append(filter, c)
    /\ UNCHANGED <<topic, sent>>

-----------------------------------------------------------------------------

(* The bytes of a name.                                                    *)
Code(c) == CASE c = "a" -> 97 [] c = "/" -> 47 [] c = "." -> 46
Name == [i \in DOMAIN topic |-> Code(topic[i])]

(* Names are ASCII, which JSON keeps (bytes that are no characters are     *)
(* replaced), and no longer than the two bytes of their length can say.    *)
ASSUME CodeAssumption == \A c \in TopicChars : Code(c) \in 0..127
ASSUME MaxNameAssumption == MaxName \in 0..65535

(* Payloads: empty, with the first and last printable bytes, with the      *)
(* bytes next to them and one that is no ASCII, and so long that the       *)
(* length of the packet takes one byte or two, as the name and QoS may be. *)
Payloads == {<<>>, <<32, 127>>, <<31>>, <<255, 128>>, [i \in 1..124 |-> 97]}

Wills ==
    {[topic |-> Name, message |-> <<104, 0>>, qos |-> qos, retain |-> qos = 1] : qos \in 0..2}

Connects ==
    {NewConnect(<<99>>, clean, 256, wills, [user |-> user, password |-> password]) :
        clean \in BOOLEAN, user \in {<<>>, <<117>>}, password \in {<<>>, <<112, 255>>},
        wills \in {{}} \cup {{w} : w \in Wills}}

Publishes ==
    {NewPublish(IF qos = 0 THEN 0 ELSE 256, Name, payload, qos, qos = 1, retain) :
        payload \in Payloads, qos \in 0..2, retain \in BOOLEAN}

Subscribes ==
    {[tp |-> "SUBSCRIBE", id |-> 255,
      topics |-> [i \in 1..n |-> [name |-> Name, qos |-> i - 1]]] : n \in 0..3}
      \cup {[tp |-> "UNSUBSCRIBE", id |-> 256, topics |-> [i \in 1..n |-> Name]] :
               n \in 0..3}

Acks ==
    [tp : IdOnly, id : {1, 65535}] \cup [tp : Empty]
      \cup [tp : {"CONNACK"}, flags : 0..1, returnCode : {0, 5}]
      \cup [tp : {"SUBACK"}, id : {256}, topicReturns : {<<>>, <<128>>, <<0, 1, 128>>}]

Packets ==
    Connects \cup {DeleteWill(c) : c \in Connects} \cup Subscribes \cup Acks
      \cup Publishes \cup {[p EXCEPT !.replyTo = <<95>>] :
                         p \in {q \in Publishes : QoSLevel(q.flags) = 1}}

Send ==
    /\ Len(topic) <= MaxName /\ filter = <<>> /\ Len(sent) < MaxSent
    /\ \E p \in Packets : sent' = Append(sent, p)
    /\ UNCHANGED <<topic, filter>>

InputsNext ==
    \/ \E c \in TopicChars : LongerTopic(c)
    \/ \E c \in FilterChars : LongerFilter(c)
    \/ Send

InputsSpec == InputsInit /\ [][InputsNext]_inputs

-----------------------------------------------------------------------------

MayMatch == ValidTopic(topic) /\ ValidFilter(filter)
ParentLevel == Len(Split(topic, "/")) < Len(Split(filter, "/"))

(* The conversions of topics and of filters are their own inverses         *)
(* (FromNATS and FromNATSSubscription call them), so a message comes back  *)
(* from NATS with the topic it was published on.                           *)
RoundTrips ==
    /\ FromNATS(ToNATS(topic)) = topic
    /\ FromNATSSubscription(ToNATSSubscription(filter)) = filter

(* A subscriber gets the live messages that MQTT says its filter matches,  *)
(* except those of the parent of "#", although topics and filters are      *)
(* converted by different functions and matched by NATS.                   *)
LiveIsMqtt ==
    MayMatch => LiveMatch(filter, topic) = (MqttMatch(filter, topic) /\ ~ParentLevel)

(* Without "+", a subscriber is sent at least the retained messages on the *)
(* topics whose live messages it gets, and so is a NATS client that asks   *)
(* for them with the same filter.                                          *)
LiveIsRetained ==
    MayMatch /\ "+" \notin ToSet(filter) /\ LiveMatch(filter, topic)
        => RetainedMatch(filter, topic) /\ RequestMatch(ToNATSSubscription(filter), topic)

-----------------------------------------------------------------------------

(* The longest part of what was sent that MQTT allows on a connection to   *)
(* the bridge: CONNECT comes first and once, DISCONNECT last, and only a   *)
(* client sends packets.                                                   *)
FromClient(p) == p.tp \notin {"CONNACK", "SUBACK", "UNSUBACK", "PINGRESP"}
Allowed ==
    LET legal(i) == /\ FromClient(sent[i]) /\ (sent[i].tp = "CONNECT" <=> i = 1)
                    /\ \A j \in 1..(i - 1) : sent[j].tp # "DISCONNECT"
        n == CHOOSE k \in 0..Len(sent) :
                /\ \A i \in 1..k : legal(i)
                /\ k = Len(sent) \/ ~legal(k + 1)
    IN  SubSeq(sent, 1, n)

Stream(packets) == Joined([i \in DOMAIN packets |-> Write(packets[i])])

(* What a PUBLISH does not carry.                                          *)
OnTheWire(p) == IF p.tp = "PUBLISH" THEN [p EXCEPT !.replyTo = <<>>] ELSE p
Carried(packets) == [i \in DOMAIN packets |-> OnTheWire(packets[i])]

(* However much of what was sent arrives before the connection breaks, the *)
(* read loop handles exactly the packets that arrived whole, each as it    *)
(* was sent, and none that MQTT does not allow there; and so does the peer *)
(* with what the bridge writes.  The lengths that Write computes therefore *)
(* keep reader and writer in step.                                         *)
WholePacketsAreRead ==
    sent # <<>> =>
        LET before  == Stream(Front(sent))
            last    == Write(Last(sent))
            whole   == IF Allowed = sent THEN Front(sent) ELSE Allowed
        IN  /\ \A n \in 0..(Len(last) - 1) :
                  LET arrived == before \o SubSeq(last, 1, n)
                  IN  /\ Handled("infant", arrived) = Carried(whole)
                      /\ Handled("peer", arrived) = Carried(Front(sent))
            /\ Handled("infant", before \o last) = Carried(Allowed)
            /\ Handled("peer", before \o last) = Carried(sent)

(* A PUBLISH that is persisted, with the session that awaits its PUBACK,   *)
(* as a will or as a retained message, comes back as it was, also when its *)
(* payload is no text.                                                     *)
PersistedIsKept ==
    \A i \in DOMAIN sent : sent[i].tp = "PUBLISH" =>
        UnmarshalFromJSON(MarshalToJSON(sent[i])) = sent[i]
=============================================================================
