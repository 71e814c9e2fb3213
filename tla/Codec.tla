------------------------------- MODULE Codec -------------------------------
(***************************************************************************)
(* MQTT packets as bytes: the Write methods and Parse functions of         *)
(* mqtt/pkg, the Reader and Writer of package mqtt they are built on, and   *)
(* the order in which the read loop of bridge/client.go uses them.  Also   *)
(* the JSON of a PUBLISH, in which sessions, wills and retained messages   *)
(* are persisted.                                                          *)
(*                                                                         *)
(* A byte is a number.  A packet is the record of its struct; will and     *)
(* creds are there also when they are nil, the flags say whether they      *)
(* count.  A read that ends early, at the end of the stream, is an error   *)
(* like any other.                                                         *)
(***************************************************************************)
EXTENDS Naturals, Sequences, SequencesExt

Byte == 0..255
Bytes == Seq(Byte)

(* Is the bit with this value set?                                         *)
Bit(flags, value) == (flags \div value) % 2 = 1
Flag(condition, value) == IF condition THEN value ELSE 0

(* The high half of the first byte of each packet.                         *)
TypeCode ==
    [CONNECT |-> 1, CONNACK |-> 2, PUBLISH |-> 3, PUBACK |-> 4, PUBREC |-> 5,
     PUBREL |-> 6, PUBCOMP |-> 7, SUBSCRIBE |-> 8, SUBACK |-> 9,
     UNSUBSCRIBE |-> 10, UNSUBACK |-> 11, PINGREQ |-> 12, PINGRESP |-> 13,
     DISCONNECT |-> 14]
Types == DOMAIN TypeCode
IdOnly == {"PUBACK", "PUBREC", "PUBREL", "PUBCOMP", "UNSUBACK"}
Empty == {"PINGREQ", "PINGRESP", "DISCONNECT"}

-----------------------------------------------------------------------------
(* Packets.                                                                *)

QoSLevel(flags) == (flags \div 2) % 4

Retain == 1
PublishDup == 8

(* NewPublish2                                                             *)
NewPublish(id, name, payload, qos, dup, retain) ==
    [tp |-> "PUBLISH", id |-> id, name |-> name, payload |-> payload, replyTo |-> <<>>,
     flags |-> qos * 2 + Flag(dup, PublishDup) + Flag(retain, Retain)]

HasWill(flags) == Bit(flags, 4)
HasPassword(flags) == Bit(flags, 64)
HasUserName(flags) == Bit(flags, 128)

NoWill == [topic |-> <<>>, message |-> <<>>, qos |-> 0, retain |-> FALSE]
NoCreds == [user |-> <<>>, password |-> <<>>]

(* What the flags of a CONNECT say of its will.                            *)
WillFlags(will) == 4 + will.qos * 8 + Flag(will.retain, 32)

(* NewConnect, with wills a set of at most one will.                       *)
NewConnect(clientID, clean, keepAlive, wills, creds) ==
    [tp |-> "CONNECT", clientID |-> clientID, keepAlive |-> keepAlive,
     clientLevel |-> 4, creds |-> creds,
     will |-> IF wills = {} THEN NoWill ELSE CHOOSE w \in wills : TRUE,
     flags |-> Flag(clean, 2) + Flag(creds.password # <<>>, 64)
                 + Flag(creds.user # <<>>, 128)
                 + IF wills = {} THEN 0 ELSE WillFlags(CHOOSE w \in wills : TRUE)]

(* DeleteWill clears the flags that WillFlags sets.                        *)
DeleteWillOnly(c) == [c EXCEPT !.will = NoWill, !.flags = @ - 4]
DeleteWill(c) ==
    IF HasWill(c.flags)
    THEN [c EXCEPT !.will = NoWill, !.flags = @ - WillFlags(c.will)] ELSE c

-----------------------------------------------------------------------------
(* Writer.                                                                 *)

WriteU16(n) == <<(n \div 256) % 256, n % 256>>
WriteString(s) == WriteU16(Len(s)) \o s

(* Seven bits a byte, the lowest first, the eighth says that more follow.  *)
WriteVarInt[n \in Nat] ==
    IF n < 128 THEN <<n>> ELSE <<128 + (n % 128)>> \o WriteVarInt[n \div 128]

(* The last so many numbers added up, and parts one after the other.       *)
LastAdded(ns) ==
    LET added[i \in 0..Len(ns)] ==
            IF i = 0 THEN 0 ELSE ns[Len(ns) - i + 1] + added[i - 1]
    IN  added
LastJoined(parts) ==
    LET joined[i \in 0..Len(parts)] ==
            IF i = 0 THEN <<>> ELSE parts[Len(parts) - i + 1] \o joined[i - 1]
    IN  joined
Total(ns) == LastAdded(ns)[Len(ns)]
Joined(parts) == LastJoined(parts)[Len(parts)]

(* The length each Write method computes before it writes.                 *)
PublishLenWithoutId(p) == 2 + Len(p.name) + Len(p.payload)
PublishLen(p) ==
    2 + Len(p.name) + Len(p.payload) + Flag(QoSLevel(p.flags) > 0, 2)

ConnectLen(c) ==
    6 + 1 + 1 + 2 + 2 + Len(c.clientID)
      + Flag(HasWill(c.flags), 4 + Len(c.will.topic) + Len(c.will.message))
      + Flag(HasUserName(c.flags), 2 + Len(c.creds.user))
      + Flag(HasPassword(c.flags), 2 + Len(c.creds.password))

PkLen(p) ==
    CASE p.tp \in Empty -> 0
      [] p.tp \in IdOnly \cup {"CONNACK"} -> 2
      [] p.tp = "PUBLISH" -> PublishLen(p)
      [] p.tp = "CONNECT" -> ConnectLen(p)
      [] p.tp = "SUBSCRIBE" -> 2 + Total([i \in DOMAIN p.topics |-> 3 + Len(p.topics[i].name)])
      [] p.tp = "UNSUBSCRIBE" -> 2 + Total([i \in DOMAIN p.topics |-> 2 + Len(p.topics[i])])
      [] p.tp = "SUBACK" -> 2 + Len(p.topicReturns)

(* What it writes after that length.                                       *)
When(condition, bs) == IF condition THEN bs ELSE <<>>

ConnectBody(c) ==
    WriteString(<<77, 81, 84, 84>>) \o <<c.clientLevel, c.flags>>
      \o WriteU16(c.keepAlive) \o WriteString(c.clientID)
      \o When(HasWill(c.flags), WriteString(c.will.topic) \o WriteString(c.will.message))
      \o When(HasUserName(c.flags), WriteString(c.creds.user))
      \o When(HasPassword(c.flags), WriteString(c.creds.password))

Body(p) ==
    CASE p.tp \in Empty -> <<>>
      [] p.tp \in IdOnly -> WriteU16(p.id)
      [] p.tp = "CONNACK" -> <<p.flags, p.returnCode>>
      [] p.tp = "PUBLISH" ->
            WriteString(p.name) \o When(QoSLevel(p.flags) > 0, WriteU16(p.id)) \o p.payload
      [] p.tp = "CONNECT" -> ConnectBody(p)
      [] p.tp = "SUBSCRIBE" ->
            WriteU16(p.id) \o Joined([i \in DOMAIN p.topics |->
                                        WriteString(p.topics[i].name) \o <<p.topics[i].qos>>])
      [] p.tp = "UNSUBSCRIBE" ->
            WriteU16(p.id) \o Joined([i \in DOMAIN p.topics |-> WriteString(p.topics[i])])
      [] p.tp = "SUBACK" -> WriteU16(p.id) \o p.topicReturns

HeaderFlags(p) ==
    CASE p.tp = "PUBLISH" -> p.flags
      [] p.tp \in {"SUBSCRIBE", "UNSUBSCRIBE"} -> 2
      [] OTHER -> 0

Write(p) ==
    <<TypeCode[p.tp] * 16 + HeaderFlags(p)>> \o WriteVarInt[PkLen(p)] \o Body(p)

-----------------------------------------------------------------------------
(* Reader.                                                                 *)

U16(bs) == bs[1] * 256 + bs[2]

(* ReadVarInt takes at most four bytes, which weigh 128 times more each.   *)
Weights == <<1, 128, 16384, 2097152>>
ReadVarInt(bs) ==
    LET ends == {i \in DOMAIN bs : i <= Len(Weights) /\ bs[i] < 128}
        n    == CHOOSE i \in ends : \A j \in ends : i <= j
    IN  IF ends = {} THEN [ok |-> FALSE]
        ELSE [ok |-> TRUE, rest |-> SubSeq(bs, n + 1, Len(bs)),
              v |-> Total([i \in 1..n |-> (bs[i] % 128) * Weights[i]])]

(* ReadByte, ReadUint16, ReadString or ReadBytes, and ReadRemainingBytes:  *)
(* the bytes each takes and the value it gives.                            *)
Size(kind, bs) ==
    CASE kind = "byte" -> 1
      [] kind = "u16" -> 2
      [] kind = "string" -> IF Len(bs) < 2 THEN 2 ELSE 2 + U16(bs)
      [] kind = "rest" -> Len(bs)

Value(kind, bs) ==
    CASE kind = "byte" -> bs[1]
      [] kind = "u16" -> U16(bs)
      [] kind = "string" -> SubSeq(bs, 3, 2 + U16(bs))
      [] kind = "rest" -> bs

(* One read after the other until one fails.                               *)
ReadField(r, kind) ==
    LET n == Size(kind, r.rest)
    IN  IF r.ok /\ n <= Len(r.rest)
        THEN [ok |-> TRUE, vals |-> Append(r.vals, Value(kind, r.rest)),
              rest |-> SubSeq(r.rest, n + 1, Len(r.rest))]
        ELSE [r EXCEPT !.ok = FALSE]

FieldsRead(kinds, bs) ==
    LET read[i \in 0..Len(kinds)] ==
            IF i = 0 THEN [ok |-> TRUE, vals |-> <<>>, rest |-> bs]
            ELSE ReadField(read[i - 1], kinds[i])
    IN  read
ReadFields(kinds, bs) == FieldsRead(kinds, bs)[Len(kinds)]

(* A packet id, and the fields of a topic until nothing is left: the way   *)
(* to do so, if there is one.                                              *)
Repeated(kinds, k) == [i \in 1..(k * Len(kinds)) |-> kinds[((i - 1) % Len(kinds)) + 1]]
ReadTopics(kinds, bs) ==
    LET readings == {ReadFields(<<"u16">> \o Repeated(kinds, k), bs) : k \in 0..Len(bs)}
    IN  {r \in readings : r.ok /\ r.rest = <<>>}

-----------------------------------------------------------------------------
(* The Parse functions, given the flags of the first byte and the bytes of  *)
(* the packet.                                                             *)

Error == [tp |-> "error"]

ParsePublish(flags, bs) ==
    LET id == When(QoSLevel(flags) > 0, <<"u16">>)
        r  == ReadFields(<<"string">> \o id \o <<"rest">>, bs)
    IN  IF ~r.ok THEN Error
        ELSE [tp |-> "PUBLISH", flags |-> flags, name |-> r.vals[1], replyTo |-> <<>>,
              id |-> IF id = <<>> THEN 0 ELSE r.vals[2], payload |-> Last(r.vals)]

(* Protocol name and level; flags, keep alive and client id; and what the  *)
(* flags announce.                                                         *)
Announced(flags) ==
    When(HasWill(flags), <<"string", "string">>)
      \o When(HasUserName(flags), <<"string">>) \o When(HasPassword(flags), <<"string">>)

ParseConnect(bs) ==
    LET head  == ReadFields(<<"string", "byte", "byte", "u16", "string">>, bs)
        flags == head.vals[3]
        r     == ReadFields(Announced(flags), head.rest)
        user  == Flag(HasWill(flags), 2) + 1
        pass  == user + Flag(HasUserName(flags), 1)
    IN  IF ~head.ok \/ head.vals[1] # <<77, 81, 84, 84>> \/ head.vals[2] # 4 \/ ~r.ok
        THEN Error
        ELSE [tp |-> "CONNECT", clientLevel |-> 4, flags |-> flags,
              keepAlive |-> head.vals[4], clientID |-> head.vals[5],
              will |-> IF HasWill(flags)
                       THEN [topic |-> r.vals[1], message |-> r.vals[2],
                             qos |-> (flags \div 8) % 4, retain |-> Bit(flags, 32)]
                       ELSE NoWill,
              creds |-> [user |-> When(HasUserName(flags), r.vals[user]),
                         password |-> When(HasPassword(flags), r.vals[pass])]]

ParseSubscribe(flags, bs) ==
    LET readings == ReadTopics(<<"string", "byte">>, bs)
        v == (CHOOSE r \in readings : TRUE).vals
        topics == [i \in 1..(Len(v) \div 2) |-> [name |-> v[2 * i], qos |-> v[2 * i + 1]]]
    IN  IF flags # 2 \/ readings = {} \/ \E i \in DOMAIN topics : topics[i].qos > 2
        THEN Error
        ELSE [tp |-> "SUBSCRIBE", id |-> v[1], topics |-> topics]

ParseUnsubscribe(flags, bs) ==
    LET readings == ReadTopics(<<"string">>, bs)
        v == (CHOOSE r \in readings : TRUE).vals
    IN  IF flags # 2 \/ readings = {} THEN Error
        ELSE [tp |-> "UNSUBSCRIBE", id |-> v[1], topics |-> Tail(v)]

ParseSubAck(bs) ==
    IF Len(bs) < 2 THEN Error
    ELSE [tp |-> "SUBACK", id |-> U16(bs), topicReturns |-> SubSeq(bs, 3, Len(bs))]

ParseConnAck(bs) ==
    IF Len(bs) # 2 THEN Error
    ELSE [tp |-> "CONNACK", flags |-> bs[1], returnCode |-> bs[2]]

ParseId(tp, bs) == IF Len(bs) # 2 THEN Error ELSE [tp |-> tp, id |-> U16(bs)]

Parse(tp, flags, bs) ==
    CASE tp \in Empty -> [tp |-> tp]
      [] tp \in IdOnly -> ParseId(tp, bs)
      [] tp = "CONNACK" -> ParseConnAck(bs)
      [] tp = "PUBLISH" -> ParsePublish(flags, bs)
      [] tp = "CONNECT" -> ParseConnect(bs)
      [] tp = "SUBSCRIBE" -> ParseSubscribe(flags, bs)
      [] tp = "UNSUBSCRIBE" -> ParseUnsubscribe(flags, bs)
      [] tp = "SUBACK" -> ParseSubAck(bs)

-----------------------------------------------------------------------------
(* The read loop.  The reader is the bridge, whose client is an infant or  *)
(* connected, or the peer that reads what the bridge writes.               *)
AcceptsAll(reader, tp) == TRUE
Accepts(reader, tp) ==
    CASE reader = "infant" -> tp = "CONNECT"
      [] reader = "connected" ->
            tp \notin {"CONNECT", "CONNACK", "SUBACK", "UNSUBACK", "PINGRESP"}
      [] reader = "peer" -> TRUE

TypeOf(b) == CHOOSE tp \in Types : TypeCode[tp] = b \div 16
Known(b) == \E tp \in Types : TypeCode[tp] = b \div 16

(* The next packet and what follows it.                                    *)
ReadPacket(reader, bs) ==
    LET tp     == TypeOf(bs[1])
        length == ReadVarInt(Tail(bs))
        taken  == IF tp \in Empty THEN 0 ELSE length.v
    IN  IF bs = <<>> \/ ~Known(bs[1]) \/ ~Accepts(reader, tp) \/ ~length.ok
           \/ taken > Len(length.rest)
        THEN [p |-> Error]
        ELSE [p |-> Parse(tp, bs[1] % 16, SubSeq(length.rest, 1, taken)),
              rest |-> SubSeq(length.rest, taken + 1, Len(length.rest))]

Readers == {"infant", "connected", "peer"}
After(reader) == IF reader = "infant" THEN "connected" ELSE reader
Ends(reader, p) == p.tp = "DISCONNECT" /\ reader = "connected"

(* The packets the loop handles before it ends.                            *)
ReadLoop[at \in Readers \X Bytes] ==
    LET r == ReadPacket(at[1], at[2])
    IN  IF r.p.tp = "error" THEN <<>>
        ELSE <<r.p>> \o When(~Ends(at[1], r.p), ReadLoop[<<After(at[1]), r.rest>>])
Handled(reader, bs) == ReadLoop[<<reader, bs>>]

-----------------------------------------------------------------------------
(* MarshalToJSON and UnmarshalFromJSON of a PUBLISH.  A JSON string keeps  *)
(* the characters of ASCII; bytes that are no characters are replaced.     *)
Replaced == 65533
JSONString(s) == [i \in DOMAIN s |-> IF s[i] < 128 THEN s[i] ELSE Replaced]

AlwaysPrintable(bs) == TRUE
IsPrintableASCII(bs) == \A i \in DOMAIN bs : bs[i] \in 32..127

(* The members that are written; base64 keeps every byte.                  *)
MarshalToJSON(p) ==
    LET payload == IF p.payload = <<>> THEN {}
                   ELSE IF IsPrintableASCII(p.payload)
                        THEN {[key |-> "payload", value |-> JSONString(p.payload)]}
                        ELSE {[key |-> "payloadEnc", value |-> p.payload]}
        replyTo == IF p.replyTo = <<>> THEN {}
                   ELSE {[key |-> "replyTo", value |-> JSONString(p.replyTo)]}
    IN  {[key |-> "flags", value |-> <<p.flags>>], [key |-> "id", value |-> <<p.id>>],
         [key |-> "name", value |-> JSONString(p.name)]} \cup payload \cup replyTo

(* The value of the member with one of the keys, or what it is without.    *)
MemberOf(json, keys, default) ==
    LET found == {m \in json : m.key \in keys}
    IN  IF found = {} THEN default ELSE (CHOOSE m \in found : TRUE).value

UnmarshalFromJSON(json) ==
    [tp |-> "PUBLISH", flags |-> MemberOf(json, {"flags"}, <<0>>)[1],
     id |-> MemberOf(json, {"id"}, <<0>>)[1],
     name |-> MemberOf(json, {"name"}, <<>>),
     replyTo |-> MemberOf(json, {"replyTo"}, <<>>),
     payload |-> MemberOf(json, {"payload", "payloadEnc"}, <<>>)]
=============================================================================
