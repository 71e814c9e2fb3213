---------------------------- MODULE MCDeliverAck ----------------------------
(* Sets of messages for the instances of DeliverAck that TLC checks.       *)
EXTENDS DeliverAck

NatsMessage(m, after) ==
    [m |-> m, from |-> "nats", id |-> 0, qos |-> 1, after |-> after]
BridgeMessage(m, id, after) ==
    [m |-> m, from |-> "bridge", id |-> id, qos |-> 1, after |-> after]
RetainedMessage(m, id, qos) ==
    [m |-> m, from |-> "retained", id |-> id, qos |-> qos, after |-> None]

(* Two messages of NATS clients, the second of which may get the packet id *)
(* that the first has released; one of a bridge, whose id the manager does *)
(* not use; and one retained, also published with an id of its own.        *)
EachKind ==
    {NatsMessage("n1", None), NatsMessage("n2", "n1"), BridgeMessage("b1", 9, "n1"),
     RetainedMessage("r1", 8, 1)}
=============================================================================
