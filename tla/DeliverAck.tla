----------------------------- MODULE DeliverAck -----------------------------
(***************************************************************************)
(* How a message reaches an MQTT client that subscribed with QoS 1, and    *)
(* how the client's PUBACK becomes the reply: natsResponse (bridge/nats.go)*)
(* PublishResponse and the PUBACK and SUBSCRIBE cases of readLoop          *)
(* (bridge/client.go), the part of a session that awaits acknowledgements  *)
(* of the client (bridge/session.go), retained messages sent to a new      *)
(* subscriber (bridge/retained.go), and what a restart keeps of it.        *)
(*                                                                         *)
(* NATS, the publishers and the MQTT clients are the environment.  The     *)
(* packet id manager is used here as IDManager shows it to be correct:     *)
(* an allocation is atomic and returns an id that is not in flight.        *)
(***************************************************************************)
EXTENDS Naturals, FiniteSets, Sequences

CONSTANTS
    ClientIds,    \* MQTT client identifiers of the subscribers
    Conns,        \* client objects (connections) that may exist at once
    Ids,          \* the packet ids the bridge allocates from
    Messages,     \* records [m, from, id, qos, after], see Kinds
    CleanFlags,   \* the values of the clean session flag clients connect with
    Takeover,     \* may a client connect before its old connection is gone?
    MaxSeed,      \* bound: session ids
    MaxRestarts,  \* bound: graceful restarts
    MaxCrashes,   \* bound: crashes
    None

(* Where a message comes from: a NATS client that gives a reply-to subject *)
(* of its own; an MQTT client of a bridge, whose reply-to subject carries  *)
(* the packet id it chose; the retained messages, with the packet id and   *)
(* QoS they were published with and no reply-to.  A message of QoS 0 has   *)
(* packet id zero and, from NATS, no reply-to.  A message with "after"     *)
(* is published by a client that waits for the reply to an earlier one,    *)
(* because it uses the same packet id.                                     *)
Kinds == {"nats", "bridge", "retained"}

ASSUME IdsAssumption == Ids \subseteq Nat \ {0}
ASSUME FlagsAssumption == CleanFlags \subseteq BOOLEAN /\ Takeover \in BOOLEAN
ASSUME NoneAssumption == None \notin ClientIds \cup Conns \cup Messages
ASSUME MessagesAssumption ==
    /\ \A x \in Messages : x.from \in Kinds /\ x.qos \in Nat /\ (x.qos = 0 => x.id = 0)
    /\ \A x, y \in Messages : x.m = y.m => x = y
ASSUME BoundsAssumption ==
    MaxSeed \in Nat \ {0} /\ MaxRestarts \in Nat /\ MaxCrashes \in Nat

VARIABLES
    conn,      \* the client objects
    sm,        \* session manager: client id -> id of its session, 0 if none
    seed,      \* the number the last session id was made from
    sess,      \* session id -> its awaitsClientAck: packet id -> message
    inFlight,  \* the packet id manager's reservations
    inbox,     \* messages NATS delivered to a connection's subscription
    queue,     \* PUBLISH packets queued or sent to the client
    backs,     \* PUBACK packets the client sent
    client,    \* MQTT client: its connection
    sent,      \* messages published to NATS so far
    received,  \* ghost: messages each client received
    settled,   \* ghost: messages replied to in the name of each client
    kept,      \* ghost: did the client's last connect ask to keep the session?
    file,      \* the persisted sessions and reservations
    stops      \* number of restarts and crashes so far

vars == <<conn, sm, seed, sess, inFlight, inbox, queue, backs, client, sent,
          received, settled, kept, file, stops>>

sessionVars == <<sm, seed, sess>>
mqttVars == <<queue, backs, client>>
ghosts == <<received, settled, kept>>
storage == <<file, stops>>

SessionIds == 1..MaxSeed
Keys == Ids \cup {0} \cup {x.id : x \in Messages}

NoEntries == [i \in Keys |-> None]

Unused == [st |-> "free", cid |-> None, clean |-> FALSE, sid |-> 0,
           at |-> "read", todo |-> {}, subscribed |-> FALSE]

Live == {x \in Messages : x.from # "retained"}
Retained == Messages \ Live

-----------------------------------------------------------------------------

Init ==
    /\ conn = [k \in Conns |-> Unused]
    /\ sm = [c \in ClientIds |-> 0]
    /\ seed = 0
    /\ sess = [i \in SessionIds |-> NoEntries]
    /\ inFlight = {}
    /\ inbox = [k \in Conns |-> <<>>]
    /\ queue = [k \in Conns |-> <<>>]
    /\ backs = [k \in Conns |-> <<>>]
    /\ client = [c \in ClientIds |-> None]
    /\ sent = {}
    /\ received = [c \in ClientIds |-> {}]
    /\ settled = [c \in ClientIds |-> {}]
    /\ kept = [c \in ClientIds |-> FALSE]
    /\ file = [seed |-> 0, sm |-> [c \in ClientIds |-> 0],
               sess |-> [i \in SessionIds |-> NoEntries], inFlight |-> {}]
    /\ stops = [restarts |-> 0, crashes |-> 0]

(* Whether PublishResponse expects a PUBACK, by the QoS of the packet.     *)
Acknowledged(x) == x.qos > 0

(* ClientAckRequested: the entry is filed under the packet id.             *)
ClientAckRequested(entries, id, x) == [entries EXCEPT ![id] = x]

(* queueForWrite: packets for a connection that is gone are dropped.       *)
QueueForWrite(q, k, packet) ==
    IF conn[k].st = "connected" /\ client[conn[k].cid] = k THEN Append(q, packet)
                                                           ELSE q

-----------------------------------------------------------------------------

(* The client connects: handleConnect up to ResendClientUnack.             *)
Connect(c, k, clean) ==
    LET present == ~clean /\ sm[c] # 0
        sid     == IF present THEN sm[c] ELSE seed + 1
        todo    == IF present THEN {i \in Keys : sess[sid][i] # None} ELSE {}
    IN
    /\ client[c] = None
    /\ conn[k].st = "free"
    /\ Takeover \/ \A j \in Conns : conn[j].cid # c
    /\ sid \in SessionIds
    /\ sm' = [sm EXCEPT ![c] = sid]
    /\ seed' = IF present THEN seed ELSE sid
    /\ sess' = IF present THEN sess ELSE [sess EXCEPT ![sid] = NoEntries]
    /\ conn' = [conn EXCEPT ![k] =
                  [Unused EXCEPT !.st = "connected", !.cid = c, !.clean = clean,
                                 !.sid = sid,
                                 !.todo = {[id |-> i, x |-> sess[sid][i]] : i \in todo},
                                 !.at = IF todo = {} THEN "read" ELSE "resend"]]
    /\ client' = [client EXCEPT ![c] = k]
    /\ kept' = [kept EXCEPT ![c] = ~clean]
    /\ UNCHANGED <<inFlight, inbox, queue, backs, sent, received, settled, storage>>

(* PublishResponse, for one message of a list that readLoop works through: *)
(* what ResendClientUnack found in the session, with the QoS of the packet *)
(* and without the DUP flag; or the retained messages a SUBSCRIBE matches, *)
(* with the QoS that was asked for.                                        *)
NothingLeft(todo, a) == {}
StillToSend(todo, a) == todo \ {a}
PublishResponse(k, a) ==
    LET left == StillToSend(conn[k].todo, a)
    IN
    /\ a \in conn[k].todo
    /\ sess' = IF conn[k].at = "retained" \/ Acknowledged(a.x)
               THEN [sess EXCEPT ![conn[k].sid] = ClientAckRequested(@, a.id, a.x)]
               ELSE sess
    /\ queue' = [queue EXCEPT ![k] = QueueForWrite(@, k, a)]
    /\ conn' = [conn EXCEPT ![k].todo = left,
                            ![k].at = IF left = {} THEN "read" ELSE @]
    /\ UNCHANGED <<sm, seed, inFlight, inbox, backs, client, sent, ghosts, storage>>

Reading(k) == conn[k].st = "connected" /\ conn[k].at = "read"

(* SUBSCRIBE with QoS 1: the NATS subscription, then PublishMatching.      *)
Subscribe(k) ==
    /\ Reading(k)
    /\ ~conn[k].subscribed
    /\ conn' = [conn EXCEPT ![k].subscribed = TRUE,
                            ![k].todo = {[id |-> x.id, x |-> x] : x \in Retained},
                            ![k].at = IF Retained = {} THEN "read" ELSE "retained"]
    /\ UNCHANGED <<sessionVars, inFlight, inbox, mqttVars, sent, ghosts, storage>>

(* Somebody publishes to NATS; every subscription that exists gets it.     *)
NatsPublish(x) ==
    /\ x.m \notin sent
    /\ x.after = None \/ \E c \in ClientIds : x.after \in settled[c]
    /\ sent' = sent \cup {x.m}
    /\ inbox' = [k \in Conns |-> IF conn[k].subscribed THEN Append(inbox[k], x)
                                                       ELSE inbox[k]]
    /\ UNCHANGED <<conn, sessionVars, inFlight, mqttVars, ghosts, storage>>

(* The packet id natsResponse gives to a message: the one in the reply-to  *)
(* subject when that is one of a bridge, else a fresh one.                 *)
Chosen(x) == x.from = "bridge" \/ x.qos = 0
AnyIds(x) == Ids
PacketIdsFor(x) == IF Chosen(x) THEN {x.id} ELSE Ids \ inFlight

(* NextFreePacketID reserves what it returns.                              *)
ReserveNothing(x, id) == inFlight
ReserveEvery(x, id) == inFlight \cup {id}
Reserve(x, id) == IF Chosen(x) THEN inFlight ELSE inFlight \cup {id}

(* natsResponse, in the subscription's callback: the message becomes owed  *)
(* even when the connection is already being closed.                       *)
NatsResponse(k, id) ==
    LET x == Head(inbox[k])
    IN
    /\ inbox[k] # <<>>
    /\ id \in PacketIdsFor(x)
    /\ inbox' = [inbox EXCEPT ![k] = Tail(@)]
    /\ inFlight' = Reserve(x, id)
    /\ sess' = IF Acknowledged(x)
               THEN [sess EXCEPT ![conn[k].sid] = ClientAckRequested(@, id, x)]
               ELSE sess
    /\ queue' = [queue EXCEPT ![k] = QueueForWrite(@, k, [id |-> id, x |-> x])]
    /\ UNCHANGED <<conn, sm, seed, backs, client, sent, ghosts, storage>>

(* The client receives the next PUBLISH and acknowledges it.               *)
ClientReceives(c) ==
    LET k == client[c]
        a == Head(queue[k])
    IN
    /\ k # None
    /\ queue[k] # <<>>
    /\ queue' = [queue EXCEPT ![k] = Tail(@)]
    /\ received' = [received EXCEPT ![c] = @ \cup {a.x.m}]
    /\ backs' = IF a.x.qos > 0 THEN [backs EXCEPT ![k] = Append(@, a.id)] ELSE backs
    /\ UNCHANGED <<conn, sessionVars, inFlight, inbox, client, sent, settled, kept, storage>>

(* ClientAckReceived: the entry under that packet id is deleted, and the   *)
(* reply is published to the subject the entry names.                      *)
WithoutEntry(entries, id) == [entries EXCEPT ![id] = None]

(* PUBACK: ClientAckReceived, then ReleasePacketID whatever it returned.   *)
PubAck(k) ==
    LET id == Head(backs[k])
        x  == sess[conn[k].sid][id]
    IN
    /\ Reading(k)
    /\ backs[k] # <<>>
    /\ backs' = [backs EXCEPT ![k] = Tail(@)]
    /\ sess' = [sess EXCEPT ![conn[k].sid] = WithoutEntry(@, id)]
    /\ settled' = IF x = None \/ x.from = "retained" THEN settled
                  ELSE [settled EXCEPT ![conn[k].cid] = @ \cup {x.m}]
    /\ inFlight' = inFlight \ {id}
    /\ UNCHANGED <<conn, sm, seed, inbox, queue, client, sent, received, kept, storage>>

-----------------------------------------------------------------------------

(* The client loses or leaves its connection; what it sent may still be    *)
(* read, what was sent to it is lost.                                      *)
ClientDrops(c) ==
    /\ client[c] # None
    /\ client' = [client EXCEPT ![c] = None]
    /\ queue' = [queue EXCEPT ![client[c]] = <<>>]
    /\ UNCHANGED <<conn, sessionVars, inFlight, inbox, backs, sent, ghosts, storage>>

(* SetDisconnected, for any of its reasons.                                *)
SetDisconnected(k) ==
    /\ conn[k].st = "connected"
    /\ conn' = [conn EXCEPT ![k].st = "disconnected"]
    /\ UNCHANGED <<sessionVars, inFlight, inbox, mqttVars, sent, ghosts, storage>>

(* The end of Serve: Remove for a clean session, and with the connection   *)
(* to NATS its subscription goes.                                          *)
AlwaysRemoved(k, m) == [m EXCEPT ![conn[k].cid] = 0]
RemovedSession(k, m) == IF conn[k].clean THEN [m EXCEPT ![conn[k].cid] = 0] ELSE m
(* ... nobody can reach a session that is neither registered nor in use.   *)
Discarded(k) == {conn[k].sid} \ ({RemovedSession(k, sm)[c] : c \in ClientIds}
                                  \cup {conn[j].sid : j \in Conns \ {k}})
ServeEnds(k) ==
    LET c == conn[k].cid
    IN
    /\ conn[k].st = "disconnected"
    /\ conn[k].at = "read"
    /\ sm' = RemovedSession(k, sm)
    /\ sess' = [i \in SessionIds |-> IF i \in Discarded(k) THEN NoEntries ELSE sess[i]]
    /\ conn' = [conn EXCEPT ![k] = Unused]
    /\ inbox' = [inbox EXCEPT ![k] = <<>>]
    /\ queue' = [queue EXCEPT ![k] = <<>>]
    /\ backs' = [backs EXCEPT ![k] = <<>>]
    /\ client' = [client EXCEPT ![c] = IF @ = k THEN None ELSE @]
    /\ UNCHANGED <<seed, inFlight, sent, ghosts, storage>>

(* Shutdown, persist, load and Serve: awaitsClientAck is written and read  *)
(* back as it is, and so are the reservations.                             *)
Persisted(entries) == entries
Restart ==
    LET registered == {sm[c] : c \in ClientIds}
        written == [i \in SessionIds |-> IF i \in registered THEN Persisted(sess[i])
                                                             ELSE NoEntries]
    IN
    /\ stops.restarts < MaxRestarts
    /\ \A k \in Conns : conn[k].st = "free"
    /\ stops' = [stops EXCEPT !.restarts = @ + 1]
    /\ sess' = written
    /\ file' = [seed |-> seed, sm |-> sm, sess |-> written, inFlight |-> inFlight]
    /\ UNCHANGED <<conn, sm, seed, inFlight, inbox, mqttVars, sent, ghosts>>

(* The process dies and is started again: the last file is loaded.         *)
Crash ==
    /\ stops.crashes < MaxCrashes
    /\ stops' = [stops EXCEPT !.crashes = @ + 1]
    /\ conn' = [k \in Conns |-> Unused]
    /\ sm' = file.sm
    /\ seed' = file.seed
    /\ sess' = file.sess
    /\ inFlight' = file.inFlight
    /\ inbox' = [k \in Conns |-> <<>>]
    /\ queue' = [k \in Conns |-> <<>>]
    /\ backs' = [k \in Conns |-> <<>>]
    /\ client' = [c \in ClientIds |-> None]
    /\ UNCHANGED <<sent, ghosts, file>>

-----------------------------------------------------------------------------

Next ==
    \/ \E c \in ClientIds :
          \/ \E k \in Conns, clean \in CleanFlags : Connect(c, k, clean)
          \/ ClientReceives(c)
          \/ ClientDrops(c)
    \/ \E k \in Conns :
          \/ \E a \in conn[k].todo : PublishResponse(k, a)
          \/ Subscribe(k)
          \/ \E id \in Keys : NatsResponse(k, id)
          \/ PubAck(k)
          \/ SetDisconnected(k)
          \/ ServeEnds(k)
    \/ \E x \in Live : NatsPublish(x)
    \/ Restart
    \/ Crash

Spec == Init /\ [][Next]_vars

(* Goroutines run and clients read what is sent to them.                   *)
Fairness ==
    /\ \A k \in Conns :
          /\ WF_vars(\E a \in conn[k].todo : PublishResponse(k, a))
          /\ WF_vars(\E id \in Keys : NatsResponse(k, id))
          /\ WF_vars(PubAck(k))
          /\ WF_vars(ServeEnds(k))
    /\ \A c \in ClientIds : WF_vars(ClientReceives(c))

FairSpec == Spec /\ Fairness

-----------------------------------------------------------------------------

Entry == Messages \cup {None}
Packet == [id : Keys, x : Messages]
MessageNames == {x.m : x \in Messages}

(* Every variable has its type.                                            *)
TypeOK ==
    /\ conn \in [Conns -> [st : {"free", "connected", "disconnected"},
                           cid : ClientIds \cup {None}, clean : BOOLEAN,
                           sid : SessionIds \cup {0}, at : {"read", "resend", "retained"},
                           todo : SUBSET Packet, subscribed : BOOLEAN]]
    /\ sm \in [ClientIds -> SessionIds \cup {0}]
    /\ seed \in SessionIds \cup {0}
    /\ sess \in [SessionIds -> [Keys -> Entry]]
    /\ inFlight \in SUBSET Ids
    /\ inbox \in [Conns -> Seq(Live)]
    /\ queue \in [Conns -> Seq(Packet)]
    /\ backs \in [Conns -> Seq(Keys)]
    /\ client \in [ClientIds -> Conns \cup {None}]
    /\ sent \in SUBSET MessageNames
    /\ received \in [ClientIds -> SUBSET MessageNames]
    /\ settled \in [ClientIds -> SUBSET MessageNames]
    /\ kept \in [ClientIds -> BOOLEAN]
    /\ file \in [seed : SessionIds \cup {0}, sm : [ClientIds -> SessionIds \cup {0}],
                 sess : [SessionIds -> [Keys -> Entry]], inFlight : SUBSET Ids]
    /\ stops \in [restarts : 0..MaxRestarts, crashes : 0..MaxCrashes]

(* What a client's registered session is still to acknowledge to NATS, in  *)
(* memory and in the file.                                                 *)
OwedIn(entries) == {entries[i].m : i \in {j \in Keys : entries[j] \in Live}}
Owed(c) == IF sm[c] = 0 THEN {} ELSE OwedIn(sess[sm[c]])
SavedOwed(c) == IF file.sm[c] = 0 THEN {} ELSE OwedIn(file.sess[file.sm[c]])

(* "a NATS publish with a reply-to will be considered in need of a PUBACK  *)
(* from the MQTT client" (README.md:43): the reply sent in the name of a   *)
(* client is for a message that very client received and acknowledged.     *)
NoFalseReply == \A c \in ClientIds : settled[c] \subseteq received[c]

(* The packet id of an owed message that came with an id from the manager  *)
(* stays reserved until the PUBACK, so no other message gets it.           *)
OwedIdsAreReserved ==
    \A c \in ClientIds : sm[c] # 0 =>
        \A i \in Ids : sess[sm[c]][i] # None /\ sess[sm[c]][i].from = "nats"
                          => i \in inFlight

(* Every message a client owes is settled in the end while the client      *)
(* stays connected, whether it got the message over this connection or has *)
(* it sent again (ResendClientUnack).                                      *)
OwedIsSettled ==
    \A c \in ClientIds, m \in MessageNames :
        m \in Owed(c) /\ client[c] # None
            ~> m \notin Owed(c) \/ client[c] = None

(* The bridge keeps the books that OwedAcks prescribes, over reconnects,   *)
(* graceful restarts and crashes.                                          *)
Contract == INSTANCE OwedAcks
    WITH Subscribers <- ClientIds, Messages <- MessageNames,
         owed <- [c \in ClientIds |-> Owed(c)], settled <- settled, kept <- kept,
         saved <- [c \in ClientIds |-> SavedOwed(c)], crashes <- stops.crashes

KeepsTheContract == Contract!Spec
=============================================================================
