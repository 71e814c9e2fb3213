----------------------------- MODULE PublishAck -----------------------------
(***************************************************************************)
(* How an MQTT publish of QoS 1 gets its PUBACK: bridge/nats.go            *)
(* (natsPublish, natsSubscribeAck), bridge/session.go (the session manager *)
(* and the part of a session that awaits replies from NATS), and the parts *)
(* of bridge/client.go and bridge/server.go that create, keep, persist and *)
(* remove sessions.                                                        *)
(*                                                                         *)
(* A publish is forwarded to NATS with a reply-to subject that encodes the *)
(* client id, session id, packet id and flags.  The bridge subscribes to   *)
(* that subject and remembers the subscription in the session; the reply   *)
(* removes it and sends the PUBACK.  MQTT clients and NATS are the         *)
(* environment.                                                            *)
(***************************************************************************)
EXTENDS Naturals, FiniteSets, Sequences

CONSTANTS
    ClientIds,    \* MQTT client identifiers
    Conns,        \* client objects (connections) that may exist at once
    PacketIds,    \* packet ids the publishing clients use
    Dotted,       \* the client ids that contain a dot
    CleanFlags,   \* the values of the clean session flag clients connect with
    Takeover,     \* may a client connect before its old connection is gone?
    MaxReplies,   \* how many subscribers answer one request
    MaxSeed,      \* bound: session ids
    MaxMsgs,      \* bound: messages published
    MaxRestarts,  \* bound: graceful restarts
    MaxCrashes,   \* bound: crashes
    None          \* no connection, no subscription, no subject, no packet

ASSUME DottedAssumption == Dotted \subseteq ClientIds
ASSUME FlagsAssumption == CleanFlags \subseteq BOOLEAN /\ Takeover \in BOOLEAN
ASSUME BoundsAssumption ==
    /\ MaxReplies \in Nat \ {0}
    /\ MaxSeed \in Nat \ {0}
    /\ MaxMsgs \in Nat \ {0}
    /\ MaxRestarts \in Nat
    /\ MaxCrashes \in Nat
ASSUME PacketIdsAssumption == IsFiniteSet(PacketIds)
ASSUME NoneAssumption == None \notin Conns

VARIABLES
    conn,      \* the client objects: state, session, position of readLoop
    sm,        \* session manager: client id -> id of its session, 0 if none
    seed,      \* the number the last session id was made from
    sess,      \* session id -> the session object
    subs,      \* live NATS subscriptions made by natsSubscribeAck
    calls,     \* replies queued for a subscription's callback
    requests,  \* requests that NATS subscribers may still reply to
    wire,      \* PUBLISH packets sent on a connection and not yet read
    pubacks,   \* packet ids of PUBACKs queued or sent and not yet received
    client,    \* the MQTT clients: connection, unacknowledged publishes
    file,      \* the persisted seed and sessions
    published, \* ghost: number of messages published so far
    replied,   \* ghost: messages some NATS subscriber replied to
    acked,     \* ghost: messages whose publisher saw a PUBACK
    stops      \* number of restarts and crashes so far

vars == <<conn, sm, seed, sess, subs, calls, requests, wire, pubacks, client,
          file, published, replied, acked, stops>>

sessionVars == <<sm, seed, sess>>
natsVars == <<subs, calls, requests>>
mqttVars == <<wire, pubacks, client>>
ghosts == <<published, replied, acked>>
storage == <<file, stops>>

SessionIds == 1..MaxSeed
Msgs == 1..MaxMsgs

(* A reply topic: _INBOX.<client>.<session>.<packet>.<flags>.  Of the flags *)
(* only DUP differs between the publishes considered here.                 *)
Subjects == [cid : ClientIds, sid : SessionIds, pid : PacketIds, dup : BOOLEAN]

(* A *nats.Subscription: its connection, or None once that is closed, its  *)
(* subject, and a number that tells apart subscriptions to one subject     *)
(* (bound: how many of those may exist at once).                           *)
Copies == 0..3
Subscriptions == [k : Conns \cup {None}, subject : Subjects, n : Copies]

Packets == [pid : PacketIds, dup : BOOLEAN, m : Msgs]

ASSUME NilAssumption == None \notin Subjects \cup Subscriptions

-----------------------------------------------------------------------------

NewSession(c) == [cid |-> c, awaitsAck |-> [p \in PacketIds |-> None],
                  prelAwaitsAck |-> [p \in PacketIds |-> None]]

(* A connection object that is not in use.                                 *)
Unused == [st |-> "free", cid |-> None, clean |-> FALSE, sid |-> 0,
           at |-> "read", todo |-> {}, pkt |-> None, sub |-> None]

(* The subjects that a range over prelAwaitsAck visits.                    *)
Restorable(s) == {s.prelAwaitsAck[p] : p \in PacketIds} \ {None}

(* NewReplyTopic *)
ReplyTopicOfFirstSession(sid, pkt) ==
    [cid |-> sess[sid].cid, sid |-> 1, pid |-> pkt.pid, dup |-> pkt.dup]
ReplyTopic(sid, pkt) ==
    [cid |-> sess[sid].cid, sid |-> sid, pid |-> pkt.pid, dup |-> pkt.dup]

(* ParseReplyTopic: the subject must have exactly five parts, which it has *)
(* not when the client id contains the separator.                          *)
ParseReplyTopic(subject) == IF subject.cid \in Dotted THEN None ELSE subject

(* session.AwaitsAck *)
NeverAwaitsAck(sid, p) == FALSE
AwaitsAck(sid, p) == sess[sid].awaitsAck[p] # None

(* session.AckRequested *)
AckRequested(s, p, sb) == [s EXCEPT !.awaitsAck[p] = sb]

(* sb.Unsubscribe, where sb is what AckReceived returned                   *)
NotUnsubscribed(sb) == subs
Unsubscribed(sb) == subs \ {sb}

(* A subscription object distinct from all those that still exist, with    *)
(* the least number that is free.                                          *)
IsNew(sb) ==
    LET known == subs \cup {sess[i].awaitsAck[p] : i \in SessionIds, p \in PacketIds}
    IN  /\ sb \notin known
        /\ \A n \in Copies : n < sb.n => [sb EXCEPT !.n = n] \in known

Idle(k) == conn[k].at = "read"

(* natsSubscribeAck: a subscription of the connection, remembered for the  *)
(* next step of the handler.                                               *)
SubscribeAck(k, subject, at, pkt) ==
    \E n \in Copies :
        LET sb == [k |-> k, subject |-> subject, n |-> n]
        IN  /\ IsNew(sb)
            /\ subs' = subs \cup {sb}
            /\ conn' = [conn EXCEPT ![k].at = at, ![k].pkt = pkt, ![k].sub = sb]

-----------------------------------------------------------------------------

Init ==
    /\ conn = [k \in Conns |-> Unused]
    /\ sm = [c \in ClientIds |-> 0]
    /\ seed = 0
    /\ sess = [i \in SessionIds |-> NewSession(None)]
    /\ subs = {}
    /\ calls = {}
    /\ requests = {}
    /\ wire = [k \in Conns |-> <<>>]
    /\ pubacks = [k \in Conns |-> <<>>]
    /\ client = [c \in ClientIds |->
                   [k |-> None, unacked |-> [p \in PacketIds |-> 0]]]
    /\ file = [seed |-> 0, sm |-> [c \in ClientIds |-> 0],
               sess |-> [i \in SessionIds |-> NewSession(None)]]
    /\ published = 0
    /\ replied = {}
    /\ acked = {}
    /\ stops = [restarts |-> 0, crashes |-> 0]

(* sm.Get, then sm.Create unless there is a session to resume.             *)
Resumes(c, clean) == ~clean /\ sm[c] # 0

(* What a reconnecting client sends first: its unacknowledged messages, in *)
(* the order it published them, with the DUP flag.                         *)
Unacked(unacked) ==
    {[pid |-> p, dup |-> TRUE, m |-> unacked[p]] : p \in {q \in PacketIds : unacked[q] # 0}}
Duplicates(unacked) ==
    {d \in [1..Cardinality(Unacked(unacked)) -> Unacked(unacked)] :
        \A i, j \in DOMAIN d : i < j => d[i].m < d[j].m}

Vacant(c, k) ==
    /\ conn[k].st = "free"
    /\ Takeover \/ \A j \in Conns : conn[j].cid # c

(* The client connects: handleConnect up to RestoreAckSubscriptions.       *)
Connect(c, k, clean) ==
    LET present == Resumes(c, clean)
        sid     == IF present THEN sm[c] ELSE seed + 1
        todo    == IF present THEN Restorable(sess[sid]) ELSE {}
        old     == client[c].unacked
    IN
    /\ client[c].k = None
    /\ Vacant(c, k)
    /\ sid \in SessionIds
    /\ sm' = [sm EXCEPT ![c] = sid]
    /\ seed' = IF present THEN seed ELSE sid
    /\ sess' = IF present THEN sess ELSE [sess EXCEPT ![sid] = NewSession(c)]
    /\ conn' = [conn EXCEPT ![k] =
                  [Unused EXCEPT !.st = "connected", !.cid = c, !.clean = clean,
                                 !.sid = sid, !.todo = todo,
                                 !.at = IF todo = {} THEN "read" ELSE "restore"]]
    /\ client' = [client EXCEPT ![c] =
                    [k |-> k, unacked |-> IF clean THEN [p \in PacketIds |-> 0]
                                                   ELSE old]]
    /\ \E first \in IF clean THEN {<<>>} ELSE Duplicates(old) :
          wire' = [wire EXCEPT ![k] = first]
    /\ UNCHANGED <<natsVars, pubacks, ghosts, storage>>

(* handleConnect gets no connection to NATS (wrong credentials, say): the  *)
(* client is refused, but the connect packet is already recorded.          *)
ConnectRefused(c, k, clean) ==
    /\ client[c].k = None
    /\ Vacant(c, k)
    /\ conn' = [conn EXCEPT ![k] =
                  [Unused EXCEPT !.st = "disconnected", !.cid = c, !.clean = clean]]
    /\ UNCHANGED <<sessionVars, natsVars, mqttVars, ghosts, storage>>

(* RestoreAckSubscriptions, one entry: subscribe to the persisted subject. *)
RestoreSubscribe(k, subject) ==
    /\ conn[k].at = "restore"
    /\ subject \in conn[k].todo
    /\ SubscribeAck(k, subject, "restored",
                    [pid |-> subject.pid, dup |-> subject.dup, m |-> 1])
    /\ UNCHANGED <<sessionVars, calls, requests, mqttVars, ghosts, storage>>

(* ... go on with the other entries, and the session as the one before     *)
(* left it; after the last entry prelAwaitsAck becomes nil ...             *)
RestoreGoesOn(k, s, left) ==
    /\ sess' = [sess EXCEPT ![conn[k].sid] =
                  IF left # {} THEN s
                  ELSE [s EXCEPT !.prelAwaitsAck = [q \in PacketIds |-> None]]]
    /\ conn' = [conn EXCEPT ![k].todo = left, ![k].pkt = None, ![k].sub = None,
                            ![k].at = IF left = {} THEN "read" ELSE "restore"]
    /\ UNCHANGED <<sm, seed, natsVars, mqttVars, ghosts, storage>>

(* ... after AckRequested ...                                              *)
RestoreAckRequested(k) ==
    /\ conn[k].at = "restored"
    /\ RestoreGoesOn(k, AckRequested(sess[conn[k].sid], conn[k].pkt.pid, conn[k].sub),
                     conn[k].todo \ {conn[k].sub.subject})

(* ... or after an error of Subscribe, which is logged: c.Error(err).      *)
RestoreSubscribeFails(k, subject) ==
    /\ conn[k].at = "restore"
    /\ subject \in conn[k].todo
    /\ RestoreGoesOn(k, sess[conn[k].sid], conn[k].todo \ {subject})

-----------------------------------------------------------------------------

(* The client publishes a new message under a packet id it has free.       *)
Publish(c, p) ==
    LET k == client[c].k
        m == published + 1
    IN
    /\ k # None
    /\ client[c].unacked[p] = 0
    /\ m \in Msgs
    /\ published' = m
    /\ client' = [client EXCEPT ![c].unacked[p] = m]
    /\ wire' = [wire EXCEPT ![k] = Append(@, [pid |-> p, dup |-> FALSE, m |-> m])]
    /\ UNCHANGED <<conn, sessionVars, natsVars, pubacks, replied, acked, storage>>

(* readLoop reads the next packet. *)
Reads(k) ==
    /\ conn[k].st = "connected"
    /\ Idle(k)
    /\ wire[k] # <<>>
    /\ wire' = [wire EXCEPT ![k] = Tail(@)]

IsAwaitedDuplicate(k, pkt) == pkt.dup /\ AwaitsAck(conn[k].sid, pkt.pid)

(* natsPublish: "Already waiting for this one".                            *)
IgnoreDuplicate(k) ==
    /\ Reads(k)
    /\ IsAwaitedDuplicate(k, Head(wire[k]))
    /\ UNCHANGED <<conn, sessionVars, natsVars, pubacks, client, ghosts, storage>>

(* natsPublish: subscribe to the reply-to subject ...                      *)
PublishSubscribe(k) ==
    LET pkt == Head(wire[k])
    IN
    /\ Reads(k)
    /\ ~IsAwaitedDuplicate(k, pkt)
    /\ SubscribeAck(k, ReplyTopic(conn[k].sid, pkt), "subscribed", pkt)
    /\ UNCHANGED <<sessionVars, calls, requests, pubacks, client, ghosts, storage>>

(* ... remember the subscription in the session (AckRequested) ...         *)
PublishAckRequested(k) ==
    /\ conn[k].at = "subscribed"
    /\ sess' = [sess EXCEPT ![conn[k].sid] =
                  AckRequested(@, conn[k].pkt.pid, conn[k].sub)]
    /\ conn' = [conn EXCEPT ![k].at = "requested"]
    /\ UNCHANGED <<sm, seed, natsVars, mqttVars, ghosts, storage>>

HandlerDone(k) == [conn[k] EXCEPT !.at = "read", !.pkt = None, !.sub = None]

(* ... and publish the request.                                            *)
PublishRequest(k) ==
    /\ conn[k].at = "requested"
    /\ requests' = requests \cup
         {[subject |-> conn[k].sub.subject, m |-> conn[k].pkt.m, left |-> MaxReplies]}
    /\ conn' = [conn EXCEPT ![k] = HandlerDone(k)]
    /\ UNCHANGED <<sessionVars, subs, calls, mqttVars, ghosts, storage>>

(* Subscribe or PublishRequest returns an error: readLoop ends with it.    *)
PublishSubscribeFails(k) ==
    /\ Reads(k)
    /\ ~IsAwaitedDuplicate(k, Head(wire[k]))
    /\ conn' = [conn EXCEPT ![k].st = "disconnected"]
    /\ UNCHANGED <<sessionVars, natsVars, pubacks, client, ghosts, storage>>

PublishRequestFails(k) ==
    /\ conn[k].at = "requested"
    /\ conn' = [conn EXCEPT ![k] = [HandlerDone(k) EXCEPT !.st = "disconnected"]]
    /\ UNCHANGED <<sessionVars, natsVars, mqttVars, ghosts, storage>>

-----------------------------------------------------------------------------

(* A NATS subscriber replies: every live subscription to the reply-to      *)
(* subject gets the reply; without one it is gone.                         *)
Reply(r) ==
    /\ r \in requests
    /\ requests' = (requests \ {r}) \cup
         IF r.left = 1 THEN {} ELSE {[r EXCEPT !.left = @ - 1]}
    /\ calls' = calls \cup {[sub |-> sb, m |-> r.m] :
                              sb \in {x \in subs : x.subject = r.subject}}
    /\ replied' = replied \cup {r.m}
    /\ UNCHANGED <<conn, sessionVars, subs, mqttVars, published, acked, storage>>

(* natsSubscribeAck's callback looks for the session the subject names.    *)
SessionFound(subject) ==
    /\ ParseReplyTopic(subject) # None
    /\ sm[subject.cid] = subject.sid

(* The packet id travels in the subject; the client that gets the PUBACK   *)
(* is the one whose connection made the subscription.                      *)
QueuePubAck(k, p) ==
    IF conn[k].st = "connected" /\ client[conn[k].cid].k = k
    THEN [pubacks EXCEPT ![k] = Append(@, p)]
    ELSE pubacks

(* natsSubscribeAck's callback: AckReceived, Unsubscribe what it returned  *)
(* (which discards the replies queued for it), queue the PUBACK.           *)
ReplyCallback(call) ==
    LET subject == call.sub.subject
        sid     == subject.sid
        p       == subject.pid
        sb      == sess[sid].awaitsAck[p]
        rest    == calls \ {call}
    IN
    /\ call \in calls
    /\ IF SessionFound(subject)
       THEN /\ sess' = [sess EXCEPT ![sid].awaitsAck[p] = None]
            /\ subs' = Unsubscribed(sb)
            /\ calls' = {x \in rest : x.sub \in subs'}
            /\ pubacks' = QueuePubAck(call.sub.k, p)
       ELSE /\ calls' = rest
            /\ UNCHANGED <<sess, subs, pubacks>>
    /\ UNCHANGED <<conn, sm, seed, requests, wire, client, ghosts, storage>>

(* The client receives a PUBACK; one it does not expect it ignores.        *)
ReceivePubAck(c) ==
    LET k == client[c].k
        p == Head(pubacks[k])
    IN
    /\ k # None
    /\ pubacks[k] # <<>>
    /\ pubacks' = [pubacks EXCEPT ![k] = Tail(@)]
    /\ client' = [client EXCEPT ![c].unacked[p] = 0]
    /\ acked' = acked \cup ({client[c].unacked[p]} \ {0})
    /\ UNCHANGED <<conn, sessionVars, natsVars, wire, published, replied, storage>>

-----------------------------------------------------------------------------

(* The client loses or leaves its connection; the bridge may not know yet  *)
(* and still read what was sent.                                           *)
ClientDrops(c) ==
    /\ client[c].k # None
    /\ client' = [client EXCEPT ![c].k = None]
    /\ pubacks' = [pubacks EXCEPT ![client[c].k] = <<>>]
    /\ UNCHANGED <<conn, sessionVars, natsVars, wire, ghosts, storage>>

(* SetDisconnected: a read or write error, a keep-alive that ran out, a    *)
(* DISCONNECT packet, or the drain of a server that is shutting down.      *)
SetDisconnected(k) ==
    /\ conn[k].st = "connected"
    /\ conn' = [conn EXCEPT ![k].st = "disconnected"]
    /\ UNCHANGED <<sessionVars, natsVars, mqttVars, ghosts, storage>>

(* What becomes of a session's subscriptions when connection k closes.     *)
ForgottenWhenClosed(s, k) == [s EXCEPT !.awaitsAck = [p \in PacketIds |-> None]]
Closed(s, k) ==
    [s EXCEPT !.awaitsAck =
       [p \in PacketIds |->
          IF s.awaitsAck[p] # None /\ s.awaitsAck[p].k = k
          THEN [s.awaitsAck[p] EXCEPT !.k = None, !.n = 0]
          ELSE s.awaitsAck[p]]]

(* The session that the end of Serve removes, by client id, or 0.          *)
Removed(k) == IF conn[k].clean THEN sm[conn[k].cid] ELSE 0

(* The end of Serve: a client that connected with a clean session has the  *)
(* session of its client id removed and destroyed; then both connections   *)
(* are closed, and with the NATS connection its subscriptions.             *)
ServeEnds(k) ==
    LET gone == Removed(k)
        destroyed == IF gone = 0 THEN {}
                     ELSE {sess[gone].awaitsAck[p] : p \in PacketIds}
        c == conn[k].cid
    IN
    /\ conn[k].st = "disconnected"
    /\ Idle(k)
    /\ conn' = [conn EXCEPT ![k] = Unused]
    /\ sm' = IF gone = 0 THEN sm ELSE [sm EXCEPT ![c] = 0]
    /\ sess' = [i \in SessionIds |->
                  IF i = gone THEN NewSession(c) ELSE Closed(sess[i], k)]
    /\ subs' = {sb \in subs : sb.k # k /\ sb \notin destroyed}
    /\ calls' = {x \in calls : x.sub \in subs'}
    /\ wire' = [wire EXCEPT ![k] = <<>>]
    /\ pubacks' = [pubacks EXCEPT ![k] = <<>>]
    /\ client' = [client EXCEPT ![c].k = IF @ = k THEN None ELSE @]
    /\ UNCHANGED <<seed, requests, ghosts, storage>>

(* session.MarshalToJSON and UnmarshalFromJSON: the subject of every       *)
(* awaited reply is written and comes back as a preliminary entry.         *)
ReloadedWithoutAwaited(s) == NewSession(s.cid)
Reloaded(s) ==
    [s EXCEPT !.awaitsAck = [p \in PacketIds |-> None],
              !.prelAwaitsAck = [p \in PacketIds |->
                 IF s.awaitsAck[p] = None THEN None ELSE s.awaitsAck[p].subject]]

(* Shutdown, persist, load and Serve: every client has been drained.  Only *)
(* registered sessions are written.                                        *)
Restart ==
    LET registered == {sm[c] : c \in ClientIds}
        written == [i \in SessionIds |-> IF i \in registered THEN Reloaded(sess[i])
                                                             ELSE NewSession(None)]
    IN
    /\ stops.restarts < MaxRestarts
    /\ \A k \in Conns : conn[k].st = "free"
    /\ stops' = [stops EXCEPT !.restarts = @ + 1]
    /\ sess' = written
    /\ file' = [seed |-> seed, sm |-> sm, sess |-> written]
    /\ UNCHANGED <<conn, sm, seed, natsVars, mqttVars, ghosts>>

(* The process dies and is started again: the last file is loaded.         *)
Crash ==
    /\ stops.crashes < MaxCrashes
    /\ stops' = [stops EXCEPT !.crashes = @ + 1]
    /\ conn' = [k \in Conns |-> Unused]
    /\ sm' = file.sm
    /\ seed' = file.seed
    /\ sess' = file.sess
    /\ subs' = {}
    /\ calls' = {}
    /\ wire' = [k \in Conns |-> <<>>]
    /\ pubacks' = [k \in Conns |-> <<>>]
    /\ client' = [c \in ClientIds |-> [client[c] EXCEPT !.k = None]]
    /\ UNCHANGED <<requests, ghosts, file>>

-----------------------------------------------------------------------------

ReadLoop(k) ==
    \/ \E subject \in conn[k].todo :
          RestoreSubscribe(k, subject) \/ RestoreSubscribeFails(k, subject)
    \/ RestoreAckRequested(k)
    \/ IgnoreDuplicate(k)
    \/ PublishSubscribe(k)
    \/ PublishAckRequested(k)
    \/ PublishRequest(k)

MqttClient(c) ==
    \/ \E k \in Conns, clean \in CleanFlags :
          Connect(c, k, clean) \/ ConnectRefused(c, k, clean)
    \/ \E p \in PacketIds : Publish(c, p)
    \/ ReceivePubAck(c)
    \/ ClientDrops(c)

Next ==
    \/ \E c \in ClientIds : MqttClient(c)
    \/ \E k \in Conns :
          \/ ReadLoop(k)
          \/ PublishSubscribeFails(k) \/ PublishRequestFails(k)
          \/ SetDisconnected(k)
          \/ ServeEnds(k)
    \/ \E r \in requests : Reply(r)
    \/ \E call \in calls : ReplyCallback(call)
    \/ Restart
    \/ Crash

Spec == Init /\ [][Next]_vars

(* Goroutines run, NATS delivers, subscribers reply, and a client reads    *)
(* what is sent to it.                                                     *)
Fairness ==
    /\ \A k \in Conns : WF_vars(ReadLoop(k)) /\ WF_vars(ServeEnds(k))
    /\ \A m \in Msgs : WF_vars(\E r \in requests : r.m = m /\ Reply(r))
    /\ \A m \in Msgs : WF_vars(\E call \in calls : call.m = m /\ ReplyCallback(call))
    /\ \A c \in ClientIds : WF_vars(ReceivePubAck(c))

FairSpec == Spec /\ Fairness

-----------------------------------------------------------------------------

SubscriptionOrNone == Subscriptions \cup {None}

Session == [cid : ClientIds \cup {None},
            awaitsAck : [PacketIds -> SubscriptionOrNone],
            prelAwaitsAck : [PacketIds -> Subjects \cup {None}]]

Connection == [st : {"free", "connected", "disconnected"},
               cid : ClientIds \cup {None}, clean : BOOLEAN,
               sid : SessionIds \cup {0},
               at : {"read", "restore", "restored", "subscribed", "requested"},
               todo : SUBSET Subjects, pkt : Packets \cup {None},
               sub : SubscriptionOrNone]

(* Every variable has its type.                                            *)
TypeOK ==
    /\ conn \in [Conns -> Connection]
    /\ sm \in [ClientIds -> SessionIds \cup {0}]
    /\ seed \in SessionIds \cup {0}
    /\ sess \in [SessionIds -> Session]
    /\ subs \in SUBSET Subscriptions
    /\ calls \in SUBSET [sub : Subscriptions, m : Msgs]
    /\ requests \in SUBSET [subject : Subjects, m : Msgs, left : 1..MaxReplies]
    /\ wire \in [Conns -> Seq(Packets)]
    /\ pubacks \in [Conns -> Seq(PacketIds)]
    /\ client \in [ClientIds -> [k : Conns \cup {None},
                                 unacked : [PacketIds -> Msgs \cup {0}]]]
    /\ file \in [seed : SessionIds \cup {0}, sm : [ClientIds -> SessionIds \cup {0}],
                 sess : [SessionIds -> Session]]
    /\ published \in Msgs \cup {0}
    /\ replied \in SUBSET Msgs
    /\ acked \in SUBSET Msgs
    /\ stops \in [restarts : 0..MaxRestarts, crashes : 0..MaxCrashes]

(* "A PUBACK is sent to the MQTT client when the reply arrives"            *)
(* (README.md:43): a publisher that sees a PUBACK for a message can rely   *)
(* on somebody having replied to that very message.                        *)
NoPrematureAck == acked \subseteq replied

(* A session and what it awaits belong together: the subscription under    *)
(* packet id p of session s listens to a subject that names s, its client  *)
(* and p, so the callback that the reply triggers finds the entry.         *)
EntriesNameTheirSession ==
    \A i \in SessionIds, p \in PacketIds :
        LET sb == sess[i].awaitsAck[p]
        IN  sb # None => /\ sb.subject.sid = i
                         /\ sb.subject.pid = p
                         /\ sb.subject.cid = sess[i].cid

(* No ack subscription is forgotten: while its connection lives, a         *)
(* subscription is in its session under its packet id, where AckReceived   *)
(* or Destroy will find it, or is about to be put there.                   *)
NoLeakedSubscription ==
    \A sb \in subs :
        \/ sess[sb.subject.sid].awaitsAck[sb.subject.pid] = sb
        \/ conn[sb.k].sub = sb

(* What a session awaits: what it has a subscription for, and what was     *)
(* loaded until RestoreAckSubscriptions comes to it.                       *)
Restoring(k, i) == conn[k].sid = i /\ conn[k].at \in {"restore", "restored"}
ToRestore(i, p) ==
    /\ sess[i].prelAwaitsAck[p] # None
    /\ \A k \in Conns : Restoring(k, i) => sess[i].prelAwaitsAck[p] \in conn[k].todo
Awaited(i, p) == sess[i].awaitsAck[p] # None \/ ToRestore(i, p)

(* A registered session forgets an awaited reply only when that reply is   *)
(* handled, or with the session: not by reconnecting, nor by a restart,    *)
(* whose subscriptions RestoreAckSubscriptions re-establishes              *)
(* (session.go:56) unless NATS refuses that one.                           *)
AwaitedUntilReplied ==
    [][\A c \in ClientIds, p \in PacketIds :
          LET i == sm[c]
          IN  i # 0 /\ Awaited(i, p) /\ sm'[c] = i /\ stops'.crashes = stops.crashes
              => \/ (Awaited(i, p))'
                 \/ \E call \in calls : call.sub.subject.pid = p /\ ReplyCallback(call)
                 \/ \E k \in Conns : \E subject \in conn[k].todo :
                       subject.pid = p /\ RestoreSubscribeFails(k, subject)
      ]_vars

(* The reply to a publish reaches its publisher: when the callback runs    *)
(* for the current connection of a client, the session is found.           *)
RepliesFindTheirSession ==
    [][\A call \in calls :
          LET k == call.sub.k
          IN  ReplyCallback(call) /\ conn[k].st = "connected"
              /\ client[conn[k].cid].k = k => SessionFound(call.sub.subject)]_vars

(* "A PUBACK is sent to the MQTT client when the reply arrives": a client  *)
(* whose connection lasts, and which connected with a clean session, gets  *)
(* a PUBACK for each message it published, over this or an earlier one.    *)
CleanlyConnected(c) == client[c].k # None /\ conn[client[c].k].clean
PublishedIsAcked ==
    \A c \in ClientIds, p \in PacketIds :
        CleanlyConnected(c) /\ client[c].unacked[p] # 0
            ~> client[c].unacked[p] = 0 \/ ~CleanlyConnected(c)
=============================================================================
