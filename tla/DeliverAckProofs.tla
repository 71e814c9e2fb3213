-------------------------- MODULE DeliverAckProofs --------------------------
(***************************************************************************)
(* Proofs about DeliverAck, for any number of clients, connections, ids,   *)
(* messages, restarts and crashes: types, what a reply means, which packet *)
(* ids stay reserved, and that the bridge keeps the books OwedAcks asks    *)
(* for.  All but the types need two things that the code does not see to:  *)
(* a client connects when its old connection is gone (Takeover = FALSE),   *)
(* and the packet ids other publishers choose differ from each other and   *)
(* from those of the manager (IdsApart).                                   *)
(***************************************************************************)
EXTENDS DeliverAck, SequenceTheorems, TLAPS

(* Packet ids that publishers chose collide with no others.                *)
ByPublisher(x) == x.from # "nats" /\ x.qos > 0
IdsApart ==
    \A x \in Messages : ByPublisher(x) =>
        /\ x.id \notin Ids \cup {0}
        /\ \A y \in Messages : ByPublisher(y) /\ y.id = x.id => y = x

-----------------------------------------------------------------------------
(* The inductive invariant, in five parts.                                 *)

Busy(k) == conn[k].st # "free"

(* Types.  A client object that is not in use has nothing left in it, and  *)
(* one that is has a client and a session.                                 *)
TypeInv ==
    /\ TypeOK
    /\ \A k \in Conns :
          /\ ~Busy(k) => conn[k] = Unused /\ inbox[k] = <<>>
                           /\ queue[k] = <<>> /\ backs[k] = <<>>
          /\ Busy(k) => conn[k].cid \in ClientIds /\ conn[k].sid \in SessionIds
          /\ conn[k].at = "read" => conn[k].todo = {}
    /\ \A c \in ClientIds : client[c] # None =>
          Busy(client[c]) /\ conn[client[c]].cid = c

(* Sessions.  A client has one connection, which uses the session that is  *)
(* registered; no two clients share one, and all have been numbered.       *)
Numbered(m, last) ==
    /\ \A c \in ClientIds : m[c] <= last
    /\ \A c, d \in ClientIds : m[c] = m[d] /\ m[c] # 0 => c = d
SessionInv ==
    /\ \A j, k \in Conns : Busy(j) /\ Busy(k) /\ conn[j].cid = conn[k].cid => j = k
    /\ \A k \in Conns : Busy(k) =>
          sm[conn[k].cid] = conn[k].sid /\ kept[conn[k].cid] = ~conn[k].clean
    /\ Numbered(sm, seed) /\ Numbered(file.sm, file.seed)

(* Entries.  A message is filed under an id that it can have; what is      *)
(* filed under an id of the manager is the only such entry, and the id is  *)
(* reserved.                                                               *)
FromManager(x) == x.from = "nats" /\ x.qos > 0
Fits(i, x) == IF FromManager(x) THEN i \in Ids ELSE i = x.id
Filed(entries, reserved) ==
    \A s \in SessionIds, i \in Keys : entries[s][i] # None =>
        /\ Fits(i, entries[s][i])
        /\ entries[s][i].qos > 0 \/ entries[s][i].from = "retained"
        /\ i \in Ids => i \in reserved /\ \A t \in SessionIds : entries[t][i] # None => t = s
EntryInv == Filed(sess, inFlight) /\ Filed(file.sess, file.inFlight)

(* Packets on their way.  What is still to be sent again is in the session *)
(* as it was; a packet with an id of the manager is on its way once, as    *)
(* PUBLISH or as PUBACK, and its entry stays until then; the client has    *)
(* received what a PUBACK may stand for.                                   *)
ToSendOK(k) == \A a \in conn[k].todo :
    /\ conn[k].at = "resend" => sess[conn[k].sid][a.id] = a.x
    /\ conn[k].at = "retained" => a.x \in Retained /\ a.id = a.x.id
    /\ conn[k].at = "resend" /\ a.id \in Ids =>
          /\ \A p \in DOMAIN queue[k] : queue[k][p].id # a.id
          /\ \A p \in DOMAIN backs[k] : backs[k][p] # a.id
QueueOK(k) == \A p \in DOMAIN queue[k] :
    LET a == queue[k][p] IN
    /\ Fits(a.id, a.x)
    /\ a.id \in Ids =>
          /\ sess[conn[k].sid][a.id] = a.x
          /\ \A q \in DOMAIN queue[k] : queue[k][q].id = a.id => q = p
          /\ \A q \in DOMAIN backs[k] : backs[k][q] # a.id
BacksOK(k) == \A p \in DOMAIN backs[k] :
    LET i == backs[k][p]
        c == conn[k].cid
    IN
    /\ i # 0
    /\ i \in Ids =>
          /\ sess[conn[k].sid][i] # None /\ sess[conn[k].sid][i].m \in received[c]
          /\ \A q \in DOMAIN backs[k] : backs[k][q] = i => q = p
    /\ i \notin Ids => \A x \in Messages : Fits(i, x) /\ x.qos > 0 => x.m \in received[c]
SubscribedOK(k) ==
    /\ conn[k].subscribed \/ inbox[k] = <<>>
    /\ conn[k].at = "resend" => ~conn[k].subscribed
FlowOK(k) == SubscribedOK(k) /\ ToSendOK(k) /\ QueueOK(k) /\ BacksOK(k)
FlowInv == \A k \in Conns : Busy(k) => FlowOK(k)

(* Books.  What a subscription delivers is delivered once and is neither   *)
(* owed nor settled yet; a session owes a message under one packet id.     *)
OwedOnce(entries) ==
    \A i, j \in Keys : entries[i] \in Live /\ entries[j] = entries[i] => i = j
Booked(c) == Owed(c) \cup SavedOwed(c) \cup settled[c] \subseteq sent
InboxOK(k) == \A p \in DOMAIN inbox[k] :
    LET x == inbox[k][p]
        c == conn[k].cid
    IN
    /\ x.m \in sent /\ x.m \notin Owed(c) /\ x.m \notin settled[c]
    /\ \A q \in DOMAIN inbox[k] : inbox[k][q] = x => q = p
BooksInv ==
    /\ \A s \in SessionIds : OwedOnce(sess[s]) /\ OwedOnce(file.sess[s])
    /\ \A c \in ClientIds : Booked(c)
    /\ \A k \in Conns : InboxOK(k)

-----------------------------------------------------------------------------
(* Types.                                                                  *)

ConnRecord == [st : {"free", "connected", "disconnected"},
               cid : ClientIds \cup {None}, clean : BOOLEAN,
               sid : SessionIds \cup {0}, at : {"read", "resend", "retained"},
               todo : SUBSET Packet, subscribed : BOOLEAN]

LEMMA Basics ==
  /\ \A x \in Messages : x.id \in Keys /\ x.m \in MessageNames
  /\ Ids \subseteq Keys /\ 0 \in Keys /\ Live \subseteq Messages /\ Retained \subseteq Messages
  /\ Unused \in ConnRecord /\ NoEntries \in [Keys -> Entry]
  /\ \A a \in Packet : a.id \in Keys /\ a.x \in Messages
BY DEF Keys, MessageNames, Live, Retained, Unused, ConnRecord, NoEntries, Entry, Packet

(* An entry that is written, and what that leaves of the others.           *)
Put(entries, s, i, x) == [entries EXCEPT ![s] = [@ EXCEPT ![i] = x]]

Written(f, e, s, i, x) ==
    \A t \in SessionIds, j \in Keys : f[t][j] = IF t = s /\ j = i THEN x ELSE e[t][j]

LEMMA PutTypes ==
  ASSUME NEW entries \in [SessionIds -> [Keys -> Entry]],
         NEW s \in SessionIds, NEW i \in Keys, NEW x \in Entry
  PROVE  /\ Put(entries, s, i, x) \in [SessionIds -> [Keys -> Entry]]
         /\ Written(Put(entries, s, i, x), entries, s, i, x)
<1> DEFINE e == [entries[s] EXCEPT ![i] = x]
<1>1. e \in [Keys -> Entry] /\ \A j \in Keys : e[j] = IF j = i THEN x ELSE entries[s][j]
  OBVIOUS
<1>2. Put(entries, s, i, x) = [entries EXCEPT ![s] = e]
  BY DEF Put
<1> HIDE DEF e
<1>3. QED
  BY <1>1, <1>2 DEF Written

LEMMA QueueTypes ==
  ASSUME NEW q, q \in Seq(Packet), NEW k \in Conns, NEW a \in Packet
  PROVE  QueueForWrite(q, k, a) \in Seq(Packet)
BY AppendProperties DEF QueueForWrite

LEMMA ConnectTypes ==
  ASSUME TypeInv, NEW c \in ClientIds, NEW k \in Conns, NEW clean \in CleanFlags,
         Connect(c, k, clean)
  PROVE  TypeInv'
<1> DEFINE present == ~clean /\ sm[c] # 0
           sid == IF present THEN sm[c] ELSE seed + 1
           old == IF present THEN {i \in Keys : sess[sid][i] # None} ELSE {}
           todo == {[id |-> i, x |-> sess[sid][i]] : i \in old}
           new == [Unused EXCEPT !.st = "connected", !.cid = c, !.clean = clean,
                     !.sid = sid, !.todo = todo,
                     !.at = IF old = {} THEN "read" ELSE "resend"]
<1>1. /\ client[c] = None /\ conn[k].st = "free" /\ sid \in SessionIds
      /\ sm' = [sm EXCEPT ![c] = sid]
      /\ seed' = IF present THEN seed ELSE sid
      /\ sess' = IF present THEN sess ELSE [sess EXCEPT ![sid] = NoEntries]
      /\ conn' = [conn EXCEPT ![k] = new]
      /\ client' = [client EXCEPT ![c] = k]
      /\ kept' = [kept EXCEPT ![c] = ~clean]
      /\ UNCHANGED <<inFlight, inbox, queue, backs, sent, received, settled, file, stops>>
  BY DEF Connect, storage
<1>2. todo \in SUBSET Packet
  <2>1. ASSUME NEW i \in old PROVE [id |-> i, x |-> sess[sid][i]] \in Packet
    <3>1. sess[sid] \in [Keys -> Entry] /\ i \in Keys /\ sess[sid][i] # None
      BY <1>1, <2>1 DEF TypeInv, TypeOK
    <3>2. QED
      BY <3>1 DEF Entry, Packet
  <2>2. QED
    BY <2>1, Zenon
<1>0. old = {} => todo = {}
  OBVIOUS
<1> HIDE DEF todo, old
<1>3. /\ new \in ConnRecord /\ new.st = "connected" /\ new.cid = c /\ new.sid = sid
      /\ new.at = "read" => new.todo = {}
  <2> DEFINE at == IF old = {} THEN "read" ELSE "resend"
  <2>1. sid \in SessionIds
    BY <1>1
  <2>2. at \in {"read", "resend"} /\ (at = "read" => todo = {})
    BY <1>0
  <2> HIDE DEF sid, at
  <2>3. [Unused EXCEPT !.st = "connected", !.cid = c, !.clean = clean, !.sid = sid,
                       !.todo = todo, !.at = at] \in ConnRecord
    BY <1>2, <2>1, <2>2, FlagsAssumption DEF ConnRecord, Unused
  <2>4. QED
    BY <2>2, <2>3 DEF at, Unused
<1> HIDE DEF new
<1>4. TypeOK'
  BY <1>1, <1>3, Basics DEF TypeInv, TypeOK, ConnRecord
<1>5. ASSUME NEW j \in Conns
      PROVE  /\ (~Busy(j) => conn[j] = Unused /\ inbox[j] = <<>> /\ queue[j] = <<>>
                               /\ backs[j] = <<>>)'
             /\ (Busy(j) => conn[j].cid \in ClientIds /\ conn[j].sid \in SessionIds)'
             /\ (conn[j].at = "read" => conn[j].todo = {})'
  BY <1>1, <1>3 DEF TypeInv, TypeOK, Busy
<1>6. ASSUME NEW d \in ClientIds, client'[d] # None
      PROVE  (Busy(client[d]) /\ conn[client[d]].cid = d)'
  <2>1. CASE d = c
    BY <1>1, <1>3, <2>1 DEF TypeInv, TypeOK, Busy
  <2>2. CASE d # c
    <3>1. client'[d] = client[d] /\ client[d] \in Conns
      BY <1>1, <1>6, <2>2 DEF TypeInv, TypeOK
    <3>2. client[d] # k
      BY <1>1, <1>6, <3>1 DEF TypeInv, Busy
    <3>3. QED
      BY <1>1, <1>6, <3>1, <3>2 DEF TypeInv, TypeOK, Busy
  <2>3. QED
    BY <2>1, <2>2
<1>7. QED
  BY <1>4, <1>5, <1>6 DEF TypeInv

LEMMA SendTypes ==
  ASSUME TypeInv, NEW k \in Conns, NEW a \in conn[k].todo, PublishResponse(k, a)
  PROVE  TypeInv'
<1> DEFINE left == StillToSend(conn[k].todo, a)
           new == [conn[k] EXCEPT !.todo = left, !.at = IF left = {} THEN "read" ELSE @]
<1>1. /\ conn' = [conn EXCEPT ![k] = new]
      /\ sess' \in {sess, Put(sess, conn[k].sid, a.id, a.x)}
      /\ queue' = [queue EXCEPT ![k] = QueueForWrite(@, k, a)]
      /\ UNCHANGED <<sm, seed, inFlight, inbox, backs, client, sent, received, settled, kept,
                     file, stops>>
  BY DEF PublishResponse, ghosts, storage, ClientAckRequested, Put
<1>2. conn[k] \in ConnRecord /\ a \in Packet /\ Busy(k)
  BY DEF TypeInv, TypeOK, ConnRecord, Unused
<1>3. /\ new \in ConnRecord /\ new.st = conn[k].st /\ new.cid = conn[k].cid
      /\ new.sid = conn[k].sid /\ (new.at = "read" => new.todo = {})
  <2> DEFINE at == IF left = {} THEN "read" ELSE conn[k].at
  <2>1. at \in {"read", "resend", "retained"} /\ (at = "read" => left = {})
    BY <1>2 DEF ConnRecord, TypeInv
  <2>2. left \in SUBSET Packet
    BY <1>2 DEF ConnRecord, StillToSend
  <2> DEFINE next == [conn[k] EXCEPT !.todo = left, !.at = at]
  <2>3. new = next
    BY <1>2 DEF ConnRecord
  <2> HIDE DEF at, left, new
  <2>4. /\ next \in ConnRecord /\ next.st = conn[k].st /\ next.cid = conn[k].cid
        /\ next.sid = conn[k].sid /\ next.at = at /\ next.todo = left
    BY <1>2, <2>1, <2>2 DEF ConnRecord
  <2> HIDE DEF next
  <2>5. QED
    BY <2>1, <2>3, <2>4
<1> HIDE DEF new, left
<1>4. sess' \in [SessionIds -> [Keys -> Entry]]
  BY <1>1, <1>2, Basics, PutTypes DEF TypeInv, TypeOK, Entry
<1>5. queue' \in [Conns -> Seq(Packet)] /\ \A j \in Conns \ {k} : queue'[j] = queue[j]
  BY <1>1, <1>2, QueueTypes DEF TypeInv, TypeOK
<1>6. TypeOK'
  BY <1>1, <1>3, <1>4, <1>5 DEF TypeInv, TypeOK, ConnRecord
<1>7. \A j \in Conns : (Busy(j)' <=> Busy(j)) /\ conn'[j].cid = conn[j].cid
                         /\ conn'[j].sid = conn[j].sid
  BY <1>1, <1>3 DEF TypeInv, TypeOK, Busy
<1>8. QED
  BY <1>1, <1>2, <1>3, <1>5, <1>6, <1>7 DEF TypeInv, TypeOK

LEMMA DeliverTypes ==
  ASSUME TypeInv, NEW k \in Conns, NEW id \in Keys, NatsResponse(k, id)
  PROVE  TypeInv'
<1> DEFINE x == Head(inbox[k])
<1>1. /\ inbox[k] # <<>> /\ id \in PacketIdsFor(x)
      /\ inbox' = [inbox EXCEPT ![k] = Tail(@)]
      /\ inFlight' = Reserve(x, id)
      /\ sess' \in {sess, Put(sess, conn[k].sid, id, x)}
      /\ queue' = [queue EXCEPT ![k] = QueueForWrite(@, k, [id |-> id, x |-> x])]
      /\ UNCHANGED <<conn, sm, seed, backs, client, sent, received, settled, kept, file, stops>>
  BY DEF NatsResponse, ghosts, storage, ClientAckRequested, Put
<1>2. x \in Live /\ Tail(inbox[k]) \in Seq(Live) /\ Busy(k)
  BY <1>1, HeadTailProperties DEF TypeInv, TypeOK, Busy
<1> HIDE DEF x
<1>3. inFlight' \subseteq Ids
  BY <1>1 DEF TypeInv, TypeOK, Reserve, PacketIdsFor, Chosen
<1>4. sess' \in [SessionIds -> [Keys -> Entry]]
  <2>1. x \in Entry /\ conn[k].sid \in SessionIds /\ sess \in [SessionIds -> [Keys -> Entry]]
    BY <1>2, Basics DEF TypeInv, TypeOK, Entry
  <2>2. QED
    BY <1>1, <2>1, PutTypes
<1>5. queue' \in [Conns -> Seq(Packet)] /\ \A j \in Conns \ {k} : queue'[j] = queue[j]
  <2>1. [id |-> id, x |-> x] \in Packet
    BY <1>2, Basics DEF Packet
  <2>2. QED
    BY <1>1, <2>1, QueueTypes DEF TypeInv, TypeOK
<1>6. TypeOK'
  BY <1>1, <1>2, <1>3, <1>4, <1>5 DEF TypeInv, TypeOK
<1>7. QED
  BY <1>1, <1>2, <1>5, <1>6 DEF TypeInv, TypeOK, Busy

LEMMA PubAckTypes ==
  ASSUME TypeInv, NEW k \in Conns, PubAck(k)
  PROVE  TypeInv'
<1> DEFINE id == Head(backs[k])
           x == sess[conn[k].sid][id]
<1>1. /\ backs[k] # <<>> /\ backs' = [backs EXCEPT ![k] = Tail(@)]
      /\ sess' = Put(sess, conn[k].sid, id, None)
      /\ settled' = IF x = None \/ x.from = "retained" THEN settled
                    ELSE [settled EXCEPT ![conn[k].cid] = @ \cup {x.m}]
      /\ inFlight' = inFlight \ {id}
      /\ UNCHANGED <<conn, sm, seed, inbox, queue, client, sent, received, kept, file, stops>>
  BY DEF PubAck, WithoutEntry, storage, Put
<1>2. id \in Keys /\ Tail(backs[k]) \in Seq(Keys) /\ Busy(k)
  BY <1>1, HeadTailProperties DEF TypeInv, TypeOK, Busy
<1>3. x \in Entry
  BY <1>2 DEF TypeInv, TypeOK
<1> HIDE DEF x, id
<1>4. sess' \in [SessionIds -> [Keys -> Entry]]
  BY <1>1, <1>2, PutTypes DEF TypeInv, TypeOK, Entry
<1>5. settled' \in [ClientIds -> SUBSET MessageNames]
  BY <1>1, <1>3, Basics DEF TypeInv, TypeOK, Entry
<1>6. TypeOK'
  BY <1>1, <1>2, <1>4, <1>5 DEF TypeInv, TypeOK
<1>7. QED
  BY <1>1, <1>2, <1>6 DEF TypeInv, TypeOK, Busy

LEMMA ReceiveTypes ==
  ASSUME TypeInv, NEW c \in ClientIds, ClientReceives(c)
  PROVE  TypeInv'
<1> DEFINE k == client[c]
           a == Head(queue[k])
<1>1. /\ k # None /\ queue[k] # <<>> /\ queue' = [queue EXCEPT ![k] = Tail(@)]
      /\ received' = [received EXCEPT ![c] = @ \cup {a.x.m}]
      /\ backs' = IF a.x.qos > 0 THEN [backs EXCEPT ![k] = Append(@, a.id)] ELSE backs
      /\ UNCHANGED <<conn, sm, seed, sess, inFlight, inbox, client, sent, settled, kept,
                     file, stops>>
  BY DEF ClientReceives, sessionVars, storage
<1>2. k \in Conns /\ Busy(k)
  BY <1>1 DEF TypeInv, TypeOK
<1>3. a \in Packet /\ Tail(queue[k]) \in Seq(Packet)
  BY <1>1, <1>2, HeadTailProperties DEF TypeInv, TypeOK
<1> HIDE DEF a, k
<1>4. Append(backs[k], a.id) \in Seq(Keys)
  BY <1>2, <1>3, Basics, AppendProperties DEF TypeInv, TypeOK
<1>5. TypeOK'
  BY <1>1, <1>2, <1>3, <1>4, Basics DEF TypeInv, TypeOK
<1>6. QED
  BY <1>1, <1>2, <1>5 DEF TypeInv, TypeOK, Busy

LEMMA ServeEndsTypes ==
  ASSUME TypeInv, NEW k \in Conns, ServeEnds(k)
  PROVE  TypeInv'
<1> DEFINE c == conn[k].cid
<1>1. /\ Busy(k) /\ sm' \in {sm, [sm EXCEPT ![c] = 0]}
      /\ sess' = [i \in SessionIds |-> IF i \in Discarded(k) THEN NoEntries ELSE sess[i]]
      /\ conn' = [conn EXCEPT ![k] = Unused]
      /\ inbox' = [inbox EXCEPT ![k] = <<>>] /\ queue' = [queue EXCEPT ![k] = <<>>]
      /\ backs' = [backs EXCEPT ![k] = <<>>]
      /\ client' = [client EXCEPT ![c] = IF @ = k THEN None ELSE @]
      /\ UNCHANGED <<seed, inFlight, sent, received, settled, kept, file, stops>>
  BY DEF ServeEnds, RemovedSession, ghosts, storage, Busy
<1>2. c \in ClientIds
  BY <1>1 DEF TypeInv
<1> HIDE DEF c
<1>3. TypeOK'
  BY <1>1, <1>2, Basics DEF TypeInv, TypeOK, ConnRecord
<1>4. Unused.st = "free" /\ Unused.at = "read" /\ Unused.todo = {}
  BY DEF Unused
<1>5. ASSUME NEW j \in Conns
      PROVE  /\ (~Busy(j) => conn[j] = Unused /\ inbox[j] = <<>> /\ queue[j] = <<>>
                               /\ backs[j] = <<>>)'
             /\ (Busy(j) => conn[j].cid \in ClientIds /\ conn[j].sid \in SessionIds)'
             /\ (conn[j].at = "read" => conn[j].todo = {})'
  BY <1>1, <1>4 DEF TypeInv, TypeOK, Busy
<1>6. ASSUME NEW d \in ClientIds, client'[d] # None
      PROVE  (Busy(client[d]) /\ conn[client[d]].cid = d)'
  <2>1. client'[d] = client[d] /\ client[d] # k
    BY <1>1, <1>2, <1>6 DEF TypeInv, TypeOK, c
  <2>2. QED
    BY <1>1, <1>6, <2>1 DEF TypeInv, TypeOK, Busy
<1>7. QED
  BY <1>3, <1>5, <1>6 DEF TypeInv

LEMMA RestartTypes ==
  ASSUME TypeInv, Restart
  PROVE  TypeInv'
<1>1. PICK written \in [SessionIds -> [Keys -> Entry]] :
         /\ sess' = written
         /\ file' = [seed |-> seed, sm |-> sm, sess |-> written, inFlight |-> inFlight]
  BY Basics DEF Restart, TypeInv, TypeOK, Persisted
<1>2. /\ stops.restarts < MaxRestarts /\ stops' = [stops EXCEPT !.restarts = @ + 1]
      /\ UNCHANGED <<conn, sm, seed, inFlight, inbox, queue, backs, client, sent, received,
                     settled, kept>>
  BY DEF Restart, mqttVars, ghosts
<1>3. stops' \in [restarts : 0..MaxRestarts, crashes : 0..MaxCrashes]
  <2>1. stops \in [restarts : 0..MaxRestarts, crashes : 0..MaxCrashes]
    BY DEF TypeInv, TypeOK
  <2>2. QED
    BY <1>2, <2>1, BoundsAssumption
<1>4. QED
  BY <1>1, <1>2, <1>3 DEF TypeInv, TypeOK, Busy

LEMMA CrashTypes ==
  ASSUME TypeInv, Crash
  PROVE  TypeInv'
<1>1. stops' \in [restarts : 0..MaxRestarts, crashes : 0..MaxCrashes]
  BY BoundsAssumption DEF Crash, TypeInv, TypeOK
<1>2. TypeOK'
  BY <1>1, Basics DEF Crash, TypeInv, TypeOK, ConnRecord, ghosts
<1>3. QED
  BY <1>2 DEF Crash, TypeInv, Busy, Unused

LEMMA OtherTypes ==
  ASSUME TypeInv,
         \/ \E k \in Conns : Subscribe(k) \/ SetDisconnected(k)
         \/ \E x \in Live : NatsPublish(x)
         \/ \E c \in ClientIds : ClientDrops(c)
         \/ UNCHANGED vars
  PROVE  TypeInv'
<1>1. ASSUME NEW k \in Conns, Subscribe(k) PROVE TypeInv'
  <2> DEFINE todo == {[id |-> x.id, x |-> x] : x \in Retained}
             at == IF Retained = {} THEN "read" ELSE "retained"
             new == [conn[k] EXCEPT !.subscribed = TRUE, !.todo = todo, !.at = at]
  <2>1. todo \in SUBSET Packet /\ (at = "read" => todo = {})
        /\ at \in {"read", "resend", "retained"}
    <3>1. ASSUME NEW x \in Retained PROVE [id |-> x.id, x |-> x] \in Packet
      BY Basics DEF Packet
    <3>2. QED
      BY <3>1, Zenon
  <2>2. /\ conn' = [conn EXCEPT ![k] = new] /\ Busy(k)
        /\ UNCHANGED <<sm, seed, sess, inFlight, inbox, queue, backs, client, sent, received,
                       settled, kept, file, stops>>
    <3>1. ASSUME NEW t, NEW a
          PROVE  [conn EXCEPT ![k].subscribed = TRUE, ![k].todo = t, ![k].at = a]
                   = [conn EXCEPT ![k] = [conn[k] EXCEPT !.subscribed = TRUE, !.todo = t,
                                                         !.at = a]]
      BY DEF TypeInv, TypeOK
    <3>2. conn' = [conn EXCEPT ![k].subscribed = TRUE, ![k].todo = todo, ![k].at = at]
      BY <1>1, Zenon DEF Subscribe
    <3>3. QED
      BY <1>1, <3>1, <3>2, Zenon DEF Subscribe, Reading, Busy, sessionVars, mqttVars, ghosts,
         storage
  <2> HIDE DEF todo, at
  <2>3. /\ new \in ConnRecord /\ new.st = conn[k].st /\ new.cid = conn[k].cid
        /\ new.sid = conn[k].sid /\ (new.at = "read" => new.todo = {})
    <3>1. conn[k] \in ConnRecord
      BY DEF TypeInv, TypeOK, ConnRecord
    <3>2. QED
      BY <2>1, <3>1 DEF ConnRecord
  <2> HIDE DEF new
  <2>4. TypeOK'
    BY <2>2, <2>3 DEF TypeInv, TypeOK, ConnRecord
  <2>5. QED
    BY <2>2, <2>3, <2>4 DEF TypeInv, TypeOK, Busy
<1>2. ASSUME NEW k \in Conns, SetDisconnected(k) PROVE TypeInv'
  <2> DEFINE new == [conn[k] EXCEPT !.st = "disconnected"]
  <2>1. /\ conn' = [conn EXCEPT ![k] = new] /\ Busy(k)
        /\ UNCHANGED <<sm, seed, sess, inFlight, inbox, queue, backs, client, sent, received,
                       settled, kept, file, stops>>
    BY <1>2 DEF SetDisconnected, Busy, sessionVars, mqttVars, ghosts, storage
  <2>2. /\ new \in ConnRecord /\ new.st = "disconnected" /\ new.cid = conn[k].cid
        /\ new.sid = conn[k].sid /\ (new.at = "read" => new.todo = {})
    <3>1. conn[k] \in ConnRecord /\ (conn[k].at = "read" => conn[k].todo = {})
      BY DEF TypeInv, TypeOK, ConnRecord
    <3>2. QED
      BY <3>1 DEF ConnRecord
  <2> HIDE DEF new
  <2>3. TypeOK'
    BY <2>1, <2>2 DEF TypeInv, TypeOK, ConnRecord
  <2>4. QED
    BY <2>1, <2>2, <2>3 DEF TypeInv, TypeOK, Busy
<1>3. ASSUME NEW x \in Live, NatsPublish(x) PROVE TypeInv'
  <2>1. /\ inbox' = [k \in Conns |-> IF conn[k].subscribed THEN Append(inbox[k], x)
                                                           ELSE inbox[k]]
        /\ sent' = sent \cup {x.m}
        /\ UNCHANGED <<conn, sm, seed, sess, inFlight, queue, backs, client, received,
                       settled, kept, file, stops>>
    BY <1>3 DEF NatsPublish, sessionVars, mqttVars, ghosts, storage
  <2>2. \A k \in Conns : Append(inbox[k], x) \in Seq(Live) /\ (~Busy(k) => ~conn[k].subscribed)
    BY AppendProperties DEF TypeInv, TypeOK, Unused
  <2>3. TypeOK'
    BY <2>1, <2>2, Basics DEF TypeInv, TypeOK
  <2>4. QED
    BY <2>1, <2>2, <2>3 DEF TypeInv, TypeOK, Busy
<1>4. ASSUME NEW c \in ClientIds, ClientDrops(c) PROVE TypeInv'
  <2>1. /\ client' = [client EXCEPT ![c] = None]
        /\ queue' = [queue EXCEPT ![client[c]] = <<>>]
        /\ UNCHANGED <<conn, sm, seed, sess, inFlight, inbox, backs, sent, received, settled,
                       kept, file, stops>>
    BY <1>4 DEF ClientDrops, sessionVars, ghosts, storage
  <2>2. queue' \in [Conns -> Seq(Packet)] /\ client' \in [ClientIds -> Conns \cup {None}]
    <3>1. queue \in [Conns -> Seq(Packet)] /\ client \in [ClientIds -> Conns \cup {None}]
      BY DEF TypeInv, TypeOK
    <3>2. <<>> \in Seq(Packet)
      OBVIOUS
    <3>3. QED
      BY <2>1, <3>1, <3>2
  <2>3. TypeOK'
    BY <2>1, <2>2 DEF TypeInv, TypeOK
  <2>4. QED
    BY <2>1, <2>3 DEF TypeInv, TypeOK, Busy
<1>5. CASE UNCHANGED vars
  BY <1>5 DEF vars, TypeInv, TypeOK, Busy
<1>6. QED
  BY <1>1, <1>2, <1>3, <1>4, <1>5

LEMMA TypesStay == TypeInv /\ [Next]_vars => TypeInv'
BY ConnectTypes, SendTypes, DeliverTypes, PubAckTypes, ReceiveTypes, ServeEndsTypes,
   RestartTypes, CrashTypes, OtherTypes, FlagsAssumption DEF Next

LEMMA InitTypes == Init => TypeInv
<1>1. Init => TypeOK
  BY Basics, BoundsAssumption DEF Init, TypeOK, ConnRecord
<1>2. QED
  BY <1>1 DEF Init, TypeInv, Busy, Unused

(* Every variable of DeliverAck keeps its type, whatever the constants.    *)
THEOREM TypeCorrect == Spec => []TypeOK
<1>1. TypeInv => TypeOK
  BY DEF TypeInv
<1>2. QED
  BY <1>1, InitTypes, TypesStay, PTL DEF Spec

-----------------------------------------------------------------------------
(* What the actions do, field by field.                                    *)

(* What Connect does, when the client's old connection is gone.            *)
Connects(c, k, clean) ==
    /\ ~Busy(k) /\ \A j \in Conns : conn[j].cid # c
    /\ Busy(k)' /\ conn'[k].cid = c /\ conn'[k].clean = clean /\ conn'[k].sid \in SessionIds
    /\ conn'[k].subscribed = FALSE /\ conn'[k].at \in {"read", "resend"}
    /\ \A j \in Conns \ {k} : conn'[j] = conn[j]
    /\ \A d \in ClientIds : /\ sm'[d] = IF d = c THEN conn'[k].sid ELSE sm[d]
                            /\ kept'[d] = IF d = c THEN ~clean ELSE kept[d]
    /\ \/ /\ ~clean /\ sm[c] # 0 /\ conn'[k].sid = sm[c] /\ UNCHANGED <<seed, sess>>
          /\ \A a \in conn'[k].todo : sess[sm[c]][a.id] = a.x /\ a.x # None
       \/ /\ clean \/ sm[c] = 0
          /\ conn'[k].sid = seed + 1 /\ seed' = seed + 1
          /\ sess' = [sess EXCEPT ![seed + 1] = NoEntries]
          /\ conn'[k].todo = {}
    /\ UNCHANGED <<inFlight, inbox, queue, backs, sent, received, settled, file, stops>>

LEMMA ConnectDoes ==
  ASSUME TypeInv, Takeover = FALSE, NEW c \in ClientIds, NEW k \in Conns,
         NEW clean \in CleanFlags, Connect(c, k, clean)
  PROVE  Connects(c, k, clean)
<1> DEFINE present == ~clean /\ sm[c] # 0
           sid == IF present THEN sm[c] ELSE seed + 1
           old == IF present THEN {i \in Keys : sess[sid][i] # None} ELSE {}
           e(i) == [id |-> i, x |-> sess[sid][i]]
           todo == {e(i) : i \in old}
           at == IF old = {} THEN "read" ELSE "resend"
           new == [Unused EXCEPT !.st = "connected", !.cid = c, !.clean = clean,
                     !.sid = sid, !.todo = todo, !.at = at]
<1>1. /\ conn[k].st = "free" /\ sid \in SessionIds /\ \A j \in Conns : conn[j].cid # c
      /\ sm' = [sm EXCEPT ![c] = sid]
      /\ seed' = IF present THEN seed ELSE sid
      /\ sess' = IF present THEN sess ELSE [sess EXCEPT ![sid] = NoEntries]
      /\ conn' = [conn EXCEPT ![k] = new]
      /\ kept' = [kept EXCEPT ![c] = ~clean]
      /\ UNCHANGED <<inFlight, inbox, queue, backs, sent, received, settled, file, stops>>
  BY DEF Connect, storage
<1>2. /\ \A a \in todo : sess[sid][a.id] = a.x /\ a.x # None
      /\ ~present => todo = {}
      /\ at \in {"read", "resend"}
  <2>1. \A i \in old : sess[sid][e(i).id] = e(i).x /\ e(i).x # None
    OBVIOUS
  <2>2. ~present => old = {}
    OBVIOUS
  <2> HIDE DEF old, sid, present, e
  <2>3. ASSUME NEW p \in todo PROVE sess[sid][p.id] = p.x /\ p.x # None
    <3>1. PICK i \in old : p = e(i)
      BY <2>3
    <3>2. QED
      BY <2>1, <3>1, Zenon
  <2>4. ~present => todo = {}
    BY <2>2
  <2>5. QED
    BY <2>3, <2>4
<1> HIDE DEF todo, at
<1>3. /\ new.st = "connected" /\ new.cid = c /\ new.clean = clean /\ new.sid = sid
      /\ new.todo = todo /\ new.at = at /\ new.subscribed = FALSE
  BY DEF Unused
<1> HIDE DEF new
<1>4. conn'[k] = new /\ \A j \in Conns \ {k} : conn'[j] = conn[j]
  BY <1>1 DEF TypeInv, TypeOK
<1>5. \A d \in ClientIds : /\ sm'[d] = IF d = c THEN sid ELSE sm[d]
                           /\ kept'[d] = IF d = c THEN ~clean ELSE kept[d]
  BY <1>1 DEF TypeInv, TypeOK
<1>6. \/ /\ ~clean /\ sm[c] # 0 /\ conn'[k].sid = sm[c] /\ UNCHANGED <<seed, sess>>
         /\ \A a \in conn'[k].todo : sess[sm[c]][a.id] = a.x /\ a.x # None
      \/ /\ clean \/ sm[c] = 0
         /\ conn'[k].sid = seed + 1 /\ seed' = seed + 1
         /\ sess' = [sess EXCEPT ![seed + 1] = NoEntries]
         /\ conn'[k].todo = {}
  BY <1>1, <1>2, <1>3, <1>4
<1>7. ~Busy(k) /\ Busy(k)'
  BY <1>1, <1>3, <1>4 DEF Busy
<1>8. QED
  BY <1>1, <1>2, <1>3, <1>4, <1>5, <1>6, <1>7 DEF Connects

LEMMA ServeEndsDoes ==
  ASSUME TypeInv, NEW k \in Conns, ServeEnds(k)
  PROVE  /\ Busy(k) /\ conn'[k] = Unused /\ ~Busy(k)'
         /\ \A j \in Conns \ {k} : conn'[j] = conn[j]
         /\ sm' = IF conn[k].clean THEN [sm EXCEPT ![conn[k].cid] = 0] ELSE sm
         /\ \A s \in SessionIds : sess'[s] = IF s \in Discarded(k) THEN NoEntries ELSE sess[s]
         /\ Discarded(k) \subseteq {conn[k].sid} \ {sm'[c] : c \in ClientIds}
         /\ inbox' = [inbox EXCEPT ![k] = <<>>] /\ queue' = [queue EXCEPT ![k] = <<>>]
         /\ backs' = [backs EXCEPT ![k] = <<>>]
         /\ UNCHANGED <<seed, inFlight, sent, received, settled, kept, file, stops>>
<1>1. /\ Busy(k) /\ sm' = RemovedSession(k, sm) /\ conn' = [conn EXCEPT ![k] = Unused]
      /\ sess' = [i \in SessionIds |-> IF i \in Discarded(k) THEN NoEntries ELSE sess[i]]
      /\ inbox' = [inbox EXCEPT ![k] = <<>>] /\ queue' = [queue EXCEPT ![k] = <<>>]
      /\ backs' = [backs EXCEPT ![k] = <<>>]
      /\ UNCHANGED <<seed, inFlight, sent, received, settled, kept, file, stops>>
  BY DEF ServeEnds, ghosts, storage, Busy
<1>2. Discarded(k) \subseteq {conn[k].sid} \ {RemovedSession(k, sm)[c] : c \in ClientIds}
  BY DEF Discarded
<1>3. QED
  BY <1>1, <1>2 DEF RemovedSession, TypeInv, TypeOK, Busy, Unused

LEMMA RestartDoes ==
  ASSUME TypeInv, Restart
  PROVE  /\ \A k \in Conns : ~Busy(k)
         /\ \A s \in SessionIds :
               sess'[s] = IF s \in {sm[c] : c \in ClientIds} THEN sess[s] ELSE NoEntries
         /\ file'.sess = sess' /\ file'.sm = sm /\ file'.seed = seed /\ file'.inFlight = inFlight
         /\ stops'.crashes = stops.crashes
         /\ UNCHANGED <<conn, sm, seed, inFlight, inbox, queue, backs, client, sent, received,
                        settled, kept>>
<1>1. /\ \A k \in Conns : ~Busy(k)
      /\ sess' = [s \in SessionIds |-> IF s \in {sm[c] : c \in ClientIds} THEN sess[s]
                                                                          ELSE NoEntries]
      /\ file' = [seed |-> seed, sm |-> sm, sess |-> sess', inFlight |-> inFlight]
      /\ stops' = [stops EXCEPT !.restarts = @ + 1]
      /\ UNCHANGED <<conn, sm, seed, inFlight, inbox, queue, backs, client, sent, received,
                     settled, kept>>
  BY DEF Restart, Persisted, Busy, mqttVars, ghosts
<1>2. stops'.crashes = stops.crashes
  BY <1>1 DEF TypeInv, TypeOK
<1>3. QED
  BY <1>1, <1>2

(* A step of somebody else leaves the client and session of a connection.  *)
SameUser(j) ==
    /\ Busy(j)' <=> Busy(j)
    /\ conn'[j].cid = conn[j].cid /\ conn'[j].sid = conn[j].sid /\ conn'[j].clean = conn[j].clean

LEMMA SendDoes ==
  ASSUME TypeInv, NEW k \in Conns, NEW a \in conn[k].todo, PublishResponse(k, a)
  PROVE  /\ Busy(k) /\ a \in Packet /\ conn[k].at # "read" /\ SameUser(k)
         /\ conn'[k].subscribed = conn[k].subscribed
         /\ conn'[k].todo = conn[k].todo \ {a} /\ conn'[k].at \in {"read", conn[k].at}
         /\ \A j \in Conns \ {k} : conn'[j] = conn[j] /\ queue'[j] = queue[j]
         /\ sess' = IF conn[k].at = "retained" \/ Acknowledged(a.x)
                    THEN Put(sess, conn[k].sid, a.id, a.x) ELSE sess
         /\ queue'[k] \in {queue[k], Append(queue[k], a)}
         /\ UNCHANGED <<sm, seed, inFlight, inbox, backs, client, sent, received, settled, kept,
                        file, stops>>
<1> DEFINE left == StillToSend(conn[k].todo, a)
           at == IF left = {} THEN "read" ELSE conn[k].at
           new == [conn[k] EXCEPT !.todo = left, !.at = at]
<1>1. /\ sess' = IF conn[k].at = "retained" \/ Acknowledged(a.x)
                 THEN Put(sess, conn[k].sid, a.id, a.x) ELSE sess
      /\ queue' = [queue EXCEPT ![k] = QueueForWrite(@, k, a)]
      /\ UNCHANGED <<sm, seed, inFlight, inbox, backs, client, sent, received, settled, kept,
                     file, stops>>
  BY DEF PublishResponse, ghosts, storage, ClientAckRequested, Put
<1>2. conn' = [conn EXCEPT ![k] = new]
  BY DEF PublishResponse, TypeInv, TypeOK
<1>3. conn[k] \in ConnRecord /\ a \in Packet /\ Busy(k) /\ conn[k].at # "read"
  BY DEF TypeInv, TypeOK, ConnRecord, Unused
<1>4. left = conn[k].todo \ {a} /\ at \in {"read", conn[k].at}
  BY DEF StillToSend
<1> HIDE DEF left, at
<1>5. /\ new.st = conn[k].st /\ new.cid = conn[k].cid /\ new.sid = conn[k].sid
      /\ new.clean = conn[k].clean /\ new.subscribed = conn[k].subscribed
      /\ new.todo = left /\ new.at = at
  BY <1>3 DEF ConnRecord
<1> HIDE DEF new
<1>6. conn'[k] = new /\ \A j \in Conns \ {k} : conn'[j] = conn[j] /\ queue'[j] = queue[j]
  BY <1>1, <1>2 DEF TypeInv, TypeOK
<1>7. queue'[k] \in {queue[k], Append(queue[k], a)}
  BY <1>1 DEF TypeInv, TypeOK, QueueForWrite
<1>8. QED
  BY <1>1, <1>3, <1>4, <1>5, <1>6, <1>7 DEF SameUser, Busy

LEMMA SubscribeDoes ==
  ASSUME TypeInv, NEW k \in Conns, Subscribe(k)
  PROVE  /\ Busy(k) /\ SameUser(k) /\ conn[k].at = "read" /\ conn'[k].subscribed = TRUE
         /\ conn'[k].at \in {"read", "retained"}
         /\ \A a \in conn'[k].todo : a.x \in Retained /\ a.id = a.x.id
         /\ \A j \in Conns \ {k} : conn'[j] = conn[j]
         /\ UNCHANGED <<sm, seed, sess, inFlight, inbox, queue, backs, client, sent, received,
                        settled, kept, file, stops>>
<1> DEFINE e(x) == [id |-> x.id, x |-> x]
           todo == {e(x) : x \in Retained}
           at == IF Retained = {} THEN "read" ELSE "retained"
           new == [conn[k] EXCEPT !.subscribed = TRUE, !.todo = todo, !.at = at]
<1>1. ASSUME NEW t, NEW a
      PROVE  [conn EXCEPT ![k].subscribed = TRUE, ![k].todo = t, ![k].at = a]
               = [conn EXCEPT ![k] = [conn[k] EXCEPT !.subscribed = TRUE, !.todo = t, !.at = a]]
  BY DEF TypeInv, TypeOK
<1>2. conn' = [conn EXCEPT ![k].subscribed = TRUE, ![k].todo = todo, ![k].at = at]
  BY Zenon DEF Subscribe
<1>3. /\ conn' = [conn EXCEPT ![k] = new] /\ Busy(k) /\ conn[k].at = "read"
      /\ UNCHANGED <<sm, seed, sess, inFlight, inbox, queue, backs, client, sent, received,
                     settled, kept, file, stops>>
  BY <1>1, <1>2, Zenon DEF Subscribe, Reading, Busy, sessionVars, mqttVars, ghosts, storage
<1>4. \A a \in todo : a.x \in Retained /\ a.id = a.x.id
  OBVIOUS
<1>5. at \in {"read", "retained"}
  OBVIOUS
<1> HIDE DEF todo, at
<1>6. /\ new.st = conn[k].st /\ new.cid = conn[k].cid /\ new.sid = conn[k].sid
      /\ new.clean = conn[k].clean /\ new.subscribed = TRUE /\ new.todo = todo /\ new.at = at
  <2>1. conn[k] \in ConnRecord
    BY DEF TypeInv, TypeOK, ConnRecord
  <2>2. QED
    BY <2>1 DEF ConnRecord
<1> HIDE DEF new
<1>7. conn'[k] = new /\ \A j \in Conns \ {k} : conn'[j] = conn[j]
  BY <1>3 DEF TypeInv, TypeOK
<1>8. QED
  BY <1>3, <1>4, <1>5, <1>6, <1>7 DEF SameUser, Busy

LEMMA DisconnectDoes ==
  ASSUME TypeInv, NEW k \in Conns, SetDisconnected(k)
  PROVE  /\ SameUser(k) /\ conn'[k].subscribed = conn[k].subscribed
         /\ conn'[k].todo = conn[k].todo /\ conn'[k].at = conn[k].at
         /\ \A j \in Conns \ {k} : conn'[j] = conn[j]
         /\ UNCHANGED <<sm, seed, sess, inFlight, inbox, queue, backs, client, sent, received,
                        settled, kept, file, stops>>
<1> DEFINE new == [conn[k] EXCEPT !.st = "disconnected"]
<1>1. /\ conn' = [conn EXCEPT ![k] = new] /\ Busy(k)
      /\ UNCHANGED <<sm, seed, sess, inFlight, inbox, queue, backs, client, sent, received,
                     settled, kept, file, stops>>
  BY DEF SetDisconnected, Busy, sessionVars, mqttVars, ghosts, storage
<1>2. /\ new.st = "disconnected" /\ new.cid = conn[k].cid /\ new.sid = conn[k].sid
      /\ new.clean = conn[k].clean /\ new.subscribed = conn[k].subscribed
      /\ new.todo = conn[k].todo /\ new.at = conn[k].at
  <2>1. conn[k] \in ConnRecord
    BY DEF TypeInv, TypeOK, ConnRecord
  <2>2. QED
    BY <2>1 DEF ConnRecord
<1> HIDE DEF new
<1>3. conn'[k] = new /\ \A j \in Conns \ {k} : conn'[j] = conn[j]
  BY <1>1 DEF TypeInv, TypeOK
<1>4. QED
  BY <1>1, <1>2, <1>3 DEF SameUser, Busy

(* What natsResponse does with the message x, which gets the packet id id. *)
Delivers(k, id, x) ==
    /\ Busy(k) /\ inbox[k] # <<>> /\ x = Head(inbox[k]) /\ x \in Live /\ id \in PacketIdsFor(x)
    /\ inbox' = [inbox EXCEPT ![k] = Tail(@)]
    /\ inFlight' = Reserve(x, id)
    /\ sess' = IF Acknowledged(x) THEN Put(sess, conn[k].sid, id, x) ELSE sess
    /\ queue'[k] \in {queue[k], Append(queue[k], [id |-> id, x |-> x])}
    /\ \A j \in Conns \ {k} : queue'[j] = queue[j]
    /\ UNCHANGED <<conn, sm, seed, backs, client, sent, received, settled, kept, file, stops>>

LEMMA DeliverDoes ==
  ASSUME TypeInv, NEW k \in Conns, NEW id \in Keys, NatsResponse(k, id)
  PROVE  \E x \in Messages : Delivers(k, id, x)
<1> DEFINE x == Head(inbox[k])
<1>1. /\ inbox[k] # <<>> /\ id \in PacketIdsFor(x)
      /\ inbox' = [inbox EXCEPT ![k] = Tail(@)]
      /\ inFlight' = Reserve(x, id)
      /\ sess' = IF Acknowledged(x) THEN Put(sess, conn[k].sid, id, x) ELSE sess
      /\ queue' = [queue EXCEPT ![k] = QueueForWrite(@, k, [id |-> id, x |-> x])]
      /\ UNCHANGED <<conn, sm, seed, backs, client, sent, received, settled, kept, file, stops>>
  BY DEF NatsResponse, ghosts, storage, ClientAckRequested, Put
<1>2. x \in Live /\ Busy(k) /\ x \in Messages
  BY <1>1, HeadTailProperties, Basics DEF TypeInv, TypeOK, Busy
<1>3. /\ queue'[k] \in {queue[k], Append(queue[k], [id |-> id, x |-> x])}
      /\ \A j \in Conns \ {k} : queue'[j] = queue[j]
  BY <1>1 DEF TypeInv, TypeOK, QueueForWrite
<1>4. Delivers(k, id, x)
  BY <1>1, <1>2, <1>3 DEF Delivers
<1>5. QED
  BY <1>2, <1>4

(* What a PUBACK with the packet id id does.                               *)
Acks(k, id) ==
    /\ Busy(k) /\ conn[k].at = "read" /\ backs[k] # <<>> /\ id = Head(backs[k]) /\ id \in Keys
    /\ backs' = [backs EXCEPT ![k] = Tail(@)]
    /\ sess' = Put(sess, conn[k].sid, id, None)
    /\ inFlight' = inFlight \ {id}
    /\ LET x == sess[conn[k].sid][id]
           c == conn[k].cid
       IN  /\ settled' = IF x = None \/ x.from = "retained" THEN settled
                         ELSE [settled EXCEPT ![c] = @ \cup {x.m}]
           /\ \A d \in ClientIds :
                 settled'[d] = IF d = c /\ x # None /\ x.from # "retained"
                               THEN settled[d] \cup {x.m} ELSE settled[d]
    /\ UNCHANGED <<conn, sm, seed, inbox, queue, client, sent, received, kept, file, stops>>

LEMMA PubAckDoes ==
  ASSUME TypeInv, NEW k \in Conns, PubAck(k)
  PROVE  Acks(k, Head(backs[k]))
<1> DEFINE id == Head(backs[k])
           x == sess[conn[k].sid][id]
<1>1. /\ backs[k] # <<>> /\ backs' = [backs EXCEPT ![k] = Tail(@)] /\ conn[k].at = "read"
      /\ sess' = Put(sess, conn[k].sid, id, None)
      /\ settled' = IF x = None \/ x.from = "retained" THEN settled
                    ELSE [settled EXCEPT ![conn[k].cid] = @ \cup {x.m}]
      /\ inFlight' = inFlight \ {id}
      /\ UNCHANGED <<conn, sm, seed, inbox, queue, client, sent, received, kept, file, stops>>
  BY DEF PubAck, Reading, WithoutEntry, storage, Put
<1>2. id \in Keys /\ Busy(k)
  BY <1>1, HeadTailProperties DEF TypeInv, TypeOK, Busy
<1> HIDE DEF id, x
<1>3. \A d \in ClientIds : settled'[d] = IF d = conn[k].cid /\ x # None /\ x.from # "retained"
                                         THEN settled[d] \cup {x.m} ELSE settled[d]
  BY <1>1 DEF TypeInv, TypeOK
<1>4. Acks(k, id)
  BY <1>1, <1>2, <1>3 DEF Acks, x, id
<1>5. QED
  BY <1>4 DEF id

(* What the client does with the PUBLISH packet a.                         *)
Receives(c, k, a) ==
    /\ k \in Conns /\ Busy(k) /\ conn[k].cid = c
    /\ queue[k] # <<>> /\ a = Head(queue[k]) /\ a \in Packet
    /\ queue' = [queue EXCEPT ![k] = Tail(@)]
    /\ \A d \in ClientIds : received'[d] = IF d = c THEN received[d] \cup {a.x.m}
                                                    ELSE received[d]
    /\ backs' = IF a.x.qos > 0 THEN [backs EXCEPT ![k] = Append(@, a.id)] ELSE backs
    /\ UNCHANGED <<conn, sm, seed, sess, inFlight, inbox, client, sent, settled, kept, file,
                   stops>>

LEMMA ReceiveDoes ==
  ASSUME TypeInv, NEW c \in ClientIds, ClientReceives(c)
  PROVE  Receives(c, client[c], Head(queue[client[c]]))
<1> DEFINE k == client[c]
           a == Head(queue[k])
<1>1. /\ k # None /\ queue[k] # <<>> /\ queue' = [queue EXCEPT ![k] = Tail(@)]
      /\ received' = [received EXCEPT ![c] = @ \cup {a.x.m}]
      /\ backs' = IF a.x.qos > 0 THEN [backs EXCEPT ![k] = Append(@, a.id)] ELSE backs
      /\ UNCHANGED <<conn, sm, seed, sess, inFlight, inbox, client, sent, settled, kept,
                     file, stops>>
  BY DEF ClientReceives, sessionVars, storage
<1>2. k \in Conns /\ Busy(k) /\ conn[k].cid = c
  BY <1>1 DEF TypeInv, TypeOK
<1>3. a \in Packet
  BY <1>1, <1>2, HeadTailProperties DEF TypeInv, TypeOK
<1> HIDE DEF a, k
<1>4. \A d \in ClientIds : received'[d] = IF d = c THEN received[d] \cup {a.x.m}
                                                   ELSE received[d]
  BY <1>1 DEF TypeInv, TypeOK
<1>5. Receives(c, k, a)
  BY <1>1, <1>2, <1>3, <1>4 DEF Receives, a
<1>6. QED
  BY <1>5 DEF k, a

LEMMA OthersKeepSessions ==
  ASSUME TypeInv, [Next]_vars, ~Restart, ~Crash, ~\E k \in Conns : ServeEnds(k),
         ~\E c \in ClientIds, k \in Conns, clean \in CleanFlags : Connect(c, k, clean)
  PROVE  UNCHANGED <<sm, seed, kept, file>> /\ \A j \in Conns : SameUser(j)
<1>1. ASSUME NEW k \in Conns, NEW a \in conn[k].todo, PublishResponse(k, a)
      PROVE  UNCHANGED <<sm, seed, kept, file>> /\ \A j \in Conns : SameUser(j)
  BY <1>1, SendDoes DEF SameUser, Busy
<1>2. ASSUME NEW k \in Conns, Subscribe(k) \/ SetDisconnected(k)
      PROVE  UNCHANGED <<sm, seed, kept, file>> /\ \A j \in Conns : SameUser(j)
  BY <1>2, SubscribeDoes, DisconnectDoes DEF SameUser, Busy
<1>3. ASSUME \/ \E k \in Conns : PubAck(k) \/ \E id \in Keys : NatsResponse(k, id)
             \/ \E c \in ClientIds : ClientReceives(c) \/ ClientDrops(c)
             \/ \E x \in Live : NatsPublish(x)
             \/ UNCHANGED vars
      PROVE  UNCHANGED <<sm, seed, kept, file, conn>>
  BY <1>3, Zenon DEF vars, NatsResponse, PubAck, NatsPublish, ClientReceives, ClientDrops,
     sessionVars, ghosts, storage
<1>4. QED
  BY <1>1, <1>2, <1>3 DEF Next, SameUser, Busy

-----------------------------------------------------------------------------
(* Sessions.                                                               *)

LEMMA Numbers ==
  ASSUME TypeInv
  PROVE  /\ seed \in Nat /\ SessionIds \subseteq Nat /\ 0 \notin SessionIds
         /\ \A d \in ClientIds : sm[d] \in Nat /\ (sm[d] # 0 => sm[d] \in SessionIds)
<1>1. SessionIds \subseteq Nat /\ 0 \notin SessionIds
  BY BoundsAssumption DEF SessionIds
<1>2. seed \in SessionIds \cup {0} /\ \A d \in ClientIds : sm[d] \in SessionIds \cup {0}
  BY DEF TypeInv, TypeOK
<1>3. seed \in Nat
  BY <1>1, <1>2
<1>4. ASSUME NEW d \in ClientIds
      PROVE  sm[d] \in Nat /\ (sm[d] # 0 => sm[d] \in SessionIds)
  <2>1. sm[d] \in SessionIds \/ sm[d] = 0
    BY <1>2
  <2>2. \A n \in SessionIds : n \in Nat
    BY <1>1
  <2>3. 0 \in Nat
    OBVIOUS
  <2>4. QED
    BY <2>1, <2>2, <2>3, Zenon
<1>5. QED
  BY <1>1, <1>3, <1>4

LEMMA ServeEndsSessions ==
  ASSUME TypeInv, SessionInv, NEW k \in Conns, ServeEnds(k)
  PROVE  SessionInv'
<1> DEFINE c == conn[k].cid
<1>1. /\ Busy(k) /\ ~Busy(k)' /\ \A j \in Conns \ {k} : conn'[j] = conn[j]
      /\ sm' = IF conn[k].clean THEN [sm EXCEPT ![c] = 0] ELSE sm
      /\ UNCHANGED <<seed, kept, file>>
  BY ServeEndsDoes
<1>2. \A d \in ClientIds : sm'[d] \in {sm[d], 0} /\ (d # c => sm'[d] = sm[d])
  BY <1>1 DEF TypeInv, TypeOK
<1>3. \A j \in Conns : Busy(j)' => Busy(j) /\ conn'[j] = conn[j] /\ conn[j].cid # c
                                     /\ conn[j].cid \in ClientIds
  BY <1>1 DEF SessionInv, Busy, TypeInv
<1>4. Numbered(sm, seed)' /\ Numbered(file.sm, file.seed)'
  <2>1. seed \in Nat /\ \A d \in ClientIds : sm[d] \in Nat
    BY BoundsAssumption DEF TypeInv, TypeOK, SessionIds
  <2>2. QED
    BY <1>1, <1>2, <2>1 DEF SessionInv, Numbered
<1>5. QED
  BY <1>1, <1>2, <1>3, <1>4 DEF SessionInv

LEMMA ConnectSessions ==
  ASSUME TypeInv, SessionInv, Takeover = FALSE, NEW c \in ClientIds, NEW k \in Conns,
         NEW clean \in CleanFlags, Connect(c, k, clean)
  PROVE  SessionInv'
<1>1. Connects(c, k, clean)
  BY ConnectDoes
<1> DEFINE sid == conn'[k].sid
<1>2. \A j \in Conns \ {k} : Busy(j)' => Busy(j) /\ conn'[j] = conn[j] /\ conn[j].cid # c
                                     /\ conn[j].cid \in ClientIds
  BY <1>1 DEF Connects, Busy, TypeInv
<1>3. Numbered(sm, seed)' /\ Numbered(file.sm, file.seed)'
  <2>1. seed \in Nat /\ (\A d \in ClientIds : sm[d] \in Nat) /\ sid \in Nat
    BY <1>1, Numbers DEF Connects
  <2>2. \/ sm[c] # 0 /\ sid = sm[c] /\ seed' = seed
        \/ sid = seed + 1 /\ seed' = seed + 1
    BY <1>1 DEF Connects
  <2>3. file' = file /\ \A d \in ClientIds : sm'[d] = IF d = c THEN sid ELSE sm[d]
    BY <1>1 DEF Connects
  <2> HIDE DEF sid
  <2>4. QED
    BY <2>1, <2>2, <2>3 DEF SessionInv, Numbered
<1>4. \A d \in ClientIds : kept'[d] = IF d = c THEN ~clean ELSE kept[d]
  BY <1>1 DEF Connects
<1>5. QED
  BY <1>1, <1>2, <1>3, <1>4 DEF SessionInv, Connects

LEMMA SessionsStay ==
  ASSUME TypeInv, SessionInv, Takeover = FALSE, [Next]_vars
  PROVE  SessionInv'
<1>1. CASE Restart
  BY <1>1, RestartDoes DEF SessionInv, Busy
<1>2. CASE Crash
  BY <1>2 DEF Crash, SessionInv, Busy, Unused
<1>3. CASE \E k \in Conns : ServeEnds(k)
  BY <1>3, ServeEndsSessions
<1>4. CASE \E c \in ClientIds, k \in Conns, clean \in CleanFlags : Connect(c, k, clean)
  BY <1>4, ConnectSessions
<1>5. CASE ~Restart /\ ~Crash /\ (~\E k \in Conns : ServeEnds(k))
           /\ ~\E c \in ClientIds, k \in Conns, clean \in CleanFlags : Connect(c, k, clean)
  BY <1>5, OthersKeepSessions DEF SessionInv, SameUser
<1>6. QED
  BY <1>1, <1>2, <1>3, <1>4, <1>5

-----------------------------------------------------------------------------
(* Entries.                                                                *)

LEMMA FitsAlone ==
  ASSUME IdsApart, NEW x \in Messages, NEW i, Fits(i, x)
  PROVE  /\ i \in Ids => FromManager(x)
         /\ i # 0 /\ i \notin Ids => ByPublisher(x) /\ x.id = i
         /\ x.qos > 0 => i # 0
<1>1. x.from = "nats" /\ x.qos > 0 => i \in Ids
  BY DEF Fits, FromManager
<1>2. ~(x.from = "nats" /\ x.qos > 0) => i = x.id
  BY DEF Fits, FromManager
<1>3. 0 \notin Ids /\ x.qos \in Nat /\ (x.qos = 0 => x.id = 0)
  BY IdsAssumption, MessagesAssumption
<1>4. x.from # "nats" /\ x.qos > 0 => x.id \notin Ids \cup {0}
  BY DEF IdsApart, ByPublisher
<1>5. QED
  BY <1>1, <1>2, <1>3, <1>4 DEF ByPublisher, FromManager

LEMMA FiledShrinks ==
  ASSUME NEW e, NEW r, Filed(e, r), NEW f, NEW u,
         \A s \in SessionIds, i \in Keys : f[s][i] \in {e[s][i], None},
         \A s \in SessionIds, i \in Ids \cap Keys : f[s][i] # None => i \in u
  PROVE  Filed(f, u)
BY DEF Filed

LEMMA FiledPut ==
  ASSUME NEW e \in [SessionIds -> [Keys -> Entry]], NEW r, Filed(e, r),
         NEW s \in SessionIds, NEW i \in Keys, NEW x \in Messages, NEW u, r \subseteq u,
         Fits(i, x), x.qos > 0 \/ x.from = "retained",
         i \in Ids => i \in u /\ \A t \in SessionIds : e[t][i] = None
  PROVE  Filed(Put(e, s, i, x), u)
<1> DEFINE f == Put(e, s, i, x)
<1>1. Written(f, e, s, i, x)
  BY PutTypes DEF Entry
<1> HIDE DEF f
<1>2. Filed(f, u)
  BY <1>1 DEF Filed, Written
<1>3. QED
  BY <1>2 DEF f

LEMMA ConnectEntries ==
  ASSUME TypeInv, EntryInv, NEW c \in ClientIds, NEW k \in Conns, NEW clean \in CleanFlags,
         Connects(c, k, clean)
  PROVE  EntryInv'
<1>1. \A s \in SessionIds, i \in Keys : sess'[s][i] \in {sess[s][i], None}
  <2>1. sess' = sess \/ sess' = [sess EXCEPT ![seed + 1] = NoEntries]
    BY DEF Connects
  <2>2. sess \in [SessionIds -> [Keys -> Entry]]
    BY DEF TypeInv, TypeOK
  <2>3. \A i \in Keys : NoEntries[i] = None
    BY DEF NoEntries
  <2>4. QED
    BY <2>1, <2>2, <2>3
<1>2. UNCHANGED <<inFlight, file>>
  BY DEF Connects
<1>3. Filed(sess', inFlight)
  BY <1>1, FiledShrinks DEF EntryInv, Filed
<1>4. QED
  BY <1>2, <1>3 DEF EntryInv

LEMMA SendEntries ==
  ASSUME IdsApart, TypeInv, EntryInv, FlowInv, NEW k \in Conns, NEW a \in conn[k].todo,
         PublishResponse(k, a)
  PROVE  /\ EntryInv'
         /\ conn[k].at = "resend" => sess' = sess
<1> DEFINE s == conn[k].sid
<1>1. /\ Busy(k) /\ a \in Packet /\ conn[k].at \in {"resend", "retained"}
      /\ sess' = sess \/ sess' = Put(sess, s, a.id, a.x)
      /\ UNCHANGED <<inFlight, file>>
  BY SendDoes DEF TypeInv, TypeOK
<1>2. s \in SessionIds /\ a.id \in Keys /\ a.x \in Messages
  BY <1>1, Basics DEF TypeInv
<1>3. ToSendOK(k)
  BY <1>1 DEF FlowInv, FlowOK
<1>4. CASE conn[k].at = "resend"
  <2>1. sess[s][a.id] = a.x
    BY <1>3, <1>4 DEF ToSendOK
  <2>2. [sess[s] EXCEPT ![a.id] = a.x] = sess[s]
    <3>1. sess[s] \in [Keys -> Entry]
      BY <1>2 DEF TypeInv, TypeOK
    <3>2. QED
      BY <1>2, <2>1, <3>1
  <2>3. Put(sess, s, a.id, a.x) = sess
    BY <1>2, <2>2 DEF Put, TypeInv, TypeOK
  <2>4. sess' = sess
    BY <1>1, <2>3
  <2>5. QED
    BY <1>1, <2>4 DEF EntryInv
<1>5. CASE conn[k].at = "retained"
  <2>1. a.x \in Retained /\ a.id = a.x.id
    BY <1>3, <1>5 DEF ToSendOK
  <2>2. a.x.from = "retained"
    BY <1>2, <2>1 DEF Retained, Live
  <2>3. Fits(a.id, a.x) /\ ~FromManager(a.x)
    BY <2>1, <2>2 DEF Fits, FromManager
  <2>4. a.id \notin Ids
    BY <1>2, <2>3, FitsAlone
  <2>5. Filed(Put(sess, s, a.id, a.x), inFlight)
    BY <1>2, <2>2, <2>3, <2>4, FiledPut DEF EntryInv, TypeInv, TypeOK
  <2>6. QED
    BY <1>1, <1>5, <2>5 DEF EntryInv
<1>6. QED
  BY <1>1, <1>4, <1>5

LEMMA DeliverEntries ==
  ASSUME IdsApart, TypeInv, EntryInv, NEW k \in Conns, NEW id \in Keys, NEW x \in Messages,
         Delivers(k, id, x)
  PROVE  EntryInv'
<1> DEFINE s == conn[k].sid
<1>1. /\ s \in SessionIds /\ id \in PacketIdsFor(x) /\ inFlight' = Reserve(x, id)
      /\ sess' = IF Acknowledged(x) THEN Put(sess, s, id, x) ELSE sess
      /\ file' = file /\ x.from # "retained"
  BY DEF Delivers, TypeInv, Live
<1>2. inFlight \subseteq inFlight'
  BY <1>1 DEF Reserve
<1>3. CASE ~Acknowledged(x)
  <2>1. Filed(sess, inFlight')
    BY <1>2 DEF EntryInv, Filed
  <2>2. QED
    BY <1>1, <1>3, <2>1 DEF EntryInv
<1>4. CASE Acknowledged(x)
  <2>1. x.qos > 0
    BY <1>4 DEF Acknowledged
  <2>2. Fits(id, x) /\ (id \in Ids => id \in inFlight' /\ id \notin inFlight)
    <3>1. CASE x.from = "bridge"
      <4>1. id = x.id /\ ByPublisher(x) /\ ~FromManager(x)
        BY <1>1, <2>1, <3>1 DEF PacketIdsFor, Chosen, ByPublisher, FromManager
      <4>2. id \notin Ids
        BY <4>1 DEF IdsApart
      <4>3. QED
        BY <4>1, <4>2 DEF Fits
    <3>2. CASE x.from = "nats"
      <4>1. id \in Ids \ inFlight /\ inFlight' = inFlight \cup {id}
        BY <1>1, <2>1, <3>2, MessagesAssumption DEF PacketIdsFor, Reserve, Chosen
      <4>2. QED
        BY <2>1, <3>2, <4>1 DEF Fits, FromManager
    <3>3. QED
      BY <1>1, <3>1, <3>2, MessagesAssumption DEF Kinds
  <2>3. id \in Ids => \A t \in SessionIds : sess[t][id] = None
    BY <2>2 DEF EntryInv, Filed
  <2>4. Filed(Put(sess, s, id, x), inFlight')
    <3>1. sess \in [SessionIds -> [Keys -> Entry]] /\ Filed(sess, inFlight)
      BY DEF EntryInv, TypeInv, TypeOK
    <3> HIDE DEF s
    <3>2. QED
      BY <1>1, <1>2, <2>1, <2>2, <2>3, <3>1, FiledPut
  <2>5. QED
    BY <1>1, <1>4, <2>4 DEF EntryInv
<1>5. QED
  BY <1>3, <1>4

LEMMA AckEntries ==
  ASSUME TypeInv, EntryInv, FlowInv, NEW k \in Conns, NEW id, Acks(k, id)
  PROVE  EntryInv'
<1> DEFINE s == conn[k].sid
<1>1. /\ s \in SessionIds /\ id \in Keys /\ sess' = Put(sess, s, id, None)
      /\ inFlight' = inFlight \ {id} /\ file' = file
      /\ Busy(k) /\ backs[k] # <<>> /\ id = Head(backs[k])
  BY DEF Acks, TypeInv
<1>2. \A t \in SessionIds, j \in Keys :
         sess'[t][j] = IF t = s /\ j = id THEN None ELSE sess[t][j]
  <2>1. sess \in [SessionIds -> [Keys -> Entry]] /\ None \in Entry
    BY DEF TypeInv, TypeOK, Entry
  <2>2. Written(Put(sess, s, id, None), sess, s, id, None)
    BY <1>1, <2>1, PutTypes
  <2>3. QED
    BY <1>1, <2>2 DEF Written
<1>3. id \in Ids => \A t \in SessionIds : sess'[t][id] = None
  <2>1. 1 \in DOMAIN backs[k] /\ id = backs[k][1]
    BY <1>1, HeadTailProperties DEF TypeInv, TypeOK
  <2>2. id \in Ids => sess[s][id] # None
    BY <1>1, <2>1 DEF FlowInv, FlowOK, BacksOK
  <2>3. QED
    BY <1>1, <1>2, <2>2 DEF EntryInv, Filed
<1>4. Filed(sess', inFlight')
  <2>1. Filed(sess, inFlight)
    BY DEF EntryInv
  <2>2. \A t \in SessionIds, j \in Keys : sess'[t][j] \in {sess[t][j], None}
    BY <1>2
  <2>3. \A t \in SessionIds, j \in Ids \cap Keys : sess'[t][j] # None => j \in inFlight'
    BY <1>1, <1>2, <1>3, <2>1 DEF Filed
  <2>4. QED
    BY <2>1, <2>2, <2>3, FiledShrinks
<1>5. QED
  BY <1>1, <1>4 DEF EntryInv

LEMMA EntriesStay ==
  ASSUME IdsApart, Takeover = FALSE, TypeInv, EntryInv, FlowInv, [Next]_vars
  PROVE  EntryInv'
<1>1. ASSUME NEW k \in Conns, ServeEnds(k) PROVE EntryInv'
  <2>1. \A s \in SessionIds, i \in Keys : sess'[s][i] \in {sess[s][i], None}
    BY <1>1, ServeEndsDoes DEF NoEntries
  <2>2. UNCHANGED <<inFlight, file>>
    BY <1>1, ServeEndsDoes
  <2>3. Filed(sess', inFlight)
    BY <2>1, FiledShrinks DEF EntryInv, Filed
  <2>4. QED
    BY <2>2, <2>3 DEF EntryInv
<1>2. CASE Restart
  <2>1. \A s \in SessionIds, i \in Keys : sess'[s][i] \in {sess[s][i], None}
    BY <1>2, RestartDoes DEF NoEntries
  <2>2. Filed(sess', inFlight)
    BY <2>1, FiledShrinks DEF EntryInv, Filed
  <2>3. QED
    BY <1>2, <2>2, RestartDoes DEF EntryInv
<1>3. CASE Crash
  BY <1>3 DEF Crash, EntryInv
<1>4. ASSUME NEW k \in Conns, NEW a \in conn[k].todo, PublishResponse(k, a) PROVE EntryInv'
  BY <1>4, SendEntries
<1>5. ASSUME NEW k \in Conns, NEW id \in Keys, NatsResponse(k, id) PROVE EntryInv'
  BY <1>5, DeliverDoes, DeliverEntries
<1>6. ASSUME NEW k \in Conns, PubAck(k) PROVE EntryInv'
  BY <1>6, PubAckDoes, AckEntries
<1>7. ASSUME NEW c \in ClientIds, NEW k \in Conns, NEW clean \in CleanFlags, Connect(c, k, clean)
      PROVE  EntryInv'
  BY <1>7, ConnectDoes, ConnectEntries
<1>8. ASSUME \/ \E k \in Conns : Subscribe(k) \/ SetDisconnected(k)
             \/ \E c \in ClientIds : ClientReceives(c) \/ ClientDrops(c)
             \/ \E x \in Live : NatsPublish(x)
             \/ UNCHANGED vars
      PROVE  UNCHANGED <<sess, inFlight, file>>
  BY <1>8, Zenon DEF vars, Subscribe, SetDisconnected, NatsPublish, ClientReceives, ClientDrops,
     sessionVars, storage
<1>9. QED
  BY <1>1, <1>2, <1>3, <1>4, <1>5, <1>6, <1>7, <1>8 DEF Next, EntryInv

-----------------------------------------------------------------------------
(* Packets on their way.                                                   *)

Longer(r, q, x) == \A p \in DOMAIN r :
    \/ p \in DOMAIN q /\ r[p] = q[p]
    \/ p = Len(q) + 1 /\ p \notin DOMAIN q /\ r[p] = x
Shorter(r, q) ==
    /\ 1 \in DOMAIN q /\ Head(q) = q[1]
    /\ \A p \in DOMAIN r : p \in Nat /\ p > 0 /\ p + 1 \in DOMAIN q /\ r[p] = q[p + 1]

LEMMA SeqPoints ==
  ASSUME NEW S, NEW q \in Seq(S)
  PROVE  /\ \A p \in DOMAIN q : p \in Nat /\ q[p] \in S
         /\ \A x \in S : Longer(Append(q, x), q, x)
         /\ q # <<>> => Shorter(Tail(q), q)
<1>1. DOMAIN q = 1..Len(q) /\ Len(q) \in Nat
  OBVIOUS
<1>2. \A p \in DOMAIN q : p \in Nat /\ q[p] \in S
  BY <1>1
<1>3. ASSUME q # <<>> PROVE Shorter(Tail(q), q)
  BY <1>1, <1>3, HeadTailProperties DEF Shorter
<1>4. ASSUME NEW x \in S PROVE Longer(Append(q, x), q, x)
  BY <1>1, AppendProperties DEF Longer
<1>5. QED
  BY <1>2, <1>3, <1>4

LEMMA SessionsApart ==
  ASSUME TypeInv, SessionInv, NEW j \in Conns, NEW k \in Conns, Busy(j), Busy(k), j # k
  PROVE  conn[j].sid # conn[k].sid
<1>1. conn[j].cid # conn[k].cid /\ conn[j].cid \in ClientIds /\ conn[k].cid \in ClientIds
  BY DEF SessionInv, TypeInv
<1>2. sm[conn[j].cid] = conn[j].sid /\ sm[conn[k].cid] = conn[k].sid /\ conn[j].sid # 0
  BY BoundsAssumption DEF SessionInv, TypeInv, SessionIds
<1>3. QED
  BY <1>1, <1>2 DEF SessionInv, Numbered

(* What is on its way at a connection, in typed terms.                     *)
LEMMA FlowTypes ==
  ASSUME TypeInv, NEW j \in Conns, Busy(j)
  PROVE  /\ conn[j].sid \in SessionIds /\ conn[j].cid \in ClientIds
         /\ queue[j] \in Seq(Packet) /\ backs[j] \in Seq(Keys) /\ inbox[j] \in Seq(Live)
         /\ \A a \in conn[j].todo : a \in Packet /\ a.id \in Keys /\ a.x \in Messages
         /\ \A p \in DOMAIN queue[j] :
               p \in Nat /\ queue[j][p].id \in Keys /\ queue[j][p].x \in Messages
         /\ \A p \in DOMAIN backs[j] : p \in Nat /\ backs[j][p] \in Keys
<1>1. /\ conn[j].sid \in SessionIds /\ conn[j].cid \in ClientIds
      /\ queue[j] \in Seq(Packet) /\ backs[j] \in Seq(Keys) /\ inbox[j] \in Seq(Live)
      /\ conn[j].todo \in SUBSET Packet
  BY DEF TypeInv, TypeOK
<1>2. \A p \in DOMAIN queue[j] : p \in Nat /\ queue[j][p] \in Packet
  BY <1>1, SeqPoints
<1>3. \A p \in DOMAIN backs[j] : p \in Nat /\ backs[j][p] \in Keys
  BY <1>1, SeqPoints
<1>4. QED
  BY <1>1, <1>2, <1>3, Basics

(* A connection that a step leaves alone.                                  *)
LEMMA FlowFrame ==
  ASSUME TypeInv, NEW j \in Conns, Busy(j), FlowOK(j),
         conn'[j].sid = conn[j].sid, conn'[j].cid = conn[j].cid, conn'[j].at = conn[j].at,
         conn'[j].todo = conn[j].todo, conn'[j].subscribed = conn[j].subscribed,
         inbox'[j] = inbox[j], queue'[j] = queue[j], backs'[j] = backs[j],
         \A i \in Keys : sess'[conn[j].sid][i] = sess[conn[j].sid][i],
         \A d \in ClientIds : received[d] \subseteq received'[d]
  PROVE  FlowOK(j)'
<1>1. SubscribedOK(j)'
  BY DEF FlowOK, SubscribedOK
<1>2. ToSendOK(j)'
  BY FlowTypes DEF FlowOK, ToSendOK
<1>3. QueueOK(j)'
  <2>1. QueueOK(j) /\ \A p \in DOMAIN queue[j] : queue[j][p].id \in Keys
    BY FlowTypes DEF FlowOK
  <2>2. \A p \in DOMAIN queue[j] :
           sess'[conn[j].sid][queue[j][p].id] = sess[conn[j].sid][queue[j][p].id]
    BY <2>1
  <2>3. QED
    BY <2>1, <2>2 DEF QueueOK
<1>4. BacksOK(j)'
  <2>1. BacksOK(j) /\ conn[j].cid \in ClientIds
    BY FlowTypes DEF FlowOK
  <2>2. \A i \in Ids : sess'[conn[j].sid][i] = sess[conn[j].sid][i]
    BY DEF Keys
  <2>3. \A m : m \in received[conn[j].cid] => m \in received'[conn[j].cid]
    BY <2>1
  <2>4. QED
    BY <2>1, <2>2, <2>3 DEF BacksOK
<1>5. QED
  BY <1>1, <1>2, <1>3, <1>4 DEF FlowOK

LEMMA ConnectFlow ==
  ASSUME TypeInv, SessionInv, FlowInv, NEW c \in ClientIds, NEW k \in Conns,
         NEW clean \in CleanFlags, Connects(c, k, clean)
  PROVE  FlowInv'
<1>1. ASSUME NEW j \in Conns \ {k}, Busy(j)' PROVE FlowOK(j)'
  <2>1. conn'[j] = conn[j] /\ UNCHANGED <<inbox, queue, backs, received>>
    BY DEF Connects
  <2>2. Busy(j) /\ FlowOK(j)
    BY <1>1, <2>1 DEF Busy, FlowInv
  <2>3. \A i \in Keys : sess'[conn[j].sid][i] = sess[conn[j].sid][i]
    <3>1. conn[j].sid \in SessionIds /\ conn[j].sid <= seed /\ seed \in Nat
      BY <2>2, Numbers DEF SessionInv, Numbered, TypeInv
    <3>2. sess' = sess \/ sess' = [sess EXCEPT ![seed + 1] = NoEntries]
      BY DEF Connects
    <3>3. conn[j].sid # seed + 1 /\ sess \in [SessionIds -> [Keys -> Entry]]
      BY <3>1, Numbers DEF TypeInv, TypeOK
    <3>4. QED
      BY <3>1, <3>2, <3>3
  <2>4. QED
    BY <2>1, <2>2, <2>3, FlowFrame
<1>2. FlowOK(k)'
  <2>1. inbox[k] = <<>> /\ queue[k] = <<>> /\ backs[k] = <<>> /\ conn'[k].subscribed = FALSE
        /\ conn'[k].at \in {"read", "resend"} /\ UNCHANGED <<inbox, queue, backs>>
    BY DEF Connects, TypeInv
  <2>2. \A a \in conn'[k].todo : sess'[conn'[k].sid][a.id] = a.x
    BY DEF Connects
  <2>3. DOMAIN queue'[k] = {} /\ DOMAIN backs'[k] = {}
    BY <2>1
  <2>4. QueueOK(k)' /\ BacksOK(k)' /\ SubscribedOK(k)'
    BY <2>1, <2>3 DEF QueueOK, BacksOK, SubscribedOK
  <2>5. ToSendOK(k)'
    BY <2>1, <2>2, <2>3 DEF ToSendOK
  <2>6. QED
    BY <2>4, <2>5 DEF FlowOK
<1>3. QED
  BY <1>1, <1>2 DEF FlowInv

LEMMA SendFlow ==
  ASSUME IdsApart, TypeInv, SessionInv, EntryInv, FlowInv,
         NEW k \in Conns, NEW a \in conn[k].todo, PublishResponse(k, a)
  PROVE  FlowInv'
<1> DEFINE s == conn[k].sid
<1>1. /\ Busy(k) /\ a \in Packet /\ conn[k].at \in {"resend", "retained"}
      /\ SameUser(k) /\ conn'[k].subscribed = conn[k].subscribed
      /\ conn'[k].todo = conn[k].todo \ {a} /\ conn'[k].at \in {"read", conn[k].at}
      /\ \A j \in Conns \ {k} : conn'[j] = conn[j] /\ queue'[j] = queue[j]
      /\ sess' = sess \/ sess' = Put(sess, s, a.id, a.x)
      /\ queue'[k] \in {queue[k], Append(queue[k], a)}
      /\ UNCHANGED <<inbox, backs, received>>
  BY SendDoes DEF TypeInv, TypeOK
<1>2. s \in SessionIds /\ a.id \in Keys /\ a.x \in Messages /\ FlowOK(k)
  BY <1>1, Basics DEF TypeInv, FlowInv
<1>3. /\ conn[k].at = "resend" => sess' = sess
      /\ conn[k].at = "retained" => a.id \notin Ids
      /\ Fits(a.id, a.x)
  <2>1. CASE conn[k].at = "resend"
    <3>1. sess' = sess /\ sess[s][a.id] = a.x
      BY <1>2, <2>1, SendEntries DEF FlowOK, ToSendOK
    <3>2. Fits(a.id, a.x)
      BY <1>2, <3>1, NoneAssumption DEF EntryInv, Filed
    <3>3. QED
      BY <2>1, <3>1, <3>2
  <2>2. CASE conn[k].at = "retained"
    <3>1. a.id = a.x.id /\ a.x.from = "retained"
      BY <1>2, <2>2 DEF FlowOK, ToSendOK, Retained, Live
    <3>2. Fits(a.id, a.x) /\ ~FromManager(a.x)
      BY <3>1 DEF Fits, FromManager
    <3>3. QED
      BY <1>2, <2>2, <3>2, FitsAlone
  <2>3. QED
    BY <1>1, <2>1, <2>2
<1>4. \A t \in SessionIds, i \in Keys :
         t # s \/ i # a.id \/ conn[k].at = "resend" => sess'[t][i] = sess[t][i]
  <2>1. sess \in [SessionIds -> [Keys -> Entry]] /\ a.x \in Entry
    BY <1>2 DEF TypeInv, TypeOK, Entry
  <2>2. Written(Put(sess, s, a.id, a.x), sess, s, a.id, a.x)
    BY <1>2, <2>1, PutTypes
  <2> HIDE DEF s
  <2>3. QED
    BY <1>1, <1>3, <2>2 DEF Written
<1>5. ASSUME NEW j \in Conns \ {k}, Busy(j)' PROVE FlowOK(j)'
  <2>1. Busy(j) /\ FlowOK(j) /\ conn'[j] = conn[j] /\ queue'[j] = queue[j]
    BY <1>1, <1>5 DEF Busy, FlowInv
  <2>2. conn[j].sid # s /\ conn[j].sid \in SessionIds
    BY <1>1, <2>1, SessionsApart DEF TypeInv
  <2>3. \A i \in Keys : sess'[conn[j].sid][i] = sess[conn[j].sid][i]
    BY <1>4, <2>2
  <2>4. QED
    BY <1>1, <2>1, <2>3, FlowFrame
<1>6. FlowOK(k)'
  <2>1. /\ conn'[k].sid = s /\ conn'[k].cid = conn[k].cid
        /\ \A i \in Ids : sess'[s][i] = sess[s][i]
    BY <1>1, <1>2, <1>3, <1>4, Basics DEF SameUser
  <2>2. SubscribedOK(k)'
    BY <1>1, <1>2 DEF FlowOK, SubscribedOK
  <2>3. Longer(queue'[k], queue[k], a)
    <3>1. queue[k] \in Seq(Packet) /\ queue'[k] \in {queue[k], Append(queue[k], a)}
      BY <1>1, FlowTypes
    <3>2. Longer(Append(queue[k], a), queue[k], a)
      BY <1>1, <3>1, SeqPoints
    <3>3. QED
      BY <3>1, <3>2 DEF Longer
  <2>4. a.id \in Ids => /\ conn[k].at = "resend" /\ sess[s][a.id] = a.x
                        /\ \A p \in DOMAIN queue[k] : queue[k][p].id # a.id
                        /\ \A p \in DOMAIN backs[k] : backs[k][p] # a.id
    BY <1>1, <1>2, <1>3 DEF FlowOK, ToSendOK
  <2>5. QueueOK(k)'
    <3>1. ASSUME NEW p \in DOMAIN queue'[k], queue'[k][p].id \in Ids
          PROVE  /\ sess'[s][queue'[k][p].id] = queue'[k][p].x
                 /\ \A q \in DOMAIN queue'[k] : queue'[k][q].id = queue'[k][p].id => q = p
                 /\ \A q \in DOMAIN backs[k] : backs[k][q] # queue'[k][p].id
      BY <1>2, <2>1, <2>3, <2>4, <3>1 DEF FlowOK, QueueOK, Longer
    <3>2. \A p \in DOMAIN queue'[k] : Fits(queue'[k][p].id, queue'[k][p].x)
      BY <1>2, <1>3, <2>3 DEF FlowOK, QueueOK, Longer
    <3>3. QED
      BY <1>1, <2>1, <3>1, <3>2 DEF QueueOK
  <2>6. BacksOK(k)'
    BY <1>1, <1>2, <2>1 DEF FlowOK, BacksOK
  <2>7. ToSendOK(k)'
    <3>1. ASSUME NEW b \in conn'[k].todo
          PROVE  b \in conn[k].todo /\ b \in Packet /\ b # a /\ b.id \in Keys
      BY <1>1, <1>2, Basics, FlowTypes
    <3>2. ASSUME NEW b \in conn'[k].todo, conn[k].at = "resend"
          PROVE  sess'[s][b.id] = b.x /\ b.id # a.id
      <4>1. sess[s][b.id] = b.x /\ sess[s][a.id] = a.x /\ sess' = sess
        BY <1>2, <1>3, <3>1, <3>2 DEF FlowOK, ToSendOK
      <4>2. b.id = a.id => b.x = a.x
        BY <4>1
      <4>3. QED
        BY <1>1, <3>1, <4>1, <4>2 DEF Packet
    <3>3. QED
      BY <1>1, <1>2, <2>1, <2>3, <3>1, <3>2 DEF FlowOK, ToSendOK, Longer
  <2>8. QED
    BY <2>2, <2>5, <2>6, <2>7 DEF FlowOK
<1>7. QED
  BY <1>5, <1>6 DEF FlowInv

LEMMA DeliverFlow ==
  ASSUME IdsApart, TypeInv, SessionInv, EntryInv, FlowInv,
         NEW k \in Conns, NEW id \in Keys, NEW x \in Messages, Delivers(k, id, x)
  PROVE  FlowInv'
<1> DEFINE s == conn[k].sid
           a == [id |-> id, x |-> x]
<1>1. /\ Busy(k) /\ inbox[k] # <<>> /\ id \in PacketIdsFor(x)
      /\ inbox' = [inbox EXCEPT ![k] = Tail(@)]
      /\ sess' = IF Acknowledged(x) THEN Put(sess, s, id, x) ELSE sess
      /\ queue'[k] \in {queue[k], Append(queue[k], a)}
      /\ \A j \in Conns \ {k} : queue'[j] = queue[j]
      /\ UNCHANGED <<conn, backs, received>>
      /\ x.from # "retained"
  BY DEF Delivers, Live
<1>2. /\ s \in SessionIds /\ FlowOK(k) /\ conn[k].subscribed /\ conn[k].at # "resend"
      /\ \A i \in Keys : sess[s][i] # None => Fits(i, sess[s][i])
      /\ \A i \in Keys \cap Ids : sess[s][i] # None => i \in inFlight
  BY <1>1 DEF TypeInv, FlowInv, FlowOK, SubscribedOK, EntryInv, Filed
<1>3. /\ Fits(id, x)
      /\ id \in Ids => id \notin inFlight /\ Acknowledged(x)
  <2>1. CASE Chosen(x)
    <3>1. id = x.id /\ ~FromManager(x)
      BY <1>1, <2>1, MessagesAssumption DEF PacketIdsFor, Chosen, FromManager
    <3>2. Fits(id, x)
      BY <3>1 DEF Fits
    <3>3. QED
      BY <3>1, <3>2, FitsAlone
  <2>2. CASE ~Chosen(x)
    <3>1. x.from = "nats" /\ x.qos > 0 /\ id \in Ids \ inFlight
      BY <1>1, <2>2, MessagesAssumption DEF PacketIdsFor, Chosen, Kinds
    <3>2. QED
      BY <3>1 DEF Fits, FromManager, Acknowledged
  <2>3. QED
    BY <2>1, <2>2
<1>4. /\ \A t \in SessionIds, i \in Keys : t # s \/ i # id => sess'[t][i] = sess[t][i]
      /\ Acknowledged(x) => sess'[s][id] = x
  <2>1. sess \in [SessionIds -> [Keys -> Entry]] /\ x \in Entry
    BY DEF TypeInv, TypeOK, Entry
  <2>2. Written(Put(sess, s, id, x), sess, s, id, x)
    BY <1>2, <2>1, PutTypes
  <2>3. QED
    BY <1>1, <1>2, <2>2 DEF Written
<1>5. ASSUME NEW j \in Conns \ {k}, Busy(j)' PROVE FlowOK(j)'
  <2>1. Busy(j) /\ FlowOK(j) /\ queue'[j] = queue[j] /\ inbox'[j] = inbox[j]
    BY <1>1, <1>5 DEF Busy, FlowInv, TypeInv, TypeOK
  <2>2. conn[j].sid # s /\ conn[j].sid \in SessionIds
    BY <1>1, <2>1, SessionsApart DEF TypeInv
  <2>3. \A i \in Keys : sess'[conn[j].sid][i] = sess[conn[j].sid][i]
    BY <1>4, <2>2
  <2>4. QED
    BY <1>1, <2>1, <2>3, FlowFrame
<1>6. id \in Ids => /\ sess[s][id] = None
                    /\ \A p \in DOMAIN queue[k] : queue[k][p].id # id
                    /\ \A p \in DOMAIN backs[k] : backs[k][p] # id
  <2>1. id \in Ids => sess[s][id] = None
    BY <1>2, <1>3
  <2>2. \A p \in DOMAIN queue[k] : queue[k][p].x # None
    BY <1>1, FlowTypes, NoneAssumption
  <2>3. QED
    BY <1>2, <2>1, <2>2 DEF FlowOK, QueueOK, BacksOK
<1>7. FlowOK(k)'
  <2>1. Longer(queue'[k], queue[k], a) /\ a.id = id /\ a.x = x
    <3>1. a \in Packet /\ queue[k] \in Seq(Packet)
      BY <1>1, FlowTypes DEF Packet
    <3>2. Longer(Append(queue[k], a), queue[k], a)
      BY <3>1, SeqPoints
    <3>3. QED
      BY <1>1, <3>2 DEF Longer
  <2> HIDE DEF a
  <2>2. /\ SubscribedOK(k)' /\ ToSendOK(k)'
    BY <1>1, <1>2 DEF FlowOK, SubscribedOK, ToSendOK
  <2>3. \A p \in DOMAIN queue[k] : queue[k][p].id \in Keys
    BY <1>1, FlowTypes
  <2>4. QueueOK(k)'
    <3>1. ASSUME NEW p \in DOMAIN queue'[k], queue'[k][p].id \in Ids
          PROVE  /\ sess'[s][queue'[k][p].id] = queue'[k][p].x
                 /\ \A q \in DOMAIN queue'[k] : queue'[k][q].id = queue'[k][p].id => q = p
                 /\ \A q \in DOMAIN backs[k] : backs[k][q] # queue'[k][p].id
      BY <1>2, <1>3, <1>4, <1>6, <2>1, <2>3, <3>1 DEF FlowOK, QueueOK, Longer
    <3>2. \A p \in DOMAIN queue'[k] : Fits(queue'[k][p].id, queue'[k][p].x)
      BY <1>2, <1>3, <2>1 DEF FlowOK, QueueOK, Longer
    <3>3. QED
      BY <1>1, <3>1, <3>2 DEF QueueOK
  <2>5. BacksOK(k)'
    <3>1. \A p \in DOMAIN backs[k] : backs[k][p] \in Keys
      BY <1>1, FlowTypes
    <3>2. \A p \in DOMAIN backs[k] : backs[k][p] \in Ids =>
             sess'[s][backs[k][p]] = sess[s][backs[k][p]]
      BY <1>2, <1>4, <1>6, <3>1
    <3>3. QED
      BY <1>1, <1>2, <3>2 DEF FlowOK, BacksOK
  <2>6. QED
    BY <2>2, <2>4, <2>5 DEF FlowOK
<1>8. QED
  BY <1>5, <1>7 DEF FlowInv

LEMMA AckFlow ==
  ASSUME TypeInv, SessionInv, FlowInv, NEW k \in Conns, NEW id, Acks(k, id)
  PROVE  FlowInv'
<1> DEFINE s == conn[k].sid
<1>1. /\ Busy(k) /\ conn[k].at = "read" /\ backs[k] # <<>> /\ id = Head(backs[k]) /\ id \in Keys
      /\ backs' = [backs EXCEPT ![k] = Tail(@)] /\ sess' = Put(sess, s, id, None)
      /\ UNCHANGED <<conn, inbox, queue, received>>
  BY DEF Acks
<1>2. s \in SessionIds /\ FlowOK(k)
  BY <1>1 DEF TypeInv, FlowInv
<1>3. Written(sess', sess, s, id, None)
  <2>1. sess \in [SessionIds -> [Keys -> Entry]] /\ None \in Entry
    BY DEF TypeInv, TypeOK, Entry
  <2>2. QED
    BY <1>1, <1>2, <2>1, PutTypes
<1>4. ASSUME NEW j \in Conns \ {k}, Busy(j)' PROVE FlowOK(j)'
  <2>1. Busy(j) /\ FlowOK(j) /\ backs'[j] = backs[j]
    BY <1>1, <1>4 DEF Busy, FlowInv, TypeInv, TypeOK
  <2>2. conn[j].sid # s /\ conn[j].sid \in SessionIds
    BY <1>1, <2>1, SessionsApart DEF TypeInv
  <2>3. \A i \in Keys : sess'[conn[j].sid][i] = sess[conn[j].sid][i]
    BY <1>3, <2>2 DEF Written
  <2>4. QED
    BY <1>1, <2>1, <2>3, FlowFrame
<1>5. FlowOK(k)'
  <2>1. Shorter(backs'[k], backs[k])
    <3>1. backs[k] \in Seq(Keys) /\ backs'[k] = Tail(backs[k])
      BY <1>1, FlowTypes DEF TypeInv, TypeOK
    <3>2. QED
      BY <1>1, <3>1, SeqPoints
  <2>2. id \in Ids => \A p \in DOMAIN backs'[k] : backs'[k][p] # id
    BY <1>1, <1>2, <2>1 DEF FlowOK, BacksOK, Shorter
  <2>3. id \in Ids => \A p \in DOMAIN queue[k] : queue[k][p].id # id
    BY <1>1, <1>2, <2>1 DEF FlowOK, QueueOK, Shorter
  <2>4. SubscribedOK(k)' /\ ToSendOK(k)'
    BY <1>1, <1>2 DEF FlowOK, SubscribedOK, ToSendOK
  <2>5. QueueOK(k)'
    <3>1. \A p \in DOMAIN queue[k] : queue[k][p].id \in Keys
      BY <1>1, FlowTypes
    <3>2. \A p \in DOMAIN queue[k] : queue[k][p].id \in Ids =>
             sess'[s][queue[k][p].id] = sess[s][queue[k][p].id]
      BY <1>2, <1>3, <2>3, <3>1 DEF Written
    <3>3. QED
      BY <1>1, <1>2, <2>1, <3>2 DEF FlowOK, QueueOK, Shorter
  <2>6. BacksOK(k)'
    <3>1. \A p \in DOMAIN backs[k] : backs[k][p] \in Keys
      BY <1>1, FlowTypes
    <3>2. \A p \in DOMAIN backs'[k] : backs'[k][p] \in Ids =>
             sess'[s][backs'[k][p]] = sess[s][backs'[k][p]]
      BY <1>2, <1>3, <2>1, <2>2, <3>1 DEF Written, Shorter
    <3>3. QED
      BY <1>1, <1>2, <2>1, <3>2 DEF FlowOK, BacksOK, Shorter
  <2>7. QED
    BY <2>4, <2>5, <2>6 DEF FlowOK
<1>6. QED
  BY <1>4, <1>5 DEF FlowInv

LEMMA ReceiveFlow ==
  ASSUME IdsApart, TypeInv, SessionInv, FlowInv, NEW c \in ClientIds, NEW k, NEW a,
         Receives(c, k, a)
  PROVE  FlowInv'
<1> DEFINE s == conn[k].sid
<1>1. /\ k \in Conns /\ Busy(k) /\ conn[k].cid = c /\ queue[k] # <<>> /\ a = Head(queue[k])
      /\ a \in Packet /\ queue' = [queue EXCEPT ![k] = Tail(@)]
      /\ \A d \in ClientIds : received'[d] = IF d = c THEN received[d] \cup {a.x.m}
                                                      ELSE received[d]
      /\ backs' = IF a.x.qos > 0 THEN [backs EXCEPT ![k] = Append(@, a.id)] ELSE backs
      /\ UNCHANGED <<conn, sess, inbox>>
  BY DEF Receives
<1>2. /\ s \in SessionIds /\ FlowOK(k) /\ a.id \in Keys /\ a.x \in Messages
      /\ queue[k] \in Seq(Packet) /\ backs[k] \in Seq(Keys)
  BY <1>1, FlowTypes, Basics DEF FlowInv
<1>3. Shorter(queue'[k], queue[k]) /\ a = queue[k][1]
  <2>1. queue'[k] = Tail(queue[k])
    BY <1>1 DEF TypeInv, TypeOK
  <2>2. Shorter(Tail(queue[k]), queue[k])
    BY <1>1, <1>2, SeqPoints
  <2>3. QED
    BY <1>1, <2>1, <2>2 DEF Shorter
<1>4. /\ Longer(backs'[k], backs[k], a.id)
      /\ a.x.qos = 0 => backs'[k] = backs[k]
  <2>1. backs'[k] = backs[k] \/ backs'[k] = Append(backs[k], a.id)
    BY <1>1 DEF TypeInv, TypeOK
  <2>2. Longer(Append(backs[k], a.id), backs[k], a.id)
    BY <1>2, SeqPoints
  <2>3. QED
    BY <1>1, <2>1, <2>2 DEF Longer
<1>5. /\ Fits(a.id, a.x)
      /\ a.id \in Ids => /\ sess[s][a.id] = a.x
                         /\ \A p \in DOMAIN queue'[k] : queue'[k][p].id # a.id
                         /\ \A p \in DOMAIN backs[k] : backs[k][p] # a.id
  BY <1>2, <1>3 DEF FlowOK, QueueOK, Shorter
<1>6. ASSUME NEW j \in Conns \ {k}, Busy(j)' PROVE FlowOK(j)'
  <2>1. Busy(j) /\ FlowOK(j) /\ queue'[j] = queue[j] /\ backs'[j] = backs[j]
    BY <1>1, <1>6 DEF Busy, FlowInv, TypeInv, TypeOK
  <2>2. \A d \in ClientIds : received[d] \subseteq received'[d]
    BY <1>1
  <2>3. QED
    BY <1>1, <2>1, <2>2, FlowFrame
<1>7. FlowOK(k)'
  <2>1. SubscribedOK(k)'
    BY <1>1, <1>2 DEF FlowOK, SubscribedOK
  <2>2. ToSendOK(k)'
    BY <1>1, <1>2, <1>3, <1>4 DEF FlowOK, ToSendOK, Shorter, Longer
  <2>3. QueueOK(k)'
    <3>1. ASSUME NEW p \in DOMAIN queue'[k]
          PROVE  p \in Nat /\ p + 1 \in DOMAIN queue[k] /\ queue'[k][p] = queue[k][p + 1]
      BY <1>3 DEF Shorter
    <3>2. ASSUME NEW p \in DOMAIN queue'[k], queue'[k][p].id \in Ids
          PROVE  /\ sess[s][queue'[k][p].id] = queue'[k][p].x
                 /\ \A q \in DOMAIN queue'[k] : queue'[k][q].id = queue'[k][p].id => q = p
      BY <1>2, <3>1, <3>2 DEF FlowOK, QueueOK
    <3>3. ASSUME NEW p \in DOMAIN queue'[k], queue'[k][p].id \in Ids
          PROVE  \A q \in DOMAIN backs'[k] : backs'[k][q] # queue'[k][p].id
      BY <1>2, <1>4, <1>5, <3>1, <3>3 DEF FlowOK, QueueOK, Longer
    <3>4. \A p \in DOMAIN queue'[k] : Fits(queue'[k][p].id, queue'[k][p].x)
      BY <1>2, <3>1 DEF FlowOK, QueueOK
    <3>5. QED
      BY <1>1, <3>2, <3>3, <3>4 DEF QueueOK
  <2>4. BacksOK(k)'
    <3>1. received'[c] = received[c] \cup {a.x.m}
      BY <1>1
    <3>2. ASSUME NEW p \in DOMAIN backs[k], backs'[k][p] = backs[k][p]
          PROVE  LET i == backs'[k][p] IN
                 /\ i # 0
                 /\ i \in Ids => /\ sess[s][i] # None /\ sess[s][i].m \in received'[c]
                 /\ i \notin Ids =>
                      \A x \in Messages : Fits(i, x) /\ x.qos > 0 => x.m \in received'[c]
      BY <1>1, <1>2, <3>1, <3>2 DEF FlowOK, BacksOK
    <3>3. CASE a.x.qos > 0
      <4>1. a.id # 0
        BY <1>2, <1>5, <3>3, FitsAlone
      <4>2. a.id \in Ids => sess[s][a.id] # None /\ sess[s][a.id].m \in received'[c]
        BY <1>2, <1>5, <3>1, NoneAssumption
      <4>3. ASSUME a.id \notin Ids, NEW x \in Messages, Fits(a.id, x), x.qos > 0
            PROVE  x.m \in received'[c]
        <5>1. ByPublisher(x) /\ x.id = a.id /\ ByPublisher(a.x) /\ a.x.id = a.id
          BY <1>2, <1>5, <4>1, <4>3, FitsAlone
        <5>2. x = a.x
          BY <1>2, <5>1 DEF IdsApart
        <5>3. QED
          BY <3>1, <5>2
      <4>4. ASSUME NEW p \in DOMAIN backs'[k], backs'[k][p] \in Ids
            PROVE  \A q \in DOMAIN backs'[k] : backs'[k][q] = backs'[k][p] => q = p
        BY <1>2, <1>4, <1>5, <4>4 DEF FlowOK, BacksOK, Longer
      <4>5. ASSUME NEW p \in DOMAIN backs'[k]
            PROVE  LET i == backs'[k][p] IN
                   /\ i # 0
                   /\ i \in Ids => /\ sess[s][i] # None /\ sess[s][i].m \in received'[c]
                   /\ i \notin Ids =>
                        \A x \in Messages : Fits(i, x) /\ x.qos > 0 => x.m \in received'[c]
        <5>1. CASE backs'[k][p] = a.id
          BY <4>1, <4>2, <4>3, <5>1
        <5>2. CASE p \in DOMAIN backs[k] /\ backs'[k][p] = backs[k][p]
          BY <3>2, <5>2
        <5>3. QED
          BY <1>4, <5>1, <5>2 DEF Longer
      <4>6. QED
        BY <1>1, <4>4, <4>5 DEF BacksOK
    <3>4. CASE a.x.qos = 0
      <4>1. backs'[k] = backs[k]
        BY <1>4, <3>4
      <4>2. \A p \in DOMAIN backs[k] : backs[k][p] \in Ids =>
               \A q \in DOMAIN backs[k] : backs[k][q] = backs[k][p] => q = p
        BY <1>2 DEF FlowOK, BacksOK
      <4>3. s = conn[k].sid /\ c = conn[k].cid /\ UNCHANGED <<conn, sess>>
        BY <1>1
      <4>4. ASSUME NEW p \in DOMAIN backs'[k]
            PROVE  LET i == backs'[k][p] IN
                   /\ i # 0
                   /\ i \in Ids => /\ sess[s][i] # None /\ sess[s][i].m \in received'[c]
                   /\ i \notin Ids =>
                        \A x \in Messages : Fits(i, x) /\ x.qos > 0 => x.m \in received'[c]
        BY <3>2, <4>1
      <4>5. QED
        BY <4>1, <4>2, <4>3, <4>4 DEF BacksOK
    <3>5. QED
      BY <1>2, <3>3, <3>4, MessagesAssumption
  <2>5. QED
    BY <2>1, <2>2, <2>3, <2>4 DEF FlowOK
<1>8. QED
  BY <1>6, <1>7 DEF FlowInv

LEMMA ServeEndsFlow ==
  ASSUME TypeInv, SessionInv, FlowInv, NEW k \in Conns, ServeEnds(k)
  PROVE  FlowInv'
<1>1. /\ Busy(k) /\ ~Busy(k)' /\ Discarded(k) \subseteq {conn[k].sid}
      /\ \A j \in Conns \ {k} : conn'[j] = conn[j]
      /\ \A s \in SessionIds : sess'[s] = IF s \in Discarded(k) THEN NoEntries ELSE sess[s]
      /\ inbox' = [inbox EXCEPT ![k] = <<>>] /\ queue' = [queue EXCEPT ![k] = <<>>]
      /\ backs' = [backs EXCEPT ![k] = <<>>] /\ received' = received
  BY ServeEndsDoes
<1>2. ASSUME NEW j \in Conns, Busy(j)' PROVE FlowOK(j)'
  <2>1. /\ j # k /\ Busy(j) /\ FlowOK(j) /\ conn'[j] = conn[j]
        /\ inbox'[j] = inbox[j] /\ queue'[j] = queue[j] /\ backs'[j] = backs[j]
    BY <1>1, <1>2 DEF Busy, FlowInv, TypeInv, TypeOK
  <2>2. conn[j].sid # conn[k].sid /\ conn[j].sid \in SessionIds
    BY <1>1, <2>1, SessionsApart DEF TypeInv
  <2>3. sess'[conn[j].sid] = sess[conn[j].sid]
    BY <1>1, <2>2
  <2>4. QED
    BY <1>1, <2>1, <2>3, FlowFrame
<1>3. QED
  BY <1>2 DEF FlowInv

LEMMA DropFlow ==
  ASSUME TypeInv, FlowInv, NEW c \in ClientIds, ClientDrops(c)
  PROVE  FlowInv'
<1>1. PICK k \in Conns : /\ queue' = [queue EXCEPT ![k] = <<>>]
                         /\ UNCHANGED <<conn, sess, inbox, backs, received>>
  BY DEF ClientDrops, sessionVars, ghosts, TypeInv, TypeOK
<1>2. ASSUME NEW j \in Conns \ {k}, Busy(j)' PROVE FlowOK(j)'
  BY <1>1, <1>2, FlowFrame DEF FlowInv, Busy, TypeInv, TypeOK
<1>3. ASSUME Busy(k)' PROVE FlowOK(k)'
  <2>1. FlowOK(k) /\ DOMAIN queue'[k] = {}
    BY <1>1, <1>3 DEF FlowInv, Busy, TypeInv, TypeOK
  <2>2. SubscribedOK(k)' /\ ToSendOK(k)' /\ QueueOK(k)' /\ BacksOK(k)'
    BY <1>1, <2>1 DEF FlowOK, SubscribedOK, ToSendOK, QueueOK, BacksOK
  <2>3. QED
    BY <2>2 DEF FlowOK
<1>4. QED
  BY <1>1, <1>2, <1>3 DEF FlowInv

LEMMA SubscribeFlow ==
  ASSUME TypeInv, FlowInv, NEW k \in Conns, Subscribe(k) \/ SetDisconnected(k)
  PROVE  FlowInv'
<1>1. /\ SameUser(k) /\ \A j \in Conns \ {k} : conn'[j] = conn[j]
      /\ UNCHANGED <<sess, inbox, queue, backs, received>>
  BY SubscribeDoes, DisconnectDoes
<1>2. ASSUME NEW j \in Conns \ {k}, Busy(j)' PROVE FlowOK(j)'
  BY <1>1, <1>2, FlowFrame DEF FlowInv, Busy
<1>3. ASSUME Busy(k)', SetDisconnected(k) PROVE FlowOK(k)'
  <2>1. FlowOK(k) /\ Busy(k)
    BY <1>1, <1>3 DEF FlowInv, SameUser
  <2>2. /\ conn'[k].sid = conn[k].sid /\ conn'[k].cid = conn[k].cid
        /\ conn'[k].subscribed = conn[k].subscribed
        /\ conn'[k].todo = conn[k].todo /\ conn'[k].at = conn[k].at
    BY <1>1, <1>3, DisconnectDoes DEF SameUser
  <2>3. QED
    BY <1>1, <2>1, <2>2, FlowFrame
<1>4. ASSUME Busy(k)', Subscribe(k) PROVE FlowOK(k)'
  <2>1. FlowOK(k) /\ conn'[k].sid = conn[k].sid /\ conn'[k].cid = conn[k].cid
    BY <1>1, <1>4 DEF FlowInv, SameUser
  <2>2. /\ conn'[k].subscribed = TRUE /\ conn'[k].at \in {"read", "retained"}
        /\ \A a \in conn'[k].todo : a.x \in Retained /\ a.id = a.x.id
    BY <1>4, SubscribeDoes
  <2>3. SubscribedOK(k)' /\ ToSendOK(k)'
    BY <2>2 DEF SubscribedOK, ToSendOK
  <2>4. QueueOK(k)' /\ BacksOK(k)'
    BY <1>1, <2>1 DEF FlowOK, QueueOK, BacksOK
  <2>5. QED
    BY <2>3, <2>4 DEF FlowOK
<1>5. QED
  BY <1>2, <1>3, <1>4 DEF FlowInv

LEMMA PublishFlow ==
  ASSUME TypeInv, FlowInv, NEW x \in Live, NatsPublish(x)
  PROVE  FlowInv'
<1>1. /\ inbox' = [k \in Conns |-> IF conn[k].subscribed THEN Append(inbox[k], x) ELSE inbox[k]]
      /\ UNCHANGED <<conn, sess, queue, backs, received>>
  BY DEF NatsPublish, sessionVars, mqttVars, ghosts
<1>2. ASSUME NEW k \in Conns, Busy(k)' PROVE FlowOK(k)'
  <2>1. FlowOK(k) /\ (~conn[k].subscribed => inbox'[k] = inbox[k])
    BY <1>1, <1>2 DEF FlowInv, Busy
  <2>2. SubscribedOK(k)' /\ ToSendOK(k)' /\ QueueOK(k)' /\ BacksOK(k)'
    BY <1>1, <2>1 DEF FlowOK, SubscribedOK, ToSendOK, QueueOK, BacksOK
  <2>3. QED
    BY <2>2 DEF FlowOK
<1>3. QED
  BY <1>2 DEF FlowInv

LEMMA FlowStays ==
  ASSUME IdsApart, Takeover = FALSE, TypeInv, SessionInv, EntryInv, FlowInv, [Next]_vars
  PROVE  FlowInv'
<1>1. CASE Restart
  BY <1>1, RestartDoes DEF FlowInv, Busy
<1>2. CASE Crash
  BY <1>2 DEF Crash, FlowInv, Busy, Unused
<1>3. ASSUME NEW c \in ClientIds, NEW k \in Conns, NEW clean \in CleanFlags, Connect(c, k, clean)
      PROVE  FlowInv'
  BY <1>3, ConnectDoes, ConnectFlow
<1>4. ASSUME NEW c \in ClientIds, ClientReceives(c) PROVE FlowInv'
  BY <1>4, ReceiveDoes, ReceiveFlow
<1>5. ASSUME NEW k \in Conns, NEW id \in Keys, NatsResponse(k, id) PROVE FlowInv'
  BY <1>5, DeliverDoes, DeliverFlow
<1>6. ASSUME NEW k \in Conns, PubAck(k) PROVE FlowInv'
  BY <1>6, PubAckDoes, AckFlow
<1>7. CASE UNCHANGED vars
  BY <1>7 DEF vars, FlowInv, Busy, FlowOK, SubscribedOK, ToSendOK, QueueOK, BacksOK
<1>8. QED
  BY <1>1, <1>2, <1>3, <1>4, <1>5, <1>6, <1>7, SendFlow, ServeEndsFlow, DropFlow, SubscribeFlow,
     PublishFlow DEF Next

-----------------------------------------------------------------------------
(* What a reply means, and what stays reserved.                            *)

Inv == TypeInv /\ SessionInv /\ EntryInv /\ FlowInv

LEMMA InitInv == Init => Inv
<1> SUFFICES ASSUME Init PROVE Inv
  OBVIOUS
<1>1. TypeInv
  BY InitTypes
<1>2. \A k \in Conns : ~Busy(k)
  BY DEF Init, Busy, Unused
<1>3. SessionInv
  <2>1. sm = [c \in ClientIds |-> 0] /\ seed = 0 /\ file.sm = sm /\ file.seed = 0
    BY DEF Init
  <2>2. QED
    BY <1>2, <2>1 DEF SessionInv, Numbered
<1>4. EntryInv
  <2>1. sess = [s \in SessionIds |-> NoEntries] /\ file.sess = sess
    BY DEF Init
  <2>2. \A i \in Keys : NoEntries[i] = None
    BY DEF NoEntries
  <2>3. QED
    BY <2>1, <2>2 DEF EntryInv, Filed
<1>5. QED
  BY <1>1, <1>2, <1>3, <1>4 DEF Inv, FlowInv

LEMMA InvStays ==
  ASSUME Takeover = FALSE, IdsApart, Inv, [Next]_vars
  PROVE  Inv'
BY TypesStay, SessionsStay, EntriesStay, FlowStays DEF Inv

LEMMA AckTells ==
  ASSUME IdsApart, Inv, NoFalseReply, NEW k \in Conns, NEW id, Acks(k, id)
  PROVE  NoFalseReply'
<1> DEFINE s == conn[k].sid
           c == conn[k].cid
           x == sess[s][id]
<1>1. /\ Busy(k) /\ backs[k] # <<>> /\ id = Head(backs[k]) /\ id \in Keys
      /\ s \in SessionIds /\ c \in ClientIds /\ received' = received
      /\ \A d \in ClientIds : settled'[d] = IF d = c /\ x # None /\ x.from # "retained"
                                            THEN settled[d] \cup {x.m} ELSE settled[d]
  BY DEF Acks, Inv, TypeInv
<1>2. BacksOK(k) /\ 1 \in DOMAIN backs[k] /\ id = backs[k][1]
  <2>1. BacksOK(k) /\ backs[k] \in Seq(Keys)
    BY <1>1, FlowTypes DEF Inv, FlowInv, FlowOK
  <2>2. Shorter(Tail(backs[k]), backs[k])
    BY <1>1, <2>1, SeqPoints
  <2>3. QED
    BY <1>1, <2>1, <2>2 DEF Shorter
<1>3. x # None /\ x.from # "retained" => x.m \in received[c]
  <2>1. x # None => x \in Messages /\ Fits(id, x) /\ (x.qos > 0 \/ x.from = "retained")
    BY <1>1 DEF Inv, EntryInv, Filed, TypeInv, TypeOK, Entry
  <2>2. id \in Ids => x.m \in received[c]
    BY <1>2 DEF BacksOK
  <2>3. id \notin Ids /\ x \in Messages /\ Fits(id, x) /\ x.qos > 0 => x.m \in received[c]
    BY <1>2 DEF BacksOK
  <2>4. QED
    BY <2>1, <2>2, <2>3
<1> HIDE DEF x, c
<1>4. QED
  BY <1>1, <1>3 DEF NoFalseReply

LEMMA RepliesStayTrue ==
  ASSUME Takeover = FALSE, IdsApart, Inv, NoFalseReply, [Next]_vars
  PROVE  NoFalseReply'
<1>1. ASSUME NEW k \in Conns, PubAck(k) PROVE NoFalseReply'
  BY <1>1, PubAckDoes, AckTells DEF Inv
<1>2. ASSUME NEW c \in ClientIds, ClientReceives(c) PROVE NoFalseReply'
  <2>1. /\ settled' = settled
        /\ \A d \in ClientIds : \/ received'[d] = received[d]
                                \/ \E m : received'[d] = received[d] \cup {m}
    BY <1>2, ReceiveDoes DEF Receives, Inv
  <2>2. \A d \in ClientIds : received[d] \subseteq received'[d]
    BY <2>1
  <2>3. QED
    BY <2>1, <2>2 DEF NoFalseReply
<1>3. ASSUME NEW c \in ClientIds, NEW k \in Conns, NEW clean \in CleanFlags, Connect(c, k, clean)
      PROVE  UNCHANGED <<settled, received>>
  BY <1>3 DEF Connect
<1>4. ASSUME NEW k \in Conns, \/ \E a \in conn[k].todo : PublishResponse(k, a)
                              \/ \E id \in Keys : NatsResponse(k, id)
                              \/ Subscribe(k) \/ SetDisconnected(k) \/ ServeEnds(k)
      PROVE  UNCHANGED <<settled, received>>
  BY <1>4, Zenon DEF PublishResponse, NatsResponse, Subscribe, SetDisconnected, ServeEnds, ghosts
<1>5. ASSUME \/ \E c \in ClientIds : ClientDrops(c)
             \/ \E x \in Live : NatsPublish(x)
             \/ Restart \/ Crash \/ UNCHANGED vars
      PROVE  UNCHANGED <<settled, received>>
  BY <1>5, Zenon DEF ClientDrops, NatsPublish, Restart, Crash, vars, ghosts
<1>6. QED
  BY <1>1, <1>2, <1>3, <1>4, <1>5 DEF Next, NoFalseReply

(* A reply sent in the name of a client is for a message that client       *)
(* received and acknowledged, however connections, sessions, restarts and  *)
(* crashes follow each other (the PUBACK case of readLoop).                *)
THEOREM RepliesAreTrue ==
  ASSUME Takeover = FALSE, IdsApart
  PROVE  Spec => []NoFalseReply
<1>1. Init => Inv /\ NoFalseReply
  BY InitInv DEF Init, NoFalseReply
<1>2. Inv /\ NoFalseReply /\ [Next]_vars => (Inv /\ NoFalseReply)'
  BY InvStays, RepliesStayTrue
<1>3. QED
  BY <1>1, <1>2, PTL DEF Spec

(* The packet id of an owed message that the manager gave stays reserved   *)
(* until the PUBACK, over reconnects, restarts and crashes (natsResponse). *)
THEOREM OwedIdsStayReserved ==
  ASSUME Takeover = FALSE, IdsApart
  PROVE  Spec => []OwedIdsAreReserved
<1>1. Inv => OwedIdsAreReserved
  BY Basics DEF Inv, EntryInv, Filed, TypeInv, TypeOK, OwedIdsAreReserved
<1>2. Inv /\ [Next]_vars => Inv'
  BY InvStays
<1>3. QED
  BY <1>1, <1>2, InitInv, PTL DEF Spec

-----------------------------------------------------------------------------
(* The books.                                                              *)

LEMMA OwedPoints ==
  ASSUME NEW e, NEW m
  PROVE  m \in OwedIn(e) <=> \E i \in Keys : e[i] \in Live /\ e[i].m = m
BY DEF OwedIn

LEMMA LiveNames == \A x, y \in Live : x.m = y.m => x = y
BY MessagesAssumption DEF Live

(* What writing the entry x in the place of one that is not of a message   *)
(* to be replied to changes in what a session owes.                        *)
LEMMA OwedAdds ==
  ASSUME NEW e, NEW f, NEW i \in Keys, NEW x, f[i] = x, e[i] \notin Live,
         \A j \in Keys \ {i} : f[j] = e[j]
  PROVE  /\ x \in Live => OwedIn(f) = OwedIn(e) \cup {x.m}
         /\ x \notin Live => OwedIn(f) = OwedIn(e)
         /\ OwedOnce(e) /\ (x \in Live => x.m \notin OwedIn(e)) => OwedOnce(f)
<1>1. ASSUME NEW m
      PROVE  m \in OwedIn(f) <=> m \in OwedIn(e) \/ (x \in Live /\ m = x.m)
  BY OwedPoints
<1>2. ASSUME OwedOnce(e), x \in Live => x.m \notin OwedIn(e) PROVE OwedOnce(f)
  <2>1. \A j \in Keys : e[j] \in Live => e[j].m \in OwedIn(e)
    BY OwedPoints
  <2>2. QED
    BY <1>2, <2>1 DEF OwedOnce
<1>3. QED
  BY <1>1, <1>2

(* ... and what deleting the entry of such a message changes.              *)
LEMMA OwedDrops ==
  ASSUME NEW e, NEW f, NEW i \in Keys, f[i] = None, e[i] \in Live, OwedOnce(e),
         \A j \in Keys \ {i} : f[j] = e[j]
  PROVE  OwedIn(f) = OwedIn(e) \ {e[i].m} /\ OwedOnce(f)
<1>0. None \notin Live
  BY NoneAssumption DEF Live
<1>1. ASSUME NEW m
      PROVE  m \in OwedIn(f) <=> m \in OwedIn(e) /\ m # e[i].m
  <2>1. ASSUME m \in OwedIn(f) PROVE m \in OwedIn(e) /\ m # e[i].m
    <3>1. PICK j \in Keys : f[j] \in Live /\ f[j].m = m
      BY <2>1, OwedPoints
    <3>2. j # i /\ e[j] = f[j]
      BY <1>0, <3>1
    <3>3. m # e[i].m
      BY <3>1, <3>2, LiveNames DEF OwedOnce
    <3>4. QED
      BY <3>1, <3>2, <3>3, OwedPoints
  <2>2. ASSUME m \in OwedIn(e), m # e[i].m PROVE m \in OwedIn(f)
    BY <2>2, OwedPoints
  <2>3. QED
    BY <2>1, <2>2
<1>2. OwedOnce(f)
  BY <1>0 DEF OwedOnce
<1>3. QED
  BY <1>1, <1>2

LEMMA NothingOwed == OwedIn(NoEntries) = {} /\ OwedOnce(NoEntries)
<1>1. \A i \in Keys : NoEntries[i] \notin Live
  BY NoneAssumption DEF NoEntries, Live
<1>2. QED
  BY <1>1, OwedPoints DEF OwedOnce

(* A session that a step leaves alone.                                     *)
LEMMA SameOwed ==
  ASSUME NEW d \in ClientIds, sm'[d] = sm[d], sm[d] # 0 => sess'[sm[d]] = sess[sm[d]]
  PROVE  Owed(d)' = Owed(d)
BY DEF Owed

LEMMA SameSaved ==
  ASSUME NEW d \in ClientIds, file' = file
  PROVE  SavedOwed(d)' = SavedOwed(d)
BY DEF SavedOwed

(* A step that adds to nobody's books.                                     *)
LEMMA BooksFrame ==
  ASSUME BooksInv, \A d \in ClientIds : Owed(d)' \subseteq Owed(d),
         \A s \in SessionIds : OwedOnce(sess'[s]), UNCHANGED <<settled, sent, file>>,
         TypeInv,
         \A k \in Conns : \/ inbox'[k] = inbox[k] /\ conn'[k].cid = conn[k].cid
                          \/ inbox'[k] = <<>>
  PROVE  BooksInv'
<1>1. \A c \in ClientIds : Booked(c)'
  BY SameSaved DEF BooksInv, Booked
<1>2. ASSUME NEW k \in Conns PROVE InboxOK(k)'
  <2>1. CASE inbox'[k] = <<>>
    <3>1. DOMAIN inbox'[k] = {}
      BY <2>1
    <3>2. QED
      BY <3>1 DEF InboxOK
  <2>2. CASE inbox[k] # <<>> /\ inbox'[k] = inbox[k] /\ conn'[k].cid = conn[k].cid
    <3>1. conn[k].cid \in ClientIds /\ InboxOK(k)
      BY <2>2 DEF TypeInv, BooksInv
    <3>2. Owed(conn[k].cid)' \subseteq Owed(conn[k].cid)
      BY <2>2, <3>1
    <3>3. QED
      BY <2>2, <3>1, <3>2 DEF InboxOK
  <2>3. QED
    BY <2>1, <2>2
<1>3. QED
  BY <1>1, <1>2 DEF BooksInv

-----------------------------------------------------------------------------
(* The steps of OwedAcks, client by client.                                *)

SameSaves == \A d \in ClientIds : SavedOwed(d)' = SavedOwed(d)
SameCrashes == stops'.crashes = stops.crashes
Step == [Contract!Next]_(Contract!vars)

LEMMA Stutters ==
  ASSUME \A d \in ClientIds : Owed(d)' = Owed(d), SameSaves, SameCrashes,
         UNCHANGED <<settled, kept>>
  PROVE  Step
<1>1. [d \in ClientIds |-> Owed(d)]' = [d \in ClientIds |-> Owed(d)]
  OBVIOUS
<1>2. [d \in ClientIds |-> SavedOwed(d)]' = [d \in ClientIds |-> SavedOwed(d)]
  BY DEF SameSaves
<1>3. UNCHANGED Contract!vars
  BY <1>1, <1>2 DEF Contract!vars, SameCrashes
<1>4. QED
  BY <1>3 DEF Step

LEMMA Opens ==
  ASSUME TypeOK, NEW c \in ClientIds, NEW keep \in BOOLEAN,
         \A d \in ClientIds : Owed(d)' = IF d = c /\ ~keep THEN {} ELSE Owed(d),
         kept' = [kept EXCEPT ![c] = keep], SameSaves, SameCrashes, settled' = settled
  PROVE  Step
<1>1. [d \in ClientIds |-> Owed(d)]' =
         IF keep THEN [d \in ClientIds |-> Owed(d)]
                 ELSE [[d \in ClientIds |-> Owed(d)] EXCEPT ![c] = {}]
  OBVIOUS
<1>2. [d \in ClientIds |-> SavedOwed(d)]' = [d \in ClientIds |-> SavedOwed(d)]
  BY DEF SameSaves
<1>3. Contract!Open(c, keep)
  BY <1>1, <1>2 DEF Contract!Open, SameCrashes
<1>4. QED
  BY <1>3 DEF Step, Contract!Next

LEMMA Owes ==
  ASSUME NEW c \in ClientIds, NEW m \in MessageNames, m \notin Owed(c) \cup settled[c],
         \A d \in ClientIds : Owed(d)' = IF d = c THEN Owed(d) \cup {m} ELSE Owed(d),
         SameSaves, SameCrashes, UNCHANGED <<settled, kept>>
  PROVE  Step
<1>1. [d \in ClientIds |-> Owed(d)]' =
         [[d \in ClientIds |-> Owed(d)] EXCEPT ![c] = Owed(c) \cup {m}]
  OBVIOUS
<1>2. [d \in ClientIds |-> SavedOwed(d)]' = [d \in ClientIds |-> SavedOwed(d)]
  BY DEF SameSaves
<1>3. Contract!Owe(c, m)
  BY <1>1, <1>2 DEF Contract!Owe, SameCrashes
<1>4. QED
  BY <1>3 DEF Step, Contract!Next

LEMMA Settles ==
  ASSUME TypeOK, NEW c \in ClientIds, NEW m \in MessageNames, m \in Owed(c),
         \A d \in ClientIds : Owed(d)' = IF d = c THEN Owed(d) \ {m} ELSE Owed(d),
         settled' = [settled EXCEPT ![c] = settled[c] \cup {m}],
         SameSaves, SameCrashes, kept' = kept
  PROVE  Step
<1>1. [d \in ClientIds |-> Owed(d)]' =
         [[d \in ClientIds |-> Owed(d)] EXCEPT ![c] = Owed(c) \ {m}]
  OBVIOUS
<1>2. [d \in ClientIds |-> SavedOwed(d)]' = [d \in ClientIds |-> SavedOwed(d)]
  BY DEF SameSaves
<1>3. Contract!Settle(c, m)
  BY <1>1, <1>2 DEF Contract!Settle, SameCrashes
<1>4. QED
  BY <1>3 DEF Step, Contract!Next

LEMMA Discards ==
  ASSUME NEW c \in ClientIds, ~kept[c],
         \A d \in ClientIds : Owed(d)' = IF d = c THEN {} ELSE Owed(d),
         SameSaves, SameCrashes, UNCHANGED <<settled, kept>>
  PROVE  Step
<1>1. [d \in ClientIds |-> Owed(d)]' = [[d \in ClientIds |-> Owed(d)] EXCEPT ![c] = {}]
  OBVIOUS
<1>2. [d \in ClientIds |-> SavedOwed(d)]' = [d \in ClientIds |-> SavedOwed(d)]
  BY DEF SameSaves
<1>3. Contract!Discard(c)
  BY <1>1, <1>2 DEF Contract!Discard, SameCrashes
<1>4. QED
  BY <1>3 DEF Step, Contract!Next

LEMMA ConnectBooks ==
  ASSUME Inv, BooksInv, NEW c \in ClientIds, NEW k \in Conns, NEW clean \in CleanFlags,
         Connect(c, k, clean), Connects(c, k, clean)
  PROVE  Step /\ BooksInv'
<1> USE DEF Inv
<1>1. /\ ~Busy(k) /\ \A j \in Conns \ {k} : conn'[j] = conn[j]
      /\ \A d \in ClientIds : sm'[d] = IF d = c THEN conn'[k].sid ELSE sm[d]
      /\ UNCHANGED <<inFlight, inbox, sent, settled, file, stops>>
  BY DEF Connects
<1>2. \/ clean = FALSE /\ sm[c] # 0 /\ conn'[k].sid = sm[c] /\ sess' = sess
      \/ /\ clean = TRUE \/ sm[c] = 0
         /\ conn'[k].sid = seed + 1 /\ sess' = [sess EXCEPT ![seed + 1] = NoEntries]
  BY FlagsAssumption DEF Connects
<1>3. /\ clean \in BOOLEAN /\ conn'[k].sid \in SessionIds
      /\ kept' = [kept EXCEPT ![c] = ~clean]
  BY FlagsAssumption DEF Connect, Connects
<1>4. sess \in [SessionIds -> [Keys -> Entry]] /\ 0 \notin SessionIds
  BY BoundsAssumption DEF TypeInv, TypeOK, SessionIds
<1>5. ASSUME NEW d \in ClientIds
      PROVE  Owed(d)' = IF d = c /\ clean THEN {} ELSE Owed(d)
  <2>1. CASE d # c
    <3>1. sm'[d] = sm[d] /\ sm[d] # seed + 1
      BY <1>1, <2>1, Numbers DEF SessionInv, Numbered
    <3>2. sm[d] # 0 => sess'[sm[d]] = sess[sm[d]]
      BY <1>2, <1>4, <3>1 DEF TypeInv, TypeOK
    <3>3. QED
      BY <2>1, <3>1, <3>2, SameOwed
  <2>2. CASE d = c /\ clean = FALSE /\ sm[c] # 0 /\ conn'[k].sid = sm[c] /\ sess' = sess
    <3>1. sm'[d] = sm[d]
      BY <1>1, <2>2
    <3>2. QED
      BY <2>2, <3>1, SameOwed
  <2>3. CASE /\ d = c /\ (clean = TRUE \/ sm[c] = 0) /\ conn'[k].sid = seed + 1
             /\ sess' = [sess EXCEPT ![seed + 1] = NoEntries]
    <3>1. sm'[d] = seed + 1 /\ seed + 1 \in SessionIds /\ sess'[seed + 1] = NoEntries
      BY <1>1, <1>3, <1>4, <2>3
    <3>2. Owed(d)' = {}
      BY <1>4, <3>1, NothingOwed DEF Owed
    <3>3. sm[c] = 0 => Owed(c) = {}
      BY DEF Owed
    <3>4. QED
      BY <2>3, <3>2, <3>3
  <2>4. QED
    BY <1>2, <2>1, <2>2, <2>3
<1>6. Step
  <2>1. SameSaves /\ SameCrashes
    BY <1>1, SameSaved DEF SameSaves, SameCrashes
  <2>2. CASE clean = TRUE
    <3>1. kept' = [kept EXCEPT ![c] = FALSE]
      BY <1>3, <2>2
    <3>2. \A d \in ClientIds : Owed(d)' = IF d = c /\ ~FALSE THEN {} ELSE Owed(d)
      BY <1>5, <2>2
    <3>3. QED
      BY <1>1, <2>1, <3>1, <3>2, Opens DEF TypeInv
  <2>3. CASE clean = FALSE
    <3>1. kept' = [kept EXCEPT ![c] = TRUE]
      BY <1>3, <2>3
    <3>2. \A d \in ClientIds : Owed(d)' = IF d = c /\ ~TRUE THEN {} ELSE Owed(d)
      BY <1>5, <2>3
    <3>3. QED
      BY <1>1, <2>1, <3>1, <3>2, Opens DEF TypeInv
  <2>4. QED
    BY <1>3, <2>2, <2>3
<1>7. \A s \in SessionIds : OwedOnce(sess'[s])
  <2>1. \A s \in SessionIds : sess'[s] \in {sess[s], NoEntries}
    BY <1>2, <1>4
  <2>2. QED
    BY <2>1, NothingOwed DEF BooksInv
<1>8. BooksInv'
  <2>1. \A j \in Conns : \/ inbox'[j] = inbox[j] /\ conn'[j].cid = conn[j].cid
                         \/ inbox'[j] = <<>>
    BY <1>1 DEF TypeInv
  <2>2. \A d \in ClientIds : Owed(d)' \subseteq Owed(d)
    BY <1>5
  <2>3. QED
    BY <1>1, <1>7, <2>1, <2>2, BooksFrame
<1>9. QED
  BY <1>6, <1>8

LEMMA SendBooks ==
  ASSUME IdsApart, Inv, BooksInv, NEW k \in Conns, NEW a \in conn[k].todo,
         PublishResponse(k, a)
  PROVE  Step /\ BooksInv'
<1> USE DEF Inv
<1> DEFINE s == conn[k].sid
<1>1. /\ Busy(k) /\ a \in Packet /\ conn[k].at \in {"resend", "retained"} /\ SameUser(k)
      /\ \A j \in Conns \ {k} : conn'[j] = conn[j]
      /\ conn[k].at = "retained" => sess' = Put(sess, s, a.id, a.x)
      /\ UNCHANGED <<sm, inbox, sent, settled, kept, file, stops>>
  BY SendDoes DEF TypeInv, TypeOK
<1>2. s \in SessionIds /\ a.id \in Keys /\ a.x \in Messages /\ FlowOK(k)
  BY <1>1, Basics DEF TypeInv, FlowInv
<1>3. \A t \in SessionIds : OwedIn(sess'[t]) = OwedIn(sess[t]) /\ OwedOnce(sess'[t])
  <2>1. CASE conn[k].at = "resend"
    BY <2>1, SendEntries DEF BooksInv
  <2>2. CASE conn[k].at = "retained"
    <3>1. a.id = a.x.id /\ a.x.from = "retained" /\ a.x \notin Live
      BY <1>2, <2>2 DEF FlowOK, ToSendOK, Retained, Live
    <3>2. Written(sess', sess, s, a.id, a.x)
      <4>1. sess \in [SessionIds -> [Keys -> Entry]] /\ a.x \in Entry
        BY <1>2 DEF TypeInv, TypeOK, Entry
      <4>2. QED
        BY <1>1, <1>2, <2>2, <4>1, PutTypes
    <3>3. sess[s][a.id] \notin Live
      <4> SUFFICES ASSUME sess[s][a.id] \in Live PROVE FALSE
        OBVIOUS
      <4> DEFINE y == sess[s][a.id]
      <4>1. y \in Messages /\ Fits(a.id, y) /\ y.from # "retained" /\ y.qos > 0
        BY <1>2, NoneAssumption DEF EntryInv, Filed, Live
      <4> HIDE DEF y
      <4>2. a.id \notin Ids /\ a.id # 0
        <5>1. Fits(a.id, a.x) /\ ~FromManager(a.x)
          BY <3>1 DEF Fits, FromManager
        <5>2. QED
          BY <1>2, <4>1, <5>1, FitsAlone
      <4>3. ByPublisher(y) /\ y.id = a.id
        BY <4>1, <4>2, FitsAlone
      <4>4. ByPublisher(a.x)
        BY <1>2, <3>1, <4>2, MessagesAssumption DEF ByPublisher
      <4>5. QED
        BY <1>2, <3>1, <4>1, <4>3, <4>4 DEF IdsApart
    <3>4. OwedIn(sess'[s]) = OwedIn(sess[s]) /\ OwedOnce(sess'[s])
      <4>1. sess'[s][a.id] = a.x /\ \A j \in Keys \ {a.id} : sess'[s][j] = sess[s][j]
        BY <1>2, <3>2 DEF Written
      <4>2. OwedOnce(sess[s])
        BY <1>2 DEF BooksInv
      <4> HIDE DEF s
      <4>3. OwedIn(sess'[s]) = OwedIn(sess[s])
        BY <1>2, <3>1, <3>3, <4>1, OwedAdds
      <4>4. OwedOnce(sess'[s])
        BY <1>2, <3>1, <3>3, <4>1, <4>2, OwedAdds
      <4>5. QED
        BY <4>3, <4>4
    <3>5. ASSUME NEW t \in SessionIds, t # s
          PROVE  OwedIn(sess'[t]) = OwedIn(sess[t]) /\ OwedOnce(sess'[t])
      <4>1. \A j \in Keys : sess'[t][j] = sess[t][j]
        BY <3>2, <3>5 DEF Written
      <4>2. OwedOnce(sess[t])
        BY DEF BooksInv
      <4>3. \A m : m \in OwedIn(sess'[t]) <=> m \in OwedIn(sess[t])
        BY <4>1, OwedPoints
      <4>4. QED
        BY <4>1, <4>2, <4>3 DEF OwedOnce
    <3>6. QED
      BY <3>4, <3>5
  <2>3. QED
    BY <1>1, <2>1, <2>2
<1>4. \A d \in ClientIds : Owed(d)' = Owed(d)
  BY <1>1, <1>3 DEF Owed, TypeInv, TypeOK
<1>5. Step
  BY <1>1, <1>4, SameSaved, Stutters DEF SameSaves, SameCrashes
<1>6. BooksInv'
  BY <1>1, <1>3, <1>4, BooksFrame DEF SameUser
<1>7. QED
  BY <1>5, <1>6

LEMMA DeliverBooks ==
  ASSUME IdsApart, Inv, BooksInv, NEW k \in Conns, NEW id \in Keys, NEW x \in Messages,
         Delivers(k, id, x)
  PROVE  Step /\ BooksInv'
<1> USE DEF Inv
<1> DEFINE s == conn[k].sid
           c == conn[k].cid
<1>1. /\ Busy(k) /\ inbox[k] # <<>> /\ x = Head(inbox[k]) /\ x \in Live
      /\ id \in PacketIdsFor(x)
      /\ inbox' = [inbox EXCEPT ![k] = Tail(@)]
      /\ sess' = IF Acknowledged(x) THEN Put(sess, s, id, x) ELSE sess
      /\ UNCHANGED <<conn, sm, sent, settled, kept, file, stops>>
  BY DEF Delivers
<1>2. /\ s \in SessionIds /\ c \in ClientIds /\ sm[c] = s /\ s # 0
      /\ sess \in [SessionIds -> [Keys -> Entry]] /\ x \in Entry
      /\ x.m \in MessageNames /\ inbox[k] \in Seq(Live)
  BY <1>1, Basics, BoundsAssumption
     DEF TypeInv, TypeOK, SessionInv, SessionIds, Entry
<1>3. Shorter(inbox'[k], inbox[k]) /\ x = inbox[k][1]
  <2>1. inbox'[k] = Tail(inbox[k])
    BY <1>1 DEF TypeInv, TypeOK
  <2>2. Shorter(Tail(inbox[k]), inbox[k])
    BY <1>1, <1>2, SeqPoints
  <2>3. QED
    BY <1>1, <2>1, <2>2 DEF Shorter
<1>4. /\ x.m \in sent /\ x.m \notin Owed(c) /\ x.m \notin settled[c]
      /\ \A q \in DOMAIN inbox[k] : inbox[k][q] = x => q = 1
  BY <1>3 DEF BooksInv, InboxOK, Shorter
<1>5. Acknowledged(x) => sess[s][id] \notin Live
  <2> DEFINE y == sess[s][id]
  <2> SUFFICES ASSUME Acknowledged(x), y \in Live PROVE FALSE
    OBVIOUS
  <2>1. x.qos > 0
    BY DEF Acknowledged
  <2>2. y \in Messages /\ y # None /\ Fits(id, y) /\ y.qos > 0
        /\ (id \in Ids => id \in inFlight)
    BY <1>2, NoneAssumption DEF EntryInv, Filed, Live
  <2>3. y.m \in Owed(c)
    BY <1>2, OwedPoints DEF Owed
  <2> HIDE DEF y
  <2>4. CASE x.from = "bridge"
    <3>1. id = x.id /\ ByPublisher(x)
      BY <1>1, <2>1, <2>4 DEF PacketIdsFor, Chosen, ByPublisher
    <3>2. id \notin Ids /\ id # 0
      BY <3>1 DEF IdsApart
    <3>3. ByPublisher(y) /\ y.id = id
      BY <2>2, <3>2, FitsAlone
    <3>4. y = x
      BY <2>2, <3>1, <3>3 DEF IdsApart
    <3>5. QED
      BY <1>4, <2>3, <3>4
  <2>5. CASE x.from = "nats"
    BY <1>1, <2>1, <2>2, <2>5, MessagesAssumption DEF PacketIdsFor, Chosen
  <2>6. QED
    BY <1>1, <2>4, <2>5, MessagesAssumption DEF Live, Kinds
<1>6. ASSUME Acknowledged(x)
      PROVE  /\ OwedIn(sess'[s]) = OwedIn(sess[s]) \cup {x.m}
             /\ \A t \in SessionIds : OwedOnce(sess'[t])
             /\ \A t \in SessionIds \ {s} : \A j \in Keys : sess'[t][j] = sess[t][j]
  <2>1. Written(sess', sess, s, id, x)
    <3>1. Written(Put(sess, s, id, x), sess, s, id, x)
      BY <1>2, PutTypes
    <3>2. QED
      BY <1>1, <1>6, <3>1
  <2>2. sess'[s][id] = x /\ \A j \in Keys \ {id} : sess'[s][j] = sess[s][j]
    BY <1>2, <2>1 DEF Written
  <2>3. \A t \in SessionIds \ {s} : \A j \in Keys : sess'[t][j] = sess[t][j]
    BY <2>1 DEF Written
  <2>4. OwedOnce(sess[s]) /\ x.m \notin OwedIn(sess[s])
    BY <1>2, <1>4 DEF BooksInv, Owed
  <2>5. \A t \in SessionIds \ {s} : OwedOnce(sess'[t])
    <3>1. \A t \in SessionIds : OwedOnce(sess[t])
      BY DEF BooksInv
    <3>2. QED
      BY <2>3, <3>1 DEF OwedOnce
  <2> HIDE DEF s
  <2>6. sess[s][id] \notin Live
    BY <1>5, <1>6
  <2>7. OwedIn(sess'[s]) = OwedIn(sess[s]) \cup {x.m} /\ OwedOnce(sess'[s])
    <3> DEFINE e == sess[s]
               f == sess'[s]
    <3>1. /\ f[id] = x /\ e[id] \notin Live /\ x \in Live /\ OwedOnce(e) /\ x.m \notin OwedIn(e)
          /\ \A j \in Keys \ {id} : f[j] = e[j]
      BY <1>1, <2>2, <2>4, <2>6
    <3> HIDE DEF e, f
    <3>2. OwedIn(f) = OwedIn(e) \cup {x.m}
      BY <3>1, OwedAdds
    <3>3. OwedOnce(f)
      BY <3>1, OwedAdds
    <3>4. QED
      BY <3>2, <3>3 DEF e, f
  <2>8. QED
    BY <2>3, <2>5, <2>7
<1>7. ASSUME NEW d \in ClientIds
      PROVE  Owed(d)' = IF d = c /\ Acknowledged(x) THEN Owed(d) \cup {x.m} ELSE Owed(d)
  <2>1. CASE ~Acknowledged(x)
    BY <1>1, <2>1, SameOwed
  <2>2. CASE Acknowledged(x) /\ d = c
    BY <1>1, <1>2, <1>6, <2>2 DEF Owed
  <2>3. CASE Acknowledged(x) /\ d # c
    <3>1. sm[d] # 0 => sm[d] \in SessionIds \ {s}
      BY <1>2, <2>3 DEF TypeInv, TypeOK, SessionInv, Numbered
    <3>2. sm[d] # 0 => \A m : m \in OwedIn(sess'[sm[d]]) <=> m \in OwedIn(sess[sm[d]])
      BY <1>6, <2>3, <3>1, OwedPoints
    <3>3. sm[d] # 0 => OwedIn(sess'[sm[d]]) = OwedIn(sess[sm[d]])
      BY <3>2
    <3>4. QED
      BY <1>1, <2>3, <3>3 DEF Owed
  <2>4. QED
    BY <2>1, <2>2, <2>3
<1>8. Step
  <2>1. SameSaves /\ SameCrashes
    BY <1>1, SameSaved DEF SameSaves, SameCrashes
  <2>2. CASE Acknowledged(x)
    <3>1. \A d \in ClientIds : Owed(d)' = IF d = c THEN Owed(d) \cup {x.m} ELSE Owed(d)
      BY <1>7, <2>2
    <3> HIDE DEF c
    <3>2. QED
      BY <1>1, <1>2, <1>4, <2>1, <3>1, Owes
  <2>3. CASE ~Acknowledged(x)
    <3>1. \A d \in ClientIds : Owed(d)' = Owed(d)
      BY <1>7, <2>3
    <3>2. QED
      BY <1>1, <2>1, <3>1, Stutters
  <2>4. QED
    BY <2>2, <2>3
<1>9. BooksInv'
  <2>1. \A t \in SessionIds : OwedOnce(sess'[t]) /\ OwedOnce(file'.sess[t])
    BY <1>1, <1>6 DEF BooksInv
  <2>2. \A d \in ClientIds : Booked(d)'
    BY <1>1, <1>4, <1>7, SameSaved DEF BooksInv, Booked
  <2>3. ASSUME NEW j \in Conns PROVE InboxOK(j)'
    <3>1. CASE j = k
      <4>1. ASSUME NEW p \in DOMAIN inbox'[k]
            PROVE  /\ inbox'[k][p].m \in sent /\ inbox'[k][p].m \notin Owed(c) \cup {x.m}
                   /\ inbox'[k][p].m \notin settled[c]
                   /\ \A q \in DOMAIN inbox'[k] : inbox'[k][q] = inbox'[k][p] => q = p
        <5>1. p \in Nat /\ p > 0 /\ p + 1 \in DOMAIN inbox[k] /\ inbox'[k][p] = inbox[k][p + 1]
          BY <1>3, <4>1 DEF Shorter
        <5>2. inbox[k][p + 1].m # x.m
          <6>1. inbox[k][p + 1] \in Live /\ inbox[k][p + 1] # x
            BY <1>2, <1>4, <5>1, SeqPoints
          <6>2. QED
            BY <1>1, <6>1, LiveNames
        <5>3. /\ inbox[k][p + 1].m \in sent /\ inbox[k][p + 1].m \notin Owed(c)
              /\ inbox[k][p + 1].m \notin settled[c]
          BY <5>1 DEF BooksInv, InboxOK
        <5>4. ASSUME NEW q \in DOMAIN inbox'[k], inbox'[k][q] = inbox'[k][p] PROVE q = p
          <6>1. q \in Nat /\ q + 1 \in DOMAIN inbox[k] /\ inbox'[k][q] = inbox[k][q + 1]
            BY <1>3 DEF Shorter
          <6>2. q + 1 = p + 1
            BY <5>1, <5>4, <6>1 DEF BooksInv, InboxOK
          <6>3. QED
            BY <5>1, <6>1, <6>2
        <5>5. QED
          BY <5>1, <5>2, <5>3, <5>4
      <4>2. Owed(c)' \subseteq Owed(c) \cup {x.m} /\ conn'[k].cid = c
        BY <1>1, <1>2, <1>7
      <4>3. QED
        BY <1>1, <3>1, <4>1, <4>2 DEF InboxOK
    <3>2. CASE j # k /\ inbox[j] # <<>>
      <4>1. /\ inbox'[j] = inbox[j] /\ InboxOK(j)
            /\ conn[j].cid # c /\ conn[j].cid \in ClientIds
        BY <1>1, <3>2 DEF BooksInv, TypeInv, TypeOK, SessionInv
      <4>2. Owed(conn[j].cid)' = Owed(conn[j].cid)
        BY <1>1, <1>7, <4>1
      <4>3. QED
        BY <1>1, <4>1, <4>2 DEF InboxOK
    <3>3. CASE j # k /\ inbox[j] = <<>>
      <4>1. DOMAIN inbox'[j] = {}
        BY <1>1, <3>3 DEF TypeInv, TypeOK
      <4>2. QED
        BY <4>1 DEF InboxOK
    <3>4. QED
      BY <3>1, <3>2, <3>3
  <2>4. QED
    BY <2>1, <2>2, <2>3 DEF BooksInv
<1>10. QED
  BY <1>8, <1>9

LEMMA AckBooks ==
  ASSUME Inv, BooksInv, NEW k \in Conns, NEW id, Acks(k, id)
  PROVE  Step /\ BooksInv'
<1> USE DEF Inv
<1> DEFINE s == conn[k].sid
           c == conn[k].cid
           x == sess[s][id]
<1>1. /\ Busy(k) /\ id \in Keys /\ sess' = Put(sess, s, id, None)
      /\ \A d \in ClientIds : settled'[d] = IF d = c /\ x # None /\ x.from # "retained"
                                            THEN settled[d] \cup {x.m} ELSE settled[d]
      /\ UNCHANGED <<conn, sm, inbox, sent, kept, file, stops>>
  BY DEF Acks
<1>2. /\ s \in SessionIds /\ c \in ClientIds /\ sm[c] = s /\ s # 0
      /\ sess \in [SessionIds -> [Keys -> Entry]] /\ None \in Entry
      /\ OwedOnce(sess[s]) /\ Owed(c) = OwedIn(sess[s])
  BY <1>1, BoundsAssumption
     DEF TypeInv, TypeOK, SessionInv, SessionIds, Entry, BooksInv, Owed
<1>3. x \in Live <=> x # None /\ x.from # "retained"
  BY <1>1, <1>2, NoneAssumption DEF Live, Entry
<1>4. /\ sess'[s][id] = None /\ \A j \in Keys \ {id} : sess'[s][j] = sess[s][j]
      /\ \A t \in SessionIds \ {s} : \A j \in Keys : sess'[t][j] = sess[t][j]
  <2>1. Written(Put(sess, s, id, None), sess, s, id, None)
    BY <1>1, <1>2, PutTypes
  <2>2. QED
    BY <1>1, <1>2, <2>1 DEF Written
<1>5. /\ OwedIn(sess'[s]) = IF x \in Live THEN OwedIn(sess[s]) \ {x.m} ELSE OwedIn(sess[s])
      /\ OwedOnce(sess'[s])
  <2>1. None \notin Live
    BY NoneAssumption DEF Live
  <2>2. CASE x \in Live
    <3> HIDE DEF s
    <3>1. OwedIn(sess'[s]) = OwedIn(sess[s]) \ {x.m} /\ OwedOnce(sess'[s])
      BY <1>1, <1>2, <1>4, <2>2, OwedDrops
    <3>2. QED
      BY <2>2, <3>1
  <2>3. CASE x \notin Live
    <3> DEFINE e == sess[s]
               f == sess'[s]
    <3>1. /\ f[id] = None /\ e[id] \notin Live /\ OwedOnce(e)
          /\ \A j \in Keys \ {id} : f[j] = e[j]
      BY <1>2, <1>4, <2>3
    <3> HIDE DEF e, f
    <3>2. OwedIn(f) = OwedIn(e)
      BY <1>1, <2>1, <3>1, OwedAdds
    <3>3. OwedOnce(f)
      BY <1>1, <2>1, <3>1, OwedAdds
    <3>4. QED
      BY <2>3, <3>2, <3>3 DEF e, f
  <2>4. QED
    BY <2>2, <2>3
<1>6. ASSUME NEW d \in ClientIds
      PROVE  Owed(d)' = IF d = c /\ x \in Live THEN Owed(d) \ {x.m} ELSE Owed(d)
  <2>1. CASE d = c
    BY <1>1, <1>2, <1>5, <2>1 DEF Owed
  <2>2. CASE d # c
    <3>1. sm[d] # 0 => sm[d] \in SessionIds \ {s}
      BY <1>2, <2>2 DEF TypeInv, TypeOK, SessionInv, Numbered
    <3>2. sm[d] # 0 => \A m : m \in OwedIn(sess'[sm[d]]) <=> m \in OwedIn(sess[sm[d]])
      BY <1>4, <3>1, OwedPoints
    <3>3. sm[d] # 0 => OwedIn(sess'[sm[d]]) = OwedIn(sess[sm[d]])
      BY <3>2
    <3>4. QED
      BY <1>1, <2>2, <3>3 DEF Owed
  <2>3. QED
    BY <2>1, <2>2
<1>7. x \in Live => x.m \in Owed(c) /\ x.m \in MessageNames
  BY <1>1, <1>2, OwedPoints, Basics
<1> HIDE DEF x, c, s
<1>8. Step
  <2>1. SameSaves /\ SameCrashes
    BY <1>1, SameSaved DEF SameSaves, SameCrashes
  <2>2. CASE x \in Live
    <3>1. settled' = [settled EXCEPT ![c] = settled[c] \cup {x.m}]
      BY <1>2, <1>3, <2>2 DEF Acks, x, c, s, TypeInv, TypeOK
    <3>2. \A d \in ClientIds : Owed(d)' = IF d = c THEN Owed(d) \ {x.m} ELSE Owed(d)
      BY <1>6, <2>2
    <3>3. QED
      BY <1>1, <1>2, <1>7, <2>1, <2>2, <3>1, <3>2, Settles DEF TypeInv
  <2>3. CASE x \notin Live
    <3>1. settled' = settled
      BY <1>3, <2>3 DEF Acks, x, c, s
    <3>2. \A d \in ClientIds : Owed(d)' = Owed(d)
      BY <1>6, <2>3
    <3>3. QED
      BY <1>1, <2>1, <3>1, <3>2, Stutters
  <2>4. QED
    BY <2>2, <2>3
<1>9. BooksInv'
  <2>1. \A t \in SessionIds : OwedOnce(sess'[t]) /\ OwedOnce(file'.sess[t])
    <3>1. \A t \in SessionIds : OwedOnce(sess[t]) /\ OwedOnce(file'.sess[t])
      BY <1>1 DEF BooksInv
    <3>2. QED
      BY <1>4, <1>5, <3>1 DEF OwedOnce
  <2>2. ASSUME NEW d \in ClientIds PROVE Owed(d)' \cup settled'[d] \subseteq Owed(d) \cup settled[d]
    BY <1>1, <1>3, <1>6, <1>7
  <2>3. \A d \in ClientIds : Booked(d)'
    BY <1>1, <2>2, SameSaved DEF BooksInv, Booked
  <2>4. ASSUME NEW j \in Conns PROVE InboxOK(j)'
    <3>1. CASE inbox[j] # <<>>
      <4>1. InboxOK(j) /\ conn[j].cid \in ClientIds
        BY <3>1 DEF BooksInv, TypeInv
      <4>2. Owed(conn[j].cid)' \cup settled'[conn[j].cid]
              \subseteq Owed(conn[j].cid) \cup settled[conn[j].cid]
        BY <1>1, <2>2, <4>1
      <4>3. QED
        BY <1>1, <4>1, <4>2 DEF InboxOK
    <3>2. CASE inbox[j] = <<>>
      <4>1. DOMAIN inbox'[j] = {}
        BY <1>1, <3>2
      <4>2. QED
        BY <4>1 DEF InboxOK
    <3>3. QED
      BY <3>1, <3>2
  <2>5. QED
    BY <2>1, <2>3, <2>4 DEF BooksInv
<1>10. QED
  BY <1>8, <1>9

LEMMA ServeEndsBooks ==
  ASSUME Inv, BooksInv, NEW k \in Conns, ServeEnds(k)
  PROVE  Step /\ BooksInv'
<1> USE DEF Inv
<1> DEFINE c == conn[k].cid
<1>1. /\ Busy(k) /\ c \in ClientIds
      /\ \A j \in Conns \ {k} : conn'[j] = conn[j]
      /\ sm' = IF conn[k].clean THEN [sm EXCEPT ![c] = 0] ELSE sm
      /\ \A s \in SessionIds : sess'[s] = IF s \in Discarded(k) THEN NoEntries ELSE sess[s]
      /\ Discarded(k) \cap {sm'[d] : d \in ClientIds} = {}
      /\ inbox' = [inbox EXCEPT ![k] = <<>>]
      /\ UNCHANGED <<sent, settled, kept, file, stops>>
  BY ServeEndsDoes DEF TypeInv
<1>2. kept[c] = ~conn[k].clean /\ conn[k].clean \in BOOLEAN
  BY <1>1 DEF SessionInv, TypeInv, TypeOK
<1>3. \A d \in ClientIds : sm'[d] = IF conn[k].clean /\ d = c THEN 0 ELSE sm[d]
  BY <1>1 DEF TypeInv, TypeOK
<1>4. ASSUME NEW d \in ClientIds
      PROVE  Owed(d)' = IF conn[k].clean /\ d = c THEN {} ELSE Owed(d)
  <2>1. CASE conn[k].clean /\ d = c
    BY <1>3, <2>1 DEF Owed
  <2>2. CASE ~(conn[k].clean /\ d = c)
    <3>1. sm'[d] = sm[d] /\ sm[d] \notin Discarded(k) /\ (sm[d] # 0 => sm[d] \in SessionIds)
      BY <1>1, <1>3, <2>2 DEF TypeInv, TypeOK
    <3>2. QED
      BY <1>1, <2>2, <3>1, SameOwed
  <2>3. QED
    BY <2>1, <2>2
<1>5. SameSaves /\ SameCrashes
  BY <1>1, SameSaved DEF SameSaves, SameCrashes
<1>6. Step
  <2> HIDE DEF c
  <2>1. CASE conn[k].clean
    <3>1. ~kept[c] /\ \A d \in ClientIds : Owed(d)' = IF d = c THEN {} ELSE Owed(d)
      BY <1>2, <1>4, <2>1
    <3>2. QED
      BY <1>1, <1>5, <3>1, Discards
  <2>2. CASE ~conn[k].clean
    <3>1. \A d \in ClientIds : Owed(d)' = Owed(d)
      BY <1>4, <2>2
    <3>2. QED
      BY <1>1, <1>5, <3>1, Stutters
  <2>3. QED
    BY <2>1, <2>2
<1>7. BooksInv'
  <2>1. \A s \in SessionIds : OwedOnce(sess'[s])
    BY <1>1, NothingOwed DEF BooksInv
  <2>2. \A d \in ClientIds : Owed(d)' \subseteq Owed(d)
    BY <1>4
  <2>3. \A j \in Conns : \/ inbox'[j] = inbox[j] /\ conn'[j].cid = conn[j].cid
                         \/ inbox'[j] = <<>>
    BY <1>1 DEF TypeInv, TypeOK
  <2>4. QED
    BY <1>1, <2>1, <2>2, <2>3, BooksFrame
<1>8. QED
  BY <1>6, <1>7

LEMMA RestartBooks ==
  ASSUME Inv, BooksInv, Restart
  PROVE  Step /\ BooksInv'
<1> USE DEF Inv
<1>1. /\ \A k \in Conns : ~Busy(k)
      /\ \A s \in SessionIds :
            sess'[s] = IF s \in {sm[c] : c \in ClientIds} THEN sess[s] ELSE NoEntries
      /\ file'.sess = sess' /\ file'.sm = sm /\ SameCrashes
      /\ UNCHANGED <<conn, sm, inbox, sent, settled, kept>>
  BY RestartDoes DEF SameCrashes
<1>2. \A d \in ClientIds : Owed(d)' = Owed(d)
  BY <1>1, SameOwed DEF TypeInv, TypeOK
<1>3. \A d \in ClientIds : SavedOwed(d)' = Owed(d)'
  BY <1>1 DEF SavedOwed, Owed
<1>4. Step
  <2>1. [d \in ClientIds |-> Owed(d)]' = [d \in ClientIds |-> Owed(d)]
    BY <1>2
  <2>2. [d \in ClientIds |-> SavedOwed(d)]' = [d \in ClientIds |-> Owed(d)]
    BY <1>2, <1>3
  <2>3. Contract!Persist
    BY <1>1, <2>1, <2>2 DEF Contract!Persist, SameCrashes
  <2>4. QED
    BY <2>3 DEF Step, Contract!Next
<1>5. BooksInv'
  <2>1. \A s \in SessionIds : OwedOnce(sess'[s]) /\ OwedOnce(file'.sess[s])
    BY <1>1, NothingOwed DEF BooksInv
  <2>2. \A c \in ClientIds : Booked(c)'
    BY <1>1, <1>2, <1>3 DEF BooksInv, Booked
  <2>3. ASSUME NEW k \in Conns PROVE InboxOK(k)'
    <3>1. DOMAIN inbox'[k] = {}
      BY <1>1 DEF TypeInv
    <3>2. QED
      BY <3>1 DEF InboxOK
  <2>4. QED
    BY <2>1, <2>2, <2>3 DEF BooksInv
<1>6. QED
  BY <1>4, <1>5

LEMMA CrashBooks ==
  ASSUME Inv, BooksInv, Crash
  PROVE  Step /\ BooksInv'
<1> USE DEF Inv
<1>1. /\ sm' = file.sm /\ sess' = file.sess /\ inbox' = [k \in Conns |-> <<>>]
      /\ UNCHANGED <<sent, settled, kept, file>>
      /\ stops' = [stops EXCEPT !.crashes = @ + 1]
  BY DEF Crash, ghosts
<1>2. \A d \in ClientIds : Owed(d)' = SavedOwed(d) /\ SavedOwed(d)' = SavedOwed(d)
  BY <1>1 DEF SavedOwed, Owed
<1>3. Step
  <2>1. [d \in ClientIds |-> Owed(d)]' = [d \in ClientIds |-> SavedOwed(d)]
    BY <1>2
  <2>2. [d \in ClientIds |-> SavedOwed(d)]' = [d \in ClientIds |-> SavedOwed(d)]
    BY <1>2
  <2>3. stops'.crashes = stops.crashes + 1
    BY <1>1 DEF TypeInv, TypeOK
  <2>4. Contract!Crash
    BY <1>1, <2>1, <2>2, <2>3 DEF Contract!Crash
  <2>5. QED
    BY <2>4 DEF Step, Contract!Next
<1>4. BooksInv'
  <2>1. \A s \in SessionIds : OwedOnce(sess'[s]) /\ OwedOnce(file'.sess[s])
    BY <1>1 DEF BooksInv
  <2>2. \A c \in ClientIds : Booked(c)'
    BY <1>1, <1>2 DEF BooksInv, Booked
  <2>3. ASSUME NEW k \in Conns PROVE InboxOK(k)'
    <3>1. DOMAIN inbox'[k] = {}
      BY <1>1
    <3>2. QED
      BY <3>1 DEF InboxOK
  <2>4. QED
    BY <2>1, <2>2, <2>3 DEF BooksInv
<1>5. QED
  BY <1>3, <1>4

LEMMA PublishBooks ==
  ASSUME Inv, BooksInv, NEW x \in Live, NatsPublish(x)
  PROVE  Step /\ BooksInv'
<1> USE DEF Inv
<1>1. /\ x.m \notin sent /\ sent' = sent \cup {x.m}
      /\ inbox' = [k \in Conns |-> IF conn[k].subscribed THEN Append(inbox[k], x) ELSE inbox[k]]
      /\ UNCHANGED <<conn, sm, sess, settled, kept, file, stops>>
  BY DEF NatsPublish, sessionVars, mqttVars, ghosts, storage
<1>2. \A d \in ClientIds : Owed(d)' = Owed(d) /\ SavedOwed(d)' = SavedOwed(d)
  BY <1>1 DEF Owed, SavedOwed
<1>3. Step
  BY <1>1, <1>2, Stutters DEF SameSaves, SameCrashes
<1>4. \A d \in ClientIds : Booked(d)' /\ x.m \notin Owed(d) /\ x.m \notin settled[d]
  BY <1>1, <1>2 DEF BooksInv, Booked
<1>5. ASSUME NEW k \in Conns PROVE InboxOK(k)'
  <2>1. InboxOK(k) /\ inbox[k] \in Seq(Live)
    BY DEF BooksInv, TypeInv, TypeOK
  <2>2. CASE inbox'[k] = inbox[k] /\ inbox[k] # <<>>
    <3>1. conn[k].cid \in ClientIds
      BY <2>2 DEF TypeInv
    <3>2. Owed(conn[k].cid)' = Owed(conn[k].cid)
      BY <1>1, <1>2, <3>1
    <3>3. \A p \in DOMAIN inbox[k] : /\ inbox[k][p].m \in sent'
                                     /\ inbox[k][p].m \notin Owed(conn[k].cid)
                                     /\ inbox[k][p].m \notin settled[conn[k].cid]
      BY <1>1, <2>1 DEF InboxOK
    <3>4. \A p, q \in DOMAIN inbox[k] : inbox[k][q] = inbox[k][p] => q = p
      BY <2>1 DEF InboxOK
    <3>5. UNCHANGED <<conn, settled>>
      BY <1>1
    <3>6. QED
      BY <2>2, <3>2, <3>3, <3>4, <3>5 DEF InboxOK
  <2>3. CASE inbox'[k] = <<>>
    <3>1. DOMAIN inbox'[k] = {}
      BY <2>3
    <3>2. QED
      BY <3>1 DEF InboxOK
  <2>4. CASE conn[k].subscribed /\ inbox'[k] = Append(inbox[k], x)
    <3> DEFINE c == conn[k].cid
    <3>1. c \in ClientIds /\ conn'[k].cid = c
      BY <1>1, <2>4 DEF TypeInv, Busy, Unused
    <3>2. Longer(inbox'[k], inbox[k], x)
      BY <2>1, <2>4, SeqPoints
    <3>3. \A p \in DOMAIN inbox[k] : inbox[k][p] # x
      BY <1>1, <2>1 DEF InboxOK
    <3>4. x.m \notin Owed(c) /\ x.m \notin settled[c]
      BY <1>4, <3>1
    <3>5. ASSUME NEW p \in DOMAIN inbox'[k]
          PROVE  /\ inbox'[k][p].m \in sent \cup {x.m} /\ inbox'[k][p].m \notin Owed(c)
                 /\ inbox'[k][p].m \notin settled[c]
                 /\ \A q \in DOMAIN inbox'[k] : inbox'[k][q] = inbox'[k][p] => q = p
      BY <2>1, <3>2, <3>3, <3>4 DEF InboxOK, Longer
    <3>6. Owed(c)' = Owed(c)
      BY <1>2, <3>1
    <3>7. QED
      BY <1>1, <3>1, <3>5, <3>6 DEF InboxOK
  <2>5. QED
    BY <1>1, <2>2, <2>3, <2>4
<1>6. QED
  BY <1>1, <1>3, <1>4, <1>5 DEF BooksInv

LEMMA OtherBooks ==
  ASSUME Inv, BooksInv,
         \/ \E k \in Conns : Subscribe(k) \/ SetDisconnected(k)
         \/ \E c \in ClientIds : ClientReceives(c) \/ ClientDrops(c)
         \/ UNCHANGED vars
  PROVE  Step /\ BooksInv'
<1> USE DEF Inv
<1>1. /\ UNCHANGED <<sm, sess, inbox, sent, settled, kept, file, stops>>
      /\ \A j \in Conns : conn'[j].cid = conn[j].cid
  <2>1. ASSUME NEW k \in Conns, Subscribe(k) \/ SetDisconnected(k)
        PROVE  /\ UNCHANGED <<sm, sess, inbox, sent, settled, kept, file, stops>>
               /\ \A j \in Conns : conn'[j].cid = conn[j].cid
    BY <2>1, SubscribeDoes, DisconnectDoes DEF SameUser
  <2>2. ASSUME \/ \E c \in ClientIds : ClientReceives(c) \/ ClientDrops(c)
               \/ UNCHANGED vars
        PROVE  UNCHANGED <<conn, sm, sess, inbox, sent, settled, kept, file, stops>>
    BY <2>2, Zenon DEF ClientReceives, ClientDrops, vars, sessionVars, ghosts, storage
  <2>3. QED
    BY <2>1, <2>2
<1>2. \A d \in ClientIds : Owed(d)' = Owed(d)
  BY <1>1, SameOwed
<1>3. Step
  BY <1>1, <1>2, SameSaved, Stutters DEF SameSaves, SameCrashes
<1>4. BooksInv'
  <2>1. \A s \in SessionIds : OwedOnce(sess'[s])
    BY <1>1 DEF BooksInv
  <2>2. QED
    BY <1>1, <1>2, <2>1, BooksFrame
<1>5. QED
  BY <1>3, <1>4

LEMMA BooksStay ==
  ASSUME Takeover = FALSE, IdsApart, Inv, BooksInv, [Next]_vars
  PROVE  Step /\ BooksInv'
<1>1. ASSUME NEW c \in ClientIds, NEW k \in Conns, NEW clean \in CleanFlags, Connect(c, k, clean)
      PROVE  Step /\ BooksInv'
  BY <1>1, ConnectDoes, ConnectBooks DEF Inv
<1>2. ASSUME NEW k \in Conns, NEW id \in Keys, NatsResponse(k, id) PROVE Step /\ BooksInv'
  BY <1>2, DeliverDoes, DeliverBooks DEF Inv
<1>3. ASSUME NEW k \in Conns, PubAck(k) PROVE Step /\ BooksInv'
  BY <1>3, PubAckDoes, AckBooks DEF Inv
<1>4. QED
  BY <1>1, <1>2, <1>3, SendBooks, ServeEndsBooks, RestartBooks, CrashBooks, PublishBooks,
     OtherBooks DEF Next

LEMMA InitBooks == Init => Contract!Init /\ BooksInv
<1> SUFFICES ASSUME Init PROVE Contract!Init /\ BooksInv
  OBVIOUS
<1>1. /\ sm = [c \in ClientIds |-> 0] /\ file.sm = sm /\ inbox = [k \in Conns |-> <<>>]
      /\ sess = [s \in SessionIds |-> NoEntries] /\ file.sess = sess
      /\ settled = [c \in ClientIds |-> {}] /\ kept = [c \in ClientIds |-> FALSE]
      /\ stops.crashes = 0
  BY DEF Init
<1>2. \A d \in ClientIds : Owed(d) = {} /\ SavedOwed(d) = {}
  BY <1>1 DEF Owed, SavedOwed
<1>3. Contract!Init
  BY <1>1, <1>2 DEF Contract!Init
<1>4. \A s \in SessionIds : OwedOnce(sess[s]) /\ OwedOnce(file.sess[s])
  BY <1>1, NothingOwed
<1>5. ASSUME NEW k \in Conns PROVE InboxOK(k)
  <2>1. DOMAIN inbox[k] = {}
    BY <1>1
  <2>2. QED
    BY <2>1 DEF InboxOK
<1>6. \A c \in ClientIds : Booked(c)
  BY <1>1, <1>2 DEF Booked
<1>7. QED
  BY <1>3, <1>4, <1>5, <1>6 DEF BooksInv

(* The bridge keeps the books of OwedAcks: a message is owed once, settled *)
(* by the PUBACK only, forgotten only with a session that was not to be    *)
(* kept, and a restart loads what was saved (natsResponse, ClientAckReceived*)
(* and the end of Serve).                                                  *)
THEOREM BooksAreKept ==
  ASSUME Takeover = FALSE, IdsApart
  PROVE  Spec => KeepsTheContract
<1>1. Init => Inv /\ BooksInv /\ Contract!Init
  BY InitInv, InitBooks
<1>2. Inv /\ BooksInv /\ [Next]_vars => (Inv /\ BooksInv)' /\ [Contract!Next]_(Contract!vars)
  BY InvStays, BooksStay DEF Step
<1>3. QED
  BY <1>1, <1>2, PTL DEF Spec, KeepsTheContract, Contract!Spec
=============================================================================
