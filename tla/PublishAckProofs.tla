-------------------------- MODULE PublishAckProofs --------------------------
(***************************************************************************)
(* Proofs about PublishAck for any clients, connections, packet ids and    *)
(* bounds. Whether or not a client connects again before its old           *)
(* connection is gone, with any number of restarts and crashes: every      *)
(* variable has its type, and what a session awaits names that session.    *)
(* Without takeovers: a reply finds the session it is for, a PUBACK is     *)
(* earned, and no subscription is left behind.                             *)
(***************************************************************************)
EXTENDS PublishAck, FiniteSetTheorems, SequenceTheorems, TLAPS

(* A connection in use has a client, and a session of some client while it *)
(* handles packets; between its steps a handler has a packet and a         *)
(* subscription.                                                           *)
HandlerOK(cn, ss) ==
    /\ cn.st # "free" => cn.cid \in ClientIds
    /\ cn.st = "connected" \/ cn.at # "read" => cn.sid # 0 /\ cn.st # "free"
    /\ cn.st # "free" /\ cn.sid # 0 => ss[cn.sid].cid \in ClientIds
    /\ cn.at \in {"restored", "subscribed", "requested"} =>
          cn.sub \in Subscriptions /\ cn.pkt \in Packets

(* A registered session is the session of some client.                     *)
RegisteredOK(smm, ss) == \A c \in ClientIds : smm[c] # 0 => ss[smm[c]].cid \in ClientIds

TypeInv ==
    /\ TypeOK
    /\ \A k \in Conns : HandlerOK(conn[k], sess)
    /\ RegisteredOK(sm, sess) /\ RegisteredOK(file.sm, file.sess)

(* A subject belongs to session i of the client the session is for.        *)
NamesSession(subject, i, ss) == subject.sid = i /\ subject.cid = ss[i].cid

(* A set of sessions, in memory or in the file: ids come from the seed, a  *)
(* registered session is its client's, and all it awaits, or is to await   *)
(* again, names it.                                                        *)
SessionsOK(smm, sd, ss) ==
    /\ \A c \in ClientIds : smm[c] <= sd /\ (smm[c] # 0 => ss[smm[c]].cid = c)
    /\ \A i \in SessionIds, p \in PacketIds :
          /\ ss[i].awaitsAck[p] # None =>
                /\ NamesSession(ss[i].awaitsAck[p].subject, i, ss)
                /\ ss[i].awaitsAck[p].subject.pid = p
          /\ ss[i].prelAwaitsAck[p] # None =>
                /\ NamesSession(ss[i].prelAwaitsAck[p], i, ss)
                /\ ss[i].prelAwaitsAck[p].pid = p

(* What the handler of a connection is about to remember names its session *)
(* and its packet, and the id of that session came from the seed.          *)
ConnOK(cn, sd, ss) ==
    /\ cn.sid <= sd
    /\ cn.at \in {"restored", "subscribed", "requested"} =>
          cn.sub.subject.pid = cn.pkt.pid /\ NamesSession(cn.sub.subject, cn.sid, ss)
    /\ cn.st # "free" => \A subject \in cn.todo : NamesSession(subject, cn.sid, ss)

NameInv ==
    /\ SessionsOK(sm, seed, sess)
    /\ SessionsOK(file.sm, file.seed, file.sess)
    /\ \A k \in Conns : ConnOK(conn[k], seed, sess)

-----------------------------------------------------------------------------

LEMMA ClosedTypes ==
  ASSUME NEW s \in Session, NEW k \in Conns
  PROVE  Closed(s, k) \in Session
<1>1. ASSUME NEW p \in PacketIds, s.awaitsAck[p] # None
      PROVE  [s.awaitsAck[p] EXCEPT !.k = None, !.n = 0] \in Subscriptions
  <2>1. s.awaitsAck[p] \in [k : Conns \cup {None}, subject : Subjects, n : Copies]
    BY <1>1 DEF Session, SubscriptionOrNone, Subscriptions
  <2>2. 0 \in Copies
    BY DEF Copies
  <2>3. QED
    BY <2>1, <2>2 DEF Subscriptions
<1>2. [p \in PacketIds |-> IF s.awaitsAck[p] # None /\ s.awaitsAck[p].k = k
                           THEN [s.awaitsAck[p] EXCEPT !.k = None, !.n = 0]
                           ELSE s.awaitsAck[p]] \in [PacketIds -> SubscriptionOrNone]
  BY <1>1 DEF Session, SubscriptionOrNone
<1>3. QED
  BY <1>2 DEF Closed, Session

LEMMA ReloadedTypes ==
  ASSUME NEW s \in Session
  PROVE  Reloaded(s) \in Session
<1>1. \A p \in PacketIds : s.awaitsAck[p] # None => s.awaitsAck[p].subject \in Subjects
  BY DEF Session, SubscriptionOrNone, Subscriptions
<1>2. QED
  BY <1>1 DEF Reloaded, Session, SubscriptionOrNone

LEMMA NewSessionTypes ==
  ASSUME NEW c \in ClientIds \cup {None}
  PROVE  NewSession(c) \in Session
BY DEF NewSession, Session, SubscriptionOrNone

LEMMA UnusedTypes == Unused \in Connection
BY DEF Unused, Connection, SubscriptionOrNone

(* What a client sends again is a sequence of packets.                     *)
LEMMA DuplicatesTypes ==
  ASSUME NEW unacked \in [PacketIds -> Msgs \cup {0}], NEW d \in Duplicates(unacked)
  PROVE  d \in Seq(Packets)
<1> DEFINE U == Unacked(unacked)
           Q == {q \in PacketIds : unacked[q] # 0}
           f == [p \in Q |-> [pid |-> p, dup |-> TRUE, m |-> unacked[p]]]
<1>1. U \subseteq Packets
  <2>1. ASSUME NEW q \in PacketIds, unacked[q] # 0
        PROVE  [pid |-> q, dup |-> TRUE, m |-> unacked[q]] \in Packets
    BY <2>1 DEF Packets
  <2>2. QED
    BY <2>1 DEF Unacked
<1>2. IsFiniteSet(U)
  <2>1. IsFiniteSet(Q)
    BY PacketIdsAssumption, FS_Subset
  <2>2. U = {f[p] : p \in Q}
    BY DEF Unacked
  <2>3. DOMAIN f = Q /\ f \in [Q -> U] /\ \A u \in U : \E p \in Q : f[p] = u
    BY <2>2
  <2>4. f \in Surjection(Q, U)
    BY <2>3 DEF Surjection
  <2>5. QED
    BY <2>1, <2>4, FS_Surjection
<1>3. Cardinality(U) \in Nat
  BY <1>2, FS_CardinalityType
<1>4. d \in [1..Cardinality(U) -> U]
  BY DEF Duplicates
<1> HIDE DEF U
<1>5. d \in [1..Cardinality(U) -> Packets]
  BY <1>1, <1>4
<1>6. QED
  BY <1>3, <1>5

(* One connection changes, and no session loses its client.                *)
LEMMA OneConn ==
  ASSUME TypeInv, NEW k \in Conns, NEW cn \in Connection, conn' = [conn EXCEPT ![k] = cn],
         HandlerOK(cn, sess'),
         \A i \in SessionIds : sess[i].cid \in ClientIds => sess'[i].cid \in ClientIds
  PROVE  conn' \in [Conns -> Connection] /\ \A j \in Conns : HandlerOK(conn'[j], sess')
<1>1. conn \in [Conns -> Connection]
  BY DEF TypeInv, TypeOK
<1>2. ASSUME NEW j \in Conns
      PROVE  HandlerOK(conn'[j], sess')
  <2>1. CASE j = k
    BY <1>1, <2>1
  <2>2. CASE j # k
    <3>1. conn'[j] = conn[j] /\ HandlerOK(conn[j], sess) /\ conn[j] \in Connection
      BY <1>1, <2>2 DEF TypeInv
    <3>2. QED
      BY <3>1 DEF HandlerOK, Connection
  <2>3. QED
    BY <2>1, <2>2
<1>3. QED
  BY <1>1, <1>2

LEMMA SameConns ==
  ASSUME TypeInv, conn' = conn,
         \A i \in SessionIds : sess[i].cid \in ClientIds => sess'[i].cid \in ClientIds
  PROVE  conn' \in [Conns -> Connection] /\ \A j \in Conns : HandlerOK(conn'[j], sess')
<1>1. ASSUME NEW j \in Conns
      PROVE  HandlerOK(conn'[j], sess')
  BY DEF TypeInv, TypeOK, HandlerOK, Connection
<1>2. QED
  BY <1>1 DEF TypeInv, TypeOK

(* The actions, one by one.                                                *)
LEMMA ConnectTypes ==
  ASSUME TypeInv, NEW c \in ClientIds, NEW k \in Conns, NEW clean \in CleanFlags,
         Connect(c, k, clean) \/ ConnectRefused(c, k, clean)
  PROVE  TypeInv'
<1> USE DEF natsVars, sessionVars, mqttVars, ghosts, storage
<1>0. clean \in BOOLEAN /\ TypeOK
  BY FlagsAssumption DEF TypeInv
<1>1. CASE Connect(c, k, clean)
  <2> DEFINE present == Resumes(c, clean)
             sid     == IF present THEN sm[c] ELSE seed + 1
             todo    == IF present THEN Restorable(sess[sid]) ELSE {}
             old     == client[c].unacked
             new     == [Unused EXCEPT !.st = "connected", !.cid = c, !.clean = clean,
                                       !.sid = sid, !.todo = todo,
                                       !.at = IF todo = {} THEN "read" ELSE "restore"]
  <2>1. sid \in SessionIds
    BY <1>1 DEF Connect
  <2>2. todo \subseteq Subjects
    <3>1. sess[sid].prelAwaitsAck \in [PacketIds -> Subjects \cup {None}]
      BY <1>0, <2>1 DEF TypeOK, Session
    <3>2. QED
      BY <3>1 DEF Restorable
  <2>3. old \in [PacketIds -> Msgs \cup {0}]
    BY <1>0 DEF TypeOK
  <2>4. /\ sm' = [sm EXCEPT ![c] = sid]
        /\ seed' = IF present THEN seed ELSE sid
        /\ sess' = IF present THEN sess ELSE [sess EXCEPT ![sid] = NewSession(c)]
        /\ conn' = [conn EXCEPT ![k] = new]
        /\ client' = [client EXCEPT ![c] =
              [k |-> k, unacked |-> IF clean THEN [p \in PacketIds |-> 0] ELSE old]]
        /\ \E first \in IF clean THEN {<<>>} ELSE Duplicates(old) :
              wire' = [wire EXCEPT ![k] = first]
        /\ UNCHANGED <<natsVars, pubacks, ghosts, storage>>
    BY <1>1 DEF Connect
  <2>5. sess'[sid].cid \in ClientIds
    <3>1. CASE present
      BY <1>0, <2>4, <3>1 DEF Resumes, TypeInv, RegisteredOK
    <3>2. CASE ~present
      BY <1>0, <2>1, <2>4, <3>2 DEF NewSession, TypeOK
    <3>3. QED
      BY <3>1, <3>2
  <2> HIDE DEF sid, todo, old, present
  <2>6. new \in Connection /\ HandlerOK(new, sess')
    <3>1. sid # 0
      BY <2>1 DEF SessionIds
    <3>2. new \in Connection
      BY <1>0, <2>1, <2>2 DEF Unused, Connection, SubscriptionOrNone
    <3>3. QED
      BY <2>5, <3>1, <3>2 DEF Unused, HandlerOK
  <2>7. wire' \in [Conns -> Seq(Packets)]
    <3>1. PICK first \in IF clean THEN {<<>>} ELSE Duplicates(old) :
             wire' = [wire EXCEPT ![k] = first]
      BY <2>4
    <3>2. first \in Seq(Packets)
      <4>1. CASE clean
        BY <3>1, <4>1, EmptySeq
      <4>2. CASE ~clean
        BY <2>3, <3>1, <4>2, DuplicatesTypes
      <4>3. QED
        BY <4>1, <4>2
    <3>3. QED
      BY <1>0, <3>1, <3>2 DEF TypeOK
  <2>8. /\ sm' \in [ClientIds -> SessionIds \cup {0}]
        /\ seed' \in SessionIds \cup {0}
        /\ client' \in [ClientIds -> [k : Conns \cup {None},
                                      unacked : [PacketIds -> Msgs \cup {0}]]]
    BY <1>0, <2>1, <2>3, <2>4 DEF TypeOK
  <2>9. /\ sess' \in [SessionIds -> Session]
        /\ \A i \in SessionIds : sess[i].cid \in ClientIds => sess'[i].cid \in ClientIds
    BY <1>0, <2>1, <2>4, NewSessionTypes DEF TypeOK, NewSession
  <2> HIDE DEF new
  <2>10. conn' \in [Conns -> Connection] /\ \A j \in Conns : HandlerOK(conn'[j], sess')
    BY <2>4, <2>6, <2>9, OneConn
  <2>11. TypeOK'
    BY <1>0, <2>4, <2>7, <2>8, <2>9, <2>10 DEF TypeOK
  <2>12. RegisteredOK(sm', sess')
    BY <1>0, <2>1, <2>4, <2>5, <2>9 DEF TypeInv, TypeOK, RegisteredOK
  <2>13. QED
    BY <2>4, <2>10, <2>11, <2>12 DEF TypeInv
<1>2. CASE ConnectRefused(c, k, clean)
  <2> DEFINE new == [Unused EXCEPT !.st = "disconnected", !.cid = c, !.clean = clean]
  <2>1. new \in Connection /\ HandlerOK(new, sess')
    BY <1>0 DEF Unused, Connection, SubscriptionOrNone, HandlerOK
  <2>2. /\ conn' = [conn EXCEPT ![k] = new]
        /\ UNCHANGED <<sessionVars, natsVars, mqttVars, ghosts, storage>>
    BY <1>2 DEF ConnectRefused
  <2> HIDE DEF new
  <2>3. conn' \in [Conns -> Connection] /\ \A j \in Conns : HandlerOK(conn'[j], sess')
    BY <2>1, <2>2, OneConn
  <2>4. TypeOK'
    BY <1>0, <2>2, <2>3 DEF TypeOK
  <2>5. QED
    BY <2>2, <2>3, <2>4 DEF TypeInv
<1>3. QED
  BY <1>1, <1>2

(* A session that remembers a subscription.                                *)
LEMMA AckRequestedTypes ==
  ASSUME NEW s \in Session, NEW p \in PacketIds, NEW sb \in Subscriptions
  PROVE  AckRequested(s, p, sb) \in Session /\ AckRequested(s, p, sb).cid = s.cid
BY DEF AckRequested, Session, SubscriptionOrNone

(* A packet that is read.                                                  *)
LEMMA ReadTypes ==
  ASSUME TypeInv, NEW k \in Conns, Reads(k)
  PROVE  /\ Head(wire[k]) \in Packets /\ wire' \in [Conns -> Seq(Packets)]
         /\ conn[k].sid \in SessionIds /\ sess[conn[k].sid].cid \in ClientIds
         /\ conn[k].sid # 0 /\ conn[k].st # "free"
<1>1. wire \in [Conns -> Seq(Packets)] /\ wire[k] # <<>> /\ wire' = [wire EXCEPT ![k] = Tail(@)]
  BY DEF TypeInv, TypeOK, Reads
<1>2. Head(wire[k]) \in Packets /\ Tail(wire[k]) \in Seq(Packets)
  BY <1>1, HeadTailProperties
<1>3. /\ conn[k].st = "connected" /\ conn[k] \in Connection /\ HandlerOK(conn[k], sess)
  BY DEF Reads, TypeInv, TypeOK
<1>4. QED
  BY <1>1, <1>2, <1>3 DEF HandlerOK, Connection


LEMMA DoneTypes ==
  ASSUME NEW k, conn[k] \in Connection, HandlerOK(conn[k], sess), sess' = sess
  PROVE  HandlerDone(k) \in Connection /\ HandlerOK(HandlerDone(k), sess')
<1>1. HandlerDone(k) \in Connection
  BY DEF HandlerDone, Connection, SubscriptionOrNone
<1>2. HandlerOK(HandlerDone(k), sess')
  BY DEF HandlerDone, HandlerOK, Connection
<1>3. QED
  BY <1>1, <1>2

(* A connection that makes a subscription.                                 *)
LEMMA SubscribeAckTypes ==
  ASSUME TypeInv, NEW k \in Conns, NEW subject \in Subjects, NEW pkt \in Packets,
         NEW at \in {"restored", "subscribed"}, SubscribeAck(k, subject, at, pkt),
         conn[k].sid # 0, conn[k].st # "free", sess' = sess
  PROVE  /\ subs' \in SUBSET Subscriptions /\ conn' \in [Conns -> Connection]
         /\ \A j \in Conns : HandlerOK(conn'[j], sess')
<1>1. PICK n \in Copies :
         LET sb == [k |-> k, subject |-> subject, n |-> n]
         IN  /\ subs' = subs \cup {sb}
             /\ conn' = [conn EXCEPT ![k].at = at, ![k].pkt = pkt, ![k].sub = sb]
  BY DEF SubscribeAck
<1> DEFINE sb == [k |-> k, subject |-> subject, n |-> n]
           cn == [conn[k] EXCEPT !.at = at, !.pkt = pkt, !.sub = sb]
<1>2. sb \in Subscriptions
  BY DEF Subscriptions
<1> HIDE DEF sb
<1>3. conn' = [conn EXCEPT ![k].at = at, ![k].pkt = pkt, ![k].sub = sb]
  BY <1>1 DEF sb
<1>4. subs' = subs \cup {sb}
  BY <1>1 DEF sb
<1>5. conn \in [Conns -> Connection] /\ HandlerOK(conn[k], sess)
  BY DEF TypeInv, TypeOK
<1>6. cn \in Connection
  BY <1>2, <1>5 DEF Connection, SubscriptionOrNone
<1>7. HandlerOK(cn, sess')
  BY <1>2, <1>5 DEF Connection, HandlerOK
<1>8. conn' = [conn EXCEPT ![k] = cn]
  BY <1>3, <1>5
<1> HIDE DEF cn
<1>9. conn' \in [Conns -> Connection] /\ \A j \in Conns : HandlerOK(conn'[j], sess')
  BY <1>6, <1>7, <1>8, OneConn
<1>10. QED
  BY <1>2, <1>4, <1>9 DEF TypeInv, TypeOK

LEMMA StillRegistered ==
  ASSUME TypeInv, UNCHANGED <<sm, file>>,
         \A i \in SessionIds : sess[i].cid \in ClientIds => sess'[i].cid \in ClientIds
  PROVE  RegisteredOK(sm', sess') /\ RegisteredOK(file'.sm, file'.sess)
BY DEF TypeInv, TypeOK, RegisteredOK

(* The loop of RestoreAckSubscriptions goes on.                            *)
LEMMA GoesOnTypes ==
  ASSUME TypeInv, NEW k \in Conns, NEW s \in Session, NEW left \in SUBSET conn[k].todo,
         conn[k].at \in {"restore", "restored"}, s.cid = sess[conn[k].sid].cid,
         RestoreGoesOn(k, s, left)
  PROVE  TypeInv'
<1> USE DEF natsVars, sessionVars, mqttVars, ghosts, storage
<1>0. TypeOK /\ conn[k] \in Connection /\ HandlerOK(conn[k], sess)
  BY DEF TypeInv, TypeOK
<1>1. PICK t : t = IF left # {} THEN s
                   ELSE [s EXCEPT !.prelAwaitsAck = [q \in PacketIds |-> None]]
  OBVIOUS
<1>2. t \in Session /\ t.cid = s.cid
  BY <1>1 DEF Session
<1> DEFINE cn == [conn[k] EXCEPT !.todo = left, !.pkt = None, !.sub = None,
                                 !.at = IF left = {} THEN "read" ELSE "restore"]
<1>3. sess' = [sess EXCEPT ![conn[k].sid] = t] /\ UNCHANGED <<sm, seed, natsVars, mqttVars, ghosts, storage>>
  BY <1>1 DEF RestoreGoesOn
<1>4. conn' = [conn EXCEPT ![k] = cn]
  BY <1>0 DEF RestoreGoesOn, TypeOK
<1>5. conn[k].sid \in SessionIds
  BY <1>0 DEF HandlerOK, Connection
<1>6. sess' \in [SessionIds -> Session] /\ \A i \in SessionIds : sess'[i].cid = sess[i].cid
  BY <1>0, <1>2, <1>3, <1>5 DEF TypeOK
<1>7. cn \in Connection
  <2>1. left \subseteq Subjects
    BY <1>0 DEF Connection
  <2>2. QED
    BY <1>0, <2>1 DEF Connection, SubscriptionOrNone
<1>8. HandlerOK(cn, sess')
  BY <1>0, <1>5, <1>6, <1>7 DEF HandlerOK, Connection
<1> HIDE DEF cn
<1>9. conn' \in [Conns -> Connection] /\ \A j \in Conns : HandlerOK(conn'[j], sess')
  BY <1>4, <1>6, <1>7, <1>8, OneConn
<1>10. TypeOK'
  BY <1>0, <1>3, <1>6, <1>9 DEF TypeOK
<1>11. QED
  BY <1>3, <1>6, <1>9, <1>10, StillRegistered DEF TypeInv

LEMMA ReadLoopTypes ==
  ASSUME TypeInv, NEW k \in Conns, ReadLoop(k)
  PROVE  TypeInv'
<1> USE DEF natsVars, sessionVars, mqttVars, ghosts, storage
<1>0. TypeOK /\ conn[k] \in Connection /\ HandlerOK(conn[k], sess)
  BY DEF TypeInv, TypeOK
<1>1. ASSUME NEW subject \in conn[k].todo, RestoreSubscribe(k, subject)
      PROVE  TypeInv'
  <2>1. subject \in Subjects
    BY <1>0 DEF Connection
  <2> DEFINE pkt == [pid |-> subject.pid, dup |-> subject.dup, m |-> 1]
  <2>2. pkt \in Packets
    BY <2>1, BoundsAssumption DEF Subjects, Packets, Msgs
  <2>3. /\ conn[k].at = "restore" /\ SubscribeAck(k, subject, "restored", pkt)
        /\ UNCHANGED <<sessionVars, calls, requests, mqttVars, ghosts, storage>>
    BY <1>1 DEF RestoreSubscribe
  <2> HIDE DEF pkt
  <2>4. conn[k].sid # 0 /\ sess[conn[k].sid].cid \in ClientIds /\ conn[k].st # "free"
    BY <1>0, <2>3 DEF HandlerOK
  <2>5. /\ subs' \in SUBSET Subscriptions /\ conn' \in [Conns -> Connection]
        /\ \A j \in Conns : HandlerOK(conn'[j], sess')
    BY <2>1, <2>2, <2>3, <2>4, SubscribeAckTypes
  <2>6. TypeOK'
    BY <1>0, <2>3, <2>5 DEF TypeOK
  <2>7. QED
    BY <2>3, <2>5, <2>6, StillRegistered DEF TypeInv
<1>2. CASE RestoreAckRequested(k)
  <2> DEFINE new == AckRequested(sess[conn[k].sid], conn[k].pkt.pid, conn[k].sub)
  <2>1. /\ conn[k].at = "restored"
        /\ RestoreGoesOn(k, new, conn[k].todo \ {conn[k].sub.subject})
    BY <1>2 DEF RestoreAckRequested
  <2>2. /\ sess[conn[k].sid] \in Session /\ conn[k].sub \in Subscriptions
        /\ conn[k].pkt.pid \in PacketIds
    BY <1>0, <2>1 DEF HandlerOK, Connection, Packets, TypeOK
  <2>3. new \in Session /\ new.cid = sess[conn[k].sid].cid
    BY <2>2, AckRequestedTypes
  <2> HIDE DEF new
  <2>4. QED
    BY <2>1, <2>3, GoesOnTypes
<1>3. CASE IgnoreDuplicate(k)
  <2>1. /\ wire' \in [Conns -> Seq(Packets)]
        /\ UNCHANGED <<conn, sessionVars, natsVars, pubacks, client, ghosts, storage>>
    BY <1>3, ReadTypes DEF IgnoreDuplicate
  <2>2. TypeOK'
    BY <1>0, <2>1 DEF TypeOK
  <2>3. QED
    BY <2>1, <2>2, SameConns, StillRegistered DEF TypeInv
<1>4. CASE PublishSubscribe(k)
  <2> DEFINE pkt == Head(wire[k])
             subject == ReplyTopic(conn[k].sid, pkt)
  <2>1. /\ Reads(k) /\ SubscribeAck(k, subject, "subscribed", pkt)
        /\ UNCHANGED <<sessionVars, calls, requests, pubacks, client, ghosts, storage>>
    BY <1>4 DEF PublishSubscribe
  <2>2. /\ pkt \in Packets /\ wire' \in [Conns -> Seq(Packets)]
        /\ conn[k].sid \in SessionIds /\ sess[conn[k].sid].cid \in ClientIds
        /\ conn[k].sid # 0 /\ conn[k].st # "free"
    BY <2>1, ReadTypes
  <2>3. subject \in Subjects
    BY <2>2 DEF ReplyTopic, Subjects, Packets
  <2> HIDE DEF pkt, subject
  <2>4. /\ subs' \in SUBSET Subscriptions /\ conn' \in [Conns -> Connection]
        /\ \A j \in Conns : HandlerOK(conn'[j], sess')
    BY <2>1, <2>2, <2>3, SubscribeAckTypes
  <2>5. TypeOK'
    BY <1>0, <2>1, <2>2, <2>4 DEF TypeOK
  <2>6. QED
    BY <2>1, <2>4, <2>5, StillRegistered DEF TypeInv
<1>5. CASE PublishAckRequested(k)
  <2> DEFINE s == AckRequested(sess[conn[k].sid], conn[k].pkt.pid, conn[k].sub)
             cn == [conn[k] EXCEPT !.at = "requested"]
  <2>1. /\ conn[k].at = "subscribed" /\ conn' = [conn EXCEPT ![k] = cn]
        /\ UNCHANGED <<sm, seed, natsVars, mqttVars, ghosts, storage>>
    BY <1>0, <1>5 DEF PublishAckRequested, TypeOK
  <2>2. /\ conn[k].sid \in SessionIds /\ conn[k].sub \in Subscriptions
        /\ conn[k].pkt.pid \in PacketIds
    BY <1>0, <2>1 DEF HandlerOK, Connection, Packets
  <2>3. sess[conn[k].sid] \in Session
    BY <1>0, <2>2 DEF TypeOK
  <2>4. s \in Session /\ s.cid = sess[conn[k].sid].cid
    BY <2>2, <2>3, AckRequestedTypes
  <2>5. sess' = [sess EXCEPT ![conn[k].sid] = s]
    BY <1>0, <1>5, <2>2 DEF PublishAckRequested, TypeOK
  <2> HIDE DEF s
  <2>6. sess' \in [SessionIds -> Session] /\ \A i \in SessionIds : sess'[i].cid = sess[i].cid
    BY <1>0, <2>4, <2>5 DEF TypeOK
  <2>7. cn \in Connection
    BY <1>0 DEF Connection
  <2>8. HandlerOK(cn, sess')
    BY <1>0, <2>1, <2>2, <2>6, <2>7 DEF HandlerOK, Connection
  <2> HIDE DEF cn
  <2>9. conn' \in [Conns -> Connection] /\ \A j \in Conns : HandlerOK(conn'[j], sess')
    BY <2>1, <2>6, <2>7, <2>8, OneConn
  <2>10. TypeOK'
    BY <1>0, <2>1, <2>6, <2>9 DEF TypeOK
  <2>11. QED
    BY <2>1, <2>6, <2>9, <2>10, StillRegistered DEF TypeInv
<1>6. CASE PublishRequest(k)
  <2> DEFINE r == [subject |-> conn[k].sub.subject, m |-> conn[k].pkt.m, left |-> MaxReplies]
  <2>1. /\ conn[k].at = "requested" /\ requests' = requests \cup {r}
        /\ conn' = [conn EXCEPT ![k] = HandlerDone(k)]
        /\ UNCHANGED <<sessionVars, subs, calls, mqttVars, ghosts, storage>>
    BY <1>6 DEF PublishRequest
  <2>2. r \in [subject : Subjects, m : Msgs, left : 1..MaxReplies]
    BY <1>0, <2>1, BoundsAssumption DEF HandlerOK, Subscriptions, Packets
  <2> HIDE DEF r
  <2>3. HandlerDone(k) \in Connection /\ HandlerOK(HandlerDone(k), sess')
    BY <1>0, <2>1, DoneTypes
  <2>4. conn' \in [Conns -> Connection] /\ \A j \in Conns : HandlerOK(conn'[j], sess')
    BY <2>1, <2>3, OneConn
  <2>5. TypeOK'
    BY <1>0, <2>1, <2>2, <2>4 DEF TypeOK
  <2>6. QED
    BY <2>1, <2>4, <2>5, StillRegistered DEF TypeInv
<1>7. ASSUME NEW subject \in conn[k].todo, RestoreSubscribeFails(k, subject)
      PROVE  TypeInv'
  <2>1. /\ conn[k].at = "restore"
        /\ RestoreGoesOn(k, sess[conn[k].sid], conn[k].todo \ {subject})
    BY <1>7 DEF RestoreSubscribeFails
  <2>2. sess[conn[k].sid] \in Session
    BY <1>0, <2>1 DEF HandlerOK, Connection, TypeOK
  <2>3. QED
    BY <2>1, <2>2, GoesOnTypes
<1>8. QED
  BY <1>1, <1>2, <1>3, <1>4, <1>5, <1>6, <1>7 DEF ReadLoop

(* Errors and disconnections.                                              *)
LEMMA DisconnectTypes ==
  ASSUME TypeInv, NEW k \in Conns,
         PublishSubscribeFails(k) \/ PublishRequestFails(k) \/ SetDisconnected(k)
  PROVE  TypeInv'
<1> USE DEF natsVars, sessionVars, mqttVars, ghosts, storage
<1>0. TypeOK /\ conn \in [Conns -> Connection] /\ HandlerOK(conn[k], sess)
  BY DEF TypeInv, TypeOK
<1>1. PICK cn \in Connection : conn' = [conn EXCEPT ![k] = cn] /\ HandlerOK(cn, sess')
  <2>1. CASE PublishSubscribeFails(k) \/ SetDisconnected(k)
    <3> DEFINE cn == [conn[k] EXCEPT !.st = "disconnected"]
    <3>1. /\ conn[k].st = "connected" /\ conn' = [conn EXCEPT ![k] = cn] /\ sess' = sess
      BY <1>0, <2>1 DEF PublishSubscribeFails, Reads, SetDisconnected
    <3>2. cn \in Connection /\ HandlerOK(cn, sess')
      BY <1>0, <3>1 DEF Connection, HandlerOK
    <3>3. QED
      BY <3>1, <3>2
  <2>2. CASE PublishRequestFails(k)
    <3> DEFINE cn == [HandlerDone(k) EXCEPT !.st = "disconnected"]
    <3>1. conn[k].at = "requested" /\ conn' = [conn EXCEPT ![k] = cn] /\ sess' = sess
      BY <2>2 DEF PublishRequestFails
    <3>2. HandlerDone(k) \in Connection /\ HandlerOK(HandlerDone(k), sess')
      BY <1>0, <3>1, DoneTypes
    <3>3. /\ HandlerDone(k).at = "read" /\ HandlerDone(k).cid \in ClientIds
          /\ HandlerDone(k).st # "free"
      BY <1>0, <3>1 DEF HandlerDone, HandlerOK, Connection
    <3>4. cn \in Connection /\ HandlerOK(cn, sess')
      BY <3>2, <3>3 DEF Connection, HandlerOK
    <3>5. QED
      BY <3>1, <3>4
  <2>3. QED
    BY <2>1, <2>2
<1>2. /\ UNCHANGED <<sessionVars, natsVars, pubacks, client, ghosts, storage>>
      /\ wire' \in [Conns -> Seq(Packets)]
  <2>1. CASE PublishSubscribeFails(k)
    BY <2>1, ReadTypes DEF PublishSubscribeFails
  <2>2. CASE PublishRequestFails(k) \/ SetDisconnected(k)
    BY <1>0, <2>2 DEF PublishRequestFails, SetDisconnected, TypeOK
  <2>3. QED
    BY <2>1, <2>2
<1>3. conn' \in [Conns -> Connection] /\ \A j \in Conns : HandlerOK(conn'[j], sess')
  BY <1>1, <1>2, OneConn
<1>4. TypeOK'
  BY <1>0, <1>2, <1>3 DEF TypeOK
<1>5. QED
  BY <1>2, <1>3, <1>4, StillRegistered DEF TypeInv


(* The clients.                                                            *)
LEMMA ClientTypes ==
  ASSUME TypeInv, NEW c \in ClientIds,
         (\E p \in PacketIds : Publish(c, p)) \/ ReceivePubAck(c) \/ ClientDrops(c)
  PROVE  TypeInv'
<1> USE DEF natsVars, sessionVars, mqttVars, ghosts, storage
<1>0. TypeOK
  BY DEF TypeInv
<1>1. UNCHANGED <<conn, sm, file, sess>>
  BY DEF Publish, ReceivePubAck, ClientDrops
<1>2. ASSUME NEW p \in PacketIds, Publish(c, p)
      PROVE  TypeOK'
  <2> DEFINE k == client[c].k
             pkt == [pid |-> p, dup |-> FALSE, m |-> published + 1]
  <2>1. /\ published + 1 \in Msgs /\ published' = published + 1
        /\ client' = [client EXCEPT ![c].unacked[p] = published + 1]
        /\ wire' = [wire EXCEPT ![k] = Append(@, pkt)]
        /\ UNCHANGED <<conn, sessionVars, natsVars, pubacks, replied, acked, storage>>
    BY <1>2 DEF Publish
  <2>2. pkt \in Packets
    BY <2>1 DEF Packets
  <2>3. client' \in [ClientIds -> [k : Conns \cup {None},
                                   unacked : [PacketIds -> Msgs \cup {0}]]]
    BY <1>0, <2>1 DEF TypeOK
  <2>4. \A q \in Seq(Packets) : Append(q, pkt) \in Seq(Packets)
    BY <2>2, AppendProperties
  <2> HIDE DEF k, pkt
  <2>5. wire' \in [Conns -> Seq(Packets)]
    BY <1>0, <2>1, <2>4 DEF TypeOK
  <2>6. QED
    BY <1>0, <2>1, <2>3, <2>5 DEF TypeOK
<1>3. ASSUME ReceivePubAck(c)
      PROVE  TypeOK'
  <2> DEFINE k == client[c].k
  <2>1. /\ pubacks[k] # <<>> /\ pubacks' = [pubacks EXCEPT ![k] = Tail(@)]
        /\ client' = [client EXCEPT ![c].unacked[Head(pubacks[k])] = 0]
        /\ acked' = acked \cup ({client[c].unacked[Head(pubacks[k])]} \ {0})
        /\ k # None
        /\ UNCHANGED <<conn, sessionVars, natsVars, wire, published, replied, storage>>
    BY <1>3 DEF ReceivePubAck
  <2>2. k \in Conns /\ pubacks[k] \in Seq(PacketIds) /\ client[c].unacked \in [PacketIds -> Msgs \cup {0}]
    BY <1>0, <2>1 DEF TypeOK
  <2>3. Head(pubacks[k]) \in PacketIds /\ Tail(pubacks[k]) \in Seq(PacketIds)
    BY <2>1, <2>2, HeadTailProperties
  <2> HIDE DEF k
  <2>4. pubacks' \in [Conns -> Seq(PacketIds)] /\ acked' \in SUBSET Msgs
    BY <1>0, <2>1, <2>2, <2>3 DEF TypeOK
  <2>5. client' \in [ClientIds -> [k : Conns \cup {None},
                                   unacked : [PacketIds -> Msgs \cup {0}]]]
    <3>1. client \in [ClientIds -> [k : Conns \cup {None},
                                    unacked : [PacketIds -> Msgs \cup {0}]]]
      BY <1>0 DEF TypeOK
    <3> DEFINE q == Head(pubacks[k])
    <3>2. client' = [client EXCEPT ![c].unacked[q] = 0]
      BY <2>1
    <3> HIDE DEF q
    <3>3. QED
      BY <3>1, <3>2
  <2>6. QED
    BY <1>0, <2>1, <2>4, <2>5 DEF TypeOK
<1>4. ASSUME ClientDrops(c)
      PROVE  TypeOK'
  <2>1. <<>> \in Seq(PacketIds)
    BY EmptySeq
  <2>2. pubacks' \in [Conns -> Seq(PacketIds)]
    BY <1>0, <1>4, <2>1 DEF ClientDrops, TypeOK
  <2>3. client' \in [ClientIds -> [k : Conns \cup {None},
                                   unacked : [PacketIds -> Msgs \cup {0}]]]
    <3>1. client \in [ClientIds -> [k : Conns \cup {None},
                                    unacked : [PacketIds -> Msgs \cup {0}]]]
      BY <1>0 DEF TypeOK
    <3>2. client' = [client EXCEPT ![c].k = None]
      BY <1>4 DEF ClientDrops
    <3>3. QED
      BY <3>1, <3>2
  <2>4. QED
    BY <1>0, <1>4, <2>2, <2>3 DEF ClientDrops, TypeOK
<1>5. TypeOK'
  BY <1>2, <1>3, <1>4
<1>6. QED
  BY <1>1, <1>5, SameConns, StillRegistered DEF TypeInv

(* NATS: replies and their callbacks.                                      *)
LEMMA ReplyTypes ==
  ASSUME TypeInv, NEW r \in requests, Reply(r)
  PROVE  TypeInv'
<1> USE DEF natsVars, sessionVars, mqttVars, ghosts, storage
<1>0. TypeOK /\ r \in [subject : Subjects, m : Msgs, left : 1..MaxReplies]
  BY DEF TypeInv, TypeOK
<1>1. UNCHANGED <<conn, sm, file, sess, subs, seed, mqttVars, published, acked, storage>>
  BY DEF Reply
<1>2. requests' \in SUBSET [subject : Subjects, m : Msgs, left : 1..MaxReplies]
  <2>1. r.left # 1 => [r EXCEPT !.left = @ - 1] \in [subject : Subjects, m : Msgs, left : 1..MaxReplies]
    <3>1. r.left # 1 => r.left - 1 \in 1..MaxReplies
      BY <1>0, BoundsAssumption
    <3>2. QED
      BY <1>0, <3>1
  <2>2. QED
    BY <1>0, <2>1 DEF Reply, TypeOK
<1>3. calls' \in SUBSET [sub : Subscriptions, m : Msgs] /\ replied' \in SUBSET Msgs
  BY <1>0 DEF Reply, TypeOK
<1>4. TypeOK'
  BY <1>0, <1>1, <1>2, <1>3 DEF TypeOK
<1>5. QED
  BY <1>1, <1>4, SameConns, StillRegistered DEF TypeInv

LEMMA ReplyCallbackTypes ==
  ASSUME TypeInv, NEW call \in calls, ReplyCallback(call)
  PROVE  TypeInv'
<1> USE DEF natsVars, sessionVars, mqttVars, ghosts, storage
<1> DEFINE sid == call.sub.subject.sid
           p   == call.sub.subject.pid
<1>0. /\ TypeOK /\ call \in [sub : Subscriptions, m : Msgs]
      /\ sid \in SessionIds /\ p \in PacketIds
  BY DEF TypeInv, TypeOK, Subscriptions, Subjects
<1>1. UNCHANGED <<conn, sm, seed, requests, wire, client, ghosts, storage>>
  BY DEF ReplyCallback
<1>2. /\ sess' = sess \/ sess' = [sess EXCEPT ![sid].awaitsAck[p] = None]
      /\ subs' \subseteq subs /\ calls' \subseteq calls
      /\ pubacks' = pubacks \/ pubacks' = QueuePubAck(call.sub.k, p)
  BY DEF ReplyCallback, Unsubscribed
<1>3. /\ sess' \in [SessionIds -> Session]
      /\ \A i \in SessionIds : sess'[i].cid = sess[i].cid
  <2> DEFINE new == [sess[sid] EXCEPT !.awaitsAck[p] = None]
  <2>1. sess \in [SessionIds -> Session] /\ sess[sid] \in Session
    BY <1>0 DEF TypeOK
  <2>2. new \in Session /\ new.cid = sess[sid].cid
    BY <2>1 DEF Session, SubscriptionOrNone
  <2>3. sess' = sess \/ sess' = [sess EXCEPT ![sid] = new]
    BY <1>2, <2>1
  <2> HIDE DEF new
  <2>4. QED
    BY <1>0, <2>1, <2>2, <2>3
<1>4. pubacks' \in [Conns -> Seq(PacketIds)]
  <2>1. \A q \in Seq(PacketIds) : Append(q, p) \in Seq(PacketIds)
    BY <1>0, AppendProperties
  <2>2. pubacks \in [Conns -> Seq(PacketIds)]
    BY <1>0 DEF TypeOK
  <2> HIDE DEF p
  <2>3. pubacks' = pubacks \/ pubacks' = [pubacks EXCEPT ![call.sub.k] = Append(@, p)]
    BY <1>2 DEF QueuePubAck
  <2>4. QED
    BY <2>1, <2>2, <2>3
<1>5. TypeOK'
  BY <1>0, <1>1, <1>2, <1>3, <1>4 DEF TypeOK
<1>6. QED
  BY <1>1, <1>3, <1>5, SameConns, StillRegistered DEF TypeInv

(* The end of a connection.                                                *)
LEMMA ServeEndsTypes ==
  ASSUME TypeInv, NEW k \in Conns, ServeEnds(k)
  PROVE  TypeInv'
<1> USE DEF natsVars, sessionVars, mqttVars, ghosts, storage
<1> DEFINE gone == Removed(k)
           c    == conn[k].cid
<1>0. /\ TypeOK /\ conn \in [Conns -> Connection] /\ HandlerOK(conn[k], sess)
      /\ conn[k].st = "disconnected"
  BY DEF TypeInv, TypeOK, ServeEnds
<1>1. c \in ClientIds
  BY <1>0 DEF HandlerOK
<1>2. /\ conn' = [conn EXCEPT ![k] = Unused]
      /\ sm' = IF gone = 0 THEN sm ELSE [sm EXCEPT ![c] = 0]
      /\ sess' = [i \in SessionIds |-> IF i = gone THEN NewSession(c) ELSE Closed(sess[i], k)]
      /\ subs' \subseteq subs /\ calls' \subseteq calls
      /\ wire' = [wire EXCEPT ![k] = <<>>] /\ pubacks' = [pubacks EXCEPT ![k] = <<>>]
      /\ client' = [client EXCEPT ![c].k = IF @ = k THEN None ELSE @]
      /\ UNCHANGED <<seed, requests, ghosts, storage>>
  BY DEF ServeEnds
<1>3. sm' \in [ClientIds -> SessionIds \cup {0}] /\ \A d \in ClientIds : sm'[d] \in {0, sm[d]}
  BY <1>0, <1>2 DEF TypeOK
<1>4. /\ sess' \in [SessionIds -> Session]
      /\ \A i \in SessionIds : sess[i].cid \in ClientIds => sess'[i].cid \in ClientIds
  <2>1. \A i \in SessionIds : sess[i] \in Session /\ Closed(sess[i], k) \in Session
    BY <1>0, ClosedTypes DEF TypeOK
  <2>2. \A i \in SessionIds : Closed(sess[i], k).cid = sess[i].cid
    BY <2>1 DEF Closed, Session
  <2>3. NewSession(c) \in Session /\ NewSession(c).cid = c
    BY <1>1, NewSessionTypes DEF NewSession
  <2> HIDE DEF gone, c
  <2>4. QED
    BY <1>1, <1>2, <2>1, <2>2, <2>3
<1>5. /\ wire' \in [Conns -> Seq(Packets)] /\ pubacks' \in [Conns -> Seq(PacketIds)]
      /\ client' \in [ClientIds -> [k : Conns \cup {None},
                                    unacked : [PacketIds -> Msgs \cup {0}]]]
  <2>1. <<>> \in Seq(Packets) /\ <<>> \in Seq(PacketIds)
    BY EmptySeq
  <2>2. wire' \in [Conns -> Seq(Packets)]
    BY <1>0, <1>2, <2>1 DEF TypeOK
  <2>3. pubacks' \in [Conns -> Seq(PacketIds)]
    BY <1>0, <1>2, <2>1 DEF TypeOK
  <2>4. client' \in [ClientIds -> [k : Conns \cup {None},
                                   unacked : [PacketIds -> Msgs \cup {0}]]]
    <3> DEFINE cl == [client[c] EXCEPT !.k = IF @ = k THEN None ELSE @]
    <3>1. client \in [ClientIds -> [k : Conns \cup {None},
                                    unacked : [PacketIds -> Msgs \cup {0}]]]
      BY <1>0 DEF TypeOK
    <3>2. cl \in [k : Conns \cup {None}, unacked : [PacketIds -> Msgs \cup {0}]]
      BY <1>1, <3>1
    <3>3. client' = [client EXCEPT ![c] = cl]
      BY <1>1, <1>2, <3>1
    <3> HIDE DEF cl, c
    <3>4. QED
      BY <1>1, <3>1, <3>2, <3>3
  <2>5. QED
    BY <2>2, <2>3, <2>4
<1>6. Unused \in Connection /\ HandlerOK(Unused, sess')
  BY UnusedTypes DEF Unused, HandlerOK
<1>7. conn' \in [Conns -> Connection] /\ \A j \in Conns : HandlerOK(conn'[j], sess')
  BY <1>2, <1>4, <1>6, OneConn
<1>8. TypeOK'
  BY <1>0, <1>2, <1>3, <1>4, <1>5, <1>7 DEF TypeOK
<1>9. RegisteredOK(sm', sess') /\ RegisteredOK(file'.sm, file'.sess)
  BY <1>0, <1>2, <1>3, <1>4 DEF TypeInv, TypeOK, RegisteredOK
<1>10. QED
  BY <1>7, <1>8, <1>9 DEF TypeInv

(* A restart, and a crash.                                                 *)
LEMMA RestartTypes ==
  ASSUME TypeInv, Restart
  PROVE  TypeInv'
<1> USE DEF natsVars, sessionVars, mqttVars, ghosts, storage
<1> DEFINE registered == {sm[c] : c \in ClientIds}
           written == [i \in SessionIds |-> IF i \in registered THEN Reloaded(sess[i])
                                                                ELSE NewSession(None)]
<1>0. TypeOK
  BY DEF TypeInv
<1>1. /\ stops' = [stops EXCEPT !.restarts = @ + 1] /\ stops.restarts < MaxRestarts
      /\ sess' = written /\ file' = [seed |-> seed, sm |-> sm, sess |-> written]
      /\ \A k \in Conns : conn[k].st = "free"
      /\ UNCHANGED <<conn, sm, seed, natsVars, mqttVars, ghosts>>
  BY DEF Restart
<1>2. written \in [SessionIds -> Session]
  BY <1>0, ReloadedTypes, NewSessionTypes DEF TypeOK
<1>3. RegisteredOK(sm, written)
  <2>1. \A i \in SessionIds : Reloaded(sess[i]).cid = sess[i].cid
    BY <1>0 DEF Reloaded, TypeOK, Session
  <2>2. QED
    BY <1>0, <2>1 DEF RegisteredOK, TypeInv, TypeOK
<1>4. stops' \in [restarts : 0..MaxRestarts, crashes : 0..MaxCrashes]
  BY <1>0, <1>1, BoundsAssumption DEF TypeOK
<1> HIDE DEF written
<1>5. TypeOK'
  BY <1>0, <1>1, <1>2, <1>4 DEF TypeOK
<1>6. \A k \in Conns : HandlerOK(conn'[k], sess')
  BY <1>1 DEF TypeInv, HandlerOK
<1>7. QED
  BY <1>1, <1>3, <1>5, <1>6 DEF TypeInv

LEMMA CrashTypes ==
  ASSUME TypeInv, Crash
  PROVE  TypeInv'
<1> USE DEF natsVars, sessionVars, mqttVars, ghosts, storage
<1>0. TypeOK
  BY DEF TypeInv
<1>1. /\ sm' = file.sm /\ seed' = file.seed /\ sess' = file.sess /\ file' = file
      /\ conn' = [k \in Conns |-> Unused] /\ subs' = {} /\ calls' = {}
      /\ wire' = [k \in Conns |-> <<>>] /\ pubacks' = [k \in Conns |-> <<>>]
      /\ client' = [c \in ClientIds |-> [client[c] EXCEPT !.k = None]]
      /\ UNCHANGED <<requests, ghosts>>
  BY DEF Crash
<1>2. /\ wire' \in [Conns -> Seq(Packets)] /\ pubacks' \in [Conns -> Seq(PacketIds)]
      /\ client' \in [ClientIds -> [k : Conns \cup {None},
                                    unacked : [PacketIds -> Msgs \cup {0}]]]
  BY <1>0, <1>1, EmptySeq DEF TypeOK
<1>3. stops' \in [restarts : 0..MaxRestarts, crashes : 0..MaxCrashes]
  <2>1. /\ stops \in [restarts : 0..MaxRestarts, crashes : 0..MaxCrashes]
        /\ stops.crashes < MaxCrashes /\ stops' = [stops EXCEPT !.crashes = @ + 1]
    BY <1>0 DEF Crash, TypeOK
  <2>2. stops.crashes + 1 \in 0..MaxCrashes
    BY <2>1, BoundsAssumption
  <2>3. QED
    BY <2>1, <2>2
<1>4. conn' \in [Conns -> Connection] /\ \A k \in Conns : HandlerOK(conn'[k], sess')
  BY <1>1, UnusedTypes DEF Unused, HandlerOK
<1>5. TypeOK'
  BY <1>0, <1>1, <1>2, <1>3, <1>4 DEF TypeOK
<1>6. QED
  BY <1>1, <1>4, <1>5 DEF TypeInv

LEMMA TypeStep == TypeInv /\ [Next]_vars => TypeInv'
<1> SUFFICES ASSUME TypeInv, [Next]_vars PROVE TypeInv'
  OBVIOUS
<1>1. CASE UNCHANGED vars
  BY <1>1 DEF vars, TypeInv, TypeOK
<1>2. ASSUME NEW c \in ClientIds, MqttClient(c)
      PROVE  TypeInv'
  BY <1>2, ConnectTypes, ClientTypes DEF MqttClient
<1>3. CASE Next
  BY <1>2, <1>3, ReadLoopTypes, DisconnectTypes, ServeEndsTypes, ReplyTypes,
     ReplyCallbackTypes, RestartTypes, CrashTypes DEF Next
<1>4. QED
  BY <1>1, <1>3

LEMMA InitTypes == Init => TypeInv
<1> SUFFICES ASSUME Init PROVE TypeInv
  OBVIOUS
<1>1. NewSession(None) \in Session /\ Unused \in Connection
  BY NewSessionTypes, UnusedTypes
<1>2. TypeOK
  BY <1>1, EmptySeq, BoundsAssumption DEF Init, TypeOK
<1>3. QED
  BY <1>2 DEF Init, TypeInv, HandlerOK, RegisteredOK, Unused

LEMMA Typed == Spec => []TypeInv
BY InitTypes, TypeStep, PTL DEF Spec

(* Every variable has its type, whatever clients connect and publish and   *)
(* however often the bridge is restarted or dies.                          *)
THEOREM TypeCorrect == Spec => []TypeOK
<1>1. TypeInv => TypeOK
  BY DEF TypeInv
<1>2. QED
  BY <1>1, Typed, PTL

-----------------------------------------------------------------------------
(* What is awaited names its session.                                      *)

(* Session i of ss satisfies its part of SessionsOK.                       *)
EntryOK(i, ss) ==
    \A p \in PacketIds :
        /\ ss[i].awaitsAck[p] # None =>
              NamesSession(ss[i].awaitsAck[p].subject, i, ss)
              /\ ss[i].awaitsAck[p].subject.pid = p
        /\ ss[i].prelAwaitsAck[p] # None =>
              NamesSession(ss[i].prelAwaitsAck[p], i, ss) /\ ss[i].prelAwaitsAck[p].pid = p

(* The ids of the clients stay those of the sessions in use.               *)
LEMMA ConnKept ==
  ASSUME TypeInv, NEW cn \in Connection, ConnOK(cn, seed, sess), HandlerOK(cn, sess),
         seed' \in Nat, seed <= seed',
         \A i \in SessionIds : i <= seed => sess'[i].cid = sess[i].cid
  PROVE  ConnOK(cn, seed', sess')
<1>1. cn.sid \in Nat /\ seed \in Nat
  BY DEF Connection, SessionIds, TypeInv, TypeOK
<1>2. cn.sid <= seed'
  BY <1>1 DEF ConnOK
<1>3. ASSUME NEW subject \in Subjects, NamesSession(subject, cn.sid, sess)
      PROVE  NamesSession(subject, cn.sid, sess')
  <2>1. cn.sid \in SessionIds /\ cn.sid <= seed
    BY <1>3 DEF NamesSession, Subjects, ConnOK
  <2>2. QED
    BY <1>3, <2>1 DEF NamesSession
<1>4. cn.at \in {"restored", "subscribed", "requested"} => cn.sub.subject \in Subjects
  BY DEF HandlerOK, Subscriptions
<1>5. cn.todo \subseteq Subjects
  BY DEF Connection
<1>6. QED
  BY <1>2, <1>3, <1>4, <1>5 DEF ConnOK

(* One connection changes; the clients of the sessions stay.               *)
LEMMA OneConnNames ==
  ASSUME TypeInv, NameInv, NEW k \in Conns, NEW cn, conn' = [conn EXCEPT ![k] = cn],
         ConnOK(cn, seed', sess'), seed' \in Nat, seed <= seed',
         \A i \in SessionIds : i <= seed => sess'[i].cid = sess[i].cid
  PROVE  \A j \in Conns : ConnOK(conn'[j], seed', sess')
<1>1. ASSUME NEW j \in Conns
      PROVE  ConnOK(conn'[j], seed', sess')
  <2>1. conn \in [Conns -> Connection] /\ HandlerOK(conn[j], sess) /\ ConnOK(conn[j], seed, sess)
    BY DEF TypeInv, TypeOK, NameInv
  <2>2. CASE j = k
    BY <2>1, <2>2
  <2>3. CASE j # k
    <3>1. conn'[j] = conn[j] /\ conn[j] \in Connection
      BY <2>1, <2>3
    <3>2. ConnOK(conn[j], seed', sess')
      BY <2>1, <3>1, ConnKept
    <3>3. QED
      BY <3>1, <3>2
  <2>4. QED
    BY <2>2, <2>3
<1>2. QED
  BY <1>1

LEMMA SameConnNames ==
  ASSUME TypeInv, NameInv, UNCHANGED <<conn, seed>>,
         \A i \in SessionIds : i <= seed => sess'[i].cid = sess[i].cid
  PROVE  \A j \in Conns : ConnOK(conn'[j], seed', sess')
<1>1. seed \in Nat
  BY DEF TypeInv, TypeOK, SessionIds
<1>2. ASSUME NEW j \in Conns
      PROVE  ConnOK(conn[j], seed', sess')
  <2>1. conn[j] \in Connection /\ HandlerOK(conn[j], sess) /\ ConnOK(conn[j], seed, sess)
    BY DEF TypeInv, TypeOK, NameInv
  <2>2. QED
    BY <1>1, <2>1, ConnKept
<1>3. QED
  BY <1>2

(* One session changes and keeps its client.                               *)
LEMMA OneSession ==
  ASSUME TypeInv, NameInv, NEW i \in SessionIds, NEW s \in Session,
         sess' = [sess EXCEPT ![i] = s], s.cid = sess[i].cid, EntryOK(i, sess'),
         UNCHANGED <<sm, seed>>
  PROVE  /\ SessionsOK(sm', seed', sess')
         /\ \A j \in SessionIds : sess'[j].cid = sess[j].cid
<1>1. sess \in [SessionIds -> Session] /\ sm \in [ClientIds -> SessionIds \cup {0}]
  BY DEF TypeInv, TypeOK
<1>2. \A j \in SessionIds : sess'[j].cid = sess[j].cid
  BY <1>1
<1>3. ASSUME NEW j \in SessionIds
      PROVE  EntryOK(j, sess')
  <2>1. CASE j = i
    BY <2>1
  <2>2. CASE j # i
    <3>1. sess'[j] = sess[j] /\ EntryOK(j, sess)
      BY <1>1, <2>2 DEF NameInv, SessionsOK, EntryOK
    <3>2. QED
      BY <3>1 DEF EntryOK, NamesSession
  <2>3. QED
    BY <2>1, <2>2
<1>4. \A c \in ClientIds : sm[c] <= seed /\ (sm[c] # 0 => sess'[sm[c]].cid = c)
  BY <1>1, <1>2 DEF NameInv, SessionsOK
<1>5. QED
  BY <1>2, <1>3, <1>4 DEF SessionsOK, EntryOK

LEMMA ConnectNames ==
  ASSUME TypeInv, NameInv, NEW c \in ClientIds, NEW k \in Conns, NEW clean \in CleanFlags,
         Connect(c, k, clean) \/ ConnectRefused(c, k, clean)
  PROVE  NameInv'
<1> USE DEF natsVars, sessionVars, mqttVars, ghosts, storage
<1>0. /\ sess \in [SessionIds -> Session] /\ sm \in [ClientIds -> SessionIds \cup {0}]
      /\ seed \in Nat /\ SessionsOK(sm, seed, sess)
  BY DEF TypeInv, TypeOK, SessionIds, NameInv
<1>1. CASE Connect(c, k, clean)
  <2> DEFINE present == Resumes(c, clean)
             sid     == IF present THEN sm[c] ELSE seed + 1
             todo    == IF present THEN Restorable(sess[sid]) ELSE {}
             new     == [Unused EXCEPT !.st = "connected", !.cid = c, !.clean = clean,
                                       !.sid = sid, !.todo = todo,
                                       !.at = IF todo = {} THEN "read" ELSE "restore"]
  <2>1. /\ sid \in SessionIds /\ sm' = [sm EXCEPT ![c] = sid]
        /\ seed' = IF present THEN seed ELSE sid
        /\ sess' = IF present THEN sess ELSE [sess EXCEPT ![sid] = NewSession(c)]
        /\ conn' = [conn EXCEPT ![k] = new] /\ file' = file
    BY <1>1 DEF Connect
  <2>2. /\ new.sid = sid /\ new.todo = todo /\ new.at \in {"read", "restore"}
    BY DEF Unused
  <2>3. CASE present
    <3>1. /\ sid = sm[c] /\ sid <= seed /\ seed' = seed /\ sess' = sess /\ sm' = sm
      BY <1>0, <2>1, <2>3 DEF SessionsOK
    <3>2. \A subject \in todo : NamesSession(subject, sid, sess)
      BY <1>0, <2>1, <2>3 DEF Restorable, SessionsOK
    <3> HIDE DEF sid, todo, new
    <3>3. ConnOK(new, seed', sess')
      BY <2>2, <3>1, <3>2 DEF ConnOK
    <3>4. /\ conn' = [conn EXCEPT ![k] = new] /\ seed' \in Nat /\ seed <= seed'
          /\ \A i \in SessionIds : i <= seed => sess'[i].cid = sess[i].cid
      BY <1>0, <2>1, <3>1
    <3>5. \A j \in Conns : ConnOK(conn'[j], seed', sess')
      BY <3>3, <3>4, OneConnNames
    <3>6. QED
      BY <2>1, <3>1, <3>5 DEF NameInv
  <2>4. CASE ~present
    <3>1. /\ sid = seed + 1 /\ todo = {} /\ seed' = seed + 1
          /\ sess' = [sess EXCEPT ![sid] = NewSession(c)]
      BY <2>1, <2>4
    <3> HIDE DEF sid, todo, new
    <3>2. /\ \A i \in SessionIds : i # sid => sess'[i] = sess[i]
          /\ sess'[sid] = NewSession(c)
      BY <1>0, <2>1, <3>1
    <3>3. \A i \in SessionIds : i <= seed => sess'[i].cid = sess[i].cid
      BY <1>0, <3>1, <3>2
    <3>4. ConnOK(new, seed', sess')
      BY <1>0, <2>2, <3>1 DEF ConnOK
    <3>5. \A j \in Conns : ConnOK(conn'[j], seed', sess')
      <4>1. conn' = [conn EXCEPT ![k] = new] /\ seed' \in Nat /\ seed <= seed'
        BY <1>0, <2>1, <3>1
      <4>2. QED
        BY <3>3, <3>4, <4>1, OneConnNames
    <3>6. ASSUME NEW i \in SessionIds
          PROVE  EntryOK(i, sess')
      <4>1. CASE i = sid
        BY <3>2, <4>1 DEF EntryOK, NewSession
      <4>2. CASE i # sid
        BY <1>0, <3>2, <4>2 DEF EntryOK, SessionsOK, NamesSession
      <4>3. QED
        BY <4>1, <4>2
    <3>7. ASSUME NEW d \in ClientIds
          PROVE  sm'[d] <= seed' /\ (sm'[d] # 0 => sess'[sm'[d]].cid = d)
      <4>1. CASE d = c
        BY <1>0, <2>1, <3>1, <3>2, <4>1 DEF NewSession
      <4>2. CASE d # c
        <5>1. sm'[d] = sm[d] /\ sm[d] <= seed /\ sm[d] \in SessionIds \cup {0}
          BY <1>0, <2>1, <4>2 DEF SessionsOK
        <5>2. sm[d] \in Nat /\ sm[d] <= seed' /\ sm[d] # sid
          BY <1>0, <3>1, <5>1 DEF SessionIds
        <5>3. QED
          BY <1>0, <3>2, <5>1, <5>2 DEF SessionsOK
      <4>3. QED
        BY <4>1, <4>2
    <3>8. SessionsOK(sm', seed', sess')
      BY <3>6, <3>7 DEF SessionsOK, EntryOK
    <3>9. QED
      BY <2>1, <3>5, <3>8 DEF NameInv
  <2>5. QED
    BY <2>3, <2>4
<1>2. CASE ConnectRefused(c, k, clean)
  <2> DEFINE new == [Unused EXCEPT !.st = "disconnected", !.cid = c, !.clean = clean]
  <2>1. /\ conn' = [conn EXCEPT ![k] = new]
        /\ UNCHANGED <<sessionVars, natsVars, mqttVars, ghosts, storage>>
    BY <1>2 DEF ConnectRefused
  <2>2. ConnOK(new, seed', sess')
    BY <1>0, <2>1 DEF Unused, ConnOK
  <2> HIDE DEF new
  <2>3. /\ conn' = [conn EXCEPT ![k] = new] /\ seed' \in Nat /\ seed <= seed'
        /\ \A i \in SessionIds : i <= seed => sess'[i].cid = sess[i].cid
    BY <1>0, <2>1
  <2>4. \A j \in Conns : ConnOK(conn'[j], seed', sess')
    BY <2>2, <2>3, OneConnNames
  <2>5. QED
    BY <2>1, <2>4 DEF NameInv
<1>3. QED
  BY <1>1, <1>2

(* A step of one handler that changes no session.                          *)
LEMMA HandlerNames ==
  ASSUME TypeInv, NameInv, NEW k \in Conns, NEW cn, conn' = [conn EXCEPT ![k] = cn],
         UNCHANGED <<sm, seed, sess, file>>, ConnOK(cn, seed, sess)
  PROVE  NameInv'
<1>1. seed' \in Nat /\ seed <= seed' /\ \A i \in SessionIds : sess'[i].cid = sess[i].cid
  BY DEF TypeInv, TypeOK, SessionIds
<1>2. ConnOK(cn, seed', sess')
  OBVIOUS
<1>3. \A j \in Conns : ConnOK(conn'[j], seed', sess')
  BY <1>1, <1>2, OneConnNames
<1>4. QED
  BY <1>3 DEF NameInv

(* A subscription is made to a subject that names the session.             *)
LEMMA SubscribeAckNames ==
  ASSUME TypeInv, NameInv, NEW k \in Conns, NEW subject, NEW pkt, NEW at,
         SubscribeAck(k, subject, at, pkt), UNCHANGED <<sm, seed, sess, file>>,
         subject.pid = pkt.pid, NamesSession(subject, conn[k].sid, sess)
  PROVE  NameInv'
<1>1. PICK n \in Copies :
         LET sb == [k |-> k, subject |-> subject, n |-> n]
         IN  conn' = [conn EXCEPT ![k].at = at, ![k].pkt = pkt, ![k].sub = sb]
  BY DEF SubscribeAck
<1> DEFINE sb == [k |-> k, subject |-> subject, n |-> n]
           cn == [conn[k] EXCEPT !.at = at, !.pkt = pkt, !.sub = sb]
<1>2. conn \in [Conns -> Connection] /\ ConnOK(conn[k], seed, sess)
  BY DEF TypeInv, TypeOK, NameInv
<1>3. sb.subject = subject
  OBVIOUS
<1> HIDE DEF sb
<1>4. conn' = [conn EXCEPT ![k].at = at, ![k].pkt = pkt, ![k].sub = sb]
  BY <1>1 DEF sb
<1>5. conn' = [conn EXCEPT ![k] = cn]
  BY <1>2, <1>4
<1>6. ConnOK(cn, seed, sess)
  BY <1>2, <1>3 DEF ConnOK, Connection
<1> HIDE DEF cn
<1>7. QED
  BY <1>5, <1>6, HandlerNames

(* A session is changed, and all it awaits still names it.                 *)
LEMMA SessionNames ==
  ASSUME TypeInv, NameInv, NEW i \in SessionIds, NEW s \in Session, s.cid = sess[i].cid,
         \A q \in PacketIds : s.awaitsAck[q] # None =>
            NamesSession(s.awaitsAck[q].subject, i, sess) /\ s.awaitsAck[q].subject.pid = q,
         \/ s.prelAwaitsAck = sess[i].prelAwaitsAck
         \/ s.prelAwaitsAck = [q \in PacketIds |-> None],
         sess' = [sess EXCEPT ![i] = s], UNCHANGED <<sm, seed>>
  PROVE  /\ SessionsOK(sm', seed', sess')
         /\ \A j \in SessionIds : sess'[j].cid = sess[j].cid
<1>1. sess \in [SessionIds -> Session] /\ EntryOK(i, sess)
  BY DEF TypeInv, TypeOK, NameInv, SessionsOK, EntryOK
<1>2. sess'[i] = s
  BY <1>1
<1>3. \A q \in PacketIds : s.awaitsAck[q] # None =>
         NamesSession(s.awaitsAck[q].subject, i, sess') /\ s.awaitsAck[q].subject.pid = q
  BY <1>2 DEF NamesSession
<1>4. \A q \in PacketIds : s.prelAwaitsAck[q] # None =>
         NamesSession(s.prelAwaitsAck[q], i, sess') /\ s.prelAwaitsAck[q].pid = q
  BY <1>1, <1>2 DEF NamesSession, EntryOK
<1>5. EntryOK(i, sess')
  BY <1>2, <1>3, <1>4 DEF EntryOK
<1>6. QED
  BY <1>5, OneSession

(* A session remembers a subscription that names it.                       *)
LEMMA AckRequestedNames ==
  ASSUME TypeInv, NameInv, NEW i \in SessionIds, NEW p \in PacketIds, NEW sb \in Subscriptions,
         sb.subject.pid = p, NamesSession(sb.subject, i, sess)
  PROVE  LET s == AckRequested(sess[i], p, sb)
         IN  /\ s \in Session /\ s.cid = sess[i].cid
             /\ s.prelAwaitsAck = sess[i].prelAwaitsAck
             /\ \A q \in PacketIds : s.awaitsAck[q] # None =>
                   /\ NamesSession(s.awaitsAck[q].subject, i, sess)
                   /\ s.awaitsAck[q].subject.pid = q
<1> DEFINE s == AckRequested(sess[i], p, sb)
<1>1. sess[i] \in Session /\ EntryOK(i, sess)
  BY DEF TypeInv, TypeOK, NameInv, SessionsOK, EntryOK
<1>2. /\ s \in Session /\ s.cid = sess[i].cid
      /\ s.awaitsAck = [sess[i].awaitsAck EXCEPT ![p] = sb]
      /\ s.prelAwaitsAck = sess[i].prelAwaitsAck
  BY <1>1 DEF AckRequested, Session, SubscriptionOrNone
<1> HIDE DEF s
<1>3. ASSUME NEW q \in PacketIds, s.awaitsAck[q] # None
      PROVE  NamesSession(s.awaitsAck[q].subject, i, sess) /\ s.awaitsAck[q].subject.pid = q
  <2>1. CASE q = p
    BY <1>1, <1>2, <2>1 DEF Session
  <2>2. CASE q # p
    BY <1>1, <1>2, <1>3, <2>2 DEF EntryOK, Session
  <2>3. QED
    BY <2>1, <2>2
<1>4. QED
  BY <1>2, <1>3 DEF s

(* ... which is what a handler does with the one it has made.              *)
HandlersSession(k, s) ==
    /\ s \in Session /\ s.cid = sess[conn[k].sid].cid
    /\ s.prelAwaitsAck = sess[conn[k].sid].prelAwaitsAck
    /\ \A q \in PacketIds : s.awaitsAck[q] # None =>
          /\ NamesSession(s.awaitsAck[q].subject, conn[k].sid, sess)
          /\ s.awaitsAck[q].subject.pid = q

LEMMA HandlerAckNames ==
  ASSUME TypeInv, NameInv, NEW k \in Conns, conn[k].at \in {"restored", "subscribed"}
  PROVE  /\ conn[k].sid \in SessionIds /\ conn[k].sub \in Subscriptions
         /\ conn[k].pkt.pid \in PacketIds /\ conn[k].sub.subject.pid = conn[k].pkt.pid
         /\ NamesSession(conn[k].sub.subject, conn[k].sid, sess)
         /\ HandlersSession(k, AckRequested(sess[conn[k].sid], conn[k].pkt.pid, conn[k].sub))
<1>1. conn[k] \in Connection /\ HandlerOK(conn[k], sess) /\ ConnOK(conn[k], seed, sess)
  BY DEF TypeInv, TypeOK, NameInv
<1>2. PICK i \in SessionIds, p \in PacketIds, sb \in Subscriptions :
         i = conn[k].sid /\ p = conn[k].pkt.pid /\ sb = conn[k].sub
  BY <1>1 DEF HandlerOK, Connection, Packets
<1>3. sb.subject.pid = p /\ NamesSession(sb.subject, i, sess)
  BY <1>1, <1>2 DEF ConnOK
<1>4. HandlersSession(k, AckRequested(sess[i], p, sb))
  <2> DEFINE s == AckRequested(sess[i], p, sb)
  <2>1. /\ s \in Session /\ s.cid = sess[i].cid /\ s.prelAwaitsAck = sess[i].prelAwaitsAck
        /\ \A q \in PacketIds : s.awaitsAck[q] # None =>
              NamesSession(s.awaitsAck[q].subject, i, sess) /\ s.awaitsAck[q].subject.pid = q
    BY <1>3, AckRequestedNames
  <2> HIDE DEF s
  <2>2. HandlersSession(k, s)
    BY <1>2, <2>1 DEF HandlersSession
  <2>3. QED
    BY <2>2 DEF s
<1>5. QED
  BY <1>2, <1>3, <1>4

(* The loop of RestoreAckSubscriptions goes on.                            *)
LEMMA GoesOnNames ==
  ASSUME TypeInv, NameInv, NEW k \in Conns, NEW s \in Session, NEW left \in SUBSET conn[k].todo,
         conn[k].at \in {"restore", "restored"}, HandlersSession(k, s),
         RestoreGoesOn(k, s, left)
  PROVE  NameInv'
<1>0. /\ conn \in [Conns -> Connection] /\ conn[k] \in Connection /\ seed \in Nat
      /\ HandlerOK(conn[k], sess) /\ ConnOK(conn[k], seed, sess)
  BY DEF TypeInv, TypeOK, NameInv, SessionIds
<1>1. conn[k].sid \in SessionIds
  BY <1>0 DEF HandlerOK, Connection
<1>2. PICK t \in Session :
         /\ sess' = [sess EXCEPT ![conn[k].sid] = t]
         /\ t.cid = s.cid /\ t.awaitsAck = s.awaitsAck
         /\ \/ t.prelAwaitsAck = s.prelAwaitsAck
            \/ t.prelAwaitsAck = [q \in PacketIds |-> None]
  <2> DEFINE cleared == [s EXCEPT !.prelAwaitsAck = [q \in PacketIds |-> None]]
  <2>1. /\ cleared \in Session /\ cleared.cid = s.cid /\ cleared.awaitsAck = s.awaitsAck
        /\ cleared.prelAwaitsAck = [q \in PacketIds |-> None]
    BY DEF Session
  <2>2. sess' = [sess EXCEPT ![conn[k].sid] = IF left # {} THEN s ELSE cleared]
    BY DEF RestoreGoesOn
  <2> HIDE DEF cleared
  <2>3. QED
    BY <2>1, <2>2
<1> DEFINE cn == [conn[k] EXCEPT !.todo = left, !.pkt = None, !.sub = None,
                                 !.at = IF left = {} THEN "read" ELSE "restore"]
<1>3. conn' = [conn EXCEPT ![k] = cn] /\ UNCHANGED <<sm, seed, file>>
  BY <1>0 DEF RestoreGoesOn, storage
<1>4. SessionsOK(sm', seed', sess') /\ \A j \in SessionIds : sess'[j].cid = sess[j].cid
  <2>1. \A q \in PacketIds : t.awaitsAck[q] # None =>
           NamesSession(t.awaitsAck[q].subject, conn[k].sid, sess) /\ t.awaitsAck[q].subject.pid = q
    BY <1>2 DEF HandlersSession
  <2>2. /\ t.cid = sess[conn[k].sid].cid
        /\ \/ t.prelAwaitsAck = sess[conn[k].sid].prelAwaitsAck
           \/ t.prelAwaitsAck = [q \in PacketIds |-> None]
    BY <1>2 DEF HandlersSession
  <2>3. QED
    BY <1>1, <1>2, <1>3, <2>1, <2>2, SessionNames
<1>5. /\ cn.sid = conn[k].sid /\ cn.at \in {"read", "restore"} /\ cn.todo \subseteq conn[k].todo
      /\ cn.st = conn[k].st
  BY <1>0 DEF Connection
<1> HIDE DEF cn
<1>6. ConnOK(cn, seed', sess')
  BY <1>0, <1>1, <1>3, <1>4, <1>5 DEF ConnOK, NamesSession
<1>7. seed' \in Nat /\ seed <= seed'
  BY <1>0, <1>3
<1>8. \A j \in Conns : ConnOK(conn'[j], seed', sess')
  BY <1>3, <1>4, <1>6, <1>7, OneConnNames
<1>9. QED
  BY <1>3, <1>4, <1>8 DEF NameInv

LEMMA DoneNames ==
  ASSUME NEW k, conn[k] \in Connection, ConnOK(conn[k], seed, sess)
  PROVE  ConnOK(HandlerDone(k), seed, sess)
BY DEF HandlerDone, ConnOK, Connection

LEMMA ReadLoopNames ==
  ASSUME TypeInv, NameInv, NEW k \in Conns, ReadLoop(k)
  PROVE  NameInv'
<1> USE DEF natsVars, sessionVars, mqttVars, ghosts, storage
<1>0. /\ conn \in [Conns -> Connection] /\ conn[k] \in Connection
      /\ HandlerOK(conn[k], sess) /\ ConnOK(conn[k], seed, sess)
      /\ sess \in [SessionIds -> Session] /\ seed \in Nat
  BY DEF TypeInv, TypeOK, NameInv, SessionIds
<1>1. ASSUME NEW subject \in conn[k].todo, RestoreSubscribe(k, subject)
      PROVE  NameInv'
  <2> DEFINE pkt == [pid |-> subject.pid, dup |-> subject.dup, m |-> 1]
  <2>1. /\ conn[k].at = "restore" /\ SubscribeAck(k, subject, "restored", pkt)
        /\ UNCHANGED <<sm, seed, sess, file>> /\ pkt.pid = subject.pid
    BY <1>1 DEF RestoreSubscribe
  <2>2. NamesSession(subject, conn[k].sid, sess)
    BY <1>0, <2>1 DEF ConnOK, HandlerOK
  <2> HIDE DEF pkt
  <2>3. QED
    BY <2>1, <2>2, SubscribeAckNames
<1>2. CASE RestoreAckRequested(k)
  <2>1. PICK s :
          /\ s = AckRequested(sess[conn[k].sid], conn[k].pkt.pid, conn[k].sub)
          /\ RestoreGoesOn(k, s, conn[k].todo \ {conn[k].sub.subject})
    BY <1>2 DEF RestoreAckRequested
  <2>2. conn[k].at = "restored"
    BY <1>2 DEF RestoreAckRequested
  <2>3. HandlersSession(k, s)
    BY <2>1, <2>2, HandlerAckNames
  <2>4. s \in Session
    BY <2>3 DEF HandlersSession
  <2>5. QED
    BY <2>1, <2>2, <2>3, <2>4, GoesOnNames
<1>3. CASE IgnoreDuplicate(k)
  <2>1. UNCHANGED <<conn, sm, seed, sess, file>>
    BY <1>3 DEF IgnoreDuplicate
  <2>2. QED
    BY <2>1 DEF NameInv
<1>4. CASE PublishSubscribe(k)
  <2> DEFINE pkt == Head(wire[k])
             subject == ReplyTopic(conn[k].sid, pkt)
  <2>1. /\ SubscribeAck(k, subject, "subscribed", pkt) /\ UNCHANGED <<sm, seed, sess, file>>
    BY <1>4 DEF PublishSubscribe
  <2>2. subject.pid = pkt.pid /\ NamesSession(subject, conn[k].sid, sess)
    BY DEF ReplyTopic, NamesSession
  <2> HIDE DEF pkt, subject
  <2>3. QED
    BY <2>1, <2>2, SubscribeAckNames
<1>5. CASE PublishAckRequested(k)
  <2> DEFINE cn == [conn[k] EXCEPT !.at = "requested"]
  <2>1. /\ conn[k].at = "subscribed" /\ conn' = [conn EXCEPT ![k] = cn]
        /\ UNCHANGED <<sm, seed, file>>
    BY <1>0, <1>5 DEF PublishAckRequested
  <2>2. /\ conn[k].sid \in SessionIds /\ conn[k].sub \in Subscriptions
        /\ conn[k].sub.subject.pid = conn[k].pkt.pid
        /\ NamesSession(conn[k].sub.subject, conn[k].sid, sess)
    BY <2>1, HandlerAckNames
  <2>3. PICK s : /\ s = AckRequested(sess[conn[k].sid], conn[k].pkt.pid, conn[k].sub)
                 /\ sess' = [sess EXCEPT ![conn[k].sid] = s]
    BY <1>0, <1>5, <2>2 DEF PublishAckRequested
  <2>4. HandlersSession(k, s)
    BY <2>1, <2>3, HandlerAckNames
  <2>5. /\ SessionsOK(sm', seed', sess')
        /\ \A j \in SessionIds : sess'[j].cid = sess[j].cid
    <3>1. /\ s \in Session /\ s.cid = sess[conn[k].sid].cid
          /\ s.prelAwaitsAck = sess[conn[k].sid].prelAwaitsAck
          /\ \A q \in PacketIds : s.awaitsAck[q] # None =>
                NamesSession(s.awaitsAck[q].subject, conn[k].sid, sess) /\ s.awaitsAck[q].subject.pid = q
      BY <2>4 DEF HandlersSession
    <3>2. QED
      BY <2>1, <2>2, <2>3, <3>1, SessionNames
  <2>6. /\ cn.sid = conn[k].sid /\ cn.todo = conn[k].todo /\ cn.st = conn[k].st
        /\ cn.sub = conn[k].sub /\ cn.pkt = conn[k].pkt
    BY <1>0 DEF Connection
  <2> HIDE DEF cn
  <2>7. ConnOK(cn, seed', sess')
    BY <1>0, <2>1, <2>2, <2>5, <2>6 DEF ConnOK, NamesSession
  <2>8. seed' \in Nat /\ seed <= seed'
    BY <1>0, <2>1
  <2>9. \A j \in Conns : ConnOK(conn'[j], seed', sess')
    BY <2>1, <2>5, <2>7, <2>8, OneConnNames
  <2>10. QED
    BY <2>1, <2>5, <2>9 DEF NameInv
<1>6. CASE PublishRequest(k)
  <2>1. conn' = [conn EXCEPT ![k] = HandlerDone(k)] /\ UNCHANGED <<sm, seed, sess, file>>
    BY <1>6 DEF PublishRequest
  <2>2. ConnOK(HandlerDone(k), seed, sess)
    BY <1>0, DoneNames
  <2>3. QED
    BY <2>1, <2>2, HandlerNames
<1>7. ASSUME NEW subject \in conn[k].todo, RestoreSubscribeFails(k, subject)
      PROVE  NameInv'
  <2>1. /\ conn[k].at = "restore"
        /\ RestoreGoesOn(k, sess[conn[k].sid], conn[k].todo \ {subject})
    BY <1>7 DEF RestoreSubscribeFails
  <2>2. conn[k].sid \in SessionIds
    BY <1>0, <2>1 DEF HandlerOK, Connection
  <2>3. sess[conn[k].sid] \in Session /\ HandlersSession(k, sess[conn[k].sid])
    BY <1>0, <2>2 DEF NameInv, SessionsOK, HandlersSession
  <2>4. QED
    BY <2>1, <2>3, GoesOnNames
<1>8. QED
  BY <1>1, <1>2, <1>3, <1>4, <1>5, <1>6, <1>7 DEF ReadLoop

LEMMA DisconnectNames ==
  ASSUME TypeInv, NameInv, NEW k \in Conns,
         PublishSubscribeFails(k) \/ PublishRequestFails(k) \/ SetDisconnected(k)
  PROVE  NameInv'
<1> USE DEF natsVars, sessionVars, mqttVars, ghosts, storage
<1>0. /\ conn \in [Conns -> Connection] /\ conn[k] \in Connection
      /\ HandlerOK(conn[k], sess) /\ ConnOK(conn[k], seed, sess)
  BY DEF TypeInv, TypeOK, NameInv
<1>1. UNCHANGED <<sm, seed, sess, file>>
  BY DEF PublishSubscribeFails, PublishRequestFails, SetDisconnected
<1>2. CASE PublishSubscribeFails(k) \/ SetDisconnected(k)
  <2> DEFINE cn == [conn[k] EXCEPT !.st = "disconnected"]
  <2>1. conn' = [conn EXCEPT ![k] = cn] /\ conn[k].st = "connected"
    BY <1>0, <1>2 DEF PublishSubscribeFails, Reads, SetDisconnected
  <2>2. ConnOK(cn, seed, sess)
    BY <1>0, <2>1 DEF ConnOK, Connection
  <2> HIDE DEF cn
  <2>3. QED
    BY <1>1, <2>1, <2>2, HandlerNames
<1>3. CASE PublishRequestFails(k)
  <2> DEFINE cn == [HandlerDone(k) EXCEPT !.st = "disconnected"]
  <2>1. conn' = [conn EXCEPT ![k] = cn] /\ conn[k].at = "requested"
    BY <1>3 DEF PublishRequestFails
  <2>2. conn[k].st # "free"
    BY <1>0, <2>1 DEF HandlerOK
  <2>3. ConnOK(cn, seed, sess)
    BY <1>0, <2>2 DEF HandlerDone, ConnOK, Connection
  <2> HIDE DEF cn
  <2>4. QED
    BY <1>1, <2>1, <2>3, HandlerNames
<1>4. QED
  BY <1>2, <1>3

LEMMA ReplyCallbackNames ==
  ASSUME TypeInv, NameInv, NEW call \in calls, ReplyCallback(call)
  PROVE  NameInv'
<1> USE DEF natsVars, sessionVars, mqttVars, ghosts, storage
<1> DEFINE sid == call.sub.subject.sid
           p   == call.sub.subject.pid
           new == [sess[sid] EXCEPT !.awaitsAck[p] = None]
<1>0. /\ sess \in [SessionIds -> Session] /\ sid \in SessionIds /\ p \in PacketIds
      /\ sess[sid] \in Session /\ EntryOK(sid, sess)
  <2>1. sid \in SessionIds /\ p \in PacketIds
    BY DEF TypeInv, TypeOK, Subscriptions, Subjects
  <2>2. QED
    BY <2>1 DEF TypeInv, TypeOK, NameInv, SessionsOK, EntryOK
<1>1. UNCHANGED <<conn, sm, seed, file>>
  BY DEF ReplyCallback
<1>2. CASE sess' = sess
  BY <1>1, <1>2 DEF NameInv
<1>3. CASE sess' = [sess EXCEPT ![sid].awaitsAck[p] = None]
  <2>1. sess' = [sess EXCEPT ![sid] = new]
    BY <1>0, <1>3
  <2>2. /\ new \in Session /\ new.cid = sess[sid].cid
        /\ new.prelAwaitsAck = sess[sid].prelAwaitsAck
        /\ \A q \in PacketIds : new.awaitsAck[q] \in {None, sess[sid].awaitsAck[q]}
    BY <1>0 DEF Session, SubscriptionOrNone
  <2> HIDE DEF new, sid
  <2>3. sess'[sid] = new
    BY <1>0, <2>1
  <2>4. EntryOK(sid, sess')
    BY <1>0, <2>2, <2>3 DEF EntryOK, NamesSession
  <2>5. /\ SessionsOK(sm', seed', sess')
        /\ \A j \in SessionIds : sess'[j].cid = sess[j].cid
    BY <1>0, <1>1, <2>1, <2>2, <2>4, OneSession
  <2>6. \A j \in Conns : ConnOK(conn'[j], seed', sess')
    BY <1>1, <2>5, SameConnNames
  <2>7. QED
    BY <1>1, <2>5, <2>6 DEF NameInv
<1>4. QED
  BY <1>2, <1>3 DEF ReplyCallback

LEMMA ServeEndsNames ==
  ASSUME TypeInv, NameInv, NEW k \in Conns, ServeEnds(k)
  PROVE  NameInv'
<1> USE DEF natsVars, sessionVars, mqttVars, ghosts, storage
<1> DEFINE gone == Removed(k)
           c    == conn[k].cid
<1>0. /\ sess \in [SessionIds -> Session] /\ sm \in [ClientIds -> SessionIds \cup {0}]
      /\ seed \in Nat /\ SessionsOK(sm, seed, sess) /\ c \in ClientIds
  BY DEF TypeInv, TypeOK, SessionIds, NameInv, ServeEnds, HandlerOK
<1>1. /\ conn' = [conn EXCEPT ![k] = Unused]
      /\ sm' = IF gone = 0 THEN sm ELSE [sm EXCEPT ![c] = 0]
      /\ sess' = [i \in SessionIds |-> IF i = gone THEN NewSession(c) ELSE Closed(sess[i], k)]
      /\ seed' = seed /\ file' = file
  BY DEF ServeEnds
<1>2. gone = 0 \/ gone = sm[c]
  BY DEF Removed
<1> HIDE DEF gone, c
<1>3. ASSUME NEW i \in SessionIds
      PROVE  sess'[i].cid = sess[i].cid /\ EntryOK(i, sess')
  <2>1. EntryOK(i, sess) /\ sess[i] \in Session
    BY <1>0 DEF SessionsOK, EntryOK
  <2>2. CASE i = gone
    <3>1. sess'[i] = NewSession(c) /\ sess[i].cid = c
      BY <1>0, <1>1, <1>2, <2>2 DEF SessionsOK, SessionIds
    <3>2. QED
      BY <3>1 DEF NewSession, EntryOK
  <2>3. CASE i # gone
    <3> DEFINE s == sess[i]
    <3>1. sess'[i] = Closed(s, k)
      BY <1>1, <2>3
    <3>2. /\ Closed(s, k).cid = s.cid /\ Closed(s, k).prelAwaitsAck = s.prelAwaitsAck
      BY <2>1 DEF Closed, Session
    <3>3. ASSUME NEW p \in PacketIds, Closed(s, k).awaitsAck[p] # None
          PROVE  /\ s.awaitsAck[p] # None
                 /\ Closed(s, k).awaitsAck[p].subject = s.awaitsAck[p].subject
      <4>1. Closed(s, k).awaitsAck[p] =
               IF s.awaitsAck[p] # None /\ s.awaitsAck[p].k = k
               THEN [s.awaitsAck[p] EXCEPT !.k = None, !.n = 0] ELSE s.awaitsAck[p]
        BY <2>1 DEF Closed, Session
      <4>2. s.awaitsAck[p] # None
        BY <3>3, <4>1
      <4>3. s.awaitsAck[p] \in [k : Conns \cup {None}, subject : Subjects, n : Copies]
        BY <2>1, <4>2 DEF Session, SubscriptionOrNone, Subscriptions
      <4>4. QED
        BY <4>1, <4>2, <4>3
    <3> HIDE DEF s
    <3>4. s = sess[i]
      BY DEF s
    <3>5. QED
      BY <2>1, <3>1, <3>2, <3>3, <3>4 DEF EntryOK, NamesSession
  <2>4. QED
    BY <2>2, <2>3
<1>4. ASSUME NEW d \in ClientIds
      PROVE  sm'[d] <= seed' /\ (sm'[d] # 0 => sess'[sm'[d]].cid = d)
  <2>1. sm'[d] = 0 \/ sm'[d] = sm[d]
    BY <1>0, <1>1
  <2>2. sm[d] <= seed /\ (sm[d] # 0 => sess[sm[d]].cid = d)
    BY <1>0 DEF SessionsOK
  <2>3. sm'[d] <= seed'
    BY <1>0, <1>1, <2>1, <2>2
  <2>4. QED
    BY <1>0, <1>1, <1>3, <2>1, <2>2, <2>3
<1>5. SessionsOK(sm', seed', sess')
  BY <1>3, <1>4 DEF SessionsOK, EntryOK
<1>6. ConnOK(Unused, seed', sess')
  BY <1>0, <1>1 DEF Unused, ConnOK
<1>7. seed' \in Nat /\ seed <= seed'
  BY <1>0, <1>1
<1>8. \A j \in Conns : ConnOK(conn'[j], seed', sess')
  BY <1>1, <1>3, <1>6, <1>7, OneConnNames
<1>9. QED
  BY <1>1, <1>5, <1>8 DEF NameInv

LEMMA RestartNames ==
  ASSUME TypeInv, NameInv, Restart
  PROVE  NameInv'
<1> USE DEF natsVars, sessionVars, mqttVars, ghosts, storage
<1> DEFINE registered == {sm[c] : c \in ClientIds}
           written == [i \in SessionIds |-> IF i \in registered THEN Reloaded(sess[i])
                                                                ELSE NewSession(None)]
<1>0. /\ sess \in [SessionIds -> Session] /\ sm \in [ClientIds -> SessionIds \cup {0}]
      /\ SessionsOK(sm, seed, sess)
  BY DEF TypeInv, TypeOK, NameInv
<1>1. /\ sess' = written /\ file' = [seed |-> seed, sm |-> sm, sess |-> written]
      /\ \A k \in Conns : conn[k].st = "free" /\ UNCHANGED <<conn, sm, seed>>
      /\ sm' = sm /\ seed' = seed /\ conn' = conn
  BY DEF Restart
<1>2. ASSUME NEW i \in registered, i \in SessionIds
      PROVE  written[i].cid = sess[i].cid
  BY <1>0, <1>2 DEF Reloaded, Session
<1>3. ASSUME NEW i \in SessionIds
      PROVE  EntryOK(i, written)
  <2>1. EntryOK(i, sess) /\ sess[i] \in Session
    BY <1>0 DEF SessionsOK, EntryOK
  <2>2. CASE i \in registered
    <3>1. /\ written[i] = Reloaded(sess[i]) /\ written[i].cid = sess[i].cid
      BY <1>2, <2>2
    <3>2. ASSUME NEW p \in PacketIds
          PROVE  /\ Reloaded(sess[i]).awaitsAck[p] = None
                 /\ Reloaded(sess[i]).prelAwaitsAck[p] =
                       IF sess[i].awaitsAck[p] = None THEN None ELSE sess[i].awaitsAck[p].subject
      BY <2>1 DEF Reloaded, Session
    <3> HIDE DEF written
    <3>3. QED
      BY <2>1, <3>1, <3>2 DEF EntryOK, NamesSession
  <2>3. CASE i \notin registered
    <3>1. written[i] = NewSession(None)
      BY <2>3
    <3> HIDE DEF written
    <3>2. QED
      BY <3>1 DEF EntryOK, NewSession
  <2>4. QED
    BY <2>2, <2>3
<1>4. \A c \in ClientIds : sm[c] <= seed /\ (sm[c] # 0 => written[sm[c]].cid = c)
  <2>1. ASSUME NEW c \in ClientIds, sm[c] # 0
        PROVE  written[sm[c]].cid = c
    <3>1. sm[c] \in registered /\ sm[c] \in SessionIds
      BY <1>0, <2>1
    <3>2. QED
      BY <1>0, <1>2, <2>1, <3>1 DEF SessionsOK
  <2>2. QED
    BY <1>0, <2>1 DEF SessionsOK
<1> HIDE DEF written
<1>5. SessionsOK(sm, seed, written)
  BY <1>3, <1>4 DEF SessionsOK, EntryOK
<1>6. \A k \in Conns : ConnOK(conn'[k], seed', sess')
  BY <1>1 DEF TypeInv, HandlerOK, NameInv, ConnOK
<1>7. QED
  BY <1>1, <1>5, <1>6 DEF NameInv

LEMMA CrashNames ==
  ASSUME TypeInv, NameInv, Crash
  PROVE  NameInv'
<1>1. /\ sm' = file.sm /\ seed' = file.seed /\ sess' = file.sess /\ file' = file
      /\ conn' = [k \in Conns |-> Unused]
  BY DEF Crash
<1>2. file.seed \in Nat
  BY DEF TypeInv, TypeOK, SessionIds
<1>3. \A k \in Conns : ConnOK(conn'[k], seed', sess')
  BY <1>1, <1>2 DEF Unused, ConnOK
<1>4. QED
  BY <1>1, <1>3 DEF NameInv

LEMMA NameStep == TypeInv /\ NameInv /\ [Next]_vars => NameInv'
<1> SUFFICES ASSUME TypeInv, NameInv, [Next]_vars PROVE NameInv'
  OBVIOUS
<1> USE DEF natsVars, sessionVars, mqttVars, ghosts, storage
<1>1. CASE UNCHANGED vars
  BY <1>1 DEF vars, NameInv
<1>2. ASSUME NEW c \in ClientIds, MqttClient(c)
      PROVE  NameInv'
  <2>1. CASE (\E p \in PacketIds : Publish(c, p)) \/ ReceivePubAck(c) \/ ClientDrops(c)
    <3>1. UNCHANGED <<conn, sm, seed, sess, file>>
      BY <2>1 DEF Publish, ReceivePubAck, ClientDrops
    <3>2. QED
      BY <3>1 DEF NameInv
  <2>2. QED
    BY <1>2, <2>1, ConnectNames DEF MqttClient
<1>3. ASSUME NEW r \in requests, Reply(r)
      PROVE  NameInv'
  <2>1. UNCHANGED <<conn, sm, seed, sess, file>>
    BY <1>3 DEF Reply
  <2>2. QED
    BY <2>1 DEF NameInv
<1>4. CASE Next
  BY <1>2, <1>3, <1>4, ReadLoopNames, DisconnectNames, ServeEndsNames,
     ReplyCallbackNames, RestartNames, CrashNames DEF Next
<1>5. QED
  BY <1>1, <1>4

LEMMA Named == Spec => []NameInv
<1>1. Init => NameInv
  <2> SUFFICES ASSUME Init PROVE NameInv
    OBVIOUS
  <2>1. /\ SessionsOK(sm, seed, sess) /\ SessionsOK(file.sm, file.seed, file.sess)
    BY DEF Init, SessionsOK, NewSession
  <2>2. \A k \in Conns : ConnOK(conn[k], seed, sess)
    BY DEF Init, ConnOK, Unused
  <2>3. QED
    BY <2>1, <2>2 DEF NameInv
<1>2. QED
  BY <1>1, Typed, NameStep, PTL DEF Spec

(* What a session awaits under a packet id is a reply to a subject that    *)
(* names the session, its client and the packet: across reconnects, even   *)
(* of clients whose old connection still runs, restarts and crashes.       *)
THEOREM EntriesAreNamed == Spec => []EntriesNameTheirSession
<1>1. NameInv => EntriesNameTheirSession
  BY DEF NameInv, SessionsOK, EntriesNameTheirSession, NamesSession
<1>2. QED
  BY <1>1, Named, PTL

-----------------------------------------------------------------------------

(* Who is served: a connection belongs to its client and to the session    *)
(* registered for that client, unless the client was refused; a NATS       *)
(* subscription belongs to a connection, and to its client and session.    *)
Serves(k, c) == conn[k].st # "free" /\ conn[k].cid = c /\ conn[k].sid # 0
Owns(k, sb) == Serves(k, sb.subject.cid) /\ conn[k].sid = sb.subject.sid

(* A client has one connection at a time, of the session registered for    *)
(* it; a subscription is one of a connection, and a reply is queued for a  *)
(* subscription.                                                           *)
OneEach == \A j, k \in Conns :
    conn[j].st # "free" /\ conn[k].st # "free" /\ conn[j].cid = conn[k].cid => j = k
ServedSession == \A k \in Conns, c \in ClientIds : Serves(k, c) => sm[c] = conn[k].sid
ClientsServed == \A c \in ClientIds : client[c].k # None => Serves(client[c].k, c)
OwnedSubs == \A sb \in subs : sb.k # None /\ Owns(sb.k, sb)
QueuedCalls == \A x \in calls : x.sub \in subs

ConnInv == OneEach /\ ServedSession /\ ClientsServed /\ OwnedSubs /\ QueuedCalls

LEMMA ConnsKept ==
  ASSUME ConnInv, sm' = sm,
         \A k \in Conns : /\ conn'[k].st = "free" <=> conn[k].st = "free"
                          /\ conn'[k].cid = conn[k].cid /\ conn'[k].sid = conn[k].sid,
         \A c \in ClientIds : client'[c].k \in {None, client[c].k},
         TypeInv
  PROVE  OneEach' /\ ServedSession' /\ ClientsServed'
<1>1. OneEach'
  BY DEF ConnInv, OneEach
<1>2. ServedSession'
  BY DEF ConnInv, ServedSession, Serves
<1>3. ClientsServed'
  <2> SUFFICES ASSUME NEW c \in ClientIds, client'[c].k # None
               PROVE  Serves(client[c].k, c)'
    BY DEF ClientsServed
  <2>1. PICK k \in Conns : k = client[c].k /\ client'[c].k = k
    BY DEF TypeInv, TypeOK
  <2>2. Serves(k, c)
    BY <2>1, NoneAssumption DEF ConnInv, ClientsServed
  <2>3. QED
    BY <2>1, <2>2 DEF Serves
<1>4. QED
  BY <1>1, <1>2, <1>3

LEMMA SubsKept ==
  ASSUME ConnInv, TypeInv, subs' \subseteq subs,
         \A sb \in subs' : /\ conn'[sb.k].st = "free" <=> conn[sb.k].st = "free"
                           /\ conn'[sb.k].cid = conn[sb.k].cid
                           /\ conn'[sb.k].sid = conn[sb.k].sid
  PROVE  OwnedSubs'
BY DEF ConnInv, OwnedSubs, Owns, Serves

(* The connection of a client and its session.                             *)
LEMMA ServesNames ==
  ASSUME TypeInv, NameInv, ConnInv, NEW k \in Conns, NEW c \in ClientIds, Serves(k, c)
  PROVE  /\ sm[c] = conn[k].sid /\ sm[c] \in SessionIds /\ sm[c] # 0
         /\ sess[sm[c]].cid = c /\ sm[c] <= seed
<1>1. sm[c] = conn[k].sid /\ sm[c] # 0
  BY DEF ConnInv, ServedSession, Serves
<1>2. sm[c] \in SessionIds
  BY <1>1 DEF TypeInv, TypeOK
<1>3. QED
  BY <1>1, <1>2 DEF NameInv, SessionsOK

LEMMA ConnectServes ==
  ASSUME TypeInv, NameInv, ConnInv, Takeover = FALSE,
         NEW c \in ClientIds, NEW k \in Conns, NEW clean \in CleanFlags,
         Connect(c, k, clean) \/ ConnectRefused(c, k, clean)
  PROVE  ConnInv'
<1> USE DEF natsVars, sessionVars, mqttVars, ghosts, storage
<1>1. /\ conn[k].st = "free" /\ \A j \in Conns : conn[j].cid # c
      /\ client[c].k = None /\ UNCHANGED <<subs, calls>>
  BY DEF Connect, ConnectRefused, Vacant
<1>2. PICK cn :
        /\ conn' = [conn EXCEPT ![k] = cn] /\ cn.st # "free" /\ cn.cid = c
        /\ \/ cn.sid = 0 /\ sm' = sm /\ client' = client
           \/ cn.sid # 0 /\ sm' = [sm EXCEPT ![c] = cn.sid]
              /\ \A d \in ClientIds : client'[d].k = IF d = c THEN k ELSE client[d].k
  <2>1. CASE Connect(c, k, clean)
    <3> DEFINE present == Resumes(c, clean)
               sid     == IF present THEN sm[c] ELSE seed + 1
               todo    == IF present THEN Restorable(sess[sid]) ELSE {}
               new     == [Unused EXCEPT !.st = "connected", !.cid = c, !.clean = clean,
                                         !.sid = sid, !.todo = todo,
                                         !.at = IF todo = {} THEN "read" ELSE "restore"]
    <3>1. /\ sid \in SessionIds /\ sm' = [sm EXCEPT ![c] = sid]
          /\ conn' = [conn EXCEPT ![k] = new]
      BY <2>1 DEF Connect
    <3>2. \A d \in ClientIds : client'[d].k = IF d = c THEN k ELSE client[d].k
      BY <2>1 DEF Connect, TypeInv, TypeOK
    <3>3. new.st # "free" /\ new.cid = c /\ new.sid = sid /\ sid # 0
      BY <3>1 DEF Unused, SessionIds
    <3> HIDE DEF new, sid
    <3>4. QED
      BY <3>1, <3>2, <3>3
  <2>2. CASE ConnectRefused(c, k, clean)
    <3> DEFINE new == [Unused EXCEPT !.st = "disconnected", !.cid = c, !.clean = clean]
    <3>1. new.st # "free" /\ new.cid = c /\ new.sid = 0
      BY DEF Unused
    <3>2. conn' = [conn EXCEPT ![k] = new] /\ sm' = sm /\ client' = client
      BY <2>2 DEF ConnectRefused
    <3> HIDE DEF new
    <3>3. QED
      BY <3>1, <3>2
  <2>3. QED
    BY <2>1, <2>2
<1>3. conn'[k] = cn /\ \A j \in Conns : j # k => conn'[j] = conn[j]
  BY <1>2 DEF TypeInv, TypeOK
<1>4. OneEach'
  BY <1>1, <1>2, <1>3 DEF ConnInv, OneEach
<1>5. ServedSession'
  <2> SUFFICES ASSUME NEW j \in Conns, NEW d \in ClientIds, Serves(j, d)'
               PROVE  sm'[d] = conn'[j].sid
    BY DEF ServedSession
  <2>1. CASE j = k
    BY <1>2, <1>3, <2>1 DEF Serves, TypeInv, TypeOK
  <2>2. CASE j # k
    <3>1. Serves(j, d) /\ conn'[j] = conn[j] /\ d # c
      BY <1>1, <1>3, <2>2 DEF Serves
    <3>2. QED
      BY <1>2, <3>1 DEF ConnInv, ServedSession, TypeInv, TypeOK
  <2>3. QED
    BY <2>1, <2>2
<1>6. ClientsServed'
  <2> SUFFICES ASSUME NEW d \in ClientIds, client'[d].k # None
               PROVE  Serves(client[d].k, d)'
    BY DEF ClientsServed
  <2>1. CASE client'[d].k = client[d].k
    <3>1. PICK j \in Conns : j = client[d].k /\ client'[d].k = j
      BY <2>1 DEF TypeInv, TypeOK
    <3>2. Serves(j, d)
      BY <3>1, NoneAssumption DEF ConnInv, ClientsServed
    <3>3. j # k
      BY <1>1, <3>2 DEF Serves
    <3>4. QED
      BY <1>3, <3>1, <3>2, <3>3 DEF Serves
  <2>2. CASE client'[d].k # client[d].k
    <3>1. d = c /\ client'[d].k = k /\ cn.sid # 0
      BY <1>2, <2>2
    <3>2. QED
      BY <1>2, <1>3, <3>1 DEF Serves
  <2>3. QED
    BY <2>1, <2>2
<1>7. \A sb \in subs : sb.k # k /\ sb.k \in Conns
  BY <1>1 DEF ConnInv, OwnedSubs, Owns, Serves, TypeInv, TypeOK, Subscriptions
<1>8. OwnedSubs'
  BY <1>1, <1>3, <1>7 DEF ConnInv, OwnedSubs, Owns, Serves
<1>9. QED
  BY <1>1, <1>4, <1>5, <1>6, <1>8 DEF ConnInv, QueuedCalls

(* A connection that makes a subscription for its own session.             *)
LEMMA SubscribeServes ==
  ASSUME TypeInv, NameInv, ConnInv,
         NEW k \in Conns, NEW subject \in Subjects, NEW pkt, NEW at,
         SubscribeAck(k, subject, at, pkt), NamesSession(subject, conn[k].sid, sess),
         conn[k].sid # 0, conn[k].st # "free", UNCHANGED <<sm, client, calls>>
  PROVE  ConnInv'
<1>1. PICK n \in Copies :
         LET sb == [k |-> k, subject |-> subject, n |-> n]
         IN  /\ subs' = subs \cup {sb}
             /\ conn' = [conn EXCEPT ![k].at = at, ![k].pkt = pkt, ![k].sub = sb]
  BY DEF SubscribeAck
<1> DEFINE sb == [k |-> k, subject |-> subject, n |-> n]
<1>2. sb.k = k /\ sb.subject = subject
  OBVIOUS
<1>3. subs' = subs \cup {sb} /\ conn' = [conn EXCEPT ![k].at = at, ![k].pkt = pkt, ![k].sub = sb]
  BY <1>1
<1> HIDE DEF sb
<1>4. \A j \in Conns : /\ conn'[j].st = conn[j].st
                       /\ conn'[j].cid = conn[j].cid /\ conn'[j].sid = conn[j].sid
  BY <1>3 DEF TypeInv, TypeOK, Connection
<1>5. OneEach' /\ ServedSession' /\ ClientsServed'
  BY <1>4, ConnsKept
<1>6. conn[k].cid \in ClientIds
  BY DEF TypeInv, HandlerOK
<1>7. sess[conn[k].sid].cid = conn[k].cid
  BY <1>6, ServesNames DEF Serves
<1>8. Owns(k, sb)
  BY <1>2, <1>7 DEF Owns, Serves, NamesSession
<1>9. \A x \in subs' : x.k \in Conns /\ Owns(x.k, x)
  BY <1>2, <1>3, <1>8 DEF ConnInv, OwnedSubs, TypeInv, TypeOK, Subscriptions
<1>10. OwnedSubs'
  BY <1>4, <1>9, NoneAssumption DEF OwnedSubs, Owns, Serves
<1>11. QED
  BY <1>3, <1>5, <1>10 DEF ConnInv, QueuedCalls

LEMMA ReadLoopServes ==
  ASSUME TypeInv, NameInv, ConnInv, NEW k \in Conns, ReadLoop(k)
  PROVE  ConnInv'
<1> USE DEF natsVars, sessionVars, mqttVars, ghosts, storage
<1>0. conn[k] \in Connection /\ HandlerOK(conn[k], sess) /\ ConnOK(conn[k], seed, sess)
  BY DEF TypeInv, TypeOK, NameInv
<1>1. ASSUME NEW subject \in conn[k].todo, RestoreSubscribe(k, subject)
      PROVE  ConnInv'
  <2> DEFINE pkt == [pid |-> subject.pid, dup |-> subject.dup, m |-> 1]
  <2>1. /\ SubscribeAck(k, subject, "restored", pkt) /\ conn[k].at = "restore"
        /\ UNCHANGED <<sm, client, calls>>
    BY <1>1 DEF RestoreSubscribe
  <2> HIDE DEF pkt
  <2>2. /\ subject \in Subjects /\ conn[k].sid # 0 /\ conn[k].st # "free"
        /\ NamesSession(subject, conn[k].sid, sess)
    BY <1>0, <2>1 DEF HandlerOK, ConnOK, Connection
  <2>3. QED
    BY <2>1, <2>2, SubscribeServes
<1>2. CASE PublishSubscribe(k)
  <2> DEFINE pkt == Head(wire[k])
             subject == ReplyTopic(conn[k].sid, pkt)
  <2>1. /\ SubscribeAck(k, subject, "subscribed", pkt) /\ Reads(k)
        /\ UNCHANGED <<sm, client, calls>>
    BY <1>2 DEF PublishSubscribe
  <2>2. /\ pkt \in Packets /\ conn[k].sid \in SessionIds /\ sess[conn[k].sid].cid \in ClientIds
        /\ conn[k].sid # 0 /\ conn[k].st # "free"
    BY <2>1, ReadTypes
  <2>3. subject \in Subjects /\ NamesSession(subject, conn[k].sid, sess)
    BY <2>2 DEF ReplyTopic, NamesSession, Subjects, Packets
  <2> HIDE DEF pkt, subject
  <2>4. QED
    BY <2>1, <2>2, <2>3, SubscribeServes
<1>3. CASE \/ RestoreAckRequested(k)
           \/ \E subject \in conn[k].todo : RestoreSubscribeFails(k, subject)
           \/ IgnoreDuplicate(k) \/ PublishAckRequested(k) \/ PublishRequest(k)
  <2> DEFINE GoesOn == \E s, left : RestoreGoesOn(k, s, left)
  <2>0. GoesOn \/ IgnoreDuplicate(k) \/ PublishAckRequested(k) \/ PublishRequest(k)
    BY <1>3 DEF RestoreAckRequested, RestoreSubscribeFails
  <2>1. UNCHANGED <<sm, client, subs, calls>>
    BY <2>0 DEF RestoreGoesOn, IgnoreDuplicate, PublishAckRequested, PublishRequest
  <2>2. \A j \in Conns : /\ conn'[j].st = conn[j].st
                         /\ conn'[j].cid = conn[j].cid /\ conn'[j].sid = conn[j].sid
    <3>1. conn \in [Conns -> Connection]
      BY DEF TypeInv, TypeOK
    <3>2. CASE GoesOn
      BY <3>1, <3>2 DEF RestoreGoesOn, Connection
    <3>3. CASE IgnoreDuplicate(k)
      BY <3>3 DEF IgnoreDuplicate
    <3>4. CASE PublishAckRequested(k)
      BY <3>1, <3>4 DEF PublishAckRequested, Connection
    <3>5. CASE PublishRequest(k)
      BY <3>1, <3>5 DEF PublishRequest, HandlerDone, Connection
    <3>6. QED
      BY <2>0, <3>2, <3>3, <3>4, <3>5
  <2>3. OneEach' /\ ServedSession' /\ ClientsServed'
    BY <2>1, <2>2, ConnsKept
  <2>4. \A sb \in subs : sb.k \in Conns
    BY DEF ConnInv, OwnedSubs, TypeInv, TypeOK, Subscriptions
  <2>5. OwnedSubs'
    BY <2>1, <2>2, <2>4, SubsKept
  <2>6. QED
    BY <2>1, <2>3, <2>5 DEF ConnInv, QueuedCalls
<1>4. QED
  BY <1>1, <1>2, <1>3 DEF ReadLoop

LEMMA DisconnectServes ==
  ASSUME TypeInv, ConnInv, NEW k \in Conns,
         PublishSubscribeFails(k) \/ PublishRequestFails(k) \/ SetDisconnected(k)
  PROVE  ConnInv'
<1> USE DEF natsVars, sessionVars, mqttVars, ghosts, storage
<1>0. conn \in [Conns -> Connection] /\ HandlerOK(conn[k], sess)
  BY DEF TypeInv, TypeOK
<1>1. UNCHANGED <<sm, client, subs, calls>>
  BY DEF PublishSubscribeFails, PublishRequestFails, SetDisconnected
<1>2. \A j \in Conns : /\ conn'[j].st = "free" <=> conn[j].st = "free"
                       /\ conn'[j].cid = conn[j].cid /\ conn'[j].sid = conn[j].sid
  <2>1. CASE PublishSubscribeFails(k) \/ SetDisconnected(k)
    BY <1>0, <2>1 DEF PublishSubscribeFails, Reads, SetDisconnected, Connection
  <2>2. CASE PublishRequestFails(k)
    <3> DEFINE cn == [HandlerDone(k) EXCEPT !.st = "disconnected"]
    <3>1. /\ conn' = [conn EXCEPT ![k] = cn]
          /\ conn[k].st # "free"
      BY <1>0, <2>2 DEF PublishRequestFails, HandlerOK
    <3>2. cn.st # "free" /\ cn.cid = conn[k].cid /\ cn.sid = conn[k].sid
      BY <1>0 DEF HandlerDone, Connection
    <3> HIDE DEF cn
    <3>3. QED
      BY <1>0, <3>1, <3>2
  <2>3. QED
    BY <2>1, <2>2
<1>3. OneEach' /\ ServedSession' /\ ClientsServed'
  BY <1>1, <1>2, ConnsKept
<1>4. \A sb \in subs : sb.k \in Conns
  BY DEF ConnInv, OwnedSubs, TypeInv, TypeOK, Subscriptions
<1>5. OwnedSubs'
  BY <1>1, <1>2, <1>4, SubsKept
<1>6. QED
  BY <1>1, <1>3, <1>5 DEF ConnInv, QueuedCalls

LEMMA ClientServes ==
  ASSUME TypeInv, ConnInv, NEW c \in ClientIds,
         (\E p \in PacketIds : Publish(c, p)) \/ ReceivePubAck(c) \/ ClientDrops(c)
  PROVE  ConnInv'
<1> USE DEF natsVars, sessionVars, mqttVars, ghosts, storage
<1>1. UNCHANGED <<conn, sm, subs, calls>>
  BY DEF Publish, ReceivePubAck, ClientDrops
<1>2. \A d \in ClientIds : client'[d].k \in {None, client[d].k}
  <2>1. client \in [ClientIds -> [k : Conns \cup {None},
                                  unacked : [PacketIds -> Msgs \cup {0}]]]
    BY DEF TypeInv, TypeOK
  <2>2. ASSUME NEW q, NEW m, client' = [client EXCEPT ![c].unacked[q] = m]
        PROVE  \A d \in ClientIds : client'[d].k = client[d].k
    BY <2>1, <2>2
  <2>3. (\E p \in PacketIds : Publish(c, p)) \/ ReceivePubAck(c)
        => \E q, m : client' = [client EXCEPT ![c].unacked[q] = m]
    BY DEF Publish, ReceivePubAck
  <2>4. ClientDrops(c) => \A d \in ClientIds : client'[d].k \in {None, client[d].k}
    BY <2>1 DEF ClientDrops
  <2>5. QED
    BY <2>2, <2>3, <2>4
<1>3. OneEach' /\ ServedSession' /\ ClientsServed'
  BY <1>1, <1>2, ConnsKept
<1>4. OwnedSubs'
  BY <1>1, SubsKept
<1>5. QED
  BY <1>1, <1>3, <1>4 DEF ConnInv, QueuedCalls

LEMMA RepliesServe ==
  ASSUME TypeInv, ConnInv,
         (\E r \in requests : Reply(r)) \/ (\E call \in calls : ReplyCallback(call))
  PROVE  ConnInv'
<1> USE DEF natsVars, sessionVars, mqttVars, ghosts, storage
<1>1. UNCHANGED <<conn, sm, client>> /\ subs' \subseteq subs
  BY DEF Reply, ReplyCallback, Unsubscribed
<1>2. OneEach' /\ ServedSession' /\ ClientsServed'
  BY <1>1, ConnsKept
<1>3. OwnedSubs'
  BY <1>1, SubsKept
<1>4. QueuedCalls'
  <2>1. ASSUME NEW r \in requests, Reply(r)
        PROVE  QueuedCalls'
    BY <2>1 DEF Reply, ConnInv, QueuedCalls
  <2>2. ASSUME NEW call \in calls, ReplyCallback(call)
        PROVE  QueuedCalls'
    <3>1. \/ calls' = {x \in calls \ {call} : x.sub \in subs'}
          \/ calls' = calls \ {call} /\ subs' = subs
      BY <2>2 DEF ReplyCallback
    <3>2. QED
      BY <3>1 DEF ConnInv, QueuedCalls
  <2>3. QED
    BY <2>1, <2>2
<1>5. QED
  BY <1>2, <1>3, <1>4 DEF ConnInv

LEMMA ServeEndsServes ==
  ASSUME TypeInv, NameInv, ConnInv, NEW k \in Conns, ServeEnds(k)
  PROVE  ConnInv'
<1> USE DEF natsVars, sessionVars, mqttVars, ghosts, storage
<1> DEFINE c == conn[k].cid
<1>1. /\ conn' = [conn EXCEPT ![k] = Unused]
      /\ \A sb \in subs' : sb \in subs /\ sb.k # k
      /\ \A x \in calls' : x \in calls /\ x.sub \in subs'
      /\ client' = [client EXCEPT ![c].k = IF @ = k THEN None ELSE @]
      /\ conn[k].st = "disconnected"
  BY DEF ServeEnds
<1>2. \A d \in ClientIds : sm'[d] = sm[d] \/ d = c
  BY DEF ServeEnds, TypeInv, TypeOK
<1>3. conn'[k].st = "free" /\ \A j \in Conns : j # k => conn'[j] = conn[j]
  BY <1>1 DEF TypeInv, TypeOK, Unused
<1>4. \A j \in Conns : conn'[j].st # "free" => j # k /\ conn'[j] = conn[j] /\ conn[j].cid # c
  BY <1>1, <1>3 DEF ConnInv, OneEach
<1>5. OneEach'
  BY <1>4 DEF ConnInv, OneEach
<1>6. ServedSession'
  BY <1>2, <1>4 DEF ConnInv, ServedSession, Serves
<1>7. ClientsServed'
  <2> SUFFICES ASSUME NEW d \in ClientIds, client'[d].k # None
               PROVE  Serves(client[d].k, d)'
    BY DEF ClientsServed
  <2>1. PICK j \in Conns : j = client[d].k /\ client'[d].k = j /\ (d = c => j # k)
    <3>1. client \in [ClientIds -> [k : Conns \cup {None},
                                    unacked : [PacketIds -> Msgs \cup {0}]]]
      BY DEF TypeInv, TypeOK
    <3> HIDE DEF c
    <3>2. client'[d].k = IF d = c /\ client[d].k = k THEN None ELSE client[d].k
      BY <1>1, <3>1
    <3>3. QED
      BY <3>1, <3>2
  <2>2. Serves(j, d)
    BY <2>1, NoneAssumption DEF ConnInv, ClientsServed
  <2>3. j # k
    BY <2>1, <2>2 DEF Serves
  <2>4. QED
    BY <1>3, <2>1, <2>2, <2>3 DEF Serves
<1>8. \A sb \in subs : sb.k \in Conns
  BY DEF ConnInv, OwnedSubs, TypeInv, TypeOK, Subscriptions
<1>9. OwnedSubs'
  BY <1>1, <1>3, <1>8, SubsKept
<1>10. QED
  BY <1>1, <1>5, <1>6, <1>7, <1>9 DEF ConnInv, QueuedCalls

LEMMA StopServes ==
  ASSUME TypeInv, ConnInv, Restart \/ Crash
  PROVE  ConnInv'
<1> USE DEF natsVars, sessionVars, mqttVars, ghosts, storage
<1>1. CASE Restart
  <2>1. UNCHANGED <<conn, sm, client, subs, calls>>
    BY <1>1 DEF Restart
  <2>2. QED
    BY <2>1 DEF ConnInv, OneEach, ServedSession, ClientsServed, OwnedSubs, QueuedCalls,
                Owns, Serves
<1>2. CASE Crash
  <2>1. /\ \A k \in Conns : conn'[k].st = "free"
        /\ subs' = {} /\ calls' = {} /\ \A c \in ClientIds : client'[c].k = None
    BY <1>2 DEF Crash, Unused, TypeInv, TypeOK
  <2>2. QED
    BY <2>1 DEF ConnInv, OneEach, ServedSession, ClientsServed, OwnedSubs, QueuedCalls, Serves
<1>3. QED
  BY <1>1, <1>2

LEMMA ConnStep ==
  ASSUME Takeover = FALSE
  PROVE  TypeInv /\ NameInv /\ ConnInv /\ [Next]_vars => ConnInv'
<1> SUFFICES ASSUME TypeInv, NameInv, ConnInv, [Next]_vars PROVE ConnInv'
  OBVIOUS
<1>1. CASE UNCHANGED vars
  BY <1>1 DEF vars, ConnInv, OneEach, ServedSession, ClientsServed, OwnedSubs, QueuedCalls,
              Owns, Serves
<1>2. ASSUME NEW c \in ClientIds, MqttClient(c)
      PROVE  ConnInv'
  BY <1>2, ConnectServes, ClientServes DEF MqttClient
<1>3. CASE Next
  BY <1>2, <1>3, ReadLoopServes, DisconnectServes, RepliesServe, ServeEndsServes,
     StopServes DEF Next
<1>4. QED
  BY <1>1, <1>3

LEMMA Connected == ASSUME Takeover = FALSE PROVE Spec => []ConnInv
<1>1. Init => ConnInv
  BY DEF Init, ConnInv, OneEach, ServedSession, ClientsServed, OwnedSubs, QueuedCalls,
         Serves, Unused
<1>2. QED
  BY <1>1, Typed, Named, ConnStep, PTL DEF Spec

(* The reply to a publish finds the session of the publisher, if a client  *)
(* waits for its old connection to end before it connects again, and no    *)
(* client id has a dot: whoever connects, resumes, is refused or leaves in *)
(* between, and over restarts and crashes.                                 *)
THEOREM RepliesAreDelivered ==
  ASSUME Takeover = FALSE, Dotted = {}
  PROVE  Spec => RepliesFindTheirSession
<1>1. TypeInv /\ ConnInv /\ [Next]_vars =>
        [\A call \in calls :
            LET k == call.sub.k
            IN  ReplyCallback(call) /\ conn[k].st = "connected"
                /\ client[conn[k].cid].k = k => SessionFound(call.sub.subject)]_vars
  <2> SUFFICES ASSUME TypeInv, ConnInv, NEW call \in calls
               PROVE  SessionFound(call.sub.subject)
    OBVIOUS
  <2>1. call.sub.subject \in Subjects /\ call.sub \in subs
    BY DEF TypeInv, TypeOK, Subscriptions, ConnInv, QueuedCalls
  <2>2. sm[call.sub.subject.cid] = call.sub.subject.sid
    BY <2>1 DEF ConnInv, OwnedSubs, ServedSession, Owns, Subjects, TypeInv, TypeOK, Subscriptions
  <2>3. QED
    BY <2>1, <2>2, NilAssumption DEF SessionFound, ParseReplyTopic
<1>2. QED
  BY <1>1, Typed, Connected, PTL DEF Spec, RepliesFindTheirSession

-----------------------------------------------------------------------------

(* Before the bridge was restarted there is nothing to restore: neither in *)
(* a session nor in the file that is loaded after a crash.                 *)
NothingToRestore(ss) == \A i \in SessionIds, p \in PacketIds : ss[i].prelAwaitsAck[p] = None
RestoreInv ==
    /\ NothingToRestore(sess) /\ NothingToRestore(file.sess)
    /\ \A k \in Conns : conn[k].todo = {} /\ conn[k].at \in {"read", "subscribed", "requested"}

LEMMA OneConnRestores ==
  ASSUME TypeInv, RestoreInv, NEW k \in Conns, NEW cn, conn' = [conn EXCEPT ![k] = cn],
         cn.todo = {}, cn.at \in {"read", "subscribed", "requested"},
         UNCHANGED file, NothingToRestore(sess')
  PROVE  RestoreInv'
BY DEF TypeInv, TypeOK, RestoreInv

LEMMA ConnectRestores ==
  ASSUME TypeInv, RestoreInv,
         NEW c \in ClientIds, NEW k \in Conns, NEW clean \in CleanFlags,
         Connect(c, k, clean) \/ ConnectRefused(c, k, clean)
  PROVE  RestoreInv'
<1> USE DEF storage, sessionVars
<1>1. CASE Connect(c, k, clean)
  <2> DEFINE present == Resumes(c, clean)
             sid     == IF present THEN sm[c] ELSE seed + 1
             todo    == IF present THEN Restorable(sess[sid]) ELSE {}
             new     == [Unused EXCEPT !.st = "connected", !.cid = c, !.clean = clean,
                                       !.sid = sid, !.todo = todo,
                                       !.at = IF todo = {} THEN "read" ELSE "restore"]
  <2>1. /\ sid \in SessionIds /\ conn' = [conn EXCEPT ![k] = new] /\ file' = file
        /\ sess' = IF present THEN sess ELSE [sess EXCEPT ![sid] = NewSession(c)]
    BY <1>1 DEF Connect
  <2>2. todo = {}
    BY <2>1 DEF RestoreInv, NothingToRestore, Restorable
  <2>3. NothingToRestore(sess')
    BY <2>1 DEF RestoreInv, NothingToRestore, NewSession, TypeInv, TypeOK
  <2>4. new.todo = {} /\ new.at = "read"
    BY <2>2 DEF Unused
  <2> HIDE DEF new
  <2>5. QED
    BY <2>1, <2>3, <2>4, OneConnRestores
<1>2. CASE ConnectRefused(c, k, clean)
  <2> DEFINE new == [Unused EXCEPT !.st = "disconnected", !.cid = c, !.clean = clean]
  <2>1. conn' = [conn EXCEPT ![k] = new] /\ file' = file /\ sess' = sess
    BY <1>2 DEF ConnectRefused
  <2>2. new.todo = {} /\ new.at = "read"
    BY DEF Unused
  <2> HIDE DEF new
  <2>3. QED
    BY <2>1, <2>2, OneConnRestores DEF RestoreInv
<1>3. QED
  BY <1>1, <1>2

LEMMA ConnRestores ==
  ASSUME TypeInv, RestoreInv, NEW k \in Conns,
         \/ ReadLoop(k)
         \/ PublishSubscribeFails(k) \/ PublishRequestFails(k)
         \/ SetDisconnected(k)
  PROVE  RestoreInv'
<1> USE DEF storage, sessionVars
<1>0. /\ conn[k] \in Connection /\ HandlerOK(conn[k], sess)
      /\ conn[k].todo = {} /\ conn[k].at \in {"read", "subscribed", "requested"}
  BY DEF TypeInv, TypeOK, RestoreInv
<1>1. CASE IgnoreDuplicate(k)
  BY <1>1 DEF IgnoreDuplicate, RestoreInv
<1>2. CASE PublishSubscribe(k)
  <2> DEFINE pkt == Head(wire[k])
  <2>1. SubscribeAck(k, ReplyTopic(conn[k].sid, pkt), "subscribed", pkt) /\ UNCHANGED <<sess, file>>
    BY <1>2 DEF PublishSubscribe
  <2>2. PICK sb : conn' = [conn EXCEPT ![k].at = "subscribed", ![k].pkt = pkt, ![k].sub = sb]
    BY <2>1 DEF SubscribeAck
  <2> DEFINE cn == [conn[k] EXCEPT !.at = "subscribed", !.pkt = pkt, !.sub = sb]
  <2>3. conn' = [conn EXCEPT ![k] = cn]
    BY <2>2 DEF TypeInv, TypeOK
  <2>4. cn.todo = {} /\ cn.at = "subscribed"
    BY <1>0 DEF Connection
  <2> HIDE DEF cn
  <2>5. QED
    BY <2>1, <2>3, <2>4, OneConnRestores DEF RestoreInv
<1>3. CASE PublishAckRequested(k)
  <2> DEFINE s  == AckRequested(sess[conn[k].sid], conn[k].pkt.pid, conn[k].sub)
             cn == [conn[k] EXCEPT !.at = "requested"]
  <2>1. /\ conn[k].at = "subscribed" /\ conn' = [conn EXCEPT ![k] = cn] /\ file' = file
        /\ conn[k].sid \in SessionIds
    BY <1>0, <1>3 DEF PublishAckRequested, TypeInv, TypeOK, HandlerOK, Connection
  <2>2. sess' = [sess EXCEPT ![conn[k].sid] = s]
    BY <1>3, <2>1 DEF PublishAckRequested, TypeInv, TypeOK
  <2>3. s.prelAwaitsAck = sess[conn[k].sid].prelAwaitsAck
    BY <2>1 DEF AckRequested, TypeInv, TypeOK, Session
  <2> HIDE DEF s
  <2>4. NothingToRestore(sess')
    BY <2>1, <2>2, <2>3 DEF RestoreInv, NothingToRestore, TypeInv, TypeOK
  <2>5. cn.todo = {} /\ cn.at = "requested"
    BY <1>0 DEF Connection
  <2> HIDE DEF cn
  <2>6. QED
    BY <2>1, <2>4, <2>5, OneConnRestores
<1>4. CASE PublishRequest(k) \/ PublishRequestFails(k)
  <2>1. PICK st : /\ conn' = [conn EXCEPT ![k] = [HandlerDone(k) EXCEPT !.st = st]]
                  /\ UNCHANGED <<sess, file>>
    <3>1. HandlerDone(k) = [HandlerDone(k) EXCEPT !.st = conn[k].st]
      BY <1>0 DEF HandlerDone, Connection
    <3>2. QED
      BY <1>4, <3>1 DEF PublishRequest, PublishRequestFails
  <2> DEFINE cn == [HandlerDone(k) EXCEPT !.st = st]
  <2>2. cn.todo = {} /\ cn.at = "read"
    BY <1>0 DEF HandlerDone, Connection
  <2>3. conn' = [conn EXCEPT ![k] = cn]
    BY <2>1
  <2> HIDE DEF cn
  <2>4. QED
    BY <2>1, <2>2, <2>3, OneConnRestores DEF RestoreInv
<1>5. CASE PublishSubscribeFails(k) \/ SetDisconnected(k)
  <2> DEFINE cn == [conn[k] EXCEPT !.st = "disconnected"]
  <2>1. conn' = [conn EXCEPT ![k] = cn] /\ UNCHANGED <<sess, file>>
    BY <1>5 DEF PublishSubscribeFails, SetDisconnected, TypeInv, TypeOK
  <2>2. cn.todo = {} /\ cn.at = conn[k].at
    BY <1>0 DEF Connection
  <2> HIDE DEF cn
  <2>3. QED
    BY <1>0, <2>1, <2>2, OneConnRestores DEF RestoreInv
<1>6. /\ ~\E subject \in conn[k].todo :
            RestoreSubscribe(k, subject) \/ RestoreSubscribeFails(k, subject)
      /\ ~RestoreAckRequested(k)
  BY <1>0 DEF RestoreAckRequested
<1>7. QED
  BY <1>1, <1>2, <1>3, <1>4, <1>5, <1>6 DEF ReadLoop

LEMMA ReplyCallbackRestores ==
  ASSUME TypeInv, RestoreInv, NEW call \in calls, ReplyCallback(call)
  PROVE  RestoreInv'
<1> USE DEF storage, sessionVars
<1> DEFINE sid == call.sub.subject.sid
           p   == call.sub.subject.pid
<1>1. /\ UNCHANGED <<conn, file>>
      /\ sess' = sess \/ sess' = [sess EXCEPT ![sid].awaitsAck[p] = None]
  BY DEF ReplyCallback
<1> HIDE DEF sid, p
<1>2. \A i \in SessionIds : sess'[i].prelAwaitsAck = sess[i].prelAwaitsAck
  <2> DEFINE new == [sess[sid] EXCEPT !.awaitsAck[p] = None]
  <2>1. sess \in [SessionIds -> Session]
    BY DEF TypeInv, TypeOK
  <2>2. sid \in SessionIds => new.prelAwaitsAck = sess[sid].prelAwaitsAck
    BY <2>1 DEF Session
  <2>3. sess' = sess \/ sess' = [sess EXCEPT ![sid] = new]
    BY <1>1
  <2> HIDE DEF new
  <2>4. QED
    BY <2>1, <2>2, <2>3
<1>3. QED
  BY <1>1, <1>2 DEF RestoreInv, NothingToRestore

LEMMA ServeEndsRestores ==
  ASSUME TypeInv, RestoreInv, NEW k \in Conns, ServeEnds(k)
  PROVE  RestoreInv'
<1> USE DEF storage
<1> DEFINE gone == Removed(k)
           c    == conn[k].cid
<1>1. /\ conn' = [conn EXCEPT ![k] = Unused] /\ file' = file
      /\ sess' = [i \in SessionIds |-> IF i = gone THEN NewSession(c) ELSE Closed(sess[i], k)]
  BY DEF ServeEnds
<1> HIDE DEF gone, c
<1>2. \A i \in SessionIds : Closed(sess[i], k).prelAwaitsAck = sess[i].prelAwaitsAck
  BY DEF Closed, TypeInv, TypeOK, Session
<1>3. \A p \in PacketIds : NewSession(c).prelAwaitsAck[p] = None
  BY DEF NewSession
<1>4. NothingToRestore(sess')
  BY <1>1, <1>2, <1>3 DEF RestoreInv, NothingToRestore
<1>5. Unused.todo = {} /\ Unused.at = "read"
  BY DEF Unused
<1>6. QED
  BY <1>1, <1>4, <1>5, OneConnRestores

LEMMA RestoreStep ==
  TypeInv /\ RestoreInv /\ [Next]_vars /\ stops'.restarts = 0 => RestoreInv'
<1> SUFFICES ASSUME TypeInv, RestoreInv, [Next]_vars, stops'.restarts = 0 PROVE RestoreInv'
  OBVIOUS
<1> USE DEF storage, sessionVars
<1>1. CASE UNCHANGED vars
  BY <1>1 DEF vars, RestoreInv
<1>2. ASSUME NEW c \in ClientIds, MqttClient(c)
      PROVE  RestoreInv'
  <2>1. CASE (\E p \in PacketIds : Publish(c, p)) \/ ReceivePubAck(c) \/ ClientDrops(c)
    <3>1. UNCHANGED <<conn, sess, file>>
      BY <2>1 DEF Publish, ReceivePubAck, ClientDrops
    <3>2. QED
      BY <3>1 DEF RestoreInv
  <2>2. QED
    BY <1>2, <2>1, ConnectRestores DEF MqttClient
<1>3. ASSUME NEW r \in requests, Reply(r)
      PROVE  RestoreInv'
  <2>1. UNCHANGED <<conn, sess, file>>
    BY <1>3 DEF Reply
  <2>2. QED
    BY <2>1 DEF RestoreInv
<1>4. ~Restart
  <2>1. Restart => stops'.restarts = stops.restarts + 1 /\ stops.restarts \in Nat
    BY BoundsAssumption DEF Restart, TypeInv, TypeOK
  <2>2. QED
    BY <2>1
<1>5. CASE Crash
  BY <1>5 DEF Crash, RestoreInv, Unused
<1>6. CASE Next
  BY <1>2, <1>3, <1>4, <1>5, <1>6, ConnRestores, ReplyCallbackRestores, ServeEndsRestores
     DEF Next
<1>7. QED
  BY <1>1, <1>6

(* The count of stops only grows.                                          *)
LEMMA StopsGrow ==
  TypeInv /\ [Next]_vars => /\ stops'.restarts = 0 => stops.restarts = 0
                            /\ stops'.crashes = 0 => stops.crashes = 0
<1> SUFFICES ASSUME TypeInv, [Next]_vars
             PROVE  /\ stops'.restarts = 0 => stops.restarts = 0
                    /\ stops'.crashes = 0 => stops.crashes = 0
  OBVIOUS
<1>1. stops \in [restarts : Nat, crashes : Nat]
  BY BoundsAssumption DEF TypeInv, TypeOK
<1>2. CASE Restart
  BY <1>1, <1>2 DEF Restart
<1>3. CASE Crash
  BY <1>1, <1>3 DEF Crash
<1>4. \/ stops' = stops
      \/ Restart \/ Crash
  <2>1. ASSUME NEW c \in ClientIds, MqttClient(c)
        PROVE  stops' = stops
    BY <2>1 DEF MqttClient, Connect, ConnectRefused, Publish, ReceivePubAck, ClientDrops, storage
  <2>2. ASSUME NEW k \in Conns, ReadLoop(k)
        PROVE  stops' = stops
    BY <2>2 DEF ReadLoop, RestoreSubscribe, RestoreAckRequested, RestoreSubscribeFails,
                RestoreGoesOn, IgnoreDuplicate,
                PublishSubscribe, PublishAckRequested, PublishRequest, storage
  <2>3. ASSUME NEW k \in Conns,
               \/ PublishSubscribeFails(k) \/ PublishRequestFails(k)
               \/ SetDisconnected(k)
               \/ ServeEnds(k)
        PROVE  stops' = stops
    BY <2>3 DEF PublishSubscribeFails, PublishRequestFails, SetDisconnected, ServeEnds, storage
  <2>4. ASSUME (\E r \in requests : Reply(r)) \/ (\E call \in calls : ReplyCallback(call))
        PROVE  stops' = stops
    BY <2>4 DEF Reply, ReplyCallback, storage
  <2> QED
    BY <2>1, <2>2, <2>3, <2>4 DEF Next, vars
<1>5. QED
  BY <1>2, <1>3, <1>4

LEMMA Restored == Spec => [](stops.restarts = 0 => RestoreInv)
<1>1. Init => RestoreInv
  BY DEF Init, RestoreInv, NothingToRestore, NewSession, Unused
<1>2. /\ stops.restarts = 0 => RestoreInv
      /\ TypeInv /\ [Next]_vars
      => (stops.restarts = 0 => RestoreInv)'
  BY RestoreStep, StopsGrow
<1>3. QED
  BY <1>1, <1>2, Typed, PTL DEF Spec

(* A session that stays registered when a connection ends is not the one   *)
(* that is removed.                                                        *)
LEMMA EndKeeps ==
  ASSUME TypeInv, NameInv, NEW k \in Conns, ServeEnds(k),
         NEW c \in ClientIds, sm[c] # 0, sm'[c] = sm[c]
  PROVE  sess'[sm[c]] = Closed(sess[sm[c]], k)
<1> DEFINE i    == sm[c]
           gone == Removed(k)
           d    == conn[k].cid
<1>0. i \in SessionIds /\ sess[i].cid = c /\ i # 0
  BY DEF TypeInv, TypeOK, NameInv, SessionsOK
<1>1. /\ sm' = IF gone = 0 THEN sm ELSE [sm EXCEPT ![d] = 0]
      /\ sess' = [j \in SessionIds |-> IF j = gone THEN NewSession(d) ELSE Closed(sess[j], k)]
      /\ d \in ClientIds /\ gone \in {0, sm[d]}
  BY DEF ServeEnds, TypeInv, HandlerOK, Removed
<1>2. sm'[c] = i /\ i = sm[c]
  OBVIOUS
<1> HIDE DEF gone, d, i
<1>3. gone # i
  <2> SUFFICES ASSUME gone = i PROVE FALSE
    OBVIOUS
  <2>1. gone = sm[d] /\ gone # 0
    BY <1>0, <1>1
  <2>2. sess[sm[d]].cid = d
    BY <1>1, <2>1 DEF NameInv, SessionsOK
  <2>3. d = c
    BY <1>0, <2>1, <2>2
  <2>4. sm'[c] = 0
    BY <1>1, <2>1, <2>3 DEF TypeInv, TypeOK
  <2>5. QED
    BY <1>0, <1>2, <2>4
<1>4. QED
  BY <1>0, <1>1, <1>2, <1>3

(* A subscription that a session awaits a reply to is remembered after a   *)
(* step, unless the reply is handled or the session is gone.               *)
LEMMA EntryKept ==
  ASSUME TypeInv, NameInv, [Next]_vars, ~Restart, ~Crash,
         NEW c \in ClientIds, NEW p \in PacketIds, sm[c] # 0, sess[sm[c]].awaitsAck[p] # None,
         sm'[c] = sm[c]
  PROVE  \/ sess'[sm[c]].awaitsAck[p] # None
         \/ \E call \in calls : call.sub.subject.pid = p /\ ReplyCallback(call)
<1> USE DEF sessionVars, storage
<1> DEFINE i == sm[c]
<1>0. /\ sess \in [SessionIds -> Session] /\ i \in SessionIds /\ sess[i].cid = c /\ i <= seed
      /\ sess[i].awaitsAck[p] # None /\ i # 0
      /\ sess[i].awaitsAck[p] \in Subscriptions
  BY DEF TypeInv, TypeOK, NameInv, SessionsOK, Session, SubscriptionOrNone
<1>a. i = sm[c] /\ sm'[c] = i
  OBVIOUS
<1> HIDE DEF i
<1> SUFFICES \/ sess'[i].awaitsAck[p] # None
             \/ \E call \in calls : call.sub.subject.pid = p /\ ReplyCallback(call)
  BY <1>a
<1>1. CASE sess' = sess
  BY <1>0, <1>1
<1>2. ASSUME NEW d \in ClientIds, NEW k \in Conns, NEW clean \in CleanFlags,
             Connect(d, k, clean)
      PROVE  sess'[i].awaitsAck[p] # None
  <2>1. sess' = sess \/ (seed + 1 \in SessionIds /\ sess' = [sess EXCEPT ![seed + 1] = NewSession(d)])
    BY <1>2 DEF Connect
  <2>2. seed + 1 # i
    BY <1>0 DEF TypeInv, TypeOK, SessionIds
  <2>3. QED
    BY <1>0, <2>1, <2>2
<1>3. ASSUME NEW k \in Conns, PublishAckRequested(k)
      PROVE  sess'[i].awaitsAck[p] # None
  <2> DEFINE s == AckRequested(sess[conn[k].sid], conn[k].pkt.pid, conn[k].sub)
  <2>1. conn[k].at = "subscribed"
    BY <1>3 DEF PublishAckRequested
  <2>2. conn[k].sid \in SessionIds /\ conn[k].sub \in Subscriptions
    BY <2>1 DEF TypeInv, TypeOK, HandlerOK, Connection
  <2>3. sess' = [sess EXCEPT ![conn[k].sid] = s]
    BY <1>0, <1>3, <2>2 DEF PublishAckRequested
  <2>4. sess[conn[k].sid].awaitsAck[p] # None => s.awaitsAck[p] # None
    <3>1. sess[conn[k].sid].awaitsAck \in [PacketIds -> SubscriptionOrNone]
      BY <1>0, <2>2 DEF Session
    <3>2. QED
      BY <1>0, <2>2, <3>1, NilAssumption DEF AckRequested, Session
  <2> HIDE DEF s
  <2>5. QED
    BY <1>0, <2>2, <2>3, <2>4
<1>4. ASSUME NEW call \in calls, ReplyCallback(call), call.sub.subject.pid # p
      PROVE  sess'[i].awaitsAck[p] # None
  <2> DEFINE sid == call.sub.subject.sid
             q   == call.sub.subject.pid
             new == [sess[sid] EXCEPT !.awaitsAck[q] = None]
  <2>1. sess' = sess \/ sess' = [sess EXCEPT ![sid] = new]
    BY <1>0, <1>4 DEF ReplyCallback
  <2>2. q # p
    BY <1>4
  <2>3. sid \in SessionIds => new.awaitsAck[p] = sess[sid].awaitsAck[p]
    BY <1>0, <2>2 DEF Session
  <2> HIDE DEF sid, new
  <2>4. QED
    BY <1>0, <2>1, <2>3
<1>5. ASSUME NEW k \in Conns, ServeEnds(k)
      PROVE  sess'[i].awaitsAck[p] # None
  <2>1. sess'[i] = Closed(sess[i], k)
    BY <1>0, <1>a, <1>5, EndKeeps
  <2>2. Closed(sess[i], k).awaitsAck[p] =
           IF sess[i].awaitsAck[p].k = k
           THEN [sess[i].awaitsAck[p] EXCEPT !.k = None, !.n = 0] ELSE sess[i].awaitsAck[p]
    BY <1>0 DEF Closed, Session
  <2>3. [sess[i].awaitsAck[p] EXCEPT !.k = None, !.n = 0] \in Subscriptions
    <3>1. 0 \in Copies
      BY DEF Copies
    <3>2. QED
      BY <1>0, <3>1 DEF Subscriptions
  <2>4. QED
    BY <1>0, <2>1, <2>2, <2>3, NilAssumption
<1>6. ASSUME NEW k \in Conns,
             \/ RestoreAckRequested(k)
             \/ \E subject \in conn[k].todo : RestoreSubscribeFails(k, subject)
      PROVE  sess'[i].awaitsAck[p] # None
  <2>1. conn[k].at \in {"restore", "restored"}
    BY <1>6 DEF RestoreAckRequested, RestoreSubscribeFails
  <2>2. /\ conn[k].sid \in SessionIds
        /\ conn[k].at = "restored" => conn[k].sub \in Subscriptions
    BY <2>1 DEF TypeInv, TypeOK, HandlerOK, Connection
  <2>3. PICK s : /\ \/ s = sess[conn[k].sid]
                    \/ /\ s = AckRequested(sess[conn[k].sid], conn[k].pkt.pid, conn[k].sub)
                       /\ conn[k].at = "restored"
                 /\ \E left : RestoreGoesOn(k, s, left)
    BY <1>6 DEF RestoreAckRequested, RestoreSubscribeFails
  <2>4. s \in [cid : ClientIds \cup {None}, awaitsAck : [PacketIds -> SubscriptionOrNone],
               prelAwaitsAck : [PacketIds -> Subjects \cup {None}]]
        /\ (sess[conn[k].sid].awaitsAck[p] # None => s.awaitsAck[p] # None)
    <3>1. sess[conn[k].sid] \in Session
      BY <1>0, <2>2
    <3>2. CASE s = sess[conn[k].sid]
      BY <3>1, <3>2 DEF Session
    <3>3. CASE s = AckRequested(sess[conn[k].sid], conn[k].pkt.pid, conn[k].sub)
               /\ conn[k].sub \in Subscriptions
      BY <3>1, <3>3, NilAssumption DEF AckRequested, Session, SubscriptionOrNone
    <3>4. QED
      BY <2>2, <2>3, <3>2, <3>3
  <2>5. PICK t : sess' = [sess EXCEPT ![conn[k].sid] = t] /\ t.awaitsAck = s.awaitsAck
    <3> DEFINE cleared == [s EXCEPT !.prelAwaitsAck = [q \in PacketIds |-> None]]
    <3>1. cleared.awaitsAck = s.awaitsAck
      BY <2>4
    <3>2. PICK left : sess' = [sess EXCEPT ![conn[k].sid] = IF left # {} THEN s ELSE cleared]
      BY <2>3 DEF RestoreGoesOn
    <3> HIDE DEF cleared
    <3>3. QED
      BY <3>1, <3>2
  <2>6. QED
    BY <1>0, <2>2, <2>4, <2>5
<1>7. ASSUME NEW k \in Conns, ReadLoop(k)
      PROVE  \/ sess' = sess \/ PublishAckRequested(k) \/ RestoreAckRequested(k)
             \/ \E subject \in conn[k].todo : RestoreSubscribeFails(k, subject)
  BY <1>7 DEF ReadLoop, RestoreSubscribe, IgnoreDuplicate, PublishSubscribe, PublishRequest
<1>8. ASSUME NEW d \in ClientIds, MqttClient(d)
      PROVE  \/ sess' = sess
             \/ \E k \in Conns, clean \in CleanFlags : Connect(d, k, clean)
  BY <1>8 DEF MqttClient, ConnectRefused, Publish, ReceivePubAck, ClientDrops
<1>9. ASSUME NEW k \in Conns,
             PublishSubscribeFails(k) \/ PublishRequestFails(k) \/ SetDisconnected(k)
      PROVE  sess' = sess
  BY <1>9 DEF PublishSubscribeFails, PublishRequestFails, SetDisconnected
<1>10. ASSUME NEW r \in requests, Reply(r)
       PROVE  sess' = sess
  BY <1>10 DEF Reply
<1>11. UNCHANGED vars => sess' = sess
  BY DEF vars
<1>12. CASE Next
  BY <1>1, <1>2, <1>3, <1>4, <1>5, <1>6, <1>7, <1>8, <1>9, <1>10, <1>12 DEF Next
<1>13. QED
  BY <1>1, <1>11, <1>12

-----------------------------------------------------------------------------

(* What was loaded for a packet id remains to be restored after a step that *)
(* leaves it in the session, and in the hands of who restores the session.  *)
LEMMA StillToRestore ==
  ASSUME NEW i, NEW p, ToRestore(i, p),
         sess'[i].prelAwaitsAck[p] = sess[i].prelAwaitsAck[p],
         \A k \in Conns : Restoring(k, i)' =>
            \/ Restoring(k, i) /\ conn'[k].todo = conn[k].todo
            \/ sess[i].prelAwaitsAck[p] \in conn'[k].todo
  PROVE  ToRestore(i, p)'
BY DEF ToRestore

LEMMA ConnectToRestore ==
  ASSUME TypeInv, NEW i \in SessionIds, i <= seed, NEW p \in PacketIds, ToRestore(i, p),
         NEW d \in ClientIds, NEW k \in Conns, NEW clean \in CleanFlags,
         Connect(d, k, clean) \/ ConnectRefused(d, k, clean)
  PROVE  ToRestore(i, p)'
<1>0. conn \in [Conns -> Connection] /\ seed \in Nat /\ sess \in [SessionIds -> Session]
  BY DEF TypeInv, TypeOK, SessionIds
<1>1. CASE Connect(d, k, clean)
  <2>1. PICK sid, todo :
          /\ sid \in SessionIds
          /\ \/ sid = seed + 1 /\ todo = {} /\ sess' = [sess EXCEPT ![sid] = NewSession(d)]
             \/ todo = Restorable(sess[sid]) /\ sess' = sess
          /\ conn' = [conn EXCEPT ![k] =
                        [Unused EXCEPT !.st = "connected", !.cid = d, !.clean = clean,
                                       !.sid = sid, !.todo = todo,
                                       !.at = IF todo = {} THEN "read" ELSE "restore"]]
    BY <1>1 DEF Connect
  <2>2. PICK cn : /\ conn' = [conn EXCEPT ![k] = cn] /\ cn.sid = sid /\ cn.todo = todo
                  /\ cn.at = IF todo = {} THEN "read" ELSE "restore"
    <3> DEFINE new == [Unused EXCEPT !.st = "connected", !.cid = d, !.clean = clean,
                                     !.sid = sid, !.todo = todo,
                                     !.at = IF todo = {} THEN "read" ELSE "restore"]
    <3>1. /\ new.sid = sid /\ new.todo = todo
          /\ new.at = IF todo = {} THEN "read" ELSE "restore"
      BY DEF Unused
    <3>2. conn' = [conn EXCEPT ![k] = new]
      BY <2>1
    <3> HIDE DEF new
    <3>3. QED
      BY <3>1, <3>2
  <2>3. sess'[i] = sess[i]
    BY <1>0, <2>1
  <2>4. ASSUME NEW j \in Conns, Restoring(j, i)'
        PROVE  \/ Restoring(j, i) /\ conn'[j].todo = conn[j].todo
               \/ sess[i].prelAwaitsAck[p] \in conn'[j].todo
    <3>1. CASE j # k
      BY <1>0, <2>2, <2>4, <3>1 DEF Restoring
    <3>2. CASE j = k
      <4>1. sid = i /\ todo # {} /\ conn'[j].todo = todo
        BY <1>0, <2>2, <2>4, <3>2 DEF Restoring
      <4>2. todo = Restorable(sess[i])
        BY <2>1, <4>1
      <4>3. QED
        BY <4>1, <4>2 DEF Restorable, ToRestore
    <3>3. QED
      BY <3>1, <3>2
  <2>5. QED
    BY <2>3, <2>4, StillToRestore
<1>2. CASE ConnectRefused(d, k, clean)
  <2>1. sess' = sess /\ \A j \in Conns : conn'[j] = conn[j] \/ conn'[j].at = "read"
    BY <1>0, <1>2 DEF ConnectRefused, Unused, sessionVars
  <2>2. \A j \in Conns : Restoring(j, i)' => Restoring(j, i) /\ conn'[j].todo = conn[j].todo
    BY <2>1 DEF Restoring
  <2>3. QED
    BY <2>1, <2>2, StillToRestore
<1>3. QED
  BY <1>1, <1>2

(* The loop goes on, with an entry remembered or given up.                 *)
LEMMA GoesOnToRestore ==
  ASSUME TypeInv, NameInv, NEW i \in SessionIds, NEW p \in PacketIds, ToRestore(i, p),
         NEW k \in Conns,
         \/ RestoreAckRequested(k)
         \/ \E subject \in conn[k].todo : RestoreSubscribeFails(k, subject)
  PROVE  \/ ToRestore(i, p)' \/ sess'[i].awaitsAck[p] # None
         \/ \E subject \in conn[k].todo : subject.pid = p /\ RestoreSubscribeFails(k, subject)
<1>0. /\ conn \in [Conns -> Connection] /\ sess \in [SessionIds -> Session]
      /\ conn[k].at \in {"restore", "restored"} /\ conn[k].sid \in SessionIds
      /\ ConnOK(conn[k], seed, sess)
  <2>1. conn[k].at \in {"restore", "restored"}
    BY DEF RestoreAckRequested, RestoreSubscribeFails
  <2>2. QED
    BY <2>1 DEF TypeInv, TypeOK, HandlerOK, Connection, NameInv
<1> DEFINE x == sess[i].prelAwaitsAck[p]
<1>1. x # None /\ x.pid = p
  BY DEF ToRestore, NameInv, SessionsOK
<1>2. PICK s, y :
         /\ \/ s = sess[conn[k].sid] /\ RestoreSubscribeFails(k, y) /\ y \in conn[k].todo
            \/ /\ s = AckRequested(sess[conn[k].sid], conn[k].pkt.pid, conn[k].sub)
               /\ y = conn[k].sub.subject /\ conn[k].at = "restored"
         /\ RestoreGoesOn(k, s, conn[k].todo \ {y})
  BY DEF RestoreAckRequested, RestoreSubscribeFails
<1>3. /\ s \in [cid : ClientIds \cup {None}, awaitsAck : [PacketIds -> SubscriptionOrNone],
                prelAwaitsAck : [PacketIds -> Subjects \cup {None}]]
      /\ s.prelAwaitsAck = sess[conn[k].sid].prelAwaitsAck
  <2>1. sess[conn[k].sid] \in Session
    BY <1>0
  <2>2. conn[k].at = "restored" => conn[k].sub \in Subscriptions /\ conn[k].pkt.pid \in PacketIds
    BY <1>0 DEF TypeInv, HandlerOK, Packets
  <2>3. CASE s = sess[conn[k].sid]
    BY <2>1, <2>3 DEF Session
  <2>4. CASE /\ s = AckRequested(sess[conn[k].sid], conn[k].pkt.pid, conn[k].sub)
             /\ conn[k].sub \in Subscriptions
    BY <2>1, <2>4 DEF AckRequested, Session, SubscriptionOrNone
  <2>5. QED
    BY <1>2, <2>2, <2>3, <2>4
<1>4. /\ \A j \in Conns : j # k => conn'[j] = conn[j]
      /\ conn'[k].sid = conn[k].sid /\ conn'[k].todo = conn[k].todo \ {y}
  BY <1>0, <1>2 DEF RestoreGoesOn, Connection
<1>5. /\ \A j \in SessionIds : j # conn[k].sid => sess'[j] = sess[j]
      /\ conn[k].todo \ {y} # {} => sess'[conn[k].sid] = s
      /\ sess'[conn[k].sid].awaitsAck = s.awaitsAck
  <2> DEFINE cleared == [s EXCEPT !.prelAwaitsAck = [q \in PacketIds |-> None]]
  <2>1. cleared.awaitsAck = s.awaitsAck
    BY <1>3
  <2>2. sess' = [sess EXCEPT ![conn[k].sid] = IF conn[k].todo \ {y} # {} THEN s ELSE cleared]
    BY <1>2 DEF RestoreGoesOn
  <2> HIDE DEF cleared
  <2>3. QED
    BY <1>0, <2>1, <2>2
<1>6. CASE conn[k].sid # i
  <2>1. \A j \in Conns : Restoring(j, i)' => Restoring(j, i) /\ conn'[j].todo = conn[j].todo
    BY <1>4, <1>6 DEF Restoring
  <2>2. QED
    BY <1>5, <1>6, <2>1, StillToRestore
<1>7. CASE conn[k].sid = i /\ y.pid = p
  <2>1. CASE RestoreSubscribeFails(k, y) /\ y \in conn[k].todo
    BY <1>7, <2>1
  <2>2. CASE /\ s = AckRequested(sess[conn[k].sid], conn[k].pkt.pid, conn[k].sub)
             /\ y = conn[k].sub.subject /\ conn[k].at = "restored"
    <3>1. conn[k].pkt.pid = p
      BY <1>0, <1>7, <2>2 DEF ConnOK
    <3>2. conn[k].sub \in Subscriptions
      BY <2>2 DEF TypeInv, HandlerOK
    <3>3. sess[i].awaitsAck \in [PacketIds -> SubscriptionOrNone] /\ sess[i] \in Session
      BY <1>0 DEF Session
    <3>4. s.awaitsAck = [sess[i].awaitsAck EXCEPT ![p] = conn[k].sub]
      BY <1>7, <2>2, <3>1, <3>3 DEF AckRequested, Session
    <3>5. s.awaitsAck[p] = conn[k].sub
      BY <3>3, <3>4
    <3>6. QED
      BY <1>5, <1>7, <3>2, <3>5, NilAssumption
  <2>3. QED
    BY <1>2, <2>1, <2>2
<1>8. CASE conn[k].sid = i /\ y.pid # p
  <2>1. x \in conn[k].todo
    BY <1>0, <1>8 DEF ToRestore, Restoring
  <2>2. x \in conn[k].todo \ {y}
    BY <1>1, <1>8, <2>1
  <2>3. sess'[i].prelAwaitsAck[p] = sess[i].prelAwaitsAck[p]
    BY <1>3, <1>5, <1>8, <2>2
  <2>4. \A j \in Conns : Restoring(j, i)' =>
           (Restoring(j, i) /\ conn'[j].todo = conn[j].todo) \/ x \in conn'[j].todo
    BY <1>4, <2>2 DEF Restoring
  <2>5. QED
    BY <2>3, <2>4, StillToRestore
<1>9. QED
  BY <1>6, <1>7, <1>8

(* Packets that are read, errors and disconnections.                       *)
LEMMA ReadToRestore ==
  ASSUME TypeInv, NEW i \in SessionIds, NEW p \in PacketIds, ToRestore(i, p), NEW k \in Conns,
         \/ \E subject \in conn[k].todo : RestoreSubscribe(k, subject)
         \/ IgnoreDuplicate(k) \/ PublishSubscribe(k) \/ PublishAckRequested(k)
         \/ PublishRequest(k) \/ PublishSubscribeFails(k) \/ PublishRequestFails(k)
         \/ SetDisconnected(k)
  PROVE  ToRestore(i, p)'
<1> USE DEF sessionVars
<1>0. /\ conn \in [Conns -> Connection] /\ sess \in [SessionIds -> Session]
      /\ conn[k] \in Connection /\ HandlerOK(conn[k], sess)
  BY DEF TypeInv, TypeOK
<1>1. sess'[i].prelAwaitsAck[p] = sess[i].prelAwaitsAck[p]
  <2>1. CASE PublishAckRequested(k)
    <3> DEFINE s == AckRequested(sess[conn[k].sid], conn[k].pkt.pid, conn[k].sub)
    <3>1. conn[k].sid \in SessionIds
      BY <1>0, <2>1 DEF PublishAckRequested, HandlerOK, Connection
    <3>2. sess' = [sess EXCEPT ![conn[k].sid] = s]
      BY <1>0, <2>1, <3>1 DEF PublishAckRequested
    <3>3. s.prelAwaitsAck = sess[conn[k].sid].prelAwaitsAck
      BY <1>0, <3>1 DEF AckRequested, Session
    <3> HIDE DEF s
    <3>4. QED
      BY <1>0, <3>1, <3>2, <3>3
  <2>2. ~PublishAckRequested(k) => sess' = sess
    BY DEF RestoreSubscribe, IgnoreDuplicate, PublishSubscribe, PublishRequest,
           PublishSubscribeFails, PublishRequestFails, SetDisconnected
  <2>3. QED
    BY <2>1, <2>2
<1>2. ASSUME NEW j \in Conns, Restoring(j, i)'
      PROVE  Restoring(j, i) /\ conn'[j].todo = conn[j].todo
  <2>1. CASE \/ (\E subject \in conn[k].todo : RestoreSubscribe(k, subject))
             \/ PublishSubscribe(k)
    <3>1. PICK at, pkt, subject : /\ SubscribeAck(k, subject, at, pkt)
                                  /\ at = "subscribed" \/ conn[k].at = "restore"
      BY <2>1 DEF RestoreSubscribe, PublishSubscribe
    <3>2. PICK sb : conn' = [conn EXCEPT ![k].at = at, ![k].pkt = pkt, ![k].sub = sb]
      BY <3>1 DEF SubscribeAck
    <3>3. QED
      BY <1>0, <1>2, <3>1, <3>2 DEF Restoring, Connection
  <2>2. CASE PublishAckRequested(k) \/ PublishSubscribeFails(k) \/ SetDisconnected(k)
    BY <1>0, <1>2, <2>2 DEF PublishAckRequested, PublishSubscribeFails, SetDisconnected,
                            Restoring, Connection
  <2>3. CASE PublishRequest(k) \/ PublishRequestFails(k)
    <3>1. PICK cn : conn' = [conn EXCEPT ![k] = cn] /\ cn.at = "read"
      <4>1. HandlerDone(k) \in [st : {"free", "connected", "disconnected"}, cid : ClientIds \cup {None},
               clean : BOOLEAN, sid : SessionIds \cup {0}, at : {"read"}, todo : SUBSET Subjects,
               pkt : {None}, sub : {None}]
        BY <1>0 DEF HandlerDone, Connection
      <4>2. QED
        BY <2>3, <4>1 DEF PublishRequest, PublishRequestFails
    <3>2. QED
      BY <1>0, <1>2, <3>1 DEF Restoring
  <2>4. CASE IgnoreDuplicate(k)
    BY <1>2, <2>4 DEF IgnoreDuplicate, Restoring
  <2>5. QED
    BY <2>1, <2>2, <2>3, <2>4
<1>3. QED
  BY <1>1, <1>2, StillToRestore

LEMMA EndToRestore ==
  ASSUME TypeInv, NameInv, NEW k \in Conns, ServeEnds(k),
         NEW c \in ClientIds, sm[c] # 0, sm'[c] = sm[c],
         NEW p \in PacketIds, ToRestore(sm[c], p)
  PROVE  ToRestore(sm[c], p)'
<1>1. PICK i \in SessionIds : i = sm[c]
  BY DEF TypeInv, TypeOK
<1>2. sess'[i] = Closed(sess[i], k)
  BY <1>1, EndKeeps
<1>3. sess'[i].prelAwaitsAck[p] = sess[i].prelAwaitsAck[p]
  <2>1. sess[i] \in Session
    BY DEF TypeInv, TypeOK
  <2>2. Closed(sess[i], k).prelAwaitsAck = sess[i].prelAwaitsAck
    BY <2>1 DEF Closed, Session
  <2>3. QED
    BY <1>2, <2>2
<1>4. \A j \in Conns : conn'[j] = conn[j] \/ conn'[j].at = "read"
  BY DEF ServeEnds, Unused, TypeInv, TypeOK
<1>5. \A j \in Conns : Restoring(j, i)' => Restoring(j, i) /\ conn'[j].todo = conn[j].todo
  BY <1>4 DEF Restoring
<1>6. ToRestore(i, p)'
  BY <1>1, <1>3, <1>5, StillToRestore
<1>7. QED
  BY <1>1, <1>6

(* What was loaded for a packet id is restored, given up after an error of *)
(* NATS, or still to be restored after a step.                             *)
LEMMA ToRestoreKept ==
  ASSUME TypeInv, NameInv, [Next]_vars, ~Restart, ~Crash,
         NEW c \in ClientIds, NEW p \in PacketIds, sm[c] # 0, sm'[c] = sm[c],
         ToRestore(sm[c], p)
  PROVE  \/ (Awaited(sm[c], p))'
         \/ \E k \in Conns : \E subject \in conn[k].todo :
               subject.pid = p /\ RestoreSubscribeFails(k, subject)
<1> USE DEF sessionVars
<1>1. PICK i \in SessionIds : i = sm[c] /\ sm'[c] = i /\ ToRestore(i, p) /\ i <= seed
  BY DEF TypeInv, TypeOK, NameInv, SessionsOK
<1> SUFFICES \/ ToRestore(i, p)' \/ sess'[i].awaitsAck[p] # None
             \/ \E k \in Conns : \E subject \in conn[k].todo :
                  subject.pid = p /\ RestoreSubscribeFails(k, subject)
  BY <1>1 DEF Awaited
<1>2. CASE UNCHANGED <<conn, sess>>
  <2>1. \A j \in Conns : Restoring(j, i)' => Restoring(j, i) /\ conn'[j].todo = conn[j].todo
    BY <1>2 DEF Restoring
  <2>2. QED
    BY <1>1, <1>2, <2>1, StillToRestore
<1>3. ASSUME NEW d \in ClientIds, MqttClient(d)
      PROVE  UNCHANGED <<conn, sess>> \/ ToRestore(i, p)'
  BY <1>1, <1>3, ConnectToRestore DEF MqttClient, Publish, ReceivePubAck, ClientDrops
<1>4. ASSUME NEW k \in Conns,
             ReadLoop(k) \/ PublishSubscribeFails(k) \/ PublishRequestFails(k) \/ SetDisconnected(k)
      PROVE  \/ ToRestore(i, p)' \/ sess'[i].awaitsAck[p] # None
             \/ \E subject \in conn[k].todo : subject.pid = p /\ RestoreSubscribeFails(k, subject)
  BY <1>1, <1>4, GoesOnToRestore, ReadToRestore DEF ReadLoop
<1>5. ASSUME NEW k \in Conns, ServeEnds(k)
      PROVE  ToRestore(i, p)'
  <2>1. ToRestore(sm[c], p)'
    BY <1>1, <1>5, EndToRestore
  <2>2. QED
    BY <1>1, <2>1
<1>6. ASSUME NEW r \in requests, Reply(r)
      PROVE  UNCHANGED <<conn, sess>>
  BY <1>6 DEF Reply
<1>7. ASSUME NEW call \in calls, ReplyCallback(call)
      PROVE  ToRestore(i, p)'
  <2> DEFINE sid == call.sub.subject.sid
             q   == call.sub.subject.pid
             new == [sess[sid] EXCEPT !.awaitsAck[q] = None]
  <2>0. sess \in [SessionIds -> Session]
    BY DEF TypeInv, TypeOK
  <2>1. conn' = conn /\ (sess' = sess \/ sess' = [sess EXCEPT ![sid] = new])
    BY <1>7, <2>0 DEF ReplyCallback
  <2>2. sid \in SessionIds => new.prelAwaitsAck = sess[sid].prelAwaitsAck
    BY <2>0 DEF Session
  <2> HIDE DEF sid, new
  <2>3. sess'[i].prelAwaitsAck[p] = sess[i].prelAwaitsAck[p]
    BY <2>0, <2>1, <2>2
  <2>4. \A j \in Conns : Restoring(j, i)' => Restoring(j, i) /\ conn'[j].todo = conn[j].todo
    BY <2>1 DEF Restoring
  <2>5. QED
    BY <1>1, <2>3, <2>4, StillToRestore
<1>8. UNCHANGED vars => UNCHANGED <<conn, sess>>
  BY DEF vars
<1>9. CASE Next
  BY <1>2, <1>3, <1>4, <1>5, <1>6, <1>7, <1>9 DEF Next
<1>10. QED
  BY <1>2, <1>8, <1>9

(* The first restart makes what is awaited what is to be restored.         *)
LEMMA RestartKeeps ==
  ASSUME TypeInv, RestoreInv, Restart,
         NEW c \in ClientIds, NEW p \in PacketIds, sm[c] # 0, Awaited(sm[c], p)
  PROVE  (Awaited(sm[c], p))'
<1>1. PICK i \in SessionIds : i = sm[c] /\ sm' = sm /\ conn' = conn
  BY DEF Restart, TypeInv, TypeOK
<1>2. sess[i] \in Session /\ sess[i].awaitsAck[p] # None
  BY <1>1 DEF TypeInv, TypeOK, Awaited, ToRestore, RestoreInv, NothingToRestore
<1>3. sess'[i] = Reloaded(sess[i])
  BY <1>1 DEF Restart
<1>4. sess'[i].prelAwaitsAck[p] = sess[i].awaitsAck[p].subject
  BY <1>2, <1>3 DEF Reloaded, Session
<1>5. sess[i].awaitsAck[p].subject # None
  BY <1>2, NilAssumption DEF Session, SubscriptionOrNone, Subscriptions
<1>6. \A k \in Conns : conn'[k].at = "read"
  BY <1>1 DEF Restart, TypeInv, HandlerOK
<1>7. ToRestore(i, p)'
  BY <1>4, <1>5, <1>6 DEF ToRestore, Restoring
<1>8. QED
  BY <1>1, <1>7 DEF Awaited

(* A session that stays registered forgets an awaited reply only when that *)
(* reply is handled, or NATS refuses to restore its subscription: for any  *)
(* clients, connections and packet ids, whether or not clients take over,  *)
(* over a restart of the bridge (which RestoreAckSubscriptions follows).   *)
(* What a second restart finds that is still to be restored is not saved.  *)
THEOREM AwaitedIsKept ==
  ASSUME MaxRestarts \in {0, 1}
  PROVE  Spec => AwaitedUntilReplied
<1> DEFINE Kept == \A c \in ClientIds, p \in PacketIds :
          LET i == sm[c]
          IN  i # 0 /\ Awaited(i, p) /\ sm'[c] = i /\ stops'.crashes = stops.crashes
              => \/ (Awaited(i, p))'
                 \/ \E call \in calls : call.sub.subject.pid = p /\ ReplyCallback(call)
                 \/ \E k \in Conns : \E subject \in conn[k].todo :
                       subject.pid = p /\ RestoreSubscribeFails(k, subject)
<1>1. /\ TypeInv /\ TypeInv' /\ NameInv /\ (stops.restarts = 0 => RestoreInv)
      /\ [Next]_vars
      => [Kept]_vars
  <2> SUFFICES ASSUME TypeInv, NameInv, stops.restarts = 0 => RestoreInv, [Next]_vars,
                      NEW c \in ClientIds, NEW p \in PacketIds,
                      sm[c] # 0, Awaited(sm[c], p), sm'[c] = sm[c],
                      stops'.crashes = stops.crashes
               PROVE  \/ (Awaited(sm[c], p))'
                      \/ \E call \in calls : call.sub.subject.pid = p /\ ReplyCallback(call)
                      \/ \E k \in Conns : \E subject \in conn[k].todo :
                            subject.pid = p /\ RestoreSubscribeFails(k, subject)
    OBVIOUS
  <2>1. stops \in [restarts : 0..MaxRestarts, crashes : Nat]
    BY BoundsAssumption DEF TypeInv, TypeOK
  <2>2. ~Crash
    BY <2>1 DEF Crash
  <2>3. CASE Restart
    <3>1. RestoreInv
      BY <2>1, <2>3 DEF Restart
    <3>2. QED
      BY <2>3, <3>1, RestartKeeps
  <2>4. CASE ~Restart /\ sess[sm[c]].awaitsAck[p] # None
    <3>1. \/ sess'[sm[c]].awaitsAck[p] # None
          \/ \E call \in calls : call.sub.subject.pid = p /\ ReplyCallback(call)
      BY <2>2, <2>4, EntryKept
    <3>2. QED
      BY <3>1 DEF Awaited
  <2>5. CASE ~Restart /\ ToRestore(sm[c], p)
    BY <2>2, <2>5, ToRestoreKept
  <2>6. QED
    BY <2>3, <2>4, <2>5 DEF Awaited
<1> HIDE DEF Kept
<1>2. Spec => [][Kept]_vars
  BY <1>1, Typed, Named, Restored, PTL DEF Spec
<1>3. QED
  BY <1>2 DEF AwaitedUntilReplied, Kept

-----------------------------------------------------------------------------

(* The entry of a session under a packet id, the requests that may still   *)
(* be answered and the replies on their way for it.                        *)
Entry(i, p) == sess[i].awaitsAck[p]
Requests(i, p) == {r \in requests : r.subject.sid = i /\ r.subject.pid = p}
Replies(i, p) == {x \in calls : x.sub.subject.sid = i /\ x.sub.subject.pid = p}

(* A session knows each subscription, or is about to; what it knows is a   *)
(* subscription until its connection is closed; a request is of a session  *)
(* there has been, and answered once; a connection that is not in use has  *)
(* nothing to send.                                                        *)
Remembered == \A sb \in subs :
    \/ Entry(sb.subject.sid, sb.subject.pid) = sb
    \/ conn[sb.k].at = "subscribed" /\ conn[sb.k].sub = sb
EntriesLive == \A i \in SessionIds, p \in PacketIds :
    Entry(i, p) # None /\ Entry(i, p).k # None => Entry(i, p) \in subs
HandlersSubscribed == \A k \in Conns :
    conn[k].at # "read" => conn[k].sub \in subs /\ conn[k].sub.k = k
AnsweredOnce == \A r \in requests : r.subject.sid <= seed /\ r.left = 1
FreeIsQuiet == \A k \in Conns : conn[k].st = "free" => pubacks[k] = <<>>

SubsInv == Remembered /\ EntriesLive /\ HandlersSubscribed /\ AnsweredOnce /\ FreeIsQuiet

(* One packet id of a client: what its session awaits is a reply to the    *)
(* message the client still has, requested or answered at most once.       *)
Awaits(e, m, R, X, answered) ==
    /\ m = 0 => e = None
    /\ \A r \in R : e # None /\ r.m = m /\ X = {} /\ R = {r}
    /\ \A x \in X : e # None /\ x.sub = e /\ x.m = m /\ m \in answered

(* ... the handler of its connection publishes that message first ...      *)
Handling(cn, p) == cn.at # "read" /\ cn.pkt.pid = p
Handles(cn, w, p, e, m, R, X) == Handling(cn, p) =>
    /\ cn.pkt.m = m /\ R = {} /\ X = {}
    /\ e = IF cn.at = "subscribed" THEN None ELSE cn.sub
    /\ \A j \in DOMAIN w : w[j].pid # p

(* ... what the client has sent under the id is that message, once, and    *)
(* not what the session awaits a reply to, unless nobody listens ...       *)
Sends(w, p, e, m) == \A j \in DOMAIN w : w[j].pid = p =>
    /\ w[j].m = m
    /\ \A h \in DOMAIN w : w[h].pid = p => h = j
    /\ e # None => w[j].dup /\ e.k = None

(* ... and a PUBACK on its way to the client is for that message.          *)
Acknowledges(a, cn, w, p, e, m, answered) == \A j \in DOMAIN a : a[j] = p =>
    /\ m # 0 /\ m \in answered /\ e = None /\ ~Handling(cn, p)
    /\ \A h \in DOMAIN a : a[h] = p => h = j
    /\ \A h \in DOMAIN w : w[h].pid # p

Line(cn, w, a, p, e, m, R, X, answered) ==
    /\ Handles(cn, w, p, e, m, R, X)
    /\ Sends(w, p, e, m)
    /\ Acknowledges(a, cn, w, p, e, m, answered)

SlotOK(c, p) ==
    LET i == sm[c]
        m == client[c].unacked[p]
    IN  i # 0 =>
          /\ Awaits(Entry(i, p), m, Requests(i, p), Replies(i, p), replied)
          /\ \A k \in Conns : Serves(k, c) =>
                Line(conn[k], wire[k], pubacks[k], p,
                     Entry(i, p), m, Requests(i, p), Replies(i, p), replied)

SlotInv == \A c \in ClientIds, p \in PacketIds : SlotOK(c, p)

(* Before the bridge stopped for the first time: what its connections do,  *)
(* and that a PUBACK the client saw was for a message replied to.          *)
NeverStopped == stops.restarts = 0 /\ stops.crashes = 0
FlowInv == SubsInv /\ SlotInv /\ acked \subseteq replied

(* The packets, and the PUBACKs, of one id on a connection stay where they *)
(* are, or the first of all is taken.                                      *)
PacketsKept(w2, w, p) == \E d \in {0, 1} :
    \A j \in DOMAIN w2 : w2[j].pid = p => j + d \in DOMAIN w /\ w[j + d] = w2[j]
AcksKept(a2, a, p) == \E d \in {0, 1} :
    \A j \in DOMAIN a2 : a2[j] = p => j + d \in DOMAIN a /\ a[j + d] = p

LEMMA PacketsMoved ==
  ASSUME NEW p, NEW w \in Seq(Packets)
  PROVE  /\ PacketsKept(w, w, p) /\ PacketsKept(<<>>, w, p)
         /\ w # <<>> => PacketsKept(Tail(w), w, p)
<1>1. PacketsKept(w, w, p) /\ PacketsKept(<<>>, w, p)
  <2>1. \A j \in DOMAIN w : j + 0 = j
    OBVIOUS
  <2>2. DOMAIN <<>> = {}
    OBVIOUS
  <2>3. QED
    BY <2>1, <2>2 DEF PacketsKept
<1>2. w # <<>> => PacketsKept(Tail(w), w, p)
  <2>1. w # <<>> => \A j \in DOMAIN Tail(w) : j + 1 \in DOMAIN w /\ w[j + 1] = Tail(w)[j]
    OBVIOUS
  <2>2. QED
    BY <2>1 DEF PacketsKept
<1>3. QED
  BY <1>1, <1>2

LEMMA PacketsAppended ==
  ASSUME NEW p, NEW w \in Seq(Packets), NEW pkt \in Packets, pkt.pid # p
  PROVE  PacketsKept(Append(w, pkt), w, p)
<1>1. \A j \in DOMAIN Append(w, pkt) : Append(w, pkt)[j].pid = p =>
         j + 0 \in DOMAIN w /\ w[j + 0] = Append(w, pkt)[j]
  OBVIOUS
<1>2. QED
  BY <1>1 DEF PacketsKept

LEMMA AcksMoved ==
  ASSUME NEW p, NEW a \in Seq(PacketIds)
  PROVE  /\ AcksKept(a, a, p) /\ AcksKept(<<>>, a, p)
         /\ a # <<>> => AcksKept(Tail(a), a, p)
<1>1. AcksKept(a, a, p) /\ AcksKept(<<>>, a, p)
  <2>1. \A j \in DOMAIN a : j + 0 = j
    OBVIOUS
  <2>2. DOMAIN <<>> = {}
    OBVIOUS
  <2>3. QED
    BY <2>1, <2>2 DEF AcksKept
<1>2. a # <<>> => AcksKept(Tail(a), a, p)
  <2>1. a # <<>> => \A j \in DOMAIN Tail(a) : j + 1 \in DOMAIN a /\ a[j + 1] = Tail(a)[j]
    OBVIOUS
  <2>2. QED
    BY <2>1 DEF AcksKept
<1>3. QED
  BY <1>1, <1>2

LEMMA AcksAppended ==
  ASSUME NEW p, NEW a \in Seq(PacketIds), NEW q \in PacketIds, q # p
  PROVE  AcksKept(Append(a, q), a, p)
<1>1. \A j \in DOMAIN Append(a, q) : Append(a, q)[j] = p => j + 0 \in DOMAIN a /\ a[j + 0] = p
  OBVIOUS
<1>2. QED
  BY <1>1 DEF AcksKept

(* A line on which nothing but that changes for the packet id.             *)
LineKept(cn, w, a, cn2, w2, a2, p) ==
    /\ Handling(cn2, p) => Handling(cn, p) /\ cn2.at = cn.at /\ cn2.pkt = cn.pkt /\ cn2.sub = cn.sub
    /\ PacketsKept(w2, w, p)
    /\ AcksKept(a2, a, p)

LEMMA LineStep ==
  ASSUME NEW w \in Seq(Packets), NEW w2 \in Seq(Packets),
         NEW a \in Seq(PacketIds), NEW a2 \in Seq(PacketIds),
         NEW cn, NEW cn2, NEW p, NEW e, NEW m, NEW R, NEW X, NEW X2, NEW ans, NEW ans2,
         Line(cn, w, a, p, e, m, R, X, ans), LineKept(cn, w, a, cn2, w2, a2, p),
         X2 \subseteq X, ans \subseteq ans2
  PROVE  Line(cn2, w2, a2, p, e, m, R, X2, ans2)
<1>1. PICK d \in {0, 1} :
         \A j \in DOMAIN w2 : w2[j].pid = p => j + d \in DOMAIN w /\ w[j + d] = w2[j]
  BY DEF LineKept, PacketsKept
<1>2. PICK g \in {0, 1} :
         \A j \in DOMAIN a2 : a2[j] = p => j + g \in DOMAIN a /\ a[j + g] = p
  BY DEF LineKept, AcksKept
<1>3. /\ Handling(cn2, p) => Handling(cn, p) /\ cn2.at = cn.at /\ cn2.pkt = cn.pkt /\ cn2.sub = cn.sub
      /\ Handles(cn, w, p, e, m, R, X) /\ Sends(w, p, e, m)
      /\ Acknowledges(a, cn, w, p, e, m, ans)
  BY DEF LineKept, Line
<1>4. /\ DOMAIN w2 \subseteq Nat /\ DOMAIN a2 \subseteq Nat
      /\ \A j, h \in Nat : j + d = h + d => j = h
      /\ \A j, h \in Nat : j + g = h + g => j = h
  <2>1. DOMAIN w2 = 1..Len(w2) /\ Len(w2) \in Nat /\ DOMAIN a2 = 1..Len(a2) /\ Len(a2) \in Nat
    OBVIOUS
  <2>2. QED
    BY <2>1
<1>5. Handles(cn2, w2, p, e, m, R, X2)
  BY <1>1, <1>3 DEF Handles
<1>6. Sends(w2, p, e, m)
  <2> SUFFICES ASSUME NEW j \in DOMAIN w2, w2[j].pid = p
               PROVE  /\ w2[j].m = m
                      /\ \A h \in DOMAIN w2 : w2[h].pid = p => h = j
                      /\ e # None => w2[j].dup /\ e.k = None
    BY DEF Sends
  <2>1. j + d \in DOMAIN w /\ w[j + d] = w2[j]
    BY <1>1
  <2>2. \A h \in DOMAIN w : w[h].pid = p => h = j + d
    BY <1>3, <2>1 DEF Sends
  <2>3. \A h \in DOMAIN w2 : w2[h].pid = p => h = j
    BY <1>1, <1>4, <2>2
  <2>4. QED
    BY <1>3, <2>1, <2>3 DEF Sends
<1>7. Acknowledges(a2, cn2, w2, p, e, m, ans2)
  <2> SUFFICES ASSUME NEW j \in DOMAIN a2, a2[j] = p
               PROVE  /\ m # 0 /\ m \in ans2 /\ e = None /\ ~Handling(cn2, p)
                      /\ \A h \in DOMAIN a2 : a2[h] = p => h = j
                      /\ \A h \in DOMAIN w2 : w2[h].pid # p
    BY DEF Acknowledges
  <2>1. j + g \in DOMAIN a /\ a[j + g] = p
    BY <1>2
  <2>2. /\ m # 0 /\ m \in ans /\ e = None /\ ~Handling(cn, p)
        /\ \A h \in DOMAIN a : a[h] = p => h = j + g
        /\ \A h \in DOMAIN w : w[h].pid # p
    BY <1>3, <2>1 DEF Acknowledges
  <2>3. \A h \in DOMAIN a2 : a2[h] = p => h = j
    BY <1>2, <1>4, <2>2
  <2>4. \A h \in DOMAIN w2 : w2[h].pid # p
    BY <1>1, <2>2
  <2>5. QED
    BY <1>3, <2>2, <2>3, <2>4
<1>8. QED
  BY <1>5, <1>6, <1>7 DEF Line

(* A packet id that a step does not concern.                               *)
LEMMA SlotKept ==
  ASSUME TypeOK, TypeOK', NEW c \in ClientIds, NEW p \in PacketIds, SlotOK(c, p),
         NEW i, i = sm[c], sm'[c] \in {0, i},
         sm'[c] # 0 =>
            /\ sess'[i].awaitsAck[p] = sess[i].awaitsAck[p]
            /\ client'[c].unacked[p] = client[c].unacked[p]
            /\ Requests(i, p)' = Requests(i, p) /\ Replies(i, p)' \subseteq Replies(i, p),
         replied \subseteq replied',
         \A k \in Conns : Serves(k, c)' => /\ Serves(k, c)
                                           /\ LineKept(conn[k], wire[k], pubacks[k],
                                                       conn'[k], wire'[k], pubacks'[k], p)
  PROVE  SlotOK(c, p)'
<1> SUFFICES ASSUME sm'[c] # 0 PROVE SlotOK(c, p)'
  BY DEF SlotOK
<1>1. sm'[c] = i /\ i # 0
  OBVIOUS
<1> DEFINE e == sess[i].awaitsAck[p]
           m == client[c].unacked[p]
           R == Requests(i, p)
           X == Replies(i, p)
<1>2. PICK X2 : Replies(i, p)' = X2 /\ X2 \subseteq X
  OBVIOUS
<1>3. Awaits(e, m, R, X, replied)
  BY <1>1 DEF SlotOK, Entry
<1>4. Awaits(e, m, R, X2, replied')
  <2> HIDE DEF e, m, R, X
  <2>1. QED
    BY <1>2, <1>3 DEF Awaits
<1>5. ASSUME NEW k \in Conns, Serves(k, c)'
      PROVE  Line(conn'[k], wire'[k], pubacks'[k], p, e, m, R, X2, replied')
  <2>1. Line(conn[k], wire[k], pubacks[k], p, e, m, R, X, replied)
    BY <1>1, <1>5 DEF SlotOK, Entry
  <2>2. LineKept(conn[k], wire[k], pubacks[k], conn'[k], wire'[k], pubacks'[k], p)
    BY <1>5
  <2>3. /\ wire[k] \in Seq(Packets) /\ wire'[k] \in Seq(Packets)
        /\ pubacks[k] \in Seq(PacketIds) /\ pubacks'[k] \in Seq(PacketIds)
    BY DEF TypeOK
  <2> HIDE DEF e, m, R, X
  <2>4. QED
    BY <1>2, <2>1, <2>2, <2>3, LineStep
<1>6. /\ sess'[i].awaitsAck[p] = e /\ client'[c].unacked[p] = m /\ Requests(i, p)' = R
  BY <1>1
<1> HIDE DEF e, m, R, X
<1>7. QED
  BY <1>1, <1>2, <1>4, <1>5, <1>6 DEF SlotOK, Entry

(* A packet id that a step does concern.                                   *)
LEMMA SlotNew ==
  ASSUME NEW c \in ClientIds, NEW p \in PacketIds,
         NEW i, NEW e, NEW m, NEW R, NEW X,
         sm'[c] = i, sess'[i].awaitsAck[p] = e, client'[c].unacked[p] = m,
         Requests(i, p)' = R, Replies(i, p)' = X,
         Awaits(e, m, R, X, replied'),
         \A k \in Conns : Serves(k, c)' =>
            Line(conn'[k], wire'[k], pubacks'[k], p, e, m, R, X, replied')
  PROVE  SlotOK(c, p)'
BY DEF SlotOK, Entry

(* What holds together until the bridge stops for the first time.          *)
AckInv == TypeInv /\ NameInv /\ ConnInv /\ RestoreInv /\ FlowInv

LEMMA SubServes ==
  ASSUME AckInv, NEW sb \in subs
  PROVE  /\ sb \in Subscriptions /\ sb.k \in Conns /\ sb.k # None
         /\ sb.subject.cid \in ClientIds /\ sb.subject.pid \in PacketIds
         /\ sb.subject.sid \in SessionIds /\ sb.subject.sid # 0 /\ sb.subject.sid <= seed
         /\ Serves(sb.k, sb.subject.cid) /\ conn[sb.k].sid = sb.subject.sid
         /\ sm[sb.subject.cid] = sb.subject.sid
<1>1. /\ sb \in Subscriptions /\ sb.k # None
      /\ Serves(sb.k, sb.subject.cid) /\ conn[sb.k].sid = sb.subject.sid
  BY DEF AckInv, TypeInv, TypeOK, ConnInv, OwnedSubs, Owns
<1>2. /\ sb.k \in Conns /\ sb.subject.cid \in ClientIds /\ sb.subject.pid \in PacketIds
      /\ sb.subject.sid \in SessionIds
  BY <1>1 DEF Subscriptions, Subjects
<1>3. QED
  BY <1>1, <1>2, ServesNames DEF AckInv

LEMMA HandlerServes ==
  ASSUME AckInv, NEW k \in Conns, conn[k].at # "read"
  PROVE  /\ conn[k].cid \in ClientIds /\ Serves(k, conn[k].cid)
         /\ conn[k].pkt \in Packets /\ conn[k].pkt.pid \in PacketIds
         /\ conn[k].sub \in subs /\ conn[k].sub.k = k
         /\ conn[k].sub.subject.cid = conn[k].cid
         /\ conn[k].sub.subject.sid = conn[k].sid
         /\ conn[k].sub.subject.pid = conn[k].pkt.pid
         /\ conn[k].at \in {"subscribed", "requested"}
         /\ conn[k].sid \in SessionIds /\ sm[conn[k].cid] = conn[k].sid
<1>1. HandlerOK(conn[k], sess) /\ ConnOK(conn[k], seed, sess)
  BY DEF AckInv, TypeInv, NameInv
<1>2. conn[k].at \in {"subscribed", "requested"} /\ conn[k].sub \in subs /\ conn[k].sub.k = k
  BY DEF AckInv, RestoreInv, FlowInv, SubsInv, HandlersSubscribed
<1>3. conn[k].cid \in ClientIds /\ Serves(k, conn[k].cid) /\ conn[k].pkt \in Packets
  BY <1>1, <1>2 DEF HandlerOK, Serves
<1>4. sm[conn[k].cid] = conn[k].sid /\ conn[k].sid \in SessionIds /\ sess[conn[k].sid].cid = conn[k].cid
  BY <1>3, ServesNames DEF AckInv
<1>5. QED
  BY <1>1, <1>2, <1>3, <1>4 DEF ConnOK, NamesSession, Packets

LEMMA OneServes ==
  ASSUME ConnInv, NEW c, NEW j \in Conns, NEW k \in Conns, Serves(j, c), Serves(k, c)
  PROVE  j = k
BY DEF ConnInv, OneEach, Serves

(* The session of a client is not that of another.                         *)
LEMMA OneOwner ==
  ASSUME TypeInv, NameInv, NEW c \in ClientIds, NEW d \in ClientIds, sm[c] # 0, sm[d] = sm[c]
  PROVE  c = d
BY DEF NameInv, SessionsOK

LEMMA EntryNames ==
  ASSUME TypeInv, NameInv, NEW i \in SessionIds, NEW p \in PacketIds, Entry(i, p) # None
  PROVE  /\ Entry(i, p) \in Subscriptions
         /\ Entry(i, p).subject.sid = i /\ Entry(i, p).subject.pid = p
         /\ Entry(i, p).subject.cid = sess[i].cid
<1>1. Entry(i, p) \in Subscriptions
  BY DEF Entry, TypeInv, TypeOK, Session, SubscriptionOrNone
<1>2. QED
  BY <1>1 DEF Entry, NameInv, SessionsOK, NamesSession

(* Nothing is subscribed, requested or answered: a packet is dropped, a    *)
(* handler gives up, a connection ends or a client goes.                   *)
LEMMA QuietStep ==
  ASSUME AckInv, TypeOK',
         UNCHANGED <<sm, seed, sess, subs, calls, requests, replied, acked>>,
         \A c \in ClientIds : client'[c].unacked = client[c].unacked,
         \A k \in Conns :
            /\ wire'[k] = wire[k] \/ (wire[k] # <<>> /\ wire'[k] = Tail(wire[k]))
            /\ pubacks'[k] \in {pubacks[k], <<>>}
            /\ conn'[k].st = "free" => conn[k].st = "free",
         \A k \in Conns : \A c \in ClientIds : Serves(k, c)' => Serves(k, c),
         \A k \in Conns :
            /\ conn'[k].at # "read" =>
                  conn'[k].at = conn[k].at /\ conn'[k].pkt = conn[k].pkt /\ conn'[k].sub = conn[k].sub
            /\ conn[k].at = "subscribed" => conn'[k].at = "subscribed" /\ conn'[k].sub = conn[k].sub
  PROVE  FlowInv'
<1>1. SubsInv'
  <2>0. /\ Remembered /\ EntriesLive /\ HandlersSubscribed /\ AnsweredOnce /\ FreeIsQuiet
    BY DEF AckInv, FlowInv, SubsInv
  <2>1. Remembered'
    BY <2>0, SubServes DEF Remembered, Entry
  <2>2. EntriesLive'
    BY <2>0 DEF EntriesLive, Entry
  <2>3. HandlersSubscribed'
    BY <2>0 DEF HandlersSubscribed
  <2>4. AnsweredOnce' /\ FreeIsQuiet'
    BY <2>0 DEF AnsweredOnce, FreeIsQuiet
  <2>5. QED
    BY <2>1, <2>2, <2>3, <2>4 DEF SubsInv
<1>2. ASSUME NEW c \in ClientIds, NEW p \in PacketIds
      PROVE  SlotOK(c, p)'
  <2>1. PICK i : i = sm[c]
    OBVIOUS
  <2>2. TypeOK /\ SlotOK(c, p)
    BY DEF AckInv, TypeInv, FlowInv, SlotInv
  <2>3. Requests(i, p)' = Requests(i, p) /\ Replies(i, p)' = Replies(i, p)
    BY DEF Requests, Replies
  <2>4. ASSUME NEW k \in Conns
        PROVE  LineKept(conn[k], wire[k], pubacks[k], conn'[k], wire'[k], pubacks'[k], p)
    <3>1. wire[k] \in Seq(Packets) /\ pubacks[k] \in Seq(PacketIds)
      BY <2>2 DEF TypeOK
    <3>2. PacketsKept(wire'[k], wire[k], p)
      BY <3>1, PacketsMoved
    <3>3. AcksKept(pubacks'[k], pubacks[k], p)
      BY <3>1, AcksMoved
    <3>4. QED
      BY <3>2, <3>3 DEF LineKept, Handling
  <2>5. QED
    BY <2>1, <2>2, <2>3, <2>4, SlotKept
<1>3. QED
  BY <1>1, <1>2 DEF FlowInv, SlotInv, AckInv

LEMMA EndFlow ==
  ASSUME AckInv, TypeInv', NEW k \in Conns,
         \/ IgnoreDuplicate(k)
         \/ PublishSubscribeFails(k) \/ PublishRequestFails(k)
         \/ SetDisconnected(k)
  PROVE  FlowInv'
<1> USE DEF natsVars, sessionVars, mqttVars, ghosts, storage
<1>0. /\ TypeOK /\ TypeOK' /\ conn \in [Conns -> Connection] /\ wire \in [Conns -> Seq(Packets)]
  BY DEF AckInv, TypeInv, TypeOK
<1>1. UNCHANGED <<sm, seed, sess, subs, calls, requests, replied, acked, client, pubacks>>
  BY DEF IgnoreDuplicate, PublishSubscribeFails, PublishRequestFails, SetDisconnected, Reads
<1>2. \A j \in Conns : wire'[j] = wire[j] \/ (wire[j] # <<>> /\ wire'[j] = Tail(wire[j]))
  BY <1>0 DEF IgnoreDuplicate, PublishSubscribeFails, PublishRequestFails, SetDisconnected, Reads
<1>3. \A j \in Conns :
         /\ conn'[j].st = "free" => conn[j].st = "free"
         /\ conn'[j].cid = conn[j].cid /\ conn'[j].sid = conn[j].sid
         /\ conn'[j].at # "read" =>
               conn'[j].at = conn[j].at /\ conn'[j].pkt = conn[j].pkt /\ conn'[j].sub = conn[j].sub
         /\ conn[j].at = "subscribed" => conn'[j].at = "subscribed" /\ conn'[j].sub = conn[j].sub
         /\ conn[j].st = "free" => conn'[j].st = "free"
  <2>1. CASE IgnoreDuplicate(k)
    BY <2>1 DEF IgnoreDuplicate
  <2>2. CASE PublishSubscribeFails(k) \/ SetDisconnected(k)
    <3> DEFINE cn == [conn[k] EXCEPT !.st = "disconnected"]
    <3>1. conn' = [conn EXCEPT ![k] = cn] /\ conn[k].st = "connected"
      BY <1>0, <2>2 DEF PublishSubscribeFails, SetDisconnected, Reads
    <3>2. /\ cn.cid = conn[k].cid /\ cn.sid = conn[k].sid /\ cn.at = conn[k].at
          /\ cn.pkt = conn[k].pkt /\ cn.sub = conn[k].sub /\ cn.st # "free"
      BY <1>0 DEF Connection
    <3> HIDE DEF cn
    <3>3. QED
      BY <1>0, <3>1, <3>2
  <2>3. CASE PublishRequestFails(k)
    <3> DEFINE cn == [HandlerDone(k) EXCEPT !.st = "disconnected"]
    <3>1. conn' = [conn EXCEPT ![k] = cn] /\ conn[k].at = "requested"
      BY <2>3 DEF PublishRequestFails
    <3>2. cn.cid = conn[k].cid /\ cn.sid = conn[k].sid /\ cn.at = "read" /\ cn.st # "free"
      BY <1>0 DEF Connection, HandlerDone
    <3>3. conn[k].st # "free"
      BY <3>1, HandlerServes DEF Serves
    <3> HIDE DEF cn
    <3>4. QED
      BY <1>0, <3>1, <3>2, <3>3
  <2>4. QED
    BY <2>1, <2>2, <2>3
<1>4. \A j \in Conns : \A c \in ClientIds : Serves(j, c)' => Serves(j, c)
  BY <1>3 DEF Serves
<1>5. QED
  BY <1>0, <1>1, <1>2, <1>3, <1>4, QuietStep

LEMMA DropFlow ==
  ASSUME AckInv, TypeInv', NEW c \in ClientIds,
         ClientDrops(c) \/ (\E k \in Conns, clean \in CleanFlags : ConnectRefused(c, k, clean))
  PROVE  FlowInv'
<1> USE DEF natsVars, sessionVars, mqttVars, ghosts, storage
<1>0. TypeOK /\ TypeOK' /\ conn \in [Conns -> Connection]
  BY DEF AckInv, TypeInv, TypeOK
<1>1. CASE ClientDrops(c)
  <2>1. /\ UNCHANGED <<sm, seed, sess, subs, calls, requests, replied, acked, conn, wire>>
        /\ \A d \in ClientIds : client'[d].unacked = client[d].unacked
        /\ \A k \in Conns : pubacks'[k] \in {pubacks[k], <<>>}
    BY <1>0, <1>1 DEF ClientDrops, TypeOK
  <2>2. \A j \in Conns : \A d \in ClientIds : Serves(j, d)' => Serves(j, d)
    BY <2>1 DEF Serves
  <2>3. QED
    BY <1>0, <2>1, <2>2, QuietStep
<1>2. ASSUME NEW k \in Conns, NEW clean \in CleanFlags, ConnectRefused(c, k, clean)
      PROVE  FlowInv'
  <2> DEFINE cn == [Unused EXCEPT !.st = "disconnected", !.cid = c, !.clean = clean]
  <2>1. /\ UNCHANGED <<sm, seed, sess, subs, calls, requests, replied, acked, client, wire, pubacks>>
        /\ conn' = [conn EXCEPT ![k] = cn] /\ conn[k].st = "free"
    BY <1>2 DEF ConnectRefused, Vacant
  <2>2. cn.at = "read" /\ cn.sid = 0 /\ cn.st # "free"
    BY DEF Unused
  <2>3. conn[k].at = "read"
    BY <2>1 DEF AckInv, TypeInv, HandlerOK
  <2> HIDE DEF cn
  <2>4. \A j \in Conns : j = k \/ conn'[j] = conn[j]
    BY <1>0, <2>1
  <2>5. conn'[k] = cn
    BY <1>0, <2>1
  <2>6. \A j \in Conns : \A d \in ClientIds : Serves(j, d)' => Serves(j, d)
    BY <2>2, <2>4, <2>5 DEF Serves
  <2>7. \A j \in Conns :
         /\ conn'[j].st = "free" => conn[j].st = "free"
         /\ conn'[j].at # "read" =>
               conn'[j].at = conn[j].at /\ conn'[j].pkt = conn[j].pkt /\ conn'[j].sub = conn[j].sub
         /\ conn[j].at = "subscribed" => conn'[j].at = "subscribed" /\ conn'[j].sub = conn[j].sub
    BY <2>2, <2>3, <2>4, <2>5
  <2>8. QED
    BY <1>0, <2>1, <2>6, <2>7, QuietStep
<1>3. QED
  BY <1>1, <1>2

(* What the invariant says of a packet id of a client that is served.      *)
LEMMA SlotNow ==
  ASSUME AckInv, NEW c \in ClientIds, NEW p \in PacketIds, NEW i, i = sm[c], i # 0
  PROVE  /\ Awaits(Entry(i, p), client[c].unacked[p], Requests(i, p), Replies(i, p), replied)
         /\ \A k \in Conns : Serves(k, c) =>
               Line(conn[k], wire[k], pubacks[k], p, Entry(i, p), client[c].unacked[p],
                    Requests(i, p), Replies(i, p), replied)
BY DEF AckInv, FlowInv, SlotInv, SlotOK

LEMMA PublishSubscribeFlow ==
  ASSUME AckInv, TypeInv', NEW k \in Conns, PublishSubscribe(k)
  PROVE  FlowInv'
<1> USE DEF natsVars, sessionVars, mqttVars, ghosts, storage
<1>0. /\ TypeInv /\ TypeOK /\ TypeOK' /\ conn \in [Conns -> Connection]
      /\ wire \in [Conns -> Seq(Packets)]
      /\ Remembered /\ EntriesLive /\ HandlersSubscribed /\ AnsweredOnce /\ FreeIsQuiet
  BY DEF AckInv, TypeInv, TypeOK, FlowInv, SubsInv
<1>1. PICK pkt : pkt = Head(wire[k])
  OBVIOUS
<1>2. PICK subject : subject = ReplyTopic(conn[k].sid, pkt)
  OBVIOUS
<1>3. /\ Reads(k) /\ ~IsAwaitedDuplicate(k, pkt) /\ SubscribeAck(k, subject, "subscribed", pkt)
      /\ UNCHANGED <<sessionVars, calls, requests, pubacks, client, ghosts, storage>>
  BY <1>1, <1>2 DEF PublishSubscribe
<1>4. /\ pkt \in Packets /\ conn[k].sid \in SessionIds /\ conn[k].sid # 0
      /\ conn[k].st = "connected" /\ conn[k].at = "read"
      /\ wire[k] # <<>> /\ wire' = [wire EXCEPT ![k] = Tail(@)]
  BY <1>0, <1>1, <1>3, ReadTypes DEF Reads, Idle
<1>5. PICK sb : /\ sb.k = k /\ subs' = subs \cup {sb}
                /\ conn' = [conn EXCEPT ![k].at = "subscribed", ![k].pkt = pkt, ![k].sub = sb]
  <2>1. PICK n \in Copies :
           LET s == [k |-> k, subject |-> subject, n |-> n]
           IN  /\ subs' = subs \cup {s}
               /\ conn' = [conn EXCEPT ![k].at = "subscribed", ![k].pkt = pkt, ![k].sub = s]
    BY <1>3 DEF SubscribeAck
  <2> DEFINE s == [k |-> k, subject |-> subject, n |-> n]
  <2>2. s.k = k
    OBVIOUS
  <2> HIDE DEF s
  <2>3. QED
    BY <2>1, <2>2 DEF s
<1>6. PICK cn : /\ conn' = [conn EXCEPT ![k] = cn] /\ cn.at = "subscribed" /\ cn.pkt = pkt
                /\ cn.sub = sb /\ cn.st = "connected" /\ cn.cid = conn[k].cid
                /\ cn.sid = conn[k].sid
  <2> DEFINE new == [conn[k] EXCEPT !.at = "subscribed", !.pkt = pkt, !.sub = sb]
  <2>1. conn' = [conn EXCEPT ![k] = new]
    BY <1>0, <1>5
  <2>2. /\ new.at = "subscribed" /\ new.pkt = pkt
        /\ new.sub = sb /\ new.st = "connected" /\ new.cid = conn[k].cid
        /\ new.sid = conn[k].sid
    BY <1>0, <1>4 DEF Connection
  <2> HIDE DEF new
  <2>3. QED
    BY <2>1, <2>2
<1>7. conn'[k] = cn /\ \A j \in Conns : j # k => conn'[j] = conn[j] /\ wire'[j] = wire[j]
  BY <1>0, <1>4, <1>6
<1>8. PICK c0 \in ClientIds : c0 = conn[k].cid /\ Serves(k, c0)
  BY <1>0, <1>4 DEF TypeInv, HandlerOK, Serves
<1>9. PICK p0 \in PacketIds : p0 = pkt.pid
  BY <1>4 DEF Packets
<1>10. \A j \in Conns : \A c \in ClientIds : Serves(j, c)' => Serves(j, c)
  BY <1>4, <1>6, <1>7 DEF Serves
<1>11. SubsInv'
  <2>1. Remembered'
    BY <1>0, <1>3, <1>4, <1>5, <1>6, <1>7, SubServes DEF Remembered, Entry
  <2>2. EntriesLive'
    BY <1>0, <1>3, <1>5 DEF EntriesLive, Entry
  <2>3. HandlersSubscribed'
    BY <1>0, <1>5, <1>6, <1>7 DEF HandlersSubscribed
  <2>4. AnsweredOnce' /\ FreeIsQuiet'
    BY <1>0, <1>3, <1>4, <1>6, <1>7 DEF AnsweredOnce, FreeIsQuiet
  <2>5. QED
    BY <2>1, <2>2, <2>3, <2>4 DEF SubsInv
<1>12. SlotOK(c0, p0)'
  <2>1. PICK i : i = sm[c0]
    OBVIOUS
  <2>2. i = conn[k].sid /\ i # 0 /\ i \in SessionIds
    BY <1>8, <2>1, ServesNames DEF AckInv
  <2> DEFINE e == Entry(i, p0)
             m == client[c0].unacked[p0]
             R == Requests(i, p0)
             X == Replies(i, p0)
  <2>3. /\ Awaits(e, m, R, X, replied)
        /\ Line(conn[k], wire[k], pubacks[k], p0, e, m, R, X, replied)
    BY <1>8, <2>1, <2>2, SlotNow
  <2>4. pkt.dup => e = None
    BY <1>3, <1>9, <2>2 DEF IsAwaitedDuplicate, AwaitsAck, Entry
  <2>5. /\ 1 \in DOMAIN wire[k] /\ wire[k][1] = pkt
        /\ \A j \in DOMAIN Tail(wire[k]) : j + 1 \in DOMAIN wire[k] /\ j + 1 # 1
                                           /\ Tail(wire[k])[j] = wire[k][j + 1]
    BY <1>0, <1>1, <1>4
  <2> HIDE DEF e, m, R, X
  <2>6. /\ pkt.m = m /\ (e # None => pkt.dup)
        /\ \A h \in DOMAIN wire[k] : wire[k][h].pid = p0 => h = 1
    BY <1>9, <2>3, <2>5 DEF Line, Sends
  <2>7. e = None /\ R = {} /\ X = {}
    BY <2>3, <2>4, <2>6 DEF Awaits
  <2>8. \A j \in DOMAIN Tail(wire[k]) : Tail(wire[k])[j].pid # p0
    BY <2>5, <2>6
  <2>9. \A j \in DOMAIN pubacks[k] : pubacks[k][j] # p0
    BY <1>9, <2>3, <2>5 DEF Line, Acknowledges
  <2>10. Line(cn, Tail(wire[k]), pubacks[k], p0, e, m, R, X, replied)
    <3>1. Handles(cn, Tail(wire[k]), p0, e, m, R, X)
      BY <1>6, <2>6, <2>7, <2>8 DEF Handles
    <3>2. Sends(Tail(wire[k]), p0, e, m)
      BY <2>8 DEF Sends
    <3>3. Acknowledges(pubacks[k], cn, Tail(wire[k]), p0, e, m, replied)
      BY <2>9 DEF Acknowledges
    <3>4. QED
      BY <3>1, <3>2, <3>3 DEF Line
  <2>11. /\ sm'[c0] = i /\ sess'[i].awaitsAck[p0] = e /\ client'[c0].unacked[p0] = m
         /\ Requests(i, p0)' = R /\ Replies(i, p0)' = X /\ replied' = replied
    BY <1>3, <2>1 DEF e, m, R, X, Entry, Requests, Replies
  <2>12. ASSUME NEW j \in Conns, Serves(j, c0)'
         PROVE  Line(conn'[j], wire'[j], pubacks'[j], p0, e, m, R, X, replied')
    <3>1. j = k
      BY <1>8, <1>10, <2>12, OneServes DEF AckInv
    <3>2. conn'[j] = cn /\ wire'[j] = Tail(wire[k]) /\ pubacks'[j] = pubacks[k]
      BY <1>0, <1>3, <1>4, <1>7, <3>1
    <3>3. QED
      BY <2>10, <2>11, <3>2
  <2>13. QED
    BY <2>3, <2>11, <2>12, SlotNew
<1>13. ASSUME NEW c \in ClientIds, NEW p \in PacketIds, c # c0 \/ p # p0
       PROVE  SlotOK(c, p)'
  <2>1. PICK i : i = sm[c]
    OBVIOUS
  <2>2. SlotOK(c, p) /\ sm' = sm /\ sess' = sess /\ client' = client /\ replied' = replied
    BY <1>3 DEF AckInv, FlowInv, SlotInv
  <2>3. Requests(i, p)' = Requests(i, p) /\ Replies(i, p)' = Replies(i, p)
    BY <1>3 DEF Requests, Replies
  <2>4. ASSUME NEW j \in Conns, Serves(j, c)'
        PROVE  /\ Serves(j, c)
               /\ LineKept(conn[j], wire[j], pubacks[j], conn'[j], wire'[j], pubacks'[j], p)
    <3>1. Serves(j, c)
      BY <1>10, <2>4
    <3>2. wire[j] \in Seq(Packets) /\ pubacks[j] \in Seq(PacketIds) /\ pubacks'[j] = pubacks[j]
      BY <1>0, <1>3 DEF TypeOK
    <3>3. PacketsKept(wire'[j], wire[j], p)
      BY <1>0, <1>4, <1>7, <3>2, PacketsMoved
    <3>4. AcksKept(pubacks'[j], pubacks[j], p)
      BY <3>2, AcksMoved
    <3>5. j = k => p # p0
      BY <1>8, <1>13, <3>1 DEF Serves
    <3>6. Handling(conn'[j], p) => conn'[j] = conn[j]
      BY <1>6, <1>7, <1>9, <3>5 DEF Handling
    <3>7. QED
      BY <3>1, <3>3, <3>4, <3>6 DEF LineKept
  <2>5. QED
    BY <1>0, <2>1, <2>2, <2>3, <2>4, SlotKept
<1>14. QED
  BY <1>3, <1>11, <1>12, <1>13 DEF FlowInv, SlotInv, AckInv

LEMMA PublishAckRequestedFlow ==
  ASSUME AckInv, TypeInv', NEW k \in Conns, PublishAckRequested(k)
  PROVE  FlowInv'
<1> USE DEF natsVars, sessionVars, mqttVars, ghosts, storage
<1>0. /\ TypeInv /\ TypeOK /\ TypeOK' /\ NameInv /\ conn \in [Conns -> Connection]
      /\ sess \in [SessionIds -> Session]
      /\ Remembered /\ EntriesLive /\ HandlersSubscribed /\ AnsweredOnce /\ FreeIsQuiet
  BY DEF AckInv, TypeInv, TypeOK, FlowInv, SubsInv
<1>1. /\ conn[k].at = "subscribed" /\ conn' = [conn EXCEPT ![k].at = "requested"]
      /\ UNCHANGED <<sm, seed, natsVars, mqttVars, ghosts, storage>>
  BY DEF PublishAckRequested
<1>2. PICK c0 \in ClientIds, p0 \in PacketIds, i0 \in SessionIds, sb \in subs :
         /\ c0 = conn[k].cid /\ Serves(k, c0) /\ p0 = conn[k].pkt.pid /\ i0 = conn[k].sid
         /\ i0 = sm[c0] /\ sb = conn[k].sub /\ sb.k = k
         /\ sb.subject.sid = i0 /\ sb.subject.pid = p0 /\ sb.subject.cid = c0
         /\ conn[k].pkt \in Packets
  BY <1>1, HandlerServes
<1>3. \A i \in SessionIds, p \in PacketIds :
         Entry(i, p)' = IF i = i0 /\ p = p0 THEN sb ELSE Entry(i, p)
  <2> DEFINE s == AckRequested(sess[i0], p0, sb)
  <2>1. sess' = [sess EXCEPT ![i0] = s]
    BY <1>0, <1>2 DEF PublishAckRequested
  <2>2. \A p \in PacketIds : s.awaitsAck[p] = IF p = p0 THEN sb ELSE sess[i0].awaitsAck[p]
    BY <1>0, <1>2 DEF AckRequested, Session
  <2> HIDE DEF s
  <2>3. QED
    BY <1>0, <2>1, <2>2 DEF Entry
<1>4. PICK cn : /\ conn' = [conn EXCEPT ![k] = cn] /\ cn.at = "requested" /\ cn.pkt = conn[k].pkt
                /\ cn.sub = sb /\ cn.st = conn[k].st /\ cn.cid = conn[k].cid
                /\ cn.sid = conn[k].sid
  <2> DEFINE new == [conn[k] EXCEPT !.at = "requested"]
  <2>1. conn' = [conn EXCEPT ![k] = new]
    BY <1>0, <1>1
  <2>2. /\ new.at = "requested" /\ new.pkt = conn[k].pkt
        /\ new.sub = sb /\ new.st = conn[k].st /\ new.cid = conn[k].cid
        /\ new.sid = conn[k].sid
    BY <1>0, <1>2 DEF Connection
  <2> HIDE DEF new
  <2>3. QED
    BY <2>1, <2>2
<1>5. conn'[k] = cn /\ \A j \in Conns : j # k => conn'[j] = conn[j]
  BY <1>0, <1>4
<1>6. \A j \in Conns : \A c \in ClientIds : Serves(j, c)' => Serves(j, c)
  BY <1>4, <1>5 DEF Serves
<1> DEFINE e == Entry(i0, p0)
           m == client[c0].unacked[p0]
           R == Requests(i0, p0)
           X == Replies(i0, p0)
<1>7. /\ Awaits(e, m, R, X, replied)
      /\ Line(conn[k], wire[k], pubacks[k], p0, e, m, R, X, replied)
  <2>1. i0 # 0
    BY DEF SessionIds
  <2>2. QED
    BY <1>2, <2>1, SlotNow
<1> HIDE DEF e, m, R, X
<1>8. /\ conn[k].pkt.m = m /\ e = None /\ R = {} /\ X = {}
      /\ \A j \in DOMAIN wire[k] : wire[k][j].pid # p0
      /\ \A j \in DOMAIN pubacks[k] : pubacks[k][j] # p0
  BY <1>1, <1>2, <1>7 DEF Line, Handles, Handling, Acknowledges
<1>9. SubsInv'
  <2>1. Remembered'
    <3> SUFFICES ASSUME NEW x \in subs
                 PROVE  \/ Entry(x.subject.sid, x.subject.pid)' = x
                        \/ conn'[x.k].at = "subscribed" /\ conn'[x.k].sub = x
      BY <1>1 DEF Remembered, Entry
    <3>1. x.subject.sid \in SessionIds /\ x.subject.pid \in PacketIds /\ x.k \in Conns
          /\ Serves(x.k, x.subject.cid) /\ sm[x.subject.cid] = x.subject.sid
          /\ x.subject.cid \in ClientIds /\ x.subject.sid # 0
      BY SubServes
    <3>2. CASE x.subject.sid = i0 /\ x.subject.pid = p0
      <4>1. x.subject.cid = c0
        BY <1>0, <1>2, <3>1, <3>2, OneOwner
      <4>2. x.k = k
        BY <1>2, <3>1, <4>1, OneServes DEF AckInv
      <4>3. Entry(x.subject.sid, x.subject.pid) = None
        BY <1>8, <3>2 DEF e
      <4>4. x = sb
        <5>1. x # None
          BY <1>0, NilAssumption DEF TypeOK
        <5>2. QED
          BY <1>0, <1>2, <4>2, <4>3, <5>1 DEF Remembered
      <4>5. QED
        BY <1>3, <3>1, <3>2, <4>4
    <3>3. CASE ~(x.subject.sid = i0 /\ x.subject.pid = p0)
      <4>1. Entry(x.subject.sid, x.subject.pid)' = Entry(x.subject.sid, x.subject.pid)
        BY <1>3, <3>1, <3>3
      <4>2. x.k = k => conn[k].sub # x
        BY <1>2, <3>3
      <4>3. QED
        BY <1>0, <1>5, <3>1, <4>1, <4>2 DEF Remembered
    <3>4. QED
      BY <3>2, <3>3
  <2>2. EntriesLive'
    <3>1. \A i \in SessionIds, p \in PacketIds :
             Entry(i, p)' = sb \/ Entry(i, p)' = Entry(i, p)
      BY <1>3
    <3>2. QED
      BY <1>0, <1>1, <3>1 DEF EntriesLive
  <2>3. HandlersSubscribed'
    BY <1>0, <1>1, <1>2, <1>4, <1>5 DEF HandlersSubscribed
  <2>4. AnsweredOnce' /\ FreeIsQuiet'
    BY <1>0, <1>1, <1>4, <1>5 DEF AnsweredOnce, FreeIsQuiet
  <2>5. QED
    BY <2>1, <2>2, <2>3, <2>4 DEF SubsInv
<1>10. SlotOK(c0, p0)'
  <2>1. Line(cn, wire[k], pubacks[k], p0, sb, m, R, X, replied)
    <3>1. Handles(cn, wire[k], p0, sb, m, R, X)
      BY <1>4, <1>8 DEF Handles
    <3>2. Sends(wire[k], p0, sb, m)
      BY <1>8 DEF Sends
    <3>3. Acknowledges(pubacks[k], cn, wire[k], p0, sb, m, replied)
      BY <1>8 DEF Acknowledges
    <3>4. QED
      BY <3>1, <3>2, <3>3 DEF Line
  <2>2. m # 0
    BY <1>2, <1>8 DEF Packets, Msgs
  <2>3. Awaits(sb, m, R, X, replied)
    BY <1>8, <2>2 DEF Awaits
  <2>4. /\ sm'[c0] = i0 /\ sess'[i0].awaitsAck[p0] = sb /\ client'[c0].unacked[p0] = m
        /\ Requests(i0, p0)' = R /\ Replies(i0, p0)' = X /\ replied' = replied
    <3>1. sess'[i0].awaitsAck[p0] = sb
      BY <1>3 DEF Entry
    <3>2. QED
      BY <1>1, <1>2, <3>1 DEF m, R, X, Requests, Replies
  <2>5. ASSUME NEW j \in Conns, Serves(j, c0)'
        PROVE  Line(conn'[j], wire'[j], pubacks'[j], p0, sb, m, R, X, replied')
    <3>1. j = k
      BY <1>2, <1>6, <2>5, OneServes DEF AckInv
    <3>2. QED
      BY <1>1, <1>5, <2>1, <3>1
  <2>6. QED
    BY <2>3, <2>4, <2>5, SlotNew
<1>11. ASSUME NEW c \in ClientIds, NEW p \in PacketIds, c # c0 \/ p # p0
       PROVE  SlotOK(c, p)'
  <2>1. PICK i : i = sm[c]
    OBVIOUS
  <2>2. SlotOK(c, p) /\ sm' = sm /\ client' = client /\ replied' = replied
    BY <1>1 DEF AckInv, FlowInv, SlotInv
  <2>3. Requests(i, p)' = Requests(i, p) /\ Replies(i, p)' = Replies(i, p)
    BY <1>1 DEF Requests, Replies
  <2>4. sm'[c] # 0 => sess'[i].awaitsAck[p] = sess[i].awaitsAck[p]
    <3> SUFFICES ASSUME i # 0 PROVE Entry(i, p)' = Entry(i, p)
      BY <2>1, <2>2 DEF Entry
    <3>1. i \in SessionIds
      BY <1>0, <2>1 DEF TypeOK
    <3>2. i = i0 => c = c0
      BY <1>0, <1>2, <2>1, OneOwner
    <3>3. QED
      BY <1>3, <1>11, <3>1, <3>2
  <2>5. ASSUME NEW j \in Conns, Serves(j, c)'
        PROVE  /\ Serves(j, c)
               /\ LineKept(conn[j], wire[j], pubacks[j], conn'[j], wire'[j], pubacks'[j], p)
    <3>1. Serves(j, c)
      BY <1>6, <2>5
    <3>2. /\ wire[j] \in Seq(Packets) /\ pubacks[j] \in Seq(PacketIds)
          /\ wire' = wire /\ pubacks' = pubacks
      BY <1>0, <1>1 DEF TypeOK
    <3>3. PacketsKept(wire'[j], wire[j], p) /\ AcksKept(pubacks'[j], pubacks[j], p)
      BY <3>2, PacketsMoved, AcksMoved
    <3>4. j = k => p # p0
      BY <1>2, <1>11, <3>1 DEF Serves
    <3>5. Handling(conn'[j], p) => conn'[j] = conn[j]
      BY <1>2, <1>4, <1>5, <3>4 DEF Handling
    <3>6. QED
      BY <3>1, <3>3, <3>5 DEF LineKept
  <2>6. QED
    BY <1>0, <2>1, <2>2, <2>3, <2>4, <2>5, SlotKept
<1>12. QED
  BY <1>1, <1>9, <1>10, <1>11 DEF FlowInv, SlotInv, AckInv

LEMMA PublishRequestFlow ==
  ASSUME MaxReplies = 1, AckInv, TypeInv', NEW k \in Conns, PublishRequest(k)
  PROVE  FlowInv'
<1> USE DEF natsVars, sessionVars, mqttVars, ghosts, storage
<1>0. /\ TypeInv /\ TypeOK /\ TypeOK' /\ NameInv /\ conn \in [Conns -> Connection]
      /\ Remembered /\ EntriesLive /\ HandlersSubscribed /\ AnsweredOnce /\ FreeIsQuiet
  BY DEF AckInv, TypeInv, TypeOK, FlowInv, SubsInv
<1>1. /\ conn[k].at = "requested" /\ conn' = [conn EXCEPT ![k] = HandlerDone(k)]
      /\ requests' = requests \cup
           {[subject |-> conn[k].sub.subject, m |-> conn[k].pkt.m, left |-> MaxReplies]}
      /\ UNCHANGED <<sessionVars, subs, calls, mqttVars, ghosts, storage>>
  BY DEF PublishRequest
<1>2. PICK c0 \in ClientIds, p0 \in PacketIds, i0 \in SessionIds, sb \in subs :
         /\ c0 = conn[k].cid /\ Serves(k, c0) /\ p0 = conn[k].pkt.pid /\ i0 = conn[k].sid
         /\ i0 = sm[c0] /\ sb = conn[k].sub /\ sb.k = k
         /\ sb.subject.sid = i0 /\ sb.subject.pid = p0 /\ sb.subject.cid = c0
         /\ conn[k].pkt \in Packets
  BY <1>1, HandlerServes
<1>3. PICK r : /\ requests' = requests \cup {r} /\ r.subject = sb.subject
               /\ r.m = conn[k].pkt.m /\ r.left = 1
  <2> DEFINE q == [subject |-> conn[k].sub.subject, m |-> conn[k].pkt.m, left |-> MaxReplies]
  <2>1. q.subject = sb.subject /\ q.m = conn[k].pkt.m /\ q.left = 1
    BY <1>2
  <2>2. requests' = requests \cup {q}
    BY <1>1
  <2> HIDE DEF q
  <2>3. QED
    BY <2>1, <2>2
<1>4. PICK cn : /\ conn' = [conn EXCEPT ![k] = cn] /\ cn.at = "read"
                /\ cn.st = conn[k].st /\ cn.cid = conn[k].cid /\ cn.sid = conn[k].sid
  <2> DEFINE new == HandlerDone(k)
  <2>1. conn' = [conn EXCEPT ![k] = new]
    BY <1>1
  <2>2. new.at = "read" /\ new.st = conn[k].st /\ new.cid = conn[k].cid /\ new.sid = conn[k].sid
    BY <1>0 DEF Connection, HandlerDone
  <2> HIDE DEF new
  <2>3. QED
    BY <2>1, <2>2
<1>5. conn'[k] = cn /\ \A j \in Conns : j # k => conn'[j] = conn[j]
  BY <1>0, <1>4
<1>6. \A j \in Conns : \A c \in ClientIds : Serves(j, c)' => Serves(j, c)
  BY <1>4, <1>5 DEF Serves
<1> DEFINE e == Entry(i0, p0)
           m == client[c0].unacked[p0]
           R == Requests(i0, p0)
           X == Replies(i0, p0)
<1>7. /\ Awaits(e, m, R, X, replied)
      /\ Line(conn[k], wire[k], pubacks[k], p0, e, m, R, X, replied)
  <2>1. i0 # 0
    BY DEF SessionIds
  <2>2. QED
    BY <1>2, <2>1, SlotNow
<1>8. Requests(i0, p0)' = R \cup {r}
  BY <1>2, <1>3 DEF Requests
<1> HIDE DEF e, m, R, X
<1>9. /\ conn[k].pkt.m = m /\ e = sb /\ R = {} /\ X = {}
  BY <1>1, <1>2, <1>7 DEF Line, Handles, Handling
<1>10. SubsInv'
  <2>1. Remembered'
    BY <1>0, <1>1, <1>5, SubServes DEF Remembered, Entry
  <2>2. EntriesLive'
    BY <1>0, <1>1 DEF EntriesLive, Entry
  <2>3. HandlersSubscribed'
    BY <1>0, <1>1, <1>4, <1>5 DEF HandlersSubscribed
  <2>4. AnsweredOnce'
    <3>1. r.subject.sid <= seed
      BY <1>2, <1>3, SubServes
    <3>2. QED
      BY <1>0, <1>1, <1>3, <3>1 DEF AnsweredOnce
  <2>5. FreeIsQuiet'
    BY <1>0, <1>1, <1>4, <1>5 DEF FreeIsQuiet
  <2>6. QED
    BY <2>1, <2>2, <2>3, <2>4, <2>5 DEF SubsInv
<1>11. SlotOK(c0, p0)'
  <2>1. Line(cn, wire[k], pubacks[k], p0, e, m, {r}, X, replied)
    <3>1. Handles(cn, wire[k], p0, e, m, {r}, X)
      BY <1>4 DEF Handles, Handling
    <3>2. Sends(wire[k], p0, e, m)
      BY <1>7 DEF Line
    <3>3. Acknowledges(pubacks[k], cn, wire[k], p0, e, m, replied)
      BY <1>4, <1>7 DEF Line, Acknowledges, Handling
    <3>4. QED
      BY <3>1, <3>2, <3>3 DEF Line
  <2>2. Awaits(e, m, {r}, X, replied)
    <3>1. sb # None
      BY <1>0, NilAssumption DEF TypeOK
    <3>2. QED
      BY <1>3, <1>7, <1>9, <3>1 DEF Awaits
  <2>3. /\ sm'[c0] = i0 /\ sess'[i0].awaitsAck[p0] = e /\ client'[c0].unacked[p0] = m
        /\ Requests(i0, p0)' = {r} /\ Replies(i0, p0)' = X /\ replied' = replied
    <3>1. Requests(i0, p0)' = {r}
      BY <1>8, <1>9
    <3>2. QED
      BY <1>1, <1>2, <3>1 DEF e, m, X, Entry, Replies
  <2>4. ASSUME NEW j \in Conns, Serves(j, c0)'
        PROVE  Line(conn'[j], wire'[j], pubacks'[j], p0, e, m, {r}, X, replied')
    <3>1. j = k
      BY <1>2, <1>6, <2>4, OneServes DEF AckInv
    <3>2. QED
      BY <1>1, <1>5, <2>1, <3>1
  <2>5. QED
    BY <2>2, <2>3, <2>4, SlotNew
<1>12. ASSUME NEW c \in ClientIds, NEW p \in PacketIds, c # c0 \/ p # p0
       PROVE  SlotOK(c, p)'
  <2>1. PICK i : i = sm[c]
    OBVIOUS
  <2>2. /\ SlotOK(c, p) /\ sm' = sm /\ client' = client /\ replied' = replied /\ sess' = sess
    BY <1>1 DEF AckInv, FlowInv, SlotInv
  <2>3. Replies(i, p)' = Replies(i, p)
    BY <1>1 DEF Replies
  <2>4. sm'[c] # 0 => Requests(i, p)' = Requests(i, p)
    <3> SUFFICES ASSUME i # 0 PROVE Requests(i, p)' = Requests(i, p)
      BY <2>1, <2>2
    <3>1. i = i0 => c = c0
      BY <1>0, <1>2, <2>1, OneOwner
    <3>2. ~(r.subject.sid = i /\ r.subject.pid = p)
      BY <1>2, <1>3, <1>12, <3>1
    <3>3. QED
      BY <1>3, <3>2 DEF Requests
  <2>5. ASSUME NEW j \in Conns, Serves(j, c)'
        PROVE  /\ Serves(j, c)
               /\ LineKept(conn[j], wire[j], pubacks[j], conn'[j], wire'[j], pubacks'[j], p)
    <3>1. Serves(j, c)
      BY <1>6, <2>5
    <3>2. /\ wire[j] \in Seq(Packets) /\ pubacks[j] \in Seq(PacketIds)
          /\ wire' = wire /\ pubacks' = pubacks
      BY <1>0, <1>1 DEF TypeOK
    <3>3. PacketsKept(wire'[j], wire[j], p) /\ AcksKept(pubacks'[j], pubacks[j], p)
      BY <3>2, PacketsMoved, AcksMoved
    <3>4. Handling(conn'[j], p) => conn'[j] = conn[j]
      BY <1>4, <1>5 DEF Handling
    <3>5. QED
      BY <3>1, <3>3, <3>4 DEF LineKept
  <2>6. QED
    BY <1>0, <2>1, <2>2, <2>3, <2>4, <2>5, SlotKept
<1>13. QED
  BY <1>1, <1>10, <1>11, <1>12 DEF FlowInv, SlotInv, AckInv

LEMMA ReplyFlow ==
  ASSUME AckInv, TypeInv', NEW r \in requests, Reply(r)
  PROVE  FlowInv'
<1> USE DEF natsVars, sessionVars, mqttVars, ghosts, storage
<1>0. /\ TypeInv /\ TypeOK /\ TypeOK' /\ NameInv /\ conn \in [Conns -> Connection]
      /\ Remembered /\ EntriesLive /\ HandlersSubscribed /\ AnsweredOnce /\ FreeIsQuiet
  BY DEF AckInv, TypeInv, TypeOK, FlowInv, SubsInv
<1>1. /\ requests' = requests \ {r}
      /\ UNCHANGED <<conn, sessionVars, subs, mqttVars, published, acked, storage>>
      /\ replied' = replied \cup {r.m}
      /\ \A x \in calls' : x \in calls \/ (x.sub \in subs /\ x.sub.subject = r.subject /\ x.m = r.m)
  <2>1. r.left = 1
    BY <1>0 DEF AnsweredOnce
  <2>2. calls' = calls \cup {[sub |-> sb, m |-> r.m] : sb \in {x \in subs : x.subject = r.subject}}
    BY DEF Reply
  <2>3. \A x \in calls' : x \in calls \/ (x.sub \in subs /\ x.sub.subject = r.subject /\ x.m = r.m)
    BY <2>2
  <2>4. QED
    BY <2>1, <2>3 DEF Reply
<1>2. PICK i0 \in SessionIds, p0 \in PacketIds : i0 = r.subject.sid /\ p0 = r.subject.pid
  BY <1>0 DEF TypeOK, Subjects
<1>3. SubsInv'
  <2>1. Remembered' /\ EntriesLive' /\ HandlersSubscribed' /\ FreeIsQuiet'
    BY <1>0, <1>1 DEF Remembered, EntriesLive, HandlersSubscribed, FreeIsQuiet, Entry
  <2>2. AnsweredOnce'
    BY <1>0, <1>1 DEF AnsweredOnce
  <2>3. QED
    BY <2>1, <2>2 DEF SubsInv
<1>4. \A j \in Conns : \A c \in ClientIds : Serves(j, c)' => Serves(j, c)
  BY <1>1 DEF Serves
<1>5. ASSUME NEW c0 \in ClientIds, i0 = sm[c0]
      PROVE  SlotOK(c0, p0)'
  <2> DEFINE e == Entry(i0, p0)
             m == client[c0].unacked[p0]
             R == Requests(i0, p0)
             X == Replies(i0, p0)
  <2>1. /\ Awaits(e, m, R, X, replied)
        /\ \A k \in Conns : Serves(k, c0) =>
              Line(conn[k], wire[k], pubacks[k], p0, e, m, R, X, replied)
    <3>1. i0 # 0
      BY DEF SessionIds
    <3>2. QED
      BY <1>5, <3>1, SlotNow
  <2>2. r \in R
    BY <1>2 DEF Requests
  <2>3. PICK X2 : X2 = Replies(i0, p0)'
    OBVIOUS
  <2>4. \A x \in X2 : x \in X \/ (x.sub \in subs /\ x.sub.subject = r.subject /\ x.m = r.m)
    BY <1>1, <2>3 DEF Replies
  <2>5. ASSUME NEW sb \in subs, sb.subject = r.subject
        PROVE  sb = e \/ \E k \in Conns : Serves(k, c0) /\ Handling(conn[k], p0)
    <3>1. /\ sb.k \in Conns /\ Serves(sb.k, sb.subject.cid) /\ sm[sb.subject.cid] = i0
          /\ sb.subject.cid \in ClientIds /\ i0 # 0
      BY <1>2, <2>5, SubServes
    <3>2. sb.subject.cid = c0
      BY <1>0, <1>5, <3>1, OneOwner
    <3>3. CASE conn[sb.k].at = "subscribed" /\ conn[sb.k].sub = sb
      <4>1. Handling(conn[sb.k], p0)
        BY <1>2, <2>5, <3>1, <3>3, HandlerServes DEF Handling
      <4>2. QED
        BY <3>1, <3>2, <4>1
    <3>4. CASE Entry(sb.subject.sid, sb.subject.pid) = sb
      BY <1>2, <2>5, <3>4
    <3>5. QED
      BY <1>0, <3>3, <3>4 DEF Remembered
  <2> HIDE DEF e, m, R, X
  <2>6. e # None /\ r.m = m /\ X = {} /\ R = {r}
    BY <2>1, <2>2 DEF Awaits
  <2>7. ASSUME NEW k \in Conns, Serves(k, c0)
        PROVE  ~Handling(conn[k], p0)
    BY <2>1, <2>2, <2>7 DEF Line, Handles
  <2>8. \A x \in X2 : x.sub = e /\ x.m = m
    BY <2>4, <2>5, <2>6, <2>7
  <2>9. m \in replied'
    BY <1>1, <2>6
  <2>10. m # 0
    BY <2>1, <2>6 DEF Awaits
  <2>11. Awaits(e, m, {}, X2, replied')
    BY <2>6, <2>8, <2>9, <2>10 DEF Awaits
  <2>12. ASSUME NEW k \in Conns, Serves(k, c0)'
         PROVE  Line(conn'[k], wire'[k], pubacks'[k], p0, e, m, {}, X2, replied')
    <3>1. Serves(k, c0) /\ UNCHANGED <<conn, wire, pubacks>>
      BY <1>1, <1>4, <2>12
    <3>2. /\ Sends(wire[k], p0, e, m) /\ Acknowledges(pubacks[k], conn[k], wire[k], p0, e, m, replied)
          /\ ~Handling(conn[k], p0)
      BY <2>1, <2>7, <3>1 DEF Line
    <3>3. Acknowledges(pubacks[k], conn[k], wire[k], p0, e, m, replied')
      BY <1>1, <3>2 DEF Acknowledges
    <3>4. Handles(conn[k], wire[k], p0, e, m, {}, X2)
      BY <3>2 DEF Handles
    <3>5. QED
      BY <3>1, <3>2, <3>3, <3>4 DEF Line
  <2>13. Requests(i0, p0)' = {}
    <3>1. Requests(i0, p0)' = R \ {r}
      BY <1>1 DEF R, Requests
    <3>2. QED
      BY <2>6, <3>1
  <2>14. sm'[c0] = i0 /\ sess'[i0].awaitsAck[p0] = e /\ client'[c0].unacked[p0] = m
    BY <1>1, <1>5 DEF e, m, Entry
  <2>15. QED
    BY <2>3, <2>11, <2>12, <2>13, <2>14, SlotNew
<1>6. ASSUME NEW c \in ClientIds, NEW p \in PacketIds, sm[c] # i0 \/ p # p0
      PROVE  SlotOK(c, p)'
  <2>1. PICK i : i = sm[c]
    OBVIOUS
  <2>2. /\ SlotOK(c, p) /\ UNCHANGED <<sm, client, sess, conn, wire, pubacks>>
        /\ replied \subseteq replied'
    BY <1>1 DEF AckInv, FlowInv, SlotInv
  <2>3. i # i0 \/ p # p0
    BY <1>6, <2>1
  <2>4. Replies(i, p)' \subseteq Replies(i, p)
    BY <1>1, <1>2, <2>3 DEF Replies
  <2>5. Requests(i, p)' = Requests(i, p)
    BY <1>1, <1>2, <2>3 DEF Requests
  <2>6. ASSUME NEW j \in Conns, Serves(j, c)'
        PROVE  /\ Serves(j, c)
               /\ LineKept(conn[j], wire[j], pubacks[j], conn'[j], wire'[j], pubacks'[j], p)
    <3>1. Serves(j, c)
      BY <1>4, <2>6
    <3>2. wire[j] \in Seq(Packets) /\ pubacks[j] \in Seq(PacketIds)
      BY <1>0 DEF TypeOK
    <3>3. PacketsKept(wire'[j], wire[j], p) /\ AcksKept(pubacks'[j], pubacks[j], p)
      BY <2>2, <3>2, PacketsMoved, AcksMoved
    <3>4. QED
      BY <2>2, <3>1, <3>3 DEF LineKept
  <2>7. QED
    BY <1>0, <2>1, <2>2, <2>4, <2>5, <2>6, SlotKept
<1>7. SlotInv'
  BY <1>5, <1>6 DEF SlotInv
<1>8. QED
  BY <1>1, <1>3, <1>7 DEF FlowInv, AckInv

LEMMA ReplyCallbackFlow ==
  ASSUME AckInv, TypeInv', NEW call \in calls, ReplyCallback(call)
  PROVE  FlowInv'
<1> USE DEF natsVars, sessionVars, mqttVars, ghosts, storage
<1>0. /\ TypeInv /\ TypeOK /\ TypeOK' /\ NameInv /\ conn \in [Conns -> Connection]
      /\ sess \in [SessionIds -> Session] /\ pubacks \in [Conns -> Seq(PacketIds)]
      /\ Remembered /\ EntriesLive /\ HandlersSubscribed /\ AnsweredOnce /\ FreeIsQuiet
  BY DEF AckInv, TypeInv, TypeOK, FlowInv, SubsInv
<1>1. UNCHANGED <<conn, sm, seed, requests, wire, client, ghosts, storage>> /\ calls' \subseteq calls
  BY DEF ReplyCallback
<1>2. \A j \in Conns : \A c \in ClientIds : Serves(j, c)' => Serves(j, c)
  BY <1>1 DEF Serves
<1>3. PICK c0 \in ClientIds, p0 \in PacketIds, i0 \in SessionIds, sb \in subs, k \in Conns :
         /\ sb = call.sub /\ k = sb.k /\ c0 = sb.subject.cid /\ p0 = sb.subject.pid
         /\ i0 = sb.subject.sid /\ i0 = sm[c0] /\ Serves(k, c0) /\ k # None /\ i0 # 0
  <2>1. call.sub \in subs
    BY DEF AckInv, ConnInv, QueuedCalls
  <2>2. QED
    BY <2>1, SubServes
<1> DEFINE e == Entry(i0, p0)
           m == client[c0].unacked[p0]
           R == Requests(i0, p0)
           X == Replies(i0, p0)
<1>4. /\ Awaits(e, m, R, X, replied)
      /\ \A j \in Conns : Serves(j, c0) =>
            Line(conn[j], wire[j], pubacks[j], p0, e, m, R, X, replied)
  BY <1>3, SlotNow
<1>5. call \in X
  BY <1>3 DEF Replies
<1>6. \A x \in calls : x \in X <=> x.sub.subject.sid = i0 /\ x.sub.subject.pid = p0
  BY DEF Replies
<1> HIDE DEF e, m, R, X
<1>7. /\ e # None /\ e = sb /\ m \in replied /\ m # 0 /\ R = {}
      /\ \A x \in X : x.sub = sb
  BY <1>3, <1>4, <1>5 DEF Awaits
<1>8. ASSUME NEW j \in Conns, Serves(j, c0)
      PROVE  /\ ~Handling(conn[j], p0)
             /\ \A h \in DOMAIN wire[j] : wire[j][h].pid # p0
             /\ \A h \in DOMAIN pubacks[j] : pubacks[j][h] # p0
  <2>1. Line(conn[j], wire[j], pubacks[j], p0, e, m, R, X, replied)
    BY <1>4, <1>8
  <2>2. e.k # None
    BY <1>3, <1>7
  <2>3. QED
    BY <1>5, <1>7, <2>1, <2>2 DEF Line, Handles, Sends, Acknowledges
<1>9. CASE ~SessionFound(call.sub.subject)
  <2>1. UNCHANGED <<sess, subs, pubacks>>
    BY <1>9 DEF ReplyCallback
  <2>2. SubsInv'
    BY <1>0, <1>1, <2>1 DEF SubsInv, Remembered, EntriesLive, HandlersSubscribed, AnsweredOnce,
                            FreeIsQuiet, Entry
  <2>3. ASSUME NEW c \in ClientIds, NEW p \in PacketIds
        PROVE  SlotOK(c, p)'
    <3>1. PICK i : i = sm[c]
      OBVIOUS
    <3>2. /\ SlotOK(c, p) /\ UNCHANGED <<sm, client, sess, conn, wire, pubacks, replied>>
      BY <1>1, <2>1 DEF AckInv, FlowInv, SlotInv
    <3>3. Replies(i, p)' \subseteq Replies(i, p) /\ Requests(i, p)' = Requests(i, p)
      BY <1>1 DEF Replies, Requests
    <3>4. ASSUME NEW j \in Conns, Serves(j, c)'
          PROVE  /\ Serves(j, c)
                 /\ LineKept(conn[j], wire[j], pubacks[j], conn'[j], wire'[j], pubacks'[j], p)
      <4>1. wire[j] \in Seq(Packets) /\ pubacks[j] \in Seq(PacketIds)
        BY <1>0 DEF TypeOK
      <4>2. PacketsKept(wire'[j], wire[j], p) /\ AcksKept(pubacks'[j], pubacks[j], p)
        BY <3>2, <4>1, PacketsMoved, AcksMoved
      <4>3. QED
        BY <1>2, <3>2, <3>4, <4>2 DEF LineKept
    <3>5. QED
      BY <1>0, <3>1, <3>2, <3>3, <3>4, SlotKept
  <2>4. QED
    BY <1>1, <2>2, <2>3 DEF FlowInv, SlotInv, AckInv
<1>10. CASE SessionFound(call.sub.subject)
  <2>1. /\ subs' = subs \ {sb} /\ calls' = {x \in calls \ {call} : x.sub \in subs'}
        /\ pubacks' = QueuePubAck(k, p0)
        /\ sess' = [sess EXCEPT ![i0].awaitsAck[p0] = None]
    BY <1>3, <1>7, <1>10 DEF ReplyCallback, Unsubscribed, e, Entry
  <2>2. pubacks' = pubacks \/ pubacks' = [pubacks EXCEPT ![k] = Append(@, p0)]
    BY <2>1 DEF QueuePubAck
  <2>3. \A i \in SessionIds, p \in PacketIds :
           Entry(i, p)' = IF i = i0 /\ p = p0 THEN None ELSE Entry(i, p)
    <3> DEFINE s == [sess[i0] EXCEPT !.awaitsAck[p0] = None]
    <3>1. sess' = [sess EXCEPT ![i0] = s]
      BY <1>0, <2>1
    <3>2. \A p \in PacketIds : s.awaitsAck[p] = IF p = p0 THEN None ELSE sess[i0].awaitsAck[p]
      BY <1>0 DEF Session
    <3> HIDE DEF s
    <3>3. QED
      BY <1>0, <3>1, <3>2 DEF Entry
  <2>4. SubsInv'
    <3>1. Remembered'
      <4> SUFFICES ASSUME NEW x \in subs, x # sb
                   PROVE  \/ Entry(x.subject.sid, x.subject.pid)' = x
                          \/ conn[x.k].at = "subscribed" /\ conn[x.k].sub = x
        BY <1>1, <2>1 DEF Remembered, Entry
      <4>1. x.subject.sid \in SessionIds /\ x.subject.pid \in PacketIds
        BY SubServes
      <4>2. Entry(x.subject.sid, x.subject.pid) = x =>
               ~(x.subject.sid = i0 /\ x.subject.pid = p0)
        BY <1>7 DEF e
      <4>3. QED
        BY <1>0, <2>3, <4>1, <4>2 DEF Remembered
    <3>2. EntriesLive'
      <4> SUFFICES ASSUME NEW i \in SessionIds, NEW p \in PacketIds,
                          ~(i = i0 /\ p = p0), Entry(i, p) # None, Entry(i, p).k # None
                   PROVE  Entry(i, p) \in subs \ {sb}
        BY <2>1, <2>3 DEF EntriesLive
      <4>1. Entry(i, p) \in subs
        BY <1>0 DEF EntriesLive
      <4>2. Entry(i, p).subject.sid = i /\ Entry(i, p).subject.pid = p
        BY <1>0, EntryNames
      <4>3. QED
        BY <1>3, <4>1, <4>2
    <3>3. HandlersSubscribed'
      <4> SUFFICES ASSUME NEW j \in Conns, conn[j].at # "read"
                   PROVE  conn[j].sub \in subs \ {sb} /\ conn[j].sub.k = j
        BY <1>1, <2>1 DEF HandlersSubscribed
      <4>1. /\ conn[j].sub \in subs /\ conn[j].sub.k = j
            /\ conn[j].sub.subject.pid = conn[j].pkt.pid
        BY HandlerServes
      <4>2. conn[j].sub # sb
        BY <1>3, <1>8, <4>1 DEF Handling
      <4>3. QED
        BY <4>1, <4>2
    <3>4. AnsweredOnce'
      BY <1>0, <1>1 DEF AnsweredOnce
    <3>5. FreeIsQuiet'
      <4>1. conn[k].st # "free"
        BY <1>3 DEF Serves
      <4>2. QED
        BY <1>0, <1>1, <2>2, <4>1 DEF FreeIsQuiet
    <3>6. QED
      BY <3>1, <3>2, <3>3, <3>4, <3>5 DEF SubsInv
  <2>5. SlotOK(c0, p0)'
    <3>1. Replies(i0, p0)' = {}
      <4>1. \A x \in calls' : x \in calls /\ x.sub # sb
        BY <2>1
      <4>2. QED
        BY <1>6, <1>7, <4>1 DEF Replies
    <3>2. /\ sm'[c0] = i0 /\ sess'[i0].awaitsAck[p0] = None /\ client'[c0].unacked[p0] = m
          /\ Requests(i0, p0)' = {} /\ replied' = replied
      <4>1. sess'[i0].awaitsAck[p0] = None
        BY <2>3 DEF Entry
      <4>2. Requests(i0, p0)' = R
        BY <1>1 DEF R, Requests
      <4>3. QED
        BY <1>1, <1>3, <1>7, <4>1, <4>2 DEF m
    <3>3. Awaits(None, m, {}, {}, replied')
      BY DEF Awaits
    <3>4. ASSUME NEW j \in Conns, Serves(j, c0)'
          PROVE  Line(conn'[j], wire'[j], pubacks'[j], p0, None, m, {}, {}, replied')
      <4>1. Serves(j, c0) /\ UNCHANGED <<conn, wire>>
        BY <1>1, <1>2, <3>4
      <4>2. PICK a : a = pubacks'[j] /\ (a = pubacks[j] \/ a = Append(pubacks[j], p0))
        BY <1>0, <2>2
      <4>3. pubacks[j] \in Seq(PacketIds)
        BY <1>0
      <4>4. \A g, h \in DOMAIN a : a[g] = p0 /\ a[h] = p0 => g = h
        BY <1>8, <4>1, <4>2, <4>3
      <4>5. Acknowledges(a, conn[j], wire[j], p0, None, m, replied')
        BY <1>7, <1>8, <3>2, <4>1, <4>4 DEF Acknowledges
      <4>6. Handles(conn[j], wire[j], p0, None, m, {}, {})
        BY <1>8, <4>1 DEF Handles
      <4>7. Sends(wire[j], p0, None, m)
        BY <1>8, <4>1 DEF Sends
      <4>8. QED
        BY <4>1, <4>2, <4>5, <4>6, <4>7 DEF Line
    <3>5. QED
      BY <3>1, <3>2, <3>3, <3>4, SlotNew
  <2>6. ASSUME NEW c \in ClientIds, NEW p \in PacketIds, c # c0 \/ p # p0
        PROVE  SlotOK(c, p)'
    <3>1. PICK i : i = sm[c]
      OBVIOUS
    <3>2. /\ SlotOK(c, p) /\ UNCHANGED <<sm, client, conn, wire, replied>>
      BY <1>1 DEF AckInv, FlowInv, SlotInv
    <3>3. Replies(i, p)' \subseteq Replies(i, p) /\ Requests(i, p)' = Requests(i, p)
      BY <1>1 DEF Replies, Requests
    <3>4. sm'[c] # 0 => sess'[i].awaitsAck[p] = sess[i].awaitsAck[p]
      <4> SUFFICES ASSUME i # 0 PROVE Entry(i, p)' = Entry(i, p)
        BY <3>1, <3>2 DEF Entry
      <4>1. i \in SessionIds
        BY <1>0, <3>1 DEF TypeOK
      <4>2. i = i0 => c = c0
        BY <1>0, <1>3, <3>1, OneOwner
      <4>3. QED
        BY <2>3, <2>6, <4>1, <4>2
    <3>5. ASSUME NEW j \in Conns, Serves(j, c)'
          PROVE  /\ Serves(j, c)
                 /\ LineKept(conn[j], wire[j], pubacks[j], conn'[j], wire'[j], pubacks'[j], p)
      <4>1. wire[j] \in Seq(Packets) /\ pubacks[j] \in Seq(PacketIds)
        BY <1>0 DEF TypeOK
      <4>2. Serves(j, c)
        BY <1>2, <3>5
      <4>3. j = k => p # p0
        BY <1>3, <2>6, <4>2 DEF Serves
      <4>4. AcksKept(pubacks'[j], pubacks[j], p)
        <5>1. pubacks'[j] = pubacks[j] \/ (j = k /\ pubacks'[j] = Append(pubacks[j], p0))
          BY <1>0, <2>2
        <5>2. QED
          BY <4>1, <4>3, <5>1, AcksMoved, AcksAppended
      <4>5. PacketsKept(wire'[j], wire[j], p)
        BY <3>2, <4>1, PacketsMoved
      <4>6. QED
        BY <3>2, <4>2, <4>4, <4>5 DEF LineKept
    <3>6. QED
      BY <1>0, <3>1, <3>2, <3>3, <3>4, <3>5, SlotKept
  <2>7. QED
    BY <1>1, <2>4, <2>5, <2>6 DEF FlowInv, SlotInv, AckInv
<1>11. QED
  BY <1>9, <1>10

LEMMA PublishFlow ==
  ASSUME AckInv, TypeInv', NEW c0 \in ClientIds, NEW p0 \in PacketIds, Publish(c0, p0)
  PROVE  FlowInv'
<1> USE DEF natsVars, sessionVars, mqttVars, ghosts, storage
<1>0. /\ TypeInv /\ TypeOK /\ TypeOK' /\ NameInv /\ wire \in [Conns -> Seq(Packets)]
      /\ Remembered /\ EntriesLive /\ HandlersSubscribed /\ AnsweredOnce /\ FreeIsQuiet
      /\ client \in [ClientIds -> [k : Conns \cup {None}, unacked : [PacketIds -> Msgs \cup {0}]]]
  BY DEF AckInv, TypeInv, TypeOK, FlowInv, SubsInv
<1>1. PICK k \in Conns : k = client[c0].k /\ Serves(k, c0)
  <2>1. client[c0].k # None /\ client[c0].k \in Conns \cup {None}
    BY <1>0 DEF Publish
  <2>2. QED
    BY <2>1 DEF AckInv, ConnInv, ClientsServed
<1>2. PICK m : m = published + 1 /\ m \in Msgs
  BY DEF Publish
<1>3. PICK pkt \in Packets : pkt.pid = p0 /\ pkt.m = m /\ wire' = [wire EXCEPT ![k] = Append(@, pkt)]
  <2> DEFINE q == [pid |-> p0, dup |-> FALSE, m |-> m]
  <2>1. q \in Packets /\ q.pid = p0 /\ q.m = m
    BY <1>2 DEF Packets
  <2>2. wire' = [wire EXCEPT ![k] = Append(@, q)]
    BY <1>1, <1>2 DEF Publish
  <2> HIDE DEF q
  <2>3. QED
    BY <2>1, <2>2
<1>4. /\ client[c0].unacked[p0] = 0 /\ client' = [client EXCEPT ![c0].unacked[p0] = m]
      /\ UNCHANGED <<conn, sessionVars, natsVars, pubacks, replied, acked, storage>>
  BY <1>2 DEF Publish
<1>5. \A c \in ClientIds, p \in PacketIds :
         client'[c].unacked[p] = IF c = c0 /\ p = p0 THEN m ELSE client[c].unacked[p]
  BY <1>0, <1>4
<1>6. \A j \in Conns : \A c \in ClientIds : Serves(j, c)' => Serves(j, c)
  BY <1>4 DEF Serves
<1>7. SubsInv'
  BY <1>0, <1>4 DEF SubsInv, Remembered, EntriesLive, HandlersSubscribed, AnsweredOnce,
                    FreeIsQuiet, Entry
<1>8. SlotOK(c0, p0)'
  <2>1. PICK i : i = sm[c0] /\ i # 0
    BY <1>1, ServesNames DEF AckInv
  <2> DEFINE e == Entry(i, p0)
             R == Requests(i, p0)
             X == Replies(i, p0)
  <2>2. /\ Awaits(e, 0, R, X, replied)
        /\ Line(conn[k], wire[k], pubacks[k], p0, e, 0, R, X, replied)
    BY <1>1, <1>4, <2>1, SlotNow
  <2>3. /\ sm'[c0] = i /\ sess'[i].awaitsAck[p0] = e /\ client'[c0].unacked[p0] = m
        /\ Requests(i, p0)' = R /\ Replies(i, p0)' = X /\ replied' = replied
    BY <1>4, <1>5, <2>1 DEF Entry, Requests, Replies
  <2> HIDE DEF e, R, X
  <2>4. e = None /\ R = {} /\ X = {}
    BY <2>2 DEF Awaits
  <2>5. ~Handling(conn[k], p0)
    <3>1. Handling(conn[k], p0) => conn[k].pkt.m = 0
      BY <2>2 DEF Line, Handles
    <3>2. Handling(conn[k], p0) => conn[k].pkt \in Packets
      BY HandlerServes DEF Handling
    <3>3. QED
      BY <3>1, <3>2 DEF Packets, Msgs
  <2>6. \A j \in DOMAIN wire[k] : wire[k][j].pid # p0
    <3>1. \A q \in Packets : q.m # 0
      BY DEF Packets, Msgs
    <3>2. \A j \in DOMAIN wire[k] : wire[k][j] \in Packets
      BY <1>0
    <3>3. QED
      BY <2>2, <3>1, <3>2 DEF Line, Sends
  <2>7. \A j \in DOMAIN pubacks[k] : pubacks[k][j] # p0
    BY <2>2 DEF Line, Acknowledges
  <2>8. PICK w : w = Append(wire[k], pkt)
    OBVIOUS
  <2>9. \A j \in DOMAIN w : w[j].pid = p0 =>
           w[j].m = m /\ \A h \in DOMAIN w : w[h].pid = p0 => h = j
    BY <1>0, <1>3, <2>6, <2>8
  <2>10. Line(conn[k], w, pubacks[k], p0, e, m, R, X, replied)
    <3>1. Handles(conn[k], w, p0, e, m, R, X)
      BY <2>5 DEF Handles
    <3>2. Sends(w, p0, e, m)
      BY <2>4, <2>9 DEF Sends
    <3>3. Acknowledges(pubacks[k], conn[k], w, p0, e, m, replied)
      BY <2>7 DEF Acknowledges
    <3>4. QED
      BY <3>1, <3>2, <3>3 DEF Line
  <2>11. Awaits(e, m, R, X, replied)
    BY <2>4 DEF Awaits
  <2>12. ASSUME NEW j \in Conns, Serves(j, c0)'
         PROVE  Line(conn'[j], wire'[j], pubacks'[j], p0, e, m, R, X, replied')
    <3>1. j = k
      BY <1>1, <1>6, <2>12, OneServes DEF AckInv
    <3>2. wire'[j] = w
      BY <1>0, <1>3, <2>8, <3>1
    <3>3. QED
      BY <1>4, <2>3, <2>10, <3>1, <3>2
  <2>13. replied' = replied
    BY <2>3
  <2>14. QED
    BY <2>3, <2>11, <2>12, <2>13, SlotNew
<1>9. ASSUME NEW c \in ClientIds, NEW p \in PacketIds, c # c0 \/ p # p0
      PROVE  SlotOK(c, p)'
  <2>1. PICK i : i = sm[c]
    OBVIOUS
  <2>2. /\ SlotOK(c, p) /\ UNCHANGED <<sm, sess, conn, pubacks, replied>>
    BY <1>4 DEF AckInv, FlowInv, SlotInv
  <2>3. /\ Requests(i, p)' = Requests(i, p) /\ Replies(i, p)' = Replies(i, p)
        /\ client'[c].unacked[p] = client[c].unacked[p]
    BY <1>4, <1>5, <1>9 DEF Requests, Replies
  <2>4. ASSUME NEW j \in Conns, Serves(j, c)'
        PROVE  /\ Serves(j, c)
               /\ LineKept(conn[j], wire[j], pubacks[j], conn'[j], wire'[j], pubacks'[j], p)
    <3>1. wire[j] \in Seq(Packets) /\ pubacks[j] \in Seq(PacketIds)
      BY <1>0 DEF TypeOK
    <3>2. Serves(j, c)
      BY <1>6, <2>4
    <3>3. j = k => p # p0
      BY <1>1, <1>9, <3>2 DEF Serves
    <3>4. PacketsKept(wire'[j], wire[j], p)
      <4>1. wire'[j] = wire[j] \/ (j = k /\ wire'[j] = Append(wire[j], pkt))
        BY <1>0, <1>3
      <4>2. QED
        BY <1>3, <3>1, <3>3, <4>1, PacketsMoved, PacketsAppended
    <3>5. AcksKept(pubacks'[j], pubacks[j], p)
      BY <2>2, <3>1, AcksMoved
    <3>6. QED
      BY <2>2, <3>2, <3>4, <3>5 DEF LineKept
  <2>5. QED
    BY <1>0, <2>1, <2>2, <2>3, <2>4, SlotKept
<1>10. QED
  BY <1>4, <1>7, <1>8, <1>9 DEF FlowInv, SlotInv, AckInv

LEMMA ReceivePubAckFlow ==
  ASSUME AckInv, TypeInv', NEW c0 \in ClientIds, ReceivePubAck(c0)
  PROVE  FlowInv'
<1> USE DEF natsVars, sessionVars, mqttVars, ghosts, storage
<1>0. /\ TypeInv /\ TypeOK /\ TypeOK' /\ NameInv /\ pubacks \in [Conns -> Seq(PacketIds)]
      /\ Remembered /\ EntriesLive /\ HandlersSubscribed /\ AnsweredOnce /\ FreeIsQuiet
      /\ client \in [ClientIds -> [k : Conns \cup {None}, unacked : [PacketIds -> Msgs \cup {0}]]]
      /\ acked \subseteq replied
  BY DEF AckInv, TypeInv, TypeOK, FlowInv, SubsInv
<1>1. PICK k \in Conns : k = client[c0].k /\ Serves(k, c0)
  <2>1. client[c0].k # None /\ client[c0].k \in Conns \cup {None}
    BY <1>0 DEF ReceivePubAck
  <2>2. QED
    BY <2>1 DEF AckInv, ConnInv, ClientsServed
<1>2. PICK p0 : p0 = Head(pubacks[k])
  OBVIOUS
<1>3. /\ pubacks[k] # <<>> /\ pubacks' = [pubacks EXCEPT ![k] = Tail(@)]
      /\ client' = [client EXCEPT ![c0].unacked[p0] = 0]
      /\ acked' = acked \cup ({client[c0].unacked[p0]} \ {0})
      /\ UNCHANGED <<conn, sessionVars, natsVars, wire, published, replied, storage>>
  BY <1>1, <1>2 DEF ReceivePubAck
<1>4. /\ p0 \in PacketIds /\ 1 \in DOMAIN pubacks[k] /\ pubacks[k][1] = p0
      /\ \A j \in DOMAIN Tail(pubacks[k]) : /\ j + 1 \in DOMAIN pubacks[k] /\ j + 1 # 1
                                            /\ Tail(pubacks[k])[j] = pubacks[k][j + 1]
  BY <1>0, <1>2, <1>3
<1>5. \A c \in ClientIds, p \in PacketIds :
         client'[c].unacked[p] = IF c = c0 /\ p = p0 THEN 0 ELSE client[c].unacked[p]
  BY <1>0, <1>3, <1>4
<1>6. \A j \in Conns : \A c \in ClientIds : Serves(j, c)' => Serves(j, c)
  BY <1>3 DEF Serves
<1>7. SubsInv'
  <2>1. FreeIsQuiet'
    BY <1>0, <1>1, <1>3 DEF FreeIsQuiet, Serves
  <2>2. QED
    BY <1>0, <1>3, <2>1 DEF SubsInv, Remembered, EntriesLive, HandlersSubscribed, AnsweredOnce,
                            Entry
<1>8. PICK i : i = sm[c0] /\ i # 0
  BY <1>1, ServesNames DEF AckInv
<1> DEFINE e == Entry(i, p0)
           m == client[c0].unacked[p0]
           R == Requests(i, p0)
           X == Replies(i, p0)
<1>9. /\ Awaits(e, m, R, X, replied)
      /\ Line(conn[k], wire[k], pubacks[k], p0, e, m, R, X, replied)
  BY <1>1, <1>4, <1>8, SlotNow
<1>10. /\ sm'[c0] = i /\ sess'[i].awaitsAck[p0] = e /\ client'[c0].unacked[p0] = 0
       /\ Requests(i, p0)' = R /\ Replies(i, p0)' = X /\ replied' = replied
       /\ acked' \subseteq acked \cup {m}
  BY <1>3, <1>4, <1>5, <1>8 DEF Entry, Requests, Replies
<1> HIDE DEF e, m, R, X
<1>11. /\ m \in replied /\ e = None /\ ~Handling(conn[k], p0)
       /\ \A h \in DOMAIN pubacks[k] : pubacks[k][h] = p0 => h = 1
       /\ \A h \in DOMAIN wire[k] : wire[k][h].pid # p0
  BY <1>4, <1>9 DEF Line, Acknowledges
<1>12. SlotOK(c0, p0)'
  <2>1. R = {} /\ X = {}
    BY <1>9, <1>11 DEF Awaits
  <2>2. Awaits(e, 0, R, X, replied)
    BY <1>11, <2>1 DEF Awaits
  <2>3. \A j \in DOMAIN Tail(pubacks[k]) : Tail(pubacks[k])[j] # p0
    BY <1>4, <1>11
  <2>4. Line(conn[k], wire[k], Tail(pubacks[k]), p0, e, 0, R, X, replied)
    BY <1>11, <2>3 DEF Line, Handles, Sends, Acknowledges
  <2>5. ASSUME NEW j \in Conns, Serves(j, c0)'
        PROVE  Line(conn'[j], wire'[j], pubacks'[j], p0, e, 0, R, X, replied')
    <3>1. j = k
      BY <1>1, <1>6, <2>5, OneServes DEF AckInv
    <3>2. pubacks'[j] = Tail(pubacks[k])
      BY <1>0, <1>3, <3>1
    <3>3. QED
      BY <1>3, <1>10, <2>4, <3>1, <3>2
  <2>6. Awaits(e, 0, R, X, replied')
    BY <1>10, <2>2
  <2>7. QED
    BY <1>4, <1>10, <2>5, <2>6, SlotNew
<1>13. ASSUME NEW c \in ClientIds, NEW p \in PacketIds, c # c0 \/ p # p0
       PROVE  SlotOK(c, p)'
  <2>1. PICK h : h = sm[c]
    OBVIOUS
  <2>2. /\ SlotOK(c, p) /\ UNCHANGED <<sm, sess, conn, wire, replied>>
    BY <1>3 DEF AckInv, FlowInv, SlotInv
  <2>3. /\ Requests(h, p)' = Requests(h, p) /\ Replies(h, p)' = Replies(h, p)
        /\ client'[c].unacked[p] = client[c].unacked[p]
    BY <1>3, <1>5, <1>13 DEF Requests, Replies
  <2>4. ASSUME NEW j \in Conns, Serves(j, c)'
        PROVE  /\ Serves(j, c)
               /\ LineKept(conn[j], wire[j], pubacks[j], conn'[j], wire'[j], pubacks'[j], p)
    <3>1. wire[j] \in Seq(Packets) /\ pubacks[j] \in Seq(PacketIds)
      BY <1>0 DEF TypeOK
    <3>2. Serves(j, c)
      BY <1>6, <2>4
    <3>3. AcksKept(pubacks'[j], pubacks[j], p)
      <4>1. pubacks'[j] = pubacks[j] \/ (pubacks[j] # <<>> /\ pubacks'[j] = Tail(pubacks[j]))
        BY <1>0, <1>3
      <4>2. QED
        BY <3>1, <4>1, AcksMoved
    <3>4. PacketsKept(wire'[j], wire[j], p)
      BY <2>2, <3>1, PacketsMoved
    <3>5. QED
      BY <2>2, <3>2, <3>3, <3>4 DEF LineKept
  <2>5. QED
    BY <1>0, <2>1, <2>2, <2>3, <2>4, SlotKept
<1>14. acked' \subseteq replied'
  BY <1>0, <1>10, <1>11
<1>15. QED
  BY <1>7, <1>12, <1>13, <1>14 DEF FlowInv, SlotInv

LEMMA ServeEndsFlow ==
  ASSUME AckInv, TypeInv', NEW k \in Conns, ServeEnds(k)
  PROVE  FlowInv'
<1> USE DEF natsVars, sessionVars, mqttVars, ghosts, storage
<1>0. /\ TypeInv /\ TypeOK /\ TypeOK' /\ NameInv /\ conn \in [Conns -> Connection]
      /\ sess \in [SessionIds -> Session] /\ sm \in [ClientIds -> SessionIds \cup {0}]
      /\ Remembered /\ EntriesLive /\ HandlersSubscribed /\ AnsweredOnce /\ FreeIsQuiet
      /\ client \in [ClientIds -> [k : Conns \cup {None}, unacked : [PacketIds -> Msgs \cup {0}]]]
  BY DEF AckInv, TypeInv, TypeOK, FlowInv, SubsInv
<1>1. PICK c0 \in ClientIds, gone \in SessionIds \cup {0} :
         /\ c0 = conn[k].cid /\ gone = Removed(k) /\ gone \in {0, sm[c0]}
  BY <1>0 DEF ServeEnds, TypeInv, HandlerOK, Removed
<1>2. PICK destroyed :
         destroyed = IF gone = 0 THEN {} ELSE {sess[gone].awaitsAck[p] : p \in PacketIds}
  OBVIOUS
<1>3. /\ conn[k].st = "disconnected" /\ conn' = [conn EXCEPT ![k] = Unused]
      /\ sm' = IF gone = 0 THEN sm ELSE [sm EXCEPT ![c0] = 0]
      /\ sess' = [i \in SessionIds |-> IF i = gone THEN NewSession(c0) ELSE Closed(sess[i], k)]
      /\ subs' = {sb \in subs : sb.k # k /\ sb \notin destroyed}
      /\ calls' = {x \in calls : x.sub \in subs'}
      /\ wire' = [wire EXCEPT ![k] = <<>>] /\ pubacks' = [pubacks EXCEPT ![k] = <<>>]
      /\ client' = [client EXCEPT ![c0].k = IF @ = k THEN None ELSE @]
      /\ UNCHANGED <<seed, requests, ghosts, storage>>
  BY <1>1, <1>2 DEF ServeEnds
<1>4. /\ conn'[k] = Unused /\ \A j \in Conns : j # k => conn'[j] = conn[j]
      /\ \A j \in Conns : j # k => wire'[j] = wire[j] /\ pubacks'[j] = pubacks[j]
      /\ pubacks'[k] = <<>>
  BY <1>0, <1>3 DEF TypeOK
<1>5. \A c \in ClientIds : client'[c].unacked = client[c].unacked
  BY <1>0, <1>3
<1>6. \A j \in Conns : \A c \in ClientIds : Serves(j, c)' => Serves(j, c) /\ j # k
  BY <1>4 DEF Serves, Unused
<1>7. ASSUME NEW i \in SessionIds, i # gone, NEW p \in PacketIds
      PROVE  Entry(i, p)' = IF Entry(i, p) # None /\ Entry(i, p).k = k
                            THEN [Entry(i, p) EXCEPT !.k = None, !.n = 0] ELSE Entry(i, p)
  <2>1. sess'[i] = Closed(sess[i], k)
    BY <1>3, <1>7
  <2>2. Closed(sess[i], k).awaitsAck[p] =
           IF sess[i].awaitsAck[p] # None /\ sess[i].awaitsAck[p].k = k
           THEN [sess[i].awaitsAck[p] EXCEPT !.k = None, !.n = 0] ELSE sess[i].awaitsAck[p]
    BY <1>0 DEF Closed, Session
  <2>3. Entry(i, p)' = Closed(sess[i], k).awaitsAck[p]
    BY <2>1 DEF Entry
  <2>4. QED
    BY <2>2, <2>3 DEF Entry
<1>8. \A p \in PacketIds : gone # 0 => Entry(gone, p)' = None
  <2>1. gone # 0 => sess'[gone] = NewSession(c0)
    BY <1>3
  <2>2. QED
    BY <2>1 DEF Entry, NewSession
<1>9. ASSUME NEW i \in SessionIds, i # gone, NEW p \in PacketIds,
             Entry(i, p) # None, Entry(i, p).k = k
      PROVE  Entry(i, p)'.k = None /\ Entry(i, p)' # None
  <2>1. Entry(i, p) \in Subscriptions
    BY <1>0, <1>9, EntryNames
  <2>2. [Entry(i, p) EXCEPT !.k = None, !.n = 0] \in Subscriptions
    <3>1. 0 \in Copies
      BY DEF Copies
    <3>2. QED
      BY <2>1, <3>1 DEF Subscriptions
  <2>3. [Entry(i, p) EXCEPT !.k = None, !.n = 0].k = None
    BY <2>1 DEF Subscriptions
  <2>4. QED
    BY <1>7, <1>9, <2>2, <2>3, NilAssumption
<1>10. ASSUME NEW sb \in destroyed, sb \in subs
       PROVE  sb.subject.cid = c0 /\ sb.subject.sid = gone /\ sb.k = k
  <2>1. PICK p \in PacketIds : sb = Entry(gone, p) /\ gone # 0
    BY <1>2 DEF Entry
  <2>2. sb # None
    BY <1>0, <1>10, NilAssumption DEF TypeOK
  <2>3. sb.subject.sid = gone
    BY <1>0, <2>1, <2>2, EntryNames
  <2>4. /\ sb.k \in Conns /\ sb.subject.cid \in ClientIds /\ Serves(sb.k, sb.subject.cid)
        /\ sm[sb.subject.cid] = gone
    BY <1>10, <2>3, SubServes
  <2>5. sb.subject.cid = c0
    BY <1>0, <1>1, <2>1, <2>4, OneOwner
  <2>6. sb.k = k
    BY <1>1, <1>3, <2>4, <2>5 DEF AckInv, ConnInv, OneEach, Serves
  <2>7. QED
    BY <2>3, <2>5, <2>6
<1>11. subs' = {sb \in subs : sb.k # k}
  BY <1>3, <1>10
<1>12. SubsInv'
  <2>1. Remembered'
    <3> SUFFICES ASSUME NEW x \in subs, x.k # k
                 PROVE  \/ Entry(x.subject.sid, x.subject.pid)' = x
                        \/ conn'[x.k].at = "subscribed" /\ conn'[x.k].sub = x
      BY <1>11 DEF Remembered, Entry
    <3>1. x.subject.sid \in SessionIds /\ x.subject.pid \in PacketIds /\ x.k \in Conns
      BY SubServes
    <3>2. CASE Entry(x.subject.sid, x.subject.pid) = x
      <4>1. x.subject.sid # gone
        BY <1>2, <1>3, <1>11, <3>1, <3>2 DEF Entry, SessionIds
      <4>2. Entry(x.subject.sid, x.subject.pid)' = x
        BY <1>7, <3>1, <3>2, <4>1
      <4>3. QED
        BY <4>2
    <3>3. CASE conn[x.k].at = "subscribed" /\ conn[x.k].sub = x
      BY <1>4, <3>1, <3>3
    <3>4. QED
      BY <1>0, <3>2, <3>3 DEF Remembered
  <2>2. EntriesLive'
    <3> SUFFICES ASSUME NEW i \in SessionIds, NEW p \in PacketIds,
                        Entry(i, p)' # None, Entry(i, p)'.k # None
                 PROVE  Entry(i, p)' \in subs'
      BY DEF EntriesLive
    <3>1. i # gone
      BY <1>8 DEF SessionIds
    <3>2. Entry(i, p)' = Entry(i, p) /\ (Entry(i, p) # None => Entry(i, p).k # k)
      BY <1>7, <1>9, <3>1
    <3>3. Entry(i, p) \in subs
      BY <1>0, <3>2 DEF EntriesLive
    <3>4. QED
      BY <1>11, <3>2, <3>3
  <2>3. HandlersSubscribed'
    <3>1. conn'[k].at = "read"
      BY <1>4 DEF Unused
    <3>2. QED
      BY <1>0, <1>4, <1>11, <3>1 DEF HandlersSubscribed
  <2>4. AnsweredOnce' /\ FreeIsQuiet'
    BY <1>0, <1>3, <1>4 DEF AnsweredOnce, FreeIsQuiet
  <2>5. QED
    BY <2>1, <2>2, <2>3, <2>4 DEF SubsInv
<1>13. ASSUME NEW i
       PROVE  \A p \in PacketIds : /\ Requests(i, p)' = Requests(i, p)
                                   /\ Replies(i, p)' \subseteq Replies(i, p)
                                   /\ \A x \in Replies(i, p)' : x.sub.k # k
  BY <1>3, <1>11 DEF Requests, Replies
<1>14. ASSUME NEW p \in PacketIds
       PROVE  SlotOK(c0, p)'
  <2>1. PICK i : i = sm'[c0]
    OBVIOUS
  <2>2. CASE i = 0
    BY <2>1, <2>2 DEF SlotOK
  <2>3. CASE i # 0
    <3>1. gone = 0 /\ i = sm[c0] /\ i \in SessionIds
      BY <1>0, <1>3, <2>1, <2>3
    <3> DEFINE e == Entry(i, p)
               m == client[c0].unacked[p]
               R == Requests(i, p)
               X == Replies(i, p)
    <3>2. Awaits(e, m, R, X, replied)
      BY <2>3, <3>1, SlotNow
    <3>3. PICK e2, X2 : /\ e2 = Entry(i, p)' /\ X2 = Replies(i, p)'
                        /\ X2 \subseteq X /\ \A x \in X2 : x.sub.k # k
      BY <1>13
    <3>4. /\ e2 = None <=> e = None
          /\ e # None /\ e.k # k => e2 = e
      BY <1>7, <1>9, <2>3, <3>1, <3>3
    <3>5. /\ sess'[i].awaitsAck[p] = e2 /\ client'[c0].unacked[p] = m
          /\ Requests(i, p)' = R /\ replied' = replied
      <4>1. sess'[i].awaitsAck[p] = e2
        BY <3>3 DEF Entry
      <4>2. QED
        BY <1>3, <1>5, <1>13, <4>1
    <3> HIDE DEF e, m, R, X
    <3>6. Awaits(e2, m, R, X2, replied)
      BY <3>2, <3>3, <3>4 DEF Awaits
    <3>7. \A j \in Conns : ~Serves(j, c0)'
      BY <1>1, <1>3, <1>6 DEF AckInv, ConnInv, OneEach, Serves
    <3>8. Awaits(e2, m, R, X2, replied')
      BY <3>5, <3>6
    <3>9. QED
      BY <2>1, <3>3, <3>5, <3>7, <3>8, SlotNew
  <2>4. QED
    BY <2>2, <2>3
<1>15. ASSUME NEW c \in ClientIds, NEW p \in PacketIds, c # c0
       PROVE  SlotOK(c, p)'
  <2>1. PICK i : i = sm[c]
    OBVIOUS
  <2>2. SlotOK(c, p) /\ sm'[c] = i /\ client'[c].unacked[p] = client[c].unacked[p]
        /\ replied' = replied
    BY <1>0, <1>3, <1>5, <1>15, <2>1 DEF AckInv, FlowInv, SlotInv
  <2>3. sm'[c] # 0 => sess'[i].awaitsAck[p] = sess[i].awaitsAck[p]
    <3> SUFFICES ASSUME i # 0 PROVE Entry(i, p)' = Entry(i, p)
      BY <2>2 DEF Entry
    <3>1. i \in SessionIds
      BY <1>0, <2>1
    <3>2. i # gone
      BY <1>0, <1>1, <1>15, <2>1, OneOwner
    <3>3. Entry(i, p) # None => Entry(i, p).k # k
      <4> SUFFICES ASSUME Entry(i, p) # None, Entry(i, p).k = k PROVE FALSE
        OBVIOUS
      <4>1. Entry(i, p).subject.sid = i
        BY <1>0, <3>1, EntryNames
      <4>2. Entry(i, p) \in subs
        BY <1>0, <3>1, NoneAssumption DEF EntriesLive
      <4>3. PICK sb \in subs : sb = Entry(i, p)
        BY <4>2
      <4>4. /\ Serves(k, sb.subject.cid) /\ sm[sb.subject.cid] = i /\ sb.subject.cid \in ClientIds
        BY <4>1, <4>3, SubServes
      <4>5. sb.subject.cid = c
        BY <1>0, <2>1, <4>4, OneOwner
      <4>6. QED
        BY <1>1, <1>15, <4>4, <4>5 DEF Serves
    <3>4. QED
      BY <1>7, <3>1, <3>2, <3>3
  <2>4. Requests(i, p)' = Requests(i, p) /\ Replies(i, p)' \subseteq Replies(i, p)
    BY <1>13
  <2>5. ASSUME NEW j \in Conns, Serves(j, c)'
        PROVE  /\ Serves(j, c)
               /\ LineKept(conn[j], wire[j], pubacks[j], conn'[j], wire'[j], pubacks'[j], p)
    <3>1. wire[j] \in Seq(Packets) /\ pubacks[j] \in Seq(PacketIds)
      BY <1>0 DEF TypeOK
    <3>2. Serves(j, c) /\ j # k
      BY <1>6, <2>5
    <3>3. PacketsKept(wire'[j], wire[j], p) /\ AcksKept(pubacks'[j], pubacks[j], p)
      BY <1>4, <3>1, <3>2, PacketsMoved, AcksMoved
    <3>4. QED
      BY <1>4, <3>2, <3>3 DEF LineKept
  <2>6. QED
    BY <1>0, <2>1, <2>2, <2>3, <2>4, <2>5, SlotKept
<1>16. QED
  BY <1>3, <1>12, <1>14, <1>15 DEF FlowInv, SlotInv, AckInv

(* What a client sends again is what it has not seen acknowledged, once.   *)
LEMMA DuplicatesSend ==
  ASSUME NEW unacked \in [PacketIds -> Msgs \cup {0}], NEW d \in Duplicates(unacked),
         NEW p \in PacketIds, NEW e, e # None => e.k = None
  PROVE  Sends(d, p, e, unacked[p])
<1>1. d \in [1..Cardinality(Unacked(unacked)) -> Unacked(unacked)]
      /\ \A g, h \in DOMAIN d : g < h => d[g].m < d[h].m
  BY DEF Duplicates
<1>2. \A u \in Unacked(unacked) : u.dup = TRUE /\ u.m = unacked[u.pid]
  BY DEF Unacked
<1>3. DOMAIN d \subseteq Int /\ \A j \in DOMAIN d : d[j] \in Unacked(unacked)
  BY <1>1
<1>4. unacked[p] \in Nat
  BY DEF Msgs
<1> SUFFICES ASSUME NEW j \in DOMAIN d, d[j].pid = p
             PROVE  /\ d[j].m = unacked[p]
                    /\ \A h \in DOMAIN d : d[h].pid = p => h = j
                    /\ e # None => d[j].dup /\ e.k = None
  BY DEF Sends
<1>5. d[j].m = unacked[p] /\ d[j].dup
  BY <1>2, <1>3
<1>6. ASSUME NEW h \in DOMAIN d, d[h].pid = p
      PROVE  h = j
  <2>1. d[h].m = unacked[p]
    BY <1>2, <1>3, <1>6
  <2>2. ~(h < j) /\ ~(j < h)
    BY <1>1, <1>4, <1>5, <2>1
  <2>3. QED
    BY <1>3, <2>2
<1>7. QED
  BY <1>5, <1>6

LEMMA ConnectFlow ==
  ASSUME Takeover = FALSE, AckInv, TypeInv',
         NEW c0 \in ClientIds, NEW k \in Conns, NEW clean \in CleanFlags, Connect(c0, k, clean)
  PROVE  FlowInv'
<1> USE DEF natsVars, sessionVars, mqttVars, ghosts, storage
<1>0. /\ TypeInv /\ TypeOK /\ TypeOK' /\ NameInv /\ conn \in [Conns -> Connection]
      /\ sess \in [SessionIds -> Session] /\ sm \in [ClientIds -> SessionIds \cup {0}]
      /\ seed \in Nat /\ wire \in [Conns -> Seq(Packets)]
      /\ Remembered /\ EntriesLive /\ HandlersSubscribed /\ AnsweredOnce /\ FreeIsQuiet
      /\ client \in [ClientIds -> [k : Conns \cup {None}, unacked : [PacketIds -> Msgs \cup {0}]]]
  <2>1. /\ TypeInv /\ TypeOK /\ TypeOK' /\ NameInv
        /\ Remembered /\ EntriesLive /\ HandlersSubscribed /\ AnsweredOnce /\ FreeIsQuiet
    BY DEF AckInv, TypeInv, FlowInv, SubsInv
  <2>2. /\ conn \in [Conns -> Connection] /\ sess \in [SessionIds -> Session]
        /\ sm \in [ClientIds -> SessionIds \cup {0}]
    BY <2>1 DEF TypeOK
  <2>3. seed \in Nat /\ wire \in [Conns -> Seq(Packets)]
    BY <2>1 DEF TypeOK, SessionIds
  <2>4. client \in [ClientIds -> [k : Conns \cup {None}, unacked : [PacketIds -> Msgs \cup {0}]]]
    BY <2>1 DEF TypeOK
  <2>5. QED
    BY <2>1, <2>2, <2>3, <2>4
<1>1. PICK present \in BOOLEAN : present = Resumes(c0, clean)
  BY FlagsAssumption DEF Resumes
<1>2. PICK sid \in SessionIds : sid = IF present THEN sm[c0] ELSE seed + 1
  BY <1>1 DEF Connect
<1>3. PICK todo : todo = IF present THEN Restorable(sess[sid]) ELSE {}
  OBVIOUS
<1>4. PICK old : old = client[c0].unacked
  OBVIOUS
<1>5. /\ client[c0].k = None /\ Vacant(c0, k)
      /\ sm' = [sm EXCEPT ![c0] = sid]
      /\ seed' = IF present THEN seed ELSE sid
      /\ sess' = IF present THEN sess ELSE [sess EXCEPT ![sid] = NewSession(c0)]
      /\ conn' = [conn EXCEPT ![k] =
                    [Unused EXCEPT !.st = "connected", !.cid = c0, !.clean = clean,
                                   !.sid = sid, !.todo = todo,
                                   !.at = IF todo = {} THEN "read" ELSE "restore"]]
      /\ client' = [client EXCEPT ![c0] =
                      [k |-> k, unacked |-> IF clean THEN [p \in PacketIds |-> 0] ELSE old]]
      /\ \E first \in IF clean THEN {<<>>} ELSE Duplicates(old) :
            wire' = [wire EXCEPT ![k] = first]
      /\ UNCHANGED <<natsVars, pubacks, ghosts, storage>>
  BY <1>1, <1>2, <1>3, <1>4 DEF Connect
<1>6. conn[k].st = "free" /\ \A j \in Conns : conn[j].cid # c0
  BY <1>5 DEF Vacant
<1>7. PICK cn : /\ conn' = [conn EXCEPT ![k] = cn] /\ cn.at = "read" /\ cn.cid = c0
                /\ cn.st = "connected"
  <2> DEFINE new == [Unused EXCEPT !.st = "connected", !.cid = c0, !.clean = clean,
                                   !.sid = sid, !.todo = todo,
                                   !.at = IF todo = {} THEN "read" ELSE "restore"]
  <2>1. todo = {}
    BY <1>3 DEF AckInv, RestoreInv, NothingToRestore, Restorable
  <2>2. new.at = "read" /\ new.cid = c0 /\ new.st = "connected"
    BY <2>1 DEF Unused
  <2>3. conn' = [conn EXCEPT ![k] = new]
    BY <1>5
  <2> HIDE DEF new
  <2>4. QED
    BY <2>2, <2>3
<1>8. PICK first : /\ wire' = [wire EXCEPT ![k] = first]
                   /\ first \in IF clean THEN {<<>>} ELSE Duplicates(old)
  BY <1>5
<1>9. /\ conn'[k] = cn /\ \A j \in Conns : j # k => conn'[j] = conn[j] /\ wire'[j] = wire[j]
      /\ wire'[k] = first /\ pubacks' = pubacks /\ pubacks[k] = <<>>
  BY <1>0, <1>5, <1>6, <1>7, <1>8 DEF FreeIsQuiet
<1>10. PICK u \in [PacketIds -> Msgs \cup {0}] :
          /\ \A c \in ClientIds :
                client'[c].unacked = IF c = c0 THEN u ELSE client[c].unacked
          /\ u = IF clean THEN [p \in PacketIds |-> 0] ELSE old
  <2> DEFINE v == IF clean THEN [p \in PacketIds |-> 0] ELSE old
  <2>1. v \in [PacketIds -> Msgs \cup {0}]
    BY <1>0, <1>4
  <2>2. client' = [client EXCEPT ![c0] = [k |-> k, unacked |-> v]]
    BY <1>5
  <2> HIDE DEF v
  <2>3. \A c \in ClientIds : client'[c].unacked = IF c = c0 THEN v ELSE client[c].unacked
    BY <1>0, <2>2
  <2>4. QED
    BY <2>1, <2>3 DEF v
<1>11. \A i \in SessionIds : \A p \in PacketIds :
          Entry(i, p)' = IF ~present /\ i = sid THEN None ELSE Entry(i, p)
  <2>1. NewSession(c0).awaitsAck = [p \in PacketIds |-> None]
    BY DEF NewSession
  <2>2. \A i \in SessionIds : sess'[i] = IF ~present /\ i = sid THEN NewSession(c0) ELSE sess[i]
    BY <1>0, <1>5
  <2>3. QED
    BY <2>1, <2>2 DEF Entry
<1>12. ~present => sid = seed + 1
  BY <1>2
<1>13. \A sb \in subs : sb.subject.sid <= seed /\ sb.subject.sid \in Nat /\ sb.k # k /\ sb.k \in Conns
  BY <1>6, SubServes DEF Serves, SessionIds
<1>14. \A r \in requests : r.subject.sid <= seed /\ r.subject.sid \in Nat
  BY <1>0 DEF AnsweredOnce, TypeOK, Subjects, SessionIds
<1>15. SubsInv'
  <2>1. Remembered'
    <3> SUFFICES ASSUME NEW x \in subs
                 PROVE  \/ Entry(x.subject.sid, x.subject.pid)' = x
                        \/ conn'[x.k].at = "subscribed" /\ conn'[x.k].sub = x
      BY <1>5 DEF Remembered, Entry
    <3>1. x.subject.sid \in SessionIds /\ x.subject.pid \in PacketIds
      BY SubServes
    <3>2. ~(~present /\ x.subject.sid = sid)
      BY <1>0, <1>12, <1>13
    <3>3. Entry(x.subject.sid, x.subject.pid)' = Entry(x.subject.sid, x.subject.pid)
      BY <1>11, <3>1, <3>2
    <3>4. QED
      BY <1>0, <1>9, <1>13, <3>3 DEF Remembered
  <2>2. EntriesLive'
    <3>1. subs' = subs
      BY <1>5
    <3>2. \A i \in SessionIds, p \in PacketIds : Entry(i, p)' = None \/ Entry(i, p)' = Entry(i, p)
      BY <1>11
    <3>3. QED
      BY <1>0, <3>1, <3>2 DEF EntriesLive
  <2>3. HandlersSubscribed'
    <3>1. subs' = subs
      BY <1>5
    <3>2. \A j \in Conns : conn'[j].at # "read" => conn'[j] = conn[j]
      BY <1>7, <1>9
    <3>3. QED
      BY <1>0, <3>1, <3>2 DEF HandlersSubscribed
  <2>4. AnsweredOnce'
    <3>1. requests' = requests /\ seed <= seed' /\ seed' \in Nat
      BY <1>0, <1>5, <1>12 DEF SessionIds
    <3>2. QED
      BY <1>0, <1>14, <3>1 DEF AnsweredOnce
  <2>5. FreeIsQuiet'
    BY <1>0, <1>7, <1>9 DEF FreeIsQuiet
  <2>6. QED
    BY <2>1, <2>2, <2>3, <2>4, <2>5 DEF SubsInv
<1>16. ASSUME NEW i, NEW p
       PROVE  Requests(i, p)' = Requests(i, p) /\ Replies(i, p)' = Replies(i, p)
  BY <1>5 DEF Requests, Replies
<1>17. sm'[c0] = sid /\ \A c \in ClientIds : c # c0 => sm'[c] = sm[c]
  BY <1>0, <1>5
<1>18. ASSUME NEW p \in PacketIds
       PROVE  SlotOK(c0, p)'
  <2>1. PICK e, R, X : e = Entry(sid, p)' /\ R = Requests(sid, p) /\ X = Replies(sid, p)
    OBVIOUS
  <2>2. Awaits(e, u[p], R, X, replied) /\ (e # None => e.k = None)
    <3>1. CASE present
      <4>1. sid = sm[c0] /\ sid # 0 /\ ~clean
        BY <1>1, <1>2, <3>1 DEF Resumes
      <4>2. e = Entry(sid, p) /\ u = client[c0].unacked
        BY <1>4, <1>10, <1>11, <2>1, <3>1, <4>1
      <4>3. Awaits(e, u[p], R, X, replied)
        BY <2>1, <4>1, <4>2, SlotNow
      <4>4. ASSUME e # None, e.k # None
            PROVE  FALSE
        <5>1. Entry(sid, p) \in subs /\ Entry(sid, p).subject.cid = sess[sid].cid
          BY <1>0, <4>2, <4>4, EntryNames DEF EntriesLive
        <5>2. sess[sid].cid = c0
          BY <1>0, <4>1 DEF NameInv, SessionsOK
        <5>3. PICK sb \in subs : sb = Entry(sid, p)
          BY <5>1
        <5>4. sb.k \in Conns /\ conn[sb.k].cid = c0
          BY <5>1, <5>2, <5>3, SubServes DEF Serves
        <5>5. QED
          BY <1>6, <5>4
      <4>5. QED
        BY <4>3, <4>4
    <3>2. CASE ~present
      <4>1. e = None
        BY <1>11, <2>1, <3>2
      <4>2. R = {}
        BY <1>0, <1>12, <1>14, <2>1, <3>2 DEF Requests
      <4>3. X = {}
        <5>1. \A x \in calls : x.sub \in subs
          BY DEF AckInv, ConnInv, QueuedCalls
        <5>2. QED
          BY <1>0, <1>12, <1>13, <2>1, <3>2, <5>1 DEF Replies
      <4>4. QED
        BY <4>1, <4>2, <4>3 DEF Awaits
    <3>3. QED
      BY <3>1, <3>2
  <2>3. Line(cn, first, <<>>, p, e, u[p], R, X, replied)
    <3>1. Sends(first, p, e, u[p])
      <4>1. CASE clean
        <5>1. first = <<>>
          BY <1>8, <4>1
        <5>2. DOMAIN first = {}
          BY <5>1
        <5>3. QED
          BY <5>2 DEF Sends
      <4>2. CASE ~clean
        <5>1. first \in Duplicates(u)
          BY <1>8, <1>10, <4>2
        <5>2. QED
          BY <2>2, <5>1, DuplicatesSend
      <4>3. QED
        BY <4>1, <4>2
    <3>2. Handles(cn, first, p, e, u[p], R, X)
      BY <1>7 DEF Handles, Handling
    <3>3. Acknowledges(<<>>, cn, first, p, e, u[p], replied)
      <4>1. DOMAIN <<>> = {}
        OBVIOUS
      <4>2. QED
        BY <4>1 DEF Acknowledges
    <3>4. QED
      BY <3>1, <3>2, <3>3 DEF Line
  <2>4. /\ sess'[sid].awaitsAck[p] = e /\ client'[c0].unacked[p] = u[p]
        /\ Requests(sid, p)' = R /\ Replies(sid, p)' = X /\ replied' = replied
    <3>1. sess'[sid].awaitsAck[p] = e
      BY <2>1 DEF Entry
    <3>2. QED
      BY <1>5, <1>10, <1>16, <2>1, <3>1
  <2>5. ASSUME NEW j \in Conns, Serves(j, c0)'
        PROVE  Line(conn'[j], wire'[j], pubacks'[j], p, e, u[p], R, X, replied')
    <3>1. j = k
      BY <1>6, <1>9, <2>5 DEF Serves
    <3>2. QED
      BY <1>9, <2>3, <2>4, <3>1
  <2>6. Awaits(e, u[p], R, X, replied')
    BY <2>2, <2>4
  <2>7. QED
    BY <1>17, <2>4, <2>5, <2>6, SlotNew
<1>19. ASSUME NEW c \in ClientIds, NEW p \in PacketIds, c # c0
       PROVE  SlotOK(c, p)'
  <2>1. PICK i : i = sm[c]
    OBVIOUS
  <2>2. SlotOK(c, p) /\ sm'[c] = i /\ client'[c].unacked[p] = client[c].unacked[p]
        /\ replied' = replied
    BY <1>5, <1>10, <1>17, <1>19, <2>1 DEF AckInv, FlowInv, SlotInv
  <2>3. sm'[c] # 0 => sess'[i].awaitsAck[p] = sess[i].awaitsAck[p]
    <3> SUFFICES ASSUME i # 0 PROVE Entry(i, p)' = Entry(i, p)
      BY <2>2 DEF Entry
    <3>1. i \in SessionIds /\ i <= seed
      BY <1>0, <2>1 DEF NameInv, SessionsOK
    <3>2. ~(~present /\ i = sid)
      BY <1>0, <1>12, <3>1 DEF SessionIds
    <3>3. QED
      BY <1>11, <3>1, <3>2
  <2>4. Requests(i, p)' = Requests(i, p) /\ Replies(i, p)' = Replies(i, p)
    BY <1>16
  <2>5. ASSUME NEW j \in Conns, Serves(j, c)'
        PROVE  /\ Serves(j, c)
               /\ LineKept(conn[j], wire[j], pubacks[j], conn'[j], wire'[j], pubacks'[j], p)
    <3>1. wire[j] \in Seq(Packets) /\ pubacks[j] \in Seq(PacketIds)
      BY <1>0 DEF TypeOK
    <3>2. j # k
      BY <1>7, <1>9, <1>19, <2>5 DEF Serves
    <3>3. conn'[j] = conn[j] /\ wire'[j] = wire[j] /\ pubacks'[j] = pubacks[j]
      BY <1>9, <3>2
    <3>4. Serves(j, c)
      BY <2>5, <3>3 DEF Serves
    <3>5. PacketsKept(wire'[j], wire[j], p) /\ AcksKept(pubacks'[j], pubacks[j], p)
      BY <3>1, <3>3, PacketsMoved, AcksMoved
    <3>6. QED
      BY <3>3, <3>4, <3>5 DEF LineKept
  <2>6. QED
    BY <1>0, <2>1, <2>2, <2>3, <2>4, <2>5, SlotKept
<1>20. QED
  BY <1>5, <1>15, <1>18, <1>19 DEF FlowInv, SlotInv, AckInv

LEMMA FlowStep ==
  ASSUME Takeover = FALSE, MaxReplies = 1
  PROVE  AckInv /\ TypeInv' /\ NeverStopped' /\ [Next]_vars => FlowInv'
<1> SUFFICES ASSUME AckInv, TypeInv', NeverStopped', [Next]_vars PROVE FlowInv'
  OBVIOUS
<1>1. CASE UNCHANGED vars
  <2>1. /\ UNCHANGED <<conn, sm, seed, sess, subs, calls, requests, replied, acked, client,
                       wire, pubacks>>
    BY <1>1 DEF vars
  <2>2. \A j \in Conns : \A c \in ClientIds : Serves(j, c)' => Serves(j, c)
    BY <2>1 DEF Serves
  <2>3. QED
    BY <2>1, <2>2, QuietStep DEF TypeInv
<1>2. ASSUME NEW c \in ClientIds, MqttClient(c)
      PROVE  FlowInv'
  BY <1>2, ConnectFlow, DropFlow, PublishFlow, ReceivePubAckFlow DEF MqttClient
<1>3. ASSUME NEW k \in Conns, ReadLoop(k)
      PROVE  FlowInv'
  <2>1. conn[k].todo = {} /\ conn[k].at # "restored"
    BY DEF AckInv, RestoreInv
  <2>2. \/ IgnoreDuplicate(k) \/ PublishSubscribe(k) \/ PublishAckRequested(k)
        \/ PublishRequest(k)
    BY <1>3, <2>1 DEF ReadLoop, RestoreAckRequested
  <2>3. QED
    BY <2>2, EndFlow, PublishSubscribeFlow, PublishAckRequestedFlow, PublishRequestFlow
<1>4. ~Restart /\ ~Crash
  <2>1. stops \in [restarts : Nat, crashes : Nat]
    BY BoundsAssumption DEF AckInv, TypeInv, TypeOK
  <2>2. Restart => stops'.restarts = stops.restarts + 1
    BY <2>1 DEF Restart
  <2>3. Crash => stops'.crashes = stops.crashes + 1
    BY <2>1 DEF Crash
  <2>4. QED
    BY <2>1, <2>2, <2>3 DEF NeverStopped
<1>5. CASE Next
  BY <1>2, <1>3, <1>4, <1>5, EndFlow, ServeEndsFlow, ReplyFlow, ReplyCallbackFlow DEF Next
<1>6. QED
  BY <1>1, <1>5

LEMMA Flows ==
  ASSUME Takeover = FALSE, MaxReplies = 1
  PROVE  Spec => [](NeverStopped => FlowInv)
<1>1. Init => FlowInv
  <2> SUFFICES ASSUME Init PROVE FlowInv
    OBVIOUS
  <2>1. SubsInv
    BY DEF Init, SubsInv, Remembered, EntriesLive, HandlersSubscribed, AnsweredOnce,
           FreeIsQuiet, Entry, NewSession, Unused
  <2>2. SlotInv
    BY DEF Init, SlotInv, SlotOK
  <2>3. QED
    BY <2>1, <2>2 DEF FlowInv, Init
<1>2. /\ NeverStopped => FlowInv
      /\ TypeInv /\ NameInv /\ ConnInv /\ (stops.restarts = 0 => RestoreInv)
      /\ TypeInv' /\ [Next]_vars
      => (NeverStopped => FlowInv)'
  <2> SUFFICES ASSUME NeverStopped => FlowInv, TypeInv, NameInv, ConnInv,
                      stops.restarts = 0 => RestoreInv, TypeInv', [Next]_vars, NeverStopped'
               PROVE  FlowInv'
    OBVIOUS
  <2>1. NeverStopped
    BY StopsGrow DEF NeverStopped
  <2>2. AckInv
    BY <2>1 DEF AckInv, NeverStopped
  <2>3. QED
    BY <2>2, FlowStep
<1>3. QED
  BY <1>1, <1>2, Typed, Named, Connected, Restored, PTL DEF Spec

(* A publisher that sees a PUBACK for a message can rely on somebody       *)
(* having replied to that very message, as long as the bridge did not      *)
(* stop: for any number of clients, connections, packet ids, messages and  *)
(* sessions, if a client waits for its old connection to end before it     *)
(* connects again, and a request is answered once.                         *)
THEOREM AcksAreEarned ==
  ASSUME Takeover = FALSE, MaxReplies = 1
  PROVE  Spec => [](NeverStopped => NoPrematureAck)
<1>1. FlowInv => NoPrematureAck
  BY DEF FlowInv, NoPrematureAck
<1>2. QED
  BY <1>1, Flows, PTL

(* Under the same conditions no ack subscription is forgotten: a live one  *)
(* is in its session, or in the hands of the handler that made it.         *)
THEOREM SubscriptionsAreKept ==
  ASSUME Takeover = FALSE, MaxReplies = 1
  PROVE  Spec => [](NeverStopped => NoLeakedSubscription)
<1>1. FlowInv => NoLeakedSubscription
  BY DEF FlowInv, SubsInv, Remembered, NoLeakedSubscription, Entry
<1>2. QED
  BY <1>1, Flows, PTL
=============================================================================
