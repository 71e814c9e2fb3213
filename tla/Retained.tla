------------------------------ MODULE Retained ------------------------------
(***************************************************************************)
(* The retained messages of the bridge: bridge/retained.go, and how        *)
(* bridge/server.go and bridge/client.go use it.  A client's PUBLISH with  *)
(* the retain flag is first stored (HandleRetain) and then published to    *)
(* NATS; a retained will is first published and then stored.  A client     *)
(* that subscribes first subscribes at NATS and then gets the stored       *)
(* messages, one by one, while the callback of its NATS subscription       *)
(* already delivers live ones.                                             *)
(*                                                                         *)
(* Matching is abstract here: a filter is the set of topics it matches     *)
(* (TopicMatch says which).  NATS, which delivers to a subscription in the *)
(* order of publishing, and the MQTT clients are the environment.          *)
(***************************************************************************)
EXTENDS Naturals, FiniteSets, Sequences

CONSTANTS
    Topics,       \* topics messages are retained for
    Publishers,   \* connections that publish
    Subscribers,  \* connections that subscribe
    WillTopics,   \* those of them that retained wills are published on, too
    MaxMsgs,      \* bound: messages published
    MaxStops      \* bound: restarts and crashes

ASSUME TopicsAssumption == WillTopics \subseteq Topics
ASSUME BoundsAssumption == MaxMsgs \in Nat /\ MaxStops \in Nat

VARIABLES
    msgs,      \* topic -> the message retained for it
    order,     \* the topics, in the order in which they were added
    pub,       \* publishers: what is left to do for the current message
    sub,       \* subscribers: position in the handling of SUBSCRIBE
    inbox,     \* messages NATS delivers to a subscription, not yet handled
    received,  \* what has been queued for a subscriber since it connected
    file,      \* the persisted store
    sent,      \* number of messages published so far
    failed,    \* ghost: messages that were stored and not published
    stops      \* number of restarts and crashes so far

store == <<msgs, order>>
vars == <<msgs, order, pub, sub, inbox, received, file, sent, failed, stops>>

(* n tells messages apart; an empty payload asks to drop what is retained. *)
Messages == [t : Topics, n : 1..MaxMsgs, empty : BOOLEAN]

NoMsgs == [t \in {} |-> 0]
Ready == [at |-> "idle"]
Away == [at |-> "away", f |-> {}, known |-> FALSE, early |-> FALSE, todo |-> <<>>]

Init ==
    /\ msgs = NoMsgs
    /\ order = <<>>
    /\ pub = [p \in Publishers |-> Ready]
    /\ sub = [s \in Subscribers |-> Away]
    /\ inbox = [s \in Subscribers |-> <<>>]
    /\ received = [s \in Subscribers |-> {}]
    /\ file = [msgs |-> NoMsgs, order |-> <<>>]
    /\ sent = 0
    /\ failed = {}
    /\ stops = 0

-----------------------------------------------------------------------------

(* retained.add                                                            *)
Appended(t) == IF t \in DOMAIN msgs THEN order ELSE Append(order, t)
Add(m) ==
    /\ msgs' = [t \in DOMAIN msgs \cup {m.t} |-> IF t = m.t THEN m ELSE msgs[t]]
    /\ order' = Appended(m.t)

(* retained.drop: the topics behind the dropped one move up by one.        *)
CutAfter(i) == SubSeq(order, 1, i - 1)
ShiftedOut(i) == [j \in 1..(Len(order) - 1) |-> IF j < i THEN order[j] ELSE order[j + 1]]
Drop(t) ==
    IF t \in DOMAIN msgs
    THEN /\ msgs' = [u \in DOMAIN msgs \ {t} |-> msgs[u]]
         /\ \E i \in 1..Len(order) : order[i] = t /\ order' = ShiftedOut(i)
    ELSE UNCHANGED store

AlwaysAdd(m) == Add(m)
HandleRetain(m) == IF m.empty THEN Drop(m.t) ELSE Add(m)

(* NATS puts a message in the queue of each subscription that matches.     *)
Deliver(m) ==
    inbox' = [s \in Subscribers |->
                 IF sub[s].known /\ m.t \in sub[s].f THEN Append(inbox[s], m) ELSE inbox[s]]

-----------------------------------------------------------------------------

(* The two orders in which a retained message is published and stored.     *)
PublishFirst(p, m) ==
    /\ Deliver(m)
    /\ pub' = [pub EXCEPT ![p] = [at |-> "retain", m |-> m]]
    /\ UNCHANGED store
StoreFirst(p, m) ==
    /\ HandleRetain(m)
    /\ pub' = [pub EXCEPT ![p] = [at |-> "publish", m |-> m]]
    /\ UNCHANGED inbox

(* readLoop handles a PUBLISH with the retain flag: HandleRetain ...       *)
ReadPublish(p, t, empty) ==
    /\ pub[p] = Ready
    /\ sent < MaxMsgs
    /\ sent' = sent + 1
    /\ StoreFirst(p, [t |-> t, n |-> sent + 1, empty |-> empty])
    /\ UNCHANGED <<sub, received, file, failed, stops>>

(* ... then natsPublish, which may fail; that ends the connection.         *)
NatsPublish(p) ==
    /\ pub[p].at = "publish"
    /\ Deliver(pub[p].m)
    /\ pub' = [pub EXCEPT ![p] = Ready]
    /\ UNCHANGED <<msgs, order, sub, received, file, sent, failed, stops>>

NatsPublishFails(p) ==
    /\ pub[p].at = "publish"
    /\ failed' = failed \cup {pub[p].m}
    /\ pub' = [pub EXCEPT ![p] = Ready]
    /\ UNCHANGED <<msgs, order, sub, inbox, received, file, sent, stops>>

(* PublishWill with a retained will: published first, retained then.       *)
PublishWill(p, t, empty) ==
    /\ t \in WillTopics
    /\ pub[p] = Ready
    /\ sent < MaxMsgs
    /\ sent' = sent + 1
    /\ PublishFirst(p, [t |-> t, n |-> sent + 1, empty |-> empty])
    /\ UNCHANGED <<sub, received, file, failed, stops>>

RetainWill(p) ==
    /\ pub[p].at = "retain"
    /\ HandleRetain(pub[p].m)
    /\ pub' = [pub EXCEPT ![p] = Ready]
    /\ UNCHANGED <<sub, inbox, received, file, sent, failed, stops>>

-----------------------------------------------------------------------------

(* readLoop handles a SUBSCRIBE: natsSubscribe, which does not wait until  *)
(* NATS has seen the subscription, ...                                     *)
Subscribe(s, f) ==
    /\ sub[s] = Away
    /\ sub' = [sub EXCEPT ![s] = [Away EXCEPT !.at = "lookup", !.f = f]]
    /\ UNCHANGED <<msgs, order, pub, inbox, received, file, sent, failed, stops>>

SubscriptionArrives(s) ==
    /\ sub[s].at # "away"
    /\ ~sub[s].known
    /\ sub' = [sub EXCEPT ![s].known = TRUE]
    /\ UNCHANGED <<msgs, order, pub, inbox, received, file, sent, failed, stops>>

(* ... PublishMatching: matchingMessages under the read lock, which visits *)
(* the topics in order and takes the messages of those that match, ...     *)
(* (early remembers whether NATS knew the subscription by then.)           *)
Hits(s) == {i \in 1..Len(order) : order[i] \in sub[s].f}
Visits(s) ==
    {v \in [1..Cardinality(Hits(s)) -> Hits(s)] :
        \A i, j \in DOMAIN v : i < j => v[i] < v[j]}
Matching(v) == [i \in DOMAIN v |-> msgs[order[v[i]]]]

FindMatching(s) ==
    /\ sub[s].at = "lookup"
    /\ \E v \in Visits(s) :
          sub' = [sub EXCEPT ![s].at = "send", ![s].todo = Matching(v),
                            ![s].early = sub[s].known]
    /\ UNCHANGED <<msgs, order, pub, inbox, received, file, sent, failed, stops>>

(* ... and PublishResponse for each of them.                               *)
Queue(s, m, how) == received' = [received EXCEPT ![s] = @ \cup {[m |-> m, how |-> how]}]

SendRetained(s) ==
    /\ sub[s].at = "send"
    /\ sub[s].todo # <<>>
    /\ Queue(s, Head(sub[s].todo), "retained")
    /\ sub' = [sub EXCEPT ![s].todo = Tail(@)]
    /\ UNCHANGED <<msgs, order, pub, inbox, file, sent, failed, stops>>

(* The callback of the NATS subscription (natsResponse).                   *)
NatsResponse(s) ==
    /\ inbox[s] # <<>>
    /\ Queue(s, Head(inbox[s]), "live")
    /\ inbox' = [inbox EXCEPT ![s] = Tail(@)]
    /\ UNCHANGED <<msgs, order, pub, sub, file, sent, failed, stops>>

(* The connection of a subscriber ends.                                    *)
Leave(s) ==
    /\ sub[s] # Away
    /\ sub' = [sub EXCEPT ![s] = Away]
    /\ inbox' = [inbox EXCEPT ![s] = <<>>]
    /\ received' = [received EXCEPT ![s] = {}]
    /\ UNCHANGED <<msgs, order, pub, file, sent, failed, stops>>

-----------------------------------------------------------------------------

AllGone ==
    /\ sub' = [s \in Subscribers |-> Away]
    /\ inbox' = [s \in Subscribers |-> <<>>]
    /\ received' = [s \in Subscribers |-> {}]

(* Shutdown waits for the read loops, persists the store in its order and  *)
(* closes; load then reads the same store back.                            *)
Restart ==
    /\ stops < MaxStops
    /\ stops' = stops + 1
    /\ \A p \in Publishers : pub[p] = Ready
    /\ file' = [msgs |-> msgs, order |-> order]
    /\ AllGone
    /\ UNCHANGED <<msgs, order, pub, sent, failed>>

(* The process dies; a new one loads what was last persisted.              *)
Crash ==
    /\ stops < MaxStops
    /\ stops' = stops + 1
    /\ msgs' = file.msgs
    /\ order' = file.order
    /\ pub' = [p \in Publishers |-> Ready]
    /\ AllGone
    /\ UNCHANGED <<file, sent, failed>>

-----------------------------------------------------------------------------

Next ==
    \/ \E p \in Publishers, t \in Topics, empty \in BOOLEAN :
          ReadPublish(p, t, empty) \/ PublishWill(p, t, empty)
    \/ \E p \in Publishers : NatsPublish(p) \/ NatsPublishFails(p) \/ RetainWill(p)
    \/ \E s \in Subscribers, f \in SUBSET Topics : Subscribe(s, f)
    \/ \E s \in Subscribers :
          \/ SubscriptionArrives(s)
          \/ FindMatching(s)
          \/ SendRetained(s)
          \/ NatsResponse(s)
          \/ Leave(s)
    \/ Restart
    \/ Crash

Spec == Init /\ [][Next]_vars

-----------------------------------------------------------------------------

(* A store: each topic is in the order exactly if a message is retained    *)
(* for it, and once; MarshalToJSON and matchingMessages look up every      *)
(* topic of the order without a test.                                      *)
Agrees(ms, o) ==
    /\ {o[i] : i \in 1..Len(o)} = DOMAIN ms
    /\ \A i, j \in 1..Len(o) : o[i] = o[j] => i = j

StoreAgrees == Agrees(msgs, order)

(* Every variable has its type; a message is retained for its own topic.   *)
TypeOK ==
    /\ DOMAIN msgs \subseteq Topics
    /\ \A t \in DOMAIN msgs : msgs[t] \in Messages /\ msgs[t].t = t /\ ~msgs[t].empty
    /\ order \in Seq(Topics)
    /\ \A p \in Publishers :
          pub[p] = Ready \/ pub[p] \in [at : {"publish", "retain"}, m : Messages]
    /\ \A s \in Subscribers :
          /\ sub[s].at \in {"away", "lookup", "send"}
          /\ sub[s].f \subseteq Topics
          /\ sub[s].todo \in Seq(Messages)
          /\ inbox[s] \in Seq(Messages)
          /\ received[s] \subseteq [m : Messages, how : {"retained", "live"}]
    /\ Agrees(file.msgs, file.order)
    /\ sent \in 0..MaxMsgs
    /\ failed \subseteq Messages
    /\ stops \in 0..MaxStops

(* A subscriber whose subscription NATS knew before the lookup is done when *)
(* it was sent all it was to be sent and nothing is on its way; publishing *)
(* on a topic without wills has settled when no one has still to publish,  *)
(* or has failed to publish, a message on it.                              *)
Done(s) ==
    /\ sub[s].at = "send" /\ sub[s].todo = <<>>
    /\ sub[s].early /\ inbox[s] = <<>>
Settled(t) ==
    /\ t \notin WillTopics
    /\ \A p \in Publishers : pub[p].at = "publish" => pub[p].m.t # t
    /\ \A m \in failed : m.t # t

(* "An MQTT client that subscribes to a topic will immediately receive all *)
(* retained messages for that topic" (README.md:47): also one that another *)
(* client publishes while the SUBSCRIBE is handled.                        *)
NothingMissed ==
    \A s \in Subscribers, t \in DOMAIN msgs :
        Done(s) /\ Settled(t) /\ t \in sub[s].f
            => \E r \in received[s] : r.m = msgs[t]

(* A subscriber that was sent a retained message which is dropped later    *)
(* gets the empty message that dropped it.                                 *)
DropIsHeard ==
    \A s \in Subscribers : Done(s) =>
        \A r \in received[s] :
            r.how = "retained" /\ r.m.t \notin DOMAIN msgs /\ Settled(r.m.t)
                => \E e \in received[s] : e.m.empty /\ e.m.t = r.m.t /\ e.m.n > r.m.n
=============================================================================
