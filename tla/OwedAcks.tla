------------------------------ MODULE OwedAcks ------------------------------
(***************************************************************************)
(* What the bridge promises a NATS publisher whose message has a reply-to  *)
(* subject, about each MQTT client that subscribed with QoS 1: "a NATS     *)
(* publish with a reply-to will be considered in need of a PUBACK from the *)
(* MQTT client" (README.md:43-44).  A message delivered to the client is   *)
(* owed until the client acknowledges it, and is settled then and only     *)
(* then.  What is owed disappears in no other way, except with the session *)
(* of a client that did not ask for its session to be kept, or by a crash, *)
(* which takes the sessions back to what was last persisted.               *)
(***************************************************************************)
EXTENDS Naturals

CONSTANTS Subscribers, Messages

VARIABLES
    owed,     \* what each subscriber's session still has to acknowledge
    settled,  \* what was answered in the name of each subscriber
    kept,     \* has the subscriber asked for its session to be kept?
    saved,    \* what was owed when the sessions were last persisted
    crashes   \* number of crashes so far

vars == <<owed, settled, kept, saved, crashes>>

Init ==
    /\ owed = [c \in Subscribers |-> {}]
    /\ settled = [c \in Subscribers |-> {}]
    /\ kept = [c \in Subscribers |-> FALSE]
    /\ saved = [c \in Subscribers |-> {}]
    /\ crashes = 0

(* A client connects with (keep = FALSE) or without a clean session.       *)
Open(c, keep) ==
    /\ kept' = [kept EXCEPT ![c] = keep]
    /\ owed' = IF keep THEN owed ELSE [owed EXCEPT ![c] = {}]
    /\ UNCHANGED <<settled, saved, crashes>>

Owe(c, m) ==
    /\ m \notin owed[c] \cup settled[c]
    /\ owed' = [owed EXCEPT ![c] = @ \cup {m}]
    /\ UNCHANGED <<settled, kept, saved, crashes>>

Settle(c, m) ==
    /\ m \in owed[c]
    /\ owed' = [owed EXCEPT ![c] = @ \ {m}]
    /\ settled' = [settled EXCEPT ![c] = @ \cup {m}]
    /\ UNCHANGED <<kept, saved, crashes>>

(* A session that was not to be kept ends: all it owed is forgotten.       *)
Discard(c) ==
    /\ ~kept[c]
    /\ owed' = [owed EXCEPT ![c] = {}]
    /\ UNCHANGED <<settled, kept, saved, crashes>>

Persist ==
    /\ saved' = owed
    /\ UNCHANGED <<owed, settled, kept, crashes>>

Crash ==
    /\ owed' = saved
    /\ crashes' = crashes + 1
    /\ UNCHANGED <<settled, kept, saved>>

Next ==
    \/ \E c \in Subscribers :
          \/ \E m \in Messages : Owe(c, m) \/ Settle(c, m)
          \/ \E keep \in BOOLEAN : Open(c, keep)
          \/ Discard(c)
    \/ Persist
    \/ Crash

Spec == Init /\ [][Next]_vars
=============================================================================
