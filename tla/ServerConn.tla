----------------------------- MODULE ServerConn -----------------------------
(***************************************************************************)
(* The NATS connection of the server itself: natsConn in bridge/server.go. *)
(* serverNatsConn makes it on first use, for the retained request handler  *)
(* that bootUp starts and for the republish goroutines ("ticks");          *)
(* drainAndShutdown closes it.  No lock guards the field, so each access   *)
(* to it is a step of its own.                                             *)
(*                                                                         *)
(* This module has the state and the operations; BridgeLifecycle says when *)
(* they happen.                                                            *)
(***************************************************************************)
EXTENDS Naturals

CONSTANTS
    Ticks,     \* goroutines that run ackCheckTick
    Boot,      \* the goroutine that runs bootUp
    MaxDials   \* bound: connections the server makes

ASSUME DialsAssumption == MaxDials \in Nat
ASSUME BootAssumption == Boot \notin Ticks

VARIABLES
    natsConn,   \* the field: the number of a connection, 0 for nil
    dialled,    \* how many connections were made
    open,       \* those that are open
    answering,  \* those on which retained requests are answered
    user,       \* per user its place in serverNatsConn and what that returned
    raced       \* ghost: have two users found the field nil at once?

serverConnVars == <<natsConn, dialled, open, answering, user, raced>>

Users == Ticks \cup {Boot}
Idle == [at |-> "idle", conn |-> 0]

(* New: no connection until somebody needs one.                            *)
ServerConnInit ==
    /\ natsConn = 0 /\ dialled = 0 /\ open = {} /\ answering = {}
    /\ user = [u \in Users |-> Idle]
    /\ raced = FALSE

-----------------------------------------------------------------------------
(* serverNatsConn, called by u: the test of the field, ...                 *)
AlwaysNil == TRUE
IsNil == natsConn = 0
TestNatsConn(u) ==
    /\ user[u].at = "idle"
    /\ user' = [user EXCEPT ![u].at = IF IsNil THEN "dial" ELSE "read"]
    /\ raced' = (raced \/ (IsNil /\ \E v \in Users \ {u} : user[v].at = "dial"))
    /\ UNCHANGED <<natsConn, dialled, open, answering>>

(* ... NatsConn and the assignment, ...                                    *)
Dial(u) ==
    /\ user[u].at = "dial" /\ dialled < MaxDials
    /\ dialled' = dialled + 1
    /\ natsConn' = dialled' /\ open' = open \cup {dialled'}
    /\ user' = [user EXCEPT ![u].at = "read"]
    /\ UNCHANGED <<answering, raced>>

(* ... which is made with nil when connecting fails, ...                   *)
DialFails(u) ==
    /\ user[u].at = "dial"
    /\ natsConn' = 0
    /\ user' = [user EXCEPT ![u].at = "failed"]
    /\ UNCHANGED <<dialled, open, answering, raced>>

(* ... and the return, which reads the field once more: for bootUp, ...    *)
ReturnNatsConn ==
    /\ user[Boot].at = "read"
    /\ user' = [user EXCEPT ![Boot] = [at |-> "use", conn |-> natsConn]]
    /\ UNCHANGED <<natsConn, dialled, open, answering, raced>>

ServerNatsConn(u) == TestNatsConn(u) \/ Dial(u) \/ DialFails(u)

(* ... and for republish, which asks on the connection it gets, or logs    *)
(* the error of a nil or closed one.                                       *)
Republish(t) ==
    /\ user[t].at \in {"read", "failed"}
    /\ user' = [user EXCEPT ![t] = Idle]
    /\ UNCHANGED <<natsConn, dialled, open, answering, raced>>

(* startRetainedRequestHandler subscribes on the connection it was given.  *)
HandlerStarts ==
    /\ user[Boot].at = "use" /\ user[Boot].conn \in open
    /\ answering' = answering \cup {user[Boot].conn}
    /\ user' = [user EXCEPT ![Boot] = Idle]
    /\ UNCHANGED <<natsConn, dialled, open, raced>>

HandlerFails ==
    /\ \/ user[Boot].at = "failed"
       \/ user[Boot].at = "use" /\ user[Boot].conn \notin open
    /\ user' = [user EXCEPT ![Boot] = Idle]
    /\ UNCHANGED <<natsConn, dialled, open, answering, raced>>

(* drainAndShutdown closes the connection and then sets the field to nil.  *)
NotClosed == UNCHANGED serverConnVars
CloseNatsConn ==
    /\ open' = open \ {natsConn} /\ answering' = answering \ {natsConn}
    /\ UNCHANGED <<natsConn, dialled, user, raced>>

ForgetNatsConn ==
    /\ natsConn' = 0
    /\ UNCHANGED <<dialled, open, answering, user, raced>>

-----------------------------------------------------------------------------
ServerConnTypeOK ==
    /\ dialled \in 0..MaxDials /\ natsConn \in 0..dialled
    /\ answering \subseteq open /\ open \subseteq 1..dialled
    /\ user \in [Users -> [at : {"idle", "dial", "read", "use", "failed"},
                           conn : 0..dialled]]
    /\ raced \in BOOLEAN

(* No connection leaks: the server has at most one open connection, the    *)
(* one that the field names, unless two users found the field nil at once  *)
(* and both made one.                                                      *)
OneServerConn == raced \/ open \subseteq {natsConn}
=============================================================================
