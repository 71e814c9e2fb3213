--------------------------- MODULE BridgeLifecycle ---------------------------
(***************************************************************************)
(* The life of the bridge: bridge/server.go.  Serve boots up, accepts      *)
(* connections, each served by a goroutine of its own, until a signal ends *)
(* the accept loop, and then drains: it tells the managed clients to leave, *)
(* waits for all connections, closes the server's own NATS connection,     *)
(* persists the state and closes the channel done.  Shutdown sends the     *)
(* signal and waits for done; Restart does so, loads the state and calls   *)
(* Serve again.                                                            *)
(*                                                                         *)
(* Calls of Shutdown and Restart come one at a time, the next after the    *)
(* bridge is ready again or the call has returned; signals of the          *)
(* operating system come at any time.                                      *)
(***************************************************************************)
EXTENDS ServerConn, Sequences, SequencesExt, FiniteSets

CONSTANTS
    Conns,          \* the connections MQTT clients make
    RetainedTopic,  \* is RetainedRequestTopic configured?
    Storage,        \* is there a storage path?
    BootFails,      \* may bootUp or load fail?
    MaxCalls,       \* bound: calls of Shutdown and Restart
    MaxSignals      \* bound: signals of the operating system

ASSUME FlagsAssumption ==
    RetainedTopic \in BOOLEAN /\ Storage \in BOOLEAN /\ BootFails \in BOOLEAN
ASSUME BoundsAssumption == MaxCalls \in Nat /\ MaxSignals \in Nat
ASSUME ConnsAssumption == IsFiniteSet(Conns)

VARIABLES
    conn,      \* per connection its place in ServeClient, whether it was told
               \* to disconnect, and (ghost) whether it was added to the wait
               \* group after the drain began to wait
    clients,   \* the field: the managed clients
    wg,        \* the counter of clientWG
    serve,     \* the place of Serve, the clients it has taken, and (ghost)
               \* how often it came up
    listener,  \* is the port open?
    signals,   \* how many signals are in the channel, whose capacity is 1
    trap,      \* the goroutine of Serve that waits for a signal
    done,      \* the channel done
    timer,     \* does pubAckTimer run?
    call,      \* the call of Shutdown or Restart in progress
    file,      \* the times Serve had come up when the state was persisted
    died,      \* has a goroutine panicked?
    calls, sigs

clientVars == <<conn, clients, wg>>
callVars == <<call, calls>>
signalVars == <<signals, trap, sigs>>
vars == <<serverConnVars, clientVars, callVars, signalVars,
          serve, listener, done, timer, file, died>>

Booting == {"listen", "handler", "ready"}
Draining == {"list", "tell", "wait", "woken", "stop", "close", "forget",
             "persist", "done"}
Drained == {"stop", "close", "forget", "persist", "done"}
Served == {"infant", "managed", "ended", "unmanaged"}   \* between Add and Done
Counted == {k \in Conns : conn[k].at \in Served}

NoCall == [at |-> "none", restart |-> FALSE]

(* After New, when Serve is called.                                        *)
Init ==
    /\ ServerConnInit
    /\ conn = [k \in Conns |-> [at |-> "new", told |-> FALSE, late |-> FALSE]]
    /\ clients = <<>> /\ wg = 0
    /\ serve = [at |-> "listen", taken |-> <<>>, times |-> 0]
    /\ listener = FALSE
    /\ signals = 0 /\ trap = "none" /\ sigs = 0
    /\ done = "nil" /\ timer \in BOOLEAN
    /\ call = NoCall /\ calls = 0
    /\ file = 0 /\ died = FALSE

-----------------------------------------------------------------------------
(* Serve.                                                                  *)

ServeGoes(from, to) ==
    /\ serve.at = from
    /\ serve' = [serve EXCEPT !.at = to]

(* bootUp: the port, the retained request handler, done and ready.Done().  *)
Listen ==
    /\ ServeGoes("listen", IF RetainedTopic THEN "handler" ELSE "ready")
    /\ ~listener /\ listener' = TRUE
    /\ UNCHANGED <<serverConnVars, clientVars, callVars, signalVars,
                   done, timer, file, died>>

ListenFails ==
    /\ ServeGoes("listen", "down")
    /\ BootFails \/ listener
    /\ call' = NoCall
    /\ UNCHANGED <<serverConnVars, clientVars, signalVars, calls, listener,
                   done, timer, file, died>>

StartHandler ==
    /\ serve.at = "handler"
    /\ \/ (ServerNatsConn(Boot) \/ ReturnNatsConn) /\ UNCHANGED <<serve, call>>
       \/ HandlerStarts /\ ServeGoes("handler", "ready") /\ UNCHANGED call
       \/ HandlerFails /\ ServeGoes("handler", "down") /\ call' = NoCall
    /\ UNCHANGED <<clientVars, signalVars, calls, listener, done, timer, file, died>>

(* What is served when the accept loop begins was not late.                *)
Ready ==
    /\ serve.at = "ready"
    /\ serve' = [serve EXCEPT !.at = "accept", !.times = @ + 1]
    /\ done' = "open" /\ call' = NoCall /\ trap' = "waiting"
    /\ conn' = [k \in Conns |-> [conn[k] EXCEPT !.late = FALSE]]
    /\ UNCHANGED <<serverConnVars, clients, wg, signals, sigs, calls, listener,
                   timer, file, died>>

(* The goroutine that waits for a signal.  It takes one.                   *)
TakeSignal ==
    /\ trap = "waiting" /\ signals = 1
    /\ signals' = 0 /\ trap' = "took"
    /\ UNCHANGED <<serverConnVars, clientVars, callVars, sigs, serve, listener,
                   done, timer, file, died>>

CloseListener ==
    /\ trap = "took"
    /\ trap' = "none" /\ listener' = FALSE
    /\ UNCHANGED <<serverConnVars, clientVars, callVars, signals, sigs, serve,
                   done, timer, file, died>>

Accept(k) ==
    /\ serve.at = "accept" /\ listener /\ conn[k].at = "new"
    /\ conn' = [conn EXCEPT ![k].at = "accepted"]
    /\ UNCHANGED <<serverConnVars, callVars, signalVars, clients, wg, serve,
                   listener, done, timer, file, died>>

(* An error of Accept ends the loop when shuttingDown is set.              *)
AcceptFails ==
    /\ ServeGoes("accept", "list")
    /\ trap # "waiting"
    /\ UNCHANGED <<serverConnVars, clientVars, callVars, signalVars,
                   listener, done, timer, file, died>>

-----------------------------------------------------------------------------
(* drainAndShutdown.                                                       *)

TakenFromSecond == IF clients = <<>> THEN <<>> ELSE Tail(clients)
Taken == clients
TakeList ==
    /\ serve.at = "list"
    /\ serve' = [serve EXCEPT !.at = "tell", !.taken = Taken]
    /\ clients' = <<>>
    /\ UNCHANGED <<serverConnVars, callVars, signalVars, conn, wg, listener,
                   done, timer, file, died>>

(* SetDisconnected for the next client taken.                              *)
Tell ==
    /\ serve.at = "tell" /\ serve.taken # <<>>
    /\ conn' = [conn EXCEPT ![Head(serve.taken)].told = TRUE]
    /\ serve' = [serve EXCEPT !.taken = Tail(@)]
    /\ UNCHANGED <<serverConnVars, callVars, signalVars, clients, wg, listener,
                   done, timer, file, died>>

(* clientWG.Wait(): returns at once when the counter is zero, ...          *)
ReturnsAlways == TRUE
ReturnsAtOnce == wg = 0
Wait ==
    /\ ServeGoes("tell", IF ReturnsAtOnce THEN "stop" ELSE "wait")
    /\ serve.taken = <<>>
    /\ UNCHANGED <<serverConnVars, clientVars, callVars, signalVars,
                   listener, done, timer, file, died>>

(* ... is woken by the last Done, and panics when the counter is not zero  *)
(* any more: "WaitGroup is reused before previous Wait has returned".      *)
WaitReturns ==
    /\ ServeGoes("woken", "stop")
    /\ died' = (wg # 0)
    /\ UNCHANGED <<serverConnVars, clientVars, callVars, signalVars,
                   listener, done, timer, file>>

StopTimer ==
    /\ ServeGoes("stop", "close")
    /\ timer' = FALSE
    /\ UNCHANGED <<serverConnVars, clientVars, callVars, signalVars,
                   listener, done, file, died>>

CloseServerConn ==
    /\ \/ natsConn # 0 /\ ServeGoes("close", "forget") /\ CloseNatsConn
       \/ natsConn = 0 /\ ServeGoes("close", "persist") /\ UNCHANGED serverConnVars
       \/ ServeGoes("forget", "persist") /\ ForgetNatsConn
    /\ UNCHANGED <<clientVars, callVars, signalVars, listener, done, timer, file, died>>

(* persist, when there is a storage path.                                  *)
Saved == IF Storage THEN serve.times ELSE file
Persist ==
    /\ ServeGoes("persist", "done")
    /\ file' = Saved
    /\ UNCHANGED <<serverConnVars, clientVars, callVars, signalVars,
                   listener, done, timer, died>>

CloseDone ==
    /\ ServeGoes("done", "down")
    /\ done' = "closed"
    /\ UNCHANGED <<serverConnVars, clientVars, callVars, signalVars,
                   listener, timer, file, died>>

Drain == \/ TakeList \/ Tell \/ Wait \/ WaitReturns \/ StopTimer
         \/ CloseServerConn \/ Persist \/ CloseDone

-----------------------------------------------------------------------------
(* ServeClient, one goroutine per connection.                              *)

ConnGoes(k, from, to) ==
    /\ conn[k].at = from
    /\ conn' = [conn EXCEPT ![k].at = to]

ClientStep == UNCHANGED <<serverConnVars, callVars, signalVars, listener,
                          done, timer, file, died>>

(* clientWG.Add(1)                                                         *)
Add(k) ==
    /\ conn[k].at = "accepted"
    /\ conn' = [conn EXCEPT ![k].at = "infant",
                            ![k].late = serve.at \in Drained \cup {"woken", "down"}]
    /\ wg' = wg + 1
    /\ UNCHANGED <<clients, serve>> /\ ClientStep

(* The client's CONNECT is accepted.                                       *)
ManageClient(k) ==
    /\ ConnGoes(k, "infant", "managed")
    /\ clients' = Append(clients, k)
    /\ UNCHANGED <<wg, serve>> /\ ClientStep

(* Serve of the client ends: it leaves, is refused, or was told to.        *)
ClientEnds(k) ==
    /\ ConnGoes(k, "infant", "ended") \/ ConnGoes(k, "managed", "ended")
    /\ UNCHANGED <<clients, wg, serve>> /\ ClientStep

(* The last client takes the place of the one that leaves.                 *)
WithoutLast(k) == IF Contains(clients, k) THEN Front(clients) ELSE clients
Without(k) ==
    IF Contains(clients, k)
    THEN LET i == CHOOSE i \in DOMAIN clients : clients[i] = k
         IN  Front([clients EXCEPT ![i] = Last(clients)])
    ELSE clients
UnmanageClient(k) ==
    /\ ConnGoes(k, "ended", "unmanaged")
    /\ clients' = Without(k)
    /\ UNCHANGED <<wg, serve>> /\ ClientStep

(* clientWG.Done(): the last one wakes who waits.                          *)
Done(k) ==
    /\ ConnGoes(k, "unmanaged", "gone")
    /\ wg' = wg - 1
    /\ serve' = IF wg' = 0 /\ serve.at = "wait"
                THEN [serve EXCEPT !.at = "woken"] ELSE serve
    /\ UNCHANGED clients /\ ClientStep

ServeClient(k) == Add(k) \/ UnmanageClient(k) \/ Done(k)

-----------------------------------------------------------------------------
(* Shutdown and Restart.                                                   *)

CallStep == UNCHANGED <<serverConnVars, clientVars, trap, listener, done,
                        file, died>>

Call ==
    /\ call.at = "none" /\ serve.at \notin Booting /\ calls < MaxCalls
    /\ \E restart \in BOOLEAN : call' = [at |-> "send", restart |-> restart]
    /\ calls' = calls + 1
    /\ UNCHANGED <<signals, sigs, serve, timer>> /\ CallStep

(* s.signals <- syscall.SIGINT: blocks while the channel is full.          *)
SendSignal ==
    /\ call.at = "send" /\ signals = 0
    /\ signals' = 1
    /\ call' = [call EXCEPT !.at = "select"]
    /\ UNCHANGED <<sigs, calls, serve, timer>> /\ CallStep

DoneSeen ==
    /\ call.at = "select" /\ done = "closed"
    /\ call' = IF call.restart THEN [call EXCEPT !.at = "load"] ELSE NoCall
    /\ UNCHANGED <<signals, sigs, calls, serve, timer>> /\ CallStep

(* "timeout during bridge shutdown": Restart goes no further, but calls     *)
(* ready.Done().                                                           *)
RestartsAnyway == IF call.restart THEN [call EXCEPT !.at = "load"] ELSE NoCall
AfterTimeout == NoCall
NeverTimesOut == FALSE
TimesOut ==
    /\ call.at = "select"
    /\ call' = AfterTimeout
    /\ UNCHANGED <<signals, sigs, calls, serve, timer>> /\ CallStep

(* load starts the timer when wills were persisted, and Serve is called.   *)
Load ==
    /\ call.at = "load"
    /\ timer' \in {timer} \cup (IF Storage THEN {TRUE} ELSE {})
    /\ serve' = [at |-> "listen", taken |-> <<>>, times |-> serve.times]
    /\ call' = [call EXCEPT !.at = "serve"]
    /\ UNCHANGED <<signals, sigs, calls>> /\ CallStep

LoadFails ==
    /\ call.at = "load" /\ BootFails
    /\ call' = NoCall
    /\ UNCHANGED <<signals, sigs, calls, serve, timer>> /\ CallStep

(* signal.Notify does not block: what does not fit is dropped.             *)
Notified == 1
OsSignal ==
    /\ done # "nil" /\ sigs < MaxSignals
    /\ sigs' = sigs + 1 /\ signals' = Notified
    /\ UNCHANGED <<callVars, serve, timer>> /\ CallStep

-----------------------------------------------------------------------------
(* Republish goroutines start while the timer runs and end on their own.   *)
Tick(t) ==
    /\ \/ user[t].at = "idle" /\ timer /\ TestNatsConn(t)
       \/ user[t].at # "idle" /\ (ServerNatsConn(t) \/ Republish(t))
    /\ UNCHANGED <<clientVars, callVars, signalVars, serve, listener, done,
                   timer, file, died>>

Serve == \/ Listen \/ StartHandler \/ Ready \/ TakeSignal \/ CloseListener
         \/ AcceptFails \/ Drain
Caller == SendSignal \/ DoneSeen \/ TimesOut \/ Load \/ LoadFails

Next ==
    /\ ~died
    /\ \/ Serve \/ ListenFails \/ Caller \/ Call \/ OsSignal
       \/ \E k \in Conns : Accept(k) \/ ServeClient(k) \/ ManageClient(k) \/ ClientEnds(k)
       \/ \E t \in Ticks : Tick(t)

Spec == Init /\ [][Next]_vars

(* Goroutines that can run do run, the timeout of Shutdown fires, and a    *)
(* client that is told to disconnect does (see ClientConn).  Nobody else   *)
(* has to leave.                                                           *)
Told(k) == conn[k].told /\ ClientEnds(k)
Fairness ==
    /\ WF_vars(~died /\ Serve) /\ WF_vars(~died /\ Caller)
    /\ \A k \in Conns : WF_vars(~died /\ (ServeClient(k) \/ Told(k)))
FairSpec == Spec /\ Fairness

-----------------------------------------------------------------------------
ClientTypeOK ==
    /\ conn \in [Conns -> [at : {"new", "accepted", "gone"} \cup Served,
                           told : BOOLEAN, late : BOOLEAN]]
    /\ clients \in Seq(Conns) /\ wg \in Nat
ServeTypeOK ==
    /\ serve \in [at : {"down", "accept"} \cup Booting \cup Draining,
                  taken : Seq(Conns), times : Nat]
    /\ listener \in BOOLEAN /\ done \in {"nil", "open", "closed"}
    /\ timer \in BOOLEAN /\ died \in BOOLEAN /\ file \in 0..serve.times
CallTypeOK ==
    /\ call \in [at : {"none", "send", "select", "load", "serve"}, restart : BOOLEAN]
    /\ calls \in 0..MaxCalls
SignalTypeOK ==
    /\ signals \in 0..1 /\ sigs \in 0..MaxSignals
    /\ trap \in {"waiting", "took", "none"}
TypeOK == ServerConnTypeOK /\ ClientTypeOK /\ ServeTypeOK /\ CallTypeOK /\ SignalTypeOK

(* What is persisted is complete: once the drain has waited, every client  *)
(* that is still served joined the wait group when the wait was over.      *)
NothingCutOff ==
    serve.at \in Drained /\ ~died => \A k \in Counted : conn[k].late

(* Who is managed can be told to disconnect: no removal of another client  *)
(* and no drain loses it.                                                  *)
ManagedIsKept ==
    \A k \in Conns : conn[k].at = "managed" /\ ~conn[k].told =>
        Contains(clients, k) \/ Contains(serve.taken, k)

(* Retained requests are answered, and by one connection, while the bridge *)
(* accepts clients, unless two users raced for the field.                  *)
RetainedAnsweredOnce ==
    serve.at = "accept" /\ RetainedTopic => raced \/ answering = {natsConn}

(* Restart begins after the last call of Serve has ended, and loads what   *)
(* that call persisted.                                                    *)
LoadsWhatWasPersisted ==
    [][call.at = "load" /\ call'.at = "serve"
         => serve.at = "down" /\ (Storage => file = serve.times)]_vars

(* A drain ends, unless a client stays that the drain cannot tell to       *)
(* leave: one that sends no CONNECT, or one managed after the list was     *)
(* taken.                                                                  *)
Stays ==
    \E k \in Conns :
        \/ conn[k].at = "infant"
        \/ conn[k].at = "managed" /\ Contains(clients, k)
DrainEnds == <>[](serve.at \in Draining /\ ~died) => <>[]Stays

(* A call of Shutdown or Restart gets as far as Serve or returns, unless   *)
(* it blocks on a channel whose signal nobody takes.                       *)
Blocked == call.at = "send" /\ signals = 1 /\ trap # "waiting"
CallReturns == <>[](call.at # "none" /\ ~died) => <>[]Blocked
=============================================================================
