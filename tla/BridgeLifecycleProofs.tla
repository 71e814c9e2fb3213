------------------------ MODULE BridgeLifecycleProofs ------------------------
(***************************************************************************)
(* Proofs about BridgeLifecycle for any number of connections, republish   *)
(* goroutines, calls and signals: types, what the drain waits for, the     *)
(* list of managed clients, the server's own NATS connection, and what     *)
(* Restart loads.                                                          *)
(***************************************************************************)
EXTENDS BridgeLifecycle, FiniteSetTheorems, SequenceTheorems, TLAPS

(* unmanageClient removes one client and keeps all others.                 *)
LEMMA WithoutOne ==
  ASSUME NEW k \in Conns, clients \in Seq(Conns)
  PROVE  /\ Without(k) \in Seq(Conns)
         /\ \A j \in Conns \ {k} : Contains(clients, j) => Contains(Without(k), j)
<1>1. CASE ~Contains(clients, k)
  BY <1>1 DEF Without
<1>2. CASE Contains(clients, k)
  <2> DEFINE i == CHOOSE i \in DOMAIN clients : clients[i] = k
             n == Len(clients)
             moved == [clients EXCEPT ![i] = Last(clients)]
  <2>1. n \in Nat /\ DOMAIN clients = 1..n /\ \A p \in 1..n : clients[p] \in Conns
    BY ElementOfSeq
  <2>2. i \in 1..n /\ clients[i] = k
    BY <1>2, <2>1 DEF Contains
  <2>3. Last(clients) = clients[n] /\ n >= 1
    BY <2>1, <2>2 DEF Last
  <2> HIDE DEF i
  <2>4. /\ moved \in Seq(Conns) /\ Len(moved) = n
        /\ \A p \in 1..n : moved[p] = IF p = i THEN clients[n] ELSE clients[p]
    BY <2>1, <2>2, <2>3
  <2> HIDE DEF moved
  <2>5. /\ Front(moved) \in Seq(Conns) /\ Len(Front(moved)) = n - 1
        /\ \A p \in 1..(n - 1) : Front(moved)[p] = moved[p]
    <3>1. Front(moved) = SubSeq(moved, 1, n - 1)
      BY <2>4 DEF Front
    <3>2. QED
      BY <2>1, <2>3, <2>4, <3>1, SubSeqProperties
  <2>6. Without(k) = Front(moved)
    BY <1>2 DEF Without, i, moved
  <2>7. ASSUME NEW j \in Conns \ {k}, Contains(clients, j)
        PROVE  Contains(Front(moved), j)
    <3>1. PICK p \in 1..n : clients[p] = j
      BY <2>7 DEF Contains
    <3>2. CASE p # n
      <4> HIDE DEF n
      <4>1. p \in 1..(n - 1) /\ p # i
        BY <2>1, <2>2, <2>7, <3>1, <3>2
      <4>2. Front(moved)[p] = j
        BY <2>1, <2>4, <2>5, <3>1, <4>1
      <4>3. p \in 1..Len(Front(moved))
        BY <2>1, <2>5, <4>1
      <4>4. QED
        BY <4>2, <4>3 DEF Contains
    <3>3. CASE p = n
      <4>1. i \in 1..(n - 1) /\ Front(moved)[i] = j
        BY <2>1, <2>2, <2>4, <2>5, <2>7, <3>1, <3>3
      <4>2. QED
        BY <2>5, <4>1 DEF Contains
    <3>4. QED
      BY <3>2, <3>3
  <2>8. QED
    BY <2>5, <2>6, <2>7
<1>3. QED
  BY <1>1, <1>2

-----------------------------------------------------------------------------
(* Types.  The wait group counts the connections between Add and Done.     *)

TypeInv == TypeOK /\ wg = Cardinality(Counted)

LEMMA CountedIsFinite ==
  /\ IsFiniteSet(Counted) /\ Cardinality(Counted) \in Nat
  /\ Cardinality(Counted) = 0 <=> Counted = {}
<1>1. Counted \subseteq Conns
  BY DEF Counted
<1>2. IsFiniteSet(Counted)
  BY <1>1, ConnsAssumption, FS_Subset
<1>3. QED
  BY <1>2, FS_CardinalityType, FS_EmptySet

LEMMA InitTypes == Init => TypeInv
<1> SUFFICES ASSUME Init PROVE TypeInv
  OBVIOUS
<1>1. Counted = {}
  BY DEF Init, Counted, Served
<1>2. wg = Cardinality(Counted)
  BY <1>1, FS_EmptySet DEF Init
<1>3. ServerConnTypeOK
  <2>1. Idle \in [at : {"idle", "dial", "read", "use", "failed"}, conn : 0..dialled]
    BY DEF Init, ServerConnInit, Idle
  <2>2. user \in [Users -> [at : {"idle", "dial", "read", "use", "failed"}, conn : 0..dialled]]
    BY <2>1 DEF Init, ServerConnInit
  <2>3. QED
    <3>1. dialled \in 0..MaxDials /\ natsConn \in 0..dialled
      BY DialsAssumption DEF Init, ServerConnInit
    <3>2. answering \subseteq open /\ open \subseteq 1..dialled /\ raced \in BOOLEAN
      BY DEF Init, ServerConnInit
    <3>3. QED
      BY <2>2, <3>1, <3>2 DEF ServerConnTypeOK
<1>4. ClientTypeOK
  BY DEF Init, ClientTypeOK
<1>5. ServeTypeOK
  <2>1. /\ serve \in [at : {"down", "accept"} \cup Booting \cup Draining,
                      taken : Seq(Conns), times : Nat]
        /\ file \in 0..serve.times
    BY DEF Init, Booting
  <2>2. /\ listener \in BOOLEAN /\ done \in {"nil", "open", "closed"}
        /\ timer \in BOOLEAN /\ died \in BOOLEAN
    BY Zenon DEF Init
  <2>3. QED
    BY <2>1, <2>2 DEF ServeTypeOK
<1>6. CallTypeOK /\ SignalTypeOK
  BY BoundsAssumption DEF Init, NoCall, CallTypeOK, SignalTypeOK
<1>7. QED
  BY <1>2, <1>3, <1>4, <1>5, <1>6 DEF TypeInv, TypeOK

(* serverNatsConn and what uses the connection.                            *)
LEMMA UserTypes ==
  ASSUME ServerConnTypeOK, NEW u \in Users,
         ServerNatsConn(u) \/ (u = Boot /\ (ReturnNatsConn \/ HandlerStarts \/ HandlerFails))
           \/ Republish(u)
  PROVE  ServerConnTypeOK'
<1> USE DEF ServerConnTypeOK
<1>1. CASE TestNatsConn(u)
  BY <1>1 DEF TestNatsConn
<1>2. CASE Dial(u)
  <2>1. /\ dialled < MaxDials /\ dialled' = dialled + 1 /\ natsConn' = dialled'
        /\ open' = open \cup {dialled'} /\ user' = [user EXCEPT ![u].at = "read"]
        /\ UNCHANGED <<answering, raced>>
    BY <1>2 DEF Dial
  <2>2. dialled' \in 0..MaxDials /\ 0..dialled \subseteq 0..dialled'
        /\ 1..dialled \subseteq 1..dialled' /\ dialled' \in 1..dialled'
    BY <2>1, DialsAssumption
  <2>3. QED
    BY <2>1, <2>2
<1>3. CASE DialFails(u)
  BY <1>3 DEF DialFails
<1>4. CASE u = Boot /\ (ReturnNatsConn \/ HandlerStarts \/ HandlerFails)
  <2>1. CASE ReturnNatsConn
    BY <1>4, <2>1 DEF ReturnNatsConn
  <2>2. CASE HandlerStarts
    <3>1. 0 \in 0..dialled
      BY DialsAssumption
    <3>2. QED
      BY <1>4, <2>2, <3>1 DEF HandlerStarts, Idle
  <2>3. CASE HandlerFails
    BY <1>4, <2>3 DEF HandlerFails, Idle
  <2>4. QED
    BY <1>4, <2>1, <2>2, <2>3
<1>5. CASE Republish(u)
  BY <1>5 DEF Republish, Idle
<1>6. QED
  BY <1>1, <1>2, <1>3, <1>4, <1>5 DEF ServerNatsConn

LEMMA ClosingTypes ==
  ASSUME ServerConnTypeOK, CloseNatsConn \/ ForgetNatsConn
  PROVE  ServerConnTypeOK'
<1>1. CASE CloseNatsConn
  BY <1>1 DEF ServerConnTypeOK, CloseNatsConn
<1>2. CASE ForgetNatsConn
  <2>1. 0 \in 0..dialled
    BY DialsAssumption DEF ServerConnTypeOK
  <2>2. QED
    BY <1>2, <2>1 DEF ServerConnTypeOK, ForgetNatsConn
<1>3. QED
  BY <1>1, <1>2

(* What a step does not touch keeps its type.                              *)
LEMMA Untouched ==
  /\ ServerConnTypeOK /\ UNCHANGED serverConnVars => ServerConnTypeOK'
  /\ ClientTypeOK /\ UNCHANGED clientVars => ClientTypeOK'
  /\ CallTypeOK /\ UNCHANGED callVars => CallTypeOK'
  /\ SignalTypeOK /\ UNCHANGED signalVars => SignalTypeOK'
BY DEF serverConnVars, ServerConnTypeOK, clientVars, ClientTypeOK, callVars, CallTypeOK,
       signalVars, SignalTypeOK

(* Serve.                                                                  *)
LEMMA BootTypes ==
  ASSUME TypeOK, Listen \/ ListenFails \/ StartHandler \/ Ready \/ TakeSignal
                   \/ CloseListener \/ AcceptFails
  PROVE  TypeOK'
<1> USE DEF TypeOK, Booting, Draining, ServeTypeOK
<1>1. CASE Listen
  BY <1>1, Untouched DEF Listen, ServeGoes
<1>2. CASE ListenFails
  <2>1. CallTypeOK'
    BY <1>2 DEF ListenFails, NoCall, CallTypeOK
  <2>2. QED
    BY <1>2, <2>1, Untouched DEF ListenFails, ServeGoes
<1>3. CASE StartHandler
  <2>1. ServerConnTypeOK'
    BY <1>3, UserTypes DEF StartHandler, Users
  <2>2. ClientTypeOK' /\ SignalTypeOK'
    BY <1>3, Untouched DEF StartHandler
  <2>3. CallTypeOK'
    <3>1. (call' = call \/ call' = NoCall) /\ calls' = calls
      BY <1>3, Zenon DEF StartHandler
    <3>2. NoCall \in [at : {"none", "send", "select", "load", "serve"}, restart : BOOLEAN]
      BY DEF NoCall
    <3>3. call' \in [at : {"none", "send", "select", "load", "serve"}, restart : BOOLEAN]
      BY <3>1, <3>2, Zenon DEF CallTypeOK
    <3>4. QED
      BY <3>1, <3>3 DEF CallTypeOK
  <2>4. ServeTypeOK'
    BY <1>3 DEF StartHandler, ServeGoes
  <2>5. QED
    BY <2>1, <2>2, <2>3, <2>4
<1>4. CASE Ready
  <2>1. ClientTypeOK'
    BY <1>4 DEF Ready, ClientTypeOK
  <2>2. CallTypeOK' /\ SignalTypeOK'
    BY <1>4 DEF Ready, NoCall, CallTypeOK, SignalTypeOK
  <2>3. ServeTypeOK'
    <3>1. /\ serve.at = "ready" /\ serve' = [serve EXCEPT !.at = "accept", !.times = @ + 1]
          /\ done' = "open" /\ UNCHANGED <<listener, timer, file, died>>
      BY <1>4 DEF Ready
    <3>2. serve' \in [at : {"down", "accept"} \cup Booting \cup Draining,
                      taken : Seq(Conns), times : Nat]
      <4>1. serve' = [at |-> "accept", taken |-> serve.taken, times |-> serve.times + 1]
        BY <3>1
      <4>2. serve.taken \in Seq(Conns) /\ serve.times + 1 \in Nat
        OBVIOUS
      <4>3. QED
        BY <4>1, <4>2
    <3>3. serve.times \in Nat /\ serve'.times = serve.times + 1
      BY <3>1
    <3>4. file' \in 0..serve'.times
      BY <3>1, <3>3
    <3>5. /\ listener' \in BOOLEAN /\ done' \in {"nil", "open", "closed"}
          /\ timer' \in BOOLEAN /\ died' \in BOOLEAN
      BY <3>1
    <3>6. QED
      BY <3>2, <3>4, <3>5
  <2>4. QED
    BY <1>4, <2>1, <2>2, <2>3, Untouched DEF Ready
<1>5. CASE TakeSignal
  BY <1>5, Untouched DEF TakeSignal, SignalTypeOK
<1>6. CASE CloseListener
  BY <1>6, Untouched DEF CloseListener, SignalTypeOK
<1>7. CASE AcceptFails
  BY <1>7, Untouched DEF AcceptFails, ServeGoes
<1>8. QED
  BY <1>1, <1>2, <1>3, <1>4, <1>5, <1>6, <1>7

(* drainAndShutdown.                                                       *)
LEMMA DrainTypes ==
  ASSUME TypeOK, Drain
  PROVE  TypeOK'
<1> USE DEF TypeOK, Booting, Draining, ServeTypeOK
<1>1. CASE TakeList
  <2>1. ClientTypeOK'
    BY <1>1 DEF TakeList, ClientTypeOK
  <2>2. ServeTypeOK'
    BY <1>1 DEF TakeList, Taken, ClientTypeOK
  <2>3. QED
    BY <1>1, <2>1, <2>2, Untouched DEF TakeList
<1>2. CASE Tell
  <2>1. Head(serve.taken) \in Conns /\ Tail(serve.taken) \in Seq(Conns)
    BY <1>2, HeadTailProperties DEF Tell
  <2>2. ClientTypeOK'
    BY <1>2, <2>1 DEF Tell, ClientTypeOK
  <2>3. ServeTypeOK'
    BY <1>2, <2>1 DEF Tell
  <2>4. QED
    BY <1>2, <2>2, <2>3, Untouched DEF Tell
<1>3. CASE Wait
  BY <1>3, Untouched DEF Wait, ServeGoes
<1>4. CASE WaitReturns
  <2>1. died' \in BOOLEAN
    BY <1>4, Zenon DEF WaitReturns
  <2>2. ServeTypeOK'
    BY <1>4, <2>1 DEF WaitReturns, ServeGoes
  <2>3. QED
    BY <1>4, <2>2, Untouched DEF WaitReturns
<1>5. CASE StopTimer
  BY <1>5, Untouched DEF StopTimer, ServeGoes
<1>6. CASE CloseServerConn
  <2>1. ServerConnTypeOK'
    BY <1>6, ClosingTypes, Untouched DEF CloseServerConn
  <2>2. ServeTypeOK'
    BY <1>6 DEF CloseServerConn, ServeGoes
  <2>3. QED
    BY <1>6, <2>1, <2>2, Untouched DEF CloseServerConn
<1>7. CASE Persist
  <2>1. /\ serve' = [serve EXCEPT !.at = "done"] /\ file' \in {file, serve.times}
        /\ UNCHANGED <<listener, done, timer, died>>
    BY <1>7 DEF Persist, ServeGoes, Saved
  <2>2. file' \in 0..serve'.times
    BY <2>1
  <2>3. ServeTypeOK'
    BY <2>1, <2>2
  <2>4. QED
    BY <1>7, <2>3, Untouched DEF Persist
<1>8. CASE CloseDone
  BY <1>8, Untouched DEF CloseDone, ServeGoes
<1>9. QED
  BY <1>1, <1>2, <1>3, <1>4, <1>5, <1>6, <1>7, <1>8 DEF Drain

(* ServeClient: all but Add and Done leave the wait group alone.           *)
LEMMA ConnTypes ==
  ASSUME TypeOK, NEW k \in Conns,
         Accept(k) \/ ManageClient(k) \/ ClientEnds(k) \/ UnmanageClient(k)
  PROVE  TypeOK'
<1> USE DEF TypeOK, ClientStep, Served, ConnGoes
<1>1. /\ UNCHANGED <<serverConnVars, callVars, signalVars>>
      /\ UNCHANGED <<serve, listener, done, timer, file, died>>
  BY DEF Accept, ManageClient, ClientEnds, UnmanageClient
<1>2. ClientTypeOK'
  <2>1. CASE Accept(k)
    BY <2>1 DEF Accept, ClientTypeOK
  <2>2. CASE ManageClient(k)
    BY <2>2, AppendProperties DEF ManageClient, ClientTypeOK
  <2>3. CASE ClientEnds(k)
    BY <2>3 DEF ClientEnds, ClientTypeOK
  <2>4. CASE UnmanageClient(k)
    BY <2>4, WithoutOne DEF UnmanageClient, ClientTypeOK
  <2>5. QED
    BY <2>1, <2>2, <2>3, <2>4
<1>3. ServeTypeOK'
  BY <1>1 DEF ServeTypeOK
<1>4. QED
  BY <1>1, <1>2, <1>3, Untouched

LEMMA AddTypes ==
  ASSUME TypeInv, NEW k \in Conns, Add(k)
  PROVE  TypeInv' /\ Counted' = Counted \cup {k} /\ k \notin Counted
<1> USE DEF TypeInv, TypeOK
<1>1. conn[k].at = "accepted" /\ wg' = wg + 1 /\ UNCHANGED <<clients, serve>>
  BY DEF Add
<1>2. conn' = [conn EXCEPT ![k].at = "infant", ![k].late = conn'[k].late]
      /\ conn'[k].late \in BOOLEAN
  BY DEF Add, ClientTypeOK
<1>3. ClientTypeOK'
  BY <1>1, <1>2 DEF ClientTypeOK, Served
<1>4. k \notin Counted /\ Counted' = Counted \cup {k}
  BY <1>1, <1>2 DEF ClientTypeOK, Counted, Served
<1>5. wg' = Cardinality(Counted')
  BY <1>1, <1>4, CountedIsFinite, FS_AddElement
<1>6. ServeTypeOK'
  BY <1>1 DEF Add, ClientStep, ServeTypeOK
<1>7. QED
  BY <1>3, <1>4, <1>5, <1>6, Untouched DEF Add, ClientStep

LEMMA DoneTypes ==
  ASSUME TypeInv, NEW k \in Conns, Done(k)
  PROVE  TypeInv' /\ Counted' = Counted \ {k} /\ k \in Counted
<1> USE DEF TypeInv, TypeOK
<1>1. /\ conn[k].at = "unmanaged" /\ conn' = [conn EXCEPT ![k].at = "gone"]
      /\ wg' = wg - 1 /\ UNCHANGED clients
  BY DEF Done, ConnGoes
<1>2. k \in Counted /\ Counted' = Counted \ {k}
  BY <1>1 DEF ClientTypeOK, Counted, Served
<1>3. wg' = Cardinality(Counted') /\ wg' \in Nat
  BY <1>1, <1>2, CountedIsFinite, FS_RemoveElement, FS_CardinalityType
<1>4. ClientTypeOK'
  BY <1>1, <1>3 DEF ClientTypeOK, Served
<1>5. ServeTypeOK'
  <2>1. serve' \in {[serve EXCEPT !.at = "woken"], serve}
    BY DEF Done
  <2>2. QED
    BY <2>1 DEF Done, ClientStep, ServeTypeOK, Draining
<1>6. QED
  BY <1>2, <1>3, <1>4, <1>5, Untouched DEF Done, ClientStep

(* Shutdown, Restart, the operating system and republish.                  *)
LEMMA CallTypes ==
  ASSUME TypeOK, Caller \/ Call \/ OsSignal
  PROVE  TypeOK'
<1> USE DEF TypeOK, CallStep
<1>1. UNCHANGED serverConnVars /\ UNCHANGED clientVars /\ trap' = trap
      /\ UNCHANGED <<listener, done, file, died>>
  BY DEF Caller, SendSignal, DoneSeen, TimesOut, Load, LoadFails, Call, OsSignal
<1>2. signals' \in 0..1 /\ sigs' \in 0..MaxSignals
  <2>1. /\ signals' \in {signals, 1}
        /\ sigs' = sigs \/ (sigs < MaxSignals /\ sigs' = sigs + 1)
    BY DEF Caller, SendSignal, DoneSeen, TimesOut, Load, LoadFails, Call, OsSignal, Notified
  <2>2. QED
    BY <2>1, BoundsAssumption DEF SignalTypeOK
<1>3. calls' \in 0..MaxCalls
  <2>1. calls' = calls \/ (calls < MaxCalls /\ calls' = calls + 1)
    BY DEF Caller, SendSignal, DoneSeen, TimesOut, Load, LoadFails, Call, OsSignal, callVars
  <2>2. QED
    BY <2>1, BoundsAssumption DEF CallTypeOK
<1>4. call' \in [at : {"none", "send", "select", "load", "serve"}, restart : BOOLEAN]
  <2> DEFINE CallSet == [at : {"none", "send", "select", "load", "serve"}, restart : BOOLEAN]
  <2>1. NoCall \in CallSet
    BY DEF NoCall
  <2>2. \A at \in {"select", "load", "serve"} : [call EXCEPT !.at = at] \in CallSet
    BY DEF CallTypeOK
  <2>3. call \in CallSet
    BY DEF CallTypeOK
  <2>4. CASE Call
    BY <2>4 DEF Call
  <2>5. CASE Caller \/ OsSignal
    <3> HIDE DEF CallSet
    <3>1. \/ call' = call \/ call' = NoCall
          \/ call' = [call EXCEPT !.at = "select"]
          \/ call' = [call EXCEPT !.at = "load"]
          \/ call' = [call EXCEPT !.at = "serve"]
      BY <2>5, Zenon DEF Caller, SendSignal, DoneSeen, TimesOut, AfterTimeout, Load, LoadFails,
         OsSignal, callVars
    <3>2. call' \in CallSet
      BY <2>1, <2>2, <2>3, <3>1
    <3>3. QED
      BY <3>2 DEF CallSet
  <2>6. QED
    BY <2>4, <2>5
<1>5. ServeTypeOK'
  <2>1. CASE Load
    <3>1. serve' = [at |-> "listen", taken |-> <<>>, times |-> serve.times]
      BY <2>1 DEF Load
    <3>2. timer' \in BOOLEAN
      BY <2>1, Zenon DEF Load, ServeTypeOK
    <3>3. QED
      BY <1>1, <3>1, <3>2 DEF ServeTypeOK, Booting
  <2>2. CASE ~Load
    <3>1. serve' = serve /\ timer' = timer
      BY <2>2 DEF Caller, SendSignal, DoneSeen, TimesOut, LoadFails, Call, OsSignal
    <3>2. QED
      BY <1>1, <3>1 DEF ServeTypeOK
  <2>3. QED
    BY <2>1, <2>2
<1>6. QED
  BY <1>1, <1>2, <1>3, <1>4, <1>5, Untouched DEF CallTypeOK, SignalTypeOK

LEMMA TickTypes ==
  ASSUME TypeOK, NEW t \in Ticks, Tick(t)
  PROVE  TypeOK'
<1>1. ServerConnTypeOK'
  BY UserTypes DEF TypeOK, Tick, Users, ServerNatsConn
<1>2. ServeTypeOK'
  BY DEF Tick, TypeOK, ServeTypeOK
<1>3. QED
  BY <1>1, <1>2, Untouched DEF Tick, TypeOK

(* Only Add and Done change what the wait group counts.                    *)
LEMMA SameCounted ==
  ASSUME ClientTypeOK,
         \/ UNCHANGED clientVars
         \/ Ready \/ TakeList \/ Tell
         \/ \E k \in Conns : Accept(k) \/ ManageClient(k) \/ ClientEnds(k) \/ UnmanageClient(k)
  PROVE  Counted' = Counted /\ wg' = wg
<1> USE DEF ClientTypeOK, Counted, Served
<1>1. CASE UNCHANGED clientVars
  BY <1>1 DEF clientVars
<1>2. CASE Ready \/ TakeList \/ Tell
  BY <1>2 DEF Ready, TakeList, Tell
<1>3. ASSUME NEW k \in Conns, Accept(k) \/ ManageClient(k) \/ ClientEnds(k) \/ UnmanageClient(k)
      PROVE  Counted' = Counted /\ wg' = wg
  <2>1. CASE Accept(k)
    BY <2>1 DEF Accept
  <2>2. CASE ManageClient(k)
    BY <2>2 DEF ManageClient, ConnGoes
  <2>3. CASE ClientEnds(k)
    BY <2>3 DEF ClientEnds, ConnGoes
  <2>4. CASE UnmanageClient(k)
    BY <2>4 DEF UnmanageClient, ConnGoes
  <2>5. QED
    BY <1>3, <2>1, <2>2, <2>3, <2>4
<1>4. QED
  BY <1>1, <1>2, <1>3

LEMMA TypesStay == TypeInv /\ [Next]_vars => TypeInv'
<1> SUFFICES ASSUME TypeInv, [Next]_vars PROVE TypeInv'
  OBVIOUS
<1> USE DEF TypeInv
<1> DEFINE Counting == \E k \in Conns : Add(k) \/ Done(k)
<1>1. CASE Counting
  BY <1>1, AddTypes, DoneTypes
<1>2. CASE ~Counting
  <2>1. TypeOK' /\ Counted' = Counted /\ wg' = wg
    <3>1. CASE Serve \/ ListenFails
      <4>1. TypeOK'
        BY <3>1, BootTypes, DrainTypes DEF Serve
      <4>2. UNCHANGED clientVars \/ Ready \/ TakeList \/ Tell
        BY <3>1 DEF Serve, Listen, ListenFails, StartHandler, TakeSignal, CloseListener,
           AcceptFails, Drain, Wait, WaitReturns, StopTimer, CloseServerConn, Persist, CloseDone
      <4>3. QED
        BY <4>1, <4>2, SameCounted DEF TypeOK
    <3>2. CASE Caller \/ Call \/ OsSignal
      <4>1. UNCHANGED clientVars
        BY <3>2 DEF Caller, SendSignal, DoneSeen, TimesOut, Load, LoadFails, Call, OsSignal,
           CallStep
      <4>2. QED
        BY <3>2, <4>1, CallTypes, SameCounted DEF TypeOK
    <3>3. ASSUME NEW k \in Conns,
                 Accept(k) \/ ManageClient(k) \/ ClientEnds(k) \/ UnmanageClient(k)
          PROVE  TypeOK' /\ Counted' = Counted /\ wg' = wg
      BY <3>3, ConnTypes, SameCounted DEF TypeOK
    <3>4. ASSUME NEW t \in Ticks, Tick(t)
          PROVE  TypeOK' /\ Counted' = Counted /\ wg' = wg
      BY <3>4, TickTypes, SameCounted DEF TypeOK, Tick
    <3>5. CASE UNCHANGED vars
      <4>1. UNCHANGED clientVars
        BY <3>5 DEF vars
      <4>2. TypeOK'
        BY <3>5, Untouched DEF vars, TypeOK, ServeTypeOK
      <4>3. QED
        BY <4>1, <4>2, SameCounted DEF TypeOK
    <3>6. QED
      BY <1>2, <3>1, <3>2, <3>3, <3>4, <3>5 DEF Next, ServeClient
  <2>2. QED
    BY <2>1
<1>3. QED
  BY <1>1, <1>2

LEMMA Typed == Spec => []TypeInv
<1>1. QED
  BY InitTypes, TypesStay, PTL DEF Spec

(* Every variable of the bridge keeps its type, and the counter of the     *)
(* wait group is the number of connections between Add and Done.           *)
THEOREM TypeCorrect == Spec => []TypeOK
<1>1. TypeInv => TypeOK
  BY DEF TypeInv
<1>2. QED
  BY <1>1, Typed, PTL

-----------------------------------------------------------------------------
(* What the drain waits for.  From the moment the wait group wakes the     *)
(* drain, or its counter is found zero, whoever is counted came later.     *)

WaitedInv ==
    serve.at \in Drained \cup {"woken"} /\ ~died => \A k \in Counted : conn[k].late

(* All other steps leave what is counted alone and do not end the wait.    *)
LEMMA WaitIsNotOver ==
  ASSUME TypeInv, [Next]_vars, ~Wait, ~\E k \in Conns : Add(k) \/ Done(k)
  PROVE  /\ serve'.at \in Drained \cup {"woken"} => serve.at \in Drained \cup {"woken"}
         /\ ~died' => ~died
         /\ Counted' = Counted
         /\ Ready \/ \A k \in Conns : conn'[k].late = conn[k].late
<1> USE DEF TypeInv, TypeOK, ServeTypeOK, Drained
<1>0. ~died' => ~died
  BY Zenon DEF Next, vars
<1>1. CASE Serve \/ ListenFails
  <2>1. serve'.at \in Drained \cup {"woken"} => serve.at \in Drained \cup {"woken"}
    BY <1>1 DEF Serve, ListenFails, ServeGoes, Listen, StartHandler, Ready, TakeSignal,
       CloseListener, AcceptFails, Drain, TakeList, Tell, WaitReturns, StopTimer,
       CloseServerConn, Persist, CloseDone
  <2>2. UNCHANGED clientVars \/ Ready \/ TakeList \/ Tell
    BY <1>1 DEF Serve, ListenFails, Listen, StartHandler, TakeSignal, CloseListener,
       AcceptFails, Drain, WaitReturns, StopTimer, CloseServerConn, Persist, CloseDone
  <2>3. Ready \/ \A k \in Conns : conn'[k].late = conn[k].late
    BY <2>2 DEF clientVars, TakeList, Tell, ClientTypeOK
  <2>4. QED
    BY <1>0, <2>1, <2>2, <2>3, SameCounted
<1>2. CASE Caller \/ Call \/ OsSignal
  <2>1. UNCHANGED clientVars /\ died' = died
    BY <1>2 DEF Caller, SendSignal, DoneSeen, TimesOut, Load, LoadFails, Call, OsSignal,
       CallStep
  <2>2. Load => serve'.at = "listen"
    BY DEF Load
  <2>3. ~Load => serve' = serve
    BY <1>2 DEF Caller, SendSignal, DoneSeen, TimesOut, LoadFails, Call, OsSignal
  <2>4. QED
    BY <2>1, <2>2, <2>3, SameCounted DEF clientVars
<1>3. ASSUME NEW k \in Conns,
             Accept(k) \/ ManageClient(k) \/ ClientEnds(k) \/ UnmanageClient(k)
      PROVE  /\ serve' = serve /\ died' = died /\ Counted' = Counted
             /\ \A j \in Conns : conn'[j].late = conn[j].late
  <2>1. serve' = serve /\ died' = died
    BY <1>3 DEF Accept, ManageClient, ClientEnds, UnmanageClient, ClientStep
  <2>2. \A j \in Conns : conn'[j].late = conn[j].late
    BY <1>3 DEF Accept, ManageClient, ClientEnds, UnmanageClient, ConnGoes, ClientTypeOK
  <2>3. QED
    BY <1>3, <2>1, <2>2, SameCounted
<1>4. CASE UNCHANGED vars \/ \E t \in Ticks : Tick(t)
  <2>1. UNCHANGED clientVars /\ serve' = serve /\ died' = died
    BY <1>4 DEF vars, Tick
  <2>2. QED
    BY <2>1, SameCounted DEF clientVars
<1>5. QED
  BY <1>1, <1>2, <1>3, <1>4 DEF Next, ServeClient

LEMMA WaitedStays == TypeInv /\ WaitedInv /\ [Next]_vars => WaitedInv'
<1> SUFFICES ASSUME TypeInv, WaitedInv, [Next]_vars PROVE WaitedInv'
  OBVIOUS
<1>1. CASE Wait
  <2>1. Counted' = Counted
    BY <1>1, SameCounted DEF Wait, TypeInv, TypeOK
  <2>2. serve'.at = "stop" => Counted = {}
    <3>1. serve'.at = "stop" => wg = 0
      BY <1>1 DEF Wait, ServeGoes, ReturnsAtOnce, TypeInv, TypeOK, ServeTypeOK
    <3>2. QED
      BY <3>1, CountedIsFinite DEF TypeInv
  <2>3. serve'.at \in {"stop", "wait"}
    BY <1>1 DEF Wait, ServeGoes, TypeInv, TypeOK, ServeTypeOK
  <2>4. QED
    BY <2>1, <2>2, <2>3 DEF WaitedInv, Drained
<1>2. ASSUME NEW k \in Conns, Add(k)
      PROVE  WaitedInv'
  <2>1. Counted' = Counted \cup {k} /\ serve' = serve /\ died' = died
    BY <1>2, AddTypes DEF Add, ClientStep
  <2>2. conn' = [conn EXCEPT ![k].at = "infant",
                             ![k].late = serve.at \in Drained \cup {"woken", "down"}]
    BY <1>2 DEF Add
  <2>3. serve.at \in Drained \cup {"woken"} => conn'[k].late
    BY <2>2 DEF TypeInv, TypeOK, ClientTypeOK
  <2>4. \A j \in Conns \ {k} : conn'[j] = conn[j]
    BY <2>2 DEF TypeInv, TypeOK, ClientTypeOK
  <2>5. QED
    BY <2>1, <2>3, <2>4 DEF WaitedInv, Counted
<1>3. ASSUME NEW k \in Conns, Done(k)
      PROVE  WaitedInv'
  <2>1. Counted' = Counted \ {k} /\ wg' = Cardinality(Counted')
    BY <1>3, DoneTypes DEF TypeInv
  <2>2. died' = died /\ conn' = [conn EXCEPT ![k].at = "gone"]
    BY <1>3 DEF Done, ConnGoes, ClientStep
  <2>3. CASE wg' = 0
    <3>1. Counted' = {}
      BY <2>1, <2>3, CountedIsFinite, FS_RemoveElement, FS_EmptySet
    <3>2. QED
      BY <3>1 DEF WaitedInv
  <2>4. CASE wg' # 0
    <3>1. serve' = serve
      BY <1>3, <2>4 DEF Done
    <3>2. \A j \in Conns \ {k} : conn'[j] = conn[j]
      BY <2>2 DEF TypeInv, TypeOK, ClientTypeOK
    <3>3. QED
      BY <2>1, <2>2, <3>1, <3>2 DEF WaitedInv, Counted
  <2>5. QED
    BY <2>3, <2>4
<1>4. CASE ~Wait /\ ~\E k \in Conns : Add(k) \/ Done(k)
  <2>1. CASE Ready
    <3>1. serve'.at = "accept"
      BY <2>1 DEF Ready, TypeInv, TypeOK, ServeTypeOK
    <3>2. QED
      BY <3>1 DEF WaitedInv, Drained
  <2>2. CASE ~Ready
    <3>1. Counted' \subseteq Conns
      BY DEF Counted
    <3>2. QED
      BY <1>4, <2>2, <3>1, WaitIsNotOver DEF WaitedInv
  <2>3. QED
    BY <2>1, <2>2
<1>5. QED
  BY <1>1, <1>2, <1>3, <1>4

(* drainAndShutdown persists and closes done only when every connection    *)
(* that was served before its wait was over has called clientWG.Done.      *)
THEOREM DrainWaitsForAll == Spec => []NothingCutOff
<1>1. Init => WaitedInv
  BY DEF Init, WaitedInv, Drained
<1>2. WaitedInv => NothingCutOff
  BY DEF WaitedInv, NothingCutOff
<1>3. QED
  BY <1>1, <1>2, Typed, WaitedStays, PTL DEF Spec

-----------------------------------------------------------------------------
(* The server's own connection.  While no two users have raced, only one   *)
(* dials, and then there is no connection; the one that the drain has      *)
(* closed and not forgotten is closed.                                     *)

ConnInv ==
    ~raced =>
        /\ open \subseteq {natsConn}
        /\ \A u \in Users : user[u].at = "dial" => natsConn = 0
        /\ \A u, v \in Users : user[u].at = "dial" /\ user[v].at = "dial" => u = v
        /\ serve.at = "forget" => natsConn # 0 /\ open = {}

LEMMA NoneOpenAtZero ==
  ASSUME ServerConnTypeOK, open \subseteq {natsConn}, natsConn = 0
  PROVE  open = {}
BY DEF ServerConnTypeOK

(* serverNatsConn keeps it, whoever calls and wherever the drain is.       *)
LEMMA UserKeepsConn ==
  ASSUME ServerConnTypeOK, ConnInv, NEW u \in Users, serve'.at = "forget" => serve.at = "forget",
         ServerNatsConn(u) \/ (u = Boot /\ (ReturnNatsConn \/ HandlerStarts \/ HandlerFails))
           \/ Republish(u)
  PROVE  ConnInv' /\ (~raced' => ~raced /\ (natsConn # 0 => natsConn' = natsConn))
<1> SUFFICES ASSUME ~raced'
             PROVE  ConnInv' /\ ~raced /\ (natsConn # 0 => natsConn' = natsConn)
  BY DEF ConnInv
<1>1. ~raced
  BY Zenon DEF ServerNatsConn, TestNatsConn, Dial, DialFails, ReturnNatsConn, HandlerStarts,
     HandlerFails, Republish
<1>2. user \in [Users -> [at : {"idle", "dial", "read", "use", "failed"}, conn : 0..dialled]]
  BY DEF ServerConnTypeOK
<1>3. CASE TestNatsConn(u)
  <2>1. CASE natsConn = 0
    <3>1. \A v \in Users \ {u} : user[v].at # "dial"
      BY <1>3, <2>1, Zenon DEF TestNatsConn, IsNil
    <3>2. /\ user' = [user EXCEPT ![u].at = "dial"] /\ UNCHANGED <<natsConn, open>>
      BY <1>3, <2>1 DEF TestNatsConn, IsNil
    <3>3. QED
      BY <1>1, <1>2, <2>1, <3>1, <3>2 DEF ConnInv
  <2>2. CASE natsConn # 0
    <3>1. /\ user' = [user EXCEPT ![u].at = "read"] /\ UNCHANGED <<natsConn, open>>
      BY <1>3, <2>2 DEF TestNatsConn, IsNil
    <3>2. QED
      BY <1>1, <1>2, <2>2, <3>1 DEF ConnInv
  <2>3. QED
    BY <2>1, <2>2
<1>4. CASE Dial(u) \/ DialFails(u)
  <2>1. /\ user[u].at = "dial" /\ natsConn = 0 /\ open = {}
        /\ \A v \in Users \ {u} : user[v].at # "dial"
    BY <1>1, <1>4, NoneOpenAtZero DEF Dial, DialFails, ConnInv
  <2>2. /\ \E at \in {"read", "failed"} : user' = [user EXCEPT ![u].at = at]
        /\ open' \subseteq {natsConn'}
    BY <1>4, <2>1 DEF Dial, DialFails
  <2>3. \A v \in Users : user'[v].at # "dial"
    BY <1>2, <2>1, <2>2
  <2>4. serve'.at # "forget"
    BY <1>1, <2>1 DEF ConnInv
  <2>5. QED
    BY <1>1, <2>1, <2>2, <2>3, <2>4 DEF ConnInv
<1>5. CASE (u = Boot /\ (ReturnNatsConn \/ HandlerStarts \/ HandlerFails)) \/ Republish(u)
  <2>1. /\ UNCHANGED <<natsConn, open>>
        /\ \A v \in Users : user'[v].at = "dial" => user[v].at = "dial"
    BY <1>2, <1>5 DEF ReturnNatsConn, HandlerStarts, HandlerFails, Republish, Idle
  <2>2. QED
    BY <1>1, <2>1 DEF ConnInv
<1>6. QED
  BY <1>3, <1>4, <1>5 DEF ServerNatsConn

(* Who else steps leaves the connection alone.                             *)
LEMMA OthersLeaveConn ==
  ASSUME TypeOK, [Next]_vars, ~StartHandler, ~CloseServerConn, ~\E t \in Ticks : Tick(t)
  PROVE  UNCHANGED serverConnVars /\ (serve'.at = "forget" => serve.at = "forget")
<1>1. UNCHANGED serverConnVars
  BY Zenon DEF Next, vars, Serve, ListenFails, Listen, Ready, TakeSignal,
     CloseListener, AcceptFails, Drain, TakeList, Tell, Wait, WaitReturns, StopTimer,
     Persist, CloseDone, Caller, SendSignal, DoneSeen, TimesOut, Load, LoadFails, Call,
     OsSignal, CallStep, Accept, ServeClient, Add, ManageClient, ClientEnds, UnmanageClient,
     Done, ClientStep
<1>2. serve'.at = "forget" => serve.at = "forget"
  <2>1. CASE Serve \/ ListenFails
    BY <2>1 DEF Serve, ListenFails, ServeGoes, Listen, Ready, TakeSignal,
       CloseListener, AcceptFails, Drain, TakeList, Tell, Wait, WaitReturns, StopTimer,
       Persist, CloseDone, TypeOK, ServeTypeOK
  <2>2. CASE Load
    BY <2>2 DEF Load
  <2>3. CASE (Caller /\ ~Load) \/ Call \/ OsSignal
    BY <2>3 DEF Caller, SendSignal, DoneSeen, TimesOut, LoadFails, Call, OsSignal
  <2>4. ASSUME NEW k \in Conns,
               Accept(k) \/ ServeClient(k) \/ ManageClient(k) \/ ClientEnds(k)
        PROVE  serve'.at = "forget" => serve.at = "forget"
    <3>1. serve' \in {[serve EXCEPT !.at = "woken"], serve}
      BY <2>4 DEF Accept, ServeClient, Add, ManageClient, ClientEnds, UnmanageClient, Done,
         ClientStep
    <3>2. QED
      BY <3>1 DEF TypeOK, ServeTypeOK
  <2>5. QED
    BY <2>1, <2>2, <2>3, <2>4 DEF Next, vars
<1>3. QED
  BY <1>1, <1>2

LEMMA ConnStays == TypeInv /\ ConnInv /\ [Next]_vars => ConnInv'
<1> SUFFICES ASSUME TypeInv, ConnInv, [Next]_vars PROVE ConnInv'
  OBVIOUS
<1> USE DEF TypeInv, TypeOK
<1>1. CASE StartHandler
  <2>1. serve'.at = "forget" => serve.at = "forget"
    BY <1>1 DEF StartHandler, ServeGoes, ServeTypeOK
  <2>2. QED
    BY <1>1, <2>1, UserKeepsConn DEF StartHandler, Users
<1>2. ASSUME NEW t \in Ticks, Tick(t) PROVE ConnInv'
  <2>1. serve' = serve
    BY <1>2 DEF Tick
  <2>2. ServerNatsConn(t) \/ Republish(t)
    BY <1>2 DEF Tick, ServerNatsConn
  <2>3. QED
    BY <2>1, <2>2, UserKeepsConn DEF Users
<1>3. CASE CloseServerConn
  <2>1. user' = user /\ raced' = raced
    BY <1>3 DEF CloseServerConn, CloseNatsConn, ForgetNatsConn, serverConnVars
  <2>2. CASE natsConn # 0 /\ ServeGoes("close", "forget") /\ CloseNatsConn
    BY <2>1, <2>2 DEF CloseNatsConn, ConnInv
  <2>3. CASE natsConn = 0 /\ ServeGoes("close", "persist") /\ UNCHANGED serverConnVars
    <3>1. serve'.at # "forget"
      BY <2>3 DEF ServeGoes, ServeTypeOK
    <3>2. QED
      BY <2>3, <3>1 DEF serverConnVars, ConnInv
  <2>4. CASE ServeGoes("forget", "persist") /\ ForgetNatsConn
    <3>1. serve.at = "forget" /\ serve'.at # "forget" /\ natsConn' = 0 /\ open' = open
      BY <2>4 DEF ServeGoes, ServeTypeOK, ForgetNatsConn
    <3>2. QED
      BY <2>1, <3>1 DEF ConnInv
  <2>5. QED
    BY <1>3, <2>2, <2>3, <2>4 DEF CloseServerConn
<1>4. CASE ~StartHandler /\ ~CloseServerConn /\ ~\E t \in Ticks : Tick(t)
  BY <1>4, OthersLeaveConn DEF serverConnVars, ConnInv
<1>5. QED
  BY <1>1, <1>2, <1>3, <1>4

LEMMA ConnHolds == Spec => []ConnInv
<1>1. Init => ConnInv
  BY DEF Init, ServerConnInit, Idle, ConnInv
<1>2. QED
  BY <1>1, Typed, ConnStays, PTL DEF Spec

(* serverNatsConn makes no second connection and drainAndShutdown leaves   *)
(* none behind, as long as no two goroutines found natsConn nil at once.   *)
THEOREM NoConnLeaks == Spec => []OneServerConn
<1>1. ConnInv => OneServerConn
  BY DEF ConnInv, OneServerConn
<1>2. QED
  BY <1>1, ConnHolds, PTL

-----------------------------------------------------------------------------
(* Who answers retained requests: from the moment the handler runs until   *)
(* the drain closes the connection, the one connection there is.           *)

Answered == {"ready", "accept", "list", "tell", "wait", "woken", "stop", "close"}
HandlerInv == serve.at \in Answered /\ RetainedTopic => raced \/ answering = {natsConn}

(* Only the handler's start, or Serve without one, leads there.            *)
LEMMA NotAnsweredYet ==
  ASSUME TypeOK, [Next]_vars, RetainedTopic, ~StartHandler, ~CloseServerConn
  PROVE  serve'.at \in Answered => serve.at \in Answered
<1>1. CASE Serve \/ ListenFails
  BY <1>1 DEF Answered, Serve, ListenFails, ServeGoes, Listen, Ready, TakeSignal,
     CloseListener, AcceptFails, Drain, TakeList, Tell, Wait, WaitReturns, StopTimer,
     Persist, CloseDone, TypeOK, ServeTypeOK
<1>2. CASE Load
  BY <1>2 DEF Load, Answered
<1>3. CASE (Caller /\ ~Load) \/ Call \/ OsSignal
  BY <1>3 DEF Caller, SendSignal, DoneSeen, TimesOut, LoadFails, Call, OsSignal
<1>4. ASSUME NEW k \in Conns,
             Accept(k) \/ ServeClient(k) \/ ManageClient(k) \/ ClientEnds(k)
      PROVE  serve'.at \in Answered => serve.at \in Answered
  <2>1. serve' = serve \/ serve.at = "wait"
    BY <1>4 DEF Accept, ServeClient, Add, ManageClient, ClientEnds, UnmanageClient, Done,
       ClientStep
  <2>2. QED
    BY <2>1 DEF Answered
<1>5. CASE UNCHANGED vars \/ \E t \in Ticks : Tick(t)
  BY <1>5 DEF vars, Tick
<1>6. QED
  BY <1>1, <1>2, <1>3, <1>4, <1>5 DEF Next

LEMMA HandlerStays == TypeInv /\ ConnInv /\ HandlerInv /\ [Next]_vars => HandlerInv'
<1> SUFFICES ASSUME TypeInv, ConnInv, HandlerInv, [Next]_vars,
                    RetainedTopic, serve'.at \in Answered, ~raced'
             PROVE  answering' = {natsConn'}
  BY DEF HandlerInv
<1> USE DEF TypeInv, TypeOK
<1>1. CASE StartHandler
  <2>1. serve.at = "handler"
    BY <1>1 DEF StartHandler
  <2>2. HandlerStarts
    <3>1. serve' # serve
      BY <2>1 DEF Answered
    <3>2. serve'.at # "down"
      BY DEF Answered
    <3>3. QED
      BY <1>1, <3>1, <3>2 DEF StartHandler, ServeGoes, ServeTypeOK
  <2>3. open \subseteq {natsConn}
    BY <2>2 DEF ConnInv, HandlerStarts
  <2>4. QED
    BY <2>2, <2>3 DEF HandlerStarts, ServerConnTypeOK
<1>2. ASSUME NEW t \in Ticks, Tick(t)
      PROVE  answering' = {natsConn'}
  <2>1. serve' = serve /\ answering' = answering
    BY <1>2, Zenon DEF Tick, ServerNatsConn, TestNatsConn, Dial, DialFails, Republish
  <2>2. ServerNatsConn(t) \/ Republish(t)
    BY <1>2 DEF Tick, ServerNatsConn
  <2>3. ~raced /\ (natsConn # 0 => natsConn' = natsConn)
    BY <2>1, <2>2, UserKeepsConn DEF Users
  <2>4. answering = {natsConn} /\ natsConn # 0
    BY <2>1, <2>3 DEF HandlerInv, ServerConnTypeOK
  <2>5. QED
    BY <2>1, <2>3, <2>4
<1>3. CASE CloseServerConn
  BY <1>3 DEF CloseServerConn, ServeGoes, ServeTypeOK, Answered
<1>4. CASE ~StartHandler /\ ~CloseServerConn /\ ~\E t \in Ticks : Tick(t)
  <2>1. UNCHANGED serverConnVars /\ serve.at \in Answered
    BY <1>4, OthersLeaveConn, NotAnsweredYet
  <2>2. QED
    BY <2>1 DEF serverConnVars, HandlerInv
<1>5. QED
  BY <1>1, <1>2, <1>3, <1>4

(* While the bridge accepts clients, retained requests are answered on one *)
(* connection, the server's own, unless two goroutines raced for it.       *)
THEOREM OneConnAnswers == Spec => []RetainedAnsweredOnce
<1>1. Init => HandlerInv
  BY DEF Init, HandlerInv, Answered
<1>2. HandlerInv => RetainedAnsweredOnce
  BY DEF HandlerInv, Answered, RetainedAnsweredOnce
<1>3. QED
  BY <1>1, <1>2, Typed, ConnHolds, HandlerStays, PTL DEF Spec

-----------------------------------------------------------------------------
(* Calls of Shutdown and Restart.  A closed done is that of the last call  *)
(* of Serve, which has persisted, and no Serve runs but the one that       *)
(* Restart calls.                                                          *)

Persisted == Storage => file = serve.times
RestartInv ==
    /\ serve.at \in Booting => call.at \in {"none", "serve"}
    /\ call.at = "serve" => serve.at \in Booting
    /\ serve.at = "done" => Persisted
    /\ done = "closed" => serve.at \in Booting \cup {"down"} /\ Persisted
    /\ call.at = "load" => serve.at = "down" /\ done = "closed"

LEMMA RestartStays == TypeInv /\ RestartInv /\ [Next]_vars => RestartInv'
<1> SUFFICES ASSUME TypeInv, RestartInv, [Next]_vars PROVE RestartInv'
  OBVIOUS
<1> USE DEF TypeInv, TypeOK, ServeTypeOK, CallTypeOK, NoCall, Persisted, Booting
<1>1. CASE Listen \/ ListenFails \/ StartHandler \/ Ready
  <2>1. CASE Listen
    BY <2>1 DEF RestartInv, Listen, ServeGoes, callVars
  <2>2. CASE ListenFails
    BY <2>2 DEF RestartInv, ListenFails, ServeGoes
  <2>3. CASE StartHandler
    <3>1. /\ serve.at = "handler" /\ UNCHANGED <<done, file>>
          /\ \/ UNCHANGED <<serve, call>>
             \/ serve' = [serve EXCEPT !.at = "ready"] /\ call' = call
             \/ serve' = [serve EXCEPT !.at = "down"] /\ call' = NoCall
      BY <2>3, Zenon DEF StartHandler, ServeGoes
    <3>2. QED
      BY <3>1 DEF RestartInv
  <2>4. CASE Ready
    BY <2>4 DEF RestartInv, Ready
  <2>5. QED
    BY <1>1, <2>1, <2>2, <2>3, <2>4
<1>2. CASE TakeSignal \/ CloseListener \/ AcceptFails
  BY <1>2 DEF RestartInv, TakeSignal, CloseListener, AcceptFails, ServeGoes, callVars
<1>3. CASE Drain
  <2>1. CASE Persist
    BY <2>1 DEF RestartInv, Persist, ServeGoes, Saved, callVars
  <2>2. CASE CloseDone
    BY <2>2 DEF RestartInv, CloseDone, ServeGoes, callVars
  <2>3. CASE ~Persist /\ ~CloseDone
    <3>1. UNCHANGED <<call, done, file>>
      BY <1>3, <2>3 DEF Drain, TakeList, Tell, Wait, WaitReturns, StopTimer, CloseServerConn,
         callVars
    <3>2. /\ serve.at \in Draining
          /\ serve'.at \in Draining \ {"done"}
      BY <1>3, <2>3 DEF Draining, Drain, TakeList, Tell, Wait, WaitReturns, StopTimer,
         CloseServerConn, ServeGoes
    <3>3. QED
      BY <3>1, <3>2 DEF RestartInv, Draining
  <2>4. QED
    BY <2>1, <2>2, <2>3
<1>4. CASE Caller \/ Call \/ OsSignal
  <2>1. UNCHANGED <<done, file>>
    BY <1>4 DEF Caller, SendSignal, DoneSeen, TimesOut, Load, LoadFails, Call, OsSignal, CallStep
  <2>2. CASE SendSignal \/ DoneSeen \/ TimesOut \/ LoadFails \/ OsSignal
    BY <2>1, <2>2 DEF RestartInv, SendSignal, DoneSeen, TimesOut, AfterTimeout, LoadFails,
       OsSignal, callVars
  <2>3. CASE Call
    <3>1. serve.at \notin Booting /\ call'.at = "send" /\ serve' = serve
      BY <2>3 DEF Call
    <3>2. QED
      BY <2>1, <3>1 DEF RestartInv
  <2>4. CASE Load
    BY <2>1, <2>4 DEF RestartInv, Load
  <2>5. QED
    BY <1>4, <2>2, <2>3, <2>4 DEF Caller
<1>5. ASSUME NEW k \in Conns, Accept(k) \/ ServeClient(k) \/ ManageClient(k) \/ ClientEnds(k)
      PROVE  RestartInv'
  <2>1. UNCHANGED <<call, done, file>>
    BY <1>5 DEF Accept, ServeClient, Add, ManageClient, ClientEnds, UnmanageClient, Done,
       ClientStep, callVars
  <2>2. serve' = serve \/ (serve.at = "wait" /\ serve' = [serve EXCEPT !.at = "woken"])
    BY <1>5 DEF Accept, ServeClient, Add, ManageClient, ClientEnds, UnmanageClient, Done,
       ClientStep
  <2>3. QED
    BY <2>1, <2>2 DEF RestartInv
<1>6. CASE UNCHANGED vars \/ \E t \in Ticks : Tick(t)
  BY <1>6 DEF RestartInv, vars, Tick, callVars
<1>7. QED
  BY <1>1, <1>2, <1>3, <1>4, <1>5, <1>6 DEF Next, Serve

(* Restart calls load and Serve only when the last Serve has ended, and it *)
(* loads what that one persisted, not an older state.                      *)
THEOREM RestartFollowsShutdown == Spec => LoadsWhatWasPersisted
<1>1. Init => RestartInv
  BY DEF Init, RestartInv, NoCall, Booting
<1>2. RestartInv /\ [Next]_vars =>
        [call.at = "load" /\ call'.at = "serve"
           => serve.at = "down" /\ (Storage => file = serve.times)]_vars
  BY DEF RestartInv, Persisted
<1>3. QED
  BY <1>1, <1>2, Typed, RestartStays, PTL DEF Spec, LoadsWhatWasPersisted

-----------------------------------------------------------------------------
(* The list of managed clients.  Outside the loop that tells them, the     *)
(* drain holds none: taking a new list cannot lose an old one.             *)

ManagedInv ==
    /\ ManagedIsKept
    /\ serve.at # "tell" => serve.taken = <<>>

LEMMA OthersHoldNothing ==
  ASSUME TypeOK, ManagedInv, [Next]_vars, ~TakeList, ~Tell
  PROVE  serve'.at # "tell" => serve'.taken = <<>>
<1> USE DEF TypeOK, ServeTypeOK, ManagedInv
<1>1. CASE Wait
  BY <1>1 DEF Wait, ServeGoes
<1>2. CASE Load
  BY <1>2 DEF Load
<1>3. CASE (Serve \/ ListenFails) /\ ~Wait
  <2>1. CASE Drain
    <3>1. serve.at # "tell" /\ serve'.taken = serve.taken
      BY <1>3, <2>1 DEF Drain, WaitReturns, StopTimer, CloseServerConn, Persist, CloseDone,
         ServeGoes
    <3>2. QED
      BY <3>1
  <2>2. CASE TakeSignal \/ CloseListener
    BY <2>2 DEF TakeSignal, CloseListener
  <2>3. CASE Listen \/ ListenFails \/ StartHandler \/ Ready \/ AcceptFails
    BY <2>3 DEF Listen, ListenFails, StartHandler, Ready, AcceptFails, ServeGoes
  <2>4. QED
    BY <1>3, <2>1, <2>2, <2>3 DEF Serve
<1>4. CASE (Caller /\ ~Load) \/ Call \/ OsSignal
  BY <1>4 DEF Caller, SendSignal, DoneSeen, TimesOut, LoadFails, Call, OsSignal
<1>5. ASSUME NEW k \in Conns, Accept(k) \/ ServeClient(k) \/ ManageClient(k) \/ ClientEnds(k)
      PROVE  serve'.at # "tell" => serve'.taken = <<>>
  <2>1. serve' = serve \/ (serve.at = "wait" /\ serve' = [serve EXCEPT !.at = "woken"])
    BY <1>5 DEF Accept, ServeClient, Add, ManageClient, ClientEnds, UnmanageClient, Done,
       ClientStep
  <2>2. QED
    BY <2>1
<1>6. CASE UNCHANGED vars \/ \E t \in Ticks : Tick(t)
  BY <1>6 DEF vars, Tick
<1>7. QED
  BY <1>1, <1>2, <1>3, <1>4, <1>5, <1>6 DEF Next

LEMMA TellLosesNone ==
  ASSUME TypeOK, ManagedInv, TakeList \/ Tell
  PROVE  ManagedInv'
<1> USE DEF TypeOK, ServeTypeOK, ClientTypeOK, ManagedInv, ManagedIsKept
<1>1. CASE TakeList
  <2>1. serve.taken = <<>> /\ serve'.taken = clients /\ conn' = conn /\ serve'.at = "tell"
    BY <1>1 DEF TakeList, Taken
  <2>2. \A k \in Conns : ~Contains(serve.taken, k)
    BY <2>1 DEF Contains
  <2>3. QED
    BY <2>1, <2>2
<1>2. CASE Tell
  <2> DEFINE told == Head(serve.taken)
  <2>1. /\ told \in Conns /\ Tail(serve.taken) \in Seq(Conns)
        /\ Len(Tail(serve.taken)) = Len(serve.taken) - 1
        /\ \A i \in 1..Len(Tail(serve.taken)) : Tail(serve.taken)[i] = serve.taken[i + 1]
    BY <1>2, HeadTailProperties DEF Tell
  <2>2. /\ conn' = [conn EXCEPT ![told].told = TRUE] /\ clients' = clients
        /\ serve'.taken = Tail(serve.taken) /\ serve'.at = "tell"
    BY <1>2 DEF Tell
  <2>3. ASSUME NEW k \in Conns \ {told}, Contains(serve.taken, k)
        PROVE  Contains(serve'.taken, k)
    <3>1. PICK i \in 1..Len(serve.taken) : serve.taken[i] = k
      BY <2>3 DEF Contains
    <3>2. i # 1
      BY <3>1
    <3>3. i - 1 \in 1..Len(Tail(serve.taken)) /\ Tail(serve.taken)[i - 1] = k
      BY <2>1, <3>1, <3>2
    <3>4. QED
      BY <2>1, <2>2, <3>3 DEF Contains
  <2>4. \A k \in Conns : /\ conn'[k].at = conn[k].at
                        /\ conn'[k].told = (k = told \/ conn[k].told)
    BY <2>1, <2>2
  <2>5. QED
    BY <2>2, <2>3, <2>4
<1>3. QED
  BY <1>1, <1>2

(* A goroutine of ServeClient moves its own client only.                   *)
LEMMA ClientsLoseNone ==
  ASSUME TypeOK, ManagedInv, NEW k \in Conns,
         Accept(k) \/ ServeClient(k) \/ ManageClient(k) \/ ClientEnds(k)
  PROVE  ManagedIsKept'
<1> USE DEF TypeOK, ServeTypeOK, ClientTypeOK, ManagedInv, ManagedIsKept
<1>1. serve'.taken = serve.taken
  BY DEF Accept, ServeClient, Add, ManageClient, ClientEnds, UnmanageClient, Done, ClientStep
<1>2. \A j \in Conns \ {k} : conn'[j] = conn[j]
  BY DEF Accept, ServeClient, Add, ManageClient, ClientEnds, UnmanageClient, Done, ConnGoes
<1>3. CASE ManageClient(k)
  <2>1. clients' = Append(clients, k)
    BY <1>3 DEF ManageClient
  <2>2. /\ clients' \in Seq(Conns) /\ Len(clients') = Len(clients) + 1 /\ Len(clients) \in Nat
        /\ clients'[Len(clients) + 1] = k
        /\ \A i \in 1..Len(clients) : clients'[i] = clients[i]
    BY <2>1, AppendProperties
  <2>3. Contains(clients', k)
    BY <2>2 DEF Contains
  <2>4. \A j \in Conns : Contains(clients, j) => Contains(clients', j)
    BY <2>2 DEF Contains
  <2>5. QED
    BY <1>1, <1>2, <2>3, <2>4
<1>4. CASE ~ManageClient(k)
  <2>1. conn'[k].at # "managed"
    BY <1>4 DEF Accept, ServeClient, Add, ClientEnds, UnmanageClient, Done, ConnGoes
  <2>2. \A j \in Conns \ {k} : Contains(clients, j) => Contains(clients', j)
    <3>1. clients' = clients \/ clients' = Without(k)
      BY <1>4 DEF Accept, ServeClient, Add, ClientEnds, UnmanageClient, Done
    <3>2. QED
      BY <3>1, WithoutOne
  <2>3. QED
    BY <1>1, <1>2, <2>1, <2>2
<1>5. QED
  BY <1>3, <1>4

LEMMA ManagedStays == TypeInv /\ RestartInv /\ ManagedInv /\ [Next]_vars => ManagedInv'
<1> SUFFICES ASSUME TypeInv, RestartInv, ManagedInv, [Next]_vars PROVE ManagedInv'
  OBVIOUS
<1> USE DEF TypeInv
<1>1. CASE TakeList \/ Tell
  BY <1>1, TellLosesNone
<1>2. CASE ~TakeList /\ ~Tell
  <2>1. serve'.at # "tell" => serve'.taken = <<>>
    BY <1>2, OthersHoldNothing
  <2>2. ManagedIsKept'
    <3>1. ASSUME NEW k \in Conns,
                 Accept(k) \/ ServeClient(k) \/ ManageClient(k) \/ ClientEnds(k)
          PROVE  ManagedIsKept'
      BY <3>1, ClientsLoseNone
    <3>2. CASE Serve \/ ListenFails
      <4>1. clients' = clients /\ serve'.taken = serve.taken
        BY <1>2, <3>2 DEF Serve, ListenFails, ServeGoes, Listen, StartHandler, Ready,
           TakeSignal, CloseListener, AcceptFails, Drain, Wait, WaitReturns, StopTimer,
           CloseServerConn, Persist, CloseDone, clientVars, TypeOK, ServeTypeOK
      <4>2. conn' = conn \/ conn' = [k \in Conns |-> [conn[k] EXCEPT !.late = FALSE]]
        BY <1>2, <3>2 DEF Serve, ListenFails, Listen, StartHandler, Ready, TakeSignal,
           CloseListener, AcceptFails, Drain, Wait, WaitReturns, StopTimer, CloseServerConn,
           Persist, CloseDone, clientVars
      <4>3. \A k \in Conns : conn'[k].at = conn[k].at /\ conn'[k].told = conn[k].told
        BY <4>2 DEF TypeOK, ClientTypeOK
      <4>4. QED
        BY <4>1, <4>3 DEF ManagedInv, ManagedIsKept
    <3>3. CASE Caller \/ Call \/ OsSignal
      <4>1. UNCHANGED <<conn, clients>>
        BY <3>3 DEF Caller, SendSignal, DoneSeen, TimesOut, Load, LoadFails, Call, OsSignal,
           CallStep, clientVars
      <4>2. serve'.taken = serve.taken
        <5>1. CASE Load
          BY <5>1 DEF Load, RestartInv, ManagedInv
        <5>2. CASE ~Load
          BY <3>3, <5>2 DEF Caller, SendSignal, DoneSeen, TimesOut, LoadFails, Call, OsSignal
        <5>3. QED
          BY <5>1, <5>2
      <4>3. QED
        BY <4>1, <4>2 DEF ManagedInv, ManagedIsKept
    <3>4. CASE UNCHANGED vars \/ \E t \in Ticks : Tick(t)
      BY <3>4 DEF vars, Tick, clientVars, ManagedInv, ManagedIsKept
    <3>5. QED
      BY <3>1, <3>2, <3>3, <3>4 DEF Next
  <2>3. QED
    BY <2>1, <2>2 DEF ManagedInv
<1>3. QED
  BY <1>1, <1>2

(* unmanageClient and drainAndShutdown lose no client that is managed and  *)
(* was not told to disconnect: the drain can still tell it.                *)
THEOREM NoClientIsForgotten == Spec => []ManagedIsKept
<1>1. Init => ManagedInv
  BY DEF Init, ManagedInv, ManagedIsKept
<1>2. Init => RestartInv
  BY DEF Init, RestartInv, NoCall, Booting
<1>3. ManagedInv => ManagedIsKept
  BY DEF ManagedInv
<1>4. QED
  BY <1>1, <1>2, <1>3, Typed, RestartStays, ManagedStays, PTL DEF Spec
=============================================================================
